------------------------- MODULE MC_PacketManager -------------------------
(* Model values for PacketManager: two packets each way, bodies of one and *)
(* two bytes, and a send buffer smaller than one framed packet so that     *)
(* niceSend needs several calls per packet and can hit a full buffer.      *)
EXTENDS PacketManager

MCAppPackets  == <<<<7>>, <<8, 9>>>>
MCPeerPackets == <<<<5, 6>>, <<3>>>>
=============================================================================
