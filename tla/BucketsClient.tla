--------------------------- MODULE BucketsClient ---------------------------
(***************************************************************************)
(* RenderBucketsClient (RibRenderLib_Net_RenderBucketsClient.cpp): the     *)
(* client hands ranges of 4 buckets to render servers and waits for their  *)
(* replies.  Each server is reached through a PacketManager, abstracted    *)
(* here to a FIFO channel each way (toSrv, fromSrv) that is reliable while *)
(* the server is connected; a disconnection (the peer closing, or the      *)
(* packet manager's mFatalError) loses both channels for good.  The        *)
(* render servers' code is not part of the repository: SrvRender replies   *)
(* with one bucket-data packet per range, SrvStray sends some other packet.*)
(*                                                                         *)
(* Render runs on one thread; its loops are split at the points where it   *)
(* sleeps or moves to the next range, and pc says where it is.             *)
(***************************************************************************)
EXTENDS Integers, Sequences, FiniteSets

CONSTANTS
    ServersN,       \* entries of mpServList, tried in index order
    BucketsN,       \* hider.GetBuckets().size()
    Disconnects,    \* whether a server may disconnect
    MaxStray        \* bound on packets other than bucket data

Servers == 1..ServersN

\* the range size hard-coded in Render
RangeLen == 4

VARIABLES
    pc,             \* dispatch, check, sendDone, final, returned, aborted
    buckRangeX1,    \* Render's loop variable
    connected,      \* srv.IsConnected()
    mIsBusy,        \* srv.mIsBusy
    toSrv,          \* messages sent by srv.mpPakMan->Send, not yet read
    fromSrv,        \* packets the server sent, not yet taken by GetNextPacket
    sent,           \* history: the ranges dispatched, in order, with server
    completed,      \* history: ranges whose bucket data the client consumed
    strays          \* number of stray packets sent so far

vars == <<pc, buckRangeX1, connected, mIsBusy, toSrv, fromSrv, sent,
          completed, strays>>

DMIN(a, b) == IF a < b THEN a ELSE b

\* a range whose end is not clamped to the bucket count
BucketRangeNoClamp(x1) == [start |-> x1, end |-> x1 + RangeLen]

BucketRange(x1) == [start |-> x1, end |-> DMIN(x1 + RangeLen, BucketsN)]

RendBuckets(r) == [type |-> "RendBuckets", range |-> r]
RendDone == [type |-> "RendDone", range |-> [start |-> 0, end |-> 0]]

-----------------------------------------------------------------------------
(* isAnyServerAvailable and findFreeServer: the first connected server     *)
(* that is not busy.                                                       *)
IsAnyServerAvailable == \E s \in Servers : connected[s]

IsFree(s) == connected[s] /\ ~mIsBusy[s]

FindFreeServer == CHOOSE s \in Servers :
                      IsFree(s) /\ \A t \in 1..(s - 1) : ~IsFree(t)

(* checkServersData: every connected busy server with a packet has it      *)
(* dequeued (GetNextPacket removes it); bucket data clears mIsBusy, any    *)
(* other packet is dropped.  allDone is false only for a polled server     *)
(* with no packet.                                                         *)
Polled(s) == connected[s] /\ mIsBusy[s]

GotPacket(s) == Polled(s) /\ fromSrv[s] # <<>>

GotBucketData(s) == GotPacket(s) /\ Head(fromSrv[s]).id = "BUCKETDATA"

CheckBusy == [s \in Servers |-> IF GotBucketData(s) THEN FALSE
                                ELSE mIsBusy[s]]

CheckFromSrv == [s \in Servers |-> IF GotPacket(s) THEN Tail(fromSrv[s])
                                   ELSE fromSrv[s]]

CheckCompleted == completed \cup
                    {Head(fromSrv[s]).range : s \in {t \in Servers : GotBucketData(t)}}

\* allDone left true for a server that has sent nothing yet
AllDoneNoWait == TRUE

\* allDone also waiting on connected servers that are not busy
AllDoneAllConnected == \A s \in Servers : connected[s] => fromSrv[s] # <<>>

AllDone == \A s \in Servers : Polled(s) => fromSrv[s] # <<>>

CheckServersData ==
    /\ mIsBusy' = CheckBusy
    /\ fromSrv' = CheckFromSrv
    /\ completed' = CheckCompleted

-----------------------------------------------------------------------------
(* Render's first loop, one iteration per range.  dispatchToServer         *)
(* succeeding: the range goes to the first free server, which is marked    *)
(* busy.                                                                   *)
\* the server is sent the range but not marked busy
DispatchToServerNoBusy ==
    /\ pc = "dispatch"
    /\ \E s \in Servers : IsFree(s)
    /\ LET s == FindFreeServer IN
         /\ toSrv' = [toSrv EXCEPT ![s] = Append(@, RendBuckets(BucketRange(buckRangeX1)))]
         /\ sent' = Append(sent, [range |-> BucketRange(buckRangeX1), srv |-> s])
    /\ pc' = "check"
    /\ UNCHANGED <<buckRangeX1, connected, mIsBusy, fromSrv, completed, strays>>

DispatchToServer ==
    /\ pc = "dispatch"
    /\ \E s \in Servers : IsFree(s)
    /\ LET s == FindFreeServer IN
         /\ toSrv' = [toSrv EXCEPT ![s] = Append(@, RendBuckets(BucketRange(buckRangeX1)))]
         /\ mIsBusy' = [mIsBusy EXCEPT ![s] = TRUE]
         /\ sent' = Append(sent, [range |-> BucketRange(buckRangeX1), srv |-> s])
    /\ pc' = "check"
    /\ UNCHANGED <<buckRangeX1, connected, fromSrv, completed, strays>>

(* No free server and none connected: Render prints and returns.  (With a *)
(* connected but busy server it sleeps and retries dispatchToServer, a    *)
(* step that changes nothing.)                                            *)
NoServersAvailable ==
    /\ pc = "dispatch"
    /\ ~\E s \in Servers : IsFree(s)
    /\ ~IsAnyServerAvailable
    /\ pc' = "aborted"
    /\ UNCHANGED <<buckRangeX1, connected, mIsBusy, toSrv, fromSrv, sent,
                   completed, strays>>

(* checkServersData after a dispatch, then the next range.                *)
CheckAfterRange ==
    /\ pc = "check"
    /\ CheckServersData
    /\ buckRangeX1' = buckRangeX1 + RangeLen
    /\ pc' = IF buckRangeX1 + RangeLen < BucketsN THEN "dispatch" ELSE "sendDone"
    /\ UNCHANGED <<connected, toSrv, sent, strays>>

(* MsgRendDone to every connected server.                                  *)
SendRendDone ==
    /\ pc = "sendDone"
    /\ toSrv' = [s \in Servers |-> IF connected[s] THEN Append(toSrv[s], RendDone)
                                   ELSE toSrv[s]]
    /\ pc' = "final"
    /\ UNCHANGED <<buckRangeX1, connected, mIsBusy, fromSrv, sent, completed,
                   strays>>

(* The final loop: checkServersData until it returns true.                 *)
FinalCheck ==
    /\ pc = "final"
    /\ CheckServersData
    /\ pc' = IF AllDone THEN "returned" ELSE "final"
    /\ UNCHANGED <<buckRangeX1, connected, toSrv, sent, strays>>

-----------------------------------------------------------------------------
(* The render servers and the connections.                                 *)
SrvRender(s) ==
    /\ connected[s]
    /\ toSrv[s] # <<>>
    /\ Head(toSrv[s]).type = "RendBuckets"
    /\ toSrv' = [toSrv EXCEPT ![s] = Tail(@)]
    /\ fromSrv' = [fromSrv EXCEPT ![s] =
                     Append(@, [id |-> "BUCKETDATA", range |-> Head(toSrv[s]).range])]
    /\ UNCHANGED <<pc, buckRangeX1, connected, mIsBusy, sent, completed, strays>>

SrvRendDone(s) ==
    /\ connected[s]
    /\ toSrv[s] # <<>>
    /\ Head(toSrv[s]).type = "RendDone"
    /\ toSrv' = [toSrv EXCEPT ![s] = Tail(@)]
    /\ UNCHANGED <<pc, buckRangeX1, connected, mIsBusy, fromSrv, sent,
                   completed, strays>>

SrvStray(s) ==
    /\ connected[s]
    /\ strays < MaxStray
    /\ fromSrv' = [fromSrv EXCEPT ![s] =
                     Append(@, [id |-> "OTHER", range |-> RendDone.range])]
    /\ strays' = strays + 1
    /\ UNCHANGED <<pc, buckRangeX1, connected, mIsBusy, toSrv, sent, completed>>

Disconnect(s) ==
    /\ Disconnects
    /\ connected[s]
    /\ connected' = [connected EXCEPT ![s] = FALSE]
    /\ toSrv' = [toSrv EXCEPT ![s] = <<>>]
    /\ fromSrv' = [fromSrv EXCEPT ![s] = <<>>]
    /\ UNCHANGED <<pc, buckRangeX1, mIsBusy, sent, completed, strays>>

-----------------------------------------------------------------------------
Init ==
    /\ pc = IF 0 < BucketsN THEN "dispatch" ELSE "sendDone"
    /\ buckRangeX1 = 0
    /\ connected = [s \in Servers |-> TRUE]
    /\ mIsBusy = [s \in Servers |-> FALSE]
    /\ toSrv = [s \in Servers |-> <<>>]
    /\ fromSrv = [s \in Servers |-> <<>>]
    /\ sent = <<>>
    /\ completed = {}
    /\ strays = 0

Render == DispatchToServer \/ NoServersAvailable \/ CheckAfterRange
          \/ SendRendDone \/ FinalCheck

Next ==
    \/ Render
    \/ \E s \in Servers : SrvRender(s) \/ SrvRendDone(s) \/ SrvStray(s)
                          \/ Disconnect(s)

(* Render is a loop on the client's thread; a connected server renders     *)
(* and answers what it was sent.  Stray packets and disconnections are not *)
(* fair: they may never happen.                                            *)
Spec == Init /\ [][Next]_vars /\ WF_vars(Render)
        /\ \A s \in Servers : WF_vars(SrvRender(s)) /\ WF_vars(SrvRendDone(s))

-----------------------------------------------------------------------------
(* Properties                                                              *)

RangeRec == [start : 0..(BucketsN - 1), end : 1..BucketsN]

MsgRec == {RendBuckets(r) : r \in RangeRec} \cup {RendDone}

PacketRec == [id : {"BUCKETDATA"}, range : RangeRec]
             \cup [id : {"OTHER"}, range : {RendDone.range}]

TypeOK ==
    /\ pc \in {"dispatch", "check", "sendDone", "final", "returned", "aborted"}
    /\ buckRangeX1 \in 0..(BucketsN + RangeLen)
    /\ connected \in [Servers -> BOOLEAN]
    /\ mIsBusy \in [Servers -> BOOLEAN]
    /\ toSrv \in [Servers -> Seq(MsgRec)]
    /\ fromSrv \in [Servers -> Seq(PacketRec)]
    /\ sent \in Seq([range : RangeRec, srv : Servers])
    /\ completed \subseteq RangeRec
    /\ strays \in 0..MaxStray

(* The ranges a server still owes the client: requests not yet rendered   *)
(* and bucket data not yet consumed.                                      *)
Outstanding(s) ==
    Len(SelectSeq(toSrv[s], LAMBDA m : m.type = "RendBuckets"))
    + Len(SelectSeq(fromSrv[s], LAMBDA p : p.id = "BUCKETDATA"))

(* mIsBusy is the client's only record of a server's work: a connected    *)
(* server is busy exactly when it owes one range, and never owes two, so  *)
(* dispatchToServer never queues a second range behind the first and      *)
(* checkServersData clears the flag only when that range's data arrived.  *)
BusyMatchesOutstanding ==
    \A s \in Servers :
        connected[s] => /\ Outstanding(s) <= 1
                        /\ mIsBusy[s] <=> Outstanding(s) = 1

(* No server has disconnected and none has sent a stray packet so far    *)
(* (a disconnected server never reconnects).                              *)
NoFault == strays = 0 /\ \A s \in Servers : connected[s]

(* Render's comment "wait for all servers to complete": when Render       *)
(* returns normally (not through "No servers available"), the bucket data *)
(* of every bucket of the hider has been received.                        *)
EveryBucketRendered ==
    pc = "returned" =>
        \A b \in 0..(BucketsN - 1) : \E r \in completed : r.start <= b /\ b < r.end

(* The same, for the behaviours in which the servers keep to the protocol *)
(* and stay connected.                                                    *)
FaultFreeRendered == NoFault => EveryBucketRendered

(* Render returns, the dispatch loop and the final wait both ending,      *)
(* whenever the servers stay connected and keep to the protocol.          *)
RenderTerminates == []NoFault => <>(pc \in {"returned", "aborted"})
=============================================================================
