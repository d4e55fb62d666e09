--------------------------- MODULE PacketManager ---------------------------
(***************************************************************************)
(* DNET::PacketManager (src/DSystem/src/DNetwork_PacketManager.cpp).       *)
(*                                                                         *)
(* Two threads share one PacketManager:                                    *)
(*  - the application thread calls Send, GetNextPacket (or WaitNextPacket) *)
(*    and finally the destructor;                                          *)
(*  - the worker thread runs threadMain: flush the send in-queue, select,  *)
(*    write queued packets with niceSend, read a 4-byte length header and  *)
(*    then the body with niceRecv, and append complete packets to          *)
(*    mRecvOutQueue.                                                       *)
(* The socket is non-blocking: send and recv may move fewer bytes than     *)
(* asked, report EWOULDBLOCK, report a hard error, or (recv) return 0      *)
(* once the peer has closed.  The remote end is the environment: it writes *)
(* framed packets to the stream and drains what the worker writes.         *)
(*                                                                         *)
(* Data abstraction: a packet body is a short sequence of byte values; the *)
(* length header keeps its four little-endian bytes, because the worker    *)
(* reassembles it byte-wise.  Queue and critical-section operations are    *)
(* single steps: each is done under its lock in the code.                  *)
(***************************************************************************)
EXTENDS Integers, Sequences, SequencesExt

CONSTANTS
  AppPackets,      \* the packets the application passes to Send, in order
  PeerPackets,     \* the packets the remote end sends, in order
  SndBuf,          \* bytes the socket accepts before send would block
  SockErrors,      \* may send/recv/select fail with a hard error?
  PeerMayClose,    \* may the remote end close the connection?
  NetSplitsHeader  \* may a 4-byte length header arrive in two pieces?

ASSUME SndBuf \in Nat \ {0}
ASSUME SockErrors \in BOOLEAN /\ PeerMayClose \in BOOLEAN
ASSUME NetSplitsHeader \in BOOLEAN

VARIABLES
  inQueue,                 \* mSendList.mInQueue: framed buffers from Send
  sendQueue,               \* mSendList.mQueue: buffers the worker writes
  curSendPackDataSize,     \* bytes of sendQueue[1] already written
  curRecvPackDoneHeadSize, \* header bytes received so far
  curRecvPackDataSize,     \* the header variable, as its 4 bytes
  curRecvPackDoneDataSize, \* body bytes received so far
  recvBuff,                \* body bytes received (the zero fill of resize
                           \* is never read, so it is left out)
  recvOutQueue,            \* mRecvOutQueue: complete received packets
  quitRequest, quitAck, fatalError,  \* mQuitRequest, mQuitAck, mFatalError
  wpc,                     \* where the worker is in its loop
  apc,                     \* where the application thread is
  sentN,                   \* AppPackets passed to Send so far
  appGot,                  \* packets returned to the application
  wireIn,                  \* bytes that have arrived and are not yet read
  peerPos,                 \* bytes of PeerStream that have arrived
  peerClosed,              \* the peer has closed its end
  wireOut,                 \* every byte the worker's send() accepted
  outFlight                \* accepted bytes the peer has not drained

vars == <<inQueue, sendQueue, curSendPackDataSize, curRecvPackDoneHeadSize,
          curRecvPackDataSize, curRecvPackDoneDataSize, recvBuff, recvOutQueue,
          quitRequest, quitAck, fatalError, wpc, apc, sentN, appGot, wireIn,
          peerPos, peerClosed, wireOut, outFlight>>
sendVars == <<inQueue, sendQueue, curSendPackDataSize, wireOut, outFlight>>
recvVars == <<curRecvPackDoneHeadSize, curRecvPackDataSize,
              curRecvPackDoneDataSize, recvBuff, recvOutQueue>>
appVars  == <<apc, sentN, appGot>>
peerVars == <<wireIn, peerPos, peerClosed>>
flagVars == <<quitRequest, quitAck, fatalError>>

-----------------------------------------------------------------------------
(* sizeof(U32): the length header is a little-endian U32.                  *)
HeadSize == 4

(* The four bytes of the U32 n, as the memcpy/store of Send lays them out. *)
HeadBytes(n) == [j \in 1..HeadSize |-> (n \div (256 ^ (j - 1))) % 256]

(* The value of the header variable read back as an integer.               *)
HeadValue(h) == h[1] + 256 * h[2] + 65536 * h[3] + 16777216 * h[4]

(* Send's buffer: the U32 length followed by the payload.                  *)
Frame(p) == HeadBytes(Len(p)) \o p

(* recv writing k bytes at the start of the 4-byte header variable         *)
(* (&curRecvPackDataSize, with no offset), leaving the rest as it was.     *)
StoreAtStart(h, bytes) ==
  [j \in 1..HeadSize |-> IF j <= Len(bytes) THEN bytes[j] ELSE h[j]]

MinOf(a, b) == IF a < b THEN a ELSE b

(* The byte stream the remote end writes: its packets, framed.            *)
PeerStream == FlattenSeq([i \in 1..Len(PeerPackets) |-> Frame(PeerPackets[i])])

(* Positions of PeerStream that lie strictly inside a length header.       *)
InsideHeader ==
  UNION {{c + j : j \in 1..(HeadSize - 1)} :
          c \in {Len(FlattenSeq([i \in 1..m |-> Frame(PeerPackets[i])])) :
                 m \in 0..(Len(PeerPackets) - 1)}}

(* recv on a stream socket returns what has arrived, up to n bytes.        *)
RecvCount(n) == MinOf(n, Len(wireIn))

-----------------------------------------------------------------------------
(* Application thread.                                                     *)

(* PacketManager::Send: frame the payload and queue it under mInQueueCS.   *)
Send ==
  /\ apc = "run"
  /\ sentN < Len(AppPackets)
  /\ inQueue' = Append(inQueue, Frame(AppPackets[sentN + 1]))
  /\ sentN' = sentN + 1
  /\ UNCHANGED <<sendQueue, curSendPackDataSize, wireOut, outFlight, recvVars,
                 flagVars, wpc, apc, appGot, peerVars>>

(* PacketManager::GetNextPacket returning the head of mRecvOutQueue.  When *)
(* the queue is empty it returns NULL and changes nothing.                 *)
(* WaitNextPacket polls GetNextPacket until it returns a packet or         *)
(* mFatalError is set; its only state change is this one.                  *)
GetNextPacket ==
  /\ apc = "run"
  /\ recvOutQueue # <<>>
  /\ appGot' = Append(appGot, Head(recvOutQueue))
  /\ recvOutQueue' = Tail(recvOutQueue)
  /\ UNCHANGED <<sendVars, curRecvPackDoneHeadSize, curRecvPackDataSize,
                 curRecvPackDoneDataSize, recvBuff, flagVars, wpc, apc, sentN,
                 peerVars>>

(* ~PacketManager: raise mQuitRequest, then spin until mQuitAck.           *)
DestroyBegin ==
  /\ apc = "run"
  /\ quitRequest' = TRUE
  /\ apc' = "quitting"
  /\ UNCHANGED <<sendVars, recvVars, quitAck, fatalError, wpc, sentN, appGot,
                 peerVars>>

DestroyEnd ==
  /\ apc = "quitting"
  /\ quitAck
  /\ apc' = "destroyed"
  /\ UNCHANGED <<sendVars, recvVars, flagVars, wpc, sentN, appGot, peerVars>>

-----------------------------------------------------------------------------
(* Worker thread: one action per step of threadMain's loop that performs   *)
(* a socket call.  The zombie branch (mFatalError set, no quit request)    *)
(* sleeps and loops without changing any state, so it is a stuttering step *)
(* and has no action of its own.                                           *)

(* Mutant: the zombie test comes before the quit test, so a worker in the  *)
(* zombie state never acknowledges.                                        *)
ThreadQuitAfterZombie ==
  /\ wpc = "top"
  /\ quitRequest
  /\ ~fatalError
  /\ quitAck' = TRUE
  /\ wpc' = "done"
  /\ UNCHANGED <<sendVars, recvVars, quitRequest, fatalError, appVars, peerVars>>

(* "if ( mQuitRequest ) { mQuitAck = true; return; }"                      *)
ThreadQuit ==
  /\ wpc = "top"
  /\ quitRequest
  /\ quitAck' = TRUE
  /\ wpc' = "done"
  /\ UNCHANGED <<sendVars, recvVars, quitRequest, fatalError, appVars, peerVars>>

(* SendList::FlushInQueue: move the in-queue to the end of the send queue, *)
(* under mInQueueCS.                                                        *)
FlushInQueue ==
  /\ sendQueue' = sendQueue \o inQueue
  /\ inQueue' = <<>>

(* Flush, then select() with a 1 ms timeout.  A timeout goes on to the     *)
(* send and receive code just like readiness does.                         *)
ThreadSelect ==
  /\ wpc = "top"
  /\ ~quitRequest
  /\ ~fatalError
  /\ FlushInQueue
  /\ wpc' = "send"
  /\ UNCHANGED <<curSendPackDataSize, wireOut, outFlight, recvVars, flagVars,
                 appVars, peerVars>>

(* select() returning -1: mFatalError = true; continue.                    *)
ThreadSelectFail ==
  /\ wpc = "top"
  /\ ~quitRequest
  /\ ~fatalError
  /\ SockErrors
  /\ FlushInQueue
  /\ fatalError' = TRUE
  /\ UNCHANGED <<curSendPackDataSize, wireOut, outFlight, recvVars, quitRequest,
                 quitAck, wpc, appVars, peerVars>>

(* Mutant: the packet-complete branch forgets curSendPackDataSize = 0.    *)
ThreadSendBytesNoReset ==
  LET buf  == Head(sendQueue)
      k    == MinOf(Len(buf) - curSendPackDataSize, SndBuf - outFlight)
      done == curSendPackDataSize + k
  IN /\ wpc = "send"
     /\ sendQueue # <<>>
     /\ k > 0
     /\ wireOut' = wireOut \o SubSeq(buf, curSendPackDataSize + 1, done)
     /\ outFlight' = outFlight + k
     /\ sendQueue' = IF done = Len(buf) THEN Tail(sendQueue) ELSE sendQueue
     /\ curSendPackDataSize' = done
     /\ UNCHANGED <<inQueue, recvVars, flagVars, wpc, appVars, peerVars>>

(* Mutant: the whole rest of the buffer is counted as sent, as if send()   *)
(* never wrote less than it was asked to.                                  *)
ThreadSendBytesWhole ==
  LET buf  == Head(sendQueue)
      k    == Len(buf) - curSendPackDataSize
  IN /\ wpc = "send"
     /\ sendQueue # <<>>
     /\ outFlight < SndBuf
     /\ wireOut' = wireOut \o SubSeq(buf, curSendPackDataSize + 1, Len(buf))
     /\ outFlight' = outFlight + k
     /\ sendQueue' = Tail(sendQueue)
     /\ curSendPackDataSize' = 0
     /\ UNCHANGED <<inQueue, recvVars, flagVars, wpc, appVars, peerVars>>

(* niceSend on the head of the send queue moves what the socket accepts;   *)
(* when the packet is complete (return 2) it is deleted and                *)
(* curSendPackDataSize goes back to 0; otherwise (return 0) the while loop *)
(* tries again.                                                             *)
ThreadSendBytes ==
  LET buf  == Head(sendQueue)
      k    == MinOf(Len(buf) - curSendPackDataSize, SndBuf - outFlight)
      done == curSendPackDataSize + k
  IN /\ wpc = "send"
     /\ sendQueue # <<>>
     /\ k > 0
     /\ wireOut' = wireOut \o SubSeq(buf, curSendPackDataSize + 1, done)
     /\ outFlight' = outFlight + k
     /\ IF done = Len(buf)
          THEN /\ sendQueue' = Tail(sendQueue)
               /\ curSendPackDataSize' = 0
          ELSE /\ curSendPackDataSize' = done
               /\ UNCHANGED sendQueue
     /\ UNCHANGED <<inQueue, recvVars, flagVars, wpc, appVars, peerVars>>

(* send() fails with EWOULDBLOCK: niceSend returns -1, which the caller    *)
(* handles as "error !!": mFatalError = true; goto fatalError.             *)
ThreadSendWouldBlock ==
  /\ wpc = "send"
  /\ sendQueue # <<>>
  /\ outFlight = SndBuf
  /\ fatalError' = TRUE
  /\ wpc' = "top"
  /\ UNCHANGED <<sendVars, recvVars, quitRequest, quitAck, appVars, peerVars>>

(* send() fails with another error: niceSend returns 1, which the caller   *)
(* handles as "would block": goto outOfSend.                                *)
ThreadSendError ==
  /\ wpc = "send"
  /\ sendQueue # <<>>
  /\ SockErrors
  /\ wpc' = "recvHead"
  /\ UNCHANGED <<sendVars, recvVars, flagVars, appVars, peerVars>>

(* The send queue is empty: the while loop ends.                           *)
ThreadSendDone ==
  /\ wpc = "send"
  /\ sendQueue = <<>>
  /\ wpc' = "recvHead"
  /\ UNCHANGED <<sendVars, recvVars, flagVars, appVars, peerVars>>

(* Reading the head: recv into &curRecvPackDataSize for the missing header *)
(* bytes.  Once all 4 are in, recvBuff is resized to the value read.       *)
ThreadRecvHead ==
  LET k     == RecvCount(HeadSize - curRecvPackDoneHeadSize)
      head  == StoreAtStart(curRecvPackDataSize, SubSeq(wireIn, 1, k))
  IN /\ wpc = "recvHead"
     /\ curRecvPackDoneHeadSize < HeadSize
     /\ wireIn # <<>>
     /\ curRecvPackDataSize' = head
     /\ curRecvPackDoneHeadSize' = curRecvPackDoneHeadSize + k
     /\ wireIn' = SubSeq(wireIn, k + 1, Len(wireIn))
     /\ wpc' = "recvBody"
     /\ UNCHANGED <<sendVars, curRecvPackDoneDataSize, recvBuff, recvOutQueue,
                    flagVars, appVars, peerPos, peerClosed>>

(* The head is already complete, or recv has nothing: EWOULDBLOCK, or 0    *)
(* bytes from a closed peer, both of which leave the counters alone.       *)
ThreadRecvHeadNone ==
  /\ wpc = "recvHead"
  /\ curRecvPackDoneHeadSize = HeadSize \/ wireIn = <<>>
  /\ wpc' = "recvBody"
  /\ UNCHANGED <<sendVars, recvVars, flagVars, appVars, peerVars>>

(* recv on the head fails with a hard error: mFatalError = true.           *)
ThreadRecvHeadError ==
  /\ wpc = "recvHead"
  /\ curRecvPackDoneHeadSize < HeadSize
  /\ SockErrors
  /\ fatalError' = TRUE
  /\ wpc' = "top"
  /\ UNCHANGED <<sendVars, recvVars, quitRequest, quitAck, appVars, peerVars>>

(* The expected body length, from the received header.                     *)
BodySize == HeadValue(curRecvPackDataSize)

(* Mutant: recvBuff.clear() is missing after a packet is queued.          *)
ThreadRecvBodyNoClear ==
  LET k    == RecvCount(BodySize - curRecvPackDoneDataSize)
      body == recvBuff \o SubSeq(wireIn, 1, k)
  IN /\ wpc = "recvBody"
     /\ curRecvPackDoneHeadSize = HeadSize
     /\ wireIn # <<>> \/ BodySize = curRecvPackDoneDataSize
     /\ wireIn' = SubSeq(wireIn, k + 1, Len(wireIn))
     /\ recvBuff' = body
     /\ IF curRecvPackDoneDataSize + k = BodySize
          THEN /\ recvOutQueue' = Append(recvOutQueue, body)
               /\ curRecvPackDoneHeadSize' = 0
               /\ curRecvPackDataSize' = HeadBytes(0)
               /\ curRecvPackDoneDataSize' = 0
          ELSE /\ curRecvPackDoneDataSize' = curRecvPackDoneDataSize + k
               /\ UNCHANGED <<recvOutQueue, curRecvPackDoneHeadSize,
                              curRecvPackDataSize>>
     /\ wpc' = "top"
     /\ UNCHANGED <<sendVars, flagVars, appVars, peerPos, peerClosed>>

(* niceRecv on the body.  Return 2 (complete) pushes the packet on         *)
(* mRecvOutQueue under mRecvOutQueueCS and resets the three counters; a    *)
(* zero-length body completes at once, since recv of 0 bytes returns 0.    *)
ThreadRecvBody ==
  LET k    == RecvCount(BodySize - curRecvPackDoneDataSize)
      body == recvBuff \o SubSeq(wireIn, 1, k)
  IN /\ wpc = "recvBody"
     /\ curRecvPackDoneHeadSize = HeadSize
     /\ wireIn # <<>> \/ BodySize = curRecvPackDoneDataSize
     /\ wireIn' = SubSeq(wireIn, k + 1, Len(wireIn))
     /\ IF curRecvPackDoneDataSize + k = BodySize
          THEN /\ recvOutQueue' = Append(recvOutQueue, body)
               /\ recvBuff' = <<>>
               /\ curRecvPackDoneHeadSize' = 0
               /\ curRecvPackDataSize' = HeadBytes(0)
               /\ curRecvPackDoneDataSize' = 0
          ELSE /\ recvBuff' = body
               /\ curRecvPackDoneDataSize' = curRecvPackDoneDataSize + k
               /\ UNCHANGED <<recvOutQueue, curRecvPackDoneHeadSize,
                              curRecvPackDataSize>>
     /\ wpc' = "top"
     /\ UNCHANGED <<sendVars, flagVars, appVars, peerPos, peerClosed>>

(* recv on the body finds nothing.  From a closed peer it returns 0 and    *)
(* niceRecv returns 0.  EWOULDBLOCK makes niceRecv return -1, which the    *)
(* caller handles as "error !!": mFatalError = true.                       *)
ThreadRecvBodyNone ==
  /\ wpc = "recvBody"
  /\ curRecvPackDoneHeadSize = HeadSize
  /\ wireIn = <<>>
  /\ BodySize > curRecvPackDoneDataSize
  /\ fatalError' = ~peerClosed
  /\ wpc' = "top"
  /\ UNCHANGED <<sendVars, recvVars, quitRequest, quitAck, appVars, peerVars>>

(* recv on the body fails with a hard error: niceRecv returns 1, which the *)
(* caller handles as "would block": break.                                  *)
ThreadRecvBodyError ==
  /\ wpc = "recvBody"
  /\ curRecvPackDoneHeadSize = HeadSize
  /\ SockErrors
  /\ wpc' = "top"
  /\ UNCHANGED <<sendVars, recvVars, flagVars, appVars, peerVars>>

(* No complete head: the body is not read this time round.                 *)
ThreadSkipBody ==
  /\ wpc = "recvBody"
  /\ curRecvPackDoneHeadSize < HeadSize
  /\ wpc' = "top"
  /\ UNCHANGED <<sendVars, recvVars, flagVars, appVars, peerVars>>

-----------------------------------------------------------------------------
(* The remote end and the network.                                         *)

(* The next bytes of the peer's stream arrive, cut anywhere, or only       *)
(* outside length headers when NetSplitsHeader is FALSE.                   *)
PeerArrive ==
  /\ ~peerClosed
  /\ \E c \in (peerPos + 1)..Len(PeerStream) :
       /\ NetSplitsHeader \/ c \notin InsideHeader
       /\ wireIn' = wireIn \o SubSeq(PeerStream, peerPos + 1, c)
       /\ peerPos' = c
  /\ UNCHANGED <<sendVars, recvVars, flagVars, wpc, appVars, peerClosed>>

(* The peer reads everything the worker has written so far.                *)
PeerDrain ==
  /\ outFlight > 0
  /\ outFlight' = 0
  /\ UNCHANGED <<inQueue, sendQueue, curSendPackDataSize, wireOut, recvVars,
                 flagVars, wpc, appVars, peerVars>>

PeerClose ==
  /\ PeerMayClose
  /\ ~peerClosed
  /\ peerClosed' = TRUE
  /\ UNCHANGED <<sendVars, recvVars, flagVars, wpc, appVars, wireIn, peerPos>>

-----------------------------------------------------------------------------
Init ==
  /\ inQueue = <<>>
  /\ sendQueue = <<>>
  /\ curSendPackDataSize = 0
  /\ curRecvPackDoneHeadSize = 0
  /\ curRecvPackDataSize = HeadBytes(0)
  /\ curRecvPackDoneDataSize = 0
  /\ recvBuff = <<>>
  /\ recvOutQueue = <<>>
  /\ quitRequest = FALSE
  /\ quitAck = FALSE
  /\ fatalError = FALSE
  /\ wpc = "top"
  /\ apc = "run"
  /\ sentN = 0
  /\ appGot = <<>>
  /\ wireIn = <<>>
  /\ peerPos = 0
  /\ peerClosed = FALSE
  /\ wireOut = <<>>
  /\ outFlight = 0

AppStep ==
  Send \/ GetNextPacket \/ DestroyBegin \/ DestroyEnd

WorkerStep ==
  \/ ThreadQuit \/ ThreadSelect \/ ThreadSelectFail
  \/ ThreadSendBytes \/ ThreadSendWouldBlock \/ ThreadSendError \/ ThreadSendDone
  \/ ThreadRecvHead \/ ThreadRecvHeadNone \/ ThreadRecvHeadError
  \/ ThreadRecvBody \/ ThreadRecvBodyNone \/ ThreadRecvBodyError
  \/ ThreadSkipBody

PeerStep == PeerArrive \/ PeerDrain \/ PeerClose

Next == AppStep \/ WorkerStep \/ PeerStep

(* The OS keeps scheduling the worker (select times out after 1 ms, it     *)
(* never blocks), the destructor spins until it sees mQuitAck, and the     *)
(* remote end keeps sending and reading.  The application is not fair: it *)
(* may never call anything again.                                          *)
Fairness ==
  /\ WF_vars(WorkerStep)
  /\ WF_vars(DestroyEnd)
  /\ WF_vars(PeerArrive)
  /\ WF_vars(PeerDrain)

Spec == Init /\ [][Next]_vars /\ Fairness

-----------------------------------------------------------------------------
(* Properties.                                                             *)

Bytes == 0..255
Packet(S) == {p \in Seq(S) : Len(p) > 0}

TypeOK ==
  /\ inQueue \in Seq(Seq(Bytes))
  /\ sendQueue \in Seq(Seq(Bytes))
  /\ curSendPackDataSize \in Nat
  /\ curRecvPackDoneHeadSize \in 0..HeadSize
  /\ curRecvPackDataSize \in [1..HeadSize -> Bytes]
  /\ curRecvPackDoneDataSize \in Nat
  /\ recvBuff \in Seq(Bytes)
  /\ recvOutQueue \in Seq(Seq(Bytes))
  /\ {quitRequest, quitAck, fatalError, peerClosed} \subseteq BOOLEAN
  /\ wpc \in {"top", "send", "recvHead", "recvBody", "done"}
  /\ apc \in {"run", "quitting", "destroyed"}
  /\ sentN \in 0..Len(AppPackets)
  /\ appGot \in Seq(Seq(Bytes))
  /\ wireIn \in Seq(Bytes)
  /\ peerPos \in 0..Len(PeerStream)
  /\ wireOut \in Seq(Bytes)
  /\ outFlight \in 0..SndBuf

(* The bytes Send framed but the worker has not yet had accepted by send:  *)
(* the rest of the packet in progress, the send queue, the in-queue.       *)
Unsent ==
  LET queued == FlattenSeq(sendQueue)
  IN SubSeq(queued, curSendPackDataSize + 1, Len(queued)) \o FlattenSeq(inQueue)

(* Send path (Send, FlushInQueue and the niceSend loop with its partial    *)
(* writes and curSendPackDataSize): no byte is lost, duplicated or         *)
(* reordered.  What send() has accepted, followed by what is still queued, *)
(* is exactly the framed packets the application passed to Send, in order. *)
SendConservation ==
  wireOut \o Unsent = FlattenSeq([i \in 1..sentN |-> Frame(AppPackets[i])])

(* Receive path (the header/body reassembly in threadMain and              *)
(* GetNextPacket): the packets handed to the application, followed by      *)
(* those still in mRecvOutQueue, are the peer's packets in the order sent, *)
(* with nothing invented, merged or split.                                  *)
RecvFraming == IsPrefix(appGot \o recvOutQueue, PeerPackets)

(* Destructor handshake: once ~PacketManager has raised mQuitRequest, the  *)
(* worker acknowledges it whatever state it is in (zombie included), so    *)
(* the destructor returns.                                                 *)
QuitAcknowledged == apc = "quitting" ~> apc = "destroyed"

(* Receive progress: once the peer's whole stream has arrived, every one   *)
(* of its packets is eventually queued for the application, unless the     *)
(* application shuts the manager down.  The comments in threadMain name    *)
(* EWOULDBLOCK "would block" and only other errors "error !!".             *)
Delivery ==
  peerPos = Len(PeerStream)
    ~> (Len(appGot) + Len(recvOutQueue) = Len(PeerPackets) \/ quitRequest)

=============================================================================
