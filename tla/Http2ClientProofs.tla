-------------------------- MODULE Http2ClientProofs --------------------------
(***************************************************************************)
(* Proofs about Http2Client, for every value of the constants: whatever a  *)
(* server sends, the client's streams are its own, and a record that       *)
(* outlives its call is a reset one.                                       *)
(***************************************************************************)
EXTENDS Http2Client, Http2ConnectionProofs

Calls == [op : {"none", "send", "ping"}, id : Nat, tag : Nat]

(* Every variable but the history has its type.                            *)
ClientTypeOK ==
    /\ ConnectionTypeOK
    /\ next \in Nat /\ next % 2 = 1
    /\ call \in Calls

(* The running call and the message it writes belong together, and no call *)
(* runs on a connection that is over.                                      *)
CallKept ==
    /\ over => call = NoCall
    /\ call.op = "none" => call = NoCall
    /\ call.op = "ping" => call.id = next
    /\ call.op = "send" => call.id \in DOMAIN streams
    /\ job # NoJob => call.op = "send" /\ job.id = call.id

(* While a body is being written its stream may be sent on or was reset,   *)
(* so a body that is refused was refused by a reset.                       *)
BodyWritten ==
    LET stream == streams[job.id]
    IN  /\ job.phase \in {"writing", "waiting"} =>
                IsReset(stream) \/ Sending(stream.state)
        /\ job.phase = "refused" => IsReset(stream)

IInv == OwnStreamsOnly /\ CallKept /\ BodyWritten /\ LeftoversReset

-----------------------------------------------------------------------------
(* A step that ends the connection with its call and its message.          *)
LEMMA OverInvNext ==
    ASSUME over', call' = NoCall, job' = NoJob, OwnStreamsOnly'
    PROVE  IInv'
  BY DEF IInv, CallKept, BodyWritten, LeftoversReset, NoCall, NoJob

(* What the server sends opens no stream: the records and the ids stay.    *)
LEMMA ReadOpensNothing ==
    ASSUME ConnectionTypeOK, NEW f \in PeerFrames, Pump(f)
    PROVE  /\ ConnectionTypeOK' /\ Effect
           /\ DOMAIN streams' = DOMAIN streams
           /\ UNCHANGED <<last_peer, highest>>
<1>1. f \in Frame /\ IsClient
  BY ClientAssumption
<1>2. ConnectionTypeOK' /\ Effect
  BY <1>1, PumpStep
<1>3. ~PeerMayOpen(last_peer')
  BY <1>1 DEF PeerMayOpen
<1> QED
  BY <1>2, <1>3, Zenon DEF Effect

(* A frame read keeps the types and IInv, whether or not it ends the call. *)
LEMMA ReadingInv ==
    ASSUME ClientTypeOK, IInv, NEW f \in PeerFrames, Reading(f)
    PROVE  ClientTypeOK' /\ IInv'
<1>1. /\ ConnectionTypeOK' /\ Effect
      /\ DOMAIN streams' = DOMAIN streams
      /\ UNCHANGED <<last_peer, highest, next>> /\ ~over
  BY ReadOpensNothing DEF ClientTypeOK, Reading, Waiting
<1>2. \/ over' /\ call' = NoCall
      \/ ~over' /\ call' = call
  BY DEF Reading, Interrupted
<1>3. NoCall \in Calls
  BY DEF NoCall, Calls
<1>4. ClientTypeOK'
  BY <1>1, <1>2, <1>3 DEF ClientTypeOK
<1>5. OwnStreamsOnly'
  BY <1>1 DEF IInv, OwnStreamsOnly
<1>6. CASE over' /\ call' = NoCall
  <2>1. job' = NoJob
    BY <1>1, <1>6 DEF Effect, SameJob
  <2> QED
    BY <1>4, <1>5, <1>6, <2>1, OverInvNext
<1>7. CASE ~over' /\ call' = call
  <2>1. /\ job' # NoJob => job # NoJob /\ job'.id = job.id
        /\ \/ job'.phase = job.phase
           \/ job.phase = "waiting" /\ job'.phase = "writing"
    BY <1>1, <1>7 DEF Effect, SameJob
  <2>2. CallKept'
    BY <1>1, <1>7, <2>1 DEF IInv, CallKept
  <2>3. ASSUME NEW id \in DOMAIN streams
        PROVE  /\ IsReset(streams[id]) => IsReset(streams'[id])
               /\ Sending(streams[id].state) =>
                    Sending(streams'[id].state) \/ IsReset(streams'[id])
    BY <1>1 DEF Effect, RecordsFollow, Follows
  <2>4. BodyWritten'
    <3>1. CASE job' = NoJob
      BY <3>1 DEF BodyWritten, NoJob
    <3>2. CASE job' # NoJob
      <4>1. job.id \in DOMAIN streams /\ job'.id = job.id
        BY <2>1, <3>2 DEF IInv, CallKept
      <4> QED
        BY <2>1, <2>3, <4>1 DEF IInv, BodyWritten
    <3> QED
      BY <3>1, <3>2
  <2>5. LeftoversReset'
    BY <1>1, <1>7, <2>3 DEF IInv, LeftoversReset
  <2> QED
    BY <1>4, <1>5, <2>2, <2>4, <2>5 DEF IInv
<1> QED
  BY <1>2, <1>6, <1>7

(* The connection ends under a call, or the client closes it.              *)
LEMMA EndInv ==
    ASSUME ClientTypeOK, IInv, ReadEnds \/ Close
    PROVE  ClientTypeOK' /\ IInv'
<1>1. NoCall \in Calls
  BY DEF NoCall, Calls
<1>2. CASE ReadEnds
  <2>1. ConnectionTypeOK' /\ over' /\ job' = NoJob
        /\ UNCHANGED <<streams, last_peer, highest, next>> /\ call' = NoCall
    BY <1>2, PumpEndStep DEF ReadEnds, Interrupted, ClientTypeOK, PumpEnd
  <2>2. ClientTypeOK' /\ OwnStreamsOnly'
    BY <1>1, <2>1 DEF ClientTypeOK, IInv, OwnStreamsOnly
  <2> QED
    BY <2>1, <2>2, OverInvNext
<1>3. CASE Close
  <2>1. Goaway(last_peer, "NoError") \in Frame
    BY CodesAre DEF ClientTypeOK, ConnectionTypeOK, Goaway, GoawayFrames, Frame
  <2>2. held' \in Seq(Frame) /\ out' \in Seq(Frame)
    BY <1>3, <2>1, TypeParts, EmitType DEF Close, ClientTypeOK
  <2>3. ConnectionTypeOK'
    BY <1>3, <2>2 DEF Close, ClientTypeOK, ConnectionTypeOK
  <2>4. /\ UNCHANGED <<streams, last_peer, highest, next>>
        /\ over' /\ call' = NoCall /\ job' = job /\ call = NoCall
    BY <1>3 DEF Close, Free, clientVars
  <2>5. job = NoJob
    BY <2>4 DEF IInv, CallKept, NoCall
  <2>6. ClientTypeOK' /\ OwnStreamsOnly'
    BY <1>1, <2>3, <2>4 DEF ClientTypeOK, IInv, OwnStreamsOnly
  <2> QED
    BY <2>4, <2>5, <2>6, OverInvNext
<1> QED
  BY <1>2, <1>3

-----------------------------------------------------------------------------
(* send.                                                                   *)

(* send opens the next stream, which has no record, and only that one.     *)
LEMMA CallSendInv ==
    ASSUME ClientTypeOK, IInv, NEW block \in BlockSizes, NEW body \in BodySizes,
           CallSend(block, body, 0)
    PROVE  ClientTypeOK' /\ IInv'
<1> DEFINE base == Opened(next)
           head == [kind |-> "request", tag |-> 0]
<1>1. /\ next \in Nat /\ next % 2 = 1 /\ highest \in Nat /\ highest < next
      /\ block \in Nat /\ body \in Nat /\ DOMAIN streams \subseteq Nat
  BY ClientAssumption
     DEF ClientTypeOK, ConnectionTypeOK, IInv, OwnStreamsOnly
<1>2. head \in Fields /\ NoFields \in Fields
  BY DEF Fields, FieldKinds, NoFields
<1>3. /\ base \in [DOMAIN base -> StreamRecord]
      /\ DOMAIN base = DOMAIN streams \cup {next}
      /\ \A id \in DOMAIN streams : base[id] = streams[id]
      /\ next \notin DOMAIN streams => Sending(base[next].state)
  <2>1. base \in [DOMAIN streams \cup {next} -> StreamRecord]
    BY <1>1, TypeParts, OpenedType DEF ClientTypeOK
  <2> QED
    BY <2>1 DEF Opened, NewStream, Sending
<1>4. /\ call = NoCall /\ ~over /\ next' = next + 2
      /\ call' = [op |-> "send", id |-> next, tag |-> 0]
      /\ highest' = MaxOf(highest, next)
      /\ StartMessage(next, base, head, block, body, NoFields)
  BY DEF CallSend, Free
<1> HIDE DEF base, head
<1>5. highest' = next /\ highest' \in Nat
  BY <1>1, <1>4 DEF MaxOf
<1>6. /\ ConnectionTypeOK' /\ DOMAIN streams' = DOMAIN base
      /\ job' # NoJob /\ job'.id = next
      /\ UNCHANGED <<last_peer, over>>
  BY <1>1, <1>2, <1>3, <1>4, <1>5, StartMessageStep DEF ClientTypeOK
<1>7. /\ \A id \in DOMAIN base : Written(base[id], streams'[id])
      /\ job'.phase = "written" \/ (job'.phase = "writing" /\ streams' = base)
  BY <1>3, <1>4, StartMessageSpends
<1>8. next' \in Nat /\ next' % 2 = 1 /\ next < next'
  BY <1>1, <1>4
<1>9. ClientTypeOK'
  BY <1>1, <1>4, <1>6, <1>8 DEF ClientTypeOK, Calls
<1>10. OwnStreamsOnly'
  <2>1. ASSUME NEW id \in DOMAIN streams'
        PROVE  id % 2 = 1 /\ id <= highest'
    BY <1>1, <1>3, <1>5, <1>6 DEF IInv, OwnStreamsOnly
  <2> QED
    BY <1>5, <1>6, <1>8, <2>1 DEF IInv, OwnStreamsOnly
<1>11. next \notin DOMAIN streams
  BY <1>1 DEF IInv, OwnStreamsOnly
<1>12. CallKept'
  BY <1>3, <1>4, <1>6 DEF CallKept, NoCall
<1>13. BodyWritten'
  BY <1>3, <1>6, <1>7, <1>11 DEF BodyWritten
<1>14. LeftoversReset'
  <2>1. ASSUME NEW id \in DOMAIN streams', id # next
        PROVE  IsReset(streams'[id])
    <3>1. id \in DOMAIN streams /\ base[id] = streams[id]
      BY <1>3, <1>6, <2>1
    <3>2. id # 0
      BY <3>1 DEF IInv, OwnStreamsOnly
    <3>3. IsReset(streams[id])
      BY <1>4, <3>1, <3>2 DEF IInv, LeftoversReset, NoCall
    <3> QED
      BY <1>3, <1>7, <3>1, <3>3 DEF Written, IsReset
  <2> QED
    BY <1>4, <2>1 DEF LeftoversReset
<1> QED
  BY <1>9, <1>10, <1>12, <1>13, <1>14 DEF IInv

(* Writing the rest of the request.                                        *)
LEMMA RequestingInv ==
    ASSUME ClientTypeOK, IInv, Requesting
    PROVE  ClientTypeOK' /\ IInv'
<1>1. /\ ConnectionTypeOK' /\ Writes /\ Spends
      /\ UNCHANGED <<next, call>>
  BY WriteStep, WriteSpends DEF Requesting, ClientTypeOK, clientVars
<1>2. ClientTypeOK' /\ OwnStreamsOnly' /\ CallKept'
  BY <1>1 DEF ClientTypeOK, IInv, OwnStreamsOnly, CallKept, Writes, Spends
<1>3. ASSUME NEW id \in DOMAIN streams
      PROVE  IsReset(streams'[id]) <=> IsReset(streams[id])
  BY <1>1 DEF Spends, Written, IsReset
<1>4. job.id \in DOMAIN streams /\ job'.id = job.id
  BY <1>1 DEF Writes, IInv, CallKept
<1>5. BodyWritten'
  <2>1. CASE job'.phase \in {"writing", "waiting"}
    BY <1>1, <1>4, <2>1 DEF Spends, BodyWritten
  <2>2. CASE job'.phase = "refused"
    <3>1. job.phase = "writing"
      BY <1>1 DEF Requesting, Write, SendPiece, SendTrailers, Stall, SendRefused
    <3>2. IsReset(streams[job.id])
      BY <1>1, <1>4, <2>2, <3>1
         DEF Spends, ShutForGood, IInv, BodyWritten
    <3> QED
      BY <1>3, <1>4, <2>2, <3>2 DEF BodyWritten
  <2> QED
    BY <2>1, <2>2 DEF BodyWritten
<1>6. LeftoversReset'
  BY <1>1, <1>3 DEF IInv, LeftoversReset, Writes
<1> QED
  BY <1>2, <1>5, <1>6 DEF IInv

(* The request is written, or was refused and leaves its record reset.     *)
LEMMA RequestWrittenInv ==
    ASSUME ClientTypeOK, IInv, RequestWritten
    PROVE  ClientTypeOK' /\ IInv'
<1>1. /\ job.phase \in {"written", "refused"} /\ job' = NoJob
      /\ UNCHANGED <<streams, highest, last_peer, over, next>>
  BY DEF RequestWritten, Released
<1>2. ConnectionTypeOK'
  <2>1. WireTypeOK'
    BY TypeParts, ReleasedType DEF RequestWritten, ClientTypeOK
  <2>2. StreamsTypeOK' /\ RestTypeOK'
    BY TypeParts DEF RequestWritten, ClientTypeOK, StreamsTypeOK, RestTypeOK
  <2> QED
    BY <2>1, <2>2, TypePartsNext
<1>3. \/ call' = call
      \/ job.phase = "refused" /\ call' = NoCall
  BY DEF RequestWritten
<1>4. ClientTypeOK' /\ OwnStreamsOnly'
  BY <1>1, <1>2, <1>3 DEF ClientTypeOK, IInv, OwnStreamsOnly, NoCall, Calls
<1>5. job # NoJob
  BY <1>1 DEF NoJob
<1>6. CallKept' /\ BodyWritten'
  BY <1>1, <1>3 DEF IInv, CallKept, BodyWritten, NoCall, NoJob
<1>7. LeftoversReset'
  BY <1>1, <1>3, <1>5 DEF IInv, LeftoversReset, CallKept, BodyWritten
<1> QED
  BY <1>4, <1>6, <1>7 DEF IInv

(* send returns with the answer and forgets its stream.                    *)
LEMMA SendReturnsInv ==
    ASSUME ClientTypeOK, IInv, SendReturns
    PROVE  ClientTypeOK' /\ IInv'
<1>1. /\ job = NoJob /\ ~over /\ streams' = Without(call.id)
      /\ call' = NoCall /\ UNCHANGED <<job, over, highest, last_peer, next>>
  BY DEF SendReturns
<1>2. ConnectionTypeOK'
  BY <1>1 DEF SendReturns, ClientTypeOK, ConnectionTypeOK, Without
<1>3. /\ DOMAIN streams' = DOMAIN streams \ {call.id}
      /\ \A id \in DOMAIN streams' : streams'[id] = streams[id]
  BY <1>1 DEF Without
<1>4. ClientTypeOK' /\ OwnStreamsOnly'
  BY <1>1, <1>2, <1>3 DEF ClientTypeOK, IInv, OwnStreamsOnly, NoCall, Calls
<1>5. CallKept' /\ BodyWritten'
  BY <1>1 DEF CallKept, BodyWritten, NoCall, NoJob
<1>6. LeftoversReset'
  BY <1>1, <1>3 DEF IInv, LeftoversReset
<1> QED
  BY <1>4, <1>5, <1>6 DEF IInv

-----------------------------------------------------------------------------
(* ping, and what leaves the connection alone.                             *)
LEMMA PingInv ==
    ASSUME ClientTypeOK, IInv, CallPing \/ PingReturns
    PROVE  ClientTypeOK' /\ IInv'
<1>1. /\ UNCHANGED <<streams, highest, last_peer, job, over, next>> /\ ~over
      /\ \/ call = NoCall /\ call' = [op |-> "ping", id |-> next, tag |-> 0]
         \/ call.op = "ping" /\ call' = NoCall
  BY DEF CallPing, PingReturns, Free, connectionVars
<1>2. ConnectionTypeOK'
  <2>1. CASE CallPing
    <3>1. Ping(next, FALSE) \in Frame
      BY DEF ClientTypeOK, Ping, PingFrames, Frame
    <3>2. held' \in Seq(Frame) /\ out' \in Seq(Frame)
      BY <2>1, <3>1, TypeParts, EmitType DEF CallPing, ClientTypeOK
    <3> QED
      BY <2>1, <3>2 DEF CallPing, ClientTypeOK, ConnectionTypeOK
  <2>2. CASE PingReturns
    BY <2>2 DEF PingReturns, ClientTypeOK, ConnectionTypeOK, connectionVars
  <2> QED
    BY <2>1, <2>2
<1>3. ClientTypeOK' /\ OwnStreamsOnly'
  BY <1>1, <1>2 DEF ClientTypeOK, IInv, OwnStreamsOnly, NoCall, Calls
<1>4. CallKept' /\ BodyWritten'
  BY <1>1 DEF IInv, CallKept, BodyWritten, NoCall
<1>5. LeftoversReset'
  <2>1. ASSUME NEW id \in DOMAIN streams
        PROVE  IsReset(streams[id])
    <3>1. id # 0 /\ id # next
      BY DEF IInv, OwnStreamsOnly, ClientTypeOK, ConnectionTypeOK
    <3>2. call.id = 0 \/ call.id = next
      BY <1>1 DEF IInv, CallKept, NoCall
    <3> QED
      BY <1>1, <3>1, <3>2 DEF IInv, LeftoversReset
  <2> QED
    BY <1>1, <2>1 DEF LeftoversReset
<1> QED
  BY <1>3, <1>4, <1>5 DEF IInv

(* A step that changes nothing the invariant speaks of.                    *)
LEMMA ApartInv ==
    ASSUME ClientTypeOK, IInv, ConnectionTypeOK',
           UNCHANGED <<streams, highest, last_peer, job, over, next, call>>
    PROVE  ClientTypeOK' /\ IInv'
  BY DEF ClientTypeOK, IInv, OwnStreamsOnly, CallKept, BodyWritten,
         LeftoversReset

(* Every step keeps the types and IInv.                                    *)
LEMMA NextInv ==
    ASSUME ClientTypeOK, IInv, [ClientNext]_vars
    PROVE  ClientTypeOK' /\ IInv'
<1>1. CASE ClientStep
  <2>1. CASE SendNotSent(0)
    <3>1. ConnectionTypeOK'
      BY <2>1 DEF SendNotSent, ClientTypeOK, ConnectionTypeOK, connectionVars
    <3> QED
      BY <2>1, <3>1, ApartInv DEF SendNotSent, connectionVars
  <2>2. CASE \E f \in PeerFrames : Reading(f)
    BY <2>2, ReadingInv
  <2>3. CASE \E block \in BlockSizes, body \in BodySizes :
                CallSend(block, body, 0)
    BY <2>3, CallSendInv
  <2> QED
    BY <1>1, <2>1, <2>2, <2>3, RequestingInv, RequestWrittenInv,
       SendReturnsInv, PingInv, EndInv, Zenon DEF ClientStep, Local
<1>2. CASE PeerReads \/ UNCHANGED vars
  <2>1. ConnectionTypeOK'
    <3>1. << >> \in Seq(Frame)
      OBVIOUS
    <3> QED
      BY <1>2, <3>1 DEF PeerReads, ClientTypeOK, ConnectionTypeOK, vars,
                        connectionVars
  <2> QED
    BY <1>2, <2>1, ApartInv DEF PeerReads, vars, connectionVars, clientVars
<1> QED
  BY <1>1, <1>2, Zenon DEF ClientNext

(* The connection starts with its types.                                   *)
LEMMA InitInv ==
    ASSUME ClientInit
    PROVE  ClientTypeOK /\ IInv
<1> USE DEF ClientInit
<1>1. ConnectionTypeOK
  BY StartType
<1>2. next \in Nat /\ next % 2 = 1 /\ call \in Calls
  BY DEF NoCall, Calls
<1>3. IInv
  BY DEF Start, IInv, OwnStreamsOnly, CallKept, BodyWritten, LeftoversReset,
         NoCall, NoJob
<1> QED
  BY <1>1, <1>2, <1>3 DEF ClientTypeOK

(* All that was shown to be inductive holds throughout.                    *)
LEMMA Throughout == ClientSpec => [](ClientTypeOK /\ IInv)
<1>1. ClientInit => ClientTypeOK /\ IInv
  BY InitInv
<1>2. ClientTypeOK /\ IInv /\ [ClientNext]_vars => (ClientTypeOK /\ IInv)'
  BY NextInv
<1> QED
  BY <1>1, <1>2, PTL DEF ClientSpec

(* Every variable of the client but the history keeps its type, against    *)
(* any server and for any limits.                                          *)
THEOREM ClientTypeCorrect == ClientSpec => []ClientTypeOK
<1>1. ClientTypeOK /\ IInv => ClientTypeOK
  OBVIOUS
<1> QED
  BY <1>1, Throughout, PTL

(* Nothing a server sends opens a stream on the client: every record is of *)
(* a stream send opened, and the next id is idle when send takes it.       *)
THEOREM ServerOpensNothing == ClientSpec => []OwnStreamsOnly
<1>1. ClientTypeOK /\ IInv => OwnStreamsOnly
  BY DEF IInv
<1> QED
  BY <1>1, Throughout, PTL

(* A record that outlives its call is a reset one: send leaves one behind  *)
(* only where the body was refused, and it was refused by a reset.         *)
THEOREM OnlyResetsLeftOver == ClientSpec => []LeftoversReset
<1>1. ClientTypeOK /\ IInv => LeftoversReset
  BY DEF IInv
<1> QED
  BY <1>1, Throughout, PTL
===============================================================================
