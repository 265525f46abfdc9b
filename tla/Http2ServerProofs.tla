-------------------------- MODULE Http2ServerProofs --------------------------
(***************************************************************************)
(* Proofs about Http2Server, for every value of the constants: against any *)
(* peer and any application, the server keeps its type, the record of each *)
(* stream it handed out until that is answered, and its word once it has   *)
(* gone away.                                                              *)
(***************************************************************************)
EXTENDS Http2Server, Http2ConnectionProofs, FiniteSetTheorems

(* What the safety properties need of the state to be inductive.           *)

(* What was handed out is one of the streams the client opened.            *)
HandedOpened == \A id \in handed : id <= last_peer

(* While the connection stands, a stream that was handed out and still has *)
(* a record is waiting for its answer or is being answered: finished never *)
(* finds it ready again.                                                   *)
HandedKept ==
    ~over => \A id \in handed \cap DOMAIN streams :
                id \in answering \/ (job # NoJob /\ id = job.id)

(* Only one call runs at a time.                                           *)
OneCall ==
    /\ mode # "open" => job = NoJob
    /\ mode = "finished" => ~over

(* The first GOAWAY is remembered, and nothing above what it named is      *)
(* left or will be opened.                                                 *)
PromiseKept ==
    /\ going_away <=> promised # NoGoaway
    /\ promised # NoGoaway =>
            \A id \in handed \cup DOMAIN streams : id <= promised

IInv ==
    /\ RecordsKept /\ RecordsOpened
    /\ HandedOpened /\ HandedKept /\ OneCall /\ PromiseKept

-----------------------------------------------------------------------------
(* Type correctness.                                                       *)

(* Forgetting a stream keeps the streams' type.                            *)
LEMMA WithoutType ==
    ASSUME StreamsTypeOK, NEW id, streams' = Without(id)
    PROVE  StreamsTypeOK' /\ DOMAIN streams' = DOMAIN streams \ {id}
  BY DEF StreamsTypeOK, Without


(* A frame read leaves the connection with its type and an effect of those *)
(* Http2ConnectionProofs allows.                                           *)
LEMMA ReadingStep ==
    ASSUME TypeOK, NEW f \in PeerFrames, Reading(f)
    PROVE  /\ ConnectionTypeOK' /\ Effect
           /\ UNCHANGED <<answering, mode, handed>>
           /\ drained' \in 0..Drain /\ ~over
           /\ mode # "finished" \/ job # NoJob
<1>1. f \in Frame /\ Drain \in Nat
  BY ServerAssumption
<1>2. Pump(f)
  BY DEF Reading, ReadFrame, ReadStalled, DrainFrame
<1>3. ConnectionTypeOK' /\ Effect
  BY <1>1, <1>2, PumpStep DEF TypeOK
<1>4. UNCHANGED <<answering, mode, handed>> /\ ~over
  BY DEF Reading, ReadFrame, ReadStalled, DrainFrame, Free
<1>5. drained' \in 0..Drain
  BY <1>1 DEF TypeOK, Reading, ReadFrame, ReadStalled, DrainFrame
<1>6. mode # "finished" \/ job # NoJob
  BY DEF Reading, ReadFrame, ReadStalled, DrainFrame, Free, NoJob
<1> QED
  BY <1>3, <1>4, <1>5, <1>6

(* The whole request leaves the record, which stays.                       *)
LEMMA HandOutType ==
    ASSUME NEW stream \in StreamRecord
    PROVE  [stream EXCEPT !.head = NoFields, !.body = 0] \in StreamRecord
<1>1. NoFields \in Fields
  BY DEF NoFields, Fields, FieldKinds
<1> QED
  BY <1>1 DEF StreamRecord

(* A round of finished: the stream it finds is handed out once and keeps   *)
(* its record, or is forgotten.                                            *)
LEMMA FinishedStep ==
    ASSUME TypeOK, Finished
    PROVE  /\ ConnectionTypeOK'
           /\ mode = "finished" /\ mode' \in Modes
           /\ UNCHANGED <<last_peer, going_away, over, job, drained>>
           /\ \/ UNCHANGED <<streams, answering, handed>>
              \/ \E id \in Ready :
                    /\ DOMAIN streams' = DOMAIN streams
                    /\ answering' = answering \cup {id}
                    /\ handed' = handed \cup {id}
              \/ \E id \in Ready :
                    /\ DOMAIN streams' = DOMAIN streams \ {id}
                    /\ UNCHANGED <<answering, handed>>
<1> USE TypeParts DEF TypeOK
<1>1. /\ mode = "finished" /\ UNCHANGED finishedUnchanged
      /\ RestTypeOK'
  BY DEF Finished, finishedUnchanged, RestTypeOK
<1>2. CASE Ready = {} /\ mode' = "open"
           /\ UNCHANGED <<streams, answering, handed, held, out>>
  <2>1. WireTypeOK' /\ StreamsTypeOK'
    BY <1>1, <1>2 DEF finishedUnchanged, WireTypeOK, StreamsTypeOK
  <2> QED
    BY <1>1, <1>2, <2>1, TypePartsNext DEF finishedUnchanged, Modes
<1>3. ASSUME NEW id \in Ready,
             HandOut(id) \/ RefuseRequest(id) \/ Forget(id)
      PROVE  /\ ConnectionTypeOK' /\ mode' \in Modes
             /\ \/ /\ DOMAIN streams' = DOMAIN streams
                   /\ answering' = answering \cup {id}
                   /\ handed' = handed \cup {id}
                \/ /\ DOMAIN streams' = DOMAIN streams \ {id}
                   /\ UNCHANGED <<answering, handed>>
  <2>1. id \in DOMAIN streams /\ id \in Nat /\ streams[id] \in StreamRecord
    BY DEF Ready, StreamsTypeOK
  <2>2. CASE HandOut(id)
    <3> DEFINE left == [streams[id] EXCEPT !.head = NoFields, !.body = 0]
    <3>1. left \in StreamRecord
      BY <2>1, HandOutType
    <3> HIDE DEF left
    <3>2. streams' = With(id, left)
      BY <2>2 DEF HandOut, left
    <3>3. StreamsTypeOK' /\ DOMAIN streams' = DOMAIN streams
      BY <2>1, <3>1, <3>2, WithType
    <3>4. WireTypeOK'
      BY <1>1, <2>2 DEF HandOut, finishedUnchanged, WireTypeOK
    <3> QED
      BY <1>1, <2>2, <3>3, <3>4, TypePartsNext DEF HandOut, Modes
  <2>3. CASE RefuseRequest(id)
    <3>1. RstStream(id, "Protocol") \in Frame
      BY <2>1, CodesAre DEF RstStream, RstStreamFrames, Frame
    <3>2. held' \in Seq(Frame) /\ out' \in Seq(Frame)
      BY <2>3, <3>1, EmitType DEF RefuseRequest
    <3>3. WireTypeOK'
      BY <1>1, <3>2 DEF finishedUnchanged, WireTypeOK
    <3>4. StreamsTypeOK' /\ DOMAIN streams' = DOMAIN streams \ {id}
      BY <2>3, WithoutType DEF RefuseRequest
    <3> QED
      BY <1>1, <2>3, <3>3, <3>4, TypePartsNext DEF RefuseRequest
  <2>4. CASE Forget(id)
    <3>1. WireTypeOK'
      BY <1>1, <2>4 DEF Forget, finishedUnchanged, WireTypeOK
    <3>2. StreamsTypeOK' /\ DOMAIN streams' = DOMAIN streams \ {id}
      BY <2>4, WithoutType DEF Forget
    <3> QED
      BY <1>1, <2>4, <3>1, <3>2, TypePartsNext DEF Forget
  <2> QED
    BY <1>3, <2>2, <2>3, <2>4
<1>4. \/ Ready = {} /\ mode' = "open"
         /\ UNCHANGED <<streams, answering, handed, held, out>>
      \/ \E id \in Ready : HandOut(id) \/ RefuseRequest(id) \/ Forget(id)
  BY Zenon DEF Finished
<1> QED
  BY <1>1, <1>2, <1>3, <1>4 DEF finishedUnchanged

(* The head of an answer: its stream leaves answering for the job.         *)
LEMMA RespondStep ==
    ASSUME TypeOK, NEW id \in answering, NEW block \in BlockSizes,
           NEW body \in BodySizes, NEW trailers \in Fields,
           Respond(id, block, body, trailers, 0)
    PROVE  /\ ConnectionTypeOK' /\ DOMAIN streams' = DOMAIN streams
           /\ job' # NoJob /\ job'.id = id
           /\ UNCHANGED <<last_peer, going_away, over, mode, drained, handed>>
           /\ answering' = answering \ {id}
           /\ mode = "open" /\ job = NoJob
<1> DEFINE head == [kind |-> "response", tag |-> 0]
<1>1. head \in Fields
  BY DEF Fields, FieldKinds
<1> HIDE DEF head
<1>2. block \in Nat /\ body \in Nat /\ id \in Nat
  BY ServerAssumption DEF TypeOK
<1>3. highest' \in Nat
  BY DEF Respond, TypeOK, ConnectionTypeOK
<1>4. StartMessage(id, streams, head, block, body, trailers)
  BY DEF Respond, head
<1>5. /\ ConnectionTypeOK' /\ DOMAIN streams' = DOMAIN streams
      /\ job' # NoJob /\ job'.id = id
      /\ UNCHANGED <<last_peer, going_away, over>>
  BY <1>1, <1>2, <1>3, <1>4, StartMessageStep DEF TypeOK, ConnectionTypeOK
<1> QED
  BY <1>5 DEF Respond, Free

(* The answer is written: its record goes.                                 *)
LEMMA RespondReturnsStep ==
    ASSUME TypeOK, RespondReturns
    PROVE  /\ ConnectionTypeOK' /\ job' = NoJob /\ job # NoJob
           /\ DOMAIN streams' = DOMAIN streams \ {job.id}
           /\ UNCHANGED <<last_peer, going_away, over>>
           /\ UNCHANGED <<answering, mode, drained, handed>>
<1>1. WireTypeOK'
  BY TypeParts, ReleasedType DEF RespondReturns, TypeOK
<1>2. StreamsTypeOK' /\ DOMAIN streams' = DOMAIN streams \ {job.id}
  BY TypeParts, WithoutType DEF RespondReturns, TypeOK
<1>3. RestTypeOK'
  BY TypeParts DEF RespondReturns, TypeOK, RestTypeOK
<1>4. job' = NoJob /\ job # NoJob
  BY DEF RespondReturns, Released, NoJob
<1> QED
  BY <1>1, <1>2, <1>3, <1>4, TypePartsNext DEF RespondReturns

(* The trailers an answer may have.                                        *)
LEMMA TrailersType ==
    {NoFields, [kind |-> "trailers", tag |-> 0]} \subseteq Fields
  BY DEF NoFields, Fields, FieldKinds

(* The type of what a step of the server, before Observe, assigns.         *)
StepTypeOK ==
    /\ ConnectionTypeOK
    /\ answering \in SUBSET Nat /\ mode \in Modes
    /\ drained \in 0..Drain /\ handed \in SUBSET Nat

(* Every call of the application keeps the types.                          *)
LEMMA LocalType ==
    ASSUME TypeOK, Local
    PROVE  StepTypeOK'
<1> USE DEF StepTypeOK
<1>1. CASE CallFinished
  BY <1>1 DEF CallFinished, TypeOK, ConnectionTypeOK, connectionVars, Modes
<1>2. CASE Finished
  <2>1. Ready \subseteq Nat
    BY DEF Ready, TypeOK, ConnectionTypeOK
  <2> QED
    BY <1>2, <2>1, FinishedStep DEF TypeOK
<1>3. CASE \E id \in answering, block \in BlockSizes, body \in BodySizes,
              trailers \in {NoFields, [kind |-> "trailers", tag |-> 0]} :
                Respond(id, block, body, trailers, 0)
  <2>1. PICK id \in answering, block \in BlockSizes, body \in BodySizes,
             trailers \in {NoFields, [kind |-> "trailers", tag |-> 0]} :
                Respond(id, block, body, trailers, 0)
    BY <1>3
  <2>2. trailers \in Fields
    BY TrailersType
  <2> QED
    BY <2>1, <2>2, RespondStep DEF TypeOK
<1>4. CASE Responding
  BY <1>4, WriteStep DEF Responding, TypeOK
<1>5. CASE RespondReturns
  BY <1>5, RespondReturnsStep DEF TypeOK
<1>6. CASE CallGoAway
  BY <1>6, GoAwayStep, CodesAre DEF CallGoAway, TypeOK
<1>7. CASE Close
  <2>1. ConnectionTypeOK'
    <3>1. CASE UNCHANGED connectionVars
      BY <3>1 DEF TypeOK, ConnectionTypeOK, connectionVars
    <3>2. CASE GoAway("NoError")
      BY <3>2, GoAwayStep, CodesAre DEF TypeOK
    <3> QED
      BY <1>7, <3>1, <3>2, Zenon DEF Close
  <2> QED
    BY <1>7, <2>1 DEF Close, TypeOK, Modes
<1>8. CASE Closed
  BY <1>8 DEF Closed, TypeOK, ConnectionTypeOK, Modes
<1>9. CASE ReadEnds
  BY <1>9, PumpEndStep DEF ReadEnds, TypeOK
<1> QED
  BY <1>1, <1>2, <1>3, <1>4, <1>5, <1>6, <1>7, <1>8, <1>9, Zenon DEF Local

(* Every step keeps the types, what the history variables remember too.    *)
LEMMA NextType ==
    ASSUME TypeOK, [ServerNext]_vars
    PROVE  TypeOK'
<1>1. CASE ServerStep
  <2>1. StepTypeOK'
    <3>1. CASE Local
      BY <3>1, LocalType
    <3>2. CASE \E f \in PeerFrames : Reading(f)
      BY <3>2, ReadingStep DEF StepTypeOK, TypeOK
    <3> QED
      BY <1>1, <3>1, <3>2 DEF ServerStep
  <2>2. promised' \in Nat \cup {NoGoaway}
    BY <1>1, Zenon DEF ServerStep, Observe, TypeOK, ConnectionTypeOK
  <2> QED
    BY <2>1, <2>2 DEF StepTypeOK, TypeOK
<1>2. CASE PeerReads
  <2>1. << >> \in Seq(Frame)
    OBVIOUS
  <2> QED
    BY <1>2, <2>1 DEF PeerReads, TypeOK, ConnectionTypeOK, serverVars
<1>3. CASE UNCHANGED vars
  BY <1>3 DEF vars, connectionVars, serverVars, TypeOK, ConnectionTypeOK
<1> QED
  BY <1>1, <1>2, <1>3 DEF ServerNext

(* The server starts with its types.                                       *)
LEMMA InitType ==
    ASSUME ServerInit
    PROVE  TypeOK
<1>1. ConnectionTypeOK
  BY StartType DEF ServerInit
<1>2. drained \in 0..Drain
  BY ServerAssumption DEF ServerInit
<1> QED
  BY <1>1, <1>2 DEF ServerInit, TypeOK, Modes

(* Against any peer and any application, for any windows, frame sizes and  *)
(* limits, every variable of the server keeps its type: no window is       *)
(* anything but an integer, no piece of a body has a negative length, no   *)
(* handler leaves a stream without its record's shape, and every frame     *)
(* written is well formed.                                                 *)
THEOREM TypeCorrect == ServerSpec => []TypeOK
<1>1. ServerInit => TypeOK
  BY InitType
<1>2. TypeOK /\ [ServerNext]_vars => TypeOK'
  BY NextType
<1> QED
  BY <1>1, <1>2, PTL DEF ServerSpec

-----------------------------------------------------------------------------
(* Safety. IInv is inductive: each kind of step keeps it.                  *)

(* The ids the server knows of are numbers.                                *)
LEMMA Numbers ==
    ASSUME TypeOK
    PROVE  /\ DOMAIN streams \subseteq Nat /\ handed \subseteq Nat
           /\ answering \subseteq Nat /\ last_peer \in Nat
           /\ promised \in Nat \cup {NoGoaway}
           /\ going_away \in BOOLEAN /\ over \in BOOLEAN
  BY DEF TypeOK, ConnectionTypeOK

(* A step that opens nothing and hands nothing out keeps the promise,      *)
(* whether or not it is the one that goes away.                            *)
LEMMA PromiseStep ==
    ASSUME TypeOK, TypeOK', IInv, Observe, UNCHANGED <<last_peer, handed>>,
           DOMAIN streams' \subseteq DOMAIN streams,
           going_away' \/ going_away' = going_away
    PROVE  RecordsOpened' /\ HandedOpened' /\ PromiseKept'
<1> USE Numbers
<1>1. RecordsOpened' /\ HandedOpened'
  BY DEF IInv, RecordsOpened, HandedOpened
<1>2. CASE going_away' /\ ~going_away
  <2>1. promised' = last_peer /\ promised' # NoGoaway
    BY <1>2 DEF Observe, NoGoaway
  <2> QED
    BY <1>1, <1>2, <2>1 DEF PromiseKept, RecordsOpened, HandedOpened
<1>3. CASE going_away' = going_away
  <2>1. promised' = promised
    BY <1>3 DEF Observe
  <2>2. (going_away <=> promised # NoGoaway)'
    BY <1>3, <2>1, Zenon DEF IInv, PromiseKept
  <2>3. handed' \cup DOMAIN streams' \subseteq handed \cup DOMAIN streams
    OBVIOUS
  <2>4. (promised # NoGoaway =>
            \A id \in handed \cup DOMAIN streams : id <= promised)'
    BY <2>1, <2>3, Zenon DEF IInv, PromiseKept
  <2> QED
    BY <1>1, <2>2, <2>4, Zenon DEF PromiseKept
<1>4. going_away' \in BOOLEAN
  BY DEF TypeOK, ConnectionTypeOK
<1> QED
  BY <1>1, <1>2, <1>3, <1>4

(* A frame read.                                                           *)
LEMMA ReadingInv ==
    ASSUME TypeOK, TypeOK', IInv, NEW f \in PeerFrames, Reading(f), Observe
    PROVE  IInv'
<1> USE Numbers
<1>1. /\ Effect /\ UNCHANGED <<answering, mode, handed>> /\ ~over
      /\ mode # "finished" \/ job # NoJob
  BY ReadingStep
<1>2. mode # "finished"
  BY <1>1 DEF IInv, OneCall
<1>3. OneCall'
  BY <1>1, <1>2 DEF IInv, OneCall, Effect, SameJob
<1>4. DOMAIN streams \subseteq DOMAIN streams'
  BY <1>1 DEF Effect
<1>5. RecordsKept'
  <2>1. answering' \subseteq DOMAIN streams'
    BY <1>1, <1>4 DEF IInv, RecordsKept
  <2>2. job' # NoJob => job # NoJob /\ job'.id = job.id
    BY <1>1 DEF Effect, SameJob
  <2> QED
    BY <1>1, <1>4, <2>1, <2>2 DEF IInv, RecordsKept
<1>6. CASE DOMAIN streams' = DOMAIN streams /\ UNCHANGED last_peer
  <2>1. RecordsOpened' /\ HandedOpened' /\ PromiseKept'
    <3>1. going_away' \/ going_away' = going_away
      BY <1>1, Zenon DEF Effect
    <3> QED
      BY <1>1, <1>6, <3>1, PromiseStep
  <2>2. HandedKept'
    BY <1>1, <1>6 DEF IInv, HandedKept, Effect, SameJob
  <2> QED
    BY <1>3, <1>5, <2>1, <2>2 DEF IInv
<1>7. CASE /\ PeerMayOpen(last_peer')
           /\ UNCHANGED <<going_away, over>>
           /\ \/ DOMAIN streams' = DOMAIN streams
              \/ /\ ~going_away
                 /\ DOMAIN streams' = DOMAIN streams \cup {last_peer'}
  <2>1. last_peer' % 2 = 1 /\ last_peer' > last_peer /\ last_peer' \in Nat
    BY <1>7 DEF PeerMayOpen, TypeOK, ConnectionTypeOK
  <2>2. promised' = promised
    BY <1>7 DEF Observe
  <2>3. RecordsOpened'
    <3>1. ASSUME NEW id \in DOMAIN streams
          PROVE  id % 2 = 1 /\ id <= last_peer'
      BY <2>1 DEF IInv, RecordsOpened
    <3>2. ASSUME NEW id \in DOMAIN streams'
          PROVE  id % 2 = 1 /\ id <= last_peer'
      <4>1. id \in DOMAIN streams \/ id = last_peer'
        BY <1>7
      <4>2. last_peer' <= last_peer'
        BY <2>1
      <4> QED
        BY <2>1, <3>1, <4>1, <4>2, Zenon
    <3> QED
      BY <3>2, Zenon DEF RecordsOpened
  <2>4. HandedOpened'
    BY <1>1, <2>1 DEF IInv, HandedOpened
  <2>5. last_peer' \notin handed
    BY <2>1 DEF IInv, HandedOpened
  <2>6. HandedKept'
    BY <1>1, <1>7, <2>5 DEF IInv, HandedKept, Effect, SameJob
  <2>7. PromiseKept'
    BY <1>1, <1>7, <2>2 DEF IInv, PromiseKept
  <2> QED
    BY <1>3, <1>5, <2>3, <2>4, <2>6, <2>7 DEF IInv
<1> QED
  BY <1>1, <1>6, <1>7, Zenon DEF Effect

(* A round of finished.                                                    *)
LEMMA FinishedInv ==
    ASSUME TypeOK, TypeOK', IInv, Finished, Observe
    PROVE  IInv' /\ \A id \in answering' \ answering : id \notin handed
<1> USE Numbers
<1>1. /\ mode = "finished" /\ mode' \in Modes
      /\ UNCHANGED <<last_peer, going_away, over, job>>
  BY FinishedStep
<1>2. job = NoJob /\ ~over
  BY <1>1 DEF IInv, OneCall
<1>3. OneCall' /\ promised' = promised
  BY <1>1, <1>2 DEF OneCall, Observe
<1>4. ASSUME NEW id \in Ready
      PROVE  id \in DOMAIN streams /\ id \notin answering /\ id \notin handed
  BY <1>2 DEF Ready, IInv, HandedKept
<1>5. CASE UNCHANGED <<streams, answering, handed>>
  BY <1>1, <1>2, <1>3, <1>5
     DEF IInv, RecordsKept, RecordsOpened, HandedOpened, HandedKept,
         PromiseKept
<1>6. ASSUME NEW id \in Ready, DOMAIN streams' = DOMAIN streams,
             answering' = answering \cup {id}, handed' = handed \cup {id}
      PROVE  IInv' /\ \A i \in answering' \ answering : i \notin handed
  <2>1. RecordsKept' /\ RecordsOpened' /\ HandedKept'
    BY <1>1, <1>2, <1>4, <1>6
       DEF IInv, RecordsKept, RecordsOpened, HandedKept
  <2>2. HandedOpened' /\ PromiseKept'
    BY <1>1, <1>3, <1>4, <1>6
       DEF IInv, RecordsOpened, HandedOpened, PromiseKept
  <2> QED
    BY <1>3, <1>4, <1>6, <2>1, <2>2 DEF IInv
<1>7. ASSUME NEW id \in Ready, DOMAIN streams' = DOMAIN streams \ {id},
             UNCHANGED <<answering, handed>>
      PROVE  IInv'
  BY <1>1, <1>2, <1>3, <1>4, <1>7
     DEF IInv, RecordsKept, RecordsOpened, HandedOpened, HandedKept,
         PromiseKept
<1> QED
  BY <1>5, <1>6, <1>7, FinishedStep

(* The other calls.                                                        *)
LEMMA LocalInv ==
    ASSUME TypeOK, TypeOK', IInv, Local, ~Finished, Observe
    PROVE  IInv' /\ answering' \subseteq answering
<1> USE Numbers
<1>1. CASE CallFinished
  <2>1. UNCHANGED <<connectionVars, answering, handed>> /\ mode' = "finished"
        /\ job = NoJob /\ ~over
    BY <1>1 DEF CallFinished, Free
  <2>2. promised' = promised
    BY <2>1 DEF Observe, connectionVars
  <2> QED
    BY <2>1, <2>2
       DEF connectionVars, IInv, RecordsKept, RecordsOpened, HandedOpened,
           HandedKept, PromiseKept, OneCall
<1>2. CASE \E id \in answering, block \in BlockSizes, body \in BodySizes,
              trailers \in {NoFields, [kind |-> "trailers", tag |-> 0]} :
                Respond(id, block, body, trailers, 0)
  <2>1. PICK id \in answering, block \in BlockSizes, body \in BodySizes,
             trailers \in {NoFields, [kind |-> "trailers", tag |-> 0]} :
                Respond(id, block, body, trailers, 0)
    BY <1>2
  <2>2. /\ DOMAIN streams' = DOMAIN streams
        /\ job' # NoJob /\ job'.id = id
        /\ UNCHANGED <<last_peer, going_away, over, mode, handed>>
        /\ answering' = answering \ {id} /\ mode = "open" /\ job = NoJob
    BY <2>1, TrailersType, RespondStep
  <2>3. RecordsOpened' /\ HandedOpened' /\ PromiseKept'
    BY <2>2, PromiseStep
  <2>4. RecordsKept' /\ HandedKept' /\ OneCall'
    BY <2>2 DEF IInv, RecordsKept, HandedKept, OneCall
  <2> QED
    BY <2>2, <2>3, <2>4 DEF IInv
<1>3. CASE Responding
  <2>1. Writes /\ UNCHANGED <<answering, mode, handed>>
    BY <1>3, WriteStep DEF Responding, TypeOK
  <2>2. RecordsOpened' /\ HandedOpened' /\ PromiseKept'
    BY <2>1, PromiseStep DEF Writes
  <2>3. RecordsKept' /\ HandedKept' /\ OneCall'
    BY <2>1 DEF Writes, IInv, RecordsKept, HandedKept, OneCall
  <2> QED
    BY <2>1, <2>2, <2>3 DEF IInv
<1>4. CASE RespondReturns
  <2>1. /\ job' = NoJob /\ job # NoJob
        /\ DOMAIN streams' = DOMAIN streams \ {job.id}
        /\ UNCHANGED <<last_peer, going_away, over, answering, mode, handed>>
    BY <1>4, RespondReturnsStep
  <2>2. RecordsOpened' /\ HandedOpened' /\ PromiseKept'
    BY <2>1, PromiseStep
  <2>3. RecordsKept' /\ HandedKept' /\ OneCall'
    BY <2>1 DEF IInv, RecordsKept, HandedKept, OneCall
  <2> QED
    BY <2>1, <2>2, <2>3 DEF IInv
<1>5. CASE CallGoAway \/ Close
  <2>1. /\ UNCHANGED <<streams, last_peer, job, over, answering, handed>>
        /\ going_away' \/ going_away' = going_away
        /\ job = NoJob /\ mode' \in {"open", "close"}
    <3>1. CASE GoAway("NoError")
      BY <1>5, <3>1, GoAwayStep, CodesAre DEF CallGoAway, Close, Free, TypeOK
    <3>2. CASE UNCHANGED connectionVars
      BY <1>5, <3>2 DEF CallGoAway, Close, Free, connectionVars
    <3> QED
      BY <1>5, <3>1, <3>2, Zenon DEF CallGoAway, Close
  <2>2. RecordsOpened' /\ HandedOpened' /\ PromiseKept'
    BY <2>1, PromiseStep
  <2>3. RecordsKept' /\ HandedKept' /\ OneCall'
    BY <2>1 DEF IInv, RecordsKept, HandedKept, OneCall
  <2> QED
    BY <2>1, <2>2, <2>3 DEF IInv
<1>6. CASE Closed
  <2>1. /\ UNCHANGED <<streams, last_peer, going_away, job, answering, handed>>
        /\ mode = "close" /\ mode' = "closed" /\ over'
    BY <1>6 DEF Closed
  <2>2. RecordsOpened' /\ HandedOpened' /\ PromiseKept'
    BY <2>1, PromiseStep
  <2>3. RecordsKept' /\ HandedKept' /\ OneCall'
    BY <2>1 DEF IInv, RecordsKept, HandedKept, OneCall
  <2> QED
    BY <2>1, <2>2, <2>3 DEF IInv
<1>7. CASE ReadEnds
  <2>1. /\ over' /\ job' = NoJob
        /\ UNCHANGED <<streams, last_peer, going_away, answering, mode,
                       handed>>
    BY <1>7, PumpEndStep DEF ReadEnds, TypeOK
  <2>2. mode # "finished"
    <3>1. mode = "open" \/ mode = "close" \/ job # NoJob
      BY <1>7 DEF ReadEnds, Free, NoJob
    <3> QED
      BY <3>1 DEF IInv, OneCall
  <2>3. RecordsOpened' /\ HandedOpened' /\ PromiseKept'
    BY <2>1, PromiseStep
  <2>4. RecordsKept' /\ HandedKept' /\ OneCall'
    BY <2>1, <2>2 DEF IInv, RecordsKept, HandedKept, OneCall
  <2> QED
    BY <2>1, <2>3, <2>4 DEF IInv
<1> QED
  BY <1>1, <1>2, <1>3, <1>4, <1>5, <1>6, <1>7, Zenon DEF Local

(* Every step keeps IInv, and hands out only what was not handed out.      *)
LEMMA NextInv ==
    ASSUME TypeOK, TypeOK', IInv, [ServerNext]_vars
    PROVE  IInv' /\ \A id \in answering' \ answering : id \notin handed
<1>1. CASE ServerStep
  <2>1. CASE Finished
    BY <1>1, <2>1, FinishedInv DEF ServerStep
  <2>2. CASE Local /\ ~Finished
    BY <1>1, <2>2, LocalInv DEF ServerStep
  <2>3. CASE \E f \in PeerFrames : Reading(f)
    BY <1>1, <2>3, ReadingInv, ReadingStep DEF ServerStep
  <2> QED
    BY <1>1, <2>1, <2>2, <2>3, Zenon DEF ServerStep
<1>2. CASE UNCHANGED <<streams, last_peer, going_away, job, over, serverVars>>
  BY <1>2 DEF serverVars, IInv, RecordsKept, RecordsOpened, HandedOpened,
              HandedKept, PromiseKept, OneCall
<1>3. PeerReads \/ UNCHANGED vars =>
        UNCHANGED <<streams, last_peer, going_away, job, over, serverVars>>
  BY DEF PeerReads, vars, connectionVars, serverVars
<1> QED
  BY <1>1, <1>2, <1>3, Zenon DEF ServerNext

(* The server starts with nothing handed out.                              *)
LEMMA InitInv ==
    ASSUME ServerInit
    PROVE  IInv
  BY DEF ServerInit, Start, IInv, RecordsKept, RecordsOpened, HandedOpened,
         HandedKept, OneCall, PromiseKept, NoGoaway

-----------------------------------------------------------------------------
(* Limits: what holds of the windows and of the streams' number.           *)

(* What the server's own steps do to them: they open nothing, give nothing *)
(* to a window, and let go of what is held before they wait.               *)
Spares ==
    /\ DOMAIN streams' \subseteq DOMAIN streams
    /\ \A id \in DOMAIN streams' : Written(streams[id], streams'[id])
    /\ send' = send \/ send' \in 0..send
    /\ job'.phase = "waiting" => held' = << >> \/ UNCHANGED <<held, job>>
    /\ over => over'
    /\ UNCHANGED <<receive, remote>>

(* A step that leaves the streams and the windows alone spares them.       *)
LEMMA LeavesSpares ==
    ASSUME TypeOK, UNCHANGED <<streams, send, receive, remote>>, over => over',
           job'.phase # "waiting" \/ UNCHANGED <<held, job>>
    PROVE  Spares
  BY WrittenSame DEF Spares, TypeOK, ConnectionTypeOK

(* So does one that only forgets a stream.                                 *)
LEMMA ForgettingSpares ==
    ASSUME TypeOK, NEW id, streams' = Without(id), job'.phase # "waiting",
           UNCHANGED <<send, receive, remote, over>>
    PROVE  Spares
<1>1. ASSUME NEW i \in DOMAIN streams'
      PROVE  i \in DOMAIN streams /\ Written(streams[i], streams'[i])
  BY WrittenSame DEF Without, TypeOK, ConnectionTypeOK
<1> QED
  BY <1>1 DEF Spares

(* A round of finished spares them.                                        *)
LEMMA FinishedSpares ==
    ASSUME TypeOK, IInv, Finished
    PROVE  Spares
<1>1. /\ mode = "finished" /\ job' = job
      /\ UNCHANGED <<send, receive, remote, over>>
  BY DEF Finished, finishedUnchanged
<1>2. job'.phase # "waiting"
  BY <1>1 DEF IInv, OneCall, NoJob
<1>3. ASSUME NEW id \in Ready, HandOut(id)
      PROVE  Spares
  <2> DEFINE left == [streams[id] EXCEPT !.head = NoFields, !.body = 0]
  <2>1. id \in DOMAIN streams /\ streams[id] \in StreamRecord
    BY DEF Ready, TypeOK, ConnectionTypeOK
  <2>2. Written(streams[id], left)
    BY <2>1 DEF Written, StreamRecord
  <2> HIDE DEF left
  <2>3. streams' = With(id, left)
    BY <1>3 DEF HandOut, left
  <2>4. /\ DOMAIN streams' = DOMAIN streams
        /\ \A i \in DOMAIN streams : Written(streams[i], streams'[i])
    BY <2>1, <2>2, <2>3, TypeParts, WrittenWith DEF With, TypeOK
  <2> QED
    BY <1>1, <1>2, <2>4 DEF Spares
<1>4. ASSUME NEW id \in Ready, RefuseRequest(id) \/ Forget(id)
      PROVE  Spares
  BY <1>1, <1>2, <1>4, ForgettingSpares DEF RefuseRequest, Forget
<1>5. CASE UNCHANGED streams
  BY <1>1, <1>2, <1>5, LeavesSpares
<1> QED
  BY <1>3, <1>4, <1>5, Zenon DEF Finished

(* So does every call of the application.                                  *)
LEMMA LocalSpares ==
    ASSUME TypeOK, IInv, Local
    PROVE  Spares
<1>1. NoJob.phase # "waiting"
  BY DEF NoJob
<1>2. CASE CallFinished
  BY <1>2, LeavesSpares DEF CallFinished, connectionVars
<1>3. CASE \E id \in answering, block \in BlockSizes, body \in BodySizes,
              trailers \in {NoFields, [kind |-> "trailers", tag |-> 0]} :
                Respond(id, block, body, trailers, 0)
  <2>1. PICK id \in answering, block \in BlockSizes, body \in BodySizes,
             trailers \in {NoFields, [kind |-> "trailers", tag |-> 0]} :
                Respond(id, block, body, trailers, 0)
    BY <1>3
  <2>2. id \in DOMAIN streams /\ streams \in [DOMAIN streams -> StreamRecord]
    BY DEF IInv, RecordsKept, TypeOK, ConnectionTypeOK
  <2>3. StartMessage(id, streams, [kind |-> "response", tag |-> 0], block,
                     body, trailers) /\ UNCHANGED over
    BY <2>1 DEF Respond, StartMessage
  <2>4. /\ DOMAIN streams' = DOMAIN streams
        /\ \A i \in DOMAIN streams : Written(streams[i], streams'[i])
        /\ job'.phase \in {"written", "writing"}
        /\ UNCHANGED <<send, receive, remote>>
    BY <2>2, <2>3, StartMessageSpends
  <2> QED
    BY <2>3, <2>4 DEF Spares
<1>4. CASE Responding
  <2>1. Writes /\ Spends
    BY <1>4, WriteStep, WriteSpends DEF Responding, TypeOK
  <2> QED
    BY <2>1 DEF Writes, Spends, Spares
<1>5. CASE RespondReturns
  BY <1>1, <1>5, ForgettingSpares DEF RespondReturns, Released
<1>6. CASE CallGoAway \/ Close
  <2>1. job = NoJob
    BY <1>6 DEF CallGoAway, Close, Free
  <2> QED
    BY <1>1, <1>6, <2>1, LeavesSpares
       DEF CallGoAway, Close, GoAway, connectionVars
<1>7. CASE Closed
  BY <1>7, LeavesSpares DEF Closed
<1>8. CASE ReadEnds
  BY <1>1, <1>8, LeavesSpares DEF ReadEnds, PumpEnd
<1> QED
  BY <1>2, <1>3, <1>4, <1>5, <1>6, <1>7, <1>8, FinishedSpares, Zenon DEF Local

(* The open streams are finitely many and at most as many as announced.    *)
FewOpen == IsFiniteSet(OpenStreams) /\ ConcurrencyKept

(* The limits, together.                                                   *)
Limits ==
    FewOpen /\ CreditReturned /\ WindowsInRange /\ ReleasedBeforeWaiting

(* A step that spares them keeps the limits.                               *)
LEMMA SparesLimits ==
    ASSUME TypeOK, TypeOK', Limits, Spares
    PROVE  Limits'
<1>1. remote.initial_window_size \in 0..MaxStreamId /\ MaxStreamId \in Nat
  BY WindowAssumption DEF TypeOK, ConnectionTypeOK, Remotes
<1>2. FewOpen'
  <2>1. OpenStreams' \subseteq OpenStreams
    BY DEF OpenStreams, Spares, Written
  <2>2. /\ IsFiniteSet(OpenStreams')
        /\ Cardinality(OpenStreams') <= Cardinality(OpenStreams)
        /\ Cardinality(OpenStreams') \in Nat /\ Cardinality(OpenStreams) \in Nat
    BY <2>1, FS_Subset, FS_CardinalityType DEF Limits, FewOpen
  <2> QED
    BY <2>2, ConnectionAssumption DEF Limits, FewOpen, ConcurrencyKept
<1>3. CreditReturned'
  BY DEF Limits, CreditReturned, Spares
<1>4. WindowsInRange'
  <2>1. send' \in 0..MaxStreamId
    BY <1>1 DEF Limits, WindowsInRange, Spares
  <2>2. ASSUME NEW id \in DOMAIN streams'
        PROVE  /\ streams'[id].send <= MaxStreamId
               /\ streams'[id].send >= remote'.initial_window_size - MaxStreamId
    <3>1. id \in DOMAIN streams /\ streams[id].send \in Int
      BY DEF Spares, TypeOK, ConnectionTypeOK, StreamRecord
    <3>2. \/ streams'[id].send = streams[id].send
          \/ streams'[id].send \in 0..streams[id].send
      BY DEF Spares, Written
    <3>3. /\ streams[id].send <= MaxStreamId
          /\ streams[id].send >= remote.initial_window_size - MaxStreamId
      BY <3>1 DEF Limits, WindowsInRange
    <3>4. remote' = remote
      BY DEF Spares
    <3> QED
      BY <1>1, <3>1, <3>2, <3>3, <3>4
  <2> QED
    BY <2>1, <2>2 DEF WindowsInRange
<1>5. ReleasedBeforeWaiting'
  BY DEF Limits, ReleasedBeforeWaiting, Spares
<1> QED
  BY <1>2, <1>3, <1>4, <1>5 DEF Limits

(* A frame read keeps the limits.                                          *)
LEMMA ReadingLimits ==
    ASSUME TypeOK, TypeOK', Limits, NEW f \in PeerFrames, Reading(f)
    PROVE  Limits'
<1>1. Effect /\ WindowsFollow /\ ~over
  <2>1. f \in Frame /\ Pump(f)
    BY ServerAssumption DEF Reading, ReadFrame, ReadStalled, DrainFrame
  <2> QED
    BY <2>1, ReadingStep, PumpWindows DEF TypeOK
<1>2. /\ remote.initial_window_size \in 0..MaxStreamId /\ MaxStreamId \in Nat
      /\ remote'.initial_window_size \in 0..MaxStreamId
      /\ send \in Int /\ send' \in Int
  BY WindowAssumption DEF TypeOK, ConnectionTypeOK, Remotes
<1>3. \/ DOMAIN streams' = DOMAIN streams
      \/ /\ ~Full /\ DOMAIN streams' = DOMAIN streams \cup {last_peer'}
         /\ UNCHANGED remote
         /\ streams'[last_peer'].send = remote.initial_window_size
  BY <1>1, Zenon DEF Effect
<1>4. FewOpen'
  <2>1. ASSUME NEW id \in OpenStreams', id \in DOMAIN streams
        PROVE  id \in OpenStreams
    BY <1>1, <2>1 DEF OpenStreams, Effect, RecordsFollow, Follows
  <2>2. Cardinality(OpenStreams) \in Nat /\ IsFiniteSet(OpenStreams)
    BY FS_CardinalityType DEF Limits, FewOpen
  <2>3. CASE DOMAIN streams' = DOMAIN streams
    <3>1. OpenStreams' \subseteq OpenStreams
      BY <2>1, <2>3 DEF OpenStreams
    <3>2. /\ IsFiniteSet(OpenStreams')
          /\ Cardinality(OpenStreams') <= Cardinality(OpenStreams)
          /\ Cardinality(OpenStreams') \in Nat
      BY <2>2, <3>1, FS_Subset, FS_CardinalityType
    <3> QED
      BY <2>2, <3>2, ConnectionAssumption DEF Limits, FewOpen, ConcurrencyKept
  <2>4. CASE ~Full /\ DOMAIN streams' = DOMAIN streams \cup {last_peer'}
    <3> DEFINE larger == OpenStreams \cup {last_peer'}
    <3>1. OpenStreams' \subseteq larger
      BY <2>1, <2>4 DEF OpenStreams
    <3>2. /\ IsFiniteSet(larger) /\ Cardinality(larger) \in Nat
          /\ Cardinality(larger) <= Cardinality(OpenStreams) + 1
      <4>1. /\ IsFiniteSet(larger)
            /\ \/ Cardinality(larger) = Cardinality(OpenStreams)
               \/ Cardinality(larger) = Cardinality(OpenStreams) + 1
        BY <2>2, FS_AddElement, Zenon
      <4> HIDE DEF larger
      <4> QED
        BY <2>2, <4>1
    <3> HIDE DEF larger
    <3>3. /\ IsFiniteSet(OpenStreams')
          /\ Cardinality(OpenStreams') <= Cardinality(larger)
          /\ Cardinality(OpenStreams') \in Nat
      BY <3>1, <3>2, FS_Subset, FS_CardinalityType
    <3>4. Cardinality(OpenStreams) < MaxConcurrent
      BY <2>2, <2>4, ConnectionAssumption DEF Full
    <3> QED
      BY <2>2, <3>2, <3>3, <3>4, ConnectionAssumption
         DEF FewOpen, ConcurrencyKept
  <2> QED
    BY <1>3, <2>3, <2>4
<1>5. CreditReturned'
  BY <1>1 DEF Limits, CreditReturned, WindowsFollow
<1>6. WindowsInRange'
  <2>1. send' \in 0..MaxStreamId
    BY <1>1, <1>2 DEF Limits, WindowsInRange, WindowsFollow
  <2>2. ASSUME NEW id \in DOMAIN streams
        PROVE  /\ streams'[id].send <= MaxStreamId
               /\ streams'[id].send >= remote'.initial_window_size - MaxStreamId
    <3>1. streams[id].send \in Int /\ streams'[id].send \in Int
      BY <1>3 DEF TypeOK, ConnectionTypeOK, StreamRecord
    <3>2. /\ streams'[id].send >= streams[id].send
                 + (remote'.initial_window_size - remote.initial_window_size)
          /\ \/ streams'[id].send = streams[id].send
             \/ streams'[id].send <= MaxStreamId
      BY <1>1 DEF Effect, RecordsFollow, Follows, InitialDelta
    <3>3. /\ streams[id].send <= MaxStreamId
          /\ streams[id].send >= remote.initial_window_size - MaxStreamId
      BY DEF Limits, WindowsInRange
    <3> QED
      BY <1>2, <3>1, <3>2, <3>3
  <2>3. CASE DOMAIN streams' = DOMAIN streams
    BY <2>1, <2>2, <2>3 DEF WindowsInRange
  <2>4. CASE /\ DOMAIN streams' = DOMAIN streams \cup {last_peer'}
             /\ UNCHANGED remote
             /\ streams'[last_peer'].send = remote.initial_window_size
    <3>1. /\ streams'[last_peer'].send <= MaxStreamId
          /\ streams'[last_peer'].send
               >= remote'.initial_window_size - MaxStreamId
      BY <1>2, <2>4
    <3> QED
      BY <2>1, <2>2, <2>4, <3>1, Zenon DEF WindowsInRange
  <2> QED
    BY <1>3, <2>3, <2>4
<1>7. ReleasedBeforeWaiting'
  BY <1>1 DEF ReleasedBeforeWaiting, Effect, SameJob
<1> QED
  BY <1>4, <1>5, <1>6, <1>7 DEF Limits

(* Every step keeps the limits.                                            *)
LEMMA NextLimits ==
    ASSUME TypeOK, TypeOK', IInv, Limits, [ServerNext]_vars
    PROVE  Limits'
<1>1. CASE ServerStep
  BY <1>1, LocalSpares, SparesLimits, ReadingLimits DEF ServerStep
<1>2. CASE PeerReads \/ UNCHANGED vars
  <2>1. Spares
    BY <1>2, LeavesSpares DEF PeerReads, vars, connectionVars
  <2> QED
    BY <2>1, SparesLimits
<1> QED
  BY <1>1, <1>2, Zenon DEF ServerNext

(* The server starts within them.                                          *)
LEMMA InitLimits ==
    ASSUME ServerInit
    PROVE  Limits
<1> USE DEF ServerInit, Start
<1>1. OpenStreams = {}
  BY DEF OpenStreams
<1>2. FewOpen
  BY <1>1, FS_EmptySet, ConnectionAssumption DEF FewOpen, ConcurrencyKept
<1>3. CreditReturned /\ WindowsInRange /\ ReleasedBeforeWaiting
  BY WindowAssumption
     DEF CreditReturned, WindowsInRange, ReleasedBeforeWaiting
<1> QED
  BY <1>2, <1>3 DEF Limits

-----------------------------------------------------------------------------
(* The theorems: each property, of every behaviour.                        *)

(* All that was shown to be inductive holds throughout.                    *)
LEMMA Throughout == ServerSpec => [](TypeOK /\ IInv /\ Limits)
<1>1. ServerInit => TypeOK /\ IInv /\ Limits
  BY InitType, InitInv, InitLimits
<1>2. TypeOK /\ IInv /\ Limits /\ [ServerNext]_vars
        => (TypeOK /\ IInv /\ Limits)'
  BY NextType, NextInv, NextLimits
<1> QED
  BY <1>1, <1>2, PTL DEF ServerSpec

(* A stream handed to the application keeps its record until respond has   *)
(* answered it, whatever the client sends meanwhile.                       *)
THEOREM KeptUntilAnswered == ServerSpec => []RecordsKept
<1>1. TypeOK /\ IInv /\ Limits => RecordsKept
  BY DEF IInv
<1> QED
  BY <1>1, Throughout, PTL

(* Records are the client's own streams, none above the highest it opened: *)
(* what makes an id without a record closed for good.                      *)
THEOREM OnlyClientStreams == ServerSpec => []RecordsOpened
<1>1. TypeOK /\ IInv /\ Limits => RecordsOpened
  BY DEF IInv
<1> QED
  BY <1>1, Throughout, PTL

(* No stream above the last the first GOAWAY named is handed out, whoever  *)
(* sent that GOAWAY (go_away, close or a breach) and whatever came after.  *)
THEOREM PromiseHolds == ServerSpec => []NothingAboveGoaway
<1>1. TypeOK /\ IInv /\ Limits => NothingAboveGoaway
  BY DEF IInv, PromiseKept, NothingAboveGoaway
<1> QED
  BY <1>1, Throughout, PTL

(* However streams end, at most max_concurrent_streams of them are open.   *)
THEOREM ConcurrencyLimit == ServerSpec => []ConcurrencyKept
<1>1. TypeOK /\ IInv /\ Limits => ConcurrencyKept
  BY DEF Limits, FewOpen
<1> QED
  BY <1>1, Throughout, PTL

(* The connection's receiving window never leaks: between two frames it is *)
(* whole, for any mix of DATA on live, reset, closed and forgotten streams.*)
THEOREM WindowGivenBack == ServerSpec => []CreditReturned
<1>1. TypeOK /\ IInv /\ Limits => CreditReturned
  BY DEF Limits
<1> QED
  BY <1>1, Throughout, PTL

(* No sequence of WINDOW_UPDATE, SETTINGS and DATA takes a sending window  *)
(* past 2^31 - 1 or below what the largest shift of SETTINGS leaves.       *)
THEOREM WindowsBounded == ServerSpec => []WindowsInRange
<1>1. TypeOK /\ IInv /\ Limits => WindowsInRange
  BY DEF Limits
<1> QED
  BY <1>1, Throughout, PTL

(* respond never waits for a window with something still unwritten that    *)
(* the client might be waiting for.                                        *)
THEOREM NothingHeldWaiting == ServerSpec => []ReleasedBeforeWaiting
<1>1. TypeOK /\ IInv /\ Limits => ReleasedBeforeWaiting
  BY DEF Limits
<1> QED
  BY <1>1, Throughout, PTL

(* In every behaviour no request reaches the application twice.            *)
THEOREM HandedOutOnce == ServerSpec => HandedOnce
<1>1. ServerInit => TypeOK /\ IInv
  BY InitType, InitInv
<1>2. TypeOK /\ IInv /\ [ServerNext]_vars => (TypeOK /\ IInv)'
  BY NextType, NextInv
<1>3. TypeOK /\ IInv /\ [ServerNext]_vars
        => [\A id \in answering' \ answering : id \notin handed]_vars
  BY NextType, NextInv
<1> QED
  BY <1>1, <1>2, <1>3, PTL DEF ServerSpec, HandedOnce
===============================================================================
