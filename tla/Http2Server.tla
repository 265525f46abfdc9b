----------------------------- MODULE Http2Server -----------------------------
(***************************************************************************)
(* The answering side, Server of src/http2/server.rs, over one connection  *)
(* to a peer that may send any frame of PeerFrames in any order. The       *)
(* application is free to call finished, read_frame, respond, go_away and  *)
(* close in any order between two calls; next_request and serve are loops  *)
(* of these calls.                                                         *)
(***************************************************************************)
EXTENDS Http2Connection

CONSTANTS
    PeerFrames,     \* what the peer may send
    BlockSizes,     \* the sizes an encoded header block may have
    BodySizes,      \* the sizes of the bodies the application answers with
    Drain,          \* DRAIN
    Room            \* frames written before a write waits for the peer

ASSUME ServerAssumption ==
    /\ IsClient = FALSE
    /\ PeerFrames \subseteq Frame
    /\ BlockSizes \subseteq Nat /\ BodySizes \subseteq Nat
    /\ Drain \in Nat /\ Room \in Nat \ {0}

VARIABLES
    answering,      \* the streams taken off and not yet answered
    mode,           \* the call running: open (none), finished, close, closed
    drained,        \* frames read by close
    handed,         \* history: every stream handed to the application
    promised        \* history: the last stream the first GOAWAY named

serverVars == <<answering, mode, drained, handed, promised>>
vars == <<connectionVars, serverVars>>

Modes == {"open", "finished", "close", "closed"}

(* Every variable has its type.                                            *)
TypeOK ==
    /\ ConnectionTypeOK
    /\ answering \in SUBSET Nat
    /\ mode \in Modes
    /\ drained \in 0..Drain
    /\ handed \in SUBSET Nat
    /\ promised \in Nat \cup {NoGoaway}

(* handshake, once the preface has been read.                              *)
ServerInit ==
    /\ Start
    /\ answering = {}
    /\ mode = "open"
    /\ drained = 0
    /\ handed = {}
    /\ promised = NoGoaway

(* Between two calls of the application.                                   *)
Free == mode = "open" /\ job = NoJob /\ ~over

-----------------------------------------------------------------------------
(* read_frame: nothing more is read once the client has gone away.         *)
ReadFrame(f) ==
    /\ Free /\ goaway = NoGoaway
    /\ Pump(f)
    /\ UNCHANGED <<answering, mode, drained, handed>>

(* A frame read by respond while a window is shut.                         *)
ReadStalled(f) ==
    /\ job.phase = "waiting" /\ ~over
    /\ Pump(f)
    /\ UNCHANGED <<answering, mode, drained, handed>>

(* The streams finished finds, the lowest first.                           *)
Ready_AnsweringToo ==
    {id \in DOMAIN streams : StreamFinished(streams[id])}
Ready == {id \in DOMAIN streams :
            StreamFinished(streams[id]) /\ id \notin answering}
Lowest(id) == \A other \in Ready : id <= other

CallFinished ==
    /\ Free
    /\ mode' = "finished"
    /\ UNCHANGED <<answering, drained, handed>>
    /\ UNCHANGED connectionVars

finishedUnchanged == <<send, receive, remote, continuing, highest, last_peer,
                       goaway, going_away, settings_seen, pongs, job, over,
                       drained>>

(* The whole request is handed out.                                        *)
HandOut(id) ==
    /\ ~IsReset(streams[id]) /\ streams[id].head.kind = "request"
    /\ streams' = With(id, [streams[id] EXCEPT !.head = NoFields,
                                               !.body = 0])
    /\ answering' = answering \cup {id}
    /\ handed' = handed \cup {id}
    /\ mode' = "open"
    /\ UNCHANGED <<held, out>>

(* A head request_of refuses: the stream is reset and forgotten.           *)
RefuseRequest(id) ==
    /\ ~IsReset(streams[id])
    /\ streams[id].head.kind \notin {"request", "none"}
    /\ streams' = Without(id)
    /\ Emit(<<RstStream(id, "Protocol")>>)
    /\ UNCHANGED <<answering, handed, mode>>

(* Reset, or ended with no head at all: forgotten in silence.              *)
Forget(id) ==
    /\ IsReset(streams[id]) \/ streams[id].head = NoFields
    /\ streams' = Without(id)
    /\ UNCHANGED <<answering, handed, mode, held, out>>

(* One round of finished.                                                  *)
Finished ==
    /\ mode = "finished"
    /\ \/ \E id \in Ready :
            /\ Lowest(id)
            /\ HandOut(id) \/ RefuseRequest(id) \/ Forget(id)
       \/ /\ Ready = {}
          /\ mode' = "open"
          /\ UNCHANGED <<streams, answering, handed, held, out>>
    /\ UNCHANGED finishedUnchanged

-----------------------------------------------------------------------------
(* respond, as far as its head; the tag of the answer is its request's.    *)
Respond(id, block, body, trailers, tag) ==
    /\ Free /\ id \in answering
    /\ answering' = answering \ {id}
    /\ StartMessage(id, streams, [kind |-> "response", tag |-> tag], block,
                    body, trailers)
    /\ UNCHANGED <<highest, mode, drained, handed>>

Responding ==
    /\ Write
    /\ UNCHANGED <<answering, mode, drained, handed>>

(* respond forgets the stream whether or not it was answered.              *)
RespondReturns ==
    /\ Released
    /\ streams' = Without(job.id)
    /\ UNCHANGED <<send, receive, remote, continuing, highest, last_peer,
                   goaway, going_away, settings_seen, pongs, over>>
    /\ UNCHANGED <<answering, mode, drained, handed>>

(* serve, which ends with an answer that failed: its connection goes with  *)
(* it. An application with a loop of its own may go on.                    *)
ServeFails ==
    /\ job.phase = "refused"
    /\ Released
    /\ streams' = Without(job.id)
    /\ over' = TRUE
    /\ UNCHANGED <<send, receive, remote, continuing, highest, last_peer,
                   goaway, going_away, settings_seen, pongs>>
    /\ UNCHANGED <<answering, mode, drained, handed>>

CallGoAway ==
    /\ Free
    /\ GoAway("NoError")
    /\ UNCHANGED <<answering, mode, drained, handed>>

(* close: a GOAWAY unless one was sent, then frames read until the client  *)
(* closes, at most Drain of them.                                          *)
Close ==
    /\ Free
    /\ IF going_away THEN UNCHANGED connectionVars ELSE GoAway("NoError")
    /\ mode' = "close"
    /\ UNCHANGED <<answering, drained, handed>>

DrainFrame(f) ==
    /\ mode = "close" /\ ~over /\ drained < Drain
    /\ Pump(f)
    /\ drained' = drained + 1
    /\ UNCHANGED <<answering, mode, handed>>

(* The connection is let go: drained, or failed or closed under the drain. *)
Closed ==
    /\ mode = "close" /\ (over \/ drained = Drain)
    /\ mode' = "closed"
    /\ over' = TRUE
    /\ UNCHANGED <<answering, drained, handed>>
    /\ UNCHANGED <<streams, send, receive, remote, continuing, highest,
                   last_peer, goaway, going_away, settings_seen, pongs, held,
                   out, job>>

(* The client closes its side, or the connection breaks under a read.      *)
ReadEnds_NotDraining ==
    /\ ~over
    /\ (Free /\ goaway = NoGoaway) \/ job.phase = "waiting"
    /\ PumpEnd
    /\ UNCHANGED <<answering, mode, drained, handed>>
ReadEnds ==
    /\ ~over
    /\ \/ Free /\ goaway = NoGoaway
       \/ job.phase = "waiting"
       \/ mode = "close" /\ drained < Drain
    /\ PumpEnd
    /\ UNCHANGED <<answering, mode, drained, handed>>

(* The first GOAWAY written, whoever decided it: go_away, close or fail.   *)
Observe ==
    promised' = IF going_away' /\ ~going_away THEN last_peer ELSE promised

-----------------------------------------------------------------------------
(* A step of the server, given the frame the peer has for it.              *)
Local ==
    \/ CallFinished \/ Finished
    \/ \E id \in answering, block \in BlockSizes, body \in BodySizes,
          trailers \in {NoFields, [kind |-> "trailers", tag |-> 0]} :
            Respond(id, block, body, trailers, 0)
    \/ Responding \/ RespondReturns
    \/ CallGoAway \/ Close \/ Closed \/ ReadEnds

Reading(f) == ReadFrame(f) \/ ReadStalled(f) \/ DrainFrame(f)

ServerStep == (Local \/ \E f \in PeerFrames : Reading(f)) /\ Observe

PeerReads ==
    /\ out # << >>
    /\ out' = << >>
    /\ UNCHANGED <<streams, send, receive, remote, continuing, highest,
                   last_peer, goaway, going_away, settings_seen, pongs, held,
                   job, over>>
    /\ UNCHANGED serverVars

ServerNext == (Len(out) < Room /\ ServerStep) \/ PeerReads

ServerSpec == ServerInit /\ [][ServerNext]_vars

-----------------------------------------------------------------------------
(* A stream handed to the application keeps its record until it is         *)
(* answered, whatever the peer sends meanwhile (reset, RST_STREAM, GOAWAY, *)
(* a stalled answer on another stream): respond and send_data find it.     *)
RecordsKept ==
    /\ answering \subseteq DOMAIN streams
    /\ job # NoJob => job.id \in DOMAIN streams \ answering

(* Records are the client's streams, none above the highest it opened: a   *)
(* stream below it that has no record is closed for good.                  *)
RecordsOpened ==
    \A id \in DOMAIN streams : id % 2 = 1 /\ id <= last_peer

(* No stream above the last one the first GOAWAY named is ever handed to   *)
(* the application: the client may send what was on it again elsewhere.    *)
NothingAboveGoaway ==
    promised # NoGoaway => \A id \in handed : id <= promised

(* At most max_concurrent_streams streams are open at once, whichever way  *)
(* streams end: answered, reset by either side, refused or forgotten.      *)
ConcurrencyKept == Cardinality(OpenStreams) <= MaxConcurrent

(* Between two frames the client may send a whole window on the            *)
(* connection: what DATA took was given back, on live streams as on closed *)
(* or reset ones, so the connection's window never leaks away.             *)
CreditReturned == over \/ receive = DefaultWindow

(* What may be sent stays within 2^31 - 1 either way, through grants, the  *)
(* shifts of SETTINGS and what was sent: no window overflows its i64.      *)
WindowsInRange ==
    /\ send \in 0..MaxStreamId
    /\ \A id \in DOMAIN streams :
            /\ streams[id].send <= MaxStreamId
            /\ streams[id].send >= remote.initial_window_size - MaxStreamId

(* A send that waits for a window holds nothing back: what the peer may be *)
(* waiting for (a credit, an acknowledgement, the head) has been written.  *)
ReleasedBeforeWaiting == job.phase = "waiting" => held = << >>

(* A stream is handed to the application at most once, though its id stays *)
(* valid on the wire after its record is gone.                             *)
HandedOnce == [][\A id \in answering' \ answering : id \notin handed]_vars
===============================================================================
