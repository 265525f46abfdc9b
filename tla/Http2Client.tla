----------------------------- MODULE Http2Client -----------------------------
(***************************************************************************)
(* The asking side, Client of src/http2/client.rs, over one connection to  *)
(* a peer that may send any frame of PeerFrames in any order. A client has *)
(* one call running at a time: send, ping or close.                        *)
(***************************************************************************)
EXTENDS Http2Connection

CONSTANTS
    PeerFrames,     \* what the peer may send
    BlockSizes,     \* the sizes an encoded header block may have
    BodySizes,      \* the sizes of the requests' bodies
    Room            \* frames written before a write waits for the peer

ASSUME ClientAssumption ==
    /\ IsClient = TRUE
    /\ PeerFrames \subseteq Frame
    /\ BlockSizes \subseteq Nat /\ BodySizes \subseteq Nat
    /\ Room \in Nat \ {0}

VARIABLES
    next,       \* the id of the next stream
    call,       \* the call running
    results     \* history: how each send returned

clientVars == <<next, call, results>>
vars == <<connectionVars, clientVars>>

NoCall == [op |-> "none", id |-> 0, tag |-> 0]

(* How send returns: the answer; ConnectionAborted, which says that the    *)
(* request was not processed; or another failure.                          *)
Result(id, tag, kind, answer) ==
    [id |-> id, tag |-> tag, kind |-> kind, answer |-> answer]

ClientInit ==
    /\ Start
    /\ next = 1
    /\ call = NoCall
    /\ results = {}

Free == call = NoCall /\ ~over

-----------------------------------------------------------------------------
(* send, refused before anything is written: the server has gone away, or  *)
(* the ids are used up.                                                    *)
SendNotSent(tag) ==
    /\ Free
    /\ \/ /\ goaway # NoGoaway
          /\ results' = results \cup {Result(0, tag, "aborted", 0)}
       \/ /\ goaway = NoGoaway /\ next > MaxStreamId
          /\ results' = results \cup {Result(0, tag, "failed", 0)}
    /\ UNCHANGED <<next, call>>
    /\ UNCHANGED connectionVars

(* send, as far as its head, on a stream of its own.                       *)
CallSend_AfterGoaway(block, body, tag) ==
    /\ Free /\ next <= MaxStreamId
    /\ next' = next + 2
    /\ call' = [op |-> "send", id |-> next, tag |-> tag]
    /\ highest' = MaxOf(highest, next)
    /\ StartMessage(next, Opened(next), [kind |-> "request", tag |-> tag],
                    block, body, NoFields)
    /\ UNCHANGED results
CallSend(block, body, tag) ==
    /\ Free /\ goaway = NoGoaway /\ next <= MaxStreamId
    /\ next' = next + 2
    /\ call' = [op |-> "send", id |-> next, tag |-> tag]
    /\ highest' = MaxOf(highest, next)
    /\ StartMessage(next, Opened(next), [kind |-> "request", tag |-> tag],
                    block, body, NoFields)
    /\ UNCHANGED results

Requesting ==
    /\ Write
    /\ UNCHANGED clientVars

(* refused: a reset that says the request was never processed.             *)
Refusal(code) == IF code = "RefusedStream" THEN "aborted" ELSE "failed"

(* together returned: the answer is awaited, or the body could not be      *)
(* written and send returns, leaving the record behind.                    *)
RequestWritten ==
    /\ Released
    /\ \/ /\ job.phase = "written"
          /\ UNCHANGED <<call, results>>
       \/ /\ job.phase = "refused"
          /\ call' = NoCall
          /\ results' = results \cup
                {Result(call.id, call.tag, Refusal(streams[call.id].reset), 0)}
    /\ UNCHANGED <<streams, send, receive, remote, continuing, highest,
                   last_peer, goaway, going_away, settings_seen, pongs, over,
                   next>>

Answered == StreamFinished(streams[call.id])

(* The answer has ended, or the stream was reset.                          *)
SendReturns ==
    LET stream == streams[call.id]
        kind == IF IsReset(stream) THEN Refusal(stream.reset)
                ELSE IF stream.head.kind = "response" THEN "answered"
                ELSE "failed"
        answer == IF kind = "answered" THEN stream.head.tag ELSE 0
    IN
    /\ call.op = "send" /\ job = NoJob /\ ~over
    /\ Answered
    /\ results' = results \cup {Result(call.id, call.tag, kind, answer)}
    /\ streams' = Without(call.id)
    /\ call' = NoCall
    /\ UNCHANGED <<send, receive, remote, continuing, highest, last_peer,
                   goaway, going_away, settings_seen, pongs, held, out, job,
                   over, next>>

(* ping: the opaque octets are the number of the next stream.              *)
CallPing ==
    /\ Free
    /\ Emit(<<Ping(next, FALSE)>>)
    /\ call' = [op |-> "ping", id |-> next, tag |-> 0]
    /\ UNCHANGED <<streams, send, receive, remote, continuing, highest,
                   last_peer, goaway, going_away, settings_seen, pongs, job,
                   over, next, results>>

PingReturns ==
    /\ call.op = "ping" /\ ~over
    /\ call.id \in pongs
    /\ call' = NoCall
    /\ UNCHANGED <<next, results>>
    /\ UNCHANGED connectionVars

(* Where a call reads: in a stalled send, for the answer, for the PONG.    *)
Waiting ==
    /\ ~over
    /\ \/ job.phase = "waiting"
       \/ call.op = "send" /\ job = NoJob /\ ~Answered
       \/ call.op = "ping" /\ call.id \notin pongs

(* The connection failed under the call, which returns.                    *)
Interrupted ==
    /\ call' = NoCall
    /\ results' = IF call.op = "send"
                  THEN results \cup {Result(call.id, call.tag, "failed", 0)}
                  ELSE results

Reading(f) ==
    /\ Waiting
    /\ Pump(f)
    /\ IF over' THEN Interrupted ELSE UNCHANGED <<call, results>>
    /\ UNCHANGED next

(* The connection ends under the call; its record, which send removes on   *)
(* a clean end, goes with the connection either way.                       *)
ReadEnds ==
    /\ Waiting
    /\ PumpEnd
    /\ Interrupted
    /\ UNCHANGED next

(* close: a GOAWAY, and the connection is let go.                          *)
Close ==
    /\ Free
    /\ going_away' = TRUE
    /\ Emit(<<Goaway(last_peer, "NoError")>>)
    /\ over' = TRUE
    /\ UNCHANGED <<streams, send, receive, remote, continuing, highest,
                   last_peer, goaway, settings_seen, pongs, job>>
    /\ UNCHANGED clientVars

-----------------------------------------------------------------------------
Local ==
    \/ SendNotSent(0)
    \/ \E block \in BlockSizes, body \in BodySizes : CallSend(block, body, 0)
    \/ Requesting \/ RequestWritten \/ SendReturns
    \/ CallPing \/ PingReturns
    \/ Close

ClientStep == Local \/ ReadEnds \/ \E f \in PeerFrames : Reading(f)

PeerReads ==
    /\ out # << >>
    /\ out' = << >>
    /\ UNCHANGED <<streams, send, receive, remote, continuing, highest,
                   last_peer, goaway, going_away, settings_seen, pongs, held,
                   job, over>>
    /\ UNCHANGED clientVars

ClientNext == (Len(out) < Room /\ ClientStep) \/ PeerReads

ClientSpec == ClientInit /\ [][ClientNext]_vars

-----------------------------------------------------------------------------
(* The server opens nothing: every record and every id this side calls     *)
(* opened is one of its own, so the next stream is always idle.            *)
OwnStreamsOnly ==
    /\ last_peer = 0
    /\ highest < next
    /\ \A id \in DOMAIN streams : id % 2 = 1 /\ id <= highest

(* A record that outlives its call is one the server reset while the body  *)
(* was being written: what is still in flight on it is let go.             *)
LeftoversReset ==
    \A id \in DOMAIN streams : id # call.id /\ ~over => IsReset(streams[id])
===============================================================================
