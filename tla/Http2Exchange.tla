---------------------------- MODULE Http2Exchange ----------------------------
(***************************************************************************)
(* The library's client and the library's server on one connection, as     *)
(* the tests of src/http2.rs run them: one request after another, each     *)
(* answered on its stream. Each direction of the connection is a FIFO      *)
(* channel that keeps what was written until the other side reads it.      *)
(*                                                                         *)
(* The server's application is serve's loop, which may also go away at any *)
(* time between two calls, and may go on where an answer failed; it closes *)
(* once the client has gone, or, where CloseEarly says so, as soon as      *)
(* every request it took is answered.                                      *)
(***************************************************************************)
EXTENDS Integers, Sequences, SequencesExt

CONSTANTS MaxStreamId, DefaultWindow, MaxConcurrent, MinFrameSize,
          MaxFrameSize, MaxBody, MaxBlock,
          Requests,       \* how many requests the client's application sends
          RequestBodies,  \* the sizes of their bodies
          AnswerBodies,   \* the sizes of the answers' bodies
          HeaderBlocks,   \* the sizes of encoded header blocks
          Drain,          \* DRAIN
          CloseEarly

VARIABLES
    toServer, toClient,
    c_streams, c_send, c_receive, c_remote, c_continuing, c_highest,
    c_last_peer, c_goaway, c_going_away, c_settings_seen, c_pongs, c_held,
    c_job, c_over, c_next, c_call, c_results,
    s_streams, s_send, s_receive, s_remote, s_continuing, s_highest,
    s_last_peer, s_goaway, s_going_away, s_settings_seen, s_pongs, s_held,
    s_job, s_over, s_answering, s_mode, s_drained, s_handed, s_promised,
    asked,      \* how many requests the client's application has sent
    inbox,      \* the requests the server's application is to answer
    large       \* whether a message over MAX_BODY was sent, a history

clientState == <<c_streams, c_send, c_receive, c_remote, c_continuing,
    c_highest, c_last_peer, c_goaway, c_going_away, c_settings_seen, c_pongs,
    c_held, c_job, c_over, c_next, c_call, c_results, asked>>
serverState == <<s_streams, s_send, s_receive, s_remote, s_continuing,
    s_highest, s_last_peer, s_goaway, s_going_away, s_settings_seen, s_pongs,
    s_held, s_job, s_over, s_answering, s_mode, s_drained, s_handed,
    s_promised, inbox>>
vars == <<toServer, toClient, clientState, serverState, large>>

C == INSTANCE Http2Client WITH
    IsClient <- TRUE, PeerFrames <- {}, BlockSizes <- HeaderBlocks,
    BodySizes <- RequestBodies, Room <- 1, out <- toServer,
    streams <- c_streams, send <- c_send, receive <- c_receive,
    remote <- c_remote, continuing <- c_continuing, highest <- c_highest,
    last_peer <- c_last_peer, goaway <- c_goaway, going_away <- c_going_away,
    settings_seen <- c_settings_seen, pongs <- c_pongs, held <- c_held,
    job <- c_job, over <- c_over, next <- c_next, call <- c_call,
    results <- c_results

S == INSTANCE Http2Server WITH
    IsClient <- FALSE, PeerFrames <- {}, BlockSizes <- HeaderBlocks,
    BodySizes <- AnswerBodies, Room <- 1, out <- toClient,
    streams <- s_streams, send <- s_send, receive <- s_receive,
    remote <- s_remote, continuing <- s_continuing, highest <- s_highest,
    last_peer <- s_last_peer, goaway <- s_goaway, going_away <- s_going_away,
    settings_seen <- s_settings_seen, pongs <- s_pongs, held <- s_held,
    job <- s_job, over <- s_over, answering <- s_answering, mode <- s_mode,
    drained <- s_drained, handed <- s_handed, promised <- s_promised

Init ==
    /\ C!ClientInit
    /\ S!ServerInit
    /\ asked = 0
    /\ inbox = {}
    /\ large = FALSE

(* A message is as large as its body when its head is written.             *)
Weighed == large' = (large \/ c_job'.rest > MaxBody \/ s_job'.rest > MaxBody)

-----------------------------------------------------------------------------
(* The client's application: Requests requests, each tagged with its       *)
(* number, then close; close as soon as the server has gone away.          *)
Ask ==
    /\ asked < Requests
    /\ asked' = asked + 1
    /\ \/ C!SendNotSent(asked + 1)
       \/ \E block \in HeaderBlocks, body \in RequestBodies :
            C!CallSend(block, body, asked + 1)
    /\ UNCHANGED toClient

ClientRuns ==
    /\ C!Requesting \/ C!RequestWritten \/ C!SendReturns
    /\ UNCHANGED <<toClient, asked>>

ClientReads ==
    /\ toClient # << >>
    /\ C!Reading(Head(toClient))
    /\ toClient' = Tail(toClient)
    /\ UNCHANGED asked

(* The server's side is closed and everything it wrote is read.            *)
ClientReadsEnd ==
    /\ toClient = << >> /\ s_over
    /\ C!ReadEnds
    /\ UNCHANGED <<toClient, asked>>

ClientCloses ==
    /\ asked = Requests
    /\ C!Close
    /\ UNCHANGED <<toClient, asked>>

ClientStep ==
    /\ Ask \/ ClientRuns \/ ClientReads \/ ClientReadsEnd \/ ClientCloses
    /\ UNCHANGED serverState
    /\ Weighed

-----------------------------------------------------------------------------
(* serve: requests taken as they end, answered with their own tag.         *)
Take ==
    /\ S!Ready # {}
    /\ S!CallFinished
    /\ UNCHANGED <<toServer, inbox>>

TakeNext ==
    /\ S!Finished
    /\ inbox' = inbox \cup {[id |-> id, tag |-> s_streams[id].head.tag] :
                                id \in s_answering' \ s_answering}
    /\ UNCHANGED toServer

Answer ==
    /\ \E request \in inbox, block \in HeaderBlocks, body \in AnswerBodies,
          trailers \in {S!NoFields, [kind |-> "trailers", tag |-> 0]} :
            /\ S!Respond(request.id, block, body, trailers, request.tag)
            /\ inbox' = inbox \ {request}
    /\ UNCHANGED toServer

ServerRuns ==
    /\ S!Responding \/ S!RespondReturns \/ S!ServeFails
    /\ UNCHANGED <<toServer, inbox>>

ServerReads ==
    /\ toServer # << >>
    /\ S!Reading(Head(toServer))
    /\ toServer' = Tail(toServer)
    /\ UNCHANGED inbox

ServerReadsEnd ==
    /\ toServer = << >> /\ c_over
    /\ S!ReadEnds
    /\ UNCHANGED <<toServer, inbox>>

(* The application's choice, made once.                                    *)
ServerGoesAway ==
    /\ ~s_going_away
    /\ S!CallGoAway
    /\ UNCHANGED <<toServer, inbox>>

ServerCloses ==
    /\ \/ s_goaway # S!NoGoaway /\ S!Ready = {} /\ s_answering = {}
       \/ CloseEarly /\ s_answering = {} /\ s_handed # {}
    /\ S!Close
    /\ UNCHANGED <<toServer, inbox>>

ServerClosed ==
    /\ S!Closed
    /\ UNCHANGED <<toServer, inbox>>

ServerWork ==
    \/ Take \/ TakeNext \/ Answer \/ ServerRuns \/ ServerReads
    \/ ServerReadsEnd \/ ServerCloses \/ ServerClosed

ServerStep ==
    /\ ServerWork \/ ServerGoesAway
    /\ S!Observe
    /\ UNCHANGED clientState
    /\ Weighed

(* External: a connection closed under octets its owner never read is      *)
(* reset by the system, and what it had written and the other side had not *)
(* read yet is lost.                                                       *)
ConnectionReset ==
    /\ \/ /\ s_over /\ toServer # << >> /\ toClient # << >>
          /\ toClient' = << >>
          /\ UNCHANGED toServer
       \/ /\ c_over /\ toClient # << >> /\ toServer # << >>
          /\ toServer' = << >>
          /\ UNCHANGED toClient
    /\ UNCHANGED <<clientState, serverState, large>>

Next == ClientStep \/ ServerStep \/ ConnectionReset

(* Each side's thread keeps running while it has a step to take; when the  *)
(* application goes away is its own choice.                                *)
Fairness ==
    /\ WF_vars(ClientStep)
    /\ WF_vars(ServerWork /\ S!Observe /\ UNCHANGED clientState /\ Weighed)

Spec == Init /\ [][Next]_vars /\ Fairness

-----------------------------------------------------------------------------
(* A GOAWAY that says the other side breached the connection.              *)
Complaints(channel) ==
    {i \in DOMAIN channel : channel[i].kind = "Goaway" /\ channel[i].code # "NoError"}

(* "A breach of one stream" is "ended with RST_STREAM" (receive.rs:3):     *)
(* between this client and this server nothing ends the connection with a  *)
(* failure, a message over MAX_BODY and what was in flight behind it       *)
(* included.                                                               *)
NothingBreached == Complaints(toServer) = {} /\ Complaints(toClient) = {}

(* The next frame is of the trailers behind an answer whose send failed,   *)
(* the client having reset and forgotten its stream.                       *)
LateTrailers ==
    /\ toClient # << >> /\ Head(toClient).kind \in {"Headers", "Continuation"}
    /\ \E sent \in c_results : sent.id = Head(toClient).stream /\ sent.kind = "failed"

(* Neither side breaches the connection in the other's eyes: no frame of   *)
(* one is out of window, on a stream in the wrong state, in the midst of a *)
(* header block or otherwise answered with a failing GOAWAY, whatever      *)
(* crosses a GOAWAY or the reset of a message over MAX_BODY; but for the   *)
(* trailers of an answer the client reset (receive.rs:184).                *)
NoBreach ==
    [][/\ Complaints(toClient') = {}
       /\ Complaints(toServer) = {} /\ Complaints(toServer') # {} =>
            LateTrailers]_vars

Carrying(frames, Count(_)) ==
    FoldSeq(LAMBDA f, sum : Count(f) + sum, 0, frames)
DataOn(id, f) ==
    IF f.kind = "Data" /\ (id = 0 \/ f.stream = id) THEN f.length ELSE 0
CreditOn(id, f) ==
    IF f.kind = "WindowUpdate" /\ f.stream = id THEN f.increment ELSE 0

(* Flow control conserves octets on the connection: what a side may send,  *)
(* what it sent and the other has not read, and what the other gave back   *)
(* and it has not heard of make up one initial window, in both directions. *)
ConnectionConserved ==
    LET inFlight(id, theirs, ours) ==
            Carrying(ours, LAMBDA f : DataOn(id, f))
            + Carrying(theirs, LAMBDA f : CreditOn(id, f))
    IN
    ~c_over /\ ~s_over =>
        /\ c_send + inFlight(0, toClient \o s_held, toServer \o c_held)
             = DefaultWindow
        /\ s_send + inFlight(0, toServer \o c_held, toClient \o s_held)
             = DefaultWindow

(* close's documented grace, "a GOAWAY naming the last stream taken": a    *)
(* request on a stream the closing server's GOAWAY names is settled.       *)
CloseSettles ==
    (s_mode = "close" /\ c_call.op = "send" /\ c_call.id <= s_promised)
        ~> (c_call.op = "none")

(* How each send returned, an answer to another request being none of the  *)
(* outcomes a service has; and the requests the application was handed, by *)
(* the stream they were sent on.                                           *)
Outcome(n) ==
    LET of == {result \in c_results : result.tag = n}
        result == CHOOSE r \in of : TRUE
    IN  IF of = {} THEN "none"
        ELSE IF result.kind = "answered" /\ result.answer # n THEN "astray"
        ELSE result.kind
Sends == c_results \cup {call \in {c_call} : call.op = "send"}

Service == INSTANCE RequestService WITH
    processed <- {sent.tag : sent \in {r \in Sends : r.id \in s_handed}},
    outcome <- [n \in 1..Requests |-> Outcome(n)],
    away <- s_going_away

(* The client and the server together are a service of requests: whatever  *)
(* crosses a GOAWAY, each send returns, with the answer to its own request *)
(* or aborted with the request never processed, neither side waiting for   *)
(* what the other holds back; none after an aborted one is taken; and none *)
(* fails before a message over MAX_BODY was sent.                          *)
ServesRequests == Service!Spec

(* Once the client has sent what it had, both sides let the connection go. *)
BothEnd == <>[](c_over /\ s_over)
===============================================================================
