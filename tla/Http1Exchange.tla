----------------------------- MODULE Http1Exchange -----------------------------
(***************************************************************************)
(* HTTP/1.1 over a kept connection, src/http.rs and the modules under it:  *)
(* a client whose exchange_kept writes a request and reads its answer, and *)
(* a peer that answers, with write_response or in ways of its own.         *)
(*                                                                         *)
(* The wire carries tokens. A reader asks for a line, for octets or for a  *)
(* chunk's CRLF, and every sequence of octets is a sequence of these under *)
(* the reader's demands; a token says which request it answers.            *)
(***************************************************************************)
EXTENDS Integers, Sequences, SequencesExt

CONSTANTS
    MaxBody,        \* MAX_BODY
    MaxHeaders,     \* MAX_HEADERS
    MaxRequests,    \* how many requests a client makes of each peer
    Answers,        \* what the peer's application answers with
    Peers           \* who may answer: "own", "interim" or "any"

ASSUME Http1Assumption ==
    /\ MaxBody \in Nat /\ MaxHeaders \in Nat
    /\ MaxRequests \in [Peers -> Nat]
    /\ Peers \subseteq {"own", "interim", "any"}
    /\ Answers \subseteq [status : Nat, body : Nat, trailers : BOOLEAN,
                          connection : {"none", "close", "keep-alive"}]

VARIABLES
    asked,      \* how many requests the client made
    keeps,      \* whether this one is exchange_kept or exchange
    reading,    \* how far read_response is
    buffer,     \* what its BufReader holds
    result,     \* what the last exchange returned
    inbox,      \* the requests the peer has not answered
    wire,       \* what the peer wrote and the client has not read
    ended,      \* whether the peer closed the connection
    warned,     \* whether the peer sent an interim answer to this request
    written,    \* the answer the peer gave to each request
    peer        \* who answers

clientVars == <<asked, keeps, reading, buffer, result>>
peerVars == <<inbox, wire, ended, warned, written, peer>>
vars == <<clientVars, peerVars>>

-----------------------------------------------------------------------------
(* A status line, the fields read_response looks at, any other line, the   *)
(* blank line, one past MAX_LINE, a chunk's size, what is not a number     *)
(* being -1, an octet and the CRLF after a chunk.                          *)
Lines == {"status", "length", "chunked", "coding", "close", "keep-alive",
          "other", "blank", "overlong", "size"}
Kinds == Lines \cup {"octet", "crlf"}
Token(kind, n) == [kind |-> kind, n |-> n, of |-> Head(inbox)]

(* bodiless                                                                *)
Bodiless(status) == status < 200 \/ status \in {204, 304}

(* write_message, of an answer: what frames the body, the connection       *)
(* closing unless a header names it, the body, chunked before a trailer.   *)
WriteMessage(answer) ==
    LET says == IF answer.connection = "none" THEN "close" ELSE answer.connection
        first == Token("status", answer.status)
        last == <<Token(says, 0), Token("blank", 0)>>
        octets == [i \in 1..answer.body |-> Token("octet", i)]
        chunk == IF answer.body = 0 THEN << >>
                 ELSE <<Token("size", answer.body)>> \o octets
                        \o <<Token("crlf", 0)>>
        trailer == <<Token("size", 0), Token("other", 0), Token("blank", 0)>>
    IN  IF Bodiless(answer.status) THEN <<first>> \o last
        ELSE IF answer.trailers
             THEN <<first, Token("chunked", 0)>> \o last \o chunk \o trailer
             ELSE <<first, Token("length", answer.body)>> \o last \o octets

(* header: the first line after the first of one of the kinds, which a     *)
(* field of the name has.                                                  *)
Named(head, kinds) ==
    {i \in 2..Len(head) : head[i].kind \in kinds}
Header(head, kinds) ==
    head[CHOOSE i \in Named(head, kinds) :
           \A j \in Named(head, kinds) : i <= j]

(* within, of a body and MAX_BODY                                          *)
Within_OneMore(length) == length <= MaxBody + 1
Within(length) == length <= MaxBody

(* What read_response and body::read make of a head: what is read next,    *)
(* and how much of it.                                                     *)
Framing_AnyStatus(head) ==
    IF head = << >> \/ head[1].kind # "status" THEN [next |-> "refused", left |-> 0]
    ELSE IF Named(head, {"chunked", "coding"}) # {} THEN [next |-> "size", left |-> 0]
    ELSE IF Named(head, {"length"}) = {} THEN [next |-> "to_end", left |-> 0]
    ELSE [next |-> IF Header(head, {"length"}).n = 0 THEN "whole" ELSE "length",
          left |-> Header(head, {"length"}).n]
Framing(head) ==
    LET codings == {"chunked", "coding"}
        length == Header(head, {"length"}).n
        first(next) == [next |-> next, left |-> 0]
    IN
    IF head = << >> \/ head[1].kind # "status" THEN first("refused")
    ELSE IF Bodiless(head[1].n) THEN first("whole")
    ELSE IF Named(head, codings) # {}
    THEN first(IF Header(head, codings).kind = "chunked" THEN "size" ELSE "refused")
    ELSE IF Named(head, {"length"}) = {} THEN first("to_end")
    ELSE IF length < 0 \/ ~Within(length) THEN first("refused")
    ELSE IF length = 0 THEN first("whole")
    ELSE [next |-> "length", left |-> length]

(* exchange_kept: whether the connection can carry another.                *)
Kept(head) ==
    /\ \/ Bodiless(head[1].n)
       \/ Named(head, {"length", "chunked", "coding"}) # {}
    /\ \/ Named(head, {"close", "keep-alive"}) = {}
       \/ Header(head, {"close", "keep-alive"}).kind # "close"

-----------------------------------------------------------------------------
NotReading == [phase |-> "idle", head |-> << >>, left |-> 0,
               body |-> << >>, trailer |-> << >>]
NoAnswer == [status |-> 0, body |-> 0, trailers |-> FALSE, connection |-> "none"]
NoResult == [kind |-> "none"]

Init ==
    /\ asked = 0 /\ keeps = TRUE
    /\ reading = NotReading
    /\ buffer = << >>
    /\ result = NoResult
    /\ inbox = << >> /\ wire = << >>
    /\ ended = FALSE /\ warned = FALSE
    /\ peer \in Peers
    /\ written = [n \in 1..MaxRequests[peer] |-> NoAnswer]

(* An exchange begins: the request is written, the answer's head is next.  *)
Ask(kept) ==
    /\ reading.phase = "idle" /\ asked < MaxRequests[peer]
    /\ asked' = asked + 1
    /\ keeps' = kept
    /\ reading' = [NotReading EXCEPT !.phase = "head"]
    /\ inbox' = Append(inbox, asked + 1)
    /\ UNCHANGED <<buffer, result, wire, ended, warned, written, peer>>

(* The connection is let go, and the next exchange has a new one.          *)
Drop ==
    /\ inbox' = << >> /\ wire' = << >>
    /\ ended' = FALSE /\ warned' = FALSE
    /\ UNCHANGED <<written, peer>>

(* The exchange fails and returns no word on the connection, which         *)
(* exchange_kept only borrows: its caller drops it, as it must where       *)
(* nothing says that it can carry another.                                 *)
Fail_ConnectionKept ==
    /\ reading' = NotReading /\ buffer' = << >>
    /\ result' = [kind |-> "failed"]
    /\ UNCHANGED <<asked, keeps, peerVars>>
Fail ==
    /\ reading' = NotReading /\ buffer' = << >>
    /\ result' = [kind |-> "failed"]
    /\ Drop
    /\ UNCHANGED <<asked, keeps>>

(* The exchange returns read, and its BufReader goes with what it read     *)
(* ahead. The connection is kept where exchange_kept says it may be.       *)
Return(read, rest) ==
    /\ reading' = NotReading /\ buffer' = << >>
    /\ result' = [kind |-> "answered", head |-> read.head, body |-> read.body,
                  trailer |-> read.trailer, kept |-> Kept(read.head),
                  atEnd |-> rest = "end"]
    /\ IF keeps /\ Kept(read.head) THEN UNCHANGED peerVars ELSE Drop
    /\ UNCHANGED <<asked, keeps>>

(* What goes on after read: the next phase, with the rest of the buffer.   *)
GoOn(read) ==
    /\ reading' = read
    /\ buffer' = Tail(buffer)
    /\ UNCHANGED <<asked, keeps, result, peerVars>>

-----------------------------------------------------------------------------
(* fill_buf: a read of some of what the peer wrote.                        *)
Fill ==
    /\ reading.phase # "idle" /\ buffer = << >> /\ wire # << >>
    /\ \E n \in 1..Len(wire) :
         /\ buffer' = SubSeq(wire, 1, n)
         /\ wire' = SubSeq(wire, n + 1, Len(wire))
    /\ UNCHANGED <<asked, keeps, reading, result, inbox, ended, warned, written,
                   peer>>

(* What ends a head, its blank line or the connection's end.               *)
EndHead(rest) ==
    LET framing == Framing(reading.head)
    IN
    \/ framing.next = "refused" /\ Fail
    \/ framing.next = "whole" /\ Return(reading, rest)
    \/ /\ framing.next \notin {"refused", "whole"}
       /\ reading' = [reading EXCEPT !.phase = framing.next,
                                     !.left = framing.left]
       /\ buffer' = IF rest = "end" THEN buffer ELSE Tail(buffer)
       /\ UNCHANGED <<asked, keeps, result, peerVars>>

(* Why read_head gives up on a line after those it has.                    *)
Refuses(line, lines) ==
    \/ line.kind = "overlong"
    \/ line.kind # "blank" /\ Len(lines) = MaxHeaders

(* read_head, one line of it, for the head.                                *)
TakeHeadLine ==
    LET line == Head(buffer)
        lines == reading.head
    IN
    /\ reading.phase = "head" /\ buffer # << >>
    /\ \/ Refuses(line, lines) /\ Fail
       \/ line.kind = "blank" /\ EndHead("more")
       \/ /\ line.kind # "blank" /\ ~Refuses(line, lines)
          /\ GoOn([reading EXCEPT !.head = Append(@, line)])

(* read_head, one line of it, for the trailer.                             *)
TakeTrailerLine ==
    LET line == Head(buffer)
        lines == reading.trailer
    IN
    /\ reading.phase = "trailer" /\ buffer # << >>
    /\ \/ Refuses(line, lines) /\ Fail
       \/ line.kind = "blank" /\ Return(reading, "more")
       \/ /\ line.kind # "blank" /\ ~Refuses(line, lines)
          /\ GoOn([reading EXCEPT !.trailer = Append(@, line)])

(* unchunk: a chunk's size.                                                *)
TakeSize ==
    LET line == Head(buffer)
        broken == line.kind # "size" \/ line.n < 0
        over == ~Within(Len(reading.body) + line.n)
    IN
    /\ reading.phase = "size" /\ buffer # << >>
    /\ \/ (broken \/ over) /\ Fail
       \/ /\ ~broken /\ line.n = 0
          /\ GoOn([reading EXCEPT !.phase = "trailer"])
       \/ /\ ~broken /\ ~over /\ line.n > 0
          /\ GoOn([reading EXCEPT !.phase = "chunk", !.left = line.n])

(* read_exact and read_to_end, one octet of theirs: the last of a length   *)
(* ends the answer, the last of a chunk asks for its CRLF, and one past    *)
(* MAX_BODY refuses a body that runs to the end.                           *)
TakeOctet ==
    LET fed == [reading EXCEPT !.body = Append(@, Head(buffer)),
                               !.left = IF @ = 0 THEN 0 ELSE @ - 1]
    IN
    /\ buffer # << >>
    /\ \/ /\ reading.phase = "length"
          /\ IF fed.left = 0 THEN Return(fed, "more") ELSE GoOn(fed)
       \/ /\ reading.phase = "chunk"
          /\ GoOn(IF fed.left = 0 THEN [fed EXCEPT !.phase = "crlf"] ELSE fed)
       \/ /\ reading.phase = "to_end"
          /\ IF Within(Len(fed.body)) THEN GoOn(fed) ELSE Fail

(* unchunk: what follows a chunk.                                          *)
TakeCrlf ==
    /\ reading.phase = "crlf" /\ buffer # << >>
    /\ IF Head(buffer).kind = "crlf"
       THEN GoOn([reading EXCEPT !.phase = "size"])
       ELSE Fail

(* The connection ends where the reader wants more: a head or a trailer    *)
(* ends with it, and so does a body without framing.                       *)
EndsHere_Anywhere(phase) == phase # "head"
EndsHere(phase) == phase \in {"trailer", "to_end"}
TakeEnd ==
    /\ reading.phase # "idle" /\ buffer = << >> /\ wire = << >> /\ ended
    /\ \/ reading.phase = "head" /\ EndHead("end")
       \/ EndsHere(reading.phase) /\ Return(reading, "end")
       \/ reading.phase # "head" /\ ~EndsHere(reading.phase) /\ Fail

(* The connection breaks, or is silent for too long.                       *)
ReadFails ==
    /\ reading.phase # "idle"
    /\ Fail

ClientRuns ==
    \/ Fill
    \/ TakeHeadLine \/ TakeTrailerLine \/ TakeSize \/ TakeOctet \/ TakeCrlf
    \/ TakeEnd

-----------------------------------------------------------------------------
(* read_request and write_response: the peer answers the request it has,   *)
(* and closes where it said so.                                            *)
Answer ==
    /\ peer # "any" /\ inbox # << >> /\ ~ended
    /\ \E answer \in Answers :
         /\ wire' = wire \o WriteMessage(answer)
         /\ written' = [written EXCEPT ![Head(inbox)] = answer]
         /\ ended' = (answer.connection # "keep-alive")
    /\ inbox' = Tail(inbox)
    /\ warned' = FALSE
    /\ UNCHANGED <<peer, clientVars>>

(* External: an interim answer, which the answer itself follows.           *)
Interim ==
    /\ peer # "own" /\ inbox # << >> /\ ~ended /\ ~warned
    /\ wire' = wire \o <<Token("status", 100), Token("blank", 0)>>
    /\ warned' = TRUE
    /\ UNCHANGED <<inbox, ended, written, peer, clientVars>>

(* External: the peer is gone, and what it wrote may be cut short.         *)
PeerEnds ==
    /\ ~ended
    /\ \E n \in 0..Len(wire) : wire' = SubSeq(wire, 1, n)
    /\ ended' = TRUE
    /\ UNCHANGED <<inbox, warned, written, peer, clientVars>>

(* External: a peer that writes whatever it likes, as the reader takes it. *)
Wanted ==
    CASE reading.phase = "head" -> Lines \ {"size"}
      [] reading.phase = "size" -> {"size", "overlong"}
      [] reading.phase = "trailer" -> {"other", "blank", "overlong"}
      [] reading.phase = "crlf" -> {"crlf", "other"}
      [] OTHER -> {"octet"}
WriteAnything ==
    /\ peer = "any" /\ ~ended
    /\ reading.phase # "idle" /\ buffer = << >> /\ wire = << >>
    /\ \E kind \in Wanted :
         \E n \in CASE kind = "status" -> {100, 200, 204}
                    [] kind \in {"length", "size"} -> -1..(MaxBody + 1)
                    [] OTHER -> {0} :
           wire' = <<Token(kind, n)>>
    /\ UNCHANGED <<inbox, ended, warned, written, peer, clientVars>>

PeerRuns == Answer \/ Interim \/ PeerEnds \/ WriteAnything

Next == (\E kept \in BOOLEAN : Ask(kept)) \/ ClientRuns \/ ReadFails \/ PeerRuns

(* A client reads what there is, and a peer answers what it was asked.     *)
Fairness == WF_vars(ClientRuns) /\ WF_vars(Answer)

Spec == Init /\ [][Next]_vars /\ Fairness

-----------------------------------------------------------------------------
Answered == result.kind = "answered"

(* The answer an exchange returns is the one to the request it wrote, also *)
(* after exchanges that timed out or found the connection cut, whose late  *)
(* answers the next exchange never reads.                                  *)
AnswerIsOwn ==
    Answered /\ reading.phase = "idle" /\ peer # "any" =>
        result.head[1].of = asked

(* "The two cannot drift": an answer read to its end is the one the peer   *)
(* wrote, and one whose head says how its body is framed has all of its    *)
(* body however the connection ended.                                      *)
AnswerAsWritten ==
    LET answer == written[asked]
        framed == Named(result.head, {"length", "chunked"}) # {}
    IN
    Answered /\ reading.phase = "idle" /\ peer # "any" =>
        /\ result.head[1].n = answer.status
        /\ ~result.atEnd \/ framed =>
             Len(result.body) = IF Bodiless(answer.status) THEN 0 ELSE answer.body
        /\ ~result.atEnd =>
             (result.trailer # << >>) = (answer.trailers /\ ~Bodiless(answer.status))

(* "Never more than MAX_BODY", and never more lines than MAX_HEADERS,      *)
(* whatever a peer sends and however it frames it.                         *)
HeldWithin ==
    /\ Len(reading.body) <= MaxBody
    /\ Len(reading.head) <= MaxHeaders /\ Len(reading.trailer) <= MaxHeaders

(* An exchange the peer answers returns.                                   *)
ExchangeReturns ==
    reading.phase # "idle" /\ peer # "any" ~> reading.phase = "idle"
===============================================================================
