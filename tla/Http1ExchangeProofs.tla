-------------------------- MODULE Http1ExchangeProofs --------------------------
(***************************************************************************)
(* What Http1Exchange's run checks on small bodies and two requests, proved*)
(* of every MAX_BODY, MAX_HEADERS, number of requests and set of answers:  *)
(* no more is held than the bounds allow, whatever a peer sends, and where *)
(* the peer writes with write_response the answer returned is the one to   *)
(* the request written, as it was written.                                 *)
(***************************************************************************)
EXTENDS Http1Exchange, SequenceTheorems, WellFoundedInduction, TLAPS

Phases == {"idle", "head", "length", "size", "chunk", "crlf", "trailer", "to_end"}
Tokens == [kind : Kinds, n : Int, of : Nat]
Readings == [phase : Phases, head : Seq(Tokens), left : Nat, body : Seq(Tokens),
             trailer : Seq(Tokens)]

\* The types; a peer that writes anything has a request while one is read for.
TypeInv ==
    /\ asked \in Nat /\ keeps \in BOOLEAN
    /\ reading \in Readings
    /\ buffer \in Seq(Tokens) /\ wire \in Seq(Tokens) /\ inbox \in Seq(Nat)
    /\ peer \in Peers /\ ended \in BOOLEAN
    /\ asked <= MaxRequests[peer]
    /\ DOMAIN written = 1..MaxRequests[peer]
    /\ peer = "any" /\ reading.phase # "idle" => inbox # << >>

\* What is left of a length or a chunk fits in with what is held.
HeldInv ==
    /\ HeldWithin
    /\ reading.phase \in {"idle", "head"} => reading.body = << >>
    /\ reading.phase # "trailer" => reading.trailer = << >>
    /\ reading.phase = "idle" => reading.head = << >>
    /\ reading.phase \in {"length", "chunk"} =>
         reading.left > 0 /\ Len(reading.body) + reading.left <= MaxBody

-----------------------------------------------------------------------------
(* What write_message writes of an answer, token by token.                 *)

Says(a) == IF a.connection = "none" THEN "close" ELSE a.connection

\* How many lines there are before the blank one, and how many tokens in all.
HeadLen(a) == IF Bodiless(a.status) THEN 2 ELSE 3
MessageLen(a) ==
    IF Bodiless(a.status) THEN 3
    ELSE IF ~a.trailers THEN 4 + a.body
    ELSE IF a.body = 0 THEN 7 ELSE 9 + a.body

KindAt(a, i) ==
    IF i = 1 THEN "status"
    ELSE IF i = HeadLen(a) THEN Says(a)
    ELSE IF i = HeadLen(a) + 1 THEN "blank"
    ELSE IF i = 2 THEN (IF a.trailers THEN "chunked" ELSE "length")
    ELSE IF ~a.trailers THEN "octet"
    ELSE IF i = MessageLen(a) THEN "blank"
    ELSE IF i = MessageLen(a) - 1 THEN "other"
    ELSE IF i \in {5, MessageLen(a) - 2} THEN "size"
    ELSE IF i = MessageLen(a) - 3 THEN "crlf"
    ELSE "octet"

\* The number a status, a length or a size carries.
NumberAt(a, i) ==
    IF i = 1 THEN a.status
    ELSE IF i = 2 \/ (i = 5 /\ a.trailers) THEN a.body
    ELSE 0

IsOf(token, a, i, n) ==
    /\ token.kind = KindAt(a, i) /\ token.of = n
    /\ token.kind \in {"status", "length", "size"} => token.n = NumberAt(a, i)
IsAt(token, a, i) == IsOf(token, a, i, asked)

\* How many of an answer's tokens were taken: the rest of them, in order, are
\* in the BufReader and on the wire, all of them unless the peer is gone.
Taken(a) ==
    CASE reading.phase = "head" -> Len(reading.head)
      [] reading.phase = "length" -> 4 + Len(reading.body)
      [] reading.phase = "size" -> IF reading.body = << >> THEN 4 ELSE 6 + a.body
      [] reading.phase \in {"chunk", "crlf"} -> 5 + Len(reading.body)
      [] reading.phase = "trailer" -> MessageLen(a) - 2 + Len(reading.trailer)
      [] OTHER -> MessageLen(a)

RestInv(a) ==
    /\ \A i \in 1..Len(buffer) : IsAt(buffer[i], a, Taken(a) + i)
    /\ \A i \in 1..Len(wire) : IsAt(wire[i], a, Taken(a) + Len(buffer) + i)
    /\ Taken(a) + Len(buffer) + Len(wire) <= MessageLen(a)
    /\ ~ended => Taken(a) + Len(buffer) + Len(wire) = MessageLen(a)

\* How far the reader is agrees with what the answer is.
PhaseInv(a) ==
    /\ Len(reading.head) <= HeadLen(a)
    /\ \A i \in 1..Len(reading.head) : IsAt(reading.head[i], a, i)
    /\ reading.phase # "head" => ~Bodiless(a.status) /\ Len(reading.head) > 0
    /\ reading.phase \in {"length", "chunk"} => reading.left + Len(reading.body) = a.body
    /\ reading.phase = "length" => ~a.trailers
    /\ reading.phase \in {"size", "chunk", "crlf", "trailer"} => a.trailers
    /\ reading.phase = "size" => Len(reading.body) \in {0, a.body}
    /\ reading.phase = "crlf" => Len(reading.body) = a.body /\ a.body > 0
    /\ reading.phase = "trailer" => Len(reading.body) = a.body /\ Len(reading.trailer) <= 1
    /\ reading.phase = "to_end" => reading.body = << >> /\ Len(reading.head) = 1

Waiting ==
    /\ inbox = <<asked>> /\ wire = << >> /\ buffer = << >>
    /\ reading.phase = "head" /\ reading.head = << >>
Underway ==
    /\ inbox = << >> /\ written[asked] \in Answers
    /\ PhaseInv(written[asked]) /\ RestInv(written[asked])
Idle ==
    /\ inbox = << >> /\ wire = << >> /\ buffer = << >>

\* A kept connection holds nothing between two exchanges, and during one the
\* request or what is left of its answer.
OwnInv ==
    peer = "own" =>
      /\ reading.phase = "idle" => Idle
      /\ reading.phase # "idle" => asked > 0 /\ (Waiting \/ Underway)

IInv == TypeInv /\ HeldInv
AnswerInv == OwnInv /\ AnswerIsOwn /\ AnswerAsWritten

-----------------------------------------------------------------------------
(* A head's fields.                                                        *)

\* A set of numbers that has one has a least one.
LEMMA LeastNumber ==
  ASSUME NEW T, T \subseteq Nat, T # {}
  PROVE  \E x \in T : \A y \in T : x <= y
<1>1. PICK x \in T : \A y \in T : ~(<<y, x>> \in OpToRel(<, Nat))
  BY WFMin, NatLessThanWellFounded, Zenon
<1>2. ASSUME NEW y \in T
      PROVE  x <= y
  <2>1. ~(<<y, x>> \in {ss \in Nat \X Nat : ss[1] < ss[2]})
    BY <1>1 DEF OpToRel
  <2> QED
    BY <2>1
<1> QED
  BY <1>2

\* header finds one of the head's lines, of a kind asked for, where there is
\* one.
LEMMA HeaderFound ==
  ASSUME NEW head \in Seq(Tokens), NEW kinds, Named(head, kinds) # {}
  PROVE  Header(head, kinds) \in Tokens /\ Header(head, kinds).kind \in kinds
<1> DEFINE T == Named(head, kinds)
           least == CHOOSE i \in T : \A j \in T : i <= j
<1>1. T \subseteq Nat
  BY DEF Named
<1>2. \E i \in T : \A j \in T : i <= j
  <2> HIDE DEF T
  <2> QED
    BY <1>1, LeastNumber DEF T
<1>3. least \in T
  <2> HIDE DEF T
  <2> QED
    BY <1>2
<1>4. least \in 2..Len(head) /\ head[least].kind \in kinds
  <2> HIDE DEF least
  <2> QED
    BY <1>3 DEF Named
<1>5. Header(head, kinds) = head[least]
  BY DEF Header
<1> HIDE DEF least
<1>6. head[least] \in Tokens
  BY <1>4
<1> QED
  BY <1>4, <1>5, <1>6

\* Where there is one only, header finds that one.
LEMMA OnlyHeader ==
  ASSUME NEW head, NEW kinds, NEW k \in Nat, Named(head, kinds) = {k}
  PROVE  Header(head, kinds) = head[k]
<1>1. (CHOOSE i \in {k} : \A j \in {k} : i <= j) = k
  OBVIOUS
<1> QED
  BY <1>1, Zenon DEF Header

\* A head's framing asks for a length only within MAX_BODY.
LEMMA FramingFits ==
  ASSUME NEW head \in Seq(Tokens)
  PROVE  /\ Framing(head).next \in {"refused", "whole", "size", "to_end", "length"}
         /\ Framing(head).left \in Nat
         /\ Framing(head).next = "length" => Framing(head).left \in 1..MaxBody
<1>1. CASE Named(head, {"length"}) = {}
  BY <1>1 DEF Framing
<1>2. CASE Named(head, {"length"}) # {}
  <2> DEFINE length == Header(head, {"length"}).n
  <2>1. length \in Int
    BY <1>2, HeaderFound DEF Tokens
  <2>2. MaxBody \in Nat
    BY Http1Assumption
  <2> HIDE DEF length
  <2> QED
    BY <2>1, <2>2 DEF Framing, Within, length
<1> QED
  BY <1>1, <1>2

-----------------------------------------------------------------------------
(* The types and what is held.                                             *)

\* Nothing is held before the first request.
LEMMA InitInv ==
  ASSUME Init
  PROVE  IInv
<1>1. << >> \in Seq(Tokens) /\ << >> \in Seq(Nat) /\ Len(<< >>) = 0
  OBVIOUS
<1>2. MaxBody \in Nat /\ MaxHeaders \in Nat /\ MaxRequests[peer] \in Nat
  BY Http1Assumption DEF Init
<1>3. TypeInv
  <2>1. /\ asked = 0 /\ keeps = TRUE /\ buffer = << >> /\ inbox = << >> /\ wire = << >>
        /\ ended = FALSE /\ peer \in Peers /\ reading = NotReading
    BY DEF Init
  <2>2. DOMAIN written = 1..MaxRequests[peer]
    BY DEF Init
  <2>3. /\ reading \in Readings
        /\ reading.phase = "idle"
    BY <1>1, <2>1 DEF NotReading, Phases, Readings
  <2>4. asked \in Nat /\ asked <= MaxRequests[peer]
    BY <1>2, <2>1
  <2>5. keeps \in BOOLEAN /\ ended \in BOOLEAN
    BY <2>1, Zenon
  <2> QED
    BY <1>1, <2>1, <2>2, <2>3, <2>4, <2>5, Zenon DEF TypeInv
<1>4. HeldInv
  BY <1>1, <1>2 DEF Init, HeldInv, HeldWithin, NotReading
<1> QED
  BY <1>3, <1>4 DEF IInv

\* An exchange that is over, either way, holds nothing.
LEMMA OverInv ==
  ASSUME IInv, reading' = NotReading, buffer' = << >>, UNCHANGED <<asked, keeps>>,
         UNCHANGED peerVars \/ Drop
  PROVE  IInv'
<1>1. << >> \in Seq(Tokens) /\ << >> \in Seq(Nat) /\ Len(<< >>) = 0
  OBVIOUS
<1>2. MaxBody \in Nat /\ MaxHeaders \in Nat
  BY Http1Assumption
<1>3. TypeInv'
  BY <1>1 DEF IInv, TypeInv, peerVars, Drop, NotReading, Phases, Readings
<1>4. HeldInv'
  BY <1>1, <1>2 DEF HeldInv, HeldWithin, NotReading
<1> QED
  BY <1>3, <1>4 DEF IInv

\* An exchange that fails lets go of what it held.
LEMMA FailInv ==
  ASSUME IInv, Fail
  PROVE  IInv'
BY OverInv DEF Fail

\* So does one that returns its answer.
LEMMA ReturnInv ==
  ASSUME IInv, NEW read, NEW rest, Return(read, rest)
  PROVE  IInv'
BY OverInv DEF Return

\* Reading goes on, with what is held within its bounds and the rest of the
\* buffer.
LEMMA ReadOnInv ==
  ASSUME IInv, reading.phase # "idle", UNCHANGED <<asked, keeps, peerVars>>,
         reading' \in Readings, reading'.phase # "idle",
         buffer' \in Seq(Tokens), HeldInv'
  PROVE  IInv'
BY DEF IInv, TypeInv, peerVars

\* One more token.
LEMMA OneMore ==
  ASSUME NEW tokens \in Seq(Tokens), NEW token \in Tokens
  PROVE  /\ Append(tokens, token) \in Seq(Tokens) /\ Len(tokens) \in Nat
         /\ Len(Append(tokens, token)) = Len(tokens) + 1
         /\ \A i \in 1..Len(tokens) : Append(tokens, token)[i] = tokens[i]
         /\ Append(tokens, token)[Len(tokens) + 1] = token
OBVIOUS

\* What is taken off the buffer, and what that leaves.
LEMMA Taking ==
  ASSUME IInv, buffer # << >>
  PROVE  Head(buffer) \in Tokens /\ Head(buffer).n \in Int /\ Tail(buffer) \in Seq(Tokens)
<1>1. buffer \in Seq(Tokens)
  BY DEF IInv, TypeInv
<1>2. Head(buffer) \in Tokens /\ Tail(buffer) \in Seq(Tokens)
  BY <1>1
<1> QED
  BY <1>2 DEF Tokens

\* After the head comes the body its framing names, within MAX_BODY.
LEMMA EndHeadInv ==
  ASSUME IInv, reading.phase = "head", NEW rest, rest = "end" \/ buffer # << >>, EndHead(rest)
  PROVE  IInv'
<1> DEFINE framing == Framing(reading.head)
<1>1. CASE Fail
  BY <1>1, FailInv
<1>2. CASE Return(reading, rest)
  BY <1>2, ReturnInv
<1>3. CASE /\ framing.next \notin {"refused", "whole"}
           /\ reading' = [reading EXCEPT !.phase = framing.next, !.left = framing.left]
           /\ buffer' = IF rest = "end" THEN buffer ELSE Tail(buffer)
           /\ UNCHANGED <<asked, keeps, result, peerVars>>
  <2>1. reading \in Readings
    BY DEF IInv, TypeInv
  <2>2. /\ framing.next \in {"refused", "whole", "size", "to_end", "length"}
        /\ framing.left \in Nat
        /\ framing.next = "length" => framing.left \in 1..MaxBody
    BY <2>1, FramingFits DEF Readings
  <2> HIDE DEF framing
  <2>3. buffer' \in Seq(Tokens)
    BY <1>3, Taking DEF IInv, TypeInv
  <2>4. /\ reading' \in Readings
        /\ reading'.phase = framing.next /\ reading'.left = framing.left
        /\ reading'.head = reading.head /\ reading'.body = reading.body
        /\ reading'.trailer = reading.trailer
    BY <1>3, <2>1, <2>2 DEF Phases, Readings
  <2>5. reading.body = << >> /\ reading.trailer = << >> /\ Len(<< >>) = 0
    BY DEF IInv, HeldInv
  <2>6. HeldInv'
    BY <1>3, <2>2, <2>4, <2>5, Http1Assumption DEF IInv, HeldInv, HeldWithin
  <2>7. reading'.phase # "idle"
    BY <2>2, <2>4
  <2> QED
    BY <1>3, <2>3, <2>4, <2>6, <2>7, ReadOnInv
<1> QED
  BY <1>1, <1>2, <1>3 DEF EndHead

\* A line of the head is held only while MAX_HEADERS allows another.
LEMMA HeadLineInv ==
  ASSUME IInv, TakeHeadLine
  PROVE  IInv'
<1> DEFINE line == Head(buffer)
           read == [reading EXCEPT !.head = Append(@, line)]
<1>1. reading.phase = "head" /\ buffer # << >>
  BY DEF TakeHeadLine
<1>2. line \in Tokens /\ Tail(buffer) \in Seq(Tokens)
  BY <1>1, Taking
<1>3. CASE Fail
  BY <1>3, FailInv
<1>4. CASE EndHead("more")
  BY <1>1, <1>4, EndHeadInv
<1>5. CASE line.kind # "blank" /\ ~Refuses(line, reading.head) /\ GoOn(read)
  <2> HIDE DEF line
  <2>1. reading \in Readings
    BY DEF IInv, TypeInv
  <2>2. /\ reading' \in Readings
        /\ reading'.phase = "head" /\ Len(reading'.head) = Len(reading.head) + 1
        /\ reading'.body = reading.body /\ reading'.trailer = reading.trailer
    <3> DEFINE lines == Append(reading.head, line)
    <3>1. lines \in Seq(Tokens) /\ Len(lines) = Len(reading.head) + 1
      BY <1>2, <2>1, OneMore DEF Readings
    <3>2. reading' = [reading EXCEPT !.head = lines]
      BY <1>5 DEF GoOn
    <3> HIDE DEF lines
    <3>3. reading' \in Readings
      BY <2>1, <3>1, <3>2 DEF Readings
    <3> QED
      BY <1>1, <2>1, <3>1, <3>2, <3>3 DEF Readings
  <2>3. Len(reading.head) # MaxHeaders /\ Len(reading.head) \in Nat /\ MaxHeaders \in Nat
    BY <1>5, <2>1, Http1Assumption DEF Refuses
  <2>4. HeldInv'
    BY <1>1, <2>2, <2>3 DEF IInv, HeldInv, HeldWithin
  <2> QED
    BY <1>1, <1>2, <1>5, <2>2, <2>4, ReadOnInv DEF GoOn
<1> QED
  BY <1>3, <1>4, <1>5 DEF TakeHeadLine

\* A line of the trailer likewise.
LEMMA TrailerLineInv ==
  ASSUME IInv, TakeTrailerLine
  PROVE  IInv'
<1> DEFINE line == Head(buffer)
           read == [reading EXCEPT !.trailer = Append(@, line)]
<1>1. reading.phase = "trailer" /\ buffer # << >>
  BY DEF TakeTrailerLine
<1>2. line \in Tokens /\ Tail(buffer) \in Seq(Tokens)
  BY <1>1, Taking
<1>3. CASE Fail
  BY <1>3, FailInv
<1>4. CASE Return(reading, "more")
  BY <1>4, ReturnInv
<1>5. CASE line.kind # "blank" /\ ~Refuses(line, reading.trailer) /\ GoOn(read)
  <2> HIDE DEF line
  <2>1. reading \in Readings
    BY DEF IInv, TypeInv
  <2>2. /\ reading' \in Readings
        /\ reading'.phase = "trailer" /\ Len(reading'.trailer) = Len(reading.trailer) + 1
        /\ reading'.body = reading.body /\ reading'.head = reading.head
    <3> DEFINE lines == Append(reading.trailer, line)
    <3>1. lines \in Seq(Tokens) /\ Len(lines) = Len(reading.trailer) + 1
      BY <1>2, <2>1, OneMore DEF Readings
    <3>2. reading' = [reading EXCEPT !.trailer = lines]
      BY <1>5 DEF GoOn
    <3> HIDE DEF lines
    <3>3. reading' \in Readings
      BY <2>1, <3>1, <3>2 DEF Readings
    <3> QED
      BY <1>1, <2>1, <3>1, <3>2, <3>3 DEF Readings
  <2>3. Len(reading.trailer) # MaxHeaders /\ Len(reading.trailer) \in Nat /\ MaxHeaders \in Nat
    BY <1>5, <2>1, Http1Assumption DEF Refuses
  <2>4. HeldInv'
    BY <1>1, <2>2, <2>3 DEF IInv, HeldInv, HeldWithin
  <2> QED
    BY <1>1, <1>2, <1>5, <2>2, <2>4, ReadOnInv DEF GoOn
<1> QED
  BY <1>3, <1>4, <1>5 DEF TakeTrailerLine

\* A chunk's size is accepted only where the chunk fits in with the others.
LEMMA SizeInv ==
  ASSUME IInv, TakeSize
  PROVE  IInv'
<1> DEFINE line == Head(buffer)
<1>1. reading.phase = "size" /\ buffer # << >>
  BY DEF TakeSize
<1>2. line.n \in Int /\ Tail(buffer) \in Seq(Tokens)
  BY <1>1, Taking
<1>3. CASE Fail
  BY <1>3, FailInv
<1>4. ASSUME NEW phase \in {"trailer", "chunk"}, NEW left \in Nat,
             reading' = [reading EXCEPT !.phase = phase, !.left = left],
             phase = "chunk" => left > 0 /\ Len(reading.body) + left <= MaxBody,
             buffer' = Tail(buffer), UNCHANGED <<asked, keeps, peerVars>>
      PROVE  IInv'
  <2>1. reading \in Readings
    BY DEF IInv, TypeInv
  <2>2. /\ reading' \in Readings
        /\ reading'.phase = phase /\ reading'.left = left /\ reading'.trailer = reading.trailer
        /\ reading'.body = reading.body /\ reading'.head = reading.head
    BY <1>1, <1>4, <2>1 DEF Phases, Readings
  <2>3. HeldInv'
    BY <1>1, <1>4, <2>2 DEF IInv, HeldInv, HeldWithin
  <2> QED
    BY <1>1, <1>2, <1>4, <2>2, <2>3, ReadOnInv
<1>5. CASE GoOn([reading EXCEPT !.phase = "trailer"])
  <2>1. reading \in Readings
    BY DEF IInv, TypeInv
  <2>2. /\ reading.left \in Nat
        /\ [reading EXCEPT !.phase = "trailer"]
             = [reading EXCEPT !.phase = "trailer", !.left = reading.left]
    BY <2>1 DEF Readings
  <2> QED
    BY <1>4, <1>5, <2>2 DEF GoOn
<1>6. CASE /\ Within(Len(reading.body) + line.n) /\ line.n > 0
           /\ GoOn([reading EXCEPT !.phase = "chunk", !.left = line.n])
  <2>1. line.n \in Nat
    BY <1>2, <1>6
  <2> HIDE DEF line
  <2>2. /\ reading' = [reading EXCEPT !.phase = "chunk", !.left = line.n]
        /\ line.n > 0 /\ Len(reading.body) + line.n <= MaxBody
        /\ buffer' = Tail(buffer) /\ UNCHANGED <<asked, keeps, peerVars>>
    BY <1>6 DEF GoOn, Within
  <2> QED
    BY <1>4, <2>1, <2>2
<1> QED
  BY <1>3, <1>5, <1>6 DEF TakeSize

\* An octet of the body is one of those its framing left room for.
LEMMA OctetInv ==
  ASSUME IInv, TakeOctet
  PROVE  IInv'
<1> DEFINE octet == Head(buffer)
           fed == [reading EXCEPT !.body = Append(@, octet),
                                  !.left = IF @ = 0 THEN 0 ELSE @ - 1]
<1>1. buffer # << >> /\ reading.phase \in {"length", "chunk", "to_end"}
  BY DEF TakeOctet
<1>2. octet \in Tokens /\ Tail(buffer) \in Seq(Tokens)
  BY <1>1, Taking
<1> HIDE DEF octet
<1>3. reading \in Readings
  BY DEF IInv, TypeInv
<1>4. /\ fed \in Readings
      /\ fed.phase = reading.phase /\ fed.head = reading.head /\ fed.trailer = reading.trailer
      /\ Len(fed.body) = Len(reading.body) + 1 /\ Len(reading.body) \in Nat
      /\ fed.left = IF reading.left = 0 THEN 0 ELSE reading.left - 1
  <2> DEFINE octets == Append(reading.body, octet)
             left == IF reading.left = 0 THEN 0 ELSE reading.left - 1
  <2>1. octets \in Seq(Tokens) /\ Len(octets) = Len(reading.body) + 1 /\ Len(reading.body) \in Nat
    BY <1>2, <1>3, OneMore DEF Readings
  <2>2. left \in Nat
    BY <1>3 DEF Readings
  <2>3. fed = [reading EXCEPT !.body = octets, !.left = left]
    OBVIOUS
  <2> HIDE DEF octets, left, fed
  <2>4. fed \in Readings
    BY <1>3, <2>1, <2>2, <2>3 DEF Readings
  <2>5. /\ fed.phase = reading.phase /\ fed.head = reading.head /\ fed.trailer = reading.trailer
        /\ fed.body = octets /\ fed.left = left
    BY <1>3, <2>3 DEF Readings
  <2> QED
    BY <2>1, <2>4, <2>5 DEF left
<1> HIDE DEF fed
<1>5. CASE Fail \/ Return(fed, "more")
  BY <1>5, FailInv, ReturnInv
<1>6. ASSUME NEW phase \in {"length", "chunk", "crlf", "to_end"},
             reading' = [fed EXCEPT !.phase = phase],
             phase \in {"length", "chunk"} => phase = reading.phase /\ fed.left # 0,
             phase = "crlf" => reading.phase = "chunk",
             phase = "to_end" => Within(Len(fed.body)),
             buffer' = Tail(buffer), UNCHANGED <<asked, keeps, peerVars>>
      PROVE  IInv'
  <2>1. /\ reading' \in Readings
        /\ reading'.phase = phase /\ reading'.left = fed.left /\ reading'.trailer = fed.trailer
        /\ reading'.body = fed.body /\ reading'.head = fed.head
    BY <1>4, <1>6 DEF Phases, Readings
  <2>2. HeldInv'
    <3>1. /\ Len(reading.head) <= MaxHeaders /\ Len(reading.trailer) <= MaxHeaders
          /\ reading.trailer = << >>
          /\ reading.phase \in {"length", "chunk"} =>
               reading.left > 0 /\ Len(reading.body) + reading.left <= MaxBody
      BY <1>1 DEF IInv, HeldInv, HeldWithin
    <3>2. MaxBody \in Nat /\ reading.left \in Nat
      BY <1>3, Http1Assumption DEF Readings
    <3>3. Len(reading'.body) <= MaxBody
      BY <1>1, <1>4, <1>6, <2>1, <3>1, <3>2 DEF Within
    <3>4. phase \in {"length", "chunk"} =>
            reading'.left > 0 /\ Len(reading'.body) + reading'.left <= MaxBody
      BY <1>1, <1>4, <1>6, <2>1, <3>1, <3>2
    <3> QED
      BY <1>4, <1>6, <2>1, <3>1, <3>3, <3>4 DEF HeldInv, HeldWithin
  <2> QED
    BY <1>1, <1>2, <1>6, <2>1, <2>2, ReadOnInv
<1>7. fed = [fed EXCEPT !.phase = reading.phase]
  BY <1>4 DEF Readings
<1>8. CASE reading.phase = "length" /\ fed.left # 0 /\ GoOn(fed)
  BY <1>6, <1>7, <1>8 DEF GoOn
<1>9. CASE reading.phase = "chunk" /\ fed.left # 0 /\ GoOn(fed)
  BY <1>6, <1>7, <1>9 DEF GoOn
<1>10. CASE reading.phase = "chunk" /\ GoOn([fed EXCEPT !.phase = "crlf"])
  BY <1>6, <1>10 DEF GoOn
<1>11. CASE reading.phase = "to_end" /\ Within(Len(fed.body)) /\ GoOn(fed)
  BY <1>6, <1>7, <1>11 DEF GoOn
<1> QED
  BY <1>5, <1>8, <1>9, <1>10, <1>11 DEF TakeOctet, fed, octet

\* The CRLF after a chunk is not held.
LEMMA CrlfInv ==
  ASSUME IInv, TakeCrlf
  PROVE  IInv'
<1>1. reading.phase = "crlf" /\ buffer # << >>
  BY DEF TakeCrlf
<1>2. CASE Fail
  BY <1>2, FailInv
<1>3. CASE GoOn([reading EXCEPT !.phase = "size"])
  <2>1. reading \in Readings /\ Tail(buffer) \in Seq(Tokens)
    BY <1>1, Taking DEF IInv, TypeInv
  <2>2. /\ reading' \in Readings /\ reading'.phase = "size" /\ reading'.body = reading.body
        /\ reading'.head = reading.head /\ reading'.trailer = reading.trailer
    BY <1>3, <2>1 DEF GoOn, Readings, Phases
  <2>3. HeldInv'
    BY <1>1, <2>2 DEF IInv, HeldInv, HeldWithin
  <2> QED
    BY <1>1, <1>3, <2>1, <2>2, <2>3, ReadOnInv DEF GoOn
<1> QED
  BY <1>2, <1>3 DEF TakeCrlf

\* Nor does the end of the connection add anything.
LEMMA EndInv ==
  ASSUME IInv, TakeEnd
  PROVE  IInv'
BY EndHeadInv, ReturnInv, FailInv DEF TakeEnd

\* What of a sequence comes before and after one of its tokens.
LEMMA Split ==
  ASSUME NEW tokens \in Seq(Tokens), NEW n \in 0..Len(tokens)
  PROVE  /\ SubSeq(tokens, 1, n) \in Seq(Tokens) /\ Len(SubSeq(tokens, 1, n)) = n
         /\ \A i \in 1..n : SubSeq(tokens, 1, n)[i] = tokens[i]
         /\ SubSeq(tokens, n + 1, Len(tokens)) \in Seq(Tokens)
         /\ Len(SubSeq(tokens, n + 1, Len(tokens))) = Len(tokens) - n
         /\ \A i \in 1..Len(tokens) - n :
              SubSeq(tokens, n + 1, Len(tokens))[i] = tokens[n + i]
<1>1. n \in Nat /\ Len(tokens) \in Nat /\ n + 1 \in Nat
  OBVIOUS
<1>2. \A i \in 1..Len(tokens) : tokens[i] \in Tokens
  OBVIOUS
<1>3. /\ SubSeq(tokens, 1, n) \in Seq(Tokens)
      /\ Len(SubSeq(tokens, 1, n)) = IF 1 <= n THEN n - 1 + 1 ELSE 0
      /\ \A i \in 1..n - 1 + 1 : SubSeq(tokens, 1, n)[i] = tokens[1 + i - 1]
  BY <1>1, <1>2, SubSeqProperties
<1>4. /\ SubSeq(tokens, n + 1, Len(tokens)) \in Seq(Tokens)
      /\ Len(SubSeq(tokens, n + 1, Len(tokens)))
           = IF n + 1 <= Len(tokens) THEN Len(tokens) - (n + 1) + 1 ELSE 0
      /\ \A i \in 1..Len(tokens) - (n + 1) + 1 :
           SubSeq(tokens, n + 1, Len(tokens))[i] = tokens[n + 1 + i - 1]
  BY <1>1, <1>2, SubSeqProperties
<1> DEFINE before == SubSeq(tokens, 1, n)
           after == SubSeq(tokens, n + 1, Len(tokens))
<1>5. before \in Seq(Tokens) /\ Len(before) = n /\ \A i \in 1..n : before[i] = tokens[i]
  <2> HIDE DEF before
  <2> QED
    BY <1>1, <1>3 DEF before
<1>6. /\ after \in Seq(Tokens) /\ Len(after) = Len(tokens) - n
      /\ \A i \in 1..Len(tokens) - n : after[i] = tokens[n + i]
  <2> HIDE DEF after
  <2>1. /\ after \in Seq(Tokens)
        /\ Len(after) = IF n + 1 <= Len(tokens) THEN Len(tokens) - (n + 1) + 1 ELSE 0
        /\ \A i \in 1..Len(tokens) - (n + 1) + 1 : after[i] = tokens[n + 1 + i - 1]
    BY <1>4 DEF after
  <2>2. ASSUME NEW i \in 1..Len(tokens) - n
        PROVE  after[i] = tokens[n + i]
    <3>1. i \in 1..Len(tokens) - (n + 1) + 1 /\ n + 1 + i - 1 = n + i
      BY <1>1
    <3> QED
      BY <2>1, <3>1
  <2> QED
    BY <1>1, <2>1, <2>2
<1> QED
  BY <1>5, <1>6

\* A read of the BufReader takes tokens off the wire and holds none of them.
LEMMA FillInv ==
  ASSUME IInv, Fill
  PROVE  IInv'
<1>1. wire \in Seq(Tokens)
  BY DEF IInv, TypeInv
<1>2. PICK n \in 1..Len(wire) : /\ buffer' = SubSeq(wire, 1, n)
                                /\ wire' = SubSeq(wire, n + 1, Len(wire))
  BY DEF Fill
<1>3. n \in 0..Len(wire)
  BY <1>1
<1>4. buffer' \in Seq(Tokens) /\ wire' \in Seq(Tokens)
  BY <1>1, <1>2, <1>3, Split
<1> QED
  BY <1>4 DEF Fill, IInv, TypeInv, HeldInv, HeldWithin

\* An exchange begins with nothing held.
LEMMA AskInv ==
  ASSUME IInv, NEW kept \in BOOLEAN, Ask(kept)
  PROVE  IInv'
<1>1. << >> \in Seq(Tokens) /\ Len(<< >>) = 0
  OBVIOUS
<1>2. /\ asked \in Nat /\ asked < MaxRequests[peer] /\ MaxRequests[peer] \in Nat /\ inbox \in Seq(Nat)
      /\ MaxBody \in Nat /\ MaxHeaders \in Nat
  BY Http1Assumption DEF IInv, TypeInv, Ask
<1>3. asked' \in Nat /\ asked' <= MaxRequests[peer]
  BY <1>2 DEF Ask
<1>4. inbox' \in Seq(Nat) /\ inbox' # << >>
  <2>1. asked + 1 \in Nat /\ inbox' = Append(inbox, asked + 1)
    BY <1>2 DEF Ask
  <2> QED
    BY <1>2, <2>1
<1>5. /\ reading' \in Readings /\ reading'.phase = "head" /\ reading'.head = << >>
      /\ reading'.body = << >> /\ reading'.trailer = << >>
  BY <1>1 DEF Ask, NotReading, Readings, Phases
<1>6. keeps' \in BOOLEAN /\ UNCHANGED <<buffer, wire, ended, written, peer>>
  BY DEF Ask
<1>7. TypeInv'
  BY <1>3, <1>4, <1>5, <1>6 DEF IInv, TypeInv
<1>8. HeldInv'
  BY <1>1, <1>2, <1>5 DEF HeldInv, HeldWithin
<1> QED
  BY <1>7, <1>8 DEF IInv

-----------------------------------------------------------------------------
(* What the peer writes.                                                   *)

\* A token is of the request the peer answers.
LEMMA TokenIs ==
  ASSUME inbox \in Seq(Nat), inbox # << >>, NEW kind \in Kinds, NEW n \in Int
  PROVE  /\ Token(kind, n) \in Tokens /\ Token(kind, n).kind = kind
         /\ Token(kind, n).n = n /\ Token(kind, n).of = Head(inbox)
<1>1. Head(inbox) \in Nat
  OBVIOUS
<1> QED
  BY <1>1 DEF Token, Tokens

\* Two sequences in one, token by token.
LEMMA Joined ==
  ASSUME NEW s \in Seq(Tokens), NEW t \in Seq(Tokens)
  PROVE  /\ s \o t \in Seq(Tokens) /\ Len(s \o t) = Len(s) + Len(t)
         /\ Len(s) \in Nat /\ Len(t) \in Nat
         /\ \A i \in 1..Len(s) : (s \o t)[i] = s[i]
         /\ \A i \in 1..Len(t) : (s \o t)[Len(s) + i] = t[i]
<1>1. /\ s \o t \in Seq(Tokens) /\ Len(s \o t) = Len(s) + Len(t)
      /\ \A i \in 1..Len(s) + Len(t) : (s \o t)[i] = IF i <= Len(s) THEN s[i] ELSE t[i - Len(s)]
  BY ConcatProperties
<1>2. Len(s) \in Nat /\ Len(t) \in Nat
  OBVIOUS
<1>3. ASSUME NEW i \in 1..Len(t)
      PROVE  (s \o t)[Len(s) + i] = t[i]
  <2>1. /\ Len(s) + i \in 1..Len(s) + Len(t) /\ ~(Len(s) + i <= Len(s))
        /\ Len(s) + i - Len(s) = i
    BY <1>2
  <2> QED
    BY <1>1, <2>1
<1> QED
  BY <1>1, <1>2, <1>3

\* A head's lines.
LEMMA FourLines ==
  ASSUME NEW s \in Tokens, NEW t \in Tokens, NEW u \in Tokens, NEW v \in Tokens,
         NEW h, h = <<s, t>> \o <<u, v>>
  PROVE  h \in Seq(Tokens) /\ Len(h) = 4 /\ h[1] = s /\ h[2] = t /\ h[3] = u /\ h[4] = v
<1> DEFINE x == <<s, t>>
           y == <<u, v>>
<1>1. x \in Seq(Tokens) /\ Len(x) = 2 /\ x[1] = s /\ x[2] = t /\ 2 \in Nat
  OBVIOUS
<1>2. y \in Seq(Tokens) /\ Len(y) = 2 /\ y[1] = u /\ y[2] = v
  OBVIOUS
<1>3. h = x \o y
  OBVIOUS
<1> HIDE DEF x, y
<1>4. /\ h \in Seq(Tokens) /\ Len(h) = 2 + 2
      /\ \A i \in 1..2 : h[i] = x[i]
      /\ \A i \in 1..2 : h[2 + i] = y[i]
  <2>1. /\ h \in Seq(Tokens) /\ Len(h) = Len(x) + Len(y)
        /\ \A i \in 1..Len(x) : h[i] = x[i]
        /\ \A i \in 1..Len(y) : h[Len(x) + i] = y[i]
    BY <1>1, <1>2, <1>3, Joined
  <2> QED
    BY <1>1, <1>2, <2>1
<1>5. h[2 + 1] = u /\ h[2 + 2] = v /\ h[1] = s /\ h[2] = t
  BY <1>1, <1>2, <1>4
<1> QED
  BY <1>4, <1>5

\* A head's lines where there is no body.
LEMMA ThreeLines ==
  ASSUME NEW s \in Tokens, NEW u \in Tokens, NEW v \in Tokens, NEW h, h = <<s>> \o <<u, v>>
  PROVE  h \in Seq(Tokens) /\ Len(h) = 3 /\ h[1] = s /\ h[2] = u /\ h[3] = v
<1> DEFINE x == <<s>>
           y == <<u, v>>
<1>1. x \in Seq(Tokens) /\ Len(x) = 1 /\ x[1] = s /\ 1 \in Nat /\ 2 \in Nat
  OBVIOUS
<1>2. y \in Seq(Tokens) /\ Len(y) = 2 /\ y[1] = u /\ y[2] = v
  OBVIOUS
<1>3. h = x \o y
  OBVIOUS
<1> HIDE DEF x, y
<1>4. /\ h \in Seq(Tokens) /\ Len(h) = 1 + 2
      /\ \A i \in 1..1 : h[i] = x[i]
      /\ \A i \in 1..2 : h[1 + i] = y[i]
  <2>1. /\ h \in Seq(Tokens) /\ Len(h) = Len(x) + Len(y)
        /\ \A i \in 1..Len(x) : h[i] = x[i]
        /\ \A i \in 1..Len(y) : h[Len(x) + i] = y[i]
    BY <1>1, <1>2, <1>3, Joined
  <2> QED
    BY <1>1, <1>2, <2>1
<1>5. h[1 + 1] = u /\ h[1 + 2] = v /\ h[1] = s
  BY <1>1, <1>2, <1>4
<1> QED
  BY <1>4, <1>5

\* A message is what KindAt and NumberAt say, token by token.
LEMMA MessageShape ==
  ASSUME inbox \in Seq(Nat), inbox # << >>, NEW a \in Answers
  PROVE  /\ WriteMessage(a) \in Seq(Tokens) /\ Len(WriteMessage(a)) = MessageLen(a)
         /\ \A i \in 1..MessageLen(a) :
              /\ WriteMessage(a)[i].kind = KindAt(a, i)
              /\ WriteMessage(a)[i].of = Head(inbox)
              /\ WriteMessage(a)[i].kind \in {"status", "length", "size"} =>
                   WriteMessage(a)[i].n = NumberAt(a, i)
<1> DEFINE b == a.body
           status == Token("status", a.status)
           length == Token("length", b)
           chunked == Token("chunked", 0)
           says == Token(Says(a), 0)
           blank == Token("blank", 0)
           size == Token("size", b)
           crlf == Token("crlf", 0)
           none == Token("size", 0)
           other == Token("other", 0)
           octets == [i \in 1..b |-> Token("octet", i)]
           of == Head(inbox)
<1>1. /\ a.status \in Nat /\ b \in Nat /\ a.trailers \in BOOLEAN
      /\ a.connection \in {"none", "close", "keep-alive"}
  BY Http1Assumption
<1>2. Says(a) \in {"close", "keep-alive"}
  BY <1>1 DEF Says
<1>3. {"status", "length", "chunked", "close", "keep-alive", "blank", "size", "crlf", "other", "octet"}
        \subseteq Kinds
  BY DEF Kinds, Lines
<1>4. /\ status \in Tokens /\ status.kind = "status" /\ status.n = a.status /\ status.of = of
      /\ length \in Tokens /\ length.kind = "length" /\ length.n = b /\ length.of = of
      /\ chunked \in Tokens /\ chunked.kind = "chunked" /\ chunked.of = of
      /\ says \in Tokens /\ says.kind = Says(a) /\ says.of = of
      /\ blank \in Tokens /\ blank.kind = "blank" /\ blank.of = of
      /\ size \in Tokens /\ size.kind = "size" /\ size.n = b /\ size.of = of
      /\ crlf \in Tokens /\ crlf.kind = "crlf" /\ crlf.of = of
      /\ none \in Tokens /\ none.kind = "size" /\ none.n = 0 /\ none.of = of
      /\ other \in Tokens /\ other.kind = "other" /\ other.of = of
  BY <1>1, <1>2, <1>3, TokenIs
<1>5. /\ octets \in Seq(Tokens) /\ Len(octets) = b
      /\ \A i \in 1..b : octets[i].kind = "octet" /\ octets[i].of = of
  <2>1. \A i \in 1..b : /\ Token("octet", i) \in Tokens /\ Token("octet", i).kind = "octet"
                        /\ Token("octet", i).of = of
    BY <1>1, <1>3, TokenIs
  <2>2. octets \in [1..b -> Tokens]
    BY <2>1
  <2>3. octets \in Seq(Tokens) /\ Len(octets) = b
    <3> HIDE DEF octets, b
    <3> QED
      BY <1>1, <2>2
  <2> QED
    BY <2>1, <2>3
<1> HIDE DEF status, length, chunked, says, blank, size, crlf, none, other, octets, of, b
<1>6. CASE Bodiless(a.status)
  <2>1. WriteMessage(a) = <<status>> \o <<says, blank>>
    BY <1>6 DEF WriteMessage, Says, status, says, blank
  <2> DEFINE m == <<status>> \o <<says, blank>>
  <2>3. m \in Seq(Tokens) /\ Len(m) = 3 /\ m[1] = status /\ m[2] = says /\ m[3] = blank
    <3>1. m = <<status>> \o <<says, blank>>
      OBVIOUS
    <3> HIDE DEF m
    <3> QED
      BY <1>4, <3>1, ThreeLines
  <2>4. WriteMessage(a) = m
    BY <2>1
  <2> HIDE DEF m
  <2>5. MessageLen(a) = 3 /\ KindAt(a, 1) = "status" /\ KindAt(a, 2) = Says(a)
        /\ KindAt(a, 3) = "blank" /\ NumberAt(a, 1) = a.status
    BY <1>6 DEF MessageLen, KindAt, HeadLen, NumberAt
  <2>6. ASSUME NEW i \in 1..3
        PROVE  /\ m[i].kind = KindAt(a, i) /\ m[i].of = of
               /\ m[i].kind \in {"status", "length", "size"} => m[i].n = NumberAt(a, i)
    <3>1. i = 1 \/ i = 2 \/ i = 3
      OBVIOUS
    <3> QED
      BY <1>2, <1>4, <2>3, <2>5, <3>1
  <2> QED
    BY <2>3, <2>4, <2>5, <2>6 DEF of
<1>7. CASE ~Bodiless(a.status) /\ ~a.trailers
  <2> DEFINE h == <<status, length>> \o <<says, blank>>
             m == h \o octets
  <2>1. WriteMessage(a) = <<status, length>> \o <<says, blank>> \o octets
    BY <1>7 DEF WriteMessage, Says, status, says, blank, length, octets, b
  <2>3. h \in Seq(Tokens) /\ Len(h) = 4 /\ h[1] = status /\ h[2] = length /\ h[3] = says /\ h[4] = blank
    <3>1. h = <<status, length>> \o <<says, blank>>
      OBVIOUS
    <3> HIDE DEF h
    <3> QED
      BY <1>4, <3>1, FourLines
  <2>4. WriteMessage(a) = m
    BY <2>1, Zenon
  <2> HIDE DEF h
  <2>5. /\ m \in Seq(Tokens) /\ Len(m) = 4 + b
        /\ \A i \in 1..4 : m[i] = h[i]
        /\ \A i \in 1..b : m[4 + i] = octets[i]
    <3>1. /\ m \in Seq(Tokens) /\ Len(m) = Len(h) + Len(octets)
          /\ \A i \in 1..Len(h) : m[i] = h[i]
          /\ \A i \in 1..Len(octets) : m[Len(h) + i] = octets[i]
      BY <1>1, <1>5, <2>3, Joined, Zenon
    <3> HIDE DEF m
    <3> QED
      BY <1>1, <1>5, <2>3, <3>1
  <2> HIDE DEF m
  <2>6. /\ MessageLen(a) = 4 + b /\ KindAt(a, 1) = "status" /\ KindAt(a, 2) = "length"
        /\ KindAt(a, 3) = Says(a) /\ KindAt(a, 4) = "blank"
        /\ NumberAt(a, 1) = a.status /\ NumberAt(a, 2) = b
    BY <1>7 DEF MessageLen, KindAt, HeadLen, NumberAt, b
  <2>7. ASSUME NEW i \in 1..b
        PROVE  KindAt(a, 4 + i) = "octet"
    BY <1>1, <1>7 DEF KindAt, HeadLen
  <2>8. ASSUME NEW i \in 1..4 + b
        PROVE  /\ m[i].kind = KindAt(a, i) /\ m[i].of = of
               /\ m[i].kind \in {"status", "length", "size"} => m[i].n = NumberAt(a, i)
    <3>1. CASE i \in {1, 2, 3, 4}
      BY <1>2, <1>4, <2>3, <2>5, <2>6, <3>1
    <3>2. CASE i > 4
      <4>1. i - 4 \in 1..b /\ 4 + (i - 4) = i
        BY <1>1, <3>2
      <4>2. m[i] = octets[i - 4] /\ KindAt(a, i) = "octet"
        BY <2>5, <2>7, <4>1
      <4> QED
        BY <1>5, <4>1, <4>2
    <3> QED
      BY <1>1, <3>1, <3>2
  <2> QED
    BY <2>4, <2>5, <2>6, <2>8 DEF of
<1>8. CASE ~Bodiless(a.status) /\ a.trailers
  <2> DEFINE h == <<status, chunked>> \o <<says, blank>>
             last == <<none, other, blank>>
  <2>1. /\ h \in Seq(Tokens) /\ Len(h) = 4 /\ h[1] = status /\ h[2] = chunked
        /\ h[3] = says /\ h[4] = blank
    <3>1. h = <<status, chunked>> \o <<says, blank>>
      OBVIOUS
    <3> HIDE DEF h
    <3> QED
      BY <1>4, <3>1, FourLines
  <2>2. last \in Seq(Tokens) /\ Len(last) = 3 /\ last[1] = none /\ last[2] = other /\ last[3] = blank
    BY <1>4
  <2>4. CASE b = 0
    <3> DEFINE m == h \o last
    <3>1. WriteMessage(a) = h \o << >> \o last
      BY <1>8, <2>4 DEF WriteMessage, Says, status, says, blank, chunked, none, other, b
    <3> HIDE DEF h, last
    <3>2. h \o << >> = h
      BY <2>1, ConcatEmptySeq
    <3>3. WriteMessage(a) = m
      BY <3>1, <3>2, Zenon
    <3>4. /\ m \in Seq(Tokens) /\ Len(m) = 4 + 3
          /\ \A i \in 1..4 : m[i] = h[i]
          /\ \A i \in 1..3 : m[4 + i] = last[i]
      <4>1. /\ m \in Seq(Tokens) /\ Len(m) = Len(h) + Len(last)
            /\ \A i \in 1..Len(h) : m[i] = h[i]
            /\ \A i \in 1..Len(last) : m[Len(h) + i] = last[i]
        BY <2>1, <2>2, Joined, Zenon
      <4> HIDE DEF m
      <4> QED
        BY <2>1, <2>2, <4>1
    <3> HIDE DEF m
    <3>5. /\ m[1] = status /\ m[2] = chunked /\ m[3] = says /\ m[4] = blank
          /\ m[5] = none /\ m[6] = other /\ m[7] = blank
      <4>1. 4 + 1 = 5 /\ 4 + 2 = 6 /\ 4 + 3 = 7
        OBVIOUS
      <4> QED
        BY <2>1, <2>2, <3>4, <4>1
    <3>6. /\ MessageLen(a) = 7 /\ KindAt(a, 1) = "status" /\ KindAt(a, 2) = "chunked"
          /\ KindAt(a, 3) = Says(a) /\ KindAt(a, 4) = "blank"
          /\ KindAt(a, 5) = "size" /\ KindAt(a, 6) = "other" /\ KindAt(a, 7) = "blank"
          /\ NumberAt(a, 1) = a.status /\ NumberAt(a, 5) = 0
      BY <1>8, <2>4 DEF MessageLen, KindAt, HeadLen, NumberAt, b
    <3>7. ASSUME NEW i \in 1..7
          PROVE  /\ m[i].kind = KindAt(a, i) /\ m[i].of = of
                 /\ m[i].kind \in {"status", "length", "size"} => m[i].n = NumberAt(a, i)
      <4>1. i \in {1, 2, 3, 4, 5, 6, 7}
        OBVIOUS
      <4> QED
        BY <1>2, <1>4, <3>5, <3>6, <4>1
    <3> QED
      BY <3>3, <3>4, <3>6, <3>7 DEF of
  <2>5. CASE b # 0
    <3> DEFINE sized == <<size>> \o octets
               chunk == sized \o <<crlf>>
               m1 == h \o chunk
               m == m1 \o last
    <3>1. WriteMessage(a) = h \o chunk \o last
      BY <1>8, <2>5 DEF WriteMessage, Says, status, says, blank, chunked, none, other, size, crlf,
                        octets, b
    <3>2. WriteMessage(a) = m
      <4> HIDE DEF h, last, chunk
      <4> QED
        BY <3>1, Zenon
    <3> HIDE DEF h, last
    <3>3. <<size>> \in Seq(Tokens) /\ Len(<<size>>) = 1 /\ <<size>>[1] = size
      BY <1>4
    <3>4. <<crlf>> \in Seq(Tokens) /\ Len(<<crlf>>) = 1 /\ <<crlf>>[1] = crlf
      BY <1>4
    <3>5. /\ sized \in Seq(Tokens) /\ Len(sized) = 1 + b /\ sized[1] = size
          /\ \A i \in 1..b : sized[1 + i] = octets[i]
      BY <1>1, <1>5, <3>3, Joined
    <3> HIDE DEF sized
    <3>6. /\ chunk \in Seq(Tokens) /\ Len(chunk) = 2 + b /\ chunk[1] = size
          /\ \A i \in 1..b : chunk[1 + i] = octets[i]
          /\ chunk[2 + b] = crlf
      <4>1. /\ chunk \in Seq(Tokens) /\ Len(chunk) = Len(sized) + 1
            /\ \A i \in 1..Len(sized) : chunk[i] = sized[i]
            /\ chunk[Len(sized) + 1] = crlf
        BY <3>4, <3>5, Joined
      <4> HIDE DEF chunk
      <4> QED
        BY <1>1, <3>5, <4>1
    <3> HIDE DEF chunk
    <3>7. /\ m1 \in Seq(Tokens) /\ Len(m1) = 6 + b
          /\ \A i \in 1..4 : m1[i] = h[i]
          /\ m1[5] = size /\ m1[6 + b] = crlf
          /\ \A i \in 1..b : m1[5 + i] = octets[i]
      <4>1. /\ m1 \in Seq(Tokens) /\ Len(m1) = 4 + (2 + b)
            /\ \A i \in 1..4 : m1[i] = h[i]
            /\ \A i \in 1..2 + b : m1[4 + i] = chunk[i]
        <5>1. /\ m1 \in Seq(Tokens) /\ Len(m1) = Len(h) + Len(chunk)
              /\ \A i \in 1..Len(h) : m1[i] = h[i]
              /\ \A i \in 1..Len(chunk) : m1[Len(h) + i] = chunk[i]
          BY <1>1, <2>1, <3>6, Joined, Zenon
        <5> HIDE DEF m1
        <5> QED
          BY <1>1, <2>1, <3>6, <5>1
      <4> HIDE DEF m1
      <4>2. m1[4 + 1] = size /\ m1[4 + (2 + b)] = crlf
        BY <1>1, <3>6, <4>1
      <4>3. ASSUME NEW i \in 1..b
            PROVE  m1[5 + i] = octets[i]
        <5>1. 1 + i \in 1..2 + b /\ 4 + (1 + i) = 5 + i
          BY <1>1
        <5> QED
          BY <3>6, <4>1, <5>1
      <4> QED
        BY <1>1, <4>1, <4>2, <4>3
    <3> HIDE DEF m1
    <3>8. /\ m \in Seq(Tokens) /\ Len(m) = 9 + b
          /\ m[1] = status /\ m[2] = chunked /\ m[3] = says /\ m[4] = blank /\ m[5] = size
          /\ \A i \in 1..b : m[5 + i] = octets[i]
          /\ m[6 + b] = crlf /\ m[7 + b] = none /\ m[8 + b] = other /\ m[9 + b] = blank
      <4>1. /\ m \in Seq(Tokens) /\ Len(m) = (6 + b) + 3
            /\ \A i \in 1..6 + b : m[i] = m1[i]
            /\ \A i \in 1..3 : m[6 + b + i] = last[i]
        <5>1. /\ m \in Seq(Tokens) /\ Len(m) = Len(m1) + Len(last)
              /\ \A i \in 1..Len(m1) : m[i] = m1[i]
              /\ \A i \in 1..Len(last) : m[Len(m1) + i] = last[i]
          BY <1>1, <2>2, <3>7, Joined, Zenon
        <5> HIDE DEF m
        <5> QED
          BY <1>1, <2>2, <3>7, <5>1
      <4> HIDE DEF m
      <4>2. m[6 + b + 1] = none /\ m[6 + b + 2] = other /\ m[6 + b + 3] = blank
        BY <2>2, <4>1
      <4>3. m[1] = status /\ m[2] = chunked /\ m[3] = says /\ m[4] = blank /\ m[5] = size
            /\ m[6 + b] = crlf
        BY <1>1, <2>1, <3>7, <4>1
      <4>4. ASSUME NEW i \in 1..b
            PROVE  m[5 + i] = octets[i]
        <5>1. 5 + i \in 1..6 + b
          BY <1>1
        <5> QED
          BY <3>7, <4>1, <5>1
      <4> QED
        BY <1>1, <4>1, <4>2, <4>3, <4>4
    <3> HIDE DEF m
    <3>9. /\ MessageLen(a) = 9 + b /\ KindAt(a, 1) = "status" /\ KindAt(a, 2) = "chunked"
          /\ KindAt(a, 3) = Says(a) /\ KindAt(a, 4) = "blank" /\ KindAt(a, 5) = "size"
          /\ KindAt(a, 6 + b) = "crlf" /\ KindAt(a, 7 + b) = "size"
          /\ KindAt(a, 8 + b) = "other" /\ KindAt(a, 9 + b) = "blank"
          /\ NumberAt(a, 1) = a.status /\ NumberAt(a, 5) = b /\ NumberAt(a, 7 + b) = 0
      <4>1. MessageLen(a) = 9 + b /\ HeadLen(a) = 3 /\ b \in Nat /\ b > 0
        BY <1>1, <1>8, <2>5 DEF MessageLen, HeadLen, b
      <4>2. NumberAt(a, 1) = a.status /\ NumberAt(a, 5) = b /\ NumberAt(a, 7 + b) = 0
        BY <1>8, <4>1 DEF NumberAt, b
      <4> HIDE DEF b
      <4> QED
        BY <1>8, <4>1, <4>2 DEF KindAt
    <3>10. ASSUME NEW i \in 1..b
           PROVE  KindAt(a, 5 + i) = "octet"
      BY <1>1, <1>8, <2>5 DEF KindAt, HeadLen, MessageLen, b
    <3>11. ASSUME NEW i \in 1..9 + b
           PROVE  /\ m[i].kind = KindAt(a, i) /\ m[i].of = of
                  /\ m[i].kind \in {"status", "length", "size"} => m[i].n = NumberAt(a, i)
      <4>1. CASE i \in {1, 2, 3, 4, 5}
        BY <1>2, <1>4, <3>8, <3>9, <4>1
      <4>2. CASE i \in {6 + b, 7 + b, 8 + b, 9 + b}
        BY <1>4, <3>8, <3>9, <4>2
      <4>3. CASE i - 5 \in 1..b
        <5>1. 5 + (i - 5) = i
          OBVIOUS
        <5>2. m[i] = octets[i - 5] /\ KindAt(a, i) = "octet"
          BY <3>8, <3>10, <4>3, <5>1
        <5> QED
          BY <1>5, <4>3, <5>2
      <4> QED
        BY <1>1, <4>1, <4>2, <4>3
    <3> QED
      BY <3>2, <3>8, <3>9, <3>11 DEF of
  <2> QED
    BY <2>4, <2>5
<1> QED
  BY <1>1, <1>6, <1>7, <1>8

\* A peer's step changes nothing of what is held; it keeps the types where it
\* does those of what it changes.
LEMMA PeerStepInv ==
  ASSUME IInv, UNCHANGED <<clientVars, peer>>, wire' \in Seq(Tokens), inbox' \in Seq(Nat),
         ended' \in BOOLEAN, DOMAIN written' = DOMAIN written,
         peer = "any" => UNCHANGED inbox
  PROVE  IInv'
<1>1. UNCHANGED <<asked, keeps, reading, buffer, peer>>
  BY DEF clientVars
<1>2. TypeInv'
  BY <1>1 DEF IInv, TypeInv
<1>3. HeldInv'
  BY <1>1 DEF IInv, HeldInv, HeldWithin
<1> QED
  BY <1>2, <1>3 DEF IInv

\* The peer writes an answer.
LEMMA AnswerStepInv ==
  ASSUME IInv, Answer
  PROVE  IInv'
<1>1. wire \in Seq(Tokens) /\ inbox \in Seq(Nat) /\ inbox # << >> /\ peer # "any"
  BY DEF IInv, TypeInv, Answer
<1>2. PICK a \in Answers : /\ wire' = wire \o WriteMessage(a)
                           /\ written' = [written EXCEPT ![Head(inbox)] = a]
                           /\ ended' = (a.connection # "keep-alive")
  BY DEF Answer
<1>3. WriteMessage(a) \in Seq(Tokens)
  BY <1>1, MessageShape
<1>4. wire' \in Seq(Tokens)
  BY <1>1, <1>2, <1>3, Joined, Zenon
<1>5. inbox' \in Seq(Nat)
  BY <1>1 DEF Answer
<1>6. DOMAIN written' = DOMAIN written
  BY <1>2
<1>7. ended' \in BOOLEAN
  BY <1>2, Zenon
<1>8. UNCHANGED <<clientVars, peer>>
  BY DEF Answer
<1> QED
  BY <1>1, <1>4, <1>5, <1>6, <1>7, <1>8, PeerStepInv

\* The peer writes an interim answer.
LEMMA InterimStepInv ==
  ASSUME IInv, Interim
  PROVE  IInv'
<1>1. wire \in Seq(Tokens) /\ inbox \in Seq(Nat) /\ inbox # << >> /\ ended \in BOOLEAN
  BY DEF IInv, TypeInv, Interim
<1>2. Token("status", 100) \in Tokens /\ Token("blank", 0) \in Tokens
  BY <1>1, TokenIs DEF Kinds, Lines
<1>3. <<Token("status", 100), Token("blank", 0)>> \in Seq(Tokens)
  BY <1>2
<1>4. wire' \in Seq(Tokens)
  BY <1>1, <1>3, Joined, Zenon DEF Interim
<1>5. UNCHANGED <<inbox, ended, written, peer, clientVars>>
  BY DEF Interim
<1> QED
  BY <1>1, <1>4, <1>5, PeerStepInv

\* The peer ends the connection, and part of what it wrote may be lost.
LEMMA PeerEndsInv ==
  ASSUME IInv, PeerEnds
  PROVE  IInv'
<1>1. wire \in Seq(Tokens) /\ inbox \in Seq(Nat)
  BY DEF IInv, TypeInv
<1>2. PICK n \in 0..Len(wire) : wire' = SubSeq(wire, 1, n)
  BY DEF PeerEnds
<1>3. wire' \in Seq(Tokens)
  BY <1>1, <1>2, Split
<1>4. ended' = TRUE /\ UNCHANGED <<inbox, written, peer, clientVars>>
  BY DEF PeerEnds
<1> QED
  BY <1>1, <1>3, <1>4, PeerStepInv

\* The peer writes whatever token a reader could meet.
LEMMA WriteAnythingInv ==
  ASSUME IInv, WriteAnything
  PROVE  IInv'
<1>1. inbox \in Seq(Nat) /\ inbox # << >> /\ ended \in BOOLEAN
  BY DEF IInv, TypeInv, WriteAnything
<1>2. PICK kind \in Wanted :
        \E n \in CASE kind = "status" -> {100, 200, 204}
                   [] kind \in {"length", "size"} -> -1..(MaxBody + 1)
                   [] OTHER -> {0} :
          wire' = <<Token(kind, n)>>
  BY DEF WriteAnything
<1>3. PICK n \in Int : wire' = <<Token(kind, n)>>
  <2>1. CASE kind = "status"
    BY <1>2, <2>1
  <2>2. CASE kind \in {"length", "size"}
    BY <1>2, <2>2, Http1Assumption
  <2>3. CASE kind \notin {"status", "length", "size"}
    BY <1>2, <2>3
  <2> QED
    BY <2>1, <2>2, <2>3
<1>4. kind \in Kinds
  BY <1>2 DEF Wanted, Kinds, Lines
<1>5. Token(kind, n) \in Tokens
  BY <1>1, <1>4, TokenIs
<1>6. wire' \in Seq(Tokens)
  BY <1>3, <1>5
<1>7. UNCHANGED <<inbox, ended, written, peer, clientVars>>
  BY DEF WriteAnything
<1> QED
  BY <1>1, <1>6, <1>7, PeerStepInv

\* Every step keeps the invariant.
LEMMA NextInv ==
  ASSUME IInv, [Next]_vars
  PROVE  IInv'
<1>1. ASSUME NEW kept \in BOOLEAN, Ask(kept)
      PROVE  IInv'
  BY <1>1, AskInv, Zenon
<1>2. CASE ClientRuns
  BY <1>2, FillInv, HeadLineInv, TrailerLineInv, SizeInv, OctetInv, CrlfInv, EndInv, Zenon
     DEF ClientRuns
<1>3. CASE ReadFails
  BY <1>3, FailInv DEF ReadFails
<1>4. CASE PeerRuns
  BY <1>4, AnswerStepInv, InterimStepInv, PeerEndsInv, WriteAnythingInv, Zenon DEF PeerRuns
<1>5. CASE UNCHANGED vars
  BY <1>5 DEF vars, clientVars, peerVars, IInv, TypeInv, HeldInv, HeldWithin
<1> QED
  BY <1>1, <1>2, <1>3, <1>4, <1>5, Zenon DEF Next

\* The types and what is held, throughout.
LEMMA Invariance == Spec => []IInv
<1>1. Init => IInv
  BY InitInv
<1>2. IInv /\ [Next]_vars => IInv'
  BY NextInv
<1> QED
  BY <1>1, <1>2, PTL DEF Spec

\* Never more than MAX_BODY is held, nor more lines than MAX_HEADERS, whatever
\* a peer sends and however it frames it (body.rs read, head.rs read_head).
THEOREM NeverMoreHeld == Spec => []HeldWithin
<1>1. IInv => HeldWithin
  BY DEF IInv, HeldInv
<1> QED
  BY <1>1, Invariance, PTL

-----------------------------------------------------------------------------
(* The answers of a peer that writes with write_response.                  *)

\* The exchange is under way, and its answer is a.
Answering(a) ==
    /\ peer = "own" /\ reading.phase # "idle" /\ asked > 0
    /\ inbox = << >> /\ a = written[asked] /\ PhaseInv(a) /\ RestInv(a)

\* What an answer is made of.
LEMMA AnswerParts ==
  ASSUME NEW a \in Answers
  PROVE  /\ a.status \in Nat /\ a.body \in Nat /\ a.trailers \in BOOLEAN
         /\ Says(a) \in {"close", "keep-alive"}
         /\ HeadLen(a) \in {2, 3} /\ (HeadLen(a) = 2 <=> Bodiless(a.status))
         /\ MessageLen(a) \in Nat
BY Http1Assumption DEF Says, HeadLen, MessageLen

\* An exchange with something to read is under way, and what it reads next is
\* the answer's next token.
LEMMA NextToken ==
  ASSUME IInv, OwnInv, peer = "own", reading.phase # "idle", buffer # << >> \/ wire # << >>
  PROVE  /\ written[asked] \in Answers /\ Answering(written[asked])
         /\ Taken(written[asked]) \in Nat /\ Len(buffer) \in Nat /\ Len(wire) \in Nat
         /\ buffer # << >> =>
              /\ Len(buffer) > 0
              /\ IsAt(Head(buffer), written[asked], Taken(written[asked]) + 1)
<1>1. Underway /\ asked > 0
  BY DEF OwnInv, Waiting
<1>2. PICK a \in Answers : a = written[asked]
  BY <1>1 DEF Underway
<1>3. Answering(a)
  BY <1>1, <1>2 DEF Answering, Underway
<1>4. /\ buffer \in Seq(Tokens) /\ wire \in Seq(Tokens) /\ reading \in Readings
  BY DEF IInv, TypeInv
<1>5. Taken(a) \in Nat
  <2>1. /\ Len(reading.head) \in Nat /\ Len(reading.body) \in Nat /\ Len(reading.trailer) \in Nat
    BY <1>4 DEF Readings
  <2>2. reading.phase \in Phases
    BY <1>4 DEF Readings
  <2>3. a.body \in Nat /\ MessageLen(a) \in Nat
    BY AnswerParts
  <2>4. reading.phase = "trailer" => MessageLen(a) >= 2
    BY <1>3, <2>3 DEF Answering, PhaseInv, MessageLen
  <2> QED
    BY <2>1, <2>2, <2>3, <2>4 DEF Taken, Phases
<1>6. buffer # << >> => Len(buffer) > 0 /\ Head(buffer) = buffer[1]
  BY <1>4
<1>7. buffer # << >> => IsAt(buffer[1], a, Taken(a) + 1)
  <2>1. buffer # << >> => 1 \in 1..Len(buffer)
    BY <1>4, <1>6
  <2> QED
    BY <1>3, <2>1 DEF Answering, RestInv
<1>8. Len(buffer) \in Nat /\ Len(wire) \in Nat
  BY <1>4
<1> QED
  BY <1>2, <1>3, <1>5, <1>6, <1>7, <1>8

\* An exchange that failed leaves nothing behind.
LEMMA FailOwn ==
  ASSUME Fail
  PROVE  AnswerInv'
<1>1. /\ reading'.phase = "idle" /\ buffer' = << >> /\ inbox' = << >> /\ wire' = << >>
      /\ result'.kind = "failed"
  BY DEF Fail, Drop, NotReading
<1> QED
  BY <1>1 DEF AnswerInv, OwnInv, Idle, AnswerIsOwn, AnswerAsWritten, Answered

\* One that returns an answer whose tokens are all taken leaves nothing either,
\* and the answer is the one written.
LEMMA ReturnOwn ==
  ASSUME NEW a \in Answers, Answering(a), wire = << >>, NEW read, NEW rest, Return(read, rest),
         Len(read.head) \in Nat, Len(read.head) > 0, IsAt(read.head[1], a, 1),
         rest # "end" \/ Len(read.head) > 1 \/ Bodiless(a.status) =>
           Len(read.body) = IF Bodiless(a.status) THEN 0 ELSE a.body,
         rest # "end" => ((read.trailer # << >>) = (a.trailers /\ ~Bodiless(a.status)))
  PROVE  AnswerInv'
<1>1. /\ reading'.phase = "idle" /\ buffer' = << >> /\ inbox' = << >> /\ wire' = << >>
      /\ UNCHANGED <<asked, written, peer>>
  BY DEF Return, Drop, NotReading, peerVars, Answering
<1>2. /\ result'.head = read.head /\ result'.body = read.body /\ result'.trailer = read.trailer
      /\ result'.atEnd = (rest = "end")
  BY DEF Return
<1>3. read.head[1].of = asked /\ read.head[1].n = a.status
  BY DEF IsAt, IsOf, KindAt, NumberAt
<1>4. OwnInv' /\ AnswerIsOwn'
  BY <1>1, <1>2, <1>3 DEF OwnInv, Idle, AnswerIsOwn
<1>5. Named(read.head, {"length", "chunked"}) # {} => Len(read.head) > 1
  BY DEF Named
<1>6. AnswerAsWritten'
  <2>1. a = written'[asked']
    BY <1>1 DEF Answering
  <2> QED
    BY <1>2, <1>3, <1>5, <2>1 DEF AnswerAsWritten
<1> QED
  BY <1>4, <1>6 DEF AnswerInv

\* One that goes on with the answer's next token is still under way.
LEMMA GoOnOwn ==
  ASSUME IInv, NEW a \in Answers, Answering(a), Taken(a) \in Nat, buffer # << >>,
         buffer' = Tail(buffer), UNCHANGED <<asked, peerVars>>,
         reading'.phase # "idle", Taken(a)' = Taken(a) + 1, PhaseInv(a)'
  PROVE  AnswerInv'
<1>1. UNCHANGED <<asked, inbox, wire, ended, written, peer>>
  BY DEF peerVars
<1>2. /\ buffer \in Seq(Tokens) /\ wire \in Seq(Tokens)
      /\ Len(buffer) \in Nat /\ Len(wire) \in Nat /\ Len(buffer) > 0
  BY DEF IInv, TypeInv
<1>3. Len(buffer') = Len(buffer) - 1 /\ \A i \in 1..Len(buffer) - 1 : buffer'[i] = buffer[i + 1]
  BY <1>2
<1>4. RestInv(a)
  BY DEF Answering
<1>5. \A i \in 1..Len(buffer') : IsOf(buffer'[i], a, Taken(a)' + i, asked')
  <2>1. SUFFICES ASSUME NEW i \in 1..Len(buffer')
                 PROVE  IsOf(buffer'[i], a, Taken(a)' + i, asked')
    OBVIOUS
  <2>2. i + 1 \in 1..Len(buffer) /\ Taken(a)' + i = Taken(a) + (i + 1) /\ buffer'[i] = buffer[i + 1]
    BY <1>2, <1>3
  <2>3. IsAt(buffer[i + 1], a, Taken(a) + (i + 1))
    BY <1>4, <2>2 DEF RestInv
  <2> QED
    BY <1>1, <2>2, <2>3 DEF IsAt
<1>6. \A i \in 1..Len(wire') : IsOf(wire'[i], a, Taken(a)' + Len(buffer') + i, asked')
  <2>1. SUFFICES ASSUME NEW i \in 1..Len(wire)
                 PROVE  IsOf(wire[i], a, Taken(a)' + Len(buffer') + i, asked')
    BY <1>1
  <2>2. Taken(a)' + Len(buffer') + i = Taken(a) + Len(buffer) + i
    BY <1>2, <1>3
  <2>3. IsAt(wire[i], a, Taken(a) + Len(buffer) + i)
    BY <1>4 DEF RestInv
  <2> QED
    BY <1>1, <2>2, <2>3 DEF IsAt
<1>7. Taken(a)' + Len(buffer') + Len(wire') = Taken(a) + Len(buffer) + Len(wire)
  BY <1>1, <1>2, <1>3
<1>8. RestInv(a)'
  BY <1>1, <1>4, <1>5, <1>6, <1>7 DEF RestInv, IsAt
<1>9. Underway' /\ asked' > 0
  BY <1>1, <1>8 DEF Answering, Underway
<1> QED
  BY <1>9 DEF AnswerInv, OwnInv, AnswerIsOwn, AnswerAsWritten

\* What a head that is an answer's, or the part of it that came, says of how
\* the body is framed.
LEMMA FramingOf ==
  ASSUME NEW a \in Answers, NEW head \in Seq(Tokens), Len(head) <= HeadLen(a),
         \A i \in 1..Len(head) : IsAt(head[i], a, i)
  PROVE  /\ head = << >> => Framing(head).next = "refused"
         /\ head # << >> /\ Bodiless(a.status) => Framing(head).next = "whole"
         /\ Len(head) = 1 /\ ~Bodiless(a.status) => Framing(head).next = "to_end"
         /\ Len(head) > 1 /\ ~Bodiless(a.status) /\ a.trailers => Framing(head).next = "size"
         /\ Len(head) > 1 /\ ~Bodiless(a.status) /\ ~a.trailers =>
              \/ Framing(head).next = "refused"
              \/ Framing(head).next = "whole" /\ a.body = 0
              \/ Framing(head).next = "length" /\ Framing(head).left = a.body
<1> USE AnswerParts
<1>1. CASE head = << >>
  <2>1. Len(head) = 0
    BY <1>1
  <2> QED
    BY <1>1, <2>1 DEF Framing
<1>2. CASE head # << >>
  <2>1. Len(head) \in Nat /\ Len(head) > 0
    BY <1>2
  <2>2. head[1].kind = "status" /\ head[1].n = a.status
    BY <2>1 DEF IsAt, IsOf, KindAt, NumberAt
  <2>3. CASE Bodiless(a.status)
    BY <1>2, <2>2, <2>3 DEF Framing
  <2>4. CASE ~Bodiless(a.status)
    <3>1. HeadLen(a) = 3 /\ Len(head) <= 3
      BY <2>4 DEF HeadLen
    <3>2. Len(head) > 2 => head[3].kind = Says(a)
      BY <2>1, <3>1 DEF IsAt, IsOf, KindAt
    <3>3. Len(head) > 1 => /\ head[2].kind = IF a.trailers THEN "chunked" ELSE "length"
                           /\ ~a.trailers => head[2].n = a.body
      BY <2>1, <3>1 DEF IsAt, IsOf, KindAt, NumberAt
    <3>4. CASE Len(head) = 1
      <4>1. Named(head, {"chunked", "coding"}) = {} /\ Named(head, {"length"}) = {}
        BY <3>4 DEF Named
      <4> QED
        BY <1>2, <2>2, <2>4, <3>4, <4>1 DEF Framing
    <3>5. CASE Len(head) > 1 /\ a.trailers
      <4>1. Named(head, {"chunked", "coding"}) = {2}
        <5>1. \A i \in 2..Len(head) : i = 2 \/ i = 3
          BY <2>1, <3>1
        <5> QED
          BY <2>1, <3>1, <3>2, <3>3, <3>5, <5>1 DEF Named
      <4>2. Header(head, {"chunked", "coding"}).kind = "chunked"
        BY <3>3, <3>5, <4>1, OnlyHeader
      <4>3. Framing(head).next = "size"
        BY <1>2, <2>2, <2>4, <4>1, <4>2 DEF Framing
      <4> QED
        BY <1>2, <2>4, <3>5, <4>3
    <3>6. CASE Len(head) > 1 /\ ~a.trailers
      <4>1. Named(head, {"chunked", "coding"}) = {} /\ Named(head, {"length"}) = {2}
        <5>1. \A i \in 2..Len(head) : i = 2 \/ i = 3
          BY <2>1, <3>1
        <5> QED
          BY <2>1, <3>1, <3>2, <3>3, <3>6, <5>1 DEF Named
      <4>2. Header(head, {"length"}).n = a.body
        BY <3>3, <3>6, <4>1, OnlyHeader
      <4>3. Framing(head) =
              IF a.body < 0 \/ ~Within(a.body) THEN [next |-> "refused", left |-> 0]
              ELSE IF a.body = 0 THEN [next |-> "whole", left |-> 0]
              ELSE [next |-> "length", left |-> a.body]
        BY <1>2, <2>2, <2>4, <4>1, <4>2 DEF Framing
      <4> QED
        BY <1>2, <2>4, <3>6, <4>3
    <3> QED
      BY <2>1, <2>4, <3>4, <3>5, <3>6
  <2> QED
    BY <2>3, <2>4, <2>1
<1> QED
  BY <1>1, <1>2

\* The head's blank line.
LEMMA BlankOwn ==
  ASSUME IInv, OwnInv, peer = "own", reading.phase = "head", buffer # << >>,
         Head(buffer).kind = "blank", EndHead("more")
  PROVE  AnswerInv'
<1> DEFINE framing == Framing(reading.head)
<1>1. PICK a \in Answers :
        /\ Answering(a) /\ Taken(a) \in Nat /\ Len(buffer) \in Nat
        /\ Len(wire) \in Nat /\ Len(buffer) > 0 /\ IsAt(Head(buffer), a, Taken(a) + 1)
  BY NextToken
<1> USE AnswerParts
<1>2. reading \in Readings /\ reading.body = << >> /\ reading.trailer = << >>
  BY DEF IInv, TypeInv, HeldInv
<1>3. /\ reading.head \in Seq(Tokens) /\ Len(reading.head) <= HeadLen(a)
      /\ \A i \in 1..Len(reading.head) : IsAt(reading.head[i], a, i)
      /\ Len(reading.head) \in Nat
  BY <1>1, <1>2 DEF Readings, Answering, PhaseInv
<1>4. Taken(a) = Len(reading.head)
  BY DEF Taken
<1>5. Len(reading.head) = HeadLen(a)
  <2>1. KindAt(a, Len(reading.head) + 1) = "blank"
    BY <1>1, <1>4 DEF IsAt, IsOf
  <2> QED
    BY <1>1, <1>3, <2>1 DEF KindAt, HeadLen
<1>6. reading.head # << >> /\ IsAt(reading.head[1], a, 1) /\ Len(reading.head) > 1
  BY <1>1, <1>3, <1>5
<1>7. /\ Bodiless(a.status) => framing.next = "whole"
      /\ ~Bodiless(a.status) /\ a.trailers => framing.next = "size"
      /\ ~Bodiless(a.status) /\ ~a.trailers =>
              \/ framing.next = "refused"
              \/ framing.next = "whole" /\ a.body = 0
              \/ framing.next = "length" /\ framing.left = a.body
  BY <1>1, <1>3, <1>6, FramingOf
<1> HIDE DEF framing
<1>8. CASE Fail
  BY <1>8, FailOwn
<1>9. CASE framing.next = "whole" /\ Return(reading, "more")
  <2>1. Bodiless(a.status) \/ (~a.trailers /\ a.body = 0)
    BY <1>1, <1>7, <1>9
  <2>2. MessageLen(a) = Taken(a) + 1
    BY <1>1, <1>4, <1>5, <2>1 DEF MessageLen, HeadLen
  <2>3. Len(wire) = 0
    BY <1>1, <2>2 DEF Answering, RestInv
  <2>4. wire = << >>
    BY <2>3 DEF IInv, TypeInv
  <2>5. Len(reading.body) = 0
    BY <1>2
  <2>6. Len(reading.body) = IF Bodiless(a.status) THEN 0 ELSE a.body
    BY <2>1, <2>5
  <2>7. (reading.trailer # << >>) = (a.trailers /\ ~Bodiless(a.status))
    BY <1>1, <1>2, <2>1
  <2> QED
    BY <1>1, <1>3, <1>6, <1>9, <2>4, <2>6, <2>7, ReturnOwn
<1>10. CASE /\ framing.next \notin {"refused", "whole"}
            /\ reading' = [reading EXCEPT !.phase = framing.next, !.left = framing.left]
            /\ buffer' = Tail(buffer)
            /\ UNCHANGED <<asked, keeps, result, peerVars>>
  <2>1. /\ ~Bodiless(a.status)
        /\ \/ framing.next = "size" /\ a.trailers
           \/ framing.next = "length" /\ framing.left = a.body /\ ~a.trailers
    BY <1>1, <1>7, <1>10
  <2>2. /\ reading'.phase = framing.next /\ reading'.left = framing.left
        /\ reading'.head = reading.head /\ reading'.body = << >> /\ reading'.trailer = << >>
    BY <1>2, <1>10 DEF Readings
  <2>3. Len(reading'.body) = 0 /\ asked' = asked
    BY <1>10, <2>2
  <2>4. Taken(a)' = Taken(a) + 1
    BY <1>4, <1>5, <2>1, <2>2, <2>3 DEF Taken, HeadLen
  <2>5. PhaseInv(a)'
    <3>1. \A i \in 1..Len(reading'.head) : IsOf(reading'.head[i], a, i, asked')
      BY <1>3, <2>2, <2>3 DEF IsAt
    <3> QED
      BY <1>1, <1>3, <1>6, <2>1, <2>2, <2>3, <3>1 DEF PhaseInv, IsAt
  <2>6. reading'.phase # "idle"
    BY <2>1, <2>2
  <2> QED
    BY <1>1, <1>10, <2>4, <2>5, <2>6, GoOnOwn
<1> QED
  BY <1>8, <1>9, <1>10 DEF EndHead, framing

\* A line of the head.
LEMMA HeadLineOwn ==
  ASSUME IInv, OwnInv, peer = "own", TakeHeadLine
  PROVE  AnswerInv'
<1> DEFINE line == Head(buffer)
<1>1. reading.phase = "head" /\ buffer # << >>
  BY DEF TakeHeadLine
<1>2. PICK a \in Answers :
        /\ Answering(a) /\ Taken(a) \in Nat /\ Len(buffer) \in Nat
        /\ Len(wire) \in Nat /\ Len(buffer) > 0 /\ IsAt(Head(buffer), a, Taken(a) + 1)
  BY <1>1, NextToken
<1> USE AnswerParts
<1>3. reading \in Readings /\ line \in Tokens
  BY <1>1, Taking DEF IInv, TypeInv
<1>4. CASE Fail
  BY <1>4, FailOwn
<1>5. CASE line.kind = "blank" /\ EndHead("more")
  BY <1>1, <1>5, BlankOwn
<1>6. CASE line.kind # "blank" /\ GoOn([reading EXCEPT !.head = Append(@, line)])
  <2> DEFINE lines == Append(reading.head, line)
             n == Len(reading.head)
  <2>1. /\ lines \in Seq(Tokens) /\ n \in Nat /\ Len(lines) = n + 1
        /\ \A i \in 1..n : lines[i] = reading.head[i]
        /\ lines[n + 1] = line
    BY <1>3, OneMore DEF Readings
  <2>2. reading' = [reading EXCEPT !.head = lines] /\ UNCHANGED <<asked, peerVars>>
        /\ buffer' = Tail(buffer)
    BY <1>6 DEF GoOn
  <2> HIDE DEF lines
  <2>3. reading'.phase = "head" /\ reading'.head = lines
    BY <1>1, <1>3, <2>2 DEF Readings
  <2>4. Taken(a) = n /\ Taken(a)' = n + 1
    BY <1>1, <2>1, <2>3 DEF Taken
  <2>5. IsAt(line, a, n + 1)
    BY <1>2, <2>4
  <2>6. n + 1 <= HeadLen(a)
    <3>1. KindAt(a, n + 1) # "blank" /\ n <= HeadLen(a)
      BY <1>2, <1>6, <2>5 DEF IsAt, IsOf, Answering, PhaseInv
    <3>2. n # HeadLen(a)
      BY <3>1 DEF KindAt, HeadLen
    <3> QED
      BY <2>1, <3>1, <3>2
  <2>7. \A i \in 1..n + 1 : IsOf(lines[i], a, i, asked)
    <3>1. SUFFICES ASSUME NEW i \in 1..n + 1
                   PROVE  IsOf(lines[i], a, i, asked)
      OBVIOUS
    <3>2. CASE i = n + 1
      BY <2>1, <2>5, <3>2 DEF IsAt
    <3>3. CASE i \in 1..n
      <4>1. IsAt(reading.head[i], a, i)
        BY <1>2, <3>3 DEF Answering, PhaseInv
      <4> QED
        BY <2>1, <3>3, <4>1 DEF IsAt
    <3> QED
      BY <2>1, <3>2, <3>3
  <2>8. PhaseInv(a)'
    BY <2>1, <2>2, <2>3, <2>6, <2>7 DEF PhaseInv, IsAt
  <2> QED
    BY <1>1, <1>2, <2>2, <2>3, <2>4, <2>8, GoOnOwn
<1> QED
  BY <1>4, <1>5, <1>6 DEF TakeHeadLine

\* A line of the trailer.
LEMMA TrailerLineOwn ==
  ASSUME IInv, OwnInv, peer = "own", TakeTrailerLine
  PROVE  AnswerInv'
<1> DEFINE line == Head(buffer)
<1>1. reading.phase = "trailer" /\ buffer # << >>
  BY DEF TakeTrailerLine
<1>2. PICK a \in Answers :
        /\ Answering(a) /\ Taken(a) \in Nat /\ Len(buffer) \in Nat
        /\ Len(wire) \in Nat /\ Len(buffer) > 0 /\ IsAt(Head(buffer), a, Taken(a) + 1)
  BY <1>1, NextToken
<1> USE AnswerParts
<1>3. reading \in Readings /\ line \in Tokens
  BY <1>1, Taking DEF IInv, TypeInv
<1>4. /\ ~Bodiless(a.status) /\ Len(reading.head) > 0 /\ a.trailers
      /\ Len(reading.body) = a.body /\ Len(reading.trailer) <= 1
      /\ Len(reading.trailer) \in Nat /\ Len(reading.head) \in Nat
  BY <1>1, <1>2, <1>3 DEF Answering, PhaseInv, Readings
<1>5. Taken(a) = MessageLen(a) - 2 + Len(reading.trailer) /\ MessageLen(a) >= 7
  BY <1>1, <1>2, <1>4 DEF Taken, MessageLen
<1>6. \/ Len(reading.trailer) = 0 /\ line.kind = "other"
      \/ Len(reading.trailer) = 1 /\ line.kind = "blank"
  <2>1. line.kind = KindAt(a, Taken(a) + 1)
    BY <1>2 DEF IsAt, IsOf
  <2>2. HeadLen(a) = 3 /\ MessageLen(a) \in Nat
    BY <1>2, <1>4 DEF HeadLen
  <2>3. CASE Len(reading.trailer) = 0
    <3>1. Taken(a) + 1 = MessageLen(a) - 1
      BY <1>5, <2>2, <2>3
    <3>2. KindAt(a, MessageLen(a) - 1) = "other"
      BY <1>4, <1>5, <2>2 DEF KindAt
    <3> QED
      BY <2>1, <2>3, <3>1, <3>2
  <2>4. CASE Len(reading.trailer) = 1
    <3>1. Taken(a) + 1 = MessageLen(a)
      BY <1>5, <2>2, <2>4
    <3>2. KindAt(a, MessageLen(a)) = "blank"
      BY <1>4, <1>5, <2>2 DEF KindAt
    <3> QED
      BY <2>1, <2>4, <3>1, <3>2
  <2>5. \A n \in Nat : n <= 1 => n = 0 \/ n = 1
    OBVIOUS
  <2> QED
    BY <1>4, <2>3, <2>4, <2>5, Zenon
<1>7. CASE Fail
  BY <1>7, FailOwn
<1>8. CASE line.kind = "blank" /\ Return(reading, "more")
  <2>1. Len(reading.trailer) = 1
    BY <1>6, <1>8
  <2>2. Len(wire) = 0
    BY <1>2, <1>5, <2>1 DEF Answering, RestInv
  <2>3. wire = << >>
    BY <2>2 DEF IInv, TypeInv
  <2>4. reading.trailer # << >>
    BY <2>1
  <2>5. IsAt(reading.head[1], a, 1)
    BY <1>2, <1>4 DEF Answering, PhaseInv
  <2>6. (reading.trailer # << >>) = (a.trailers /\ ~Bodiless(a.status))
    BY <1>4, <2>4
  <2> QED
    BY <1>2, <1>4, <1>8, <2>3, <2>5, <2>6, ReturnOwn
<1>9. CASE line.kind # "blank" /\ GoOn([reading EXCEPT !.trailer = Append(@, line)])
  <2> DEFINE lines == Append(reading.trailer, line)
  <2>1. lines \in Seq(Tokens) /\ Len(lines) = Len(reading.trailer) + 1
    BY <1>3, OneMore DEF Readings
  <2>2. reading' = [reading EXCEPT !.trailer = lines] /\ UNCHANGED <<asked, peerVars>>
        /\ buffer' = Tail(buffer)
    BY <1>9 DEF GoOn
  <2> HIDE DEF lines
  <2>3. /\ reading'.phase = "trailer" /\ reading'.trailer = lines
        /\ reading'.head = reading.head /\ reading'.body = reading.body
    BY <1>1, <1>3, <2>2 DEF Readings
  <2>4. Len(reading.trailer) = 0 /\ Len(lines) = 1
    BY <1>6, <1>9, <2>1
  <2>5. Taken(a)' = Taken(a) + 1
    <3>1. Taken(a)' = MessageLen(a) - 2 + 1
      BY <2>3, <2>4 DEF Taken
    <3> QED
      BY <1>2, <1>5, <2>4, <3>1
  <2>6. PhaseInv(a)'
    <3>1. /\ Len(reading.head) <= HeadLen(a)
          /\ \A i \in 1..Len(reading.head) : IsOf(reading.head[i], a, i, asked)
      BY <1>2 DEF Answering, PhaseInv, IsAt
    <3>2. /\ Len(reading'.head) <= HeadLen(a)
          /\ \A i \in 1..Len(reading'.head) : IsOf(reading'.head[i], a, i, asked')
      BY <2>2, <2>3, <3>1
    <3>3. Len(reading'.trailer) <= 1 /\ Len(reading'.body) = a.body /\ Len(reading'.head) > 0
      BY <1>4, <2>3, <2>4
    <3> QED
      BY <1>4, <2>3, <3>2, <3>3 DEF PhaseInv, IsAt
  <2> QED
    BY <1>1, <1>2, <2>2, <2>3, <2>5, <2>6, GoOnOwn
<1> QED
  BY <1>7, <1>8, <1>9 DEF TakeTrailerLine

\* A chunk's size.
LEMMA SizeOwn ==
  ASSUME IInv, OwnInv, peer = "own", TakeSize
  PROVE  AnswerInv'
<1> DEFINE line == Head(buffer)
<1>1. reading.phase = "size" /\ buffer # << >>
  BY DEF TakeSize
<1>2. PICK a \in Answers :
        /\ Answering(a) /\ Taken(a) \in Nat /\ Len(buffer) \in Nat
        /\ Len(wire) \in Nat /\ Len(buffer) > 0 /\ IsAt(Head(buffer), a, Taken(a) + 1)
  BY <1>1, NextToken
<1> USE AnswerParts
<1>3. reading \in Readings /\ line \in Tokens
  BY <1>1, Taking DEF IInv, TypeInv
<1>4. /\ ~Bodiless(a.status) /\ Len(reading.head) > 0 /\ a.trailers
      /\ Len(reading.body) \in {0, a.body} /\ reading.trailer = << >> /\ HeadLen(a) = 3
  BY <1>1, <1>2 DEF Answering, PhaseInv, IInv, HeldInv, HeadLen
<1>5. CASE Fail
  BY <1>5, FailOwn
<1>6. /\ line.n = IF reading.body = << >> THEN a.body ELSE 0
      /\ reading.body = << >> => Taken(a) = 4 /\ Len(reading.body) = 0
      /\ reading.body # << >> => Taken(a) = 6 + a.body /\ Len(reading.body) = a.body /\ a.body > 0
  <2>1. /\ reading.body = << >> => Taken(a) = 4 /\ Len(reading.body) = 0
        /\ reading.body # << >> => Taken(a) = 6 + a.body /\ Len(reading.body) = a.body /\ a.body > 0
    <3>1. Len(reading.body) \in Nat /\ (reading.body = << >> <=> Len(reading.body) = 0)
      BY <1>3 DEF Readings
    <3> QED
      BY <1>1, <1>2, <1>4, <3>1 DEF Taken
  <2>2. reading.body = << >> => KindAt(a, 5) = "size" /\ NumberAt(a, 5) = a.body
    BY <1>2, <1>4 DEF KindAt, NumberAt, MessageLen
  <2>3. reading.body # << >> => KindAt(a, 7 + a.body) = "size" /\ NumberAt(a, 7 + a.body) = 0
    <3> SUFFICES ASSUME reading.body # << >>
                 PROVE  KindAt(a, 7 + a.body) = "size" /\ NumberAt(a, 7 + a.body) = 0
      OBVIOUS
    <3>1. a.body \in Nat /\ a.body > 0 /\ a.trailers /\ HeadLen(a) = 3
      BY <1>4, <2>1
    <3>2. MessageLen(a) = a.body + 9
      BY <1>4, <3>1 DEF MessageLen
    <3>3. KindAt(a, 7 + a.body) = "size"
      BY ONLY <3>1, <3>2 DEF KindAt
    <3>4. NumberAt(a, 7 + a.body) = 0
      BY ONLY <3>1 DEF NumberAt
    <3> QED
      BY <3>3, <3>4
  <2>4. IsOf(line, a, Taken(a) + 1, asked)
    BY <1>2 DEF IsAt
  <2>5. CASE reading.body = << >>
    <3>1. Taken(a) + 1 = 5
      BY <2>1, <2>5
    <3> QED
      BY <2>1, <2>2, <2>4, <2>5, <3>1 DEF IsOf
  <2>6. CASE reading.body # << >>
    <3>1. Taken(a) + 1 = 7 + a.body
      BY <1>2, <2>1, <2>6
    <3> QED
      BY <2>1, <2>3, <2>4, <2>6, <3>1 DEF IsOf
  <2> QED
    BY <2>5, <2>6
<1>7. ASSUME NEW phase \in {"trailer", "chunk"}, NEW left \in Nat,
             reading' = [reading EXCEPT !.phase = phase, !.left = left],
             phase = "trailer" => line.n = 0,
             phase = "chunk" => line.n > 0 /\ left = line.n,
             buffer' = Tail(buffer), UNCHANGED <<asked, peerVars>>
      PROVE  AnswerInv'
  <2>1. /\ reading'.phase = phase /\ reading'.left = left /\ reading'.trailer = << >>
        /\ reading'.head = reading.head /\ reading'.body = reading.body
    BY <1>3, <1>4, <1>7 DEF Readings
  <2>2. Len(reading'.trailer) = 0
    BY <2>1
  <2>3. Taken(a)' = Taken(a) + 1
    <3>1. CASE phase = "chunk"
      <4>1. reading.body = << >>
        BY <1>6, <1>7, <3>1
      <4>2. Taken(a)' = 5 + Len(reading.body)
        BY <2>1, <3>1 DEF Taken
      <4> QED
        BY <1>6, <4>1, <4>2
    <3>2. CASE phase = "trailer"
      <4>1. Taken(a)' = MessageLen(a) - 2 + 0
        BY <2>1, <2>2, <3>2 DEF Taken
      <4>2. CASE reading.body = << >>
        <5>1. a.body = 0
          BY <1>6, <1>7, <3>2, <4>2
        <5> QED
          BY <1>4, <1>6, <4>1, <4>2, <5>1 DEF MessageLen
      <4>3. CASE reading.body # << >>
        BY <1>2, <1>4, <1>6, <4>1, <4>3 DEF MessageLen
      <4> QED
        BY <4>2, <4>3
    <3> QED
      BY <3>1, <3>2
  <2>4. phase = "chunk" => reading'.left + Len(reading'.body) = a.body
    BY <1>2, <1>6, <1>7, <2>1
  <2>5. phase = "trailer" => Len(reading'.body) = a.body
    BY <1>2, <1>6, <1>7, <2>1
  <2>6. PhaseInv(a)'
    BY <1>1, <1>2, <1>4, <1>7, <2>1, <2>2, <2>4, <2>5 DEF Answering, PhaseInv, IsAt
  <2>7. reading'.phase # "idle"
    BY <2>1
  <2> QED
    BY <1>1, <1>2, <1>7, <2>3, <2>6, <2>7, GoOnOwn
<1>8. CASE line.n = 0 /\ GoOn([reading EXCEPT !.phase = "trailer"])
  <2>1. /\ reading.left \in Nat
        /\ [reading EXCEPT !.phase = "trailer"]
             = [reading EXCEPT !.phase = "trailer", !.left = reading.left]
    BY <1>3 DEF Readings
  <2> QED
    BY <1>7, <1>8, <2>1 DEF GoOn
<1>9. CASE line.n > 0 /\ GoOn([reading EXCEPT !.phase = "chunk", !.left = line.n])
  <2>1. line.n \in Nat
    BY <1>2, <1>6
  <2> HIDE DEF line
  <2>2. /\ reading' = [reading EXCEPT !.phase = "chunk", !.left = line.n]
        /\ buffer' = Tail(buffer) /\ UNCHANGED <<asked, peerVars>>
    BY <1>9 DEF GoOn
  <2> QED
    BY <1>7, <1>9, <2>1, <2>2
<1> QED
  BY <1>5, <1>8, <1>9 DEF TakeSize

\* The head stays an answer's while it does not change.
LEMMA HeadStays ==
  ASSUME NEW a \in Answers, PhaseInv(a), reading'.head = reading.head, asked' = asked
  PROVE  /\ Len(reading'.head) <= HeadLen(a)
         /\ \A i \in 1..Len(reading'.head) : IsOf(reading'.head[i], a, i, asked')
BY DEF PhaseInv, IsAt

\* An octet of the body.
LEMMA OctetOwn ==
  ASSUME IInv, OwnInv, peer = "own", TakeOctet
  PROVE  AnswerInv'
<1> DEFINE octet == Head(buffer)
           fed == [reading EXCEPT !.body = Append(@, octet),
                                  !.left = IF @ = 0 THEN 0 ELSE @ - 1]
<1>1. buffer # << >> /\ reading.phase \in {"length", "chunk", "to_end"}
  BY DEF TakeOctet
<1>2. PICK a \in Answers :
        /\ Answering(a) /\ Taken(a) \in Nat /\ Len(buffer) \in Nat
        /\ Len(wire) \in Nat /\ Len(buffer) > 0 /\ IsAt(Head(buffer), a, Taken(a) + 1)
  BY <1>1, NextToken
<1>3. a.body \in Nat /\ MessageLen(a) \in Nat /\ asked \in Nat
  BY AnswerParts DEF IInv, TypeInv
<1>4. reading \in Readings /\ octet \in Tokens
  BY <1>1, Taking DEF IInv, TypeInv
<1>5. reading.phase # "to_end"
  <2>1. reading.phase = "to_end" => Taken(a) = MessageLen(a)
    BY DEF Taken
  <2> QED
    BY <1>2, <1>3, <2>1 DEF Answering, RestInv
<1> HIDE DEF octet
<1>6. /\ fed.phase = reading.phase /\ fed.head = reading.head /\ fed.trailer = reading.trailer
      /\ Len(fed.body) = Len(reading.body) + 1 /\ Len(reading.body) \in Nat
      /\ fed.left = IF reading.left = 0 THEN 0 ELSE reading.left - 1
      /\ reading.left \in Nat /\ fed \in Readings
  <2> DEFINE octets == Append(reading.body, octet)
             left == IF reading.left = 0 THEN 0 ELSE reading.left - 1
  <2>1. octets \in Seq(Tokens) /\ Len(octets) = Len(reading.body) + 1 /\ Len(reading.body) \in Nat
    BY <1>4, OneMore DEF Readings
  <2>2. left \in Nat /\ reading.left \in Nat
    BY <1>4 DEF Readings
  <2>3. fed = [reading EXCEPT !.body = octets, !.left = left]
    OBVIOUS
  <2> HIDE DEF octets, left, fed
  <2>4. fed \in Readings
    BY <1>4, <2>1, <2>2, <2>3 DEF Readings
  <2>5. /\ fed.phase = reading.phase /\ fed.head = reading.head /\ fed.trailer = reading.trailer
        /\ fed.body = octets /\ fed.left = left
    BY <1>4, <2>3 DEF Readings
  <2> QED
    BY <2>1, <2>2, <2>4, <2>5 DEF left
<1> HIDE DEF fed
<1>7. /\ ~Bodiless(a.status) /\ Len(reading.head) > 0 /\ Len(reading.head) \in Nat
      /\ reading.left + Len(reading.body) = a.body /\ reading.left > 0 /\ reading.trailer = << >>
      /\ reading.phase = "length" => ~a.trailers
      /\ reading.phase = "chunk" => a.trailers
  BY <1>1, <1>2, <1>4, <1>5 DEF Answering, PhaseInv, IInv, HeldInv, Readings
<1>8. fed.left = reading.left - 1 /\ fed.left + Len(fed.body) = a.body /\ fed.left \in Nat
  BY <1>3, <1>6, <1>7
<1>9. CASE Fail
  BY <1>9, FailOwn
<1>10. CASE reading.phase = "length" /\ fed.left = 0 /\ Return(fed, "more")
  <2>1. Taken(a) = 4 + Len(reading.body) /\ MessageLen(a) = 4 + a.body
    BY <1>7, <1>10 DEF Taken, MessageLen
  <2>2. Len(reading.body) + 1 = a.body
    BY <1>3, <1>6, <1>7, <1>8, <1>10
  <2>3. Len(wire) = 0
    BY <1>2, <1>3, <1>6, <2>1, <2>2 DEF Answering, RestInv
  <2>4. wire = << >>
    BY <2>3 DEF IInv, TypeInv
  <2>5. IsAt(fed.head[1], a, 1)
    BY <1>2, <1>6, <1>7 DEF Answering, PhaseInv
  <2>6. /\ Len(fed.head) \in Nat /\ Len(fed.head) > 0
        /\ Len(fed.body) = IF Bodiless(a.status) THEN 0 ELSE a.body
    BY <1>3, <1>6, <1>7, <2>2
  <2>7. (fed.trailer # << >>) = (a.trailers /\ ~Bodiless(a.status))
    BY <1>6, <1>7, <1>10
  <2> QED
    BY <1>2, <1>10, <2>4, <2>5, <2>6, <2>7, ReturnOwn
<1>11. ASSUME NEW phase \in {"length", "chunk", "crlf"},
              reading' = [fed EXCEPT !.phase = phase],
              phase \in {"length", "chunk"} => phase = reading.phase,
              phase = "crlf" => reading.phase = "chunk" /\ fed.left = 0,
              buffer' = Tail(buffer), UNCHANGED <<asked, peerVars>>
       PROVE  AnswerInv'
  <2>1. /\ reading'.phase = phase /\ reading'.left = fed.left /\ reading'.trailer = << >>
        /\ reading'.head = reading.head /\ reading'.body = fed.body
    BY <1>6, <1>7, <1>11 DEF Readings
  <2>2. Taken(a)' = Taken(a) + 1
    <3>1. CASE reading.phase = "length"
      <4>1. phase = "length"
        BY <1>11, <3>1
      <4>2. Taken(a) = 4 + Len(reading.body) /\ Taken(a)' = 4 + Len(fed.body)
        BY <2>1, <3>1, <4>1 DEF Taken
      <4> QED
        BY <1>6, <4>2
    <3>2. CASE reading.phase = "chunk"
      <4>1. phase \in {"chunk", "crlf"}
        BY <1>11, <3>2
      <4>2. Taken(a) = 5 + Len(reading.body) /\ Taken(a)' = 5 + Len(fed.body)
        BY <2>1, <3>2, <4>1 DEF Taken
      <4> QED
        BY <1>6, <4>2
    <3> QED
      BY <1>1, <1>5, <3>1, <3>2
  <2>3. PhaseInv(a)'
    <3>1. /\ Len(reading'.head) <= HeadLen(a)
          /\ \A i \in 1..Len(reading'.head) : IsOf(reading'.head[i], a, i, asked')
      BY <1>2, <1>11, <2>1, HeadStays DEF Answering
    <3>2. phase \in {"length", "chunk"} => reading'.left + Len(reading'.body) = a.body
      BY <1>8, <2>1
    <3>3. phase = "crlf" => Len(reading'.body) = a.body /\ a.body > 0
      BY <1>3, <1>6, <1>7, <1>8, <1>11, <2>1
    <3>4. (phase = "length" => ~a.trailers) /\ (phase \in {"chunk", "crlf"} => a.trailers)
      BY <1>7, <1>11
    <3> QED
      BY <1>7, <2>1, <3>1, <3>2, <3>3, <3>4 DEF PhaseInv, IsAt
  <2>4. reading'.phase # "idle"
    BY <2>1
  <2> QED
    BY <1>1, <1>2, <1>11, <2>2, <2>3, <2>4, GoOnOwn
<1>12. fed = [fed EXCEPT !.phase = reading.phase]
  BY <1>6 DEF Readings
<1>13. CASE reading.phase \in {"length", "chunk"} /\ GoOn(fed)
  BY <1>11, <1>12, <1>13 DEF GoOn
<1>14. CASE reading.phase = "chunk" /\ fed.left = 0 /\ GoOn([fed EXCEPT !.phase = "crlf"])
  BY <1>11, <1>14 DEF GoOn
<1> QED
  BY <1>5, <1>9, <1>10, <1>13, <1>14 DEF TakeOctet, fed, octet

\* A chunk's CRLF.
LEMMA CrlfOwn ==
  ASSUME IInv, OwnInv, peer = "own", TakeCrlf
  PROVE  AnswerInv'
<1>1. reading.phase = "crlf" /\ buffer # << >>
  BY DEF TakeCrlf
<1>2. PICK a \in Answers :
        /\ Answering(a) /\ Taken(a) \in Nat /\ Len(buffer) \in Nat
        /\ Len(wire) \in Nat /\ Len(buffer) > 0 /\ IsAt(Head(buffer), a, Taken(a) + 1)
  BY <1>1, NextToken
<1>3. CASE Fail
  BY <1>3, FailOwn
<1>4. CASE GoOn([reading EXCEPT !.phase = "size"])
  <2>1. reading \in Readings
    BY DEF IInv, TypeInv
  <2>2. /\ reading'.phase = "size" /\ reading'.body = reading.body
        /\ reading'.head = reading.head
        /\ buffer' = Tail(buffer) /\ UNCHANGED <<asked, peerVars>>
    BY <1>4, <2>1 DEF GoOn, Readings
  <2>3. /\ ~Bodiless(a.status) /\ Len(reading.head) > 0 /\ a.trailers
        /\ Len(reading.body) = a.body /\ a.body > 0 /\ a.body \in Nat
    BY <1>1, <1>2, AnswerParts DEF Answering, PhaseInv
  <2>4. reading.body # << >>
    BY <2>3
  <2>5. Taken(a) = 5 + a.body /\ Taken(a)' = 6 + a.body
    BY <1>1, <2>2, <2>3, <2>4 DEF Taken
  <2>6. Taken(a)' = Taken(a) + 1
    BY <2>3, <2>5
  <2>7. PhaseInv(a)'
    <3>1. /\ Len(reading'.head) <= HeadLen(a)
          /\ \A i \in 1..Len(reading'.head) : IsOf(reading'.head[i], a, i, asked')
      BY <1>2, <2>2, HeadStays DEF Answering
    <3> QED
      BY <2>2, <2>3, <3>1 DEF PhaseInv, IsAt
  <2> QED
    BY <1>1, <1>2, <2>2, <2>6, <2>7, GoOnOwn
<1> QED
  BY <1>3, <1>4 DEF TakeCrlf

\* A head the connection's end cut short.
LEMMA CutOwn ==
  ASSUME IInv, NEW a \in Answers, Answering(a), reading.phase = "head",
         buffer = << >>, wire = << >>, ended, EndHead("end")
  PROVE  AnswerInv'
<1> DEFINE framing == Framing(reading.head)
<1> USE AnswerParts
<1>1. reading \in Readings /\ reading.body = << >> /\ reading.trailer = << >>
  BY DEF IInv, TypeInv, HeldInv
<1>2. /\ reading.head \in Seq(Tokens) /\ Len(reading.head) <= HeadLen(a)
      /\ \A i \in 1..Len(reading.head) : IsAt(reading.head[i], a, i)
      /\ Len(reading.head) \in Nat
  BY <1>1 DEF Readings, Answering, PhaseInv
<1>3. /\ reading.head = << >> => framing.next = "refused"
      /\ reading.head # << >> /\ Bodiless(a.status) => framing.next = "whole"
      /\ Len(reading.head) = 1 /\ ~Bodiless(a.status) => framing.next = "to_end"
      /\ Len(reading.head) > 1 /\ ~Bodiless(a.status) /\ a.trailers => framing.next = "size"
      /\ Len(reading.head) > 1 /\ ~Bodiless(a.status) /\ ~a.trailers =>
           \/ framing.next = "refused"
           \/ framing.next = "whole" /\ a.body = 0
           \/ framing.next = "length" /\ framing.left = a.body
  BY <1>2, FramingOf
<1> HIDE DEF framing
<1>4. CASE Fail
  BY <1>4, FailOwn
<1>5. CASE framing.next # "refused"
  <2>1. reading.head # << >> /\ Len(reading.head) > 0
    BY <1>2, <1>3, <1>5
  <2>2. IsAt(reading.head[1], a, 1)
    BY <1>2, <2>1
  <2>3. Len(reading.head) = 1 \/ Len(reading.head) > 1
    <3>1. \A n \in Nat : n > 0 => n = 1 \/ n > 1
      OBVIOUS
    <3> QED
      BY <1>2, <2>1, <3>1, Zenon
  <2>4. CASE framing.next = "whole" /\ Return(reading, "end")
    <3>1. Bodiless(a.status) \/ a.body = 0
      BY <1>3, <2>3, <2>4
    <3>2. Len(reading.body) = IF Bodiless(a.status) THEN 0 ELSE a.body
      <4>1. Len(reading.body) = 0
        BY <1>1
      <4> QED
        BY <3>1, <4>1
    <3> QED
      BY <1>2, <2>1, <2>2, <2>4, <3>2, ReturnOwn
  <2>5. CASE /\ framing.next \notin {"refused", "whole"}
             /\ reading' = [reading EXCEPT !.phase = framing.next, !.left = framing.left]
             /\ buffer' = buffer
             /\ UNCHANGED <<asked, keeps, result, peerVars>>
    <3>1. /\ ~Bodiless(a.status)
          /\ \/ framing.next = "to_end" /\ Len(reading.head) = 1
             \/ framing.next = "size" /\ a.trailers
             \/ framing.next = "length" /\ framing.left = a.body /\ ~a.trailers
      BY <1>3, <2>1, <2>3, <2>5
    <3>2. /\ reading'.phase = framing.next /\ reading'.left = framing.left
          /\ reading'.head = reading.head /\ reading'.body = << >> /\ reading'.trailer = << >>
      BY <1>1, <2>5 DEF Readings
    <3>3. /\ UNCHANGED <<asked, inbox, wire, ended, written, peer>> /\ Len(<< >>) = 0
          /\ buffer' = << >>
      BY <2>5 DEF peerVars
    <3>4. Taken(a)' \in Nat /\ Taken(a)' <= MessageLen(a)
      <4>1. CASE framing.next = "to_end"
        <5>1. Taken(a)' = MessageLen(a)
          BY <3>2, <4>1 DEF Taken
        <5> QED
          BY <5>1
      <4>2. CASE framing.next \in {"size", "length"}
        <5>1. Taken(a)' = 4
          BY <3>2, <3>3, <4>2 DEF Taken
        <5> QED
          BY <3>1, <5>1 DEF MessageLen
      <4> QED
        BY <3>1, <4>1, <4>2
    <3>5. RestInv(a)'
      BY <3>3, <3>4 DEF RestInv
    <3>6. PhaseInv(a)'
      <4>1. /\ Len(reading'.head) <= HeadLen(a)
            /\ \A i \in 1..Len(reading'.head) : IsOf(reading'.head[i], a, i, asked')
        BY <3>2, <3>3, HeadStays DEF Answering
      <4>2. Len(reading'.body) = 0 /\ Len(reading'.trailer) = 0
        BY <3>2
      <4> QED
        BY <2>1, <3>1, <3>2, <4>1, <4>2 DEF PhaseInv, IsAt
    <3>7. Underway' /\ asked' > 0 /\ reading'.phase # "idle"
      BY <3>1, <3>2, <3>3, <3>5, <3>6 DEF Answering, Underway
    <3> QED
      BY <3>7 DEF AnswerInv, OwnInv, AnswerIsOwn, AnswerAsWritten
  <2>6. \/ framing.next = "whole" /\ Return(reading, "end")
        \/ /\ framing.next \notin {"refused", "whole"}
           /\ reading' = [reading EXCEPT !.phase = framing.next, !.left = framing.left]
           /\ buffer' = buffer
           /\ UNCHANGED <<asked, keeps, result, peerVars>>
    BY <1>5 DEF EndHead, framing
  <2> QED
    BY <2>4, <2>5, <2>6, Zenon
<1> QED
  BY <1>4, <1>5 DEF EndHead, framing

\* The connection's end.
LEMMA EndOwn ==
  ASSUME IInv, OwnInv, peer = "own", TakeEnd
  PROVE  AnswerInv'
<1>1. reading.phase # "idle" /\ buffer = << >> /\ wire = << >> /\ ended
  BY DEF TakeEnd
<1>2. CASE Fail
  BY <1>2, FailOwn
<1>3. CASE Waiting
  <2>1. reading.phase = "head" /\ Framing(reading.head).next = "refused"
    BY <1>3 DEF Waiting, Framing
  <2> QED
    BY <1>2, <2>1 DEF TakeEnd, EndHead, EndsHere
<1>4. CASE Underway
  <2>1. PICK a \in Answers : Answering(a)
    BY <1>1, <1>4 DEF OwnInv, Underway, Answering
  <2>2. CASE reading.phase = "head" /\ EndHead("end")
    BY <1>1, <2>1, <2>2, CutOwn
  <2>3. CASE EndsHere(reading.phase) /\ Return(reading, "end")
    <3>1. reading.phase \in {"trailer", "to_end"}
      BY <2>3 DEF EndsHere
    <3>2. /\ Len(reading.head) \in Nat /\ Len(reading.head) > 0 /\ ~Bodiless(a.status)
          /\ IsAt(reading.head[1], a, 1)
      <4>1. reading.head \in Seq(Tokens)
        BY DEF IInv, TypeInv, Readings
      <4>2. Len(reading.head) \in Nat /\ Len(reading.head) > 0 /\ ~Bodiless(a.status)
        BY <2>1, <3>1, <4>1 DEF Answering, PhaseInv
      <4> QED
        BY <2>1, <4>2 DEF Answering, PhaseInv
    <3>3. Len(reading.head) > 1 => Len(reading.body) = a.body
      BY <2>1, <3>1 DEF Answering, PhaseInv
    <3> QED
      BY <1>1, <2>1, <2>3, <3>2, <3>3, ReturnOwn
  <2> QED
    BY <1>2, <2>2, <2>3 DEF TakeEnd
<1> QED
  BY <1>1, <1>3, <1>4 DEF OwnInv

\* A read of some of what the peer wrote.
LEMMA FillOwn ==
  ASSUME IInv, OwnInv, peer = "own", Fill
  PROVE  AnswerInv'
<1>1. /\ reading.phase # "idle" /\ buffer = << >> /\ wire # << >> /\ wire \in Seq(Tokens)
      /\ UNCHANGED <<asked, reading, inbox, ended, written, peer>>
  BY DEF Fill, IInv, TypeInv
<1>2. PICK a \in Answers : Answering(a) /\ Taken(a) \in Nat /\ Len(wire) \in Nat
  BY <1>1, NextToken
<1>3. PICK n \in 1..Len(wire) : /\ buffer' = SubSeq(wire, 1, n)
                                /\ wire' = SubSeq(wire, n + 1, Len(wire))
  BY DEF Fill
<1>4. /\ Len(buffer') = n /\ \A i \in 1..n : buffer'[i] = wire[i]
      /\ Len(wire') = Len(wire) - n /\ \A i \in 1..Len(wire) - n : wire'[i] = wire[n + i]
  <2>1. n \in 0..Len(wire)
    BY <1>2
  <2> QED
    BY <1>1, <1>3, <2>1, Split
<1>5. /\ \A i \in 1..Len(wire) : IsOf(wire[i], a, Taken(a) + i, asked)
      /\ Taken(a) + Len(wire) <= MessageLen(a)
      /\ ~ended => Taken(a) + Len(wire) = MessageLen(a)
  <2>1. Len(buffer) = 0 /\ RestInv(a)
    BY <1>1, <1>2 DEF Answering
  <2>2. \A i \in 1..Len(wire) : Taken(a) + Len(buffer) + i = Taken(a) + i
    BY <1>2, <2>1
  <2>3. Taken(a) + Len(buffer) + Len(wire) = Taken(a) + Len(wire)
    BY <1>2, <2>1
  <2> QED
    BY <2>1, <2>2, <2>3 DEF RestInv, IsAt
<1>6. Taken(a)' = Taken(a)
  BY <1>1 DEF Taken
<1>7. RestInv(a)'
  <2>1. \A i \in 1..Len(buffer') : IsOf(buffer'[i], a, Taken(a)' + i, asked')
    BY <1>1, <1>2, <1>4, <1>5, <1>6
  <2>2. ASSUME NEW i \in 1..Len(wire')
        PROVE  IsOf(wire'[i], a, Taken(a)' + Len(buffer') + i, asked')
    <3>1. /\ n + i \in 1..Len(wire) /\ i \in 1..Len(wire) - n
          /\ Taken(a)' + Len(buffer') + i = Taken(a) + (n + i)
      BY <1>2, <1>4, <1>6
    <3> QED
      BY <1>1, <1>4, <1>5, <3>1
  <2>3. Taken(a)' + Len(buffer') + Len(wire') = Taken(a) + Len(wire)
    BY <1>2, <1>4, <1>6
  <2> QED
    BY <1>1, <1>5, <2>1, <2>2, <2>3 DEF RestInv, IsAt
<1>8. PhaseInv(a)'
  BY <1>1, <1>2 DEF Answering, PhaseInv, IsAt
<1>9. Underway' /\ asked' > 0 /\ reading'.phase # "idle"
  BY <1>1, <1>2, <1>7, <1>8 DEF Answering, Underway
<1> QED
  BY <1>9 DEF AnswerInv, OwnInv, AnswerIsOwn, AnswerAsWritten

\* An exchange begins.
LEMMA AskOwn ==
  ASSUME IInv, OwnInv, peer = "own", NEW kept, Ask(kept)
  PROVE  AnswerInv'
<1>1. Idle /\ asked \in Nat
  BY DEF OwnInv, Ask, IInv, TypeInv
<1>2. /\ asked' = asked + 1 /\ inbox' = Append(inbox, asked + 1)
      /\ reading'.phase = "head" /\ reading'.head = << >> /\ UNCHANGED <<buffer, wire>>
  BY DEF Ask, NotReading
<1>3. inbox' = <<asked'>> /\ wire' = << >> /\ buffer' = << >>
  BY <1>1, <1>2 DEF Idle
<1>4. asked' > 0
  BY <1>1, <1>2
<1> QED
  BY <1>2, <1>3, <1>4 DEF AnswerInv, OwnInv, Waiting, AnswerIsOwn, AnswerAsWritten

\* The peer answers.
LEMMA AnswerOwn ==
  ASSUME IInv, OwnInv, peer = "own", Answer
  PROVE  AnswerInv'
<1>1. inbox # << >> /\ inbox' = Tail(inbox) /\ UNCHANGED <<asked, reading, buffer, peer>>
  BY DEF Answer, clientVars
<1>2. Waiting /\ asked > 0 /\ reading.phase # "idle"
  BY <1>1 DEF OwnInv, Idle, Underway
<1>3. inbox \in Seq(Nat) /\ Head(inbox) = asked /\ inbox' = << >>
  BY <1>1, <1>2 DEF Waiting, IInv, TypeInv
<1>4. PICK a \in Answers : /\ wire' = wire \o WriteMessage(a)
                           /\ written' = [written EXCEPT ![Head(inbox)] = a]
  BY DEF Answer
<1>5. written'[asked'] = a
  <2>1. asked \in DOMAIN written
    <3>1. MaxRequests[peer] \in Nat
      BY Http1Assumption DEF IInv, TypeInv
    <3> QED
      BY <1>2, <3>1 DEF IInv, TypeInv
  <2> QED
    BY <1>1, <1>3, <1>4, <2>1
<1>6. /\ Len(wire') = MessageLen(a)
      /\ \A i \in 1..Len(wire') : IsOf(wire'[i], a, i, asked')
  <2> DEFINE m == WriteMessage(a)
  <2>1. /\ m \in Seq(Tokens) /\ Len(m) = MessageLen(a)
        /\ \A i \in 1..MessageLen(a) :
              /\ m[i].kind = KindAt(a, i) /\ m[i].of = Head(inbox)
              /\ m[i].kind \in {"status", "length", "size"} => m[i].n = NumberAt(a, i)
    BY <1>1, <1>3, MessageShape
  <2> HIDE DEF m
  <2>2. wire' = << >> \o m
    BY <1>2, <1>4 DEF Waiting, m
  <2>3. wire' = m
    BY <2>1, <2>2, ConcatEmptySeq, Zenon
  <2> QED
    BY <1>1, <1>3, <2>1, <2>3 DEF IsOf
<1>7. Taken(a)' = 0 /\ buffer' = << >> /\ Len(<< >>) = 0 /\ MessageLen(a) \in Nat
  <2>1. reading'.phase = "head" /\ Len(reading'.head) = 0
    BY <1>1, <1>2 DEF Waiting
  <2> QED
    BY <1>1, <1>2, <2>1, AnswerParts DEF Waiting, Taken
<1>8. RestInv(a)'
  <2>1. ASSUME NEW i \in 1..Len(wire')
        PROVE  IsOf(wire'[i], a, Taken(a)' + Len(buffer') + i, asked')
    <3>1. Taken(a)' + Len(buffer') + i = i
      BY <1>6, <1>7
    <3> QED
      BY <1>6, <3>1
  <2>2. Taken(a)' + Len(buffer') + Len(wire') = MessageLen(a)
    BY <1>6, <1>7
  <2>3. MessageLen(a) <= MessageLen(a)
    BY <1>7
  <2> QED
    BY <1>7, <2>1, <2>2, <2>3 DEF RestInv, IsAt
<1>9. PhaseInv(a)'
  <2>1. reading'.phase = "head" /\ Len(reading'.head) = 0
    BY <1>1, <1>2 DEF Waiting
  <2>2. Len(reading'.head) <= HeadLen(a)
    BY <2>1 DEF HeadLen
  <2> QED
    BY <2>1, <2>2 DEF PhaseInv
<1>10. Underway' /\ asked' > 0 /\ reading'.phase # "idle"
  BY <1>1, <1>2, <1>3, <1>5, <1>8, <1>9 DEF Underway
<1> QED
  BY <1>10 DEF AnswerInv, OwnInv, AnswerIsOwn, AnswerAsWritten

\* The peer is gone, perhaps with the answer cut short.
LEMMA PeerEndsOwn ==
  ASSUME IInv, AnswerInv, peer = "own", PeerEnds
  PROVE  AnswerInv'
<1>1. /\ ended' = TRUE /\ wire \in Seq(Tokens) /\ Len(wire) \in Nat /\ buffer \in Seq(Tokens)
      /\ UNCHANGED <<asked, reading, buffer, result, inbox, written, peer>>
  BY DEF PeerEnds, clientVars, IInv, TypeInv
<1>2. PICK n \in 0..Len(wire) : wire' = SubSeq(wire, 1, n)
  BY DEF PeerEnds
<1>3. wire' \in Seq(Tokens) /\ Len(wire') = n /\ \A i \in 1..n : wire'[i] = wire[i]
  BY <1>1, <1>2, Split
<1>4. wire = << >> => wire' = << >>
  <2>1. wire = << >> => Len(wire') = 0
    BY <1>1, <1>3
  <2> QED
    BY <1>3, <2>1
<1>5. AnswerIsOwn' /\ AnswerAsWritten'
  BY <1>1 DEF AnswerInv, AnswerIsOwn, AnswerAsWritten, Answered
<1>6. CASE reading.phase = "idle"
  BY <1>1, <1>4, <1>5, <1>6 DEF AnswerInv, OwnInv, Idle
<1>7. CASE reading.phase # "idle" /\ Waiting
  BY <1>1, <1>4, <1>5, <1>7 DEF AnswerInv, OwnInv, Waiting
<1>8. CASE reading.phase # "idle" /\ Underway
  <2>1. PICK a \in Answers : a = written[asked] /\ PhaseInv(a) /\ RestInv(a) /\ inbox = << >>
    BY <1>8 DEF Underway
  <2>2. Taken(a)' = Taken(a)
    BY <1>1 DEF Taken
  <2>3. Taken(a) \in Int
    <3>1. /\ Len(reading.head) \in Nat /\ Len(reading.body) \in Nat /\ Len(reading.trailer) \in Nat
      BY DEF IInv, TypeInv, Readings
    <3> QED
      BY <3>1, AnswerParts DEF Taken
  <2>4. RestInv(a)'
    <3>1. \A i \in 1..Len(buffer') : IsOf(buffer'[i], a, Taken(a)' + i, asked')
      BY <1>1, <2>1, <2>2 DEF RestInv, IsAt
    <3>2. \A i \in 1..Len(wire') : IsOf(wire'[i], a, Taken(a)' + Len(buffer') + i, asked')
      <4>1. \A i \in 1..Len(wire') : i \in 1..Len(wire)
        BY <1>1, <1>3
      <4> QED
        BY <1>1, <1>3, <2>1, <2>2, <4>1 DEF RestInv, IsAt
    <3>3. Taken(a)' + Len(buffer') + Len(wire') <= MessageLen(a)
      <4>1. Len(buffer) \in Nat /\ MessageLen(a) \in Nat
        BY <1>1, AnswerParts
      <4> QED
        BY <1>1, <1>3, <2>1, <2>2, <2>3, <4>1 DEF RestInv
    <3> QED
      BY <1>1, <3>1, <3>2, <3>3 DEF RestInv, IsAt
  <2>5. PhaseInv(a)'
    BY <1>1, <2>1 DEF PhaseInv, IsAt
  <2>6. Underway' /\ asked' > 0 /\ reading'.phase # "idle"
    BY <1>1, <1>8, <2>1, <2>4, <2>5 DEF Underway, AnswerInv, OwnInv
  <2> QED
    BY <1>5, <2>6 DEF AnswerInv, OwnInv
<1> QED
  BY <1>6, <1>7, <1>8 DEF AnswerInv, OwnInv

\* Who answers never changes.
LEMMA PeerStays ==
  ASSUME [Next]_vars
  PROVE  UNCHANGED peer
<1>1. Fail => UNCHANGED peer
  BY DEF Fail, Drop
<1>2. ASSUME NEW read, NEW rest, Return(read, rest)
      PROVE  UNCHANGED peer
  BY <1>2 DEF Return, Drop, peerVars
<1>3. ASSUME NEW read, GoOn(read)
      PROVE  UNCHANGED peer
  BY <1>3 DEF GoOn, peerVars
<1>4. ASSUME NEW rest, EndHead(rest)
      PROVE  UNCHANGED peer
  BY <1>1, <1>2, <1>4 DEF EndHead, peerVars
<1>5. CASE ClientRuns
  <2>1. CASE Fill
    BY <2>1 DEF Fill
  <2>2. CASE TakeHeadLine
    BY <1>1, <1>3, <1>4, <2>2, Zenon DEF TakeHeadLine
  <2>3. CASE TakeTrailerLine
    BY <1>1, <1>2, <1>3, <2>3, Zenon DEF TakeTrailerLine
  <2>4. CASE TakeSize
    BY <1>1, <1>3, <2>4, Zenon DEF TakeSize
  <2>5. CASE TakeOctet
    BY <1>1, <1>2, <1>3, <2>5, Zenon DEF TakeOctet
  <2>6. CASE TakeCrlf
    BY <1>1, <1>3, <2>6, Zenon DEF TakeCrlf
  <2>7. CASE TakeEnd
    BY <1>1, <1>2, <1>4, <2>7, Zenon DEF TakeEnd
  <2> QED
    BY <1>5, <2>1, <2>2, <2>3, <2>4, <2>5, <2>6, <2>7 DEF ClientRuns
<1>6. CASE PeerRuns
  BY <1>6 DEF PeerRuns, Answer, Interim, PeerEnds, WriteAnything
<1>7. CASE \E kept \in BOOLEAN : Ask(kept)
  BY <1>7 DEF Ask
<1>8. CASE UNCHANGED vars
  BY <1>8 DEF vars, peerVars
<1> QED
  BY <1>1, <1>5, <1>6, <1>7, <1>8 DEF Next, ReadFails

\* Every step keeps what is said of the answers, of a peer that sends no
\* interim one.
LEMMA NextAnswer ==
  ASSUME IInv, AnswerInv, "interim" \notin Peers, [Next]_vars
  PROVE  AnswerInv'
<1>1. peer \in {"own", "any"} /\ UNCHANGED peer
  BY PeerStays, Http1Assumption DEF IInv, TypeInv
<1>2. CASE peer = "any"
  BY <1>1, <1>2 DEF AnswerInv, OwnInv, AnswerIsOwn, AnswerAsWritten
<1>3. CASE peer = "own"
  <2>1. OwnInv
    BY DEF AnswerInv
  <2>2. CASE ClientRuns
    BY <1>3, <2>1, <2>2, FillOwn, HeadLineOwn, TrailerLineOwn, SizeOwn, OctetOwn, CrlfOwn, EndOwn, Zenon
       DEF ClientRuns
  <2>3. CASE ReadFails
    BY <2>3, FailOwn DEF ReadFails
  <2>4. CASE \E kept \in BOOLEAN : Ask(kept)
    BY <1>3, <2>1, <2>4, AskOwn
  <2>5. CASE PeerRuns
    <3>1. ~Interim /\ ~WriteAnything
      BY <1>3 DEF Interim, WriteAnything
    <3> QED
      BY <1>3, <2>1, <2>5, <3>1, AnswerOwn, PeerEndsOwn, Zenon DEF PeerRuns
  <2>6. CASE UNCHANGED vars
    <3>1. UNCHANGED <<asked, reading, buffer, result, inbox, wire, ended, written, peer>>
      BY <2>6 DEF vars, clientVars, peerVars
    <3>2. AnswerIsOwn' /\ AnswerAsWritten'
      BY <3>1 DEF AnswerInv, AnswerIsOwn, AnswerAsWritten, Answered
    <3>3. OwnInv'
      BY <3>1 DEF AnswerInv, OwnInv, Idle, Waiting, Underway, PhaseInv, RestInv, Taken, IsAt
    <3> QED
      BY <3>2, <3>3 DEF AnswerInv
  <2> QED
    BY <2>2, <2>3, <2>4, <2>5, <2>6 DEF Next
<1> QED
  BY <1>1, <1>2, <1>3

\* And so it holds throughout.
LEMMA AnswerInvariance ==
  ASSUME "interim" \notin Peers
  PROVE  Spec => []AnswerInv
<1>1. Init => AnswerInv
  BY DEF Init, AnswerInv, OwnInv, Idle, AnswerIsOwn, AnswerAsWritten, Answered, NotReading, NoResult
<1>2. IInv /\ AnswerInv /\ [Next]_vars => AnswerInv'
  BY NextAnswer
<1> QED
  BY <1>1, <1>2, Invariance, PTL DEF Spec

\* The answer an exchange returns is the one to the request it wrote, where the
\* peer sends no interim answer: what an earlier exchange left behind, timed
\* out, cut short or kept, is never read (http.rs exchange_kept).
THEOREM OwnAnswer ==
  ASSUME "interim" \notin Peers
  PROVE  Spec => []AnswerIsOwn
<1>1. AnswerInv => AnswerIsOwn
  BY DEF AnswerInv
<1> QED
  BY <1>1, AnswerInvariance, PTL

\* And it is the answer the peer wrote: its status, all of a framed body and
\* its trailer, however the octets came (http.rs read_response, write_message).
THEOREM TwoCannotDrift ==
  ASSUME "interim" \notin Peers
  PROVE  Spec => []AnswerAsWritten
<1>1. AnswerInv => AnswerAsWritten
  BY DEF AnswerInv
<1> QED
  BY <1>1, AnswerInvariance, PTL
================================================================================
