------------------------------- MODULE Framing -------------------------------
(***************************************************************************)
(* A connection read: what opens it told from an HTTP/1.1 request and read *)
(* again (http2/preface.rs), then frames taken off it one by one (frame.rs *)
(* and http2/frame.rs read, read.rs header), through a Watched connection  *)
(* that tries a read again after a timeout, unless its side ends or the    *)
(* peer fell silent (watched.rs).  The peer writes with frame.rs, or sends *)
(* any octets at all, and may close or break the connection anywhere.      *)
(*                                                                         *)
(* An octet is a digit of base Base, and a frame's header the big-endian   *)
(* length in HeaderLen of them; the preface is a short text of octets that *)
(* a frame may also hold.  One call of the socket's read returns any       *)
(* number of the octets that came, at least one.  Interrupted is tried     *)
(* again at once and changes nothing.                                      *)
(***************************************************************************)
EXTENDS Integers, Sequences, SequencesExt

CONSTANTS
  Base,        \* octets are 0..Base - 1
  HeaderLen,   \* octets of a frame's header
  Preface,     \* what an HTTP/2 client opens with
  MaxBody,     \* MAX_BODY, or the max_size of an HTTP/2 frame
  Ceiling,     \* what read::to_end may hold
  MaxWire,     \* how many octets the peer sends
  Silence      \* how many timeouts the peer may say nothing, where it must beat

\* How many lengths a header can say: Base to the power of HeaderLen.
Capacity == LET power[k \in 0..HeaderLen] == IF k = 0 THEN 1 ELSE power[k - 1] * Base
            IN  power[HeaderLen]

ASSUME BaseAssumption == Base \in Nat \ {0, 1} /\ HeaderLen \in Nat \ {0}
ASSUME PrefaceAssumption == Preface \in Seq(0..Base - 1) /\ Preface # <<>>
ASSUME BoundsAssumption ==
  /\ MaxBody \in Nat /\ MaxBody < Capacity
  /\ {Ceiling, MaxWire, Silence} \subseteq Nat
  /\ Len(Preface) <= MaxWire

VARIABLES
  peer,     \* "frames": writes with frame.rs; "any": sends any octets
  beats,    \* Watched.silence is given: Silence; else it is None, as new has it
  out,      \* what the peer wrote and the network still holds
  wire,     \* every octet that came
  fin,      \* "open", "closed" or "reset": how the connection stands
  written,  \* the frames the peer wrote
  taken,    \* how many octets the socket's read returned so far
  first,    \* what sniff read, then Replayed.first from Replayed.at on
  stage,    \* what is being read
  buf,      \* what of it was read
  need,     \* how long it is
  frames,   \* the frames read
  result,   \* how reading ended
  ending,   \* Watched.ending: the side ends
  quiet,    \* timeouts since Watched.heard
  idle      \* timeouts since an octet last came, for SilenceKept

sending == <<peer, beats, out, wire, fin, written>>
vars    == <<sending, taken, first, stage, buf, need, frames, result, ending, quiet, idle>>

Octets == 0..Base - 1

Init ==
  /\ peer \in {"frames", "any"} /\ beats \in BOOLEAN
  /\ out = IF peer = "frames" THEN Preface ELSE <<>>
  /\ wire = <<>> /\ fin = "open" /\ written = <<>>
  /\ taken = 0 /\ first = <<>>
  /\ stage = "sniff" /\ buf = <<>> /\ need = Len(Preface)
  /\ frames = <<>> /\ result = "none"
  /\ ending = FALSE /\ quiet = 0 /\ idle = 0

-----------------------------------------------------------------------------
(* The peer.                                                               *)

\* The octets taken least significant first.
Length_Little(octets) == FoldRight(LAMBDA octet, n : n * Base + octet, octets, 0)

\* A length as HeaderLen octets, most significant first (to_be_bytes), and
\* back (from_be_bytes).
LengthOctets(n) ==
  LET over[k \in 0..HeaderLen] == IF k = 0 THEN n ELSE over[k - 1] \div Base
  IN  [i \in 1..HeaderLen |-> over[HeaderLen - i] % Base]
Length(octets) ==
  LET upTo[i \in 0..Len(octets)] == IF i = 0 THEN 0 ELSE upTo[i - 1] * Base + octets[i]
  IN  upTo[Len(octets)]

\* append: the length, then the bytes.
Framed(bytes) == LengthOctets(Len(bytes)) \o bytes

\* The connection is open at both ends.
Live == fin = "open" /\ stage # "done"

Sent == Len(wire) + Len(out)

\* write: one frame in one write_all; one over MAX_BODY is refused by within.
Write(bytes) ==
  /\ peer = "frames" /\ Live
  /\ Len(bytes) <= MaxBody /\ Sent + HeaderLen + Len(bytes) <= MaxWire
  /\ out' = out \o Framed(bytes)
  /\ written' = Append(written, bytes)
  /\ UNCHANGED <<peer, beats, wire, fin, taken, first, stage, buf, need, frames, result, ending, quiet, idle>>

\* The network hands over the next octet.
Arrive ==
  /\ Live
  /\ \/ /\ peer = "frames" /\ out # <<>>
        /\ wire' = Append(wire, Head(out)) /\ out' = Tail(out)
     \/ /\ peer = "any" /\ Len(wire) < MaxWire
        /\ \E octet \in Octets : wire' = Append(wire, octet)
        /\ UNCHANGED out
  /\ idle' = 0
  /\ UNCHANGED <<peer, beats, fin, written, taken, first, stage, buf, need, frames, result, ending, quiet>>

\* The peer closes with all delivered, or it or the connection is gone with
\* the rest undelivered, which may look like either end.
Close ==
  /\ Live
  /\ fin' \in {"closed", "reset"}
  /\ UNCHANGED <<peer, beats, out, wire, written, taken, first, stage, buf, need, frames, result, ending, quiet, idle>>

\* The reading side is told to end.
Ending ==
  /\ Live /\ ~ending /\ ending' = TRUE
  /\ UNCHANGED <<sending, taken, first, stage, buf, need, frames, result, quiet, idle>>

-----------------------------------------------------------------------------
(* What is done with what was read.  stage says what is being read: the    *)
(* first octets ("sniff"), the preface, a frame's header or body, or, of a *)
(* connection that does not open with the preface, everything ("rest").    *)

Reading(what, length) == stage' = what /\ need' = length /\ buf' = <<>> /\ UNCHANGED result
Finish(how) == stage' = "done" /\ need' = 0 /\ buf' = <<>> /\ result' = how

\* More is to be read of the same.
More(read) == buf' = read /\ UNCHANGED <<stage, need, frames, result>>

\* sniff is over: Server::handshake reads the preface again, or to_end the
\* whole, both from the first octet.
Sniffed(read) ==
  /\ IF read = Preface THEN Reading("preface", Len(Preface)) ELSE Reading("rest", Ceiling + 1)
  /\ UNCHANGED frames

\* A sniff that stops at the first read.
Sniffing_Once(read) == FALSE

\* sniff goes on while what was read may still be the preface.
Sniffing(read) == Len(read) < Len(Preface) /\ IsPrefix(read, Preface)

\* A length one over MAX_BODY let through.
Header_OneMore(length) ==
  \/ length > MaxBody + 1      /\ Finish("over") /\ UNCHANGED frames
  \/ length = 0                /\ Reading("header", HeaderLen) /\ frames' = Append(frames, <<>>)
  \/ length \in 1..MaxBody + 1 /\ Reading("body", length) /\ UNCHANGED frames

\* A header's length must be within MAX_BODY; an empty body is not read for.
Header(length) ==
  \/ length > MaxBody      /\ Finish("over") /\ UNCHANGED frames
  \/ length = 0            /\ Reading("header", HeaderLen) /\ frames' = Append(frames, <<>>)
  \/ length \in 1..MaxBody /\ Reading("body", length) /\ UNCHANGED frames

\* What was asked for is whole.
Whole(read) ==
  \/ /\ stage = "preface"
     /\ IF read = Preface THEN Reading("header", HeaderLen) ELSE Finish("not_preface")
     /\ UNCHANGED frames
  \/ stage = "header" /\ Header(Length(read))
  \/ stage = "body" /\ Reading("header", HeaderLen) /\ frames' = Append(frames, read)
  \/ stage = "rest" /\ Finish("over") /\ UNCHANGED frames

Got(read) ==
  \/ stage = "sniff" /\ Sniffing(read)   /\ More(read)
  \/ stage = "sniff" /\ ~Sniffing(read)  /\ Sniffed(read)
  \/ stage # "sniff" /\ Len(read) < need /\ More(read)
  \/ stage # "sniff" /\ Len(read) = need /\ Whole(read)

\* A header cut short taken for a close.
Ended_HeaderCut ==
  \/ stage = "sniff" /\ buf # <<>> /\ Sniffed(buf)
  \/ stage = "sniff" /\ buf = <<>> /\ Finish("nothing") /\ UNCHANGED frames
  \/ stage = "header" /\ Finish("clean") /\ UNCHANGED frames
  \/ stage = "rest" /\ Finish("whole") /\ frames' = <<buf>>
  \/ stage \in {"preface", "body"} /\ Finish("cut") /\ UNCHANGED frames

\* The connection ended: cleanly before a frame or after the rest, an error
\* everywhere else; sniff makes do with what it has, but not with nothing.
Ended ==
  \/ stage = "sniff" /\ buf # <<>> /\ Sniffed(buf)
  \/ stage = "sniff" /\ buf = <<>> /\ Finish("nothing") /\ UNCHANGED frames
  \/ stage = "header" /\ buf = <<>> /\ Finish("clean") /\ UNCHANGED frames
  \/ stage = "rest" /\ Finish("whole") /\ frames' = <<buf>>
  \/ /\ (stage = "header" /\ buf # <<>>) \/ stage \in {"preface", "body"}
     /\ Finish("cut") /\ UNCHANGED frames

-----------------------------------------------------------------------------
(* Replayed::read gives back what sniff read first, and Watched::read is   *)
(* the socket's, tried again.                                              *)

LeastOf(m, n) == IF m <= n THEN m ELSE n
Wanted == need - Len(buf)
Replaying == stage \notin {"sniff", "done"} /\ first # <<>>
OnSocket == stage # "done" /\ ~Replaying

\* What sniff read, once it is over, is what Replayed begins with.
PutBack(read) == first' = IF stage = "sniff" /\ stage' # "sniff" THEN read ELSE first

Replay ==
  /\ Replaying
  /\ LET count == LeastOf(Wanted, Len(first))
     IN  Got(buf \o SubSeq(first, 1, count)) /\ first' = SubSeq(first, count + 1, Len(first))
  /\ UNCHANGED <<sending, taken, ending, quiet, idle>>

\* A read that forgets it heard the peer.
Read_NotHeard ==
  /\ OnSocket /\ taken < Len(wire)
  /\ \E count \in 1..LeastOf(Wanted, Len(wire) - taken) :
       LET read == buf \o SubSeq(wire, taken + 1, taken + count)
       IN  Got(read) /\ PutBack(read) /\ taken' = taken + count
  /\ UNCHANGED <<sending, ending, quiet, idle>>

\* The socket's read returns some of what came: the peer was heard.
Read ==
  /\ OnSocket /\ taken < Len(wire)
  /\ \E count \in 1..LeastOf(Wanted, Len(wire) - taken) :
       LET read == buf \o SubSeq(wire, taken + 1, taken + count)
       IN  Got(read) /\ PutBack(read) /\ taken' = taken + count
  /\ quiet' = 0
  /\ UNCHANGED <<sending, ending, idle>>

\* It returns the end of the connection, or its failure.
ReadEnd ==
  /\ OnSocket /\ taken = Len(wire) /\ fin # "open"
  /\ \/ fin = "closed" /\ Ended /\ PutBack(buf)
     \/ fin = "reset" /\ Finish("broken") /\ UNCHANGED <<frames, first>>
  /\ quiet' = 0
  /\ UNCHANGED <<sending, taken, ending, idle>>

\* The peer was to beat and said nothing for longer than its silence.
FellSilent == beats /\ quiet + 1 > Silence

\* A Watched that looks at the silence, not at whether its side ends.
Waited_NotEnding ==
  \/ FellSilent /\ Finish("silent")
  \/ ~FellSilent /\ UNCHANGED <<stage, buf, need, result>>

\* A read tried again from the start of what it was reading.
Waited_StartsOver ==
  \/ ending /\ Finish("aborted")
  \/ ~ending /\ FellSilent /\ Finish("silent")
  \/ ~ending /\ ~FellSilent /\ buf' = <<>> /\ UNCHANGED <<stage, need, result>>

\* It waited its timeout with nothing come.
Waited ==
  \/ ending /\ Finish("aborted")
  \/ ~ending /\ FellSilent /\ Finish("silent")
  \/ ~ending /\ ~FellSilent /\ UNCHANGED <<stage, buf, need, result>>

\* Counted up to one past the silence allowed, which says as much.
ReadTimesOut ==
  /\ OnSocket /\ taken = Len(wire) /\ fin = "open"
  /\ Waited
  /\ quiet' = LeastOf(quiet + 1, Silence + 1)
  /\ idle' = LeastOf(idle + 1, Silence + 1)
  /\ UNCHANGED <<sending, taken, first, frames, ending>>

-----------------------------------------------------------------------------
Over == stage = "done" /\ UNCHANGED vars

Reads == Replay \/ Read \/ ReadEnd \/ ReadTimesOut

Next ==
  \/ \E bytes \in BoundedSeq(Octets, MaxBody + 1) : Write(bytes)
  \/ Arrive \/ Close \/ Ending \/ Reads \/ Over

\* The reading thread runs; nothing is asked of the peer or the network.
Spec == Init /\ [][Next]_vars /\ WF_vars(Reads)

-----------------------------------------------------------------------------
\* The state's types: what is read never outgrows what was asked for.
TypeOK ==
  /\ stage \in {"sniff", "preface", "header", "body", "rest", "done"}
  /\ taken \in 0..Len(wire) /\ Len(wire) <= MaxWire
  /\ need \in 0..MaxBody + Ceiling + HeaderLen + Len(Preface)
  /\ stage # "done" => Len(buf) < need
  /\ quiet \in 0..Silence + 1
  /\ \A i \in DOMAIN frames : stage # "done" => Len(frames[i]) <= MaxBody
  /\ (stage = "done") <=> (result # "none")

\* The octets of frames one after the other.
FramedAll(fs) ==
  LET upTo[n \in 0..Len(fs)] == IF n = 0 THEN <<>> ELSE upTo[n - 1] \o Framed(fs[n])
  IN  upTo[Len(fs)]

\* What was read of an HTTP/2 connection, put back together.
ReadBack == Preface \o FramedAll(frames) \o
            IF stage = "body" THEN LengthOctets(need) \o buf ELSE buf

\* Nothing read is lost or read twice, by sniff and its replay, a read that
\* returned little, one that timed out and was tried again, or a body that
\* came in pieces: what was made of the octets is the octets, in order.
NothingLost ==
  CASE stage = "sniff"                 -> buf = SubSeq(wire, 1, taken)
    [] stage \in {"preface", "rest"}   -> buf \o first = SubSeq(wire, 1, taken)
    [] stage \in {"header", "body"}    -> ReadBack \o first = SubSeq(wire, 1, taken)
    [] stage = "done"                  -> TRUE

\* A connection is taken for HTTP/2 exactly where it opens with the preface.
OpenedAsSent ==
  /\ stage \in {"header", "body"} \/ result = "clean" => IsPrefix(Preface, wire)
  /\ stage = "rest" \/ result = "whole" => ~IsPrefix(Preface, wire)
  /\ result # "not_preface"

\* None, the clean end, means every octet that came was of a frame that came
\* whole: a connection cut inside a header or a body is an error (frame.rs:9).
CleanEndIsWhole ==
  /\ result = "clean" => fin = "closed" /\ Preface \o FramedAll(frames) = wire
  /\ result = "whole" => fin = "closed" /\ frames = <<wire>>
  /\ result = "cut" => Preface \o FramedAll(frames) # wire

\* The frames read are the frames written, in order; all of them where the
\* end was clean and nothing was left undelivered.
FramesAsWritten ==
  peer = "frames" =>
    /\ stage # "done" \/ result = "clean" => IsPrefix(frames, written)
    /\ result = "clean" /\ out = <<>> => frames = written
    /\ result = "over" => ~IsPrefix(Preface, wire)

\* A peer is taken for silent only where it must beat and after it said
\* nothing for longer than the silence allows, and no read of a peer that must
\* waits longer than that.
SilenceKept ==
  /\ result = "silent" => beats /\ idle > Silence
  /\ result = "none" /\ beats => idle <= Silence

\* A stop reaches a connection whose read waits, a peer that need not beat and
\* will never speak again included: once its side is ending the first timeout
\* ends the reading (watched.rs:7 "within one timeout"), and so it ends.
StopReaches ==
  /\ ending ~> result # "none"
  /\ [][ending /\ ReadTimesOut => result' # "none"]_vars
=============================================================================
