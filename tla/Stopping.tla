------------------------------ MODULE Stopping ------------------------------
(***************************************************************************)
(* A thread waiting in a listener's accept, and its stop (accepting.rs):   *)
(* the stop knocks with a connection of its own until the thread has       *)
(* ended, and joins it.  Knocks and clients connect with connect.rs: every *)
(* address in turn, inside one deadline.                                   *)
(*                                                                         *)
(* The kernel is external.  A connection to the listener joins its queue,  *)
(* and may be given up there before it is accepted; a queue that is full   *)
(* does not answer, a listener that is gone refuses.  Time is a count of   *)
(* ticks that pass only while an attempt or a knock is waited for.         *)
(***************************************************************************)
EXTENDS Integers, Sequences, SequencesExt

CONSTANTS
  Clients,     \* callers of connect beside the stop's knock
  MaxTargets,  \* how many addresses a client's name resolves to
  Timeout,     \* the longest timeout a connect is given
  Patience,    \* what a knock that connected is given to be heard
  Backlog,     \* how many connections the listener's queue holds
  MaxLost      \* how many connections are given up in the queue

ASSUME BoundsAssumption ==
  /\ {MaxTargets, MaxLost} \subseteq Nat
  /\ {Timeout, Patience, Backlog} \subseteq Nat \ {0}

Stop    == "stop"
Callers == Clients \cup {Stop}
Forever == -1

\* Where an address leads: to the listener, where something refuses, where
\* nothing answers, or to no address in particular, which no connection
\* reaches on every system.
Addresses == {"listener", "refuses", "silent", "unspecified"}

VARIABLES
  bound,     \* what the listener was bound to
  stopping,  \* the flag the accepting thread looks at after each accept
  thread,    \* "accepting", "serving" or "ended"
  queue,     \* how many connections wait to be accepted
  lost,      \* how many were given up
  targets,   \* [Callers -> the addresses its target resolves to]
  within,    \* [Callers -> its timeout, or Forever]
  at,        \* [Callers -> which address it tries]
  left,      \* [Callers -> what is left of the attempt's time]
  elapsed,   \* [Callers -> how long the connect has taken]
  last,      \* [Callers -> the last failure, or "none"]
  call,      \* [Callers -> "idle", "next", "attempt", or the outcome]
  stop,      \* "idle", "asking", "knocking", "hearing" or "joined"
  hearing    \* what is left of the knock's time to be heard

listener == <<bound, stopping, thread, queue, lost>>
connects == <<targets, within, at, left, elapsed, last, call>>
vars     == <<listener, connects, stop, hearing>>

\* wakeable: loopback, which reaches a listener on every address.
Wakeable(address) == IF address = "unspecified" THEN "listener" ELSE address

Init ==
  /\ bound \in {"listener", "unspecified"}
  /\ stopping = FALSE /\ thread = "accepting" /\ queue = 0 /\ lost = 0
  /\ targets \in [Callers -> BoundedSeq(Addresses \ {"unspecified"}, MaxTargets)]
  /\ targets[Stop] = << >>
  /\ within \in [Callers -> 0..Timeout \cup {Forever}] /\ within[Stop] = Timeout
  /\ at = [c \in Callers |-> 1] /\ left = [c \in Callers |-> 0]
  /\ elapsed = [c \in Callers |-> 0] /\ last = [c \in Callers |-> "none"]
  /\ call = [c \in Callers |-> "idle"]
  /\ stop = "idle" /\ hearing = 0

-----------------------------------------------------------------------------
(* connect.                                                                *)

Outcomes == {"connected", "unset", "refused", "timedout", "nowhere"}

Begin(c, addresses) ==
  /\ targets' = [targets EXCEPT ![c] = addresses]
  /\ call' = [call EXCEPT ![c] = "next"]
  /\ at' = [at EXCEPT ![c] = 1] /\ left' = [left EXCEPT ![c] = 0]
  /\ elapsed' = [elapsed EXCEPT ![c] = 0] /\ last' = [last EXCEPT ![c] = "none"]
  /\ UNCHANGED within

\* Each address with the whole timeout.
Left_Whole(c) == within[c]

\* What is left of the one deadline.
Left(c) == IF within[c] = Forever THEN Forever ELSE within[c] - elapsed[c]

\* No address is left, or no time: the last failure, TimedOut where there
\* was none, or that the name resolves to nothing.
Failure(c) ==
  CASE targets[c] = << >>                        -> "nowhere"
    [] targets[c] # << >> /\ last[c] # "none"    -> last[c]
    [] targets[c] # << >> /\ last[c] = "none"    -> "timedout"

\* The loop's head: the next address, or the end.
TryNext(c) ==
  /\ call[c] = "next"
  /\ IF at[c] <= Len(targets[c]) /\ Left(c) # 0
     THEN call' = [call EXCEPT ![c] = "attempt"] /\ left' = [left EXCEPT ![c] = Left(c)]
     ELSE call' = [call EXCEPT ![c] = Failure(c)] /\ UNCHANGED left
  /\ UNCHANGED <<listener, targets, within, at, elapsed, last, stop, hearing>>

Target(c) == targets[c][at[c]]
Answers(c) == Target(c) = "listener" /\ thread # "ended" /\ queue < Backlog
Refuses(c) == Target(c) = "refuses" \/ (Target(c) = "listener" /\ thread = "ended")

\* The attempt is accepted, and the timeouts set, or not.
Connected(c) ==
  /\ call[c] = "attempt" /\ Answers(c)
  /\ queue' = queue + 1
  /\ call' \in {[call EXCEPT ![c] = how] : how \in {"connected", "unset"}}
  /\ UNCHANGED <<bound, stopping, thread, lost, targets, within, at, left, elapsed, last, stop, hearing>>

\* A failed attempt ends the connect.
Failed_AtOnce(c, how) ==
  /\ last' = [last EXCEPT ![c] = how]
  /\ call' = [call EXCEPT ![c] = how]
  /\ UNCHANGED at

\* A failed attempt is kept, and the next address tried.
Failed(c, how) ==
  /\ last' = [last EXCEPT ![c] = how]
  /\ at' = [at EXCEPT ![c] = @ + 1]
  /\ call' = [call EXCEPT ![c] = "next"]

\* It is refused, or its time is over, the caller's or the system's own.
AttemptFails(c) ==
  /\ call[c] = "attempt"
  /\ \/ Refuses(c) /\ Failed(c, "refused")
     \/ left[c] = 0 /\ Failed(c, "timedout")
     \/ left[c] = Forever /\ ~Answers(c) /\ ~Refuses(c) /\ Failed(c, "timedout")
  /\ UNCHANGED <<listener, targets, within, left, elapsed, stop, hearing>>

\* An attempt takes its time.
Tick(c) ==
  /\ call[c] = "attempt" /\ left[c] > 0
  /\ left' = [left EXCEPT ![c] = @ - 1]
  /\ elapsed' = [elapsed EXCEPT ![c] = @ + 1]
  /\ UNCHANGED <<listener, targets, within, at, last, call, stop, hearing>>

ClientConnects(c) ==
  /\ call[c] = "idle"
  /\ Begin(c, targets[c])
  /\ UNCHANGED <<listener, stop, hearing>>

ConnectStep(c) == TryNext(c) \/ Connected(c) \/ AttemptFails(c) \/ Tick(c)

-----------------------------------------------------------------------------
(* The accepting thread: what is accepted is looked at only where the side *)
(* is not stopping.  The listener is the thread's and ends with it.        *)

Accept ==
  /\ thread = "accepting" /\ queue > 0
  /\ queue' = queue - 1
  /\ thread' = IF stopping THEN "ended" ELSE "serving"
  /\ UNCHANGED <<bound, stopping, lost, connects, stop, hearing>>

Served ==
  /\ thread = "serving" /\ thread' = "accepting"
  /\ UNCHANGED <<bound, stopping, queue, lost, connects, stop, hearing>>

\* A connection is given up before it was accepted.
GivenUp ==
  /\ queue > 0 /\ lost < MaxLost
  /\ queue' = queue - 1 /\ lost' = lost + 1
  /\ UNCHANGED <<bound, stopping, thread, connects, stop, hearing>>

-----------------------------------------------------------------------------
(* woken.                                                                  *)

Stops ==
  /\ stop = "idle" /\ stop' = "asking"
  /\ stopping' = TRUE
  /\ UNCHANGED <<bound, thread, queue, lost, connects, hearing>>

\* The while: joined once the thread has ended, another knock until then.
Asking ==
  /\ stop = "asking"
  /\ \/ thread = "ended" /\ stop' = "joined" /\ UNCHANGED connects
     \/ thread # "ended" /\ stop' = "knocking" /\ Begin(Stop, <<Wakeable(bound)>>)
  /\ UNCHANGED <<listener, hearing>>

\* knock is back: one that connected is given patience to be heard.
Knocked ==
  /\ stop = "knocking" /\ call[Stop] \in Outcomes
  /\ stop' = "hearing"
  /\ hearing' = IF call[Stop] = "connected" THEN Patience ELSE 0
  /\ call' = [call EXCEPT ![Stop] = "idle"]
  /\ UNCHANGED <<listener, targets, within, at, left, elapsed, last>>

\* A knock that connected is waited for until it is heard.
Hearing_ForGood ==
  /\ stop = "hearing"
  /\ IF thread = "ended" \/ hearing = 0
     THEN stop' = "asking" /\ hearing' = 0
     ELSE UNCHANGED <<stop, hearing>>
  /\ UNCHANGED <<listener, connects>>

\* The inner loop: a sleep, then out where the thread ended or the time is
\* over.
Hearing ==
  /\ stop = "hearing"
  /\ IF thread = "ended" \/ hearing = 0
     THEN stop' = "asking" /\ hearing' = 0
     ELSE hearing' = hearing - 1 /\ UNCHANGED stop
  /\ UNCHANGED <<listener, connects>>

-----------------------------------------------------------------------------
Over == stop = "joined" /\ UNCHANGED vars

Next ==
  \/ \E c \in Clients : ClientConnects(c)
  \/ \E c \in Callers : ConnectStep(c)
  \/ Accept \/ Served \/ GivenUp
  \/ Stops \/ Asking \/ Knocked \/ Hearing \/ Over

\* Threads run and attempts end; and a knock tried over and over is not
\* timed out by the kernel every time.
Fairness ==
  /\ \A c \in Callers : WF_vars(ConnectStep(c)) /\ SF_vars(Connected(c))
  /\ WF_vars(Accept \/ Served)
  /\ WF_vars(Asking \/ Knocked \/ Hearing)

Spec == Init /\ [][Next]_vars /\ Fairness

-----------------------------------------------------------------------------
\* All addresses together take no longer than the timeout a connect was
\* given (connect.rs:1, "inside one deadline").
WithinTimeout ==
  \A c \in Callers : within[c] # Forever => elapsed[c] <= within[c]

\* A connect that fails has tried every address, or has no time left; the
\* addresses before the one it tries failed; and it says TimedOut only where
\* the time ran out or nothing answered, a refusal only where one was met.
TriedInTurn ==
  \A c \in Callers :
    /\ call[c] \in {"refused", "timedout"} => at[c] > Len(targets[c]) \/ elapsed[c] = within[c]
    /\ call[c] = "nowhere" <=> call[c] \in Outcomes /\ targets[c] = << >>
    /\ call[c] \in {"connected", "unset"} => Target(c) = "listener"
    /\ call[c] = "refused" =>
         \E i \in 1..at[c] - 1 : targets[c][i] \in {"refuses", "listener"}
    /\ call[c] = "timedout" =>
         \/ elapsed[c] = within[c]
         \/ within[c] = Forever /\ targets[c][at[c] - 1] # "refuses"

\* A stop returns: however many knocks are lost, refused or timed out, and
\* whoever else connects meanwhile, the accepting thread is woken and joined.
StopReturns == stopping ~> stop = "joined"
=============================================================================
