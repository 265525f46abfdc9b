---------------------------- MODULE StoppingProofs ----------------------------
(***************************************************************************)
(* Proofs about Stopping, for any number of callers, addresses and ticks:  *)
(* connect keeps to its one deadline and says why it failed.               *)
(***************************************************************************)
EXTENDS Stopping, TLAPS

\* The types of what connect works with.
ConnectsTypeOK ==
  /\ targets \in [Callers -> Seq(Addresses)]
  /\ within \in [Callers -> Nat \cup {Forever}]
  /\ at \in [Callers -> Nat \ {0}]
  /\ elapsed \in [Callers -> Nat]
  /\ left \in [Callers -> Nat \cup {Forever}]
  /\ last \in [Callers -> {"none", "refused", "timedout"}]
  /\ call \in [Callers -> {"idle", "next", "attempt"} \cup Outcomes]
  /\ bound \in Addresses

\* An attempt has exactly what the deadline leaves it: with what it has
\* taken so far it makes up the timeout.
DeadlineKept(c) ==
  /\ within[c] # Forever => elapsed[c] <= within[c]
  /\ call[c] = "attempt" => left[c] = Left(c)

\* The address an attempt is made to is one of the target's.
AddressTried(c) ==
  call[c] \in {"attempt", "connected", "unset"} => at[c] \in 1..Len(targets[c])

\* A refusal was met; or the time ran out, or nothing answered where there
\* was no time.
RefusalMet(c) ==
  \E i \in 1..at[c] - 1 : targets[c][i] \in {"refuses", "listener"}
TimeRanOut(c) ==
  \/ elapsed[c] = within[c]
  \/ within[c] = Forever /\ targets[c][at[c] - 1] # "refuses"

\* The failure kept is one that happened, and every address before this one
\* failed.
FailureKept(c) ==
  /\ last[c] = "none" => at[c] = 1
  /\ last[c] = "refused" => RefusalMet(c)
  /\ last[c] = "timedout" => TimeRanOut(c)

\* What TriedInTurn says of one caller.
Tried(c) ==
  /\ call[c] \in {"refused", "timedout"} => at[c] > Len(targets[c]) \/ elapsed[c] = within[c]
  /\ call[c] = "nowhere" <=> call[c] \in Outcomes /\ targets[c] = << >>
  /\ call[c] \in {"connected", "unset"} => Target(c) = "listener"
  /\ call[c] = "refused" => RefusalMet(c)
  /\ call[c] = "timedout" => TimeRanOut(c)

CallerInv(c) == DeadlineKept(c) /\ AddressTried(c) /\ FailureKept(c) /\ Tried(c)

IInv == ConnectsTypeOK /\ \A c \in Callers : CallerInv(c)

-----------------------------------------------------------------------------
\* What a caller's connect is made of.
State(c) == <<targets[c], within[c], at[c], elapsed[c], left[c], last[c], call[c]>>

\* A caller whose connect a step leaves alone keeps what holds of it.
LEMMA CallerApart ==
  ASSUME NEW c \in Callers, CallerInv(c), UNCHANGED State(c)
  PROVE  CallerInv(c)'
  BY DEF CallerInv, DeadlineKept, AddressTried, FailureKept, Tried, Left, Target,
         RefusalMet, TimeRanOut, State

\* A step of one caller's connect keeps the invariant where it keeps that
\* caller's part.
LEMMA OneCaller ==
  ASSUME IInv, ConnectsTypeOK', NEW d \in Callers, CallerInv(d)',
         \A c \in Callers \ {d} : UNCHANGED State(c)
  PROVE  IInv'
<1>1. ASSUME NEW c \in Callers
      PROVE  CallerInv(c)'
  BY CallerApart DEF IInv
<1> QED
  BY <1>1 DEF IInv

\* connect begins: nothing was tried yet.
LEMMA BeginInv ==
  ASSUME IInv, UNCHANGED bound, NEW d \in Callers, NEW addresses \in Seq(Addresses),
         Begin(d, addresses)
  PROVE  IInv'
<1>1. ConnectsTypeOK'
  BY DEF IInv, ConnectsTypeOK, Begin
<1>2. /\ targets'[d] = addresses /\ call'[d] = "next" /\ at'[d] = 1
      /\ elapsed'[d] = 0 /\ last'[d] = "none" /\ within'[d] = within[d]
      /\ \A c \in Callers \ {d} : UNCHANGED State(c)
  BY DEF IInv, ConnectsTypeOK, Begin, State
<1>3. CallerInv(d)'
  BY <1>2 DEF IInv, ConnectsTypeOK, Forever, CallerInv, DeadlineKept, AddressTried,
              FailureKept, Tried, Outcomes
<1> QED
  BY <1>1, <1>2, <1>3, OneCaller

\* The next address is tried, or the connect fails for want of one or of
\* time.
LEMMA TryNextInv ==
  ASSUME IInv, NEW d \in Callers, TryNext(d)
  PROVE  IInv'
<1> USE DEF IInv
<1>1. /\ targets[d] \in Seq(Addresses) /\ Len(targets[d]) \in Nat
      /\ within[d] \in Nat \cup {Forever} /\ at[d] \in Nat \ {0}
      /\ elapsed[d] \in Nat /\ last[d] \in {"none", "refused", "timedout"}
      /\ call[d] = "next" /\ CallerInv(d)
  BY DEF ConnectsTypeOK, TryNext
<1>2. Left(d) \in Nat \cup {Forever} /\ Failure(d) \in Outcomes
  BY <1>1 DEF Left, Failure, Outcomes, CallerInv, DeadlineKept, Forever
<1>3. CASE /\ at[d] <= Len(targets[d]) /\ Left(d) # 0
           /\ call' = [call EXCEPT ![d] = "attempt"]
           /\ left' = [left EXCEPT ![d] = Left(d)]
  <2>1. ConnectsTypeOK'
    BY <1>2, <1>3 DEF ConnectsTypeOK, TryNext, listener
  <2>2. /\ call'[d] = "attempt" /\ left'[d] = Left(d)
        /\ UNCHANGED <<targets, within, at, elapsed, last>>
        /\ \A c \in Callers \ {d} : UNCHANGED State(c)
    BY <1>3 DEF ConnectsTypeOK, TryNext, State
  <2>3. CallerInv(d)'
    BY <1>1, <1>3, <2>2
       DEF CallerInv, DeadlineKept, AddressTried, FailureKept, Tried, Left,
           RefusalMet, TimeRanOut, Outcomes
  <2> QED
    BY <2>1, <2>2, <2>3, OneCaller
<1>4. CASE /\ at[d] > Len(targets[d]) \/ Left(d) = 0
           /\ call' = [call EXCEPT ![d] = Failure(d)]
           /\ UNCHANGED left
  <2>1. ConnectsTypeOK'
    BY <1>2, <1>4 DEF ConnectsTypeOK, TryNext, listener
  <2>2. /\ call'[d] = Failure(d)
        /\ UNCHANGED <<targets, within, at, elapsed, last>>
        /\ \A c \in Callers \ {d} : UNCHANGED State(c)
    BY <1>4 DEF ConnectsTypeOK, TryNext, State
  <2>3. Left(d) = 0 => elapsed[d] = within[d]
    BY <1>1 DEF Left, Forever
  <2>4. /\ Failure(d) \in {"nowhere", "refused", "timedout"}
        /\ Failure(d) = "nowhere" <=> targets[d] = << >>
        /\ Failure(d) = "refused" => last[d] = "refused"
        /\ Failure(d) = "timedout" =>
             last[d] = "timedout" \/ (last[d] = "none" /\ targets[d] # << >>)
    BY <1>1 DEF Failure
  <2>5. last[d] = "none" /\ targets[d] # << >> => elapsed[d] = within[d]
    BY <1>1, <1>4, <2>3 DEF CallerInv, FailureKept
  <2>6. Tried(d)'
    BY <1>1, <1>4, <2>2, <2>3, <2>4, <2>5
       DEF CallerInv, FailureKept, Tried, RefusalMet, TimeRanOut, Outcomes
  <2>7. (DeadlineKept(d) /\ AddressTried(d) /\ FailureKept(d))'
    BY <1>1, <2>2, <2>4
       DEF CallerInv, DeadlineKept, AddressTried, FailureKept, RefusalMet, TimeRanOut
  <2> QED
    BY <2>1, <2>2, <2>6, <2>7, OneCaller DEF CallerInv
<1> QED
  BY <1>1, <1>2, <1>3, <1>4 DEF TryNext

\* An attempt is accepted.
LEMMA ConnectedInv ==
  ASSUME IInv, NEW d \in Callers, Connected(d)
  PROVE  IInv'
<1> USE DEF IInv
<1>1. PICK how \in {"connected", "unset"} : call' = [call EXCEPT ![d] = how]
  BY DEF Connected
<1>2. ConnectsTypeOK'
  BY <1>1 DEF ConnectsTypeOK, Connected, Outcomes
<1>3. /\ call[d] = "attempt" /\ call'[d] = how /\ Target(d) = "listener"
      /\ UNCHANGED <<targets, within, at, elapsed, last>>
      /\ \A c \in Callers \ {d} : UNCHANGED State(c)
  BY <1>1 DEF ConnectsTypeOK, Connected, State, Answers
<1>4. targets[d] # << >>
  BY <1>3 DEF CallerInv, AddressTried
<1>5. CallerInv(d)'
  BY <1>3, <1>4 DEF CallerInv, DeadlineKept, AddressTried, FailureKept, Tried, Target,
                    RefusalMet, TimeRanOut, Outcomes
<1> QED
  BY <1>2, <1>3, <1>5, OneCaller

\* An attempt fails, and the next address is in turn.
LEMMA AttemptFailsInv ==
  ASSUME IInv, NEW d \in Callers, AttemptFails(d)
  PROVE  IInv'
<1> USE DEF IInv
<1>1. /\ targets[d] \in Seq(Addresses) /\ Len(targets[d]) \in Nat
      /\ within[d] \in Nat \cup {Forever} /\ at[d] \in Nat \ {0}
      /\ elapsed[d] \in Nat /\ left[d] \in Nat \cup {Forever}
      /\ call[d] = "attempt" /\ CallerInv(d)
  BY DEF ConnectsTypeOK, AttemptFails
<1>2. PICK how \in {"refused", "timedout"} :
         /\ Failed(d, how)
         /\ how = "refused" => Refuses(d)
         /\ how = "timedout" => left[d] = 0 \/ (left[d] = Forever /\ ~Refuses(d))
  BY DEF AttemptFails
<1>3. ConnectsTypeOK'
  <2>1. at[d] + 1 \in Nat \ {0}
    BY <1>1
  <2> QED
    BY <1>2, <2>1 DEF ConnectsTypeOK, AttemptFails, Failed, listener
<1>4. /\ call'[d] = "next" /\ last'[d] = how /\ at'[d] = at[d] + 1
      /\ UNCHANGED <<targets, within, elapsed>>
      /\ \A c \in Callers \ {d} : UNCHANGED State(c)
  BY <1>2 DEF ConnectsTypeOK, AttemptFails, Failed, State
<1>5. how = "refused" => RefusalMet(d)'
  <2>1. ASSUME how = "refused"
        PROVE  targets[d][at[d]] \in {"refuses", "listener"}
    BY <1>2, <2>1 DEF Refuses, Target
  <2>2. at[d] \in 1..at'[d] - 1
    BY <1>1, <1>4
  <2> QED
    BY <1>4, <2>1, <2>2 DEF RefusalMet
<1>6. how = "timedout" => TimeRanOut(d)'
  <2>1. CASE left[d] = 0
    <3>1. within[d] = elapsed[d]
      BY <1>1, <2>1 DEF CallerInv, DeadlineKept, Left, Forever
    <3> QED
      BY <1>4, <3>1 DEF TimeRanOut
  <2>2. CASE left[d] = Forever /\ ~Refuses(d)
    <3>1. within[d] = Forever
      BY <1>1, <2>2 DEF CallerInv, DeadlineKept, Left, Forever
    <3>2. at'[d] - 1 = at[d]
      BY <1>1, <1>4
    <3> QED
      BY <1>4, <2>2, <3>1, <3>2 DEF TimeRanOut, Refuses, Target
  <2> QED
    BY <1>2, <2>1, <2>2
<1>7. CallerInv(d)'
  BY <1>1, <1>4, <1>5, <1>6
     DEF CallerInv, DeadlineKept, AddressTried, FailureKept, Tried, Outcomes
<1> QED
  BY <1>3, <1>4, <1>7, OneCaller

\* A tick of an attempt comes off what the deadline leaves it.
LEMMA TickInv ==
  ASSUME IInv, NEW d \in Callers, Tick(d)
  PROVE  IInv'
<1> USE DEF IInv
<1>1. /\ within[d] \in Nat \cup {Forever} /\ elapsed[d] \in Nat
      /\ left[d] \in Nat \ {0} /\ call[d] = "attempt" /\ CallerInv(d)
  BY DEF ConnectsTypeOK, Tick, Forever
<1>2. ConnectsTypeOK'
  <2>1. left[d] - 1 \in Nat /\ elapsed[d] + 1 \in Nat
    BY <1>1
  <2> QED
    BY <2>1 DEF ConnectsTypeOK, Tick, listener
<1>3. /\ left'[d] = left[d] - 1 /\ elapsed'[d] = elapsed[d] + 1
      /\ UNCHANGED <<targets, within, at, last, call>>
      /\ \A c \in Callers \ {d} : UNCHANGED State(c)
  BY DEF ConnectsTypeOK, Tick, State
<1>4. within[d] # Forever /\ left[d] = within[d] - elapsed[d]
  BY <1>1 DEF CallerInv, DeadlineKept, Left, Forever
<1>5. last[d] # "timedout"
  BY <1>1, <1>4 DEF CallerInv, FailureKept, TimeRanOut
<1>6. CallerInv(d)'
  BY <1>1, <1>3, <1>4, <1>5
     DEF CallerInv, DeadlineKept, AddressTried, FailureKept, Tried, Left, Forever,
         RefusalMet, Outcomes
<1> QED
  BY <1>2, <1>3, <1>6, OneCaller

\* knock is back, and what it came to forgotten.
LEMMA KnockedInv ==
  ASSUME IInv, Knocked
  PROVE  IInv'
<1> USE DEF IInv
<1>1. Stop \in Callers
  BY DEF Callers
<1>2. ConnectsTypeOK'
  BY <1>1 DEF ConnectsTypeOK, Knocked, listener
<1>3. /\ call'[Stop] = "idle"
      /\ UNCHANGED <<targets, within, at, elapsed, last>>
      /\ \A c \in Callers \ {Stop} : UNCHANGED State(c)
  BY <1>1 DEF ConnectsTypeOK, Knocked, State
<1>4. CallerInv(Stop)'
  BY <1>1, <1>3
     DEF CallerInv, DeadlineKept, AddressTried, FailureKept, Tried,
         RefusalMet, TimeRanOut, Outcomes
<1> QED
  BY <1>1, <1>2, <1>3, <1>4, OneCaller

\* Every step keeps the invariant: those of the accepting thread, of the
\* kernel and of the stop's waiting touch no connect.
LEMMA NextInv ==
  ASSUME IInv, [Next]_vars
  PROVE  IInv'
<1>1. CASE UNCHANGED <<bound, connects>>
  <2>1. ConnectsTypeOK' /\ \A c \in Callers : UNCHANGED State(c)
    BY <1>1 DEF IInv, ConnectsTypeOK, connects, State
  <2> QED
    BY <2>1, CallerApart DEF IInv
<1>2. ASSUME NEW c \in Clients, ClientConnects(c)
      PROVE  IInv'
  <2>1. c \in Callers /\ targets[c] \in Seq(Addresses)
    BY DEF Callers, IInv, ConnectsTypeOK
  <2> QED
    BY <1>2, <2>1, BeginInv DEF ClientConnects, listener
<1>3. ASSUME NEW c \in Callers, ConnectStep(c)
      PROVE  IInv'
  BY <1>3, TryNextInv, ConnectedInv, AttemptFailsInv, TickInv DEF ConnectStep
<1>4. CASE Asking
  <2>1. Stop \in Callers /\ <<Wakeable(bound)>> \in Seq(Addresses)
    BY DEF Callers, Wakeable, Addresses, IInv, ConnectsTypeOK
  <2>2. UNCHANGED bound
    BY <1>4 DEF Asking, listener
  <2>3. UNCHANGED connects \/ Begin(Stop, <<Wakeable(bound)>>)
    BY <1>4 DEF Asking
  <2> QED
    BY <1>1, <2>1, <2>2, <2>3, BeginInv
<1>5. Accept \/ Served \/ GivenUp \/ Stops \/ Hearing \/ Over \/ UNCHANGED vars
        => UNCHANGED <<bound, connects>>
  BY DEF Accept, Served, GivenUp, Stops, Hearing, Over, vars, listener
<1> QED
  BY <1>1, <1>2, <1>3, <1>4, <1>5, KnockedInv, Zenon DEF Next

\* Nobody has called connect yet.
LEMMA InitInv ==
  ASSUME Init
  PROVE  IInv
<1>1. ASSUME NEW c \in Callers
      PROVE  targets[c] \in Seq(Addresses)
  <2>1. targets[c] \in UNION {[1..m -> Addresses \ {"unspecified"}] : m \in 0..MaxTargets}
    BY Zenon DEF Init, BoundedSeq, SeqOf
  <2>2. PICK m \in 0..MaxTargets : targets[c] \in [1..m -> Addresses \ {"unspecified"}]
    BY <2>1, Zenon
  <2>3. m \in Nat /\ targets[c] \in [1..m -> Addresses]
    BY <2>2, BoundsAssumption DEF Addresses
  <2> QED
    BY <2>3
<1>2. ConnectsTypeOK
  BY <1>1, BoundsAssumption DEF Init, ConnectsTypeOK, Addresses
<1>3. ASSUME NEW c \in Callers
      PROVE  CallerInv(c)
  BY <1>2 DEF Init, ConnectsTypeOK, CallerInv, DeadlineKept, AddressTried, FailureKept,
              Tried, Outcomes, Forever
<1> QED
  BY <1>2, <1>3 DEF IInv

\* All that was shown to be inductive holds throughout.
LEMMA Throughout == Spec => []IInv
  BY InitInv, NextInv, PTL DEF Spec

\* However many addresses a name resolves to and whatever each of them does,
\* connect takes no longer than the timeout it was given: each address has
\* only what those before it left.
THEOREM OneDeadline == Spec => []WithinTimeout
<1>1. IInv => WithinTimeout
  BY DEF IInv, CallerInv, DeadlineKept, WithinTimeout
<1> QED
  BY <1>1, Throughout, PTL

\* A connect that fails tried every address or ran out of time, and the
\* failure it returns is one it met; one that succeeds reached the listener.
THEOREM FailureIsMet == Spec => []TriedInTurn
<1>1. IInv => TriedInTurn
  BY DEF IInv, CallerInv, Tried, RefusalMet, TimeRanOut, TriedInTurn
<1> QED
  BY <1>1, Throughout, PTL
===============================================================================
