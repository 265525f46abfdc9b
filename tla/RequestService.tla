---------------------------- MODULE RequestService ----------------------------
(***************************************************************************)
(* What a client that sends requests one after another over a connection   *)
(* is promised: each returns, answered once it was processed, or aborted   *)
(* by a service that has gone away and never processes it, so that it may  *)
(* be sent again elsewhere. Once one was turned away none after it is      *)
(* taken. A send may fail, processed or not, only once a message larger    *)
(* than the service takes was sent.                                        *)
(***************************************************************************)
EXTENDS Integers

CONSTANT Requests       \* how many requests the client sends

VARIABLES
    asked,      \* how many it has sent
    processed,  \* those the service's application was handed
    outcome,    \* how each send returned
    away,       \* whether the service has gone away
    large       \* whether a message was larger than may be sent

vars == <<asked, processed, outcome, away, large>>

Numbers == 1..Requests

Pending(n) == n \in 1..asked /\ outcome[n] = "none"
TurnedAway == \E n \in Numbers : outcome[n] = "aborted"

Init ==
    /\ asked = 0
    /\ processed = {}
    /\ outcome = [n \in Numbers |-> "none"]
    /\ away = FALSE
    /\ large = FALSE

GoAway ==
    /\ ~away /\ away' = TRUE
    /\ UNCHANGED <<asked, processed, outcome, large>>

(* The next request, large or not, once the last has returned. The client  *)
(* may know already that the service has gone away.                        *)
Ask ==
    /\ asked < Requests
    /\ \A n \in Numbers : ~Pending(n)
    /\ asked' = asked + 1
    /\ \/ ~TurnedAway /\ outcome' = outcome
       \/ away /\ outcome' = [outcome EXCEPT ![asked + 1] = "aborted"]
    /\ large' \in {large, TRUE}
    /\ UNCHANGED <<processed, away>>

(* A request may reach the application after its send has failed.          *)
Process(n) ==
    /\ n <= asked /\ outcome[n] \in {"none", "failed"}
    /\ n \notin processed /\ ~TurnedAway
    /\ processed' = processed \cup {n}
    /\ UNCHANGED <<asked, outcome, away, large>>

LargeAnswer ==
    /\ processed # {} /\ ~large /\ large' = TRUE
    /\ UNCHANGED <<asked, processed, outcome, away>>

Settle(n) ==
    /\ Pending(n)
    /\ \E how \in {"answered", "aborted", "failed"} :
         /\ how = "answered" => n \in processed
         /\ how = "aborted" => n \notin processed /\ away
         /\ how = "failed" => large
         /\ outcome' = [outcome EXCEPT ![n] = how]
    /\ UNCHANGED <<asked, processed, away, large>>

Next ==
    \/ Ask \/ GoAway \/ LargeAnswer
    \/ \E n \in Numbers : Process(n) \/ Settle(n)

Settled == \A n \in Numbers : n <= asked ~> outcome[n] # "none"

Spec == Init /\ [][Next]_vars /\ Settled
===============================================================================
