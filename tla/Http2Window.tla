----------------------------- MODULE Http2Window -----------------------------
(***************************************************************************)
(* The flow-control window of src/http2/window.rs: a signed count of the   *)
(* octets one side may still send. The methods that can fail are split     *)
(* into the condition under which they succeed and the window they leave.  *)
(***************************************************************************)
EXTENDS Integers

CONSTANTS
    MaxStreamId,    \* MAX_STREAM_ID: the largest window, and the largest id
    DefaultWindow   \* DEFAULT_WINDOW: what every window starts with

ASSUME WindowAssumption ==
    /\ MaxStreamId \in Nat \ {0}
    /\ DefaultWindow \in 0..MaxStreamId

(* What may be sent now: nothing while the window is at or below zero.     *)
Available(window) == IF window > 0 THEN window ELSE 0

(* take: octets leave the window, unless there are more than it holds.     *)
CanTake(window, octets) == octets <= window
Take(window, octets) == window - octets

(* shift: the window moves by a change of the initial size, which may take *)
(* it below zero but never past the largest window.                        *)
CanShift_Unchecked(window, delta) == TRUE
CanShift(window, delta) == window + delta <= MaxStreamId
Shift(window, delta) == window + delta

(* grant: a WINDOW_UPDATE gives octets back; an increment of 0 is refused. *)
CanGrant(window, increment) == increment # 0 /\ CanShift(window, increment)
Grant(window, increment) == Shift(window, increment)
GrantError(increment) == IF increment = 0 THEN "Protocol" ELSE "FlowControl"
===============================================================================
