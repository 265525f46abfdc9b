------------------------------- MODULE FifoPipe -------------------------------
(***************************************************************************)
(* The named pipe of src/pipe/unix.rs: each accept of its listener, which  *)
(* any number of threads may share, opens the FIFO to read, and each       *)
(* client's connect opens it to write, every open within a time on a       *)
(* thread of its own, the opener, which the call releases at its deadline  *)
(* by opening the other end itself.                                        *)
(*                                                                         *)
(* What an open of a FIFO does is the kernel's, modelled after Linux: it   *)
(* counts at once for the other end, meets every open that waits there,    *)
(* and returns once it has met one itself.                                 *)
(***************************************************************************)
EXTENDS Naturals

CONSTANTS
    AcceptThreads,  \* the threads that call the listener's accept
    Connecters,     \* the callers of connect
    Timed,          \* the callers that may give a time to wait within
    MayDrop         \* whether the listener may be dropped

ASSUME FifoAssumption ==
    /\ AcceptThreads \cap Connecters = {}
    /\ Timed \subseteq AcceptThreads \cup Connecters
    /\ MayDrop \in BOOLEAN

Callers == AcceptThreads \cup Connecters

(* The opens: a call's own, on its opener, and the one that releases it.   *)
Opens == Callers \X {"own", "release"}
Own(c) == <<c, "own">>
Release(c) == <<c, "release">>

VARIABLES
    there,      \* whether the FIFO's file is there
    call,       \* how far each caller has come
    open,       \* how far each open has come
    met         \* the opens each caller's own open met

fifo == <<there, call, open, met>>

(* A call is idle; untimed, opening on its own thread; waiting for its     *)
(* opener; releasing it and joining it; or has returned connected,         *)
(* timedout or failed. An open has not begun (none), is starting, blocked, *)
(* open or failed.                                                         *)

(* bind has made the FIFO.                                                 *)
FifoInit ==
    /\ there = TRUE
    /\ call = [c \in Callers |-> "idle"]
    /\ open = [o \in Opens |-> "none"]
    /\ met = [c \in Callers |-> {}]

(* The end an open is of: a call's own to read for accept, to write for    *)
(* connect; the one that releases it, the other.                           *)
Reads(o) == (o[1] \in AcceptThreads) = (o[2] = "own")
Facing(o) == {p \in Opens : Reads(p) # Reads(o)}

-----------------------------------------------------------------------------
(* opened begins: without a time it opens itself, within one it spawns the *)
(* opener and waits. Accept is called on a listener not dropped.           *)
Call(c) ==
    /\ call[c] = "idle"
    /\ c \in AcceptThreads => there
    /\ \/ call' = [call EXCEPT ![c] = "untimed"]
       \/ c \in Timed /\ call' = [call EXCEPT ![c] = "waiting"]
    /\ open' = [open EXCEPT ![Own(c)] = "starting"]
    /\ UNCHANGED <<there, met>>

(* External: the kernel's open, on whichever thread.                       *)
Open(o) ==
    LET waiting == {p \in Facing(o) : open[p] = "blocked"}
        others == {p \in Facing(o) : open[p] \in {"blocked", "open"}}
    IN
    /\ open[o] = "starting"
    /\ \/ /\ there
          /\ open' = [p \in Opens |->
                        IF p = o THEN IF others = {} THEN "blocked" ELSE "open"
                        ELSE IF p \in waiting THEN "open" ELSE open[p]]
          /\ met' = [c \in Callers |->
                        met[c] \cup {p \in Opens :
                            \/ o = Own(c) /\ p \in others
                            \/ o = p /\ Own(c) \in waiting}]
       \/ /\ ~there
          /\ open' = [open EXCEPT ![o] = "failed"]
          /\ UNCHANGED met
    /\ UNCHANGED <<there, call>>

(* The open's outcome is returned, recv_timeout handing over what the      *)
(* opener sent.                                                            *)
Arrive(c) ==
    /\ call[c] \in {"untimed", "waiting"} /\ open[Own(c)] \in {"open", "failed"}
    /\ call' = [call EXCEPT ![c] = IF open[Own(c)] = "open" THEN "connected"
                                   ELSE "failed"]
    /\ UNCHANGED <<there, open, met>>

(* The deadline passes before anything was sent, though the opener may     *)
(* have met its peer by now; the other end is opened.                      *)
Timeout_OnlyJoins(c) ==
    /\ call[c] = "waiting"
    /\ call' = [call EXCEPT ![c] = "joining"]
    /\ UNCHANGED <<there, open, met>>
Timeout(c) ==
    /\ call[c] = "waiting"
    /\ call' = [call EXCEPT ![c] = "releasing"]
    /\ open' = [open EXCEPT ![Release(c)] = "starting"]
    /\ UNCHANGED <<there, met>>

(* The other end opened, or could not be, and is dropped.                  *)
Released_KeptOpen(c) ==
    /\ call[c] = "releasing" /\ open[Release(c)] \in {"open", "failed"}
    /\ call' = [call EXCEPT ![c] = "connected"]
    /\ open' = [open EXCEPT ![Release(c)] = "none"]
    /\ UNCHANGED <<there, met>>
Released(c) ==
    /\ call[c] = "releasing" /\ open[Release(c)] \in {"open", "failed"}
    /\ call' = [call EXCEPT ![c] = "joining"]
    /\ open' = [open EXCEPT ![Release(c)] = "none"]
    /\ UNCHANGED <<there, met>>

(* The opener is joined, and what it opened is dropped with the channel.   *)
Joined(c) ==
    /\ call[c] = "joining" /\ open[Own(c)] \in {"open", "failed"}
    /\ call' = [call EXCEPT ![c] = "timedout"]
    /\ open' = [open EXCEPT ![Own(c)] = "none"]
    /\ met' = [met EXCEPT ![c] = {}]
    /\ UNCHANGED there

(* The caller is done with what it was handed, or tries again.             *)
Done(c) ==
    /\ call[c] \in {"connected", "timedout", "failed"}
    /\ call' = [call EXCEPT ![c] = "idle"]
    /\ open' = [open EXCEPT ![Own(c)] = "none"]
    /\ met' = [met EXCEPT ![c] = {}]
    /\ UNCHANGED there

(* Drop, while no accept borrows the listener: the file goes, what waits   *)
(* on the FIFO stays.                                                      *)
InCall(c) == call[c] \in {"untimed", "waiting", "releasing", "joining"}
DropFifo ==
    /\ MayDrop /\ there /\ \A a \in AcceptThreads : ~InCall(a)
    /\ there' = FALSE
    /\ UNCHANGED <<call, open, met>>

Returning(c) == Arrive(c) \/ Released(c) \/ Joined(c)

FifoNext ==
    \/ \E c \in Callers : Call(c) \/ Timeout(c) \/ Returning(c) \/ Done(c)
    \/ \E o \in Opens : Open(o)
    \/ DropFifo

(* Threads run, the kernel opens, and a deadline comes; whether an         *)
(* application calls, ends or drops is its own choice.                     *)
FifoFairness ==
    /\ \A c \in Callers : WF_fifo(Timeout(c)) /\ WF_fifo(Returning(c))
    /\ \A o \in Opens : WF_fifo(Open(o))

FifoSpec == FifoInit /\ [][FifoNext]_fifo /\ FifoFairness

-----------------------------------------------------------------------------
(* A call's peers, and the calls on its own side.                          *)
Peers(c) == IF c \in AcceptThreads THEN Connecters ELSE AcceptThreads
Alike(c) == (Callers \ Peers(c)) \ {c}

(* A call that returns a connection has met a peer's own open, or the      *)
(* release of another call of its own side: its own release at a deadline  *)
(* that passed in the meantime never hands it one.                         *)
HandedByAnother ==
    \A c \in Callers : call[c] = "connected" =>
        \/ \E d \in Peers(c) : Own(d) \in met[c]
        \/ \E d \in Alike(c) : Release(d) \in met[c]

(* "Nothing is handed out without its peer" (unix.rs:13).                  *)
HandedWithPeer ==
    \A c \in Callers : call[c] = "connected" =>
        \E d \in Peers(c) : Own(d) \in met[c]

Returned(c) == call[c] \in {"connected", "timedout", "failed"}

(* A call whose open began before its deadline returns, while the file is  *)
(* there: the release finds it, blocked still or met by a peer that came   *)
(* or left in the meantime, whoever else opens, releases and leaves.       *)
BegunReturns ==
    \A c \in Callers :
        call[c] = "waiting" /\ open[Own(c)] # "starting" ~> Returned(c) \/ ~there

(* "No thread is left behind": a call given a time returns, the release at *)
(* its deadline meeting the opener whether its open has begun yet or not.  *)
CallsReturn ==
    \A c \in Callers : call[c] = "waiting" ~> Returned(c)
===============================================================================
