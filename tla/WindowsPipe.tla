----------------------------- MODULE WindowsPipe -----------------------------
(***************************************************************************)
(* The named pipe on Windows: pipe/windows.rs with its io, instance and    *)
(* client halves.                                                          *)
(*                                                                         *)
(* A Listener keeps the instance a client reaches next behind a mutex.     *)
(* accept waits on that instance (ConnectNamedPipe, overlapped), for as    *)
(* long as it takes or within a time, makes the instance after it and only *)
(* then hands the reached one out as a Stream; making the instance, or its *)
(* event, may fail.  connect opens a listening instance, or finds all busy *)
(* and waits for a free one in what is left of its patience.  A Stream     *)
(* reads through a read ahead, which lent fills first; another thread may  *)
(* cancel the read through the handle the stream keeps in a shared cell.   *)
(*                                                                         *)
(* The kernel is external: an instance is listening, connected, gone (its  *)
(* client closed) or free, and a handle value that was closed may be given *)
(* out again.  Both ends of a connection run the same Stream, so one       *)
(* direction is followed: octets 1, 2, ... that the client writes.         *)
(***************************************************************************)
EXTENDS Integers, Sequences, FiniteSets

CONSTANTS
  Clients,      \* processes that connect, each once
  Accepters,    \* threads that call Listener::accept
  Handles,      \* the values a server-side handle can have
  Limited,      \* the clients that connect with a patience
  Patience,     \* that patience, in ticks
  MaxWrites,    \* how many octets a client writes
  BUFFER,       \* what a direction of the pipe holds
  READ,         \* what a read of the pipe asks for where its reader asks less
  First,        \* what lent asks for
  MaxFailures   \* how often instance() or Event::new() fails

None == "none"

ASSUME ClientsAssumption == Limited \subseteq Clients
ASSUME NoneAssumption == None \notin Clients \cup Accepters \cup Handles
ASSUME HandlesAssumption ==
  IsFiniteSet(Clients) /\ IsFiniteSet(Handles) /\ Cardinality(Handles) > Cardinality(Clients)
ASSUME SizesAssumption ==
  /\ {Patience, MaxWrites, MaxFailures} \subseteq Nat
  /\ {BUFFER, READ, First} \subseteq Nat \ {0}

VARIABLES
  pipe,       \* [Handles -> [state, client]]: the instances, in the kernel
  data,       \* [Clients -> Seq(Nat)]: written and not yet taken from the pipe
  next,       \* Listener.next: the instance a client reaches next, None once dropped
  lock,       \* who holds the mutex around next
  after,      \* accept's local: the instance made and not yet stored
  accept,     \* [Accepters -> where its accept is]
  conn,       \* [Clients -> where its connect is]
  left,       \* [Clients -> what is left of the wait it is in]
  elapsed,    \* [Clients -> how long its connect has taken so far]
  stream,     \* [Clients -> the Stream accept made for it, or NoStream]
  wrote,      \* [Clients -> how many octets it wrote]
  got,        \* [Clients -> Seq(Nat)]: what its stream's read returned
  cancelling, \* the stream and handle a cancel holds the cell's lock for
  failures    \* how often something failed so far

kernel    == <<pipe, data>>
listener  == <<next, lock, after, accept, failures>>
clients   == <<conn, left, elapsed, wrote>>
vars      == <<kernel, listener, clients, stream, got, cancelling>>

NoCancel  == [client |-> None, handle |-> None]
NoStream  == [handle |-> None, open |-> None, ahead |-> <<>>, op |-> "gone"]
Closed    == [state |-> "free", client |-> None]
Listening == [state |-> "listening", client |-> None]

\* bind: the first instance, on some handle; which one makes no difference.
Init ==
  LET h == CHOOSE x \in Handles : TRUE IN
    /\ pipe = [x \in Handles |-> IF x = h THEN Listening ELSE Closed]
    /\ data = [c \in Clients |-> <<>>]
    /\ next = h /\ lock = None /\ after = None
    /\ accept = [a \in Accepters |-> "idle"]
    /\ conn = [c \in Clients |-> "opening"]
    /\ left = [c \in Clients |-> 0] /\ elapsed = [c \in Clients |-> 0]
    /\ stream = [c \in Clients |-> NoStream]
    /\ wrote = [c \in Clients |-> 0] /\ got = [c \in Clients |-> <<>>]
    /\ cancelling = NoCancel /\ failures = 0

FreeHandles == {h \in Handles : pipe[h].state = "free"}
Reachable   == {h \in Handles : pipe[h].state = "listening"}
InstanceOf(c) == {h \in Handles : pipe[h].client = c}

-----------------------------------------------------------------------------
(* Listener::accept.  "pending" and "timed" wait for the client; "cancel"  *)
(* has let its time pass; "reached" has its client; "made" has the next    *)
(* instance too.                                                           *)

\* ConnectNamedPipe on an instance a client reached already, still there or
\* gone, fails with ERROR_PIPE_CONNECTED or ERROR_NO_DATA: connected's Ok.
AlreadyReached == pipe[next].state \in {"connected", "gone"}

\* ERROR_NO_DATA is a failure like any other: a client that came and went.
StartAccept_NoDataFails(a) ==
  /\ accept[a] = "idle" /\ lock = None /\ next # None
  /\ lock' = IF pipe[next].state = "gone" THEN None ELSE a
  /\ \E waiting \in {"pending", "timed"} :
       accept' = [accept EXCEPT ![a] = CASE pipe[next].state = "gone" -> "idle"
                                         [] pipe[next].state = "connected" -> "reached"
                                         [] OTHER -> waiting]
  /\ UNCHANGED <<kernel, next, after, failures, clients, stream, got, cancelling>>

StartAccept(a) ==
  /\ accept[a] = "idle" /\ lock = None /\ next # None
  /\ lock' = a
  /\ \E waiting \in {"pending", "timed"} :
       accept' = [accept EXCEPT ![a] = IF AlreadyReached THEN "reached" ELSE waiting]
  /\ UNCHANGED <<kernel, next, after, failures, clients, stream, got, cancelling>>

\* The overlapped wait ends: a client came since it started.
AcceptReached(a) ==
  /\ accept[a] \in {"pending", "timed"} /\ AlreadyReached
  /\ accept' = [accept EXCEPT ![a] = "reached"]
  /\ UNCHANGED <<kernel, next, lock, after, failures, clients, stream, got, cancelling>>

\* signaled said no within the time; the client may come before the cancel.
AcceptDeadline(a) ==
  /\ accept[a] = "timed"
  /\ accept' = [accept EXCEPT ![a] = "cancel"]
  /\ UNCHANGED <<kernel, next, lock, after, failures, clients, stream, got, cancelling>>

\* A timed accept that keeps the mutex.
AcceptCancelled_LockKept(a) ==
  /\ accept[a] = "cancel"
  /\ accept' = [accept EXCEPT ![a] = IF AlreadyReached THEN "reached" ELSE "idle"]
  /\ UNCHANGED <<kernel, next, lock, after, failures, clients, stream, got, cancelling>>

\* A timed accept that starts over with a fresh instance.
AcceptCancelled_Fresh(a) ==
  /\ accept[a] = "cancel"
  /\ accept' = [accept EXCEPT ![a] = "idle"] /\ lock' = None
  /\ pipe' = [pipe EXCEPT ![next] = Listening]
  /\ UNCHANGED <<data, next, after, failures, clients, stream, got, cancelling>>

\* CancelIoEx and GetOverlappedResult: a wait that ended as it was cancelled
\* is ended, any other is TimedOut and gives the mutex back.
AcceptCancelled(a) ==
  /\ accept[a] = "cancel"
  /\ accept' = [accept EXCEPT ![a] = IF AlreadyReached THEN "reached" ELSE "idle"]
  /\ lock' = IF AlreadyReached THEN lock ELSE None
  /\ UNCHANGED <<kernel, next, after, failures, clients, stream, got, cancelling>>

\* What a failure after the client came leaves: the mutex free, next the
\* instance it reached.
GiveUp(a) ==
  /\ failures < MaxFailures /\ failures' = failures + 1
  /\ accept' = [accept EXCEPT ![a] = "idle"] /\ lock' = None
  /\ UNCHANGED <<data, next, clients, stream, got, cancelling>>

MakeInstance(a) ==
  /\ accept[a] = "reached"
  /\ \/ \E h \in FreeHandles :
          /\ pipe' = [pipe EXCEPT ![h] = Listening]
          /\ after' = h
          /\ accept' = [accept EXCEPT ![a] = "made"]
          /\ UNCHANGED <<data, next, lock, failures, clients, stream, got, cancelling>>
     \/ GiveUp(a) /\ UNCHANGED <<pipe, after>>

\* Stream::new on the reached instance.
NewStream(h) == [handle |-> h, open |-> h, ahead |-> <<>>, op |-> "none"]

\* A hand-out that stores the reached instance back rather than the new one.
HandOut_NextKept(a) ==
  /\ accept[a] = "made"
  /\ after' = None
  /\ stream' = [stream EXCEPT ![pipe[next].client] = NewStream(next)]
  /\ accept' = [accept EXCEPT ![a] = "idle"] /\ lock' = None
  /\ UNCHANGED <<kernel, next, failures, clients, got, cancelling>>

\* The event is made, next replaced and the reached instance handed out; or
\* it is not, and the instance made for after closes, whoever reached it.
HandOut(a) ==
  /\ accept[a] = "made"
  /\ after' = None
  /\ \/ /\ stream' = [stream EXCEPT ![pipe[next].client] = NewStream(next)]
        /\ next' = after
        /\ accept' = [accept EXCEPT ![a] = "idle"] /\ lock' = None
        /\ UNCHANGED <<kernel, failures, clients, got, cancelling>>
     \/ /\ pipe' = [pipe EXCEPT ![after] = Closed]
        /\ GiveUp(a)

\* The Listener is dropped, once no accept borrows it: its instance closes.
DropListener ==
  /\ next # None /\ \A a \in Accepters : accept[a] = "idle"
  /\ pipe' = [pipe EXCEPT ![next] = Closed]
  /\ next' = None
  /\ UNCHANGED <<data, lock, after, accept, failures, clients, stream, got, cancelling>>

-----------------------------------------------------------------------------
(* connect: the client's loop, and what it does once connected.            *)

Connecting(c) == conn[c] \in {"opening", "busy", "waiting"}

\* open_identifying: a listening instance is reached, every one is busy, or
\* there is no pipe of that name.
OpenIdentifying(c) ==
  /\ conn[c] = "opening"
  /\ \/ \E h \in Reachable :
          /\ pipe' = [pipe EXCEPT ![h] = [state |-> "connected", client |-> c]]
          /\ conn' = [conn EXCEPT ![c] = "in"]
          /\ elapsed' = [elapsed EXCEPT ![c] = 0]
     \/ /\ Reachable = {}
        /\ conn' = [conn EXCEPT ![c] = IF FreeHandles = Handles THEN "refused" ELSE "busy"]
        /\ UNCHANGED <<pipe, elapsed>>
  /\ UNCHANGED <<data, listener, left, wrote, stream, got, cancelling>>

\* Each wait is given the whole patience.
Left_WholePatience(c) == Patience

\* until - now, saturating.
Left(c) == Patience - elapsed[c]

\* Every instance was busy: wait for one in what is left, if anything is.
WaitFree(c) ==
  /\ conn[c] = "busy"
  /\ conn' = [conn EXCEPT ![c] = IF c \in Limited /\ Left(c) = 0 THEN "timedout" ELSE "waiting"]
  /\ left' = [left EXCEPT ![c] = IF c \in Limited THEN Left(c) ELSE 0]
  /\ UNCHANGED <<kernel, listener, elapsed, wrote, stream, got, cancelling>>

\* WaitNamedPipe returns: an instance listens, which another may reach first;
\* the time is over, or no instance is left, both the caller's TimedOut.
WaitReturns(c) ==
  /\ conn[c] = "waiting"
  /\ \/ Reachable # {} /\ conn' = [conn EXCEPT ![c] = "opening"]
     \/ /\ (c \in Limited /\ left[c] = 0) \/ FreeHandles = Handles
        /\ conn' = [conn EXCEPT ![c] = "timedout"]
  /\ left' = [left EXCEPT ![c] = 0]
  /\ UNCHANGED <<kernel, listener, elapsed, wrote, stream, got, cancelling>>

Tick(c) ==
  /\ conn[c] = "waiting" /\ c \in Limited /\ left[c] > 0
  /\ left' = [left EXCEPT ![c] = @ - 1]
  /\ elapsed' = [elapsed EXCEPT ![c] = @ + 1]
  /\ UNCHANGED <<kernel, listener, conn, wrote, stream, got, cancelling>>

\* Stream::write at the client's end: in the pipe once it returns, waiting
\* where the pipe is full.
ClientWrites(c) ==
  /\ conn[c] = "in" /\ InstanceOf(c) # {}
  /\ wrote[c] < MaxWrites /\ Len(data[c]) < BUFFER
  /\ wrote' = [wrote EXCEPT ![c] = @ + 1]
  /\ data' = [data EXCEPT ![c] = Append(@, wrote[c] + 1)]
  /\ UNCHANGED <<pipe, listener, conn, left, elapsed, stream, got, cancelling>>

\* The client drops its end, or its Event::new failed and it never had one.
ClientCloses(c) ==
  /\ conn[c] = "in"
  /\ conn' = [conn EXCEPT ![c] = "closed"]
  /\ pipe' = [h \in Handles |->
                IF h \in InstanceOf(c) THEN [pipe[h] EXCEPT !.state = "gone"] ELSE pipe[h]]
  /\ UNCHANGED <<data, listener, left, elapsed, wrote, stream, got, cancelling>>

-----------------------------------------------------------------------------
(* Stream, at the made end.  op is the read its thread is in: "lent" asks  *)
(* for First octets, "small" for a buffer shorter than READ, "large" for   *)
(* one at least READ long; "cleared" is a drop that has emptied the cell.  *)

Peer(c) == pipe[stream[c].handle]
Asked(op) == IF op = "lent" THEN First ELSE READ
LeastOf(m, n) == IF m <= n THEN m ELSE n

\* lent and read begin: the pipe is read only where nothing is read ahead.
StartRead(c) ==
  /\ stream[c].op = "none"
  /\ \E op \in {"lent", "small", "large"} :
       /\ op = "lent" => stream[c].ahead = <<>>
       /\ IF stream[c].ahead = <<>>
          THEN /\ stream' = [stream EXCEPT ![c].op = op]
               /\ UNCHANGED got
          ELSE LET count == LeastOf(Len(stream[c].ahead), IF op = "small" THEN 1 ELSE READ)
               IN  /\ stream' = [stream EXCEPT ![c].ahead = SubSeq(@, count + 1, Len(@))]
                   /\ got' = [got EXCEPT ![c] = @ \o SubSeq(stream[c].ahead, 1, count)]
  /\ UNCHANGED <<kernel, listener, clients, cancelling>>

\* A lent that forgets what it read to learn who connected.
Taken_LentForgotten(c, octets) ==
  LET returned == IF stream[c].op = "small" THEN LeastOf(1, Len(octets)) ELSE Len(octets)
  IN  /\ stream' = [stream EXCEPT ![c].op = "none",
                                  ![c].ahead = SubSeq(octets, returned + 1, Len(octets))]
      /\ got' = [got EXCEPT ![c] = IF stream[c].op = "lent" THEN @ ELSE @ \o SubSeq(octets, 1, returned)]

\* What a read that took octets from the pipe does with them: lent keeps all
\* to be read again, a large read returns all, a small one keeps the rest.
Taken(c, octets) ==
  LET returned == CASE stream[c].op = "lent"  -> 0
                    [] stream[c].op = "small" -> LeastOf(1, Len(octets))
                    [] OTHER                  -> Len(octets)
  IN  /\ stream' = [stream EXCEPT ![c].op = "none",
                                  ![c].ahead = SubSeq(octets, returned + 1, Len(octets))]
      /\ got' = [got EXCEPT ![c] = @ \o SubSeq(octets, 1, returned)]

\* io::read ends: with what the pipe holds, or with nothing at its end.
ReadEnds(c) ==
  /\ stream[c].op \in {"lent", "small", "large"}
  /\ data[c] # <<>> \/ Peer(c).state = "gone"
  /\ LET count == LeastOf(Len(data[c]), Asked(stream[c].op))
     IN  /\ Taken(c, SubSeq(data[c], 1, count))
         /\ data' = [data EXCEPT ![c] = SubSeq(@, count + 1, Len(@))]
  /\ UNCHANGED <<pipe, listener, clients, cancelling>>

\* Cancel::cancel: the cell's lock is held from reading the handle ...
CancelLocks(c) ==
  /\ cancelling = NoCancel /\ stream[c].open # None
  /\ cancelling' = [client |-> c, handle |-> stream[c].open]
  /\ UNCHANGED <<kernel, listener, clients, stream, got>>

\* ... to CancelIoEx on it, which ends a read in flight with an error.
CancelIo ==
  /\ cancelling # NoCancel
  /\ stream' = [c \in Clients |->
       IF stream[c].handle = cancelling.handle /\ stream[c].op \in {"lent", "small", "large"}
       THEN [stream[c] EXCEPT !.op = "none"] ELSE stream[c]]
  /\ cancelling' = NoCancel
  /\ UNCHANGED <<kernel, listener, clients, got>>

CellLocked(c) == cancelling # NoCancel /\ cancelling.client = c

\* A drop that empties the cell without its lock.
DropClears_Unlocked(c) ==
  /\ stream[c].op = "none"
  /\ stream' = [stream EXCEPT ![c].op = "cleared", ![c].open = None]
  /\ UNCHANGED <<kernel, listener, clients, got, cancelling>>

\* Stream's drop: the cell is emptied under its lock ...
DropClears(c) ==
  /\ stream[c].op = "none" /\ ~CellLocked(c)
  /\ stream' = [stream EXCEPT ![c].op = "cleared", ![c].open = None]
  /\ UNCHANGED <<kernel, listener, clients, got, cancelling>>

\* ... and then its fields drop: the handle closes and may be used again.
DropCloses(c) ==
  /\ stream[c].op = "cleared"
  /\ pipe' = [pipe EXCEPT ![stream[c].handle] = Closed]
  /\ stream' = [stream EXCEPT ![c] = NoStream]
  /\ data' = [data EXCEPT ![c] = <<>>] /\ got' = [got EXCEPT ![c] = <<>>]
  /\ UNCHANGED <<listener, clients, cancelling>>

-----------------------------------------------------------------------------
AcceptStep(a) == \/ AcceptReached(a) \/ AcceptDeadline(a) \/ AcceptCancelled(a)
                 \/ MakeInstance(a) \/ HandOut(a)
ConnectStep(c) == OpenIdentifying(c) \/ WaitFree(c) \/ WaitReturns(c) \/ Tick(c)

\* Every client has been and gone and the streams with them; the listener is
\* dropped, or an accept without a time waits for one more.
Over ==
  /\ next = None \/ \E a \in Accepters : accept[a] = "pending"
  /\ cancelling = NoCancel
  /\ \A c \in Clients : stream[c] = NoStream /\ conn[c] \in {"closed", "timedout", "refused"}
  /\ UNCHANGED vars

Next ==
  \/ \E a \in Accepters : StartAccept(a) \/ AcceptStep(a)
  \/ DropListener \/ CancelIo
  \/ \E c \in Clients :
       \/ ConnectStep(c) \/ ClientWrites(c) \/ ClientCloses(c)
       \/ StartRead(c) \/ ReadEnds(c) \/ CancelLocks(c) \/ DropClears(c) \/ DropCloses(c)
  \/ Over

\* The maker accepts in a loop, and threads and the kernel run: every accept
\* and connect that can take its next step takes it.
Fairness ==
  /\ \A a \in Accepters : WF_vars(StartAccept(a) \/ AcceptStep(a))
  /\ \A c \in Clients : WF_vars(ConnectStep(c))

Spec == Init /\ [][Next]_vars /\ Fairness

-----------------------------------------------------------------------------
\* The state's types; the mutex is held by the one accept under way, and an
\* instance is being made in its last step only.
TypeOK ==
  /\ pipe \in [Handles -> [state : {"free", "listening", "connected", "gone"},
                           client : Clients \cup {None}]]
  /\ next \in Handles \cup {None} /\ after \in Handles \cup {None}
  /\ lock \in Accepters \cup {None} /\ \A a \in Accepters : lock = a <=> accept[a] # "idle"
  /\ after # None <=> lock # None /\ accept[lock] = "made"
  /\ accept \in [Accepters -> {"idle", "pending", "timed", "cancel", "reached", "made"}]
  /\ conn \in [Clients -> {"opening", "busy", "waiting", "timedout", "refused", "in", "closed"}]
  /\ \A c \in Clients : left[c] \in 0..Patience /\ elapsed[c] \in Nat /\ wrote[c] \in 0..MaxWrites
  /\ failures \in 0..MaxFailures

\* "One client is one connection" (windows.rs:13): the instance of a Stream
\* is one its own client reached, no other stream's, and never the one the
\* listener still waits on, through timed accepts, failures and handle reuse.
OneConnection ==
  \A c \in Clients : stream[c] # NoStream =>
    /\ Peer(c).client = c
    /\ stream[c].handle \notin {next, after}
    /\ \A d \in Clients \ {c} : stream[d].handle # stream[c].handle

\* What lent, read and their cancels hand on is what the client wrote, in
\* order, each octet once (windows.rs:165, read_ahead).
ReadAsWritten ==
  \A c \in Clients : stream[c] # NoStream =>
    got[c] \o stream[c].ahead \o data[c] = [i \in 1..wrote[c] |-> i]

\* A cancel reaches the handle of the stream it was made for and no other,
\* the streams dropped and the handles reused meanwhile (io.rs:104).
CancelReachesOwn ==
  cancelling # NoCancel =>
    /\ stream[cancelling.client].handle = cancelling.handle
    /\ pipe[cancelling.handle].client = cancelling.client

\* connect takes no longer than its patience, however many times it found an
\* instance free and another client reached it first.
WithinPatience == \A c \in Limited : elapsed[c] <= Patience

\* A connect ends: with a patience always, without one while there is a
\* listener, though none listens between a client's arrival and the next
\* instance made (windows.rs:151).
ConnectReturns ==
  \A c \in Clients : Connecting(c) ~> (~Connecting(c) \/ (c \notin Limited /\ next = None))

Unserved(c) == InstanceOf(c) \cap {next, after} # {}

\* A client that reached the listener, while an accept waited, as one ran out
\* of time or after one failed, leaves it only as the Stream handed out,
\* unless the listener is dropped or Event::new failed with the instance the
\* client reached just made (windows.rs:152): a failure leaves the client the
\* accept was for to the next one.
HandedOutOrFailed ==
  [][\A c \in Clients : Unserved(c) /\ ~Unserved(c)' =>
       \/ stream'[c].handle \in InstanceOf(c) \/ DropListener
       \/ failures' > failures /\ next \notin InstanceOf(c)]_vars
=============================================================================
