----------------------------- MODULE PipeProofs -----------------------------
(***************************************************************************)
(* The two named pipes, the Windows one and then the FIFO.                 *)
(*                                                                         *)
(* What WindowsPipe's runs check on a small instance, proved of any number *)
(* of clients, accepting threads and handles: who holds which instance,    *)
(* what a cancel reaches, what a stream's reads return and how long a      *)
(* connect takes.                                                          *)
(***************************************************************************)
EXTENDS WindowsPipe, FifoPipe, FiniteSetTheorems, SequenceTheorems, TLAPS

Ops     == {"none", "lent", "small", "large", "cleared"}
Streams == [handle : Handles, open : Handles \cup {None}, ahead : Seq(Nat), op : Ops]

\* The types of what TypeOK leaves open.
StreamTypeOK ==
  /\ data \in [Clients -> Seq(Nat)] /\ got \in [Clients -> Seq(Nat)]
  /\ left \in [Clients -> 0..Patience] /\ elapsed \in [Clients -> Nat]
  /\ wrote \in [Clients -> 0..MaxWrites]
  /\ stream \in [Clients -> Streams \cup {NoStream}]
  /\ cancelling \in [client : Clients, handle : Handles] \cup {NoCancel}

\* The kernel's instances: each is the only one of its client, whose connect
\* has returned.
KernelInv ==
  \A h \in Handles :
    /\ pipe[h].state \in {"free", "listening"} <=> pipe[h].client = None
    /\ pipe[h].state = "connected" => conn[pipe[h].client] = "in"
    /\ pipe[h].state = "gone" => conn[pipe[h].client] = "closed"
    /\ \A k \in Handles : pipe[h].client = pipe[k].client /\ pipe[h].client # None => h = k

\* The listener's instances are open, and two; whoever holds the mutex has
\* one, which a client has reached by the time the one after it is made.
ListenerInv ==
  /\ next # None => pipe[next].state # "free"
  /\ after # None => pipe[after].state # "free" /\ after # next
  /\ lock # None => next # None
  /\ \A a \in Accepters : accept[a] \in {"reached", "made"} => AlreadyReached

\* A stream's instance is its client's and not the listener's, and its cell
\* holds the handle until its drop has emptied it; its thread reads the pipe
\* with nothing read ahead.
StreamInv ==
  \A c \in Clients : stream[c] # NoStream =>
    /\ Peer(c).client = c
    /\ stream[c].handle \notin {next, after}
    /\ stream[c].open = IF stream[c].op = "cleared" THEN None ELSE stream[c].handle
    /\ stream[c].op \in {"lent", "small", "large"} => stream[c].ahead = <<>>

\* What a cancel holds is in the cell: a drop waits for the cell's lock.
CancelInv ==
  cancelling # NoCancel => stream[cancelling.client].open = cancelling.handle

\* What a connect has waited and may still wait is within its patience.
PatienceInv == \A c \in Limited : elapsed[c] + left[c] <= Patience

\* A client writes once it has an instance; of one that still has it nothing
\* is lost, handed out to a stream or not yet.
OctetsInv ==
  \A c \in Clients :
    /\ conn[c] \notin {"in", "closed"} => wrote[c] = 0 /\ data[c] = <<>>
    /\ stream[c] = NoStream => got[c] = <<>>
    /\ InstanceOf(c) # {} =>
         got[c] \o stream[c].ahead \o data[c] = [i \in 1..wrote[c] |-> i]

IInv == /\ TypeOK /\ StreamTypeOK /\ KernelInv /\ ListenerInv
        /\ StreamInv /\ CancelInv /\ PatienceInv /\ OctetsInv

-----------------------------------------------------------------------------
(* What Init and the listener's steps rest on.                             *)

\* There is a handle for bind's instance.
LEMMA SomeHandle == (CHOOSE x \in Handles : TRUE) \in Handles
<1>1. Handles # {}
  <2>1. SUFFICES ASSUME Handles = {} PROVE FALSE
    OBVIOUS
  <2>2. Cardinality(Handles) = 0
    BY <2>1, FS_EmptySet
  <2>3. Cardinality(Clients) \in Nat
    BY HandlesAssumption, FS_CardinalityType
  <2> QED
    BY <2>2, <2>3, HandlesAssumption
<1> QED
  BY <1>1

\* Whoever is in accept holds the mutex: nobody else is in it.
LEMMA OneAccepts ==
  ASSUME TypeOK, NEW a \in Accepters, accept[a] # "idle"
  PROVE  /\ lock = a /\ lock # None
         /\ \A b \in Accepters \ {a} : accept[b] = "idle"
         /\ after # None <=> accept[a] = "made"
  BY NoneAssumption DEF TypeOK

\* The listener and its first instance, and no client yet.
LEMMA InitInv ==
  ASSUME Init
  PROVE  IInv
<1> DEFINE h == CHOOSE x \in Handles : TRUE
<1>1. h \in Handles
  BY SomeHandle
<1>2. /\ pipe = [x \in Handles |-> IF x = h THEN Listening ELSE Closed]
      /\ data = [c \in Clients |-> <<>>] /\ got = [c \in Clients |-> <<>>]
      /\ next = h /\ lock = None /\ after = None
      /\ accept = [a \in Accepters |-> "idle"]
      /\ conn = [c \in Clients |-> "opening"]
      /\ left = [c \in Clients |-> 0] /\ elapsed = [c \in Clients |-> 0]
      /\ wrote = [c \in Clients |-> 0]
      /\ stream = [c \in Clients |-> NoStream]
      /\ cancelling = NoCancel /\ failures = 0
  BY DEF Init
<1> HIDE DEF h
<1>3. <<>> \in Seq(Nat)
  OBVIOUS
<1>4. TypeOK
  BY <1>1, <1>2, NoneAssumption, SizesAssumption DEF TypeOK, Listening, Closed
<1>5. StreamTypeOK
  BY <1>2, <1>3, SizesAssumption DEF StreamTypeOK
<1>6. KernelInv /\ ListenerInv
  BY <1>1, <1>2, NoneAssumption DEF KernelInv, ListenerInv, Listening, Closed
<1>7. StreamInv /\ CancelInv /\ PatienceInv
  BY <1>2, SizesAssumption, ClientsAssumption DEF StreamInv, CancelInv, PatienceInv
<1>8. OctetsInv
  <2>1. ASSUME NEW c \in Clients PROVE InstanceOf(c) = {}
    BY <1>2, NoneAssumption DEF InstanceOf, Listening, Closed
  <2> QED
    BY <1>2, <2>1 DEF OctetsInv
<1> QED
  BY <1>4, <1>5, <1>6, <1>7, <1>8 DEF IInv

-----------------------------------------------------------------------------
(* Reads.                                                                  *)

\* Octets split in two are what they were.
LEMMA Split ==
  ASSUME NEW s \in Seq(Nat), NEW n \in 0..Len(s)
  PROVE  /\ SubSeq(s, 1, n) \in Seq(Nat) /\ SubSeq(s, n + 1, Len(s)) \in Seq(Nat)
         /\ SubSeq(s, 1, n) \o SubSeq(s, n + 1, Len(s)) = s
<1>1. n \in Nat /\ Len(s) \in Nat /\ n <= Len(s)
  OBVIOUS
<1>2. \A i \in 1..Len(s) : s[i] \in Nat
  OBVIOUS
<1>3. SubSeq(s, 1, n) \in Seq(Nat) /\ SubSeq(s, n + 1, Len(s)) \in Seq(Nat)
  <2>1. ASSUME NEW m \in 1..Len(s) + 1, NEW k \in 0..Len(s)
        PROVE  SubSeq(s, m, k) \in Seq(Nat)
    <3>1. \A i \in m..k : s[i] \in Nat
      BY <1>1, <1>2
    <3> QED
      BY <3>1, SubSeqProperties
  <2> QED
    BY <1>1, <2>1
<1>4. SubSeq(s, 1, n) \o SubSeq(s, n + 1, Len(s)) = SubSeq(s, 1, Len(s))
  <2>1. 1 \in 1..Len(s) + 1 /\ n \in 1 - 1..Len(s) /\ Len(s) \in n..Len(s)
    BY <1>1
  <2> QED
    BY <2>1, ConcatAdjacentSubSeq, Zenon
<1> QED
  BY <1>3, <1>4, SubSeqFull

\* Octets after octets, and the first w that a client writes: names for what
\* the provers had better not look into.
Cat(s, t) == s \o t
Upto(w) == [i \in 1..w |-> i]

\* Concatenation of octets is associative.
LEMMA Assoc ==
  ASSUME NEW s \in Seq(Nat), NEW t \in Seq(Nat), NEW u \in Seq(Nat)
  PROVE  Cat(s, t) \in Seq(Nat) /\ Cat(Cat(s, t), u) = Cat(s, Cat(t, u))
  BY DEF Cat

\* One octet more follows the ones before it.
LEMMA WrittenNext ==
  ASSUME NEW read \in Seq(Nat), NEW s \in Seq(Nat), NEW w \in Nat, Cat(read, s) = Upto(w)
  PROVE  Cat(read, Append(s, w + 1)) = Upto(w + 1)
<1>1. Append(s, w + 1) = Cat(s, <<w + 1>>) /\ <<w + 1>> \in Seq(Nat)
  BY AppendIsConcat DEF Cat
<1>2. Cat(read, Cat(s, <<w + 1>>)) = Cat(Cat(read, s), <<w + 1>>)
  BY <1>1, Assoc
<1>3. Cat(Upto(w), <<w + 1>>) = Upto(w + 1)
  BY DEF Cat, Upto
<1> QED
  BY <1>1, <1>2, <1>3

\* A read splits the octets it took: some are returned, the rest read ahead.
LEMMA TakenShape ==
  ASSUME NEW c \in Clients, NEW octets \in Seq(Nat), Taken(c, octets)
  PROVE  \E n \in 0..Len(octets) :
           /\ stream' = [stream EXCEPT ![c] = [stream[c] EXCEPT !.op = "none",
                                                 !.ahead = SubSeq(octets, n + 1, Len(octets))]]
           /\ got' = [got EXCEPT ![c] = got[c] \o SubSeq(octets, 1, n)]
<1> DEFINE n == CASE stream[c].op = "lent"  -> 0
                  [] stream[c].op = "small" -> LeastOf(1, Len(octets))
                  [] OTHER                  -> Len(octets)
<1>1. n \in 0..Len(octets)
  BY DEF LeastOf
<1>2. /\ stream' = [stream EXCEPT ![c].op = "none", ![c].ahead = SubSeq(octets, n + 1, Len(octets))]
      /\ got' = [got EXCEPT ![c] = @ \o SubSeq(octets, 1, n)]
  BY DEF Taken
<1> HIDE DEF n
<1>3. stream' = [stream EXCEPT ![c] = [stream[c] EXCEPT !.op = "none",
                                         !.ahead = SubSeq(octets, n + 1, Len(octets))]]
  BY <1>2
<1> QED
  BY <1>1, <1>2, <1>3

\* What a read of a stream comes to, begun or ended: of the octets read ahead
\* and the ones in the pipe, in order, some are returned, some read ahead and
\* the rest left in the pipe.
ReadTo(c, op, back, ahead, rest) ==
  /\ stream' = [stream EXCEPT ![c] = [stream[c] EXCEPT !.op = op, !.ahead = ahead]]
  /\ got' = [got EXCEPT ![c] = got[c] \o back]
  /\ data' = [data EXCEPT ![c] = rest]
  /\ (back \o ahead) \o rest = stream[c].ahead \o data[c]
  /\ op # "none" => ahead = <<>>

\* A read that begins is such a read: it takes from what was read ahead, or
\* waits for the pipe where there is none.
LEMMA StartReadShape ==
  ASSUME StreamTypeOK, NEW c \in Clients, StartRead(c)
  PROVE  /\ stream[c] \in Streams /\ stream[c].op = "none"
         /\ \E op \in Ops \ {"cleared"} : \E back, ahead, rest \in Seq(Nat) :
              ReadTo(c, op, back, ahead, rest)
<1> USE SizesAssumption
<1>1. stream[c] \in Streams /\ stream[c].op = "none"
  BY DEF StartRead, StreamTypeOK, NoStream
<1>2. stream[c].ahead \in Seq(Nat) /\ data[c] \in Seq(Nat) /\ got[c] \in Seq(Nat)
  BY <1>1 DEF Streams, StreamTypeOK
<1>3. UNCHANGED data /\ data = [data EXCEPT ![c] = data[c]]
  BY DEF StartRead, StreamTypeOK, kernel
<1>4. PICK op \in {"lent", "small", "large"} :
        IF stream[c].ahead = <<>>
        THEN stream' = [stream EXCEPT ![c].op = op] /\ UNCHANGED got
        ELSE LET count == LeastOf(Len(stream[c].ahead), IF op = "small" THEN 1 ELSE READ)
             IN  /\ stream' = [stream EXCEPT ![c].ahead = SubSeq(@, count + 1, Len(@))]
                 /\ got' = [got EXCEPT ![c] = @ \o SubSeq(stream[c].ahead, 1, count)]
  BY Zenon DEF StartRead
<1>5. CASE stream[c].ahead = <<>>
  <2>1. [stream[c] EXCEPT !.op = op] = [stream[c] EXCEPT !.op = op, !.ahead = <<>>]
    BY <1>1, <1>5 DEF Streams
  <2>2. stream' = [stream EXCEPT ![c] = [stream[c] EXCEPT !.op = op, !.ahead = <<>>]]
    BY <1>4, <1>5, <2>1
  <2>3. <<>> \in Seq(Nat) /\ got[c] \o <<>> = got[c] /\ (<<>> \o <<>>) \o data[c] = stream[c].ahead \o data[c]
    BY <1>2, <1>5
  <2>4. got' = [got EXCEPT ![c] = got[c] \o <<>>]
    BY <1>4, <1>5, <2>3 DEF StreamTypeOK
  <2>5. ReadTo(c, op, <<>>, <<>>, data[c])
    BY <1>3, <2>2, <2>3, <2>4, Zenon DEF ReadTo
  <2> QED
    BY <1>1, <1>2, <2>3, <2>5 DEF Ops
<1>6. CASE stream[c].ahead # <<>>
  <2> DEFINE s == stream[c].ahead
             count == LeastOf(Len(s), IF op = "small" THEN 1 ELSE READ)
             back == SubSeq(s, 1, count)
             ahead == SubSeq(s, count + 1, Len(s))
  <2>1. count \in 0..Len(s)
    BY <1>2 DEF LeastOf
  <2>2. stream' = [stream EXCEPT ![c] = [stream[c] EXCEPT !.ahead = ahead]] /\ got' = [got EXCEPT ![c] = got[c] \o back]
    BY <1>4, <1>6
  <2> HIDE DEF count
  <2>3. back \in Seq(Nat) /\ ahead \in Seq(Nat) /\ back \o ahead = s
    BY <1>2, <2>1, Split
  <2> HIDE DEF back, ahead
  <2>4. [stream[c] EXCEPT !.ahead = ahead] = [stream[c] EXCEPT !.op = "none", !.ahead = ahead]
    BY <1>1 DEF Streams
  <2>5. ReadTo(c, "none", back, ahead, data[c])
    BY <1>3, <2>2, <2>3, <2>4, Zenon DEF ReadTo
  <2> QED
    BY <1>1, <1>2, <2>3, <2>5 DEF Ops
<1> QED
  BY <1>5, <1>6

\* And so is one that ends.
LEMMA ReadEndsShape ==
  ASSUME StreamTypeOK, StreamInv, NEW c \in Clients, ReadEnds(c)
  PROVE  /\ stream[c] \in Streams /\ stream[c].op # "cleared"
         /\ \E op \in Ops \ {"cleared"} : \E back, ahead, rest \in Seq(Nat) :
              ReadTo(c, op, back, ahead, rest)
<1> USE SizesAssumption
<1>1. stream[c] \in Streams /\ stream[c].op \in {"lent", "small", "large"} /\ stream[c] # NoStream
  BY DEF ReadEnds, StreamTypeOK, NoStream
<1>2. data[c] \in Seq(Nat) /\ got[c] \in Seq(Nat) /\ stream[c].ahead = <<>>
  BY <1>1 DEF StreamTypeOK, StreamInv
<1> DEFINE count == LeastOf(Len(data[c]), Asked(stream[c].op))
           octets == SubSeq(data[c], 1, count)
           rest == SubSeq(data[c], count + 1, Len(data[c]))
<1>3. count \in 0..Len(data[c])
  BY <1>2 DEF LeastOf, Asked
<1>4. Taken(c, octets) /\ data' = [data EXCEPT ![c] = rest]
  BY DEF ReadEnds
<1> HIDE DEF count
<1>5. octets \in Seq(Nat) /\ rest \in Seq(Nat) /\ octets \o rest = data[c]
  BY <1>2, <1>3, Split
<1> HIDE DEF octets, rest
<1>6. PICK n \in 0..Len(octets) :
        /\ stream' = [stream EXCEPT ![c] = [stream[c] EXCEPT !.op = "none",
                                              !.ahead = SubSeq(octets, n + 1, Len(octets))]]
        /\ got' = [got EXCEPT ![c] = got[c] \o SubSeq(octets, 1, n)]
  BY <1>4, <1>5, TakenShape
<1> DEFINE back == SubSeq(octets, 1, n)
           ahead == SubSeq(octets, n + 1, Len(octets))
<1>7. back \in Seq(Nat) /\ ahead \in Seq(Nat) /\ back \o ahead = octets
  BY <1>5, Split
<1>8. (back \o ahead) \o rest = stream[c].ahead \o data[c]
  <2>1. <<>> \o data[c] = data[c]
    BY <1>2
  <2> QED
    BY <1>2, <1>5, <1>7, <2>1, Zenon
<1>9. ReadTo(c, "none", back, ahead, rest)
  BY <1>4, <1>6, <1>8, Zenon DEF ReadTo
<1> HIDE DEF back, ahead
<1> QED
  BY <1>1, <1>5, <1>7, <1>9 DEF Ops

-----------------------------------------------------------------------------
(* The types.                                                              *)

\* A step keeps the types of the kernel and the listener, and of how far the
\* accepts and the connects are.
LEMMA TypeStep ==
  ASSUME IInv, [Next]_vars
  PROVE  TypeOK'
<1> USE NoneAssumption, SizesAssumption
<1> USE DEF IInv
<1>1. TypeOK /\ StreamTypeOK
  OBVIOUS
<1>2. ASSUME NEW a \in Accepters, StartAccept(a)
      PROVE  TypeOK'
  BY <1>1, <1>2 DEF TypeOK, StartAccept, AlreadyReached, kernel, clients
<1>3. ASSUME NEW a \in Accepters, AcceptReached(a) \/ AcceptDeadline(a)
      PROVE  TypeOK'
  BY <1>1, <1>3, OneAccepts DEF TypeOK, AcceptReached, AcceptDeadline, kernel, clients
<1>4. ASSUME NEW a \in Accepters, AcceptCancelled(a)
      PROVE  TypeOK'
  BY <1>1, <1>4, OneAccepts DEF TypeOK, AcceptCancelled, AlreadyReached, kernel, clients
<1>5. ASSUME NEW a \in Accepters, MakeInstance(a)
      PROVE  TypeOK'
  BY <1>1, <1>5, OneAccepts DEF TypeOK, MakeInstance, GiveUp, FreeHandles, Listening, clients
<1>6. ASSUME NEW a \in Accepters, HandOut(a)
      PROVE  TypeOK'
  BY <1>1, <1>6, OneAccepts DEF TypeOK, HandOut, GiveUp, Closed, kernel, clients
<1>7. ASSUME DropListener
      PROVE  TypeOK'
  BY <1>1, <1>7 DEF TypeOK, DropListener, Closed, clients
<1>8. ASSUME NEW c \in Clients, OpenIdentifying(c)
      PROVE  TypeOK'
  <2>1. pipe' \in [Handles -> [state : {"free", "listening", "connected", "gone"},
                               client : Clients \cup {None}]]
    BY <1>1, <1>8 DEF TypeOK, OpenIdentifying, Reachable
  <2>2. conn' \in [Clients -> {"opening", "busy", "waiting", "timedout", "refused", "in", "closed"}]
    BY <1>1, <1>8 DEF TypeOK, OpenIdentifying
  <2>3. elapsed' \in [Clients -> Nat] /\ UNCHANGED <<left, wrote>>
    <3>1. (elapsed' = [elapsed EXCEPT ![c] = 0] \/ UNCHANGED elapsed) /\ UNCHANGED <<left, wrote>>
      BY <1>8 DEF OpenIdentifying
    <3>2. CASE elapsed' = [elapsed EXCEPT ![c] = 0]
      BY <1>1, <3>1, <3>2 DEF StreamTypeOK
    <3>3. CASE UNCHANGED elapsed
      BY <1>1, <3>1, <3>3 DEF StreamTypeOK
    <3> QED
      BY <3>1, <3>2, <3>3
  <2>4. UNCHANGED listener
    BY <1>8 DEF OpenIdentifying
  <2> QED
    BY <1>1, <2>1, <2>2, <2>3, <2>4 DEF TypeOK, listener
<1>9. ASSUME NEW c \in Clients, WaitFree(c)
      PROVE  TypeOK'
  BY <1>1, <1>9 DEF TypeOK, StreamTypeOK, PatienceInv, WaitFree, Left, kernel, listener
<1>10. ASSUME NEW c \in Clients, WaitReturns(c) \/ Tick(c)
       PROVE  TypeOK'
  <2>1. CASE WaitReturns(c)
    <3>1. /\ \E s \in {"opening", "timedout"} : conn' = [conn EXCEPT ![c] = s]
          /\ left' = [left EXCEPT ![c] = 0] /\ UNCHANGED <<pipe, listener, elapsed, wrote>>
      BY <2>1, Zenon DEF WaitReturns, kernel
    <3> QED
      BY <1>1, <3>1 DEF TypeOK, StreamTypeOK, listener
  <2>2. CASE Tick(c)
    <3>1. left[c] \in 0..Patience /\ elapsed[c] \in Nat /\ left[c] > 0
      BY <1>1, <2>2 DEF StreamTypeOK, Tick
    <3>2. /\ left' = [left EXCEPT ![c] = left[c] - 1] /\ elapsed' = [elapsed EXCEPT ![c] = elapsed[c] + 1]
          /\ UNCHANGED <<pipe, listener, conn, wrote>>
      BY <2>2 DEF Tick, kernel
    <3>3. left' \in [Clients -> 0..Patience] /\ elapsed' \in [Clients -> Nat]
      BY <1>1, <3>1, <3>2 DEF StreamTypeOK
    <3> QED
      BY <1>1, <3>2, <3>3 DEF TypeOK, listener
  <2> QED
    BY <1>10, <2>1, <2>2
<1>11. ASSUME NEW c \in Clients, ClientWrites(c)
       PROVE  TypeOK'
  BY <1>1, <1>11 DEF TypeOK, StreamTypeOK, ClientWrites, listener
<1>12. ASSUME NEW c \in Clients, ClientCloses(c)
       PROVE  TypeOK'
  BY <1>1, <1>12 DEF TypeOK, ClientCloses, InstanceOf, listener
<1>13. ASSUME NEW c \in Clients, DropCloses(c)
       PROVE  TypeOK'
  BY <1>1, <1>13 DEF TypeOK, DropCloses, Closed, listener, clients
<1>14. (\/ CancelIo \/ Over \/ UNCHANGED vars
        \/ \E c \in Clients : StartRead(c) \/ ReadEnds(c) \/ CancelLocks(c) \/ DropClears(c))
         => UNCHANGED <<pipe, listener, clients>>
  BY DEF CancelIo, Over, vars, StartRead, ReadEnds, CancelLocks, DropClears, kernel
<1>15. UNCHANGED <<pipe, listener, clients>> => TypeOK'
  BY <1>1 DEF TypeOK, listener, clients
<1> QED
  BY <1>2, <1>3, <1>4, <1>5, <1>6, <1>7, <1>8, <1>9, <1>10, <1>11, <1>12, <1>13,
     <1>14, <1>15, Zenon DEF Next, AcceptStep, ConnectStep

\* A step keeps the types of the streams, of what is written and read and of
\* the times.
LEMMA StreamTypeStep ==
  ASSUME IInv, [Next]_vars
  PROVE  StreamTypeOK'
<1> USE NoneAssumption, SizesAssumption
<1> USE DEF IInv
<1>1. TypeOK /\ StreamTypeOK
  OBVIOUS
<1>2. <<>> \in Seq(Nat)
  OBVIOUS
<1>3. ASSUME NEW a \in Accepters, HandOut(a)
      PROVE  StreamTypeOK'
  <2>1. UNCHANGED <<data, clients, got, cancelling>>
    BY <1>3 DEF HandOut, GiveUp, kernel
  <2>2. stream' \in [Clients -> Streams \cup {NoStream}]
    <3>1. CASE UNCHANGED stream
      BY <3>1, <1>1 DEF StreamTypeOK
    <3>2. CASE stream' = [stream EXCEPT ![pipe[next].client] = NewStream(next)]
      <4>1. next \in Handles
        BY <1>1, <1>3, OneAccepts DEF TypeOK, ListenerInv, HandOut
      <4>2. NewStream(next) \in Streams
        BY <1>2, <4>1 DEF NewStream, Streams, Ops
      <4> QED
        BY <3>2, <4>2, <1>1 DEF StreamTypeOK
    <3> QED
      BY <1>3, <3>1, <3>2 DEF HandOut, GiveUp
  <2> QED
    BY <1>1, <2>1, <2>2 DEF StreamTypeOK, clients
<1>4. ASSUME NEW c \in Clients, ConnectStep(c)
      PROVE  StreamTypeOK'
  <2>1. UNCHANGED <<data, wrote, stream, got, cancelling>>
    BY <1>4 DEF ConnectStep, OpenIdentifying, WaitFree, WaitReturns, Tick, kernel
  <2>2. left' \in [Clients -> 0..Patience] /\ elapsed' \in [Clients -> Nat]
    <3>1. left[c] \in 0..Patience /\ elapsed[c] \in Nat /\ Patience \in Nat
      BY <1>1 DEF StreamTypeOK
    <3>2. CASE OpenIdentifying(c)
      <4>1. (elapsed' = [elapsed EXCEPT ![c] = 0] \/ UNCHANGED elapsed) /\ UNCHANGED left
        BY <3>2 DEF OpenIdentifying
      <4>2. CASE elapsed' = [elapsed EXCEPT ![c] = 0]
        BY <1>1, <4>1, <4>2 DEF StreamTypeOK
      <4>3. CASE UNCHANGED elapsed
        BY <1>1, <4>1, <4>3 DEF StreamTypeOK
      <4> QED
        BY <4>1, <4>2, <4>3
    <3>3. CASE WaitFree(c)
      BY <1>1, <3>1, <3>3 DEF WaitFree, StreamTypeOK, PatienceInv, Left
    <3>4. CASE WaitReturns(c)
      BY <1>1, <3>1, <3>4 DEF WaitReturns, StreamTypeOK
    <3>5. CASE Tick(c)
      BY <1>1, <3>1, <3>5 DEF Tick, StreamTypeOK
    <3> QED
      BY <1>4, <3>2, <3>3, <3>4, <3>5 DEF ConnectStep
  <2> QED
    BY <1>1, <2>1, <2>2 DEF StreamTypeOK
<1>5. ASSUME NEW c \in Clients, ClientWrites(c)
      PROVE  StreamTypeOK'
  <2>1. data[c] \in Seq(Nat) /\ wrote[c] \in 0..MaxWrites /\ wrote[c] < MaxWrites
    BY <1>1, <1>5 DEF StreamTypeOK, ClientWrites
  <2>2. Append(data[c], wrote[c] + 1) \in Seq(Nat)
    BY <2>1
  <2> QED
    BY <1>1, <1>5, <2>1, <2>2 DEF StreamTypeOK, ClientWrites
<1>6. ASSUME NEW c \in Clients, stream[c] \in Streams,
             NEW op \in Ops \ {"cleared"}, NEW back \in Seq(Nat), NEW ahead \in Seq(Nat), NEW rest \in Seq(Nat),
             ReadTo(c, op, back, ahead, rest), UNCHANGED <<left, elapsed, wrote, cancelling>>
      PROVE  StreamTypeOK'
  <2>1. got[c] \o back \in Seq(Nat)
    BY <1>1, <1>6 DEF StreamTypeOK
  <2>2. [stream[c] EXCEPT !.op = op, !.ahead = ahead] \in Streams
    BY <1>6 DEF Streams
  <2> QED
    BY <1>1, <1>6, <2>1, <2>2 DEF StreamTypeOK, ReadTo
<1>7. ASSUME NEW c \in Clients, StartRead(c) \/ ReadEnds(c)
      PROVE  StreamTypeOK'
  <2>1. UNCHANGED <<left, elapsed, wrote, cancelling>>
    BY <1>7 DEF StartRead, ReadEnds, clients
  <2> QED
    BY <1>1, <1>6, <1>7, <2>1, StartReadShape, ReadEndsShape
<1>8. ASSUME NEW c \in Clients, CancelLocks(c)
      PROVE  StreamTypeOK'
  <2>1. stream[c].open \in Handles
    BY <1>1, <1>8 DEF CancelLocks, StreamTypeOK, Streams, NoStream
  <2> QED
    BY <1>1, <1>8, <2>1 DEF CancelLocks, StreamTypeOK, kernel, clients
<1>9. ASSUME CancelIo
      PROVE  StreamTypeOK'
  <2>1. ASSUME NEW c \in Clients
        PROVE  stream'[c] \in Streams \cup {NoStream}
    <3>1. stream[c] \in Streams \cup {NoStream}
      BY <1>1 DEF StreamTypeOK
    <3>2. stream'[c] = stream[c] \/ (stream[c].op # "gone" /\ stream'[c] = [stream[c] EXCEPT !.op = "none"])
      BY <1>9 DEF CancelIo
    <3>3. stream[c].op # "gone" => stream[c] \in Streams
      BY <3>1 DEF NoStream
    <3>4. stream[c] \in Streams => [stream[c] EXCEPT !.op = "none"] \in Streams
      BY DEF Streams, Ops
    <3> QED
      BY <3>1, <3>2, <3>3, <3>4
  <2> QED
    BY <1>1, <1>9, <2>1 DEF CancelIo, StreamTypeOK, kernel, clients
<1>10. ASSUME NEW c \in Clients, DropClears(c)
       PROVE  StreamTypeOK'
  <2>1. stream[c] \in Streams
    BY <1>1, <1>10 DEF DropClears, StreamTypeOK, NoStream
  <2>2. [stream[c] EXCEPT !.op = "cleared", !.open = None] \in Streams
    BY <2>1 DEF Streams, Ops
  <2> QED
    BY <1>1, <1>10, <2>2 DEF DropClears, StreamTypeOK, kernel, clients
<1>11. ASSUME NEW c \in Clients, DropCloses(c)
       PROVE  StreamTypeOK'
  BY <1>1, <1>2, <1>11 DEF DropCloses, StreamTypeOK, clients
<1>12. (\/ DropListener \/ Over \/ UNCHANGED vars
        \/ \E a \in Accepters : \/ StartAccept(a) \/ AcceptReached(a) \/ AcceptDeadline(a)
                                \/ AcceptCancelled(a) \/ MakeInstance(a)
        \/ \E c \in Clients : ClientCloses(c))
         => UNCHANGED <<data, got, left, elapsed, wrote, stream, cancelling>>
  BY DEF DropListener, Over, vars, StartAccept, AcceptReached, AcceptDeadline,
         AcceptCancelled, MakeInstance, GiveUp, ClientCloses, kernel, clients
<1>13. UNCHANGED <<data, got, left, elapsed, wrote, stream, cancelling>> => StreamTypeOK'
  BY <1>1 DEF StreamTypeOK
<1> QED
  BY <1>3, <1>4, <1>5, <1>7, <1>8, <1>9, <1>10, <1>11, <1>12, <1>13, Zenon
     DEF Next, AcceptStep

-----------------------------------------------------------------------------
(* The kernel's instances and the listener's.                              *)

\* A client reached an instance at most once, so its connect was not over.
LEMMA KernelStep ==
  ASSUME IInv, [Next]_vars
  PROVE  KernelInv'
<1> USE NoneAssumption
<1>1. TypeOK /\ StreamTypeOK /\ KernelInv /\ ListenerInv /\ StreamInv
  BY DEF IInv
<1>2. ASSUME NEW h \in Handles, UNCHANGED conn,
             pipe' = [pipe EXCEPT ![h] = Listening] \/ pipe' = [pipe EXCEPT ![h] = Closed]
      PROVE  KernelInv'
  <2>1. pipe'[h] = Listening \/ pipe'[h] = Closed
    BY <1>1, <1>2 DEF TypeOK
  <2>2. pipe'[h].state \in {"free", "listening"} /\ pipe'[h].client = None
    BY <2>1 DEF Listening, Closed
  <2>3. \A k \in Handles \ {h} : pipe'[k] = pipe[k]
    BY <1>1, <1>2 DEF TypeOK
  <2> QED
    BY <1>1, <1>2, <2>2, <2>3 DEF KernelInv, TypeOK
<1>3. ASSUME NEW a \in Accepters, MakeInstance(a)
      PROVE  KernelInv'
  BY <1>1, <1>2, <1>3 DEF MakeInstance, GiveUp, FreeHandles, clients, KernelInv
<1>4. ASSUME NEW a \in Accepters, HandOut(a)
      PROVE  KernelInv'
  <2>1. after \in Handles
    BY <1>1, <1>4, OneAccepts DEF HandOut, TypeOK
  <2> QED
    BY <1>1, <1>2, <1>4, <2>1 DEF HandOut, GiveUp, kernel, clients, KernelInv
<1>5. ASSUME DropListener
      PROVE  KernelInv'
  BY <1>1, <1>2, <1>5 DEF DropListener, TypeOK, clients
<1>6. ASSUME NEW c \in Clients, conn[c] \in {"opening", "busy", "waiting"}, UNCHANGED pipe,
             NEW s, conn' = [conn EXCEPT ![c] = s]
      PROVE  KernelInv'
  <2>1. \A d \in Clients \ {c} : conn'[d] = conn[d]
    BY <1>1, <1>6 DEF TypeOK
  <2>2. \A h \in Handles : pipe[h].client # c
    BY <1>1, <1>6 DEF KernelInv, TypeOK
  <2> QED
    BY <1>1, <1>6, <2>1, <2>2 DEF KernelInv, TypeOK
<1>7. ASSUME NEW c \in Clients, OpenIdentifying(c)
      PROVE  KernelInv'
  <2>1. CASE \E h \in Reachable :
               /\ pipe' = [pipe EXCEPT ![h] = [state |-> "connected", client |-> c]]
               /\ conn' = [conn EXCEPT ![c] = "in"]
    <3>1. PICK h \in Handles :
               /\ pipe' = [pipe EXCEPT ![h] = [state |-> "connected", client |-> c]]
               /\ conn' = [conn EXCEPT ![c] = "in"]
      BY <2>1 DEF Reachable
    <3>2. pipe'[h] = [state |-> "connected", client |-> c] /\ \A k \in Handles \ {h} : pipe'[k] = pipe[k]
      BY <1>1, <3>1 DEF TypeOK
    <3>3. conn'[c] = "in" /\ \A d \in Clients \ {c} : conn'[d] = conn[d]
      BY <1>1, <3>1 DEF TypeOK
    <3>4. \A k \in Handles : pipe[k].client # c
      BY <1>1, <1>7 DEF KernelInv, TypeOK, OpenIdentifying
    <3> QED
      BY <1>1, <3>2, <3>3, <3>4 DEF KernelInv, TypeOK
  <2>2. CASE UNCHANGED pipe /\ \E s : conn' = [conn EXCEPT ![c] = s]
    BY <1>6, <1>7, <2>2 DEF OpenIdentifying
  <2> QED
    BY <1>7, <2>1, <2>2 DEF OpenIdentifying
<1>8. ASSUME NEW c \in Clients, WaitFree(c) \/ WaitReturns(c)
      PROVE  KernelInv'
  <2>1. conn[c] \in {"busy", "waiting"} /\ UNCHANGED pipe /\ \E s : conn' = [conn EXCEPT ![c] = s]
    BY <1>8 DEF WaitFree, WaitReturns, kernel
  <2> QED
    BY <1>6, <2>1
<1>9. ASSUME NEW c \in Clients, ClientCloses(c)
      PROVE  KernelInv'
  <2>1. conn[c] = "in" /\ conn'[c] = "closed" /\ \A d \in Clients \ {c} : conn'[d] = conn[d]
    BY <1>1, <1>9 DEF ClientCloses, TypeOK
  <2>2. \A h \in Handles : pipe'[h].client = pipe[h].client
    BY <1>1, <1>9 DEF ClientCloses, TypeOK
  <2>3. \A h \in Handles : pipe'[h].state = IF pipe[h].client = c THEN "gone" ELSE pipe[h].state
    BY <1>1, <1>9 DEF ClientCloses, InstanceOf, TypeOK
  <2> QED
    BY <1>1, <2>1, <2>2, <2>3 DEF KernelInv, TypeOK
<1>10. ASSUME NEW c \in Clients, DropCloses(c)
       PROVE  KernelInv'
  <2>1. stream[c].handle \in Handles
    BY <1>1, <1>10 DEF DropCloses, StreamTypeOK, Streams, NoStream
  <2> QED
    BY <1>2, <1>10, <2>1 DEF DropCloses, clients
<1>11. (\/ CancelIo \/ Over \/ UNCHANGED vars
        \/ \E a \in Accepters : StartAccept(a) \/ AcceptReached(a) \/ AcceptDeadline(a) \/ AcceptCancelled(a)
        \/ \E c \in Clients : \/ Tick(c) \/ ClientWrites(c) \/ StartRead(c) \/ ReadEnds(c)
                              \/ CancelLocks(c) \/ DropClears(c))
         => UNCHANGED <<pipe, conn>>
  BY DEF CancelIo, Over, vars, StartAccept, AcceptReached, AcceptDeadline, AcceptCancelled,
         Tick, ClientWrites, StartRead, ReadEnds, CancelLocks, DropClears, kernel, clients
<1>12. UNCHANGED <<pipe, conn>> => KernelInv'
  BY <1>1 DEF KernelInv
<1> QED
  BY <1>3, <1>4, <1>5, <1>7, <1>8, <1>9, <1>10, <1>11, <1>12, Zenon
     DEF Next, AcceptStep, ConnectStep

\* The instance after is made from a free handle once next's client came, and
\* only the accept that made it stores or closes it.
LEMMA ListenerStep ==
  ASSUME IInv, [Next]_vars
  PROVE  ListenerInv'
<1> USE NoneAssumption
<1>1. TypeOK /\ StreamTypeOK /\ KernelInv /\ ListenerInv /\ StreamInv
  BY DEF IInv
<1>2. ASSUME NEW a \in Accepters, StartAccept(a)
      PROVE  ListenerInv'
  BY <1>1, <1>2 DEF StartAccept, ListenerInv, TypeOK, AlreadyReached, kernel
<1>3. ASSUME NEW a \in Accepters, AcceptReached(a) \/ AcceptDeadline(a)
      PROVE  ListenerInv'
  BY <1>1, <1>3 DEF AcceptReached, AcceptDeadline, ListenerInv, TypeOK, AlreadyReached, kernel
<1>4. ASSUME NEW a \in Accepters, AcceptCancelled(a)
      PROVE  ListenerInv'
  BY <1>1, <1>4 DEF AcceptCancelled, ListenerInv, TypeOK, AlreadyReached, kernel
<1>5. ASSUME NEW a \in Accepters, MakeInstance(a)
      PROVE  ListenerInv'
  <2>1. lock = a /\ after = None /\ next \in Handles /\ AlreadyReached
    BY <1>1, <1>5, OneAccepts DEF MakeInstance, ListenerInv, TypeOK
  <2>2. CASE \E h \in FreeHandles :
               /\ pipe' = [pipe EXCEPT ![h] = Listening] /\ after' = h
               /\ accept' = [accept EXCEPT ![a] = "made"]
               /\ UNCHANGED <<next, lock>>
    BY <1>1, <2>1, <2>2 DEF FreeHandles, Listening, ListenerInv, TypeOK, AlreadyReached
  <2>3. CASE GiveUp(a) /\ UNCHANGED <<pipe, after>>
    BY <1>1, <2>1, <2>3 DEF GiveUp, ListenerInv, TypeOK, AlreadyReached
  <2> QED
    BY <1>5, <2>2, <2>3 DEF MakeInstance
<1>6. ASSUME NEW a \in Accepters, HandOut(a)
      PROVE  ListenerInv'
  <2>1. /\ lock = a /\ after \in Handles /\ next \in Handles /\ after # next
        /\ \A b \in Accepters \ {a} : accept[b] = "idle"
        /\ pipe[next].state # "free" /\ pipe[after].state # "free"
    BY <1>1, <1>6, OneAccepts DEF HandOut, ListenerInv, TypeOK
  <2>2. after' = None /\ lock' = None /\ \A b \in Accepters : accept'[b] = "idle"
    BY <1>1, <1>6, <2>1 DEF HandOut, GiveUp, TypeOK
  <2>3. \/ next' = after /\ UNCHANGED pipe
        \/ next' = next /\ pipe' = [pipe EXCEPT ![after] = Closed]
    BY <1>6 DEF HandOut, GiveUp, kernel
  <2> QED
    BY <1>1, <2>1, <2>2, <2>3 DEF ListenerInv, TypeOK
<1>7. ASSUME DropListener
      PROVE  ListenerInv'
  <2>1. lock = None /\ after = None
    BY <1>1, <1>7 DEF DropListener, TypeOK
  <2> QED
    BY <1>7, <2>1 DEF DropListener, ListenerInv
<1>8. ASSUME UNCHANGED <<next, lock, after, accept>>,
             \A h \in Handles : h \in {next, after} =>
               /\ pipe[h].state # "free" => pipe'[h].state # "free"
               /\ pipe[h].state \in {"connected", "gone"} => pipe'[h].state \in {"connected", "gone"}
      PROVE  ListenerInv'
  BY <1>1, <1>8, OneAccepts DEF ListenerInv, TypeOK, AlreadyReached
<1>9. ASSUME NEW c \in Clients, OpenIdentifying(c)
      PROVE  ListenerInv'
  <2>1. UNCHANGED <<next, lock, after, accept>>
    BY <1>9 DEF OpenIdentifying, listener
  <2>2. UNCHANGED pipe \/ \E h \in Handles : pipe' = [pipe EXCEPT ![h] = [state |-> "connected", client |-> c]]
    BY <1>9 DEF OpenIdentifying, Reachable
  <2>3. \A h \in Handles : pipe'[h].state \in {pipe[h].state, "connected"}
    BY <1>1, <2>2 DEF TypeOK
  <2> QED
    BY <1>8, <2>1, <2>3
<1>10. ASSUME NEW c \in Clients, ClientCloses(c)
       PROVE  ListenerInv'
  <2>1. UNCHANGED <<next, lock, after, accept>>
    BY <1>10 DEF ClientCloses, listener
  <2>2. \A h \in Handles : pipe'[h].state \in {pipe[h].state, "gone"}
    BY <1>1, <1>10 DEF ClientCloses, TypeOK
  <2> QED
    BY <1>8, <2>1, <2>2
<1>11. ASSUME NEW c \in Clients, DropCloses(c)
       PROVE  ListenerInv'
  <2>1. UNCHANGED <<next, lock, after, accept>>
    BY <1>11 DEF DropCloses, listener
  <2>2. stream[c].handle \notin {next, after}
    BY <1>1, <1>11 DEF DropCloses, StreamInv, NoStream
  <2>3. \A h \in Handles \ {stream[c].handle} : pipe'[h] = pipe[h]
    BY <1>1, <1>11 DEF DropCloses, TypeOK
  <2> QED
    BY <1>8, <2>1, <2>2, <2>3
<1>12. (\/ CancelIo \/ Over \/ UNCHANGED vars
        \/ \E c \in Clients : \/ WaitFree(c) \/ WaitReturns(c) \/ Tick(c) \/ ClientWrites(c)
                              \/ StartRead(c) \/ ReadEnds(c) \/ CancelLocks(c) \/ DropClears(c))
         => UNCHANGED <<pipe, next, lock, after, accept>>
  BY DEF CancelIo, Over, vars, WaitFree, WaitReturns, Tick, ClientWrites, StartRead, ReadEnds,
         CancelLocks, DropClears, kernel, listener
<1>13. UNCHANGED <<pipe, next, lock, after, accept>> => ListenerInv'
  BY <1>1 DEF ListenerInv, AlreadyReached
<1> QED
  BY <1>2, <1>3, <1>4, <1>5, <1>6, <1>7, <1>9, <1>10, <1>11, <1>12, <1>13, Zenon
     DEF Next, AcceptStep, ConnectStep

-----------------------------------------------------------------------------
(* The streams.                                                            *)

\* Who a hand-out is for: the client of next's instance, which has no stream.
LEMMA HandedTo ==
  ASSUME IInv, NEW a \in Accepters, accept[a] = "made"
  PROVE  /\ next \in Handles /\ after \in Handles /\ after # next
         /\ pipe[next].client \in Clients /\ stream[pipe[next].client] = NoStream
<1>1. /\ lock # None /\ next \in Handles /\ after \in Handles /\ after # next
      /\ pipe[next].state \in {"connected", "gone"}
  BY OneAccepts, NoneAssumption DEF IInv, TypeOK, ListenerInv, AlreadyReached
<1>2. pipe[next].client \in Clients
  BY <1>1 DEF IInv, TypeOK, KernelInv
<1>3. stream[pipe[next].client] = NoStream
  <2> DEFINE c == pipe[next].client
  <2>1. SUFFICES ASSUME stream[c] # NoStream PROVE FALSE
    OBVIOUS
  <2>2. stream[c].handle \in Handles
    BY <1>2, <2>1 DEF IInv, StreamTypeOK, Streams
  <2>3. pipe[stream[c].handle].client = c /\ stream[c].handle # next
    BY <1>2, <2>1 DEF IInv, StreamInv, Peer
  <2> QED
    BY <1>1, <1>2, <2>2, <2>3, NoneAssumption DEF IInv, KernelInv
<1> QED
  BY <1>1, <1>2, <1>3

\* A read, begun, ended or cancelled, leaves a stream its instance and cell.
LEMMA SameInstances ==
  ASSUME IInv, CancelIo \/ \E c \in Clients : StartRead(c) \/ ReadEnds(c)
  PROVE  \A d \in Clients :
           /\ stream'[d] = NoStream <=> stream[d] = NoStream
           /\ stream'[d].handle = stream[d].handle /\ stream'[d].open = stream[d].open
           /\ stream'[d].op = "cleared" <=> stream[d].op = "cleared"
<1>1. stream \in [Clients -> Streams \cup {NoStream}]
  BY DEF IInv, StreamTypeOK
<1> DEFINE Same(d) == /\ stream'[d] = NoStream <=> stream[d] = NoStream
                      /\ stream'[d].handle = stream[d].handle /\ stream'[d].open = stream[d].open
                      /\ stream'[d].op = "cleared" <=> stream[d].op = "cleared"
<1>2. ASSUME NEW d \in Clients, stream[d] \in Streams, stream[d].op # "cleared",
             stream'[d].op \in Ops \ {"cleared"},
             stream'[d].handle = stream[d].handle, stream'[d].open = stream[d].open
      PROVE  Same(d)
  <2>1. NoStream.op = "gone"
    BY DEF NoStream
  <2>2. stream[d].op # "gone" /\ stream'[d].op # "gone"
    BY <1>2 DEF Streams, Ops
  <2> QED
    BY <1>2, <2>1, <2>2
<1> HIDE DEF Same
<1>3. ASSUME CancelIo, NEW d \in Clients
      PROVE  Same(d)
  <2>1. CASE stream'[d] = stream[d]
    BY <2>1 DEF Same
  <2>2. CASE stream'[d] # stream[d]
    <3>1. /\ stream[d].op \in {"lent", "small", "large"}
          /\ stream'[d] = [stream[d] EXCEPT !.op = "none"]
      BY <1>3, <2>2 DEF CancelIo
    <3>2. stream[d] \in Streams
      BY <1>1, <3>1 DEF NoStream
    <3>3. /\ stream'[d].op = "none" /\ stream'[d].handle = stream[d].handle
          /\ stream'[d].open = stream[d].open
      BY <3>1, <3>2 DEF Streams
    <3> QED
      BY <1>2, <3>1, <3>2, <3>3 DEF Ops
  <2> QED
    BY <2>1, <2>2
<1>4. ASSUME NEW c \in Clients, StartRead(c) \/ ReadEnds(c), NEW d \in Clients
      PROVE  Same(d)
  <2>1. /\ stream[c] \in Streams /\ stream[c].op # "cleared"
        /\ \E op \in Ops \ {"cleared"} : \E back, ahead, rest \in Seq(Nat) :
             ReadTo(c, op, back, ahead, rest)
    BY <1>4, StartReadShape, ReadEndsShape DEF IInv
  <2>2. PICK op \in Ops \ {"cleared"}, ahead \in Seq(Nat) :
          stream' = [stream EXCEPT ![c] = [stream[c] EXCEPT !.op = op, !.ahead = ahead]]
    BY <2>1 DEF ReadTo
  <2>3. CASE d = c
    <3>1. /\ stream'[d].op = op /\ stream'[d].handle = stream[d].handle
          /\ stream'[d].open = stream[d].open
      BY <1>1, <2>1, <2>2, <2>3 DEF Streams
    <3> QED
      BY <1>2, <2>1, <2>3, <3>1
  <2>4. CASE d # c
    BY <1>1, <2>2, <2>4 DEF Same
  <2> QED
    BY <2>3, <2>4
<1> QED
  BY <1>3, <1>4 DEF Same

\* A hand-out makes a stream of the instance next, which is next no more, and
\* a drop closes its handle with the cell emptied.
LEMMA StreamStep ==
  ASSUME IInv, [Next]_vars
  PROVE  StreamInv'
<1> USE NoneAssumption
<1>1. TypeOK /\ StreamTypeOK /\ KernelInv /\ ListenerInv /\ StreamInv
  BY DEF IInv
<1>2. ASSUME NEW c \in Clients, stream[c] # NoStream
      PROVE  /\ stream[c] \in Streams /\ stream[c].handle \in Handles
             /\ pipe[stream[c].handle].client = c /\ pipe[stream[c].handle].state \notin {"free", "listening"}
  <2>1. stream[c] \in Streams /\ stream[c].handle \in Handles
    BY <1>1, <1>2 DEF StreamTypeOK, Streams
  <2> QED
    BY <1>1, <1>2, <2>1 DEF StreamInv, Peer, KernelInv
<1>3. ASSUME UNCHANGED stream,
             \A c \in Clients : stream[c] # NoStream =>
               /\ pipe'[stream[c].handle].client = c
               /\ stream[c].handle \notin {next', after'}
      PROVE  StreamInv'
  BY <1>1, <1>3 DEF StreamInv, Peer
<1>4. ASSUME NEW a \in Accepters, MakeInstance(a)
      PROVE  StreamInv'
  <2>1. UNCHANGED <<stream, next>>
    BY <1>4 DEF MakeInstance, GiveUp
  <2>2. CASE UNCHANGED <<pipe, after>>
    BY <1>1, <1>3, <2>1, <2>2 DEF StreamInv, Peer
  <2>3. CASE \E h \in FreeHandles : pipe' = [pipe EXCEPT ![h] = Listening] /\ after' = h
    <3>1. PICK h \in Handles : pipe[h].state = "free" /\ pipe' = [pipe EXCEPT ![h] = Listening] /\ after' = h
      BY <2>3 DEF FreeHandles
    <3>2. ASSUME NEW c \in Clients, stream[c] # NoStream
          PROVE  pipe'[stream[c].handle].client = c /\ stream[c].handle \notin {next', after'}
      <4>1. stream[c].handle # h
        BY <1>2, <3>1, <3>2
      <4>2. stream[c].handle # next
        BY <1>1, <3>2 DEF StreamInv
      <4> QED
        BY <1>1, <1>2, <2>1, <3>1, <3>2, <4>1, <4>2 DEF TypeOK
    <3> QED
      BY <1>3, <2>1, <3>2
  <2> QED
    BY <1>4, <2>2, <2>3 DEF MakeInstance
<1>5. ASSUME NEW a \in Accepters, HandOut(a)
      PROVE  StreamInv'
  <2> DEFINE c == pipe[next].client
  <2>1. /\ next \in Handles /\ after \in Handles /\ after # next
        /\ c \in Clients /\ stream[c] = NoStream
    BY <1>5, HandedTo DEF HandOut
  <2>2. CASE /\ stream' = [stream EXCEPT ![c] = NewStream(next)]
             /\ next' = after /\ after' = None /\ UNCHANGED pipe
    <3>1. stream'[c] = NewStream(next) /\ \A d \in Clients \ {c} : stream'[d] = stream[d]
      BY <1>1, <2>1, <2>2 DEF StreamTypeOK
    <3>2. \A d \in Clients : stream[d] # NoStream => stream[d].handle \notin {next', after'}
      BY <1>1, <1>2, <2>1, <2>2 DEF StreamInv
    <3>3. stream'[c].handle = next /\ stream'[c].open = next /\ stream'[c].op = "none"
      BY <3>1 DEF NewStream
    <3> QED
      BY <1>1, <2>1, <2>2, <3>1, <3>2, <3>3 DEF StreamInv, Peer
  <2>3. CASE /\ pipe' = [pipe EXCEPT ![after] = Closed]
             /\ after' = None /\ UNCHANGED <<stream, next>>
    <3>1. ASSUME NEW d \in Clients, stream[d] # NoStream
          PROVE  pipe'[stream[d].handle].client = d /\ stream[d].handle \notin {next', after'}
      <4>1. stream[d].handle \notin {next, after, None}
        BY <1>1, <1>2, <3>1 DEF StreamInv
      <4> QED
        BY <1>1, <1>2, <2>3, <3>1, <4>1 DEF TypeOK
    <3> QED
      BY <1>3, <2>3, <3>1
  <2> QED
    BY <1>5, <2>2, <2>3 DEF HandOut, GiveUp, kernel
<1>6. ASSUME DropListener
      PROVE  StreamInv'
  <2>1. ASSUME NEW d \in Clients, stream[d] # NoStream
        PROVE  pipe'[stream[d].handle].client = d /\ stream[d].handle \notin {next', after'}
    <3>1. stream[d].handle \notin {next, after, None}
      BY <1>1, <1>2, <2>1 DEF StreamInv
    <3> QED
      BY <1>1, <1>2, <1>6, <2>1, <3>1 DEF DropListener, TypeOK
  <2> QED
    BY <1>3, <1>6, <2>1 DEF DropListener
<1>7. ASSUME NEW c \in Clients, OpenIdentifying(c)
      PROVE  StreamInv'
  <2>1. UNCHANGED <<stream, next, after>>
    BY <1>7 DEF OpenIdentifying, listener
  <2>2. \/ UNCHANGED pipe
        \/ \E h \in Handles : /\ pipe[h].state = "listening"
                              /\ pipe' = [pipe EXCEPT ![h] = [state |-> "connected", client |-> c]]
    BY <1>7 DEF OpenIdentifying, Reachable
  <2>3. ASSUME NEW d \in Clients, stream[d] # NoStream
        PROVE  pipe'[stream[d].handle].client = d /\ stream[d].handle \notin {next', after'}
    BY <1>1, <1>2, <2>1, <2>2, <2>3 DEF StreamInv, TypeOK
  <2> QED
    BY <1>3, <2>1, <2>3
<1>8. ASSUME NEW c \in Clients, ClientCloses(c)
      PROVE  StreamInv'
  <2>1. UNCHANGED <<stream, next, after>>
    BY <1>8 DEF ClientCloses, listener
  <2>2. \A h \in Handles : pipe'[h].client = pipe[h].client
    BY <1>1, <1>8 DEF ClientCloses, TypeOK
  <2>3. ASSUME NEW d \in Clients, stream[d] # NoStream
        PROVE  pipe'[stream[d].handle].client = d /\ stream[d].handle \notin {next', after'}
    BY <1>1, <1>2, <2>1, <2>2, <2>3 DEF StreamInv
  <2> QED
    BY <1>3, <2>1, <2>3
<1>9. ASSUME CancelIo \/ \E c \in Clients : StartRead(c) \/ ReadEnds(c)
      PROVE  StreamInv'
  <2>1. UNCHANGED <<pipe, next, after>>
    BY <1>9 DEF CancelIo, StartRead, ReadEnds, kernel, listener
  <2>2. \A d \in Clients : stream'[d].op \in {"lent", "small", "large"} => stream'[d].ahead = <<>>
    <3>1. ASSUME NEW d \in Clients, stream'[d] = stream[d]
          PROVE  stream'[d].op \in {"lent", "small", "large"} => stream'[d].ahead = <<>>
      BY <1>1, <3>1 DEF StreamInv, NoStream
    <3>2. CASE CancelIo
      <4>1. ASSUME NEW d \in Clients, stream'[d] # stream[d]
            PROVE  stream'[d].op = "none"
        <5>1. /\ stream[d].op \in {"lent", "small", "large"}
              /\ stream'[d] = [stream[d] EXCEPT !.op = "none"]
          BY <3>2, <4>1 DEF CancelIo
        <5>2. stream[d] \in Streams
          BY <1>1, <5>1 DEF StreamTypeOK, NoStream
        <5> QED
          BY <5>1, <5>2 DEF Streams
      <4> QED
        BY <3>1, <4>1
    <3>3. ASSUME NEW c \in Clients, StartRead(c) \/ ReadEnds(c), NEW d \in Clients
          PROVE  stream'[d].op \in {"lent", "small", "large"} => stream'[d].ahead = <<>>
      <4>1. /\ stream[c] \in Streams
            /\ \E op \in Ops \ {"cleared"} : \E back, ahead, rest \in Seq(Nat) :
                 ReadTo(c, op, back, ahead, rest)
        BY <1>1, <3>3, StartReadShape, ReadEndsShape
      <4>2. PICK op \in Ops \ {"cleared"}, ahead \in Seq(Nat) :
              /\ stream' = [stream EXCEPT ![c] = [stream[c] EXCEPT !.op = op, !.ahead = ahead]]
              /\ op # "none" => ahead = <<>>
        BY <4>1 DEF ReadTo
      <4>3. CASE d = c
        <5>1. stream'[d].op = op /\ stream'[d].ahead = ahead
          BY <1>1, <4>1, <4>2, <4>3 DEF Streams, StreamTypeOK
        <5> QED
          BY <4>2, <5>1
      <4>4. CASE d # c
        BY <1>1, <3>1, <4>2, <4>4 DEF StreamTypeOK
      <4> QED
        BY <4>3, <4>4
    <3> QED
      BY <1>9, <3>2, <3>3
  <2>3. \A d \in Clients :
          /\ stream'[d] = NoStream <=> stream[d] = NoStream
          /\ stream'[d].handle = stream[d].handle /\ stream'[d].open = stream[d].open
          /\ stream'[d].op = "cleared" <=> stream[d].op = "cleared"
    BY <1>9, SameInstances
  <2> QED
    BY <1>1, <2>1, <2>2, <2>3 DEF StreamInv, Peer
<1>10. ASSUME NEW c \in Clients, DropClears(c)
       PROVE  StreamInv'
  <2>1. UNCHANGED <<pipe, next, after>> /\ stream[c].op = "none"
    BY <1>10 DEF DropClears, kernel, listener
  <2>2. stream[c] \in Streams /\ stream[c] # NoStream
    BY <1>1, <2>1 DEF StreamTypeOK, NoStream
  <2>3. /\ stream'[c].op = "cleared" /\ stream'[c].open = None /\ stream'[c].handle = stream[c].handle
        /\ \A d \in Clients \ {c} : stream'[d] = stream[d]
    BY <1>1, <1>10, <2>2 DEF DropClears, StreamTypeOK, Streams
  <2> QED
    BY <1>1, <2>1, <2>2, <2>3 DEF StreamInv, Peer
<1>11. ASSUME NEW c \in Clients, DropCloses(c)
       PROVE  StreamInv'
  <2>1. UNCHANGED <<next, after>> /\ stream[c] # NoStream
    BY <1>11 DEF DropCloses, listener, NoStream
  <2>2. stream'[c] = NoStream /\ \A d \in Clients \ {c} : stream'[d] = stream[d]
    BY <1>1, <1>11 DEF DropCloses, StreamTypeOK
  <2>3. ASSUME NEW d \in Clients \ {c}, stream[d] # NoStream
        PROVE  pipe'[stream[d].handle] = pipe[stream[d].handle]
    <3>1. stream[d].handle # stream[c].handle
      BY <1>2, <2>1, <2>3
    <3> QED
      BY <1>1, <1>2, <1>11, <2>3, <3>1 DEF DropCloses, TypeOK
  <2> QED
    BY <1>1, <2>1, <2>2, <2>3 DEF StreamInv, Peer
<1>12. (\/ Over \/ UNCHANGED vars
        \/ \E a \in Accepters : StartAccept(a) \/ AcceptReached(a) \/ AcceptDeadline(a) \/ AcceptCancelled(a)
        \/ \E c \in Clients : \/ WaitFree(c) \/ WaitReturns(c) \/ Tick(c) \/ ClientWrites(c) \/ CancelLocks(c))
         => UNCHANGED <<pipe, next, after, stream>>
  BY DEF Over, vars, StartAccept, AcceptReached, AcceptDeadline, AcceptCancelled, WaitFree,
         WaitReturns, Tick, ClientWrites, CancelLocks, kernel, listener
<1>13. UNCHANGED <<pipe, next, after, stream>> => StreamInv'
  BY <1>1 DEF StreamInv, Peer
<1> QED
  BY <1>4, <1>5, <1>6, <1>7, <1>8, <1>9, <1>10, <1>11, <1>12, <1>13, Zenon
     DEF Next, AcceptStep, ConnectStep

\* A cancel holds what its stream's cell held when it took the lock.
LEMMA CancelStep ==
  ASSUME IInv, [Next]_vars
  PROVE  CancelInv'
<1> USE NoneAssumption
<1>1. TypeOK /\ StreamTypeOK /\ StreamInv /\ CancelInv
  BY DEF IInv
<1>2. ASSUME UNCHANGED cancelling, cancelling # NoCancel =>
               stream'[cancelling.client].open = stream[cancelling.client].open
      PROVE  CancelInv'
  BY <1>1, <1>2 DEF CancelInv
<1>3. cancelling # NoCancel => /\ cancelling.client \in Clients /\ cancelling.handle \in Handles
                               /\ stream[cancelling.client].open # None
  BY <1>1 DEF CancelInv, StreamTypeOK
<1>4. ASSUME NEW a \in Accepters, HandOut(a)
      PROVE  CancelInv'
  <2>1. UNCHANGED cancelling /\ (UNCHANGED stream \/ stream' = [stream EXCEPT ![pipe[next].client] = NewStream(next)])
    BY <1>4 DEF HandOut, GiveUp
  <2>2. stream[pipe[next].client] = NoStream
    BY <1>4, HandedTo DEF HandOut
  <2>3. stream[pipe[next].client].open = None
    BY <2>2 DEF NoStream
  <2>4. cancelling # NoCancel => stream'[cancelling.client] = stream[cancelling.client]
    BY <1>1, <1>3, <2>1, <2>3 DEF StreamTypeOK
  <2> QED
    BY <1>2, <2>1, <2>4
<1>5. ASSUME CancelIo
      PROVE  CancelInv'
  BY <1>5 DEF CancelIo, CancelInv
<1>6. ASSUME NEW c \in Clients, StartRead(c) \/ ReadEnds(c)
      PROVE  CancelInv'
  <2>1. UNCHANGED cancelling
    BY <1>6 DEF StartRead, ReadEnds
  <2>2. \A d \in Clients : stream'[d].open = stream[d].open
    BY <1>6, SameInstances
  <2> QED
    BY <1>2, <1>3, <2>1, <2>2
<1>7. ASSUME NEW c \in Clients, CancelLocks(c)
      PROVE  CancelInv'
  BY <1>7 DEF CancelLocks, CancelInv
<1>8. ASSUME NEW c \in Clients, DropClears(c)
      PROVE  CancelInv'
  <2>1. UNCHANGED cancelling /\ (cancelling # NoCancel => cancelling.client # c)
    BY <1>8 DEF DropClears, CellLocked
  <2>2. \A d \in Clients \ {c} : stream'[d] = stream[d]
    BY <1>1, <1>8 DEF DropClears, StreamTypeOK
  <2> QED
    BY <1>2, <1>3, <2>1, <2>2
<1>9. ASSUME NEW c \in Clients, DropCloses(c)
      PROVE  CancelInv'
  <2>1. UNCHANGED cancelling /\ stream[c].op = "cleared"
    BY <1>9 DEF DropCloses
  <2>2. \A d \in Clients \ {c} : stream'[d] = stream[d]
    BY <1>1, <1>9 DEF DropCloses, StreamTypeOK
  <2>3. stream[c].open = None
    BY <1>1, <2>1 DEF StreamInv, NoStream
  <2> QED
    BY <1>2, <1>3, <2>1, <2>2, <2>3
<1>10. (\/ DropListener \/ Over \/ UNCHANGED vars
        \/ \E a \in Accepters : \/ StartAccept(a) \/ AcceptReached(a) \/ AcceptDeadline(a)
                                \/ AcceptCancelled(a) \/ MakeInstance(a)
        \/ \E c \in Clients : ConnectStep(c) \/ ClientWrites(c) \/ ClientCloses(c))
         => UNCHANGED <<stream, cancelling>>
  BY DEF DropListener, Over, vars, StartAccept, AcceptReached, AcceptDeadline, AcceptCancelled,
         MakeInstance, GiveUp, ConnectStep, OpenIdentifying, WaitFree, WaitReturns, Tick,
         ClientWrites, ClientCloses
<1>11. UNCHANGED <<stream, cancelling>> => CancelInv'
  BY <1>1 DEF CancelInv
<1> QED
  BY <1>4, <1>5, <1>6, <1>7, <1>8, <1>9, <1>10, <1>11, Zenon DEF Next, AcceptStep

\* A wait is given what is left of the patience and never more.
LEMMA PatienceStep ==
  ASSUME IInv, [Next]_vars
  PROVE  PatienceInv'
<1> USE SizesAssumption, ClientsAssumption
<1>1. StreamTypeOK /\ PatienceInv
  BY DEF IInv
<1>2. ASSUME NEW c \in Clients, NEW m, NEW n,
             left' = [left EXCEPT ![c] = m], elapsed' = [elapsed EXCEPT ![c] = n],
             c \in Limited => n + m <= Patience
      PROVE  PatienceInv'
  <2>1. ASSUME NEW d \in Limited PROVE elapsed'[d] + left'[d] <= Patience
    <3>1. CASE d = c
      BY <1>1, <1>2, <3>1 DEF StreamTypeOK
    <3>2. CASE d # c
      BY <1>1, <1>2, <3>2 DEF StreamTypeOK, PatienceInv
    <3> QED
      BY <3>1, <3>2
  <2> QED
    BY <2>1 DEF PatienceInv
<1>3. ASSUME NEW c \in Clients
      PROVE  /\ left[c] \in Nat /\ elapsed[c] \in Nat /\ (c \in Limited => elapsed[c] + left[c] <= Patience)
             /\ left = [left EXCEPT ![c] = left[c]] /\ elapsed = [elapsed EXCEPT ![c] = elapsed[c]]
  BY <1>1 DEF StreamTypeOK, PatienceInv
<1>4. ASSUME NEW c \in Clients, OpenIdentifying(c)
      PROVE  PatienceInv'
  <2>1. UNCHANGED left /\ (UNCHANGED elapsed \/ elapsed' = [elapsed EXCEPT ![c] = 0])
    BY <1>4 DEF OpenIdentifying
  <2>2. CASE UNCHANGED elapsed
    BY <1>1, <2>1, <2>2 DEF PatienceInv
  <2>3. CASE elapsed' = [elapsed EXCEPT ![c] = 0]
    <3>1. c \in Limited => 0 + left[c] <= Patience
      BY <1>3
    <3> QED
      BY <1>2, <1>3, <2>1, <2>3, <3>1, Zenon
  <2> QED
    BY <2>1, <2>2, <2>3
<1>5. ASSUME NEW c \in Clients, WaitFree(c)
      PROVE  PatienceInv'
  <2> DEFINE m == IF c \in Limited THEN Left(c) ELSE 0
  <2>1. left' = [left EXCEPT ![c] = m] /\ UNCHANGED elapsed
    BY <1>5 DEF WaitFree
  <2>2. c \in Limited => elapsed[c] + m <= Patience
    BY <1>3 DEF Left
  <2> HIDE DEF m
  <2> QED
    BY <1>2, <1>3, <2>1, <2>2, Zenon
<1>6. ASSUME NEW c \in Clients, WaitReturns(c)
      PROVE  PatienceInv'
  <2>1. left' = [left EXCEPT ![c] = 0] /\ UNCHANGED elapsed
    BY <1>6 DEF WaitReturns
  <2>2. c \in Limited => elapsed[c] + 0 <= Patience
    BY <1>3
  <2> QED
    BY <1>2, <1>3, <2>1, <2>2, Zenon
<1>7. ASSUME NEW c \in Clients, Tick(c)
      PROVE  PatienceInv'
  <2>1. left' = [left EXCEPT ![c] = left[c] - 1] /\ elapsed' = [elapsed EXCEPT ![c] = elapsed[c] + 1]
    BY <1>7 DEF Tick
  <2>2. c \in Limited => (elapsed[c] + 1) + (left[c] - 1) <= Patience
    BY <1>3
  <2> QED
    BY <1>2, <2>1, <2>2, Zenon
<1>8. (\/ DropListener \/ CancelIo \/ Over \/ UNCHANGED vars
       \/ \E a \in Accepters : StartAccept(a) \/ AcceptStep(a)
       \/ \E c \in Clients : \/ ClientWrites(c) \/ ClientCloses(c) \/ StartRead(c) \/ ReadEnds(c)
                             \/ CancelLocks(c) \/ DropClears(c) \/ DropCloses(c))
        => UNCHANGED <<left, elapsed>>
  BY DEF DropListener, CancelIo, Over, vars, StartAccept, AcceptStep, AcceptReached, AcceptDeadline,
         AcceptCancelled, MakeInstance, HandOut, GiveUp, ClientWrites, ClientCloses, StartRead,
         ReadEnds, CancelLocks, DropClears, DropCloses, clients
<1>9. UNCHANGED <<left, elapsed>> => PatienceInv'
  BY <1>1 DEF PatienceInv
<1> QED
  BY <1>4, <1>5, <1>6, <1>7, <1>8, <1>9, Zenon DEF Next, ConnectStep

-----------------------------------------------------------------------------
(* What a stream reads.                                                    *)

\* Reads move octets from the pipe to the read ahead and to the reader, and
\* a client's write appends one: in every order the same octets, each once.
LEMMA OctetsStep ==
  ASSUME IInv, [Next]_vars
  PROVE  OctetsInv'
<1> USE NoneAssumption, SizesAssumption
<1>1. TypeOK /\ StreamTypeOK /\ KernelInv /\ ListenerInv /\ StreamInv /\ OctetsInv
  BY DEF IInv
<1>2. ASSUME NEW c \in Clients
      PROVE  /\ got[c] \in Seq(Nat) /\ data[c] \in Seq(Nat) /\ stream[c].ahead \in Seq(Nat)
             /\ wrote[c] \in Nat
  <2>1. <<>> \in Seq(Nat)
    OBVIOUS
  <2> QED
    <3>1. NoStream.ahead = <<>>
      BY DEF NoStream
    <3>2. stream[c] \in Streams => stream[c].ahead \in Seq(Nat)
      BY DEF Streams
    <3>3. stream[c] \in Streams \cup {NoStream}
      BY <1>1 DEF StreamTypeOK
    <3>4. stream[c].ahead \in Seq(Nat)
      BY <2>1, <3>1, <3>2, <3>3
    <3> QED
      BY <1>1, <3>4 DEF StreamTypeOK
<1>3. ASSUME UNCHANGED <<wrote, data, got, conn, stream>>,
             \A c \in Clients : InstanceOf(c)' \subseteq InstanceOf(c)
      PROVE  OctetsInv'
  BY <1>1, <1>3 DEF OctetsInv
<1>4. ASSUME NEW a \in Accepters, MakeInstance(a) \/ HandOut(a)
      PROVE  UNCHANGED <<wrote, data, got, conn>> /\ \A c \in Clients : InstanceOf(c)' \subseteq InstanceOf(c)
  <2>1. UNCHANGED <<wrote, data, got, conn>>
    BY <1>4 DEF MakeInstance, HandOut, GiveUp, kernel, clients
  <2>2. UNCHANGED pipe \/ \E h : pipe' = [pipe EXCEPT ![h] = Listening] \/ pipe' = [pipe EXCEPT ![h] = Closed]
    BY <1>4 DEF MakeInstance, HandOut, GiveUp, kernel
  <2> QED
    BY <1>1, <2>1, <2>2 DEF InstanceOf, Listening, Closed, TypeOK
<1>5. ASSUME NEW a \in Accepters, HandOut(a), ~UNCHANGED stream
      PROVE  OctetsInv'
  <2> DEFINE c == pipe[next].client
  <2>1. c \in Clients /\ stream[c] = NoStream
    BY <1>5, HandedTo DEF HandOut
  <2>2. stream' = [stream EXCEPT ![c] = NewStream(next)]
    BY <1>5 DEF HandOut, GiveUp
  <2>3. stream'[c] = NewStream(next) /\ \A d \in Clients \ {c} : stream'[d] = stream[d]
    BY <1>1, <2>1, <2>2 DEF StreamTypeOK
  <2>4. stream'[c].ahead = <<>> /\ stream[c].ahead = <<>> /\ stream'[c] # NoStream
    BY <2>1, <2>3 DEF NewStream, NoStream
  <2> HIDE DEF c
  <2> QED
    BY <1>1, <1>4, <1>5, <2>1, <2>3, <2>4 DEF OctetsInv
<1>6. ASSUME DropListener
      PROVE  OctetsInv'
  <2>1. \A c \in Clients : InstanceOf(c)' \subseteq InstanceOf(c)
    BY <1>1, <1>6 DEF DropListener, InstanceOf, Closed, TypeOK
  <2> QED
    BY <1>3, <1>6, <2>1 DEF DropListener, clients
<1>7. ASSUME NEW c \in Clients, ConnectStep(c)
      PROVE  OctetsInv'
  <2>1. UNCHANGED <<wrote, data, got, stream>>
    BY <1>7 DEF ConnectStep, OpenIdentifying, WaitFree, WaitReturns, Tick, kernel
  <2>2. conn[c] \in {"opening", "busy", "waiting"}
    BY <1>7 DEF ConnectStep, OpenIdentifying, WaitFree, WaitReturns, Tick
  <2>3. \A d \in Clients \ {c} : conn'[d] = conn[d]
    BY <1>1, <1>7 DEF ConnectStep, OpenIdentifying, WaitFree, WaitReturns, Tick, TypeOK
  <2>4. \A d \in Clients \ {c} : InstanceOf(d)' \subseteq InstanceOf(d)
    <3>1. UNCHANGED pipe \/ \E h : pipe' = [pipe EXCEPT ![h] = [state |-> "connected", client |-> c]]
      BY <1>7 DEF ConnectStep, OpenIdentifying, WaitFree, WaitReturns, Tick, kernel
    <3> QED
      BY <1>1, <3>1 DEF InstanceOf, TypeOK
  <2>5. wrote[c] = 0 /\ data[c] = <<>>
    BY <1>1, <2>2 DEF OctetsInv
  <2>6. stream[c] = NoStream
    <3>1. SUFFICES ASSUME stream[c] # NoStream PROVE FALSE
      OBVIOUS
    <3>2. stream[c].handle \in Handles /\ pipe[stream[c].handle].client = c
      BY <1>1, <3>1 DEF StreamTypeOK, Streams, StreamInv, Peer
    <3>3. conn[c] \in {"in", "closed"}
      BY <1>1, <3>2 DEF KernelInv, TypeOK
    <3> QED
      BY <2>2, <3>3
  <2>7. got[c] = <<>> /\ stream[c].ahead = <<>>
    <3>1. NoStream.ahead = <<>>
      BY DEF NoStream
    <3> QED
      BY <1>1, <2>6, <3>1 DEF OctetsInv
  <2>8. (got[c] \o stream[c].ahead) \o data[c] = [i \in 1..wrote[c] |-> i]
    <3>1. (<<>> \o <<>>) \o <<>> = [i \in 1..0 |-> i]
      OBVIOUS
    <3> QED
      BY <2>5, <2>7, <3>1, Zenon
  <2> QED
    BY <1>1, <2>1, <2>3, <2>4, <2>5, <2>7, <2>8 DEF OctetsInv
<1>8. ASSUME NEW c \in Clients, ClientWrites(c)
      PROVE  OctetsInv'
  <2>1. /\ conn[c] = "in" /\ InstanceOf(c) # {} /\ UNCHANGED <<pipe, conn, stream, got>>
        /\ wrote' = [wrote EXCEPT ![c] = wrote[c] + 1]
        /\ data' = [data EXCEPT ![c] = Append(data[c], wrote[c] + 1)]
    BY <1>8 DEF ClientWrites
  <2> DEFINE read == got[c] \o stream[c].ahead
             w == wrote[c]
  <2>2. read \in Seq(Nat) /\ data[c] \in Seq(Nat) /\ w \in Nat /\ read \o data[c] = [i \in 1..w |-> i]
    <3>1. got[c] \in Seq(Nat) /\ stream[c].ahead \in Seq(Nat) /\ data[c] \in Seq(Nat) /\ w \in Nat
      BY <1>2
    <3>2. read \in Seq(Nat)
      BY <3>1
    <3>3. read \o data[c] = [i \in 1..w |-> i]
      BY <1>1, <2>1, Zenon DEF OctetsInv
    <3> QED
      BY <3>1, <3>2, <3>3
  <2>3. /\ wrote'[c] = w + 1 /\ data'[c] = Append(data[c], w + 1)
        /\ \A d \in Clients \ {c} : wrote'[d] = wrote[d] /\ data'[d] = data[d]
    BY <1>1, <2>1 DEF StreamTypeOK
  <2> HIDE DEF read, w
  <2>4. read \o Append(data[c], w + 1) = [i \in 1..w + 1 |-> i]
    <3>1. Cat(read, data[c]) = Upto(w)
      BY <2>2 DEF Cat, Upto
    <3>2. Cat(read, Append(data[c], w + 1)) = Upto(w + 1)
      BY <2>2, <3>1, WrittenNext
    <3> QED
      BY <3>2 DEF Cat, Upto
  <2>5. InstanceOf(c)' = InstanceOf(c) /\ \A d \in Clients : InstanceOf(d)' = InstanceOf(d)
    BY <2>1 DEF InstanceOf
  <2>6. (got[c] \o stream[c].ahead) \o data'[c] = [i \in 1..wrote'[c] |-> i]
    BY <2>3, <2>4, Zenon DEF read
  <2> QED
    BY <1>1, <2>1, <2>3, <2>5, <2>6 DEF OctetsInv
<1>9. ASSUME NEW c \in Clients, ClientCloses(c)
      PROVE  OctetsInv'
  <2>1. UNCHANGED <<wrote, data, got, stream>> /\ conn[c] = "in"
    BY <1>9 DEF ClientCloses
  <2>2. conn'[c] = "closed" /\ \A d \in Clients \ {c} : conn'[d] = conn[d]
    BY <1>1, <1>9 DEF ClientCloses, TypeOK
  <2>3. \A d \in Clients : InstanceOf(d)' = InstanceOf(d)
    <3>1. \A h \in Handles : pipe'[h].client = pipe[h].client
      BY <1>1, <1>9 DEF ClientCloses, TypeOK
    <3> QED
      BY <3>1 DEF InstanceOf
  <2> QED
    BY <1>1, <2>1, <2>2, <2>3 DEF OctetsInv
<1>10. ASSUME NEW c \in Clients, StartRead(c) \/ ReadEnds(c)
       PROVE  OctetsInv'
  <2>1. UNCHANGED <<pipe, conn, wrote>> /\ \A d \in Clients : InstanceOf(d)' = InstanceOf(d)
    BY <1>10 DEF StartRead, ReadEnds, kernel, clients, InstanceOf
  <2>2. PICK op \in Ops \ {"cleared"} : \E back, ahead, rest \in Seq(Nat) :
          stream[c] \in Streams /\ ReadTo(c, op, back, ahead, rest)
    BY <1>1, <1>10, StartReadShape, ReadEndsShape
  <2>3. PICK back \in Seq(Nat), ahead \in Seq(Nat), rest \in Seq(Nat) :
          stream[c] \in Streams /\ ReadTo(c, op, back, ahead, rest)
    BY <2>2
  <2>4. /\ stream'[c] # NoStream /\ stream'[c].ahead = ahead /\ got'[c] = got[c] \o back /\ data'[c] = rest
        /\ \A d \in Clients \ {c} : stream'[d] = stream[d] /\ got'[d] = got[d] /\ data'[d] = data[d]
    <3>1. stream'[c] = [stream[c] EXCEPT !.op = op, !.ahead = ahead]
      BY <1>1, <2>3 DEF ReadTo, StreamTypeOK
    <3>2. stream'[c].ahead = ahead /\ stream'[c].op # "gone"
      BY <2>3, <3>1 DEF Streams, Ops
    <3>3. stream'[c] # NoStream
      BY <3>2 DEF NoStream
    <3> QED
      BY <1>1, <2>3, <3>2, <3>3 DEF ReadTo, StreamTypeOK
  <2>5. conn[c] \in {"in", "closed"}
    <3>1. stream[c] # NoStream /\ stream[c].handle \in Handles
      BY <2>3 DEF Streams, Ops, NoStream
    <3>2. pipe[stream[c].handle].client = c
      BY <1>1, <3>1 DEF StreamInv, Peer
    <3> QED
      BY <1>1, <3>1, <3>2 DEF KernelInv, TypeOK
  <2>6. ((got[c] \o back) \o ahead) \o rest = (got[c] \o stream[c].ahead) \o data[c]
    <3> DEFINE read == got[c]
               was  == stream[c].ahead
               in   == data[c]
    <3>1. read \in Seq(Nat) /\ was \in Seq(Nat) /\ in \in Seq(Nat)
      BY <1>2
    <3>2. Cat(Cat(back, ahead), rest) = Cat(was, in)
      BY <2>3 DEF ReadTo, Cat
    <3> HIDE DEF read, was, in
    <3>3. Cat(Cat(Cat(read, back), ahead), rest) = Cat(Cat(read, was), in)
      BY <3>1, <3>2, Assoc
    <3> QED
      BY <3>3 DEF Cat, read, was, in
  <2> QED
    BY <1>1, <2>1, <2>4, <2>5, <2>6 DEF OctetsInv
<1>11. ASSUME UNCHANGED <<pipe, conn, wrote, data, got>>,
              \A d \in Clients : /\ stream'[d] = NoStream => stream[d] = NoStream
                                 /\ stream'[d].ahead = stream[d].ahead
       PROVE  OctetsInv'
  BY <1>1, <1>11 DEF OctetsInv, InstanceOf
<1>12. ASSUME CancelIo
       PROVE  OctetsInv'
  <2>1. UNCHANGED <<pipe, conn, wrote, data, got>>
    BY <1>12 DEF CancelIo, kernel, clients
  <2>2. ASSUME NEW d \in Clients
        PROVE  stream'[d].ahead = stream[d].ahead
    BY <1>1, <1>12 DEF CancelIo, StreamTypeOK, Streams, NoStream
  <2> QED
    BY <1>11, <1>12, <2>1, <2>2, SameInstances
<1>13. ASSUME NEW c \in Clients, DropClears(c)
       PROVE  OctetsInv'
  <2>1. UNCHANGED <<pipe, conn, wrote, data, got>> /\ stream[c] \in Streams
    BY <1>1, <1>13 DEF DropClears, kernel, clients, StreamTypeOK, NoStream
  <2>2. /\ stream'[c].op = "cleared" /\ stream'[c].ahead = stream[c].ahead
        /\ \A d \in Clients \ {c} : stream'[d] = stream[d]
    BY <1>1, <1>13, <2>1 DEF DropClears, StreamTypeOK, Streams
  <2>3. stream'[c] # NoStream
    BY <2>2 DEF NoStream
  <2> QED
    BY <1>11, <2>1, <2>2, <2>3
<1>14. ASSUME NEW c \in Clients, DropCloses(c)
       PROVE  OctetsInv'
  <2>1. stream[c] # NoStream /\ stream[c].handle \in Handles /\ pipe[stream[c].handle].client = c
    BY <1>1, <1>14 DEF DropCloses, StreamTypeOK, Streams, NoStream, StreamInv, Peer
  <2>2. InstanceOf(c)' = {}
    BY <1>1, <1>14, <2>1 DEF DropCloses, InstanceOf, KernelInv, Closed, TypeOK
  <2>3. \A d \in Clients : InstanceOf(d)' \subseteq InstanceOf(d)
    BY <1>1, <1>14 DEF DropCloses, InstanceOf, Closed, TypeOK
  <2>4. /\ got'[c] = <<>> /\ data'[c] = <<>> /\ UNCHANGED <<conn, wrote>>
        /\ \A d \in Clients \ {c} : stream'[d] = stream[d] /\ got'[d] = got[d] /\ data'[d] = data[d]
    BY <1>1, <1>14 DEF DropCloses, StreamTypeOK, clients
  <2> QED
    BY <1>1, <2>2, <2>3, <2>4 DEF OctetsInv
<1>15. (\/ Over \/ UNCHANGED vars
        \/ \E a \in Accepters : StartAccept(a) \/ AcceptReached(a) \/ AcceptDeadline(a) \/ AcceptCancelled(a)
        \/ \E c \in Clients : CancelLocks(c))
         => UNCHANGED <<pipe, conn, wrote, data, got, stream>>
  BY DEF Over, vars, StartAccept, AcceptReached, AcceptDeadline, AcceptCancelled, CancelLocks,
         kernel, clients
<1>16. UNCHANGED <<pipe, conn, wrote, data, got, stream>> => OctetsInv'
  BY <1>1 DEF OctetsInv, InstanceOf
<1>17. ASSUME NEW a \in Accepters, MakeInstance(a) \/ HandOut(a)
       PROVE  OctetsInv'
  <2>1. MakeInstance(a) => UNCHANGED stream
    BY DEF MakeInstance, GiveUp
  <2> QED
    BY <1>3, <1>4, <1>5, <1>17, <2>1
<1> QED
  BY <1>6, <1>7, <1>8, <1>9, <1>10, <1>12, <1>13, <1>14, <1>15, <1>16, <1>17, Zenon
     DEF Next, AcceptStep

-----------------------------------------------------------------------------
(* The theorems.                                                           *)

\* All that was shown to be inductive holds throughout.
LEMMA Throughout == Spec => []IInv
<1>1. IInv /\ [Next]_vars => IInv'
  BY TypeStep, StreamTypeStep, KernelStep, ListenerStep, StreamStep, CancelStep, PatienceStep,
     OctetsStep DEF IInv
<1> QED
  BY <1>1, InitInv, PTL DEF Spec

\* Of any number of clients, accepting threads and handles: the state keeps
\* its types, and the mutex is held by the one accept under way.
THEOREM PipeTypeCorrect == Spec => []TypeOK
<1>1. IInv => TypeOK
  BY DEF IInv
<1> QED
  BY <1>1, Throughout, PTL

\* "One client is one connection": a Stream has the instance its own client
\* reached, and shares it neither with another stream nor with the listener,
\* however accepts time out or fail and handles are used again.
THEOREM OneClientOneConnection == Spec => []OneConnection
<1>1. IInv => OneConnection
  <2>1. SUFFICES ASSUME IInv, NEW c \in Clients, stream[c] # NoStream
                 PROVE  /\ Peer(c).client = c /\ stream[c].handle \notin {next, after}
                        /\ \A d \in Clients \ {c} : stream[d].handle # stream[c].handle
    BY DEF OneConnection
  <2>2. ASSUME NEW d \in Clients, stream[d] # NoStream
        PROVE  Peer(d).client = d /\ stream[d].handle \in Handles
    BY <2>1, <2>2 DEF IInv, StreamInv, StreamTypeOK, Streams
  <2>3. NoStream.handle = None
    BY DEF NoStream
  <2>4. ASSUME NEW d \in Clients \ {c} PROVE stream[d].handle # stream[c].handle
    BY <2>1, <2>2, <2>3, NoneAssumption DEF Peer
  <2> QED
    BY <2>1, <2>4 DEF IInv, StreamInv
<1> QED
  BY <1>1, Throughout, PTL

\* A cancel ends a read of the stream it was made for and of no other: the
\* handle it holds cannot have been closed and given out again meanwhile.
THEOREM CancelOwnOnly == Spec => []CancelReachesOwn
<1>1. IInv => CancelReachesOwn
  <2>1. SUFFICES ASSUME IInv, cancelling # NoCancel
                 PROVE  /\ stream[cancelling.client].handle = cancelling.handle
                        /\ pipe[cancelling.handle].client = cancelling.client
    BY DEF CancelReachesOwn
  <2> DEFINE c == cancelling.client
  <2>2. c \in Clients /\ cancelling.handle \in Handles /\ stream[c].open = cancelling.handle
    BY <2>1 DEF IInv, StreamTypeOK, CancelInv
  <2>3. NoStream.open = None
    BY DEF NoStream
  <2>4. stream[c] # NoStream /\ stream[c].open # None
    BY <2>2, <2>3, NoneAssumption
  <2> HIDE DEF c
  <2>5. stream[c].open = stream[c].handle /\ pipe[stream[c].handle].client = c
    BY <2>1, <2>2, <2>4 DEF IInv, StreamInv, Peer
  <2> QED
    BY <2>2, <2>5 DEF c
<1> QED
  BY <1>1, Throughout, PTL

\* What a stream's reads returned, what it read ahead and what is still in
\* the pipe are the octets its client wrote, in order and each once, however
\* lent, reads of any size, cancels and the client's writes follow each other.
THEOREM ReadInOrder == Spec => []ReadAsWritten
<1>1. IInv => ReadAsWritten
  <2>1. SUFFICES ASSUME IInv, NEW c \in Clients, stream[c] # NoStream
                 PROVE  got[c] \o stream[c].ahead \o data[c] = [i \in 1..wrote[c] |-> i]
    BY DEF ReadAsWritten
  <2>2. stream[c].handle \in InstanceOf(c)
    BY <2>1 DEF IInv, StreamInv, StreamTypeOK, Streams, Peer, InstanceOf
  <2> QED
    BY <2>1, <2>2, Zenon DEF IInv, OctetsInv
<1> QED
  BY <1>1, Throughout, PTL

\* A connect with a patience never takes longer, whatever the patience and
\* however often another client reached the free instance first.
THEOREM PatienceKept == Spec => []WithinPatience
<1>1. IInv => WithinPatience
  BY ClientsAssumption, SizesAssumption DEF IInv, PatienceInv, StreamTypeOK, WithinPatience
<1> QED
  BY <1>1, Throughout, PTL

\* A failure after the client came leaves the instance it reached as it was:
\* the one made to follow it is another, and what closes.
LEMMA GivenUpNext ==
  ASSUME IInv, NEW a \in Accepters, MakeInstance(a) \/ HandOut(a), GiveUp(a), next \in Handles
  PROVE  pipe'[next] = pipe[next]
<1>1. CASE MakeInstance(a)
  BY <1>1 DEF MakeInstance, GiveUp
<1>2. CASE HandOut(a)
  <2>1. after # next /\ DOMAIN pipe = Handles
    BY <1>2, HandedTo DEF HandOut, IInv, TypeOK
  <2> QED
    BY <1>2, <2>1 DEF HandOut, kernel
<1> QED
  BY <1>1, <1>2

\* No step takes an instance a client reached from the listener but the one
\* that hands it out as that client's Stream, the drop, or the failure that
\* closes the instance made to follow; never one that fails with the client
\* of the instance it accepts.
THEOREM NoClientLost == Spec => HandedOutOrFailed
<1> USE NoneAssumption
<1>1. ASSUME IInv, [Next]_vars, NEW c \in Clients, Unserved(c), ~Unserved(c)'
      PROVE  \/ stream'[c].handle \in InstanceOf(c) \/ DropListener
             \/ failures' > failures /\ next \notin InstanceOf(c)
  <2>1. PICK h \in Handles : pipe[h].client = c /\ h \in {next, after}
    BY <1>1 DEF Unserved, InstanceOf
  <2>2. pipe'[h].client # c \/ h \notin {next', after'}
    BY <1>1, <2>1 DEF Unserved, InstanceOf
  <2>3. pipe[h].state \in {"connected", "gone"}
    BY <1>1, <2>1 DEF IInv, KernelInv, TypeOK
  <2>4. ASSUME UNCHANGED <<next, after>>, pipe'[h].client = pipe[h].client
        PROVE  FALSE
    BY <2>1, <2>2, <2>4
  <2>5. ASSUME NEW a \in Accepters, MakeInstance(a) \/ HandOut(a), GiveUp(a)
        PROVE  failures' > failures /\ next \notin InstanceOf(c)
    <3>1. failures' > failures /\ UNCHANGED next
      BY <1>1, <2>5, SizesAssumption DEF GiveUp, IInv, TypeOK
    <3>2. next \in Handles => pipe'[next] = pipe[next]
      BY <1>1, <2>5, GivenUpNext, Zenon
    <3>3. next \in InstanceOf(c) => Unserved(c)'
      BY <3>1, <3>2 DEF InstanceOf, Unserved
    <3> QED
      BY <1>1, <3>1, <3>3
  <2>6. ASSUME NEW a \in Accepters, MakeInstance(a), ~GiveUp(a)
        PROVE  FALSE
    <3>1. after = None /\ UNCHANGED next
      BY <1>1, <2>6, OneAccepts DEF MakeInstance, IInv, TypeOK
    <3>2. PICK k \in Handles : pipe[k].state = "free" /\ pipe' = [pipe EXCEPT ![k] = Listening]
      BY <2>6 DEF MakeInstance, FreeHandles
    <3>3. k # h /\ pipe'[h] = pipe[h]
      BY <1>1, <2>3, <3>2 DEF IInv, TypeOK
    <3> QED
      BY <2>1, <2>2, <3>1, <3>3
  <2>7. ASSUME NEW a \in Accepters, HandOut(a), ~GiveUp(a)
        PROVE  stream'[c].handle \in InstanceOf(c)
    <3>1. /\ stream' = [stream EXCEPT ![pipe[next].client] = NewStream(next)]
          /\ next' = after /\ UNCHANGED pipe
      BY <2>7 DEF HandOut, kernel
    <3>2. h = next /\ pipe[next].client = c
      BY <2>1, <2>2, <3>1
    <3>3. stream'[c] = NewStream(next)
      BY <1>1, <3>1, <3>2 DEF IInv, StreamTypeOK
    <3> QED
      BY <2>1, <3>2, <3>3 DEF NewStream, InstanceOf
  <2>8. ASSUME NEW d \in Clients, OpenIdentifying(d)
        PROVE  FALSE
    <3>1. UNCHANGED <<next, after>>
      BY <2>8 DEF OpenIdentifying, listener
    <3>2. UNCHANGED pipe \/ \E k \in Handles : /\ pipe[k].state = "listening"
                                                /\ pipe' = [pipe EXCEPT ![k] = [state |-> "connected", client |-> d]]
      BY <2>8 DEF OpenIdentifying, Reachable
    <3>3. pipe'[h] = pipe[h]
      BY <1>1, <2>3, <3>2 DEF IInv, TypeOK
    <3> QED
      BY <2>4, <3>1, <3>3
  <2>9. ASSUME NEW d \in Clients, ClientCloses(d)
        PROVE  FALSE
    <3>1. UNCHANGED <<next, after>>
      BY <2>9 DEF ClientCloses, listener
    <3>2. pipe'[h].client = pipe[h].client
      BY <1>1, <2>9 DEF ClientCloses, IInv, TypeOK
    <3> QED
      BY <2>4, <3>1, <3>2
  <2>10. ASSUME NEW d \in Clients, DropCloses(d)
         PROVE  FALSE
    <3>1. UNCHANGED <<next, after>> /\ stream[d] # NoStream
      BY <2>10 DEF DropCloses, listener, NoStream
    <3>2. stream[d].handle # h
      BY <1>1, <2>1, <3>1 DEF IInv, StreamInv
    <3>3. pipe'[h] = pipe[h]
      BY <1>1, <2>10, <3>2 DEF DropCloses, IInv, TypeOK
    <3> QED
      BY <2>4, <3>1, <3>3
  <2>11. (\/ CancelIo \/ Over \/ UNCHANGED vars
          \/ \E a \in Accepters : StartAccept(a) \/ AcceptReached(a) \/ AcceptDeadline(a) \/ AcceptCancelled(a)
          \/ \E d \in Clients : \/ WaitFree(d) \/ WaitReturns(d) \/ Tick(d) \/ ClientWrites(d)
                                \/ StartRead(d) \/ ReadEnds(d) \/ CancelLocks(d) \/ DropClears(d))
           => UNCHANGED <<pipe, next, after>>
    BY DEF CancelIo, Over, vars, StartAccept, AcceptReached, AcceptDeadline, AcceptCancelled, WaitFree,
           WaitReturns, Tick, ClientWrites, StartRead, ReadEnds, CancelLocks, DropClears, kernel, listener
  <2>12. UNCHANGED <<pipe, next, after>> => FALSE
    BY <2>4
  <2> QED
    BY <1>1, <2>5, <2>6, <2>7, <2>8, <2>9, <2>10, <2>11, <2>12, Zenon
       DEF Next, AcceptStep, ConnectStep
<1>2. IInv /\ [Next]_vars =>
        [\A c \in Clients : Unserved(c) /\ ~Unserved(c)' =>
           \/ stream'[c].handle \in InstanceOf(c) \/ DropListener
           \/ failures' > failures /\ next \notin InstanceOf(c)]_vars
  BY <1>1
<1> QED
  BY <1>2, Throughout, PTL DEF Spec, HandedOutOrFailed

-----------------------------------------------------------------------------
(***************************************************************************)
(* The FIFO: that a call returns a connection only where another call's    *)
(* open met its own, of any number of accepting threads and clients,       *)
(* whoever gives a time and whenever deadlines pass.                       *)
(***************************************************************************)
(* How far a call and an open come.                                        *)
FifoTypeOK ==
    /\ call \in [Callers -> {"idle", "untimed", "waiting", "releasing", "joining",
                             "connected", "timedout", "failed"}]
    /\ open \in [Opens -> {"none", "starting", "blocked", "open", "failed"}]
    /\ met \in [Callers -> SUBSET Opens]

(* The other end of a call's FIFO is opened only while the call releases   *)
(* its opener, whose connection it will not return.                        *)
ReleasesOwn == \A c \in Callers : open[Release(c)] # "none" => call[c] = "releasing"

(* An open that is open, and whose connection may still be or has been     *)
(* returned, has met another call's.                                       *)
Returnable == {"untimed", "waiting", "connected"}
MetAnother(c) ==
    \/ \E d \in Peers(c) : Own(d) \in met[c]
    \/ \E d \in Alike(c) : Release(d) \in met[c]
OpenMetAnother ==
    \A c \in Callers :
        /\ call[c] = "connected" => open[Own(c)] = "open"
        /\ call[c] \in Returnable /\ open[Own(c)] = "open" => MetAnother(c)

FifoInv == FifoTypeOK /\ ReleasesOwn /\ OpenMetAnother

-----------------------------------------------------------------------------
(* The opens are told apart by whose they are and what for.                *)
LEMMA OpensApart ==
    ASSUME NEW c \in Callers, NEW d \in Callers
    PROVE  /\ Own(c) \in Opens /\ Release(c) \in Opens /\ Own(c) # Release(d)
           /\ Own(c) = Own(d) => c = d
           /\ Release(c) = Release(d) => c = d
    BY DEF Own, Release, Opens

(* What faces a call's own open is the end its own release opens, a peer's *)
(* own, or the release of another call of its side.                        *)
LEMMA FacesOwn ==
    ASSUME NEW c \in Callers, NEW o \in Opens, o \in Facing(Own(c)) \/ Own(c) \in Facing(o)
    PROVE  \/ o = Release(c)
           \/ \E d \in Peers(c) : o = Own(d)
           \/ \E d \in Alike(c) : o = Release(d)
<1>1. Reads(Own(c)) # Reads(o)
    BY DEF Facing
<1>2. Reads(Own(c)) = (c \in AcceptThreads)
    BY DEF Reads, Own
<1>3. PICK d \in Callers : o = Own(d) \/ o = Release(d)
    BY DEF Opens, Own, Release
<1>4. CASE o = Own(d)
  <2>1. Reads(o) = (d \in AcceptThreads)
    BY <1>4 DEF Reads, Own
  <2>2. d \in Peers(c)
    BY <1>1, <1>2, <1>3, <2>1 DEF Callers, Peers
  <2> QED
    BY <1>4, <2>2
<1>5. CASE o = Release(d)
  <2>1. o[1] = d /\ o[2] # "own"
    BY <1>5 DEF Release
  <2>2. Reads(o) = (d \notin AcceptThreads)
    BY <2>1 DEF Reads
  <2>3. d = c \/ d \in Alike(c)
    BY <1>1, <1>2, <1>3, <2>2, FifoAssumption DEF Alike, Callers, Peers
  <2> QED
    BY <1>5, <2>3
<1> QED
    BY <1>3, <1>4, <1>5

(* No call has been made.                                                  *)
LEMMA FifoInitInv ==
    ASSUME FifoInit
    PROVE  FifoInv
<1>1. FifoTypeOK
    BY DEF FifoInit, FifoTypeOK
<1>2. ReleasesOwn
    BY OpensApart DEF FifoInit, ReleasesOwn
<1>3. OpenMetAnother
    BY DEF FifoInit, OpenMetAnother, Returnable
<1> QED
    BY <1>1, <1>2, <1>3 DEF FifoInv

(* The kernel's open: a call's own that comes to be open met its own       *)
(* release, and then the call is releasing, or another call's open.        *)
LEMMA FifoOpenInv ==
    ASSUME FifoInv, NEW o \in Opens, Open(o)
    PROVE  FifoInv'
<1> DEFINE waiting == {p \in Facing(o) : open[p] = "blocked"}
           others == {p \in Facing(o) : open[p] \in {"blocked", "open"}}
<1>1. FifoTypeOK /\ ReleasesOwn /\ OpenMetAnother /\ UNCHANGED call /\ open[o] = "starting"
    BY DEF FifoInv, Open
<1>2. CASE /\ open' = [open EXCEPT ![o] = "failed"]
           /\ UNCHANGED met
  <2>1. FifoTypeOK'
    BY <1>1, <1>2 DEF FifoTypeOK
  <2>2. ReleasesOwn'
    BY <1>1, <1>2, OpensApart DEF FifoTypeOK, ReleasesOwn
  <2>3. OpenMetAnother'
    BY <1>1, <1>2, OpensApart DEF FifoTypeOK, OpenMetAnother, Returnable, MetAnother
  <2> QED
    BY <2>1, <2>2, <2>3 DEF FifoInv
<1>3. CASE /\ open' = [p \in Opens |->
                         IF p = o THEN IF others = {} THEN "blocked" ELSE "open"
                         ELSE IF p \in waiting THEN "open" ELSE open[p]]
           /\ met' = [c \in Callers |->
                         met[c] \cup {p \in Opens :
                             \/ o = Own(c) /\ p \in others
                             \/ o = p /\ Own(c) \in waiting}]
  <2>1. FifoTypeOK'
    BY <1>1, <1>3 DEF FifoTypeOK
  <2>2. ReleasesOwn'
    <3>1. ASSUME NEW p \in Opens, open'[p] # "none" PROVE open[p] # "none"
      BY <1>1, <1>3, <3>1
    <3> QED
      BY <1>1, <3>1, OpensApart DEF ReleasesOwn
  <2>3. ASSUME NEW c \in Callers, call[c] \in Returnable, open[Own(c)] # "open",
               open'[Own(c)] = "open"
        PROVE  MetAnother(c)'
    <3>1. open[Release(c)] = "none"
      BY <1>1, <2>3 DEF ReleasesOwn, Returnable
    <3>2. PICK p \in Opens :
            /\ p \in met'[c] /\ open[p] # "none"
            /\ p \in Facing(Own(c)) \/ Own(c) \in Facing(p)
      <4>1. CASE o = Own(c)
        <5>1. PICK q \in Opens : q \in others
          <6>1. others # {}
            BY <1>3, <2>3, <4>1, OpensApart
          <6> QED
            BY <6>1 DEF Facing
        <5>2. q \in met'[c]
          BY <1>3, <4>1, <5>1
        <5> QED
          BY <4>1, <5>1, <5>2
      <4>2. CASE o # Own(c)
        <5>1. Own(c) \in waiting
          BY <1>3, <2>3, <4>2, OpensApart
        <5>2. o \in met'[c]
          BY <1>3, <5>1
        <5> QED
          BY <1>1, <5>1, <5>2
      <4> QED
        BY <4>1, <4>2
    <3> QED
      BY <3>1, <3>2, FacesOwn DEF MetAnother
  <2>4. \A c \in Callers : met[c] \subseteq met'[c]
    BY <1>3
  <2>5. \A c \in Callers : open[Own(c)] = "open" => open'[Own(c)] = "open"
    BY <1>1, <1>3, OpensApart
  <2>6. \A c \in Callers : MetAnother(c) => MetAnother(c)'
    BY <2>4 DEF MetAnother
  <2>7. OpenMetAnother'
    BY <1>1, <2>3, <2>5, <2>6 DEF OpenMetAnother
  <2> QED
    BY <2>1, <2>2, <2>7 DEF FifoInv
<1> QED
    BY <1>2, <1>3 DEF Open

(* A caller's step touches its own call, opens and meetings alone.         *)
LEMMA FifoCallerInv ==
    ASSUME FifoInv, NEW c \in Callers,
           Call(c) \/ Timeout(c) \/ Returning(c) \/ Done(c)
    PROVE  FifoInv'
<1>1. FifoTypeOK /\ ReleasesOwn /\ OpenMetAnother
    BY DEF FifoInv
<1>2. /\ Own(c) \in Opens /\ Release(c) \in Opens
      /\ \A d \in Callers : Own(c) # Release(d) /\ Own(d) # Release(c)
      /\ \A d \in Callers \ {c} : Own(c) # Own(d) /\ Release(c) # Release(d)
      /\ \A d \in Callers : Own(d) \in Opens /\ Release(d) \in Opens
    BY OpensApart
<1>3. ASSUME NEW d \in Callers, met'[d] = met[d], MetAnother(d)
      PROVE  MetAnother(d)'
    BY <1>3 DEF MetAnother
<1>4. CASE Call(c)
  <2>1. FifoTypeOK'
    BY <1>1, <1>2, <1>4 DEF Call, FifoTypeOK
  <2>2. ReleasesOwn'
    BY <1>1, <1>2, <1>4 DEF Call, ReleasesOwn, FifoTypeOK
  <2>3. OpenMetAnother'
    BY <1>1, <1>2, <1>3, <1>4 DEF Call, OpenMetAnother, FifoTypeOK
  <2> QED
    BY <2>1, <2>2, <2>3 DEF FifoInv
<1>5. CASE Arrive(c)
  <2>1. FifoTypeOK'
    BY <1>1, <1>5 DEF Arrive, FifoTypeOK
  <2>2. ReleasesOwn'
    BY <1>1, <1>2, <1>5 DEF Arrive, ReleasesOwn, FifoTypeOK
  <2>3. OpenMetAnother'
    BY <1>1, <1>3, <1>5 DEF Arrive, OpenMetAnother, Returnable, FifoTypeOK
  <2> QED
    BY <2>1, <2>2, <2>3 DEF FifoInv
<1>6. CASE Timeout(c)
  <2>1. FifoTypeOK'
    BY <1>1, <1>2, <1>6 DEF Timeout, FifoTypeOK
  <2>2. ReleasesOwn'
    BY <1>1, <1>2, <1>6 DEF Timeout, ReleasesOwn, FifoTypeOK
  <2>3. OpenMetAnother'
    BY <1>1, <1>2, <1>3, <1>6 DEF Timeout, OpenMetAnother, Returnable, FifoTypeOK
  <2> QED
    BY <2>1, <2>2, <2>3 DEF FifoInv
<1>7. CASE Released(c)
  <2>1. FifoTypeOK'
    BY <1>1, <1>2, <1>7 DEF Released, FifoTypeOK
  <2>2. ReleasesOwn'
    BY <1>1, <1>2, <1>7 DEF Released, ReleasesOwn, FifoTypeOK
  <2>3. OpenMetAnother'
    BY <1>1, <1>2, <1>3, <1>7 DEF Released, OpenMetAnother, Returnable, FifoTypeOK
  <2> QED
    BY <2>1, <2>2, <2>3 DEF FifoInv
<1>8. CASE Joined(c) \/ Done(c)
  <2>1. /\ \E s \in {"timedout", "idle"} : call' = [call EXCEPT ![c] = s]
        /\ open' = [open EXCEPT ![Own(c)] = "none"]
        /\ met' = [met EXCEPT ![c] = {}]
        /\ call[c] # "releasing"
    BY <1>8 DEF Joined, Done
  <2>2. FifoTypeOK'
    BY <1>1, <1>2, <2>1 DEF FifoTypeOK
  <2>3. ReleasesOwn'
    BY <1>1, <1>2, <2>1 DEF ReleasesOwn, FifoTypeOK
  <2>4. OpenMetAnother'
    BY <1>1, <1>2, <1>3, <2>1 DEF OpenMetAnother, Returnable, FifoTypeOK
  <2> QED
    BY <2>2, <2>3, <2>4 DEF FifoInv
<1> QED
    BY <1>4, <1>5, <1>6, <1>7, <1>8 DEF Returning

(* Whatever deadlines pass and whoever drops, opens and leaves: a call     *)
(* that returns a connection met a peer's own open or the release of       *)
(* another call of its side, never its own release alone (unix.rs opened). *)
THEOREM HandedNotByItself == FifoSpec => []HandedByAnother
<1>1. FifoInv /\ [FifoNext]_fifo => FifoInv'
  <2>1. FifoInv /\ DropFifo => FifoInv'
    BY DEF DropFifo, FifoInv, FifoTypeOK, ReleasesOwn, OpenMetAnother, MetAnother
  <2>2. FifoInv /\ UNCHANGED fifo => FifoInv'
    BY DEF fifo, FifoInv, FifoTypeOK, ReleasesOwn, OpenMetAnother, MetAnother
  <2> QED
    BY <2>1, <2>2, FifoOpenInv, FifoCallerInv DEF FifoNext
<1>2. FifoInv => HandedByAnother
    BY DEF FifoInv, OpenMetAnother, MetAnother, Returnable, HandedByAnother
<1> QED
    BY <1>1, <1>2, FifoInitInv, PTL DEF FifoSpec

(* What unix.rs:13 says holds where one thread alone accepts, of its       *)
(* accepts, whatever the clients do: a connection it returns met a         *)
(* client's own open.                                                      *)
THEOREM LoneAccepterHasClient ==
    ASSUME NEW a, AcceptThreads = {a}
    PROVE  FifoSpec =>
             [](call[a] = "connected" => \E d \in Connecters : Own(d) \in met[a])
<1>1. HandedByAnother =>
        (call[a] = "connected" => \E d \in Connecters : Own(d) \in met[a])
  <2>1. a \in Callers /\ Peers(a) = Connecters
    BY DEF Callers, Peers
  <2>2. Alike(a) = {}
    BY DEF Alike, Callers, Peers
  <2> QED
    BY <2>1, <2>2 DEF HandedByAnother
<1> QED
    BY <1>1, HandedNotByItself, PTL
=============================================================================
