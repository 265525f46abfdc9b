----------------------------- MODULE HpackProofs -----------------------------
(***************************************************************************)
(* What Hpack's run checks on small tables and one block on its way, proved*)
(* of every static table, field, size and limit and of any number of blocks*)
(* in flight: every list is read as it was sent.                           *)
(***************************************************************************)
EXTENDS Hpack, SequenceTheorems, WellFoundedInduction, TLAPS

(* A table of fields within its size, and what a block is read into.       *)
Tables == {t \in [entries : Seq(FieldSet), max : Nat] : Cost(t.entries) <= t.max}
Readable == FieldSet \cup Range(Static)
Reps == [op : {"update"}, size : Nat] \cup [op : {"indexed"}, index : Nat]
          \cup [op : {"literal"}, index : Nat, field : FieldSet]
Reading == [table : Tables, fields : Seq(Readable), error : BOOLEAN]
Writing == [table : Tables, block : Seq(Reps)]
Blocks == [block : Seq(Reps), fields : Seq(FieldSet)]

(* A decoder's table holds what an encoder's does, at the same indices.    *)
InStep(ours, theirs) ==
    /\ IsPrefix(ours.entries, theirs.entries)
    /\ ours.max = theirs.max

(* A block read without an error, as the list it was sent for.             *)
ReadsAs(read, sent) ==
    /\ read \in Reading /\ ~read.error
    /\ Len(read.fields) = Len(sent)
    /\ \A i \in DOMAIN sent : Same(sent[i], read.fields[i])

(* The tables the decoder comes to hold, one block on its way after        *)
(* another: each block is read as it was sent.                             *)
Chain(tables) ==
    /\ tables \in [0..Len(blocks) -> Tables]
    /\ tables[0] = decoder
    /\ \A i \in 1..Len(blocks) :
         /\ ReadsAs(Decoded(tables[i - 1], blocks[i].block), blocks[i].fields)
         /\ tables[i] = Decoded(tables[i - 1], blocks[i].block).table

(* The last of them holds what the encoder's does, and is as large unless  *)
(* a change is still to be announced.                                      *)
Agrees(table) ==
    /\ IsPrefix(encoder.entries, table.entries)
    /\ table.max # encoder.max => pending # NoSize
    /\ pending # NoSize => pending = encoder.max

HpackTypeOK ==
    /\ encoder \in Tables /\ encoder.max <= Limit
    /\ pending \in Nat \cup {NoSize}
    /\ decoder \in Tables
    /\ blocks \in Seq(Blocks)

IInv ==
    /\ HpackTypeOK
    /\ \E tables : Chain(tables) /\ Agrees(tables[Len(blocks)])
    /\ ReadAsSent

-----------------------------------------------------------------------------
(* A set that has 0, and with a number the one after it, has every number. *)
LEMMA Induction ==
    ASSUME NEW T, 0 \in T, \A n \in Nat : n \in T => n + 1 \in T
    PROVE  \A n \in Nat : n \in T
<1>1. SUFFICES ASSUME NEW n \in Nat, n \notin T
               PROVE  FALSE
  OBVIOUS
<1> DEFINE Missing == Nat \ T
<1>2. PICK x \in Missing : \A y \in Missing : ~(<<y, x>> \in OpToRel(<, Nat))
  <2>1. Missing \subseteq Nat /\ Missing # {}
    BY <1>1
  <2> HIDE DEF Missing
  <2> QED
    BY <2>1, WFMin, NatLessThanWellFounded, Zenon
<1>3. x - 1 \notin Missing
  <2>1. SUFFICES ASSUME x - 1 \in Missing PROVE FALSE
    OBVIOUS
  <2>2. ~(<<x - 1, x>> \in {ss \in Nat \X Nat : ss[1] < ss[2]})
    BY <1>2, <2>1 DEF OpToRel
  <2> QED
    BY <2>1, <2>2
<1>4. x # 0 /\ x \in Nat /\ x \notin T
  OBVIOUS
<1>5. x - 1 \in Nat /\ x - 1 + 1 = x
  BY <1>4
<1>6. x - 1 \in T
  BY <1>3, <1>5
<1> QED
  BY <1>4, <1>5, <1>6

-----------------------------------------------------------------------------
(* What the recursions compute.                                            *)

(* What a table holds costs, added up entry by entry.                      *)
Sums(f, s) ==
    /\ f[0] = 0
    /\ \A n \in 1..Len(s) : f[n] = f[n - 1] + s[n].cost

(* So it is computed.                                                      *)
LEMMA CostUnfolds ==
    ASSUME NEW s \in Seq(FieldSet)
    PROVE  \E f : Sums(f, s) /\ Cost(s) = f[Len(s)]
<1> DEFINE Run(f, m) == f = [n \in 0..m |-> IF n = 0 THEN 0
                                           ELSE f[n - 1] + s[n].cost]
           T == {m \in Nat : \E f : Run(f, m)}
<1>1. 0 \in T
  <2> DEFINE f == [n \in 0..0 |-> 0]
  <2>1. Run(f, 0)
    OBVIOUS
  <2> QED
    BY <2>1
<1>2. ASSUME NEW m \in Nat, m \in T
      PROVE  m + 1 \in T
  <2>1. PICK f : Run(f, m)
    BY <1>2
  <2> DEFINE g == [n \in 0..m + 1 |-> IF n <= m THEN f[n] ELSE f[m] + s[m + 1].cost]
  <2>2. \A n \in 0..m : f[n] = IF n = 0 THEN 0 ELSE f[n - 1] + s[n].cost
    BY <2>1
  <2>3. ASSUME NEW n \in 0..m + 1
        PROVE  g[n] = IF n = 0 THEN 0 ELSE g[n - 1] + s[n].cost
    <3>1. CASE n \in 0..m
      BY <2>2, <3>1
    <3>2. CASE n = m + 1
      BY <3>2
    <3> QED
      BY <3>1, <3>2
  <2>4. Run(g, m + 1)
    BY <2>3
  <2> HIDE DEF g, Run
  <2>5. \E h : Run(h, m + 1)
    BY <2>4
  <2> QED
    BY <2>5
<1>3. \A m \in Nat : m \in T
  <2> HIDE DEF T
  <2> QED
    BY <1>1, <1>2, Induction
<1>4. PICK f : Run(f, Len(s))
  <2>1. Len(s) \in T
    BY <1>3
  <2> QED
    BY <2>1
<1> DEFINE so_far == CHOOSE h : Run(h, Len(s))
<1>5. Run(so_far, Len(s))
  BY <1>4
<1>6. Cost(s) = so_far[Len(s)]
  BY DEF Cost
<1> HIDE DEF so_far
<1>7. so_far[0] = 0
  BY <1>5
<1>8. \A n \in 1..Len(s) : so_far[n] = so_far[n - 1] + s[n].cost
  BY <1>5
<1>9. Sums(so_far, s)
  BY <1>7, <1>8 DEF Sums
<1> HIDE DEF Run, T
<1> QED
  BY <1>6, <1>9

(* A list is encoded field by field, after the announcement.               *)
Encodes(f, fields) ==
    /\ f[0] = [table |-> encoder, block |-> Announced]
    /\ \A n \in 1..Len(fields) : f[n] = EncodeField(f[n - 1], fields[n])

(* So it is computed.                                                      *)
LEMMA EncodedUnfolds ==
    ASSUME NEW fields \in Seq(FieldSet)
    PROVE  \E f : Encodes(f, fields) /\ Encoded(fields) = f[Len(fields)]
<1> DEFINE Run(f, m) == f = [n \in 0..m |-> IF n = 0 THEN [table |-> encoder, block |-> Announced]
                                           ELSE EncodeField(f[n - 1], fields[n])]
           T == {m \in Nat : \E f : Run(f, m)}
<1>1. 0 \in T
  <2> DEFINE f == [n \in 0..0 |-> [table |-> encoder, block |-> Announced]]
  <2>1. Run(f, 0)
    OBVIOUS
  <2> QED
    BY <2>1
<1>2. ASSUME NEW m \in Nat, m \in T
      PROVE  m + 1 \in T
  <2>1. PICK f : Run(f, m)
    BY <1>2
  <2> DEFINE g == [n \in 0..m + 1 |-> IF n <= m THEN f[n] ELSE EncodeField(f[m], fields[m + 1])]
  <2>2. \A n \in 0..m : f[n] = IF n = 0 THEN [table |-> encoder, block |-> Announced] ELSE EncodeField(f[n - 1], fields[n])
    BY <2>1
  <2>3. ASSUME NEW n \in 0..m + 1
        PROVE  g[n] = IF n = 0 THEN [table |-> encoder, block |-> Announced] ELSE EncodeField(g[n - 1], fields[n])
    <3>1. CASE n \in 0..m
      BY <2>2, <3>1
    <3>2. CASE n = m + 1
      BY <3>2
    <3> QED
      BY <3>1, <3>2
  <2>4. Run(g, m + 1)
    BY <2>3
  <2> HIDE DEF g, Run
  <2>5. \E h : Run(h, m + 1)
    BY <2>4
  <2> QED
    BY <2>5
<1>3. \A m \in Nat : m \in T
  <2> HIDE DEF T
  <2> QED
    BY <1>1, <1>2, Induction
<1>4. PICK f : Run(f, Len(fields))
  <2>1. Len(fields) \in T
    BY <1>3
  <2> QED
    BY <2>1
<1> DEFINE so_far == CHOOSE h : Run(h, Len(fields))
<1>5. Run(so_far, Len(fields))
  BY <1>4
<1>6. Encoded(fields) = so_far[Len(fields)]
  BY DEF Encoded
<1> HIDE DEF so_far
<1>7. so_far[0] = [table |-> encoder, block |-> Announced]
  BY <1>5
<1>8. \A n \in 1..Len(fields) : so_far[n] = EncodeField(so_far[n - 1], fields[n])
  BY <1>5
<1>9. Encodes(so_far, fields)
  BY <1>7, <1>8 DEF Encodes
<1> HIDE DEF Run, T
<1> QED
  BY <1>6, <1>9

(* A block is decoded representation by representation.                    *)
Decodes(f, t, block) ==
    /\ f[0] = NothingRead(t)
    /\ \A n \in 1..Len(block) : f[n] = DecodeRep(f[n - 1], block[n])

(* So it is computed.                                                      *)
LEMMA DecodedUnfolds ==
    ASSUME NEW t, NEW block \in Seq(Reps)
    PROVE  \E f : Decodes(f, t, block) /\ Decoded(t, block) = f[Len(block)]
<1> DEFINE Run(f, m) == f = [n \in 0..m |-> IF n = 0 THEN NothingRead(t)
                                           ELSE DecodeRep(f[n - 1], block[n])]
           T == {m \in Nat : \E f : Run(f, m)}
<1>1. 0 \in T
  <2> DEFINE f == [n \in 0..0 |-> NothingRead(t)]
  <2>1. Run(f, 0)
    OBVIOUS
  <2> QED
    BY <2>1
<1>2. ASSUME NEW m \in Nat, m \in T
      PROVE  m + 1 \in T
  <2>1. PICK f : Run(f, m)
    BY <1>2
  <2> DEFINE g == [n \in 0..m + 1 |-> IF n <= m THEN f[n] ELSE DecodeRep(f[m], block[m + 1])]
  <2>2. \A n \in 0..m : f[n] = IF n = 0 THEN NothingRead(t) ELSE DecodeRep(f[n - 1], block[n])
    BY <2>1
  <2>3. ASSUME NEW n \in 0..m + 1
        PROVE  g[n] = IF n = 0 THEN NothingRead(t) ELSE DecodeRep(g[n - 1], block[n])
    <3>1. CASE n \in 0..m
      BY <2>2, <3>1
    <3>2. CASE n = m + 1
      BY <3>2
    <3> QED
      BY <3>1, <3>2
  <2>4. Run(g, m + 1)
    BY <2>3
  <2> HIDE DEF g, Run
  <2>5. \E h : Run(h, m + 1)
    BY <2>4
  <2> QED
    BY <2>5
<1>3. \A m \in Nat : m \in T
  <2> HIDE DEF T
  <2> QED
    BY <1>1, <1>2, Induction
<1>4. PICK f : Run(f, Len(block))
  <2>1. Len(block) \in T
    BY <1>3
  <2> QED
    BY <2>1
<1> DEFINE so_far == CHOOSE h : Run(h, Len(block))
<1>5. Run(so_far, Len(block))
  BY <1>4
<1>6. Decoded(t, block) = so_far[Len(block)]
  BY DEF Decoded
<1> HIDE DEF so_far
<1>7. so_far[0] = NothingRead(t)
  BY <1>5
<1>8. \A n \in 1..Len(block) : so_far[n] = DecodeRep(so_far[n - 1], block[n])
  BY <1>5
<1>9. Decodes(so_far, t, block)
  BY <1>7, <1>8 DEF Decodes
<1> HIDE DEF Run, T
<1> QED
  BY <1>6, <1>9

(* An empty table costs nothing, and any table a number.                   *)
LEMMA CostType ==
    ASSUME NEW s \in Seq(FieldSet)
    PROVE  Cost(s) \in Nat /\ (s = << >> => Cost(s) = 0)
<1>1. PICK f : Sums(f, s) /\ Cost(s) = f[Len(s)]
  BY CostUnfolds
<1> DEFINE T == {n \in Nat : n <= Len(s) => f[n] \in Nat}
<1>2. 0 \in T
  BY <1>1 DEF Sums
<1>3. ASSUME NEW n \in Nat, n \in T
      PROVE  n + 1 \in T
  <2>1. SUFFICES ASSUME n + 1 <= Len(s) PROVE f[n + 1] \in Nat
    OBVIOUS
  <2>2. n + 1 \in 1..Len(s) /\ n + 1 - 1 = n /\ f[n] \in Nat
    BY <1>3, <2>1
  <2>3. s[n + 1] \in FieldSet
    BY <2>2
  <2>4. s[n + 1].cost \in Nat
    BY <2>3, HpackAssumption
  <2> QED
    BY <1>1, <2>2, <2>4 DEF Sums
<1>4. \A n \in Nat : n \in T
  <2> HIDE DEF T
  <2> QED
    BY <1>2, <1>3, Induction
<1> QED
  BY <1>1, <1>4 DEF Sums

(* A field put in front of a table adds its cost.                          *)
LEMMA CostCons ==
    ASSUME NEW s \in Seq(FieldSet), NEW field \in FieldSet
    PROVE  /\ Cons(field, s) \in Seq(FieldSet)
           /\ Cost(Cons(field, s)) = field.cost + Cost(s)
<1> DEFINE more == Cons(field, s)
<1>1. /\ more \in Seq(FieldSet) /\ Len(more) = Len(s) + 1 /\ more[1] = field
      /\ \A n \in 1..Len(s) : more[n + 1] = s[n]
  BY DEF Cons
<1> HIDE DEF more
<1>2. PICK f : Sums(f, s) /\ Cost(s) = f[Len(s)]
  BY CostUnfolds
<1>3. PICK g : Sums(g, more) /\ Cost(more) = g[Len(more)]
  BY <1>1, CostUnfolds
<1>4. field.cost \in Nat /\ \A n \in 1..Len(s) : s[n].cost \in Nat
  BY HpackAssumption
<1> DEFINE T == {n \in Nat : n <= Len(s) => f[n] \in Nat /\ g[n + 1] = field.cost + f[n]}
<1>5. 0 \in T
  <2>1. g[1] = g[0] + more[1].cost
    BY <1>1, <1>3 DEF Sums
  <2> QED
    BY <1>1, <1>2, <1>3, <1>4, <2>1 DEF Sums
<1>6. ASSUME NEW n \in Nat, n \in T
      PROVE  n + 1 \in T
  <2>1. SUFFICES ASSUME n + 1 <= Len(s)
                 PROVE  f[n + 1] \in Nat /\ g[n + 2] = field.cost + f[n + 1]
    OBVIOUS
  <2>2. n + 1 \in 1..Len(s) /\ f[n] \in Nat /\ g[n + 1] = field.cost + f[n]
    BY <1>6, <2>1
  <2>3. f[n + 1] = f[n] + s[n + 1].cost
    BY <1>2, <2>2 DEF Sums
  <2>4. g[n + 2] = g[n + 1] + s[n + 1].cost
    <3>1. n + 2 \in 1..Len(more) /\ n + 2 - 1 = n + 1
      BY <1>1, <2>2
    <3>2. more[n + 2] = s[n + 1]
      BY <1>1, <2>2
    <3> QED
      BY <1>3, <3>1, <3>2 DEF Sums
  <2> QED
    BY <1>4, <2>2, <2>3, <2>4
<1>7. \A n \in Nat : n \in T
  <2> HIDE DEF T
  <2> QED
    BY <1>5, <1>6, Induction
<1>8. Cost(more) = field.cost + Cost(s)
  BY <1>1, <1>2, <1>3, <1>7
<1> QED
  BY <1>1, <1>8 DEF more

(* One more representation is decoded after those before it.               *)
LEMMA DecodedOnward ==
    ASSUME NEW t
    PROVE  /\ Decoded(t, << >>) = NothingRead(t)
           /\ \A block \in Seq(Reps), rep \in Reps :
                Decoded(t, Append(block, rep)) = DecodeRep(Decoded(t, block), rep)
<1>1. Decoded(t, << >>) = NothingRead(t)
  <2>1. << >> \in Seq(Reps) /\ Len(<< >>) = 0
    OBVIOUS
  <2>2. PICK f : Decodes(f, t, << >>) /\ Decoded(t, << >>) = f[Len(<< >>)]
    BY <2>1, DecodedUnfolds, Zenon
  <2> QED
    BY <2>1, <2>2 DEF Decodes
<1>2. ASSUME NEW block \in Seq(Reps), NEW rep \in Reps
      PROVE  Decoded(t, Append(block, rep)) = DecodeRep(Decoded(t, block), rep)
  <2> DEFINE more == Append(block, rep)
  <2>1. /\ more \in Seq(Reps) /\ Len(more) = Len(block) + 1
        /\ more[Len(block) + 1] = rep /\ \A n \in 1..Len(block) : more[n] = block[n]
    OBVIOUS
  <2> HIDE DEF more
  <2>2. PICK f : Decodes(f, t, block) /\ Decoded(t, block) = f[Len(block)]
    BY DecodedUnfolds
  <2>3. PICK g : Decodes(g, t, more) /\ Decoded(t, more) = g[Len(more)]
    BY <2>1, DecodedUnfolds
  <2> DEFINE T == {n \in Nat : n <= Len(block) => g[n] = f[n]}
  <2>4. 0 \in T
    BY <2>2, <2>3 DEF Decodes
  <2>5. ASSUME NEW n \in Nat, n \in T
        PROVE  n + 1 \in T
    <3>1. SUFFICES ASSUME n + 1 <= Len(block) PROVE g[n + 1] = f[n + 1]
      OBVIOUS
    <3>2. n + 1 \in 1..Len(block) /\ n + 1 \in 1..Len(more) /\ n + 1 - 1 = n /\ g[n] = f[n]
      BY <2>1, <2>5, <3>1
    <3>3. f[n + 1] = DecodeRep(f[n], block[n + 1])
      BY <2>2, <3>2 DEF Decodes
    <3>4. g[n + 1] = DecodeRep(g[n], more[n + 1])
      BY <2>3, <3>2 DEF Decodes
    <3> QED
      BY <2>1, <3>2, <3>3, <3>4
  <2>6. \A n \in Nat : n \in T
    <3> HIDE DEF T
    <3> QED
      BY <2>4, <2>5, Induction
  <2>7. g[Len(block)] = f[Len(block)]
    BY <2>6
  <2>8. Len(more) \in 1..Len(more) /\ Len(more) - 1 = Len(block) /\ more[Len(more)] = rep
    BY <2>1
  <2>9. g[Len(more)] = DecodeRep(g[Len(block)], rep)
    BY <2>3, <2>8 DEF Decodes
  <2> QED
    BY <2>2, <2>3, <2>7, <2>9 DEF more
<1> QED
  BY <1>1, <1>2

-----------------------------------------------------------------------------
(* The tables.                                                             *)

(* A prefix has the same entries at the same indices.                      *)
LEMMA PrefixByIndex ==
    ASSUME NEW s \in Seq(FieldSet), NEW t \in Seq(FieldSet)
    PROVE  IsPrefix(s, t) <=> Len(s) <= Len(t) /\ \A i \in 1..Len(s) : s[i] = t[i]
<1>1. SUFFICES ASSUME Len(s) <= Len(t)
               PROVE  SubSeq(s, 1, Len(s)) = SubSeq(t, 1, Len(s))
                        <=> \A i \in 1..Len(s) : s[i] = t[i]
  BY DEF IsPrefix
<1> DEFINE a == SubSeq(s, 1, Len(s))
           b == SubSeq(t, 1, Len(s))
<1>2. /\ a \in Seq(FieldSet) /\ Len(a) = Len(s) /\ \A i \in 1..Len(s) : a[i] = s[i]
      /\ b \in Seq(FieldSet) /\ Len(b) = Len(s) /\ \A i \in 1..Len(s) : b[i] = t[i]
  BY <1>1
<1> HIDE DEF a, b
<1>3. a = b <=> \A i \in 1..Len(s) : a[i] = b[i]
  BY <1>2, SeqEqual
<1>4. a = b <=> \A i \in 1..Len(s) : s[i] = t[i]
  BY <1>2, <1>3
<1> QED
  BY <1>4 DEF a, b

(* evict leaves a prefix that fits the room, with 0 octets at the least,   *)
(* and no prefix that fits is cut.                                         *)
LEMMA EvictKeeps ==
    ASSUME NEW s \in Seq(FieldSet), NEW room \in Nat
    PROVE  /\ Evict(s, room) \in Seq(FieldSet)
           /\ IsPrefix(Evict(s, room), s)
           /\ Cost(Evict(s, room)) <= room
           /\ \A p \in Seq(FieldSet) :
                IsPrefix(p, s) /\ Cost(p) <= room => IsPrefix(p, Evict(s, room))
<1> DEFINE Fit == {n \in 0..Len(s) : Cost(SubSeq(s, 1, n)) <= room}
<1>1. 0 \in Fit
  <2>1. SubSeq(s, 1, 0) = << >> /\ << >> \in Seq(FieldSet)
    OBVIOUS
  <2>2. Cost(<< >>) = 0
    BY <2>1, CostType, Zenon
  <2>3. Cost(SubSeq(s, 1, 0)) = 0
    BY <2>1, <2>2, Zenon
  <2> QED
    BY <2>3
<1>2. PICK m \in Fit : \A n \in Fit : m >= n
  <2> DEFINE T == {k \in Nat : k <= Len(s) => \E m \in Fit : \A n \in Fit : n <= k => m >= n}
  <2> HIDE DEF Fit
  <2>1. Fit \subseteq 0..Len(s)
    BY DEF Fit
  <2>2. 0 \in T
    BY <1>1, <2>1
  <2>3. ASSUME NEW k \in Nat, k \in T
        PROVE  k + 1 \in T
    <3>1. SUFFICES ASSUME k + 1 <= Len(s)
                   PROVE  \E m \in Fit : \A n \in Fit : n <= k + 1 => m >= n
      OBVIOUS
    <3>2. CASE k + 1 \in Fit
      BY <2>1, <3>2
    <3>3. CASE k + 1 \notin Fit
      <4>1. PICK m \in Fit : \A n \in Fit : n <= k => m >= n
        BY <2>3, <3>1
      <4>2. \A n \in Fit : n <= k + 1 => n <= k
        BY <2>1, <3>3
      <4> QED
        BY <4>1, <4>2
    <3> QED
      BY <3>2, <3>3
  <2>4. \A k \in Nat : k \in T
    <3> HIDE DEF T
    <3> QED
      BY <2>2, <2>3, Induction
  <2>5. Len(s) \in T
    BY <2>4
  <2> QED
    BY <2>1, <2>5
<1>3. Max(Fit) \in Fit /\ \A n \in Fit : Max(Fit) >= n
  <2> HIDE DEF Fit
  <2> QED
    BY <1>2 DEF Max
<1>4. Evict(s, room) = SubSeq(s, 1, Max(Fit))
  BY DEF Evict
<1> DEFINE k == Max(Fit)
<1>5. k \in 0..Len(s) /\ Cost(SubSeq(s, 1, k)) <= room
  <2> HIDE DEF k
  <2>1. k \in Fit
    BY <1>3 DEF k
  <2> QED
    BY <2>1
<1>6. \A n \in 0..Len(s) : Cost(SubSeq(s, 1, n)) <= room => n <= k
  <2> HIDE DEF k
  <2>1. \A n \in Fit : k >= n
    BY <1>3 DEF k
  <2> QED
    BY <1>5, <2>1
<1> HIDE DEF k, Fit
<1> DEFINE kept == Evict(s, room)
<1>7. kept = SubSeq(s, 1, k)
  BY <1>4 DEF k
<1>8. kept \in Seq(FieldSet) /\ Len(kept) = k /\ \A i \in 1..k : kept[i] = s[i]
  BY <1>5, <1>7
<1> HIDE DEF kept
<1>9. IsPrefix(kept, s)
  BY <1>5, <1>8, PrefixByIndex
<1>10. ASSUME NEW p \in Seq(FieldSet), IsPrefix(p, s), Cost(p) <= room
       PROVE  IsPrefix(p, kept)
  <2>1. Len(p) <= Len(s) /\ \A i \in 1..Len(p) : p[i] = s[i]
    BY <1>10, PrefixByIndex
  <2>2. SubSeq(s, 1, Len(p)) = p
    <3>1. SubSeq(p, 1, Len(p)) = p
      OBVIOUS
    <3> QED
      BY <1>10, <3>1 DEF IsPrefix
  <2>3. Len(p) <= k
    <3>1. Len(p) \in 0..Len(s)
      BY <2>1
    <3>2. Cost(SubSeq(s, 1, Len(p))) <= room
      BY <1>10, <2>2, Zenon
    <3> QED
      BY <1>6, <3>1, <3>2, Zenon
  <2> QED
    BY <1>5, <1>8, <2>1, <2>3, PrefixByIndex
<1> QED
  BY <1>5, <1>7, <1>8, <1>9, <1>10 DEF kept

(* A prefix of a prefix is one, and a field in front of both keeps it.     *)
LEMMA PrefixKept ==
    ASSUME NEW s \in Seq(FieldSet), NEW t \in Seq(FieldSet), IsPrefix(s, t)
    PROVE  /\ \A u \in Seq(FieldSet) : IsPrefix(t, u) => IsPrefix(s, u)
           /\ \A field \in FieldSet : IsPrefix(Cons(field, s), Cons(field, t))
<1>1. Len(s) <= Len(t) /\ \A i \in 1..Len(s) : s[i] = t[i]
  BY PrefixByIndex
<1>2. ASSUME NEW u \in Seq(FieldSet), IsPrefix(t, u)
      PROVE  IsPrefix(s, u)
  <2>1. Len(t) <= Len(u) /\ \A i \in 1..Len(t) : t[i] = u[i]
    BY <1>2, PrefixByIndex
  <2>2. Len(s) <= Len(u) /\ \A i \in 1..Len(s) : s[i] = u[i]
    BY <1>1, <2>1
  <2> QED
    BY <2>2, PrefixByIndex
<1>3. ASSUME NEW field \in FieldSet
      PROVE  IsPrefix(Cons(field, s), Cons(field, t))
  <2> DEFINE a == Cons(field, s)
             b == Cons(field, t)
  <2>1. /\ a \in Seq(FieldSet) /\ Len(a) = Len(s) + 1
        /\ \A i \in 1..Len(s) + 1 : a[i] = IF i = 1 THEN field ELSE s[i - 1]
    BY DEF Cons
  <2>2. /\ b \in Seq(FieldSet) /\ Len(b) = Len(t) + 1
        /\ \A i \in 1..Len(t) + 1 : b[i] = IF i = 1 THEN field ELSE t[i - 1]
    BY DEF Cons
  <2> HIDE DEF a, b
  <2>3. ASSUME NEW i \in 1..Len(a)
        PROVE  a[i] = b[i]
    <3>1. i \in 1..Len(s) + 1 /\ i \in 1..Len(t) + 1
      BY <1>1, <2>1
    <3>2. i # 1 => i - 1 \in 1..Len(s)
      BY <3>1
    <3> QED
      BY <1>1, <2>1, <2>2, <3>1, <3>2
  <2>4. IsPrefix(a, b)
    BY <1>1, <2>1, <2>2, <2>3, PrefixByIndex
  <2> QED
    BY <2>4 DEF a, b
<1> QED
  BY <1>2, <1>3

(* resize leaves a prefix that fits.                                       *)
LEMMA ResizeKeeps ==
    ASSUME NEW t \in Tables, NEW max \in Nat
    PROVE  /\ Resize(t, max) \in Tables /\ Resize(t, max).max = max
           /\ IsPrefix(Resize(t, max).entries, t.entries)
           /\ \A p \in Seq(FieldSet) :
                IsPrefix(p, t.entries) /\ Cost(p) <= max => IsPrefix(p, Resize(t, max).entries)
<1>1. t.entries \in Seq(FieldSet)
  BY DEF Tables
<1>2. /\ Evict(t.entries, max) \in Seq(FieldSet) /\ IsPrefix(Evict(t.entries, max), t.entries)
      /\ Cost(Evict(t.entries, max)) <= max
      /\ \A p \in Seq(FieldSet) :
           IsPrefix(p, t.entries) /\ Cost(p) <= max => IsPrefix(p, Evict(t.entries, max))
  BY <1>1, EvictKeeps
<1>3. Resize(t, max).max = max /\ Resize(t, max).entries = Evict(t.entries, max)
  BY DEF Resize
<1>4. Resize(t, max) \in [entries : Seq(FieldSet), max : Nat]
  BY <1>2 DEF Resize
<1>5. Cost(Resize(t, max).entries) <= Resize(t, max).max
  BY <1>2, <1>3, Zenon
<1> QED
  BY <1>2, <1>3, <1>4, <1>5, Zenon DEF Tables

(* insert keeps a table within its size.                                   *)
LEMMA InsertType ==
    ASSUME NEW t \in Tables, NEW field \in FieldSet
    PROVE  Insert(t, field) \in Tables /\ Insert(t, field).max = t.max
<1> DEFINE room == Floor(t.max - field.cost)
           kept == Evict(t.entries, room)
           more == Cons(field, kept)
<1>1. /\ t \in [entries : Seq(FieldSet), max : Nat]
      /\ field.cost \in Nat
  BY HpackAssumption DEF Tables
<1>2. room \in Nat /\ room <= t.max /\ (field.cost <= t.max => room + field.cost = t.max)
  BY <1>1 DEF Floor
<1> HIDE DEF room
<1>3. kept \in Seq(FieldSet) /\ Cost(kept) <= room /\ Cost(kept) \in Nat
  BY <1>1, <1>2, EvictKeeps, CostType
<1> HIDE DEF kept
<1>4. more \in Seq(FieldSet) /\ Cost(more) = field.cost + Cost(kept)
  BY <1>3, CostCons
<1> HIDE DEF more
<1>5. Insert(t, field) = [t EXCEPT !.entries = IF field.cost <= t.max THEN more ELSE kept]
  BY DEF Insert, more, kept, room
<1>6. CASE field.cost <= t.max
  <2>1. Insert(t, field) = [t EXCEPT !.entries = more]
    BY <1>5, <1>6
  <2>2. Cost(more) <= t.max
    BY <1>1, <1>2, <1>3, <1>4, <1>6
  <2>3. Insert(t, field) \in [entries : Seq(FieldSet), max : Nat]
    BY <1>1, <1>4, <2>1
  <2>4. Insert(t, field).entries = more /\ Insert(t, field).max = t.max
    BY <1>1, <2>1
  <2>5. Cost(Insert(t, field).entries) <= Insert(t, field).max
    BY <2>2, <2>4, Zenon
  <2> QED
    BY <2>3, <2>4, <2>5, Zenon DEF Tables
<1>7. CASE ~(field.cost <= t.max)
  <2>1. Insert(t, field) = [t EXCEPT !.entries = kept]
    BY <1>5, <1>7
  <2>2. Cost(kept) <= t.max
    BY <1>1, <1>2, <1>3
  <2>3. Insert(t, field) \in [entries : Seq(FieldSet), max : Nat]
    BY <1>1, <1>3, <2>1
  <2>4. Insert(t, field).entries = kept /\ Insert(t, field).max = t.max
    BY <1>1, <2>1
  <2>5. Cost(Insert(t, field).entries) <= Insert(t, field).max
    BY <2>2, <2>4, Zenon
  <2> QED
    BY <2>3, <2>4, <2>5, Zenon DEF Tables
<1> QED
  BY <1>6, <1>7

(* The same field inserted at both ends keeps them in step.                *)
LEMMA InsertInStep ==
    ASSUME NEW e \in Tables, NEW d \in Tables, InStep(e, d), NEW field \in FieldSet
    PROVE  InStep(Insert(e, field), Insert(d, field))
<1> DEFINE room == Floor(e.max - field.cost)
           a == Evict(e.entries, room)
           b == Evict(d.entries, room)
<1>1. /\ e \in [entries : Seq(FieldSet), max : Nat] /\ d \in [entries : Seq(FieldSet), max : Nat]
      /\ field.cost \in Nat /\ e.max = d.max /\ IsPrefix(e.entries, d.entries)
  BY HpackAssumption DEF Tables, InStep
<1>2. room \in Nat
  BY <1>1 DEF Floor
<1>3. Insert(e, field) = [e EXCEPT !.entries = IF field.cost <= e.max THEN Cons(field, a) ELSE a]
  BY DEF Insert
<1>4. Insert(d, field) = [d EXCEPT !.entries = IF field.cost <= e.max THEN Cons(field, b) ELSE b]
  BY <1>1 DEF Insert
<1> HIDE DEF room
<1>5. a \in Seq(FieldSet) /\ b \in Seq(FieldSet) /\ IsPrefix(a, e.entries) /\ Cost(a) <= room
  BY <1>1, <1>2, EvictKeeps
<1>6. IsPrefix(a, d.entries)
  BY <1>1, <1>5, PrefixKept
<1>7. IsPrefix(a, b)
  BY <1>1, <1>2, <1>5, <1>6, EvictKeeps
<1> HIDE DEF a, b
<1>8. IsPrefix(Cons(field, a), Cons(field, b))
  BY <1>5, <1>7, PrefixKept
<1>9. CASE field.cost <= e.max
  <2>1. /\ Insert(e, field).entries = Cons(field, a) /\ Insert(e, field).max = e.max
        /\ Insert(d, field).entries = Cons(field, b) /\ Insert(d, field).max = d.max
    BY <1>1, <1>3, <1>4, <1>9
  <2> QED
    BY <1>1, <1>8, <2>1, Zenon DEF InStep
<1>10. CASE ~(field.cost <= e.max)
  <2>1. /\ Insert(e, field).entries = a /\ Insert(e, field).max = e.max
        /\ Insert(d, field).entries = b /\ Insert(d, field).max = d.max
    BY <1>1, <1>3, <1>4, <1>10
  <2> QED
    BY <1>1, <1>7, <2>1, Zenon DEF InStep
<1> QED
  BY <1>9, <1>10

(* What an encoder finds at an index, a decoder in step with it gets there.*)
LEMMA GotInStep ==
    ASSUME NEW e \in Tables, NEW d \in Tables, InStep(e, d), NEW i \in Nat, Holds(e, i)
    PROVE  Holds(d, i) /\ Get(d, i) = Get(e, i) /\ Get(d, i) \in Readable
<1>1. /\ Static \in Seq(Readable)
      /\ e.entries \in Seq(FieldSet) /\ d.entries \in Seq(FieldSet)
      /\ e.entries \in Seq(Readable) /\ d.entries \in Seq(Readable)
  BY HpackAssumption, SeqMonotonic DEF Tables, Readable
<1>2. Len(e.entries) <= Len(d.entries) /\ \A n \in 1..Len(e.entries) : e.entries[n] = d.entries[n]
  BY <1>1, PrefixByIndex DEF InStep
<1>3. i \in 1..Len(Static) + Len(e.entries)
  BY DEF Holds
<1>4. Holds(d, i)
  BY <1>1, <1>2, <1>3 DEF Holds
<1>5. Get(e, i) = IF i <= Len(Static) THEN Static[i] ELSE e.entries[i - Len(Static)]
  BY <1>1, <1>3 DEF Get
<1>6. Get(d, i) = IF i <= Len(Static) THEN Static[i] ELSE d.entries[i - Len(Static)]
  BY <1>1, <1>2, <1>3 DEF Get
<1>7. i <= Len(Static) => Static[i] \in Readable
  BY <1>1, <1>3
<1>8. ~(i <= Len(Static)) =>
        /\ i - Len(Static) \in 1..Len(e.entries)
        /\ d.entries[i - Len(Static)] \in Readable
  BY <1>1, <1>2, <1>3
<1> QED
  BY <1>2, <1>4, <1>5, <1>6, <1>7, <1>8

(* find: an index it returns holds the field, or its name.                 *)
LEMMA FindFinds ==
    ASSUME NEW t \in Tables, NEW f
    PROVE  /\ FindField(t, f) \in Nat /\ FindName(t, f) \in Nat
           /\ FindField(t, f) # 0 =>
                Holds(t, FindField(t, f)) /\ Same(f, Get(t, FindField(t, f)))
           /\ FindName(t, f) # 0 =>
                Holds(t, FindName(t, f)) /\ Get(t, FindName(t, f)).name = f.name
<1> DEFINE all == Static \o t.entries
           I == {i \in 1..Len(all) : Same(f, all[i])}
           J == {i \in 1..Len(all) : all[i].name = f.name}
<1>1. Len(all) = Len(Static) + Len(t.entries) /\ Len(all) \in Nat
  BY HpackAssumption DEF Tables
<1>2. FindField(t, f) = IF I # {} THEN Min(I) ELSE 0
  BY DEF FindField, SelectInSeq
<1>3. FindName(t, f) = IF J # {} THEN Min(J) ELSE 0
  BY DEF FindName, SelectInSeq
<1>4. ASSUME NEW S, S \subseteq 1..Len(all), S # {}
      PROVE  Min(S) \in S
  <2> HIDE DEF all
  <2>1. S \subseteq Nat
    BY <1>1, <1>4
  <2>2. PICK x \in S : \A y \in S : ~(<<y, x>> \in OpToRel(<, Nat))
    BY <1>4, <2>1, WFMin, NatLessThanWellFounded, Zenon
  <2>3. \A y \in S : x <= y
    <3>1. SUFFICES ASSUME NEW y \in S, y < x PROVE FALSE
      BY <2>1
    <3>2. ~(<<y, x>> \in {ss \in Nat \X Nat : ss[1] < ss[2]})
      BY <2>2 DEF OpToRel
    <3> QED
      BY <2>1, <3>1, <3>2
  <2> QED
    BY <2>3 DEF Min
<1>5. I # {} => Min(I) \in I
  BY <1>4
<1>6. J # {} => Min(J) \in J
  BY <1>4
<1> HIDE DEF all
<1>7. I # {} => FindField(t, f) \in 1..Len(all) /\ Same(f, all[FindField(t, f)])
  BY <1>2, <1>5
<1>8. J # {} => FindName(t, f) \in 1..Len(all) /\ all[FindName(t, f)].name = f.name
  BY <1>3, <1>6
<1> HIDE DEF I, J
<1>9. I # {} \/ FindField(t, f) = 0
  BY <1>2
<1>10. J # {} \/ FindName(t, f) = 0
  BY <1>3
<1> QED
  BY <1>1, <1>7, <1>8, <1>9, <1>10 DEF Holds, Get, all

-----------------------------------------------------------------------------
(* The blocks.                                                             *)

(* A field whole in the encoder's table is read by its index.              *)
LEMMA IndexedInStep ==
    ASSUME NEW w \in Writing, NEW r \in Reading, ~r.error, InStep(w.table, r.table),
           NEW field \in FieldSet, FindField(w.table, field) # 0
    PROVE  \E rep \in Reps :
             /\ EncodeField(w, field) \in Writing
             /\ EncodeField(w, field).block = Append(w.block, rep)
             /\ EncodeField(w, field).table = w.table
             /\ DecodeRep(r, rep) \in Reading /\ ~DecodeRep(r, rep).error
             /\ DecodeRep(r, rep).table = r.table
             /\ \E x \in Readable :
                  Same(field, x) /\ DecodeRep(r, rep).fields = Append(r.fields, x)
<1> DEFINE i == FindField(w.table, field)
           rep == Indexed(i)
           x == Get(r.table, i)
<1>1. w.table \in Tables /\ w.block \in Seq(Reps) /\ r.table \in Tables /\ r.fields \in Seq(Readable)
  BY DEF Writing, Reading
<1>2. i \in Nat /\ Holds(w.table, i) /\ Same(field, Get(w.table, i))
  BY <1>1, FindFinds
<1>3. EncodeField(w, field) = [w EXCEPT !.block = Append(@, rep)]
  BY DEF EncodeField
<1> HIDE DEF i
<1>4. Holds(r.table, i) /\ x = Get(w.table, i) /\ x \in Readable
  BY <1>1, <1>2, GotInStep
<1>5. rep \in Reps /\ rep.op = "indexed" /\ rep.index = i
  BY <1>2 DEF Reps, Indexed
<1> HIDE DEF rep
<1>6. DecodeRep(r, rep) = [r EXCEPT !.fields = Append(@, x)]
  BY <1>4, <1>5 DEF DecodeRep
<1>7. Same(field, x)
  BY <1>2, <1>4
<1> HIDE DEF x
<1>8. /\ EncodeField(w, field) \in Writing /\ EncodeField(w, field).block = Append(w.block, rep)
      /\ EncodeField(w, field).table = w.table
  <2> DEFINE longer == Append(w.block, rep)
  <2>1. longer \in Seq(Reps)
    BY <1>1, <1>5, AppendProperties
  <2>2. EncodeField(w, field) = [w EXCEPT !.block = longer]
    BY <1>3
  <2> HIDE DEF longer
  <2>3. /\ EncodeField(w, field) \in Writing /\ EncodeField(w, field).block = longer
        /\ EncodeField(w, field).table = w.table
    BY <2>1, <2>2 DEF Writing
  <2> QED
    BY <2>3 DEF longer
<1>9. /\ DecodeRep(r, rep) \in Reading /\ ~DecodeRep(r, rep).error
      /\ DecodeRep(r, rep).table = r.table
      /\ DecodeRep(r, rep).fields = Append(r.fields, x)
  BY <1>1, <1>4, <1>6 DEF Reading
<1> QED
  BY <1>4, <1>5, <1>7, <1>8, <1>9

(* A field written as a literal is read as it is, its name the one that is *)
(* found at its index, and inserted at both ends.                          *)
LEMMA LiteralInStep ==
    ASSUME NEW w \in Writing, NEW r \in Reading, ~r.error, InStep(w.table, r.table),
           NEW field \in FieldSet, FindField(w.table, field) = 0
    PROVE  \E rep \in Reps :
             /\ EncodeField(w, field) \in Writing
             /\ EncodeField(w, field).block = Append(w.block, rep)
             /\ EncodeField(w, field).table = Insert(w.table, field)
             /\ DecodeRep(r, rep) \in Reading /\ ~DecodeRep(r, rep).error
             /\ DecodeRep(r, rep).table = Insert(r.table, field)
             /\ DecodeRep(r, rep).fields = Append(r.fields, field)
<1> DEFINE i == FindName(w.table, field)
           rep == Literal(i, field)
<1>1. w.table \in Tables /\ w.block \in Seq(Reps) /\ r.table \in Tables /\ r.fields \in Seq(Readable)
  BY DEF Writing, Reading
<1>2. i \in Nat /\ (i # 0 => Holds(w.table, i) /\ Get(w.table, i).name = field.name)
  BY <1>1, FindFinds
<1>3. EncodeField(w, field) = [table |-> Insert(w.table, field), block |-> Append(w.block, rep)]
  BY DEF EncodeField
<1> HIDE DEF i
<1>4. i = 0 \/ (Holds(r.table, i) /\ Get(r.table, i).name = field.name)
  BY <1>1, <1>2, GotInStep
<1>5. rep \in Reps /\ rep.op = "literal" /\ rep.index = i /\ rep.field = field
  BY <1>2 DEF Reps, Literal
<1> HIDE DEF rep
<1>6. LiteralField(r.table, rep) = field
  <2>1. field = [name |-> field.name, value |-> field.value, cost |-> field.cost]
    BY HpackAssumption
  <2>2. \A n : n = field.name => [field EXCEPT !.name = n] = field
    BY <2>1
  <2> QED
    BY <1>4, <1>5, <2>2 DEF LiteralField
<1>7. DecodeRep(r, rep) = [r EXCEPT !.table = Insert(@, field), !.fields = Append(@, field)]
  BY <1>4, <1>5, <1>6 DEF DecodeRep
<1>8. Insert(w.table, field) \in Tables /\ Insert(r.table, field) \in Tables
  BY <1>1, InsertType
<1>9. field \in Readable
  BY DEF Readable
<1>10. /\ EncodeField(w, field) \in Writing /\ EncodeField(w, field).block = Append(w.block, rep)
       /\ EncodeField(w, field).table = Insert(w.table, field)
  BY <1>1, <1>3, <1>5, <1>8 DEF Writing
<1>11. /\ DecodeRep(r, rep) \in Reading /\ ~DecodeRep(r, rep).error
       /\ DecodeRep(r, rep).table = Insert(r.table, field)
       /\ DecodeRep(r, rep).fields = Append(r.fields, field)
  <2> DEFINE more == Append(r.fields, field)
             table == Insert(r.table, field)
  <2>1. more \in Seq(Readable) /\ table \in Tables
    BY <1>1, <1>8, <1>9, AppendProperties
  <2>2. DecodeRep(r, rep) = [r EXCEPT !.table = table, !.fields = more]
    BY <1>7
  <2> HIDE DEF more, table
  <2>3. /\ DecodeRep(r, rep) \in Reading /\ ~DecodeRep(r, rep).error
        /\ DecodeRep(r, rep).table = table /\ DecodeRep(r, rep).fields = more
    BY <2>1, <2>2 DEF Reading
  <2> QED
    BY <2>3 DEF more, table
<1> QED
  BY <1>5, <1>10, <1>11

(* A decoder in step with the encoder reads a field as it was, and is in   *)
(* step with it after the field.                                           *)
LEMMA FieldInStep ==
    ASSUME NEW w \in Writing, NEW r \in Reading, ~r.error, InStep(w.table, r.table),
           NEW field \in FieldSet
    PROVE  \E rep \in Reps :
             /\ EncodeField(w, field) \in Writing
             /\ EncodeField(w, field).block = Append(w.block, rep)
             /\ EncodeField(w, field).table.max = w.table.max
             /\ DecodeRep(r, rep) \in Reading /\ ~DecodeRep(r, rep).error
             /\ InStep(EncodeField(w, field).table, DecodeRep(r, rep).table)
             /\ \E x \in Readable :
                  Same(field, x) /\ DecodeRep(r, rep).fields = Append(r.fields, x)
<1>1. CASE FindField(w.table, field) # 0
  BY <1>1, IndexedInStep, Zenon
<1>2. CASE FindField(w.table, field) = 0
  <2>1. w.table \in Tables /\ r.table \in Tables
    BY DEF Writing, Reading
  <2>2. InStep(Insert(w.table, field), Insert(r.table, field))
    BY <2>1, InsertInStep
  <2>3. Insert(w.table, field).max = w.table.max
    BY <2>1, InsertType
  <2>4. field \in Readable /\ Same(field, field)
    BY DEF Readable, Same
  <2> QED
    <3>1. PICK rep \in Reps :
             /\ EncodeField(w, field) \in Writing
             /\ EncodeField(w, field).block = Append(w.block, rep)
             /\ EncodeField(w, field).table = Insert(w.table, field)
             /\ DecodeRep(r, rep) \in Reading /\ ~DecodeRep(r, rep).error
             /\ DecodeRep(r, rep).table = Insert(r.table, field)
             /\ DecodeRep(r, rep).fields = Append(r.fields, field)
      BY <1>2, LiteralInStep, Zenon
    <3>2. EncodeField(w, field).table.max = w.table.max
      BY <2>3, <3>1, Zenon
    <3>3. InStep(EncodeField(w, field).table, DecodeRep(r, rep).table)
      BY <2>2, <3>1, Zenon
    <3> QED
      BY <2>4, <3>1, <3>2, <3>3, Zenon
<1> QED
  BY <1>1, <1>2

(* A change of size announced is made before the first field: whatever was *)
(* announced as one, the two are in step again.                            *)
LEMMA AnnouncedInStep ==
    ASSUME HpackTypeOK, NEW d \in Tables, Agrees(d)
    PROVE  /\ Announced \in Seq(Reps)
           /\ Decoded(d, Announced) \in Reading /\ ~Decoded(d, Announced).error
           /\ Decoded(d, Announced).fields = << >>
           /\ InStep(encoder, Decoded(d, Announced).table)
<1>1. /\ encoder \in Tables /\ encoder.max <= Limit /\ pending \in Nat \cup {NoSize}
      /\ IsPrefix(encoder.entries, d.entries) /\ NothingRead(d) \in Reading
      /\ encoder.entries \in Seq(FieldSet) /\ Cost(encoder.entries) <= encoder.max
      /\ encoder.max \in Nat
  BY DEF HpackTypeOK, Agrees, NothingRead, Reading, Tables
<1>2. << >> \in Seq(Reps) /\ Decoded(d, << >>) = NothingRead(d)
  BY DecodedOnward
<1>3. CASE pending = NoSize
  <2>1. Announced = << >> /\ d.max = encoder.max
    BY <1>3 DEF Announced, Agrees
  <2>2. Decoded(d, Announced) = NothingRead(d)
    BY <1>2, <2>1, Zenon
  <2> QED
    <3>1. NothingRead(d).table = d /\ NothingRead(d).fields = << >> /\ ~NothingRead(d).error
      BY DEF NothingRead
    <3>2. InStep(encoder, d)
      BY <1>1, <2>1 DEF InStep
    <3> QED
      BY <1>1, <1>2, <2>1, <2>2, <3>1, <3>2, Zenon
<1>4. CASE pending # NoSize
  <2> DEFINE rep == Update(encoder.max)
             after == Resize(d, encoder.max)
  <2>1. Announced = <<rep>> /\ pending = encoder.max
    BY <1>4 DEF Announced, Agrees
  <2>2. rep \in Reps /\ rep.op = "update" /\ rep.size = encoder.max
    BY <1>1 DEF Reps, Update
  <2> HIDE DEF rep
  <2>3. Decoded(d, Announced) = DecodeRep(NothingRead(d), rep)
    <3>1. <<rep>> = Append(<< >>, rep)
      OBVIOUS
    <3>2. Decoded(d, Append(<< >>, rep)) = DecodeRep(Decoded(d, << >>), rep)
      BY <1>2, <2>2, DecodedOnward
    <3> QED
      BY <1>2, <2>1, <3>1, <3>2, Zenon
  <2>4. /\ after \in Tables /\ after.max = encoder.max
        /\ IsPrefix(encoder.entries, after.entries)
    BY <1>1, ResizeKeeps
  <2>5. DecodeRep(NothingRead(d), rep) = [NothingRead(d) EXCEPT !.table = after]
    BY <1>1, <2>2 DEF DecodeRep, NothingRead
  <2> HIDE DEF after
  <2> QED
    <3> DEFINE read == Decoded(d, Announced)
    <3>1. read = [table |-> after, fields |-> << >>, error |-> FALSE]
      BY <2>3, <2>5 DEF NothingRead
    <3> HIDE DEF read
    <3>2. read \in Reading /\ ~read.error /\ read.fields = << >> /\ read.table = after
      BY <2>4, <3>1 DEF Reading
    <3>3. InStep(encoder, read.table)
      BY <2>4, <3>2 DEF InStep
    <3>4. Announced \in Seq(Reps)
      BY <2>1, <2>2
    <3> QED
      BY <3>2, <3>3, <3>4 DEF read
<1> QED
  BY <1>3, <1>4

(* A list encoded is read as it was by a decoder that agrees, which is in  *)
(* step with the encoder after it.                                         *)
LEMMA ListInStep ==
    ASSUME HpackTypeOK, NEW d \in Tables, Agrees(d), NEW fields \in Seq(FieldSet)
    PROVE  /\ Encoded(fields) \in Writing
           /\ Encoded(fields).table.max = encoder.max
           /\ ReadsAs(Decoded(d, Encoded(fields).block), fields)
           /\ InStep(Encoded(fields).table, Decoded(d, Encoded(fields).block).table)
<1> DEFINE Good(w, r, n) ==
             /\ w \in Writing /\ w.table.max = encoder.max
             /\ r \in Reading /\ ~r.error /\ InStep(w.table, r.table)
             /\ Len(r.fields) = n /\ \A i \in 1..n : Same(fields[i], r.fields[i])
<1>1. PICK f : Encodes(f, fields) /\ Encoded(fields) = f[Len(fields)]
  BY EncodedUnfolds
<1> DEFINE T == {n \in Nat : n <= Len(fields) => Good(f[n], Decoded(d, f[n].block), n)}
<1>2. 0 \in T
  <2> DEFINE w == [table |-> encoder, block |-> Announced]
             r == Decoded(d, Announced)
  <2>1. f[0] = w
    BY <1>1 DEF Encodes
  <2>2. /\ Announced \in Seq(Reps) /\ r \in Reading /\ ~r.error /\ r.fields = << >>
        /\ InStep(encoder, r.table)
    BY AnnouncedInStep
  <2>3. w \in Writing /\ w.block = Announced /\ w.table = encoder
    BY <2>2 DEF Writing, HpackTypeOK
  <2> HIDE DEF w, r
  <2>4. Good(w, r, 0)
    BY <2>2, <2>3
  <2>5. Decoded(d, f[0].block) = r
    BY <2>1, <2>3, Zenon DEF r
  <2>6. Good(f[0], Decoded(d, f[0].block), 0)
    <3> HIDE DEF Good
    <3> QED
      BY <2>1, <2>4, <2>5, Zenon
  <2> HIDE DEF Good
  <2> QED
    BY <2>6
<1>3. ASSUME NEW n \in Nat, n \in T
      PROVE  n + 1 \in T
  <2>1. SUFFICES ASSUME n + 1 <= Len(fields)
                 PROVE  Good(f[n + 1], Decoded(d, f[n + 1].block), n + 1)
    <3> HIDE DEF Good
    <3> QED
      OBVIOUS
  <2> DEFINE w == f[n]
             r == Decoded(d, f[n].block)
             field == fields[n + 1]
  <2>2. Good(w, r, n)
    <3> HIDE DEF Good
    <3> QED
      BY <1>3, <2>1
  <2>3. n + 1 \in 1..Len(fields) /\ n + 1 - 1 = n
    BY <2>1
  <2>4. field \in FieldSet /\ f[n + 1] = EncodeField(w, field)
    BY <1>1, <2>3 DEF Encodes
  <2>5. w.block \in Seq(Reps) /\ r.fields \in Seq(Readable)
    <3> HIDE DEF w, r
    <3> QED
      BY <2>2 DEF Writing, Reading
  <2>6. r = Decoded(d, w.block)
    OBVIOUS
  <2> HIDE DEF w, r, field
  <2>7. PICK rep \in Reps :
             /\ EncodeField(w, field) \in Writing
             /\ EncodeField(w, field).block = Append(w.block, rep)
             /\ EncodeField(w, field).table.max = w.table.max
             /\ DecodeRep(r, rep) \in Reading /\ ~DecodeRep(r, rep).error
             /\ InStep(EncodeField(w, field).table, DecodeRep(r, rep).table)
             /\ \E x \in Readable :
                  Same(field, x) /\ DecodeRep(r, rep).fields = Append(r.fields, x)
    BY <2>2, <2>4, FieldInStep, Zenon
  <2>8. PICK x \in Readable : Same(field, x) /\ DecodeRep(r, rep).fields = Append(r.fields, x)
    BY <2>7
  <2> DEFINE w2 == EncodeField(w, field)
             r2 == DecodeRep(r, rep)
  <2>9. Decoded(d, w2.block) = r2
    <3>1. Decoded(d, Append(w.block, rep)) = DecodeRep(Decoded(d, w.block), rep)
      BY <2>5, DecodedOnward
    <3> QED
      BY <2>6, <2>7, <3>1, Zenon
  <2>10. /\ w2 \in Writing /\ w2.table.max = encoder.max
         /\ r2 \in Reading /\ ~r2.error /\ InStep(w2.table, r2.table)
    <3> HIDE DEF w2, r2
    <3> QED
      BY <2>2, <2>7, Zenon DEF w2, r2
  <2>11. r2.fields = Append(r.fields, x) /\ Same(fields[n + 1], x)
    BY <2>8 DEF field
  <2> HIDE DEF w2, r2
  <2>12. Len(r2.fields) = n + 1 /\ \A i \in 1..n + 1 : Same(fields[i], r2.fields[i])
    <3>1. Len(r.fields) = n /\ \A i \in 1..n : Same(fields[i], r.fields[i])
      BY <2>2
    <3>2. /\ Len(r2.fields) = n + 1 /\ r2.fields[n + 1] = x
          /\ \A i \in 1..n : r2.fields[i] = r.fields[i]
      BY <2>5, <2>11, <3>1
    <3>3. \A i \in 1..n : Same(fields[i], r2.fields[i])
      BY <3>1, <3>2, Zenon
    <3>4. Same(fields[n + 1], r2.fields[n + 1])
      BY <2>11, <3>2, Zenon
    <3>5. \A i \in 1..n + 1 : i = n + 1 \/ i \in 1..n
      OBVIOUS
    <3> QED
      BY <3>2, <3>3, <3>4, <3>5, Zenon
  <2>13. Good(w2, r2, n + 1)
    BY <2>10, <2>12, Zenon
  <2>14. f[n + 1] = w2
    BY <2>4 DEF w2
  <2> HIDE DEF Good
  <2> QED
    BY <2>9, <2>13, <2>14, Zenon
<1>4. \A n \in Nat : n \in T
  <2> HIDE DEF T
  <2> QED
    BY <1>2, <1>3, Induction
<1> DEFINE w == Encoded(fields)
           r == Decoded(d, w.block)
<1>5. Good(w, r, Len(fields))
  <2>1. Len(fields) \in T
    BY <1>4
  <2>2. Good(f[Len(fields)], Decoded(d, f[Len(fields)].block), Len(fields))
    <3> HIDE DEF Good
    <3> QED
      BY <2>1
  <2> HIDE DEF Good
  <2> QED
    BY <1>1, <2>2, Zenon
<1> HIDE DEF w, r
<1>6. ReadsAs(r, fields)
  BY <1>5 DEF ReadsAs
<1> QED
  BY <1>5, <1>6 DEF w, r

-----------------------------------------------------------------------------
(* Both tables are empty and of the same size, and nothing is on its way.  *)
LEMMA InitInv ==
    ASSUME Init
    PROVE  IInv
<1>1. NewTable \in Tables /\ NewTable.max = Limit /\ NewTable.entries = << >>
  <2>1. << >> \in Seq(FieldSet)
    OBVIOUS
  <2>2. Cost(<< >>) = 0
    BY <2>1, CostType, Zenon
  <2>3. NewTable \in [entries : Seq(FieldSet), max : Nat] /\ NewTable.entries = << >> /\ NewTable.max = Limit
    BY <2>1, HpackAssumption DEF NewTable
  <2>4. Cost(NewTable.entries) = 0
    BY <2>2, <2>3, Zenon
  <2>5. Cost(NewTable.entries) <= NewTable.max
    BY <2>3, <2>4, HpackAssumption
  <2> QED
    BY <2>3, <2>5, Zenon DEF Tables
<1>2. HpackTypeOK
  BY <1>1, HpackAssumption DEF Init, HpackTypeOK
<1> DEFINE tables == [n \in 0..0 |-> NewTable]
<1>3. tables \in [0..0 -> Tables] /\ tables[0] = NewTable
  BY <1>1
<1> HIDE DEF tables
<1>4. Len(blocks) = 0
  BY DEF Init
<1>5. Chain(tables)
  BY <1>3, <1>4 DEF Init, Chain
<1>6. Agrees(tables[Len(blocks)])
  <2>1. << >> \in Seq(FieldSet)
    OBVIOUS
  <2>2. IsPrefix(NewTable.entries, NewTable.entries)
    BY <1>1 DEF IsPrefix
  <2> QED
    BY <1>3, <1>4, <2>2 DEF Init, Agrees
<1>7. ReadAsSent
  BY DEF Init, ReadAsSent
<1> QED
  BY <1>2, <1>5, <1>6, <1>7 DEF IInv

(* A smaller table is a prefix of the one before it.                       *)
LEMMA ResizeStep ==
    ASSUME IInv, NEW max \in Sizes, ResizeEncoder(max)
    PROVE  IInv'
<1>1. HpackTypeOK /\ ReadAsSent
  BY DEF IInv
<1>2. PICK tables : Chain(tables) /\ Agrees(tables[Len(blocks)])
  BY DEF IInv
<1>3. /\ encoder' = Resize(encoder, max) /\ pending' = max
      /\ UNCHANGED decoder /\ UNCHANGED blocks /\ UNCHANGED last
  BY DEF ResizeEncoder
<1>4. encoder \in Tables /\ max \in Nat /\ max <= Limit /\ max # NoSize
  BY <1>1, HpackAssumption DEF HpackTypeOK, NoSize
<1>5. /\ encoder' \in Tables /\ encoder'.max = max
      /\ IsPrefix(encoder'.entries, encoder.entries)
  BY <1>3, <1>4, ResizeKeeps
<1>6. HpackTypeOK'
  BY <1>1, <1>3, <1>4, <1>5 DEF HpackTypeOK
<1>7. Chain(tables)'
  BY <1>2, <1>3 DEF Chain
<1>8. Agrees(tables[Len(blocks)])'
  <2> DEFINE d == tables[Len(blocks)]
  <2>1. d \in Tables
    BY <1>1, <1>2 DEF Chain, HpackTypeOK
  <2>2. IsPrefix(encoder.entries, d.entries)
    BY <1>2 DEF Agrees
  <2>3. encoder.entries \in Seq(FieldSet) /\ encoder'.entries \in Seq(FieldSet) /\ d.entries \in Seq(FieldSet)
    BY <1>4, <1>5, <2>1 DEF Tables
  <2>4. IsPrefix(encoder'.entries, d.entries)
    BY <1>5, <2>2, <2>3, PrefixKept
  <2> QED
    BY <1>3, <1>4, <1>5, <2>4 DEF Agrees
<1>9. ReadAsSent'
  BY <1>1, <1>3 DEF ReadAsSent
<1> QED
  BY <1>6, <1>7, <1>8, <1>9 DEF IInv

(* A block encoded is one more on its way, read as it is by the table the  *)
(* decoder has by then.                                                    *)
LEMMA EncodeStep ==
    ASSUME IInv, NEW fields \in Seq(FieldSet), Encode(fields)
    PROVE  IInv'
<1>1. HpackTypeOK /\ ReadAsSent
  BY DEF IInv
<1>2. PICK tables : Chain(tables) /\ Agrees(tables[Len(blocks)])
  BY DEF IInv
<1> DEFINE n == Len(blocks)
           w == Encoded(fields)
           r == Decoded(tables[n], w.block)
           sent == [block |-> w.block, fields |-> fields]
<1>3. /\ encoder' = w.table /\ pending' = NoSize /\ blocks' = Append(blocks, sent)
      /\ UNCHANGED decoder /\ UNCHANGED last
  BY DEF Encode
<1>4. n \in Nat /\ tables[n] \in Tables /\ tables \in [0..n -> Tables]
  BY <1>1, <1>2 DEF Chain, HpackTypeOK
<1>5. w \in Writing /\ w.table.max = encoder.max /\ ReadsAs(r, fields) /\ InStep(w.table, r.table)
  BY <1>1, <1>2, <1>4, ListInStep, Zenon
<1> HIDE DEF w
<1>6. w.table \in Tables /\ w.block \in Seq(Reps) /\ sent \in Blocks /\ r.table \in Tables
  <2> HIDE DEF r
  <2> QED
    BY <1>5 DEF Writing, Reading, ReadsAs, Blocks
<1>7. sent.block = w.block /\ sent.fields = fields
  OBVIOUS
<1> HIDE DEF sent
<1>8. /\ blocks' \in Seq(Blocks) /\ Len(blocks') = n + 1 /\ blocks'[n + 1] = sent
      /\ \A i \in 1..n : blocks'[i] = blocks[i]
  BY <1>1, <1>3, <1>6 DEF HpackTypeOK
<1>9. HpackTypeOK'
  BY <1>1, <1>3, <1>5, <1>6, <1>8 DEF HpackTypeOK
<1>10. PICK more : /\ more \in [0..n + 1 -> Tables] /\ more[n + 1] = r.table
                   /\ \A i \in 0..n : more[i] = tables[i]
  <2> DEFINE longer == [i \in 0..n + 1 |-> IF i <= n THEN tables[i] ELSE r.table]
  <2> HIDE DEF r
  <2>1. /\ longer \in [0..n + 1 -> Tables] /\ longer[n + 1] = r.table
        /\ \A i \in 0..n : longer[i] = tables[i]
    BY <1>4, <1>6
  <2> HIDE DEF longer
  <2> QED
    BY <2>1
<1>11. Chain(more)'
  <2>1. more \in [0..Len(blocks') -> Tables] /\ more[0] = decoder'
    BY <1>2, <1>3, <1>4, <1>8, <1>10 DEF Chain
  <2>2. ASSUME NEW i \in 1..Len(blocks')
        PROVE  /\ ReadsAs(Decoded(more[i - 1], blocks'[i].block), blocks'[i].fields)
               /\ more[i] = Decoded(more[i - 1], blocks'[i].block).table
    <3>1. CASE i \in 1..n
      <4>1. blocks'[i] = blocks[i] /\ more[i] = tables[i] /\ more[i - 1] = tables[i - 1]
        <5>1. i \in 0..n /\ i - 1 \in 0..n
          BY <1>4, <3>1
        <5> QED
          BY <1>8, <1>10, <3>1, <5>1
      <4>2. /\ ReadsAs(Decoded(tables[i - 1], blocks[i].block), blocks[i].fields)
            /\ tables[i] = Decoded(tables[i - 1], blocks[i].block).table
        BY <1>2, <3>1 DEF Chain
      <4> QED
        BY <4>1, <4>2, Zenon
    <3>2. CASE i = n + 1
      <4>1. i - 1 = n /\ more[i - 1] = tables[n]
        BY <1>4, <1>10, <3>2
      <4>2. blocks'[i].block = w.block /\ blocks'[i].fields = fields /\ more[i] = r.table
        BY <1>7, <1>8, <1>10, <3>2
      <4>3. Decoded(more[i - 1], blocks'[i].block) = r
        BY <4>1, <4>2, Zenon
      <4> HIDE DEF r
      <4> QED
        BY <1>5, <4>2, <4>3, Zenon
    <3> QED
      BY <1>4, <1>8, <3>1, <3>2
  <2> QED
    BY <1>3, <2>1, <2>2 DEF Chain
<1>12. Agrees(more[Len(blocks)])'
  <2> HIDE DEF r
  <2> QED
    BY <1>3, <1>5, <1>8, <1>10 DEF Agrees, InStep
<1>13. ReadAsSent'
  BY <1>1, <1>3 DEF ReadAsSent
<1> QED
  BY <1>9, <1>11, <1>12, <1>13 DEF IInv

(* The block that comes is read as it was sent, and the tables after it    *)
(* are those there were.                                                   *)
LEMMA DecodeStep ==
    ASSUME IInv, Decode
    PROVE  IInv'
<1>1. HpackTypeOK /\ ReadAsSent
  BY DEF IInv
<1>2. PICK tables : Chain(tables) /\ Agrees(tables[Len(blocks)])
  BY DEF IInv
<1> DEFINE n == Len(blocks)
           r == Decoded(decoder, Head(blocks).block)
<1>3. /\ blocks # << >> /\ blocks' = Tail(blocks) /\ decoder' = r.table
      /\ last' = [sent |-> Head(blocks).fields, read |-> r.fields, error |-> r.error]
      /\ UNCHANGED encoder /\ UNCHANGED pending
  BY DEF Decode
<1>4. n \in Nat /\ n >= 1 /\ tables \in [0..n -> Tables] /\ tables[0] = decoder
  BY <1>1, <1>2, <1>3 DEF Chain, HpackTypeOK
<1>5. Head(blocks) = blocks[1] /\ blocks[1] \in Blocks
  BY <1>1, <1>3 DEF HpackTypeOK
<1>6. ReadsAs(r, blocks[1].fields) /\ tables[1] = r.table
  <2>1. 1 \in 1..n /\ 1 - 1 = 0
    BY <1>4
  <2>2. /\ ReadsAs(Decoded(tables[0], blocks[1].block), blocks[1].fields)
        /\ tables[1] = Decoded(tables[0], blocks[1].block).table
    BY <1>2, <2>1 DEF Chain
  <2> QED
    BY <1>4, <1>5, <2>2, Zenon
<1> HIDE DEF r
<1>7. /\ blocks' \in Seq(Blocks) /\ Len(blocks') = n - 1
      /\ \A i \in 1..n - 1 : blocks'[i] = blocks[i + 1]
  BY <1>1, <1>3 DEF HpackTypeOK
<1>8. HpackTypeOK'
  <2>1. tables[1] \in Tables
    BY <1>4
  <2> QED
    BY <1>1, <1>3, <1>6, <1>7, <2>1 DEF HpackTypeOK
<1>9. PICK rest : /\ rest \in [0..n - 1 -> Tables]
                  /\ \A i \in 0..n - 1 : rest[i] = tables[i + 1]
  <2> DEFINE shorter == [i \in 0..n - 1 |-> tables[i + 1]]
  <2>1. shorter \in [0..n - 1 -> Tables] /\ \A i \in 0..n - 1 : shorter[i] = tables[i + 1]
    BY <1>4
  <2> HIDE DEF shorter
  <2> QED
    BY <2>1
<1>10. Chain(rest)'
  <2>1. rest \in [0..Len(blocks') -> Tables] /\ rest[0] = decoder'
    BY <1>3, <1>4, <1>6, <1>7, <1>9
  <2>2. ASSUME NEW i \in 1..Len(blocks')
        PROVE  /\ ReadsAs(Decoded(rest[i - 1], blocks'[i].block), blocks'[i].fields)
               /\ rest[i] = Decoded(rest[i - 1], blocks'[i].block).table
    <3>1. i \in 1..n - 1 /\ i + 1 \in 1..n /\ i + 1 - 1 = i
      BY <1>4, <1>7
    <3>2. blocks'[i] = blocks[i + 1] /\ rest[i] = tables[i + 1] /\ rest[i - 1] = tables[i]
      BY <1>4, <1>7, <1>9, <3>1
    <3>3. /\ ReadsAs(Decoded(tables[i], blocks[i + 1].block), blocks[i + 1].fields)
          /\ tables[i + 1] = Decoded(tables[i], blocks[i + 1].block).table
      BY <1>2, <3>1 DEF Chain
    <3> QED
      BY <3>2, <3>3, Zenon
  <2> QED
    BY <2>1, <2>2 DEF Chain
<1>11. Agrees(rest[Len(blocks)])'
  <2>1. rest[Len(blocks')] = tables[n]
    BY <1>4, <1>7, <1>9
  <2> QED
    BY <1>2, <1>3, <2>1 DEF Agrees
<1>12. ReadAsSent'
  BY <1>3, <1>5, <1>6 DEF ReadAsSent, ReadsAs
<1> QED
  BY <1>8, <1>10, <1>11, <1>12 DEF IInv

(* Every step keeps the invariant.                                         *)
LEMMA Invariance == Spec => []IInv
<1>1. IInv /\ [Next]_vars => IInv'
  <2>1. IInv /\ UNCHANGED vars => IInv'
    BY DEF vars, IInv, HpackTypeOK, Chain, Agrees, ReadAsSent
  <2>2. ASSUME NEW n \in 0..MaxFields, NEW fields \in [1..n -> FieldSet]
        PROVE  fields \in Seq(FieldSet)
    BY HpackAssumption
  <2> QED
    BY <2>1, <2>2, ResizeStep, EncodeStep, DecodeStep DEF Next
<1> QED
  BY <1>1, InitInv, PTL DEF Spec

(* However sizes change while blocks are on their way, and however many    *)
(* changes are announced as one: Decoder::decode reads every list that     *)
(* Encoder::encode was given, and never meets an error.                    *)
THEOREM ListsReadAsSent == Spec => []ReadAsSent
<1>1. IInv => ReadAsSent
  BY DEF IInv
<1> QED
  BY <1>1, Invariance, PTL

(* insert and resize keep both tables within the size they have.           *)
THEOREM TablesWithin == Spec => []TablesBounded
<1>1. IInv => TablesBounded
  BY DEF IInv, HpackTypeOK, Tables, TablesBounded
<1> QED
  BY <1>1, Invariance, PTL

(* With no block on its way the decoder holds what the encoder does, at    *)
(* the same indices: evict keeps every entry an index may yet name.        *)
THEOREM DecoderHasEntries == Spec => []EncoderIsPrefix
<1>1. ASSUME IInv PROVE EncoderIsPrefix
  <2>1. PICK tables : Chain(tables) /\ Agrees(tables[Len(blocks)])
    BY <1>1 DEF IInv
  <2>2. SUFFICES ASSUME blocks = << >>
                 PROVE  IsPrefix(encoder.entries, decoder.entries)
    BY DEF EncoderIsPrefix
  <2>3. Len(blocks) = 0
    BY <2>2
  <2> QED
    BY <2>1, <2>3 DEF Chain, Agrees
<1> QED
  BY <1>1, Invariance, PTL
=============================================================================
