---------------------------- MODULE FramingProofs ----------------------------
(***************************************************************************)
(* What Framing's run checks on short connections, proved of every preface,*)
(* header length, bound and silence: what is read never outgrows what was  *)
(* asked for, a connection is taken for HTTP/2 exactly where it opens with *)
(* the preface, and a peer is given the whole silence and no more; nothing *)
(* that came is lost, a clean end is one between two frames, and the frames*)
(* read are the frames written, in order. The last three speak of lengths  *)
(* and frames of any number of octets, by inductions over them.            *)
(***************************************************************************)
EXTENDS Framing, SequenceTheorems, WellFoundedInduction, TLAPS

Stages  == {"sniff", "preface", "header", "body", "rest", "done"}
Results == {"none", "over", "not_preface", "nothing", "clean", "whole", "cut", "broken",
            "aborted", "silent"}

\* The types of what TypeOK leaves open.
ReadTypeOK ==
  /\ stage \in Stages /\ result \in Results /\ need \in Nat
  /\ buf \in Seq(Octets) /\ frames \in Seq(Seq(Octets))
OctetsTypeOK ==
  /\ ReadTypeOK
  /\ fin \in {"open", "closed", "reset"}
  /\ out \in Seq(Octets) /\ wire \in Seq(Octets) /\ first \in Seq(Octets)
  /\ taken \in Nat /\ quiet \in 0..Silence + 1 /\ idle \in 0..Silence + 1

\* How much is read for at each stage.
Fits(what, length) ==
  /\ what \in {"sniff", "preface"} => length = Len(Preface)
  /\ what = "header" => length = HeaderLen
  /\ what = "body" => length \in 1..MaxBody
  /\ what = "rest" => length = Ceiling + 1
  /\ what = "done" => length = 0

\* What is read is short of that; the frames read kept within MAX_BODY.
ReadingInv ==
  /\ Fits(stage, need)
  /\ stage # "done" => Len(buf) < need
  /\ stage # "done" => \A i \in DOMAIN frames : Len(frames[i]) <= MaxBody
  /\ (stage = "done") <=> (result # "none")

\* What came and is to come fits; a peer that sends any octets holds none.
WireInv ==
  /\ taken <= Len(wire) /\ Len(wire) + Len(out) <= MaxWire
  /\ peer \in {"frames", "any"} /\ (peer = "any" => out = <<>>)

\* The wire opens with the preface, octet by octet; or it never will.
Matches == Len(Preface) <= Len(wire) /\ \A i \in 1..Len(Preface) : wire[i] = Preface[i]
Differs == \/ \E i \in 1..Len(Preface) : i <= Len(wire) /\ wire[i] # Preface[i]
           \/ fin # "open" /\ Len(wire) < Len(Preface)

\* What sniff holds is what came and opens the preface; what it puts back is
\* the whole of it, which the handshake reads again before anything else.
OpeningInv ==
  /\ stage = "sniff" =>
       Len(buf) = taken /\ \A i \in 1..taken : buf[i] = wire[i] /\ buf[i] = Preface[i]
  /\ stage = "preface" => buf = <<>> /\ first = Preface /\ Matches
  /\ stage \in {"header", "body"} \/ result = "clean" => Matches
  /\ stage = "rest" \/ result = "whole" => Differs
  /\ result # "not_preface"

\* Watched's count of the silence is the peer's, while all that came is read
\* and the connection is open; with more to read there was no silence.
SilenceInv ==
  /\ taken < Len(wire) => idle = 0
  /\ taken = Len(wire) => quiet <= idle
  /\ fin = "open" => idle <= quiet
  /\ result = "none" /\ beats => idle <= Silence
  /\ result = "silent" => beats /\ idle > Silence

IInv == OctetsTypeOK /\ ReadingInv /\ WireInv /\ OpeningInv /\ SilenceInv

-----------------------------------------------------------------------------
(* Induction, and functions defined by recursion.                          *)

\* A set that has 0, and with a number the one after it, has every number.
LEMMA Induction ==
  ASSUME NEW T, 0 \in T, \A n \in Nat : n \in T => n + 1 \in T
  PROVE  \A n \in Nat : n \in T
<1>1. SUFFICES ASSUME NEW n \in Nat, n \notin T
               PROVE  FALSE
  OBVIOUS
<1> DEFINE Missing == Nat \ T
<1>2. PICK x \in Missing : \A y \in Missing : ~(<<y, x>> \in OpToRel(<, Nat))
  <2>1. Missing \subseteq Nat /\ Missing # {}
    BY <1>1
  <2> HIDE DEF Missing
  <2> QED
    BY <2>1, WFMin, NatLessThanWellFounded, Zenon
<1>3. x - 1 \notin Missing
  <2>1. SUFFICES ASSUME x - 1 \in Missing PROVE FALSE
    OBVIOUS
  <2>2. ~(<<x - 1, x>> \in {ss \in Nat \X Nat : ss[1] < ss[2]})
    BY <1>2, <2>1 DEF OpToRel
  <2> QED
    BY <2>1, <2>2
<1>4. x # 0 /\ x \in Nat /\ x \notin T
  OBVIOUS
<1>5. x - 1 \in Nat /\ x - 1 + 1 = x
  BY <1>4
<1>6. x - 1 \in T
  BY <1>3, <1>5
<1> QED
  BY <1>4, <1>5, <1>6

\* f is defined by recursion on 0..n: what it is at 0, and what each step
\* makes of the one before.
Recursive(f, V, base, n, step) ==
  /\ f \in [0..n -> V] /\ f[0] = base
  /\ \A i \in 1..n : f[i] = step[i][f[i - 1]]

\* Such a function is there.
LEMMA RecursionExists ==
  ASSUME NEW V, NEW base \in V, NEW n \in Nat, NEW step \in [1..n -> [V -> V]]
  PROVE  \E f : Recursive(f, V, base, n, step)
<1> DEFINE T == {m \in Nat : m <= n => \E f : Recursive(f, V, base, m, step)}
<1>1. 0 \in T
  <2> DEFINE g == [i \in 0..0 |-> base]
  <2>1. Recursive(g, V, base, 0, step)
    BY DEF Recursive
  <2> QED
    BY <2>1
<1>2. ASSUME NEW m \in Nat, m \in T
      PROVE  m + 1 \in T
  <2>1. SUFFICES ASSUME m + 1 <= n
                 PROVE  \E f : Recursive(f, V, base, m + 1, step)
    BY <1>2
  <2>2. PICK f : Recursive(f, V, base, m, step)
    BY <1>2, <2>1
  <2>3. /\ f \in [0..m -> V] /\ f[0] = base
        /\ \A i \in 1..m : f[i] = step[i][f[i - 1]]
    BY <2>2 DEF Recursive
  <2> DEFINE g == [i \in 0..m + 1 |-> IF i <= m THEN f[i] ELSE step[m + 1][f[m]]]
  <2>4. m + 1 \in 1..n /\ f[m] \in V
    BY <2>1, <2>3
  <2>5. step[m + 1][f[m]] \in V
    BY <2>4
  <2>6. g \in [0..m + 1 -> V] /\ g[0] = base
    BY <2>3, <2>5
  <2>7. ASSUME NEW i \in 1..m + 1
        PROVE  g[i] = step[i][g[i - 1]]
    <3>1. CASE i <= m
      BY <2>3, <3>1
    <3>2. CASE i = m + 1
      <4>1. i - 1 = m /\ m \in 0..m + 1 /\ m + 1 \in 0..m + 1 /\ ~(m + 1 <= m)
        BY <3>2
      <4>2. g[i - 1] = f[m] /\ g[i] = step[m + 1][f[m]]
        BY <3>2, <4>1
      <4> QED
        BY <3>2, <4>2
    <3> QED
      BY <3>1, <3>2
  <2>8. Recursive(g, V, base, m + 1, step)
    <3> HIDE DEF g
    <3> QED
      BY <2>6, <2>7 DEF Recursive
  <2> QED
    BY <2>8
<1>3. n \in T
  <2> HIDE DEF T
  <2> QED
    BY <1>1, <1>2, Induction
<1> QED
  BY <1>3

\* g begins and goes on the same, as far as it stays within V.
Follows(g, V, base, n, step) ==
  g[0] = base /\ \A i \in 1..n : g[i - 1] \in V => g[i] = step[i][g[i - 1]]

\* And there is one only, of whatever begins and goes on the same.
LEMMA RecursionUnique ==
  ASSUME NEW V, NEW base, NEW n \in Nat, NEW step, NEW f, NEW g,
         Recursive(f, V, base, n, step), Follows(g, V, base, n, step)
  PROVE  \A i \in 0..n : g[i] = f[i]
<1> USE DEF Follows
<1> DEFINE T == {m \in Nat : m <= n => g[m] = f[m]}
<1>1. /\ f \in [0..n -> V] /\ f[0] = base
      /\ \A i \in 1..n : f[i] = step[i][f[i - 1]]
  BY DEF Recursive
<1>2. 0 \in T
  BY <1>1
<1>3. ASSUME NEW m \in Nat, m \in T
      PROVE  m + 1 \in T
  <2>1. SUFFICES ASSUME m + 1 <= n
                 PROVE  g[m + 1] = f[m + 1]
    OBVIOUS
  <2>2. g[m] = f[m] /\ m + 1 \in 1..n /\ m + 1 - 1 = m /\ f[m] \in V
    BY <1>1, <1>3, <2>1
  <2>3. f[m + 1] = step[m + 1][f[m]] /\ g[m + 1] = step[m + 1][g[m]]
    BY <1>1, <2>2
  <2> QED
    BY <2>2, <2>3
<1>4. \A m \in Nat : m \in T
  <2> HIDE DEF T
  <2> QED
    BY <1>2, <1>3, Induction
<1> QED
  BY <1>4

-----------------------------------------------------------------------------
(* Lengths as octets.                                                      *)

\* Length, from the most significant octet on.
Value(f, s) ==
  /\ f \in [0..Len(s) -> Nat] /\ f[0] = 0
  /\ \A i \in 1..Len(s) : f[i] = f[i - 1] * Base + s[i]

\* What Length computes.
LEMMA LengthUnfolds ==
  ASSUME NEW s \in Seq(Octets)
  PROVE  \E f : Value(f, s) /\ Length(s) = f[Len(s)]
<1> DEFINE n == Len(s)
           step == [i \in 1..n |-> [v \in Nat |-> v * Base + s[i]]]
<1>1. n \in Nat /\ Base \in Nat /\ \A i \in 1..n : s[i] \in Nat
  BY BaseAssumption DEF Octets
<1>2. \A i \in 1..n : \A v \in Nat : v * Base + s[i] \in Nat
  <2>1. \A a, b, c \in Nat : a * b + c \in Nat
    OBVIOUS
  <2> QED
    BY <1>1, <2>1, Zenon
<1>3. step \in [1..n -> [Nat -> Nat]]
  BY <1>2
<1>4. PICK f : Recursive(f, Nat, 0, n, step)
  <2> HIDE DEF step, n
  <2> QED
    BY <1>1, <1>3, RecursionExists
<1>5. f \in [0..n -> Nat] /\ f[0] = 0 /\ \A i \in 1..n : f[i] = f[i - 1] * Base + s[i]
  <2>1. ASSUME NEW i \in 1..n
        PROVE  f[i] = f[i - 1] * Base + s[i]
    <3>1. i - 1 \in 0..n
      BY <1>1
    <3>2. f[i - 1] \in Nat /\ f[i] = step[i][f[i - 1]]
      BY <1>4, <3>1 DEF Recursive
    <3> QED
      BY <3>2
  <2> QED
    BY <1>4, <2>1 DEF Recursive
<1>6. f = [i \in 0..n |-> IF i = 0 THEN 0 ELSE f[i - 1] * Base + s[i]]
  <2> HIDE DEF n
  <2> QED
    BY <1>1, <1>5
<1> DEFINE up == CHOOSE g : g = [i \in 0..Len(s) |-> IF i = 0 THEN 0 ELSE g[i - 1] * Base + s[i]]
<1>7. up = [i \in 0..Len(s) |-> IF i = 0 THEN 0 ELSE up[i - 1] * Base + s[i]]
  BY <1>6
<1>8. Length(s) = up[Len(s)]
  BY DEF Length
<1> HIDE DEF up
<1>9. Follows(up, Nat, 0, n, step)
  <2>1. up[0] = 0 /\ \A i \in 1..n : up[i] = up[i - 1] * Base + s[i]
    BY <1>1, <1>7
  <2>2. \A i \in 1..n : \A v \in Nat : step[i][v] = v * Base + s[i]
    OBVIOUS
  <2> HIDE DEF step, n
  <2> QED
    BY <2>1, <2>2 DEF Follows
<1>10. \A i \in 0..n : up[i] = f[i]
  <2> HIDE DEF n, step
  <2> QED
    BY <1>1, <1>4, <1>9, RecursionUnique
<1>11. Length(s) = f[n]
  BY <1>1, <1>8, <1>10
<1> QED
  BY <1>5, <1>11 DEF Value

\* Dividing by the base, again and again.
Shifted(f, n) ==
  /\ f \in [0..HeaderLen -> Nat] /\ f[0] = n
  /\ \A k \in 1..HeaderLen : f[k] = f[k - 1] \div Base

\* What LengthOctets computes.
LEMMA OctetsUnfold ==
  ASSUME NEW length \in Nat
  PROVE  \E f : /\ Shifted(f, length)
                /\ LengthOctets(length) = [i \in 1..HeaderLen |-> f[HeaderLen - i] % Base]
<1> DEFINE step == [k \in 1..HeaderLen |-> [v \in Nat |-> v \div Base]]
<1>1. HeaderLen \in Nat /\ Base \in Nat \ {0}
  BY BaseAssumption
<1>2. step \in [1..HeaderLen -> [Nat -> Nat]]
  <2>1. \A v \in Nat : v \div Base \in Nat
    BY <1>1
  <2> QED
    BY <2>1
<1>3. PICK f : Recursive(f, Nat, length, HeaderLen, step)
  <2> HIDE DEF step
  <2> QED
    BY <1>1, <1>2, RecursionExists
<1>4. Shifted(f, length)
  <2>1. ASSUME NEW k \in 1..HeaderLen
        PROVE  f[k] = f[k - 1] \div Base
    <3>1. k - 1 \in 0..HeaderLen
      BY <1>1
    <3>2. f[k - 1] \in Nat /\ f[k] = step[k][f[k - 1]]
      BY <1>3, <3>1 DEF Recursive
    <3> QED
      BY <3>2
  <2> QED
    BY <1>3, <2>1 DEF Recursive, Shifted
<1>5. f = [k \in 0..HeaderLen |-> IF k = 0 THEN length ELSE f[k - 1] \div Base]
  BY <1>1, <1>4 DEF Shifted
<1>6. PICK over : /\ over = [k \in 0..HeaderLen |-> IF k = 0 THEN length ELSE over[k - 1] \div Base]
                   /\ LengthOctets(length) = [i \in 1..HeaderLen |-> over[HeaderLen - i] % Base]
  <2> DEFINE chosen == CHOOSE g : g = [k \in 0..HeaderLen |-> IF k = 0 THEN length ELSE g[k - 1] \div Base]
  <2>1. chosen = [k \in 0..HeaderLen |-> IF k = 0 THEN length ELSE chosen[k - 1] \div Base]
    BY <1>5
  <2>2. LengthOctets(length) = [i \in 1..HeaderLen |-> chosen[HeaderLen - i] % Base]
    BY DEF LengthOctets
  <2> HIDE DEF chosen
  <2> QED
    BY <2>1, <2>2
<1>8. Follows(over, Nat, length, HeaderLen, step)
  <2>1. over[0] = length /\ \A k \in 1..HeaderLen : over[k] = over[k - 1] \div Base
    BY <1>1, <1>6
  <2>2. \A k \in 1..HeaderLen : \A v \in Nat : step[k][v] = v \div Base
    OBVIOUS
  <2> HIDE DEF step
  <2>3. ASSUME NEW k \in 1..HeaderLen, over[k - 1] \in Nat
        PROVE  over[k] = step[k][over[k - 1]]
    BY <2>1, <2>2, <2>3, Zenon
  <2> QED
    BY <2>1, <2>3 DEF Follows
<1>9. \A k \in 0..HeaderLen : over[k] = f[k]
  <2> HIDE DEF step
  <2> QED
    BY <1>1, <1>3, <1>8, RecursionUnique
<1>10. \A i \in 1..HeaderLen : over[HeaderLen - i] = f[HeaderLen - i]
  BY <1>1, <1>9
<1>11. LengthOctets(length) = [i \in 1..HeaderLen |-> f[HeaderLen - i] % Base]
  BY <1>6, <1>10
<1> QED
  BY <1>4, <1>11

\* A header is HeaderLen octets.
LEMMA OctetsType ==
  ASSUME NEW n \in Nat
  PROVE  LengthOctets(n) \in Seq(Octets) /\ Len(LengthOctets(n)) = HeaderLen
<1>1. HeaderLen \in Nat /\ Base \in Nat \ {0}
  BY BaseAssumption
<1>2. PICK f : /\ Shifted(f, n)
               /\ LengthOctets(n) = [i \in 1..HeaderLen |-> f[HeaderLen - i] % Base]
  BY OctetsUnfold
<1>3. ASSUME NEW i \in 1..HeaderLen
      PROVE  f[HeaderLen - i] % Base \in Octets
  <2>1. HeaderLen - i \in 0..HeaderLen
    BY <1>1
  <2>2. f[HeaderLen - i] \in Nat
    BY <1>2, <2>1 DEF Shifted
  <2> QED
    BY <1>1, <2>2 DEF Octets
<1>4. LengthOctets(n) \in [1..HeaderLen -> Octets]
  BY <1>2, <1>3
<1> QED
  BY <1>1, <1>4

\* A header's octets are those of the length it says: from_be_bytes and then
\* to_be_bytes.
LEMMA HeaderAsRead ==
  ASSUME NEW s \in Seq(Octets), Len(s) = HeaderLen
  PROVE  Length(s) \in Nat /\ LengthOctets(Length(s)) = s
<1>1. HeaderLen \in Nat /\ Base \in Nat \ {0} /\ \A i \in 1..HeaderLen : s[i] \in 0..Base - 1
  BY BaseAssumption DEF Octets
<1>2. PICK v : Value(v, s) /\ Length(s) = v[Len(s)]
  BY LengthUnfolds
<1>3. /\ v \in [0..HeaderLen -> Nat]
      /\ \A i \in 1..HeaderLen : v[i] = v[i - 1] * Base + s[i]
  BY <1>2 DEF Value
<1>4. Length(s) \in Nat /\ Length(s) = v[HeaderLen]
  BY <1>1, <1>2, <1>3
<1>5. PICK f : /\ Shifted(f, Length(s))
               /\ LengthOctets(Length(s)) = [i \in 1..HeaderLen |-> f[HeaderLen - i] % Base]
  BY <1>4, OctetsUnfold
<1>6. \A q \in Nat : \A r \in 0..Base - 1 : (q * Base + r) \div Base = q /\ (q * Base + r) % Base = r
  BY <1>1
<1> DEFINE T == {k \in Nat : k <= HeaderLen => f[k] = v[HeaderLen - k]}
<1>7. 0 \in T
  BY <1>1, <1>4, <1>5 DEF Shifted
<1>8. ASSUME NEW k \in Nat, k \in T
      PROVE  k + 1 \in T
  <2>1. SUFFICES ASSUME k + 1 <= HeaderLen
                 PROVE  f[k + 1] = v[HeaderLen - (k + 1)]
    OBVIOUS
  <2> DEFINE i == HeaderLen - k
  <2>2. i \in 1..HeaderLen /\ i - 1 \in 0..HeaderLen /\ i - 1 = HeaderLen - (k + 1)
        /\ k + 1 \in 1..HeaderLen /\ k + 1 - 1 = k
    BY <1>1, <2>1
  <2>3. f[k] = v[i]
    BY <1>1, <1>8, <2>1
  <2> HIDE DEF i
  <2>4. f[k + 1] = v[i] \div Base
    BY <1>5, <2>2, <2>3 DEF Shifted
  <2>5. v[i] = v[i - 1] * Base + s[i] /\ v[i - 1] \in Nat /\ s[i] \in 0..Base - 1
    BY <1>1, <1>3, <2>2
  <2>6. f[k + 1] = v[i - 1]
    BY <1>6, <2>4, <2>5, Zenon
  <2> QED
    BY <2>2, <2>6
<1>9. \A k \in Nat : k \in T
  <2> HIDE DEF T
  <2> QED
    BY <1>7, <1>8, Induction
<1>10. ASSUME NEW i \in 1..HeaderLen
       PROVE  f[HeaderLen - i] % Base = s[i]
  <2>1. HeaderLen - i \in Nat /\ HeaderLen - i <= HeaderLen /\ HeaderLen - (HeaderLen - i) = i
    BY <1>1
  <2>2. f[HeaderLen - i] = v[i]
    BY <1>9, <2>1
  <2>3. v[i] = v[i - 1] * Base + s[i] /\ v[i - 1] \in Nat /\ s[i] \in 0..Base - 1
    <3>1. i - 1 \in 0..HeaderLen
      BY <1>1
    <3> QED
      BY <1>1, <1>3, <3>1
  <2> QED
    BY <1>6, <2>2, <2>3, Zenon
<1>11. LengthOctets(Length(s)) \in Seq(Octets) /\ Len(LengthOctets(Length(s))) = HeaderLen
  BY <1>4, OctetsType
<1>12. ASSUME NEW i \in 1..HeaderLen
       PROVE  LengthOctets(Length(s))[i] = s[i]
  BY <1>5, <1>10
<1>13. LengthOctets(Length(s)) = s
  BY <1>11, <1>12, SeqEqual, Zenon
<1> QED
  BY <1>4, <1>13

\* A length within MAX_BODY fits in a header: nothing is left of it once
\* HeaderLen octets are taken off.
LEMMA BodyFits ==
  ASSUME NEW n \in 0..MaxBody, NEW f, Shifted(f, n)
  PROVE  f[HeaderLen] = 0
<1> DEFINE step == [k \in 1..HeaderLen |-> [v \in Nat |-> v * Base]]
<1>1. HeaderLen \in Nat /\ Base \in Nat \ {0} /\ MaxBody \in Nat /\ MaxBody < Capacity /\ n \in Nat
  BY BaseAssumption, BoundsAssumption
<1>2. step \in [1..HeaderLen -> [Nat -> Nat]]
  <2>1. \A v \in Nat : v * Base \in Nat
    BY <1>1
  <2> QED
    BY <2>1
<1>3. PICK p : Recursive(p, Nat, 1, HeaderLen, step)
  <2> HIDE DEF step
  <2> QED
    BY <1>1, <1>2, RecursionExists
<1>4. p \in [0..HeaderLen -> Nat] /\ p[0] = 1 /\ \A k \in 1..HeaderLen : p[k] = p[k - 1] * Base
  <2>1. ASSUME NEW k \in 1..HeaderLen
        PROVE  p[k] = p[k - 1] * Base
    <3>1. k - 1 \in 0..HeaderLen
      BY <1>1
    <3>2. p[k - 1] \in Nat /\ p[k] = step[k][p[k - 1]]
      BY <1>3, <3>1 DEF Recursive
    <3> QED
      BY <3>2
  <2> QED
    BY <1>3, <2>1 DEF Recursive
<1>5. Capacity = p[HeaderLen]
  <2>1. p = [k \in 0..HeaderLen |-> IF k = 0 THEN 1 ELSE p[k - 1] * Base]
    BY <1>1, <1>4
  <2> DEFINE power == CHOOSE g : g = [k \in 0..HeaderLen |-> IF k = 0 THEN 1 ELSE g[k - 1] * Base]
  <2>2. power = [k \in 0..HeaderLen |-> IF k = 0 THEN 1 ELSE power[k - 1] * Base]
    BY <2>1
  <2>3. Capacity = power[HeaderLen]
    BY DEF Capacity
  <2> HIDE DEF power
  <2>4. power[0] = 1 /\ \A k \in 1..HeaderLen : power[k] = power[k - 1] * Base
    BY <1>1, <2>2
  <2>5. \A k \in 1..HeaderLen : \A v \in Nat : step[k][v] = v * Base
    OBVIOUS
  <2> HIDE DEF step
  <2>6. ASSUME NEW k \in 1..HeaderLen, power[k - 1] \in Nat
        PROVE  power[k] = step[k][power[k - 1]]
    BY <2>4, <2>5, <2>6, Zenon
  <2>7. \A k \in 0..HeaderLen : power[k] = p[k]
    <3>1. Follows(power, Nat, 1, HeaderLen, step)
      BY <2>4, <2>6 DEF Follows
    <3> QED
      BY <1>1, <1>3, <3>1, RecursionUnique
  <2> QED
    BY <1>1, <2>3, <2>7
<1> DEFINE T == {k \in Nat : k <= HeaderLen => f[k] * p[k] <= n}
<1>6. \A k \in 0..HeaderLen : f[k] \in Nat /\ p[k] \in Nat
  BY <1>4 DEF Shifted
<1>7. 0 \in T
  BY <1>1, <1>4 DEF Shifted
<1>8. ASSUME NEW k \in Nat, k \in T
      PROVE  k + 1 \in T
  <2>1. SUFFICES ASSUME k + 1 <= HeaderLen
                 PROVE  f[k + 1] * p[k + 1] <= n
    OBVIOUS
  <2>2. k + 1 \in 1..HeaderLen /\ k + 1 - 1 = k /\ k \in 0..HeaderLen /\ f[k] * p[k] <= n
    BY <1>1, <1>8, <2>1
  <2>3. f[k + 1] = f[k] \div Base /\ p[k + 1] = p[k] * Base /\ f[k] \in Nat /\ p[k] \in Nat
    BY <1>4, <1>6, <2>2 DEF Shifted
  <2>4. \A a, b \in Nat : (a \div Base) * (b * Base) <= a * b
    <3>1. SUFFICES ASSUME NEW a \in Nat, NEW b \in Nat
                   PROVE  (a \div Base) * (b * Base) <= a * b
      OBVIOUS
    <3>2. PICK q \in Nat : q = a \div Base /\ q * Base <= a
      BY <1>1
    <3>3. (q * Base) * b <= a * b
      <4>1. PICK c \in Nat : c = q * Base
        BY <1>1
      <4>2. \A x, y, z \in Nat : x <= y => x * z <= y * z
        OBVIOUS
      <4> QED
        BY <3>2, <4>1, <4>2
    <3>4. q * (b * Base) = (q * Base) * b
      BY <1>1
    <3> QED
      BY <3>2, <3>3, <3>4
  <2>5. f[k + 1] * p[k + 1] <= f[k] * p[k]
    BY <2>3, <2>4, Zenon
  <2>6. PICK x \in Int, y \in Int : x = f[k + 1] * p[k + 1] /\ y = f[k] * p[k]
    BY <1>6, <2>2
  <2> QED
    BY <1>1, <2>2, <2>5, <2>6
<1>9. \A k \in Nat : k \in T
  <2> HIDE DEF T
  <2> QED
    BY <1>7, <1>8, Induction
<1>10. f[HeaderLen] * p[HeaderLen] <= n /\ n < p[HeaderLen]
  <2>1. HeaderLen \in T
    BY <1>1, <1>9
  <2>2. f[HeaderLen] * p[HeaderLen] <= n
    BY <1>1, <2>1
  <2> QED
    BY <1>1, <1>4, <1>5, <2>2
<1>11. f[HeaderLen] \in Nat /\ p[HeaderLen] \in Nat
  BY <1>1, <1>6
<1>12. \A a, b \in Nat : a * b <= n /\ n < b => a = 0
  <2>1. \A a, b \in Nat : a # 0 => b <= a * b
    OBVIOUS
  <2> QED
    BY <1>1, <2>1
<1> QED
  BY <1>10, <1>11, <1>12, Zenon

\* A length within MAX_BODY is what its header says: to_be_bytes and then
\* from_be_bytes.
LEMMA LengthAsWritten ==
  ASSUME NEW n \in 0..MaxBody
  PROVE  Length(LengthOctets(n)) = n
<1> DEFINE s == LengthOctets(n)
<1>1. HeaderLen \in Nat /\ Base \in Nat \ {0} /\ n \in Nat
  BY BaseAssumption, BoundsAssumption
<1>2. s \in Seq(Octets) /\ Len(s) = HeaderLen
  BY <1>1, OctetsType
<1>3. PICK f : Shifted(f, n) /\ s = [i \in 1..HeaderLen |-> f[HeaderLen - i] % Base]
  BY <1>1, OctetsUnfold
<1> HIDE DEF s
<1>4. PICK v : Value(v, s) /\ Length(s) = v[HeaderLen]
  BY <1>2, LengthUnfolds
<1>5. f[HeaderLen] = 0
  BY <1>3, BodyFits
<1>6. \A a \in Nat : (a \div Base) * Base + (a % Base) = a
  BY <1>1
<1> DEFINE T == {i \in Nat : i <= HeaderLen => v[i] = f[HeaderLen - i]}
<1>7. 0 \in T
  BY <1>1, <1>4, <1>5 DEF Value
<1>8. ASSUME NEW i \in Nat, i \in T
      PROVE  i + 1 \in T
  <2>1. SUFFICES ASSUME i + 1 <= HeaderLen
                 PROVE  v[i + 1] = f[HeaderLen - (i + 1)]
    OBVIOUS
  <2> DEFINE k == HeaderLen - i
  <2>2. k \in 1..HeaderLen /\ k - 1 \in 0..HeaderLen /\ k - 1 = HeaderLen - (i + 1)
        /\ i + 1 \in 1..HeaderLen /\ i + 1 - 1 = i
    BY <1>1, <2>1
  <2>3. v[i] = f[k]
    BY <1>1, <1>8, <2>1
  <2>4. v[i + 1] = v[i] * Base + s[i + 1]
    BY <1>2, <1>4, <2>2 DEF Value
  <2>5. s[i + 1] = f[k - 1] % Base
    BY <1>3, <2>2
  <2> HIDE DEF k
  <2>6. f[k] = f[k - 1] \div Base /\ f[k - 1] \in Nat
    BY <1>3, <2>2 DEF Shifted
  <2>7. v[i + 1] = f[k - 1]
    BY <1>6, <2>3, <2>4, <2>5, <2>6, Zenon
  <2> QED
    BY <2>2, <2>7
<1>9. \A i \in Nat : i \in T
  <2> HIDE DEF T
  <2> QED
    BY <1>7, <1>8, Induction
<1>10. v[HeaderLen] = f[0]
  <2>1. HeaderLen \in T /\ HeaderLen - HeaderLen = 0
    BY <1>1, <1>9
  <2> QED
    BY <1>1, <2>1
<1> QED
  BY <1>3, <1>4, <1>10 DEF Shifted, s

-----------------------------------------------------------------------------
(* Frames as octets.                                                       *)

\* Concatenation of octets is associative.
LEMMA Assoc == \A s, t, u \in Seq(Octets) : (s \o t) \o u = s \o (t \o u)
BY ConcatAssociative

\* What the proofs use of concatenation, of octets.
LEMMA Octetwise ==
  \A s, t \in Seq(Octets) :
    /\ s \o t \in Seq(Octets) /\ Len(s \o t) = Len(s) + Len(t) /\ Len(s) \in Nat
    /\ s \o <<>> = s /\ <<>> \o s = s
<1>1. SUFFICES ASSUME NEW s \in Seq(Octets), NEW t \in Seq(Octets)
               PROVE  /\ s \o t \in Seq(Octets) /\ Len(s \o t) = Len(s) + Len(t) /\ Len(s) \in Nat
                      /\ s \o <<>> = s /\ <<>> \o s = s
                    OBVIOUS
<1>2. s \o t \in Seq(Octets) /\ Len(s \o t) = Len(s) + Len(t) /\ Len(s) \in Nat
  BY ConcatProperties
<1>3. s \o <<>> = s /\ <<>> \o s = s
  BY ConcatEmptySeq, Zenon
<1> QED
  BY <1>2, <1>3

\* Of equal concatenations whose first parts are equally long, both parts are
\* the same.
LEMMA EqualParts ==
  ASSUME NEW S, NEW s \in Seq(S), NEW t \in Seq(S), NEW u \in Seq(S), NEW v \in Seq(S),
         s \o t = u \o v, Len(s) = Len(u)
  PROVE  s = u /\ t = v
<1>1. Len(s) \in Nat /\ Len(t) \in Nat
  OBVIOUS
<1>2. \A i \in 1..Len(s) + Len(t) : (s \o t)[i] = IF i <= Len(s) THEN s[i] ELSE t[i - Len(s)]
  BY ConcatProperties
<1>3. \A i \in 1..Len(u) + Len(v) : (u \o v)[i] = IF i <= Len(u) THEN u[i] ELSE v[i - Len(u)]
  BY ConcatProperties
<1>4. Len(s \o t) = Len(s) + Len(t) /\ Len(u \o v) = Len(u) + Len(v)
  BY ConcatProperties, Zenon
<1>5. Len(t) = Len(v)
  BY <1>1, <1>4
<1>6. ASSUME NEW i \in 1..Len(s)
      PROVE  s[i] = u[i]
  <2>1. i \in 1..Len(s) + Len(t) /\ i <= Len(s)
    BY <1>1
  <2>2. (s \o t)[i] = s[i] /\ (u \o v)[i] = u[i]
    BY <1>2, <1>3, <1>5, <2>1
  <2> QED
    BY <2>2
<1>7. s = u
  BY <1>6, SeqEqual, Zenon
<1>8. ASSUME NEW i \in 1..Len(t)
      PROVE  t[i] = v[i]
  <2>1. PICK j : j = Len(s) + i /\ j \in 1..Len(s) + Len(t) /\ ~(j <= Len(s)) /\ j - Len(s) = i
    BY <1>1
  <2>2. (s \o t)[j] = t[i] /\ (u \o v)[j] = v[i]
    BY <1>2, <1>3, <1>5, <2>1
  <2> QED
    BY <2>2
<1>9. t = v
  BY <1>5, <1>8, SeqEqual, Zenon
<1> QED
  BY <1>7, <1>9

Frames == Seq(Seq(Octets))

\* A frame's octets are its header's and its body's.
LEMMA FramedType ==
  ASSUME NEW bytes \in Seq(Octets)
  PROVE  /\ LengthOctets(Len(bytes)) \in Seq(Octets) /\ Len(LengthOctets(Len(bytes))) = HeaderLen
         /\ Framed(bytes) \in Seq(Octets) /\ Len(Framed(bytes)) = HeaderLen + Len(bytes)
<1>1. Len(bytes) \in Nat
  OBVIOUS
<1>2. LengthOctets(Len(bytes)) \in Seq(Octets) /\ Len(LengthOctets(Len(bytes))) = HeaderLen
  BY <1>1, OctetsType, Zenon
<1> QED
  BY <1>2, ConcatProperties, Zenon DEF Framed

\* The octets of the frames up to each of them.
Joined(f, fs) ==
  /\ f \in [0..Len(fs) -> Seq(Octets)] /\ f[0] = <<>>
  /\ \A i \in 1..Len(fs) : f[i] = f[i - 1] \o Framed(fs[i])

\* What FramedAll computes.
LEMMA FramesUnfold ==
  ASSUME NEW fs \in Frames
  PROVE  \E f : Joined(f, fs) /\ FramedAll(fs) = f[Len(fs)]
<1> DEFINE V == Seq(Octets)
           step == [i \in 1..Len(fs) |-> [v \in V |-> v \o Framed(fs[i])]]
<1>1. Len(fs) \in Nat /\ <<>> \in V
  BY DEF Frames
<1>2. \A i \in 1..Len(fs) : \A v \in V : v \o Framed(fs[i]) \in V
  <2>1. SUFFICES ASSUME NEW i \in 1..Len(fs), NEW v \in V
                 PROVE  v \o Framed(fs[i]) \in V
    OBVIOUS
  <2>2. fs[i] \in Seq(Octets)
    BY DEF Frames
  <2>3. Framed(fs[i]) \in Seq(Octets)
    BY <2>2, FramedType
  <2> QED
    BY <2>3, ConcatProperties, Zenon
<1>3. step \in [1..Len(fs) -> [V -> V]]
  <2> HIDE DEF V
  <2> QED
    BY <1>2
<1>4. \A i \in 1..Len(fs) : \A v \in V : step[i][v] = v \o Framed(fs[i])
  OBVIOUS
<1> HIDE DEF V, step
<1>5. PICK f : Recursive(f, V, <<>>, Len(fs), step)
  BY <1>1, <1>3, RecursionExists
<1>6. f \in [0..Len(fs) -> V] /\ f[0] = <<>> /\ \A i \in 1..Len(fs) : f[i] = f[i - 1] \o Framed(fs[i])
  <2>1. ASSUME NEW i \in 1..Len(fs)
        PROVE  f[i] = f[i - 1] \o Framed(fs[i])
    <3>1. i - 1 \in 0..Len(fs)
      BY <1>1
    <3>2. f[i - 1] \in V /\ f[i] = step[i][f[i - 1]]
      BY <1>5, <3>1 DEF Recursive
    <3> QED
      BY <1>4, <3>2
  <2> QED
    BY <1>5, <2>1 DEF Recursive
<1>7. f = [i \in 0..Len(fs) |-> IF i = 0 THEN <<>> ELSE f[i - 1] \o Framed(fs[i])]
  BY <1>1, <1>6
<1>8. PICK up : /\ up = [i \in 0..Len(fs) |-> IF i = 0 THEN <<>> ELSE up[i - 1] \o Framed(fs[i])]
                /\ FramedAll(fs) = up[Len(fs)]
  <2> DEFINE chosen == CHOOSE g : g = [i \in 0..Len(fs) |-> IF i = 0 THEN <<>> ELSE g[i - 1] \o Framed(fs[i])]
  <2>1. chosen = [i \in 0..Len(fs) |-> IF i = 0 THEN <<>> ELSE chosen[i - 1] \o Framed(fs[i])]
    BY <1>7
  <2>2. FramedAll(fs) = chosen[Len(fs)]
    BY DEF FramedAll
  <2> HIDE DEF chosen
  <2> QED
    BY <2>1, <2>2
<1>9. Follows(up, V, <<>>, Len(fs), step)
  <2>1. up[0] = <<>> /\ \A i \in 1..Len(fs) : up[i] = up[i - 1] \o Framed(fs[i])
    BY <1>1, <1>8
  <2> QED
    BY <1>4, <2>1 DEF Follows
<1>10. \A i \in 0..Len(fs) : up[i] = f[i]
  BY <1>1, <1>5, <1>9, RecursionUnique
<1>11. FramedAll(fs) = f[Len(fs)]
  BY <1>1, <1>8, <1>10
<1> QED
  BY <1>6, <1>11 DEF Joined, V

\* The octets of no frames, and those of one more.
LEMMA FramesJoin ==
  /\ FramedAll(<<>>) = <<>>
  /\ \A fs \in Frames : FramedAll(fs) \in Seq(Octets)
  /\ \A fs \in Frames : \A bytes \in Seq(Octets) :
       FramedAll(Append(fs, bytes)) = FramedAll(fs) \o Framed(bytes)
<1>1. FramedAll(<<>>) = <<>>
  <2>1. <<>> \in Frames /\ Len(<<>>) = 0
    BY DEF Frames
  <2> QED
    BY <2>1, FramesUnfold DEF Joined
<1>2. ASSUME NEW fs \in Frames
      PROVE  FramedAll(fs) \in Seq(Octets)
  <2>1. PICK f : Joined(f, fs) /\ FramedAll(fs) = f[Len(fs)]
    BY FramesUnfold
  <2>2. Len(fs) \in 0..Len(fs)
    BY DEF Frames
  <2> QED
    BY <2>1, <2>2 DEF Joined
<1>3. ASSUME NEW fs \in Frames, NEW bytes \in Seq(Octets)
      PROVE  FramedAll(Append(fs, bytes)) = FramedAll(fs) \o Framed(bytes)
  <2> DEFINE more == Append(fs, bytes)
             n == Len(fs)
  <2>1. /\ n \in Nat /\ more \in Frames /\ Len(more) = n + 1
        /\ \A i \in 1..n : more[i] = fs[i]
        /\ more[n + 1] = bytes
    BY DEF Frames
  <2> HIDE DEF more
  <2>2. PICK f : Joined(f, fs) /\ FramedAll(fs) = f[n]
    BY FramesUnfold
  <2>3. PICK g : Joined(g, more) /\ FramedAll(more) = g[n + 1]
    BY <2>1, FramesUnfold
  <2> HIDE DEF n
  <2> DEFINE T == {i \in Nat : i <= n => g[i] = f[i]}
  <2>4. /\ f[0] = <<>> /\ \A i \in 1..n : f[i] = f[i - 1] \o Framed(fs[i])
        /\ g[0] = <<>> /\ \A i \in 1..n + 1 : g[i] = g[i - 1] \o Framed(more[i])
    BY <2>1, <2>2, <2>3 DEF Joined, n
  <2>5. 0 \in T
    BY <2>4
  <2>6. ASSUME NEW i \in Nat, i \in T
        PROVE  i + 1 \in T
    <3>1. SUFFICES ASSUME i + 1 <= n
                   PROVE  g[i + 1] = f[i + 1]
      OBVIOUS
    <3>2. PICK j \in 1..n : j = i + 1 /\ j \in 1..n + 1 /\ j - 1 = i
      BY <2>1, <3>1
    <3>3. g[i] = f[i]
      BY <2>1, <2>6, <3>1
    <3>4. g[j] = g[j - 1] \o Framed(more[j]) /\ f[j] = f[j - 1] \o Framed(fs[j]) /\ more[j] = fs[j]
      BY <2>1, <2>4, <3>2, Zenon
    <3>5. g[j] = f[j]
      BY <3>2, <3>3, <3>4, Zenon
    <3> QED
      BY <3>2, <3>5
  <2>7. \A i \in Nat : i \in T
    <3> HIDE DEF T
    <3> QED
      BY <2>5, <2>6, Induction
  <2>8. g[n] = f[n]
    BY <2>1, <2>7
  <2>9. g[n + 1] = g[n] \o Framed(bytes)
    <3>1. PICK j \in 1..n + 1 : j = n + 1 /\ j - 1 = n
      BY <2>1
    <3>2. g[j] = g[j - 1] \o Framed(more[j]) /\ more[j] = bytes
      BY <2>1, <2>4, <3>1, Zenon
    <3> QED
      BY <3>1, <3>2, Zenon
  <2> QED
    BY <2>2, <2>3, <2>8, <2>9 DEF more
<1> QED
  BY <1>1, <1>2, <1>3

\* fs is how ws begins.
Begins(fs, ws) == Len(fs) <= Len(ws) /\ \A i \in 1..Len(fs) : fs[i] = ws[i]

\* Written frames have the octets of those they begin with, then of the next.
LEMMA FramesSplit ==
  ASSUME NEW ws \in Frames, NEW fs \in Frames, Begins(fs, ws), Len(fs) < Len(ws)
  PROVE  \E t \in Seq(Octets) :
           FramedAll(ws) = (FramedAll(fs) \o Framed(ws[Len(fs) + 1])) \o t
<1> DEFINE Splits(w) == Begins(fs, w) /\ Len(fs) < Len(w) =>
             \E t \in Seq(Octets) : FramedAll(w) = (FramedAll(fs) \o Framed(w[Len(fs) + 1])) \o t
           T == {n \in Nat : \A w \in Frames : Len(w) = n => Splits(w)}
<1>0. Len(fs) \in Nat /\ FramedAll(fs) \in Seq(Octets)
  BY FramesJoin DEF Frames
<1>1. 0 \in T
  BY <1>0
<1>2. ASSUME NEW n \in Nat, n \in T
      PROVE  n + 1 \in T
  <2>1. SUFFICES ASSUME NEW w \in Frames, Len(w) = n + 1, Begins(fs, w), Len(fs) < n + 1
                 PROVE  \E t \in Seq(Octets) :
                          FramedAll(w) = (FramedAll(fs) \o Framed(w[Len(fs) + 1])) \o t
    OBVIOUS
  <2>2. PICK u \in Frames, bytes \in Seq(Octets) : w = Append(u, bytes)
    <3>1. w # <<>>
      BY <2>1
    <3> QED
      BY <2>1, <3>1, SequenceEmptyOrAppend DEF Frames
  <2>3. /\ Len(u) = n /\ w[n + 1] = bytes
        /\ \A i \in 1..n : w[i] = u[i]
    BY <2>1, <2>2 DEF Frames
  <2>4. FramedAll(w) = FramedAll(u) \o Framed(bytes)
    BY <2>2, FramesJoin
  <2>5. Framed(bytes) \in Seq(Octets)
    BY FramedType
  <2>6. CASE Len(fs) = n
    <3>1. fs = u
      <4>1. \A i \in 1..Len(fs) : fs[i] = u[i]
        BY <2>1, <2>3, <2>6 DEF Begins
      <4> QED
        BY <2>3, <2>6, <4>1, SeqEqual, Zenon DEF Frames
    <3>2. FramedAll(fs) \o Framed(bytes) \in Seq(Octets)
      BY <1>0, <2>5, ConcatProperties, Zenon
    <3>3. FramedAll(w) = (FramedAll(fs) \o Framed(bytes)) \o <<>>
      BY <2>4, <3>1, <3>2, ConcatEmptySeq, Zenon
    <3>4. <<>> \in Seq(Octets)
      OBVIOUS
    <3> QED
      BY <2>3, <2>6, <3>3, <3>4
  <2>7. CASE Len(fs) < n
    <3>1. Begins(fs, u)
      BY <1>0, <2>1, <2>3, <2>7 DEF Begins
    <3>2. PICK t \in Seq(Octets) : FramedAll(u) = (FramedAll(fs) \o Framed(u[Len(fs) + 1])) \o t
      BY <1>2, <2>3, <2>7, <3>1
    <3>3. PICK b \in Seq(Octets) : b = u[Len(fs) + 1] /\ b = w[Len(fs) + 1]
      <4>1. Len(fs) + 1 \in 1..n
        BY <1>0, <2>7
      <4> QED
        BY <2>3, <4>1 DEF Frames
    <3>4. Framed(b) \in Seq(Octets)
      BY FramedType
    <3>5. FramedAll(fs) \o Framed(b) \in Seq(Octets)
      BY <1>0, <3>4, ConcatProperties, Zenon
    <3>6. ((FramedAll(fs) \o Framed(b)) \o t) \o Framed(bytes)
            = (FramedAll(fs) \o Framed(b)) \o (t \o Framed(bytes))
      <4>1. PICK x \in Seq(Octets), y \in Seq(Octets) :
              x = FramedAll(fs) \o Framed(b) /\ y = Framed(bytes)
        BY <2>5, <3>5
      <4>2. (x \o t) \o y = x \o (t \o y)
        BY Assoc, Zenon
      <4> QED
        BY <4>1, <4>2, Zenon
    <3>7. t \o Framed(bytes) \in Seq(Octets)
      BY <2>5, ConcatProperties, Zenon
    <3>8. FramedAll(w) = (FramedAll(fs) \o Framed(w[Len(fs) + 1])) \o (t \o Framed(bytes))
      BY <2>4, <3>2, <3>3, <3>6, Zenon
    <3> QED
      BY <3>7, <3>8, Zenon
  <2>8. Len(fs) = n \/ Len(fs) < n
    BY <1>0, <2>1
  <2> QED
    BY <2>6, <2>7, <2>8, Zenon
<1>3. Len(ws) \in T
  <2>1. Len(ws) \in Nat
    BY DEF Frames
  <2> HIDE DEF T
  <2> QED
    BY <1>1, <1>2, <2>1, Induction
<1> QED
  BY <1>3

\* Frames within MAX_BODY.
Within(ws) == \A i \in 1..Len(ws) : Len(ws[i]) <= MaxBody

\* Of frames ws, those of fs came, then a header and the rest.
Follow(ws, fs, head, rest) ==
  /\ Begins(fs, ws) /\ Len(head) = HeaderLen
  /\ FramedAll(fs) \o (head \o rest) = FramedAll(ws)

\* The header is that of the next of them, and the rest begins with its body.
IsNext(ws, fs, head, rest) ==
  /\ Len(fs) < Len(ws) /\ ws[Len(fs) + 1] \in Seq(Octets)
  /\ Length(head) = Len(ws[Len(fs) + 1]) /\ Length(head) \in 0..MaxBody
  /\ \E t \in Seq(Octets) : rest = ws[Len(fs) + 1] \o t

\* What follows the frames read so far, of frames that were written within
\* MAX_BODY, is the next one written.
LEMMA NextFrame ==
  ASSUME NEW ws \in Frames, NEW fs \in Frames, NEW head \in Seq(Octets), NEW rest \in Seq(Octets),
         Within(ws), Follow(ws, fs, head, rest)
  PROVE  IsNext(ws, fs, head, rest)
<1>1. /\ Len(fs) \in Nat /\ Len(ws) \in Nat /\ HeaderLen \in Nat /\ HeaderLen > 0
      /\ FramedAll(fs) \in Seq(Octets) /\ FramedAll(ws) \in Seq(Octets)
      /\ Begins(fs, ws) /\ Len(head) = HeaderLen
  <2>1. Len(fs) \in Nat /\ Len(ws) \in Nat /\ HeaderLen \in Nat /\ HeaderLen > 0
    BY BaseAssumption DEF Frames
  <2>2. FramedAll(fs) \in Seq(Octets) /\ FramedAll(ws) \in Seq(Octets)
    BY FramesJoin, Zenon
  <2> QED
    BY <2>1, <2>2 DEF Follow
<1>2. head \o rest \in Seq(Octets) /\ Len(head \o rest) > 0
  <2>1. head \o rest \in Seq(Octets) /\ Len(head \o rest) = Len(head) + Len(rest) /\ Len(rest) \in Nat
    BY Octetwise
  <2> QED
    BY <1>1, <2>1
<1>3. Len(fs) < Len(ws)
  <2>1. SUFFICES ASSUME Len(fs) = Len(ws) PROVE FALSE
    BY <1>1 DEF Begins
  <2>2. fs = ws
    BY <1>1, <2>1, SeqEqual, Zenon DEF Begins, Frames
  <2>3. FramedAll(fs) \o (head \o rest) = FramedAll(fs)
    BY <2>2 DEF Follow
  <2>4. Len(FramedAll(fs)) = Len(FramedAll(fs)) + Len(head \o rest) /\ Len(FramedAll(fs)) \in Nat
        /\ Len(head \o rest) \in Nat
    BY <1>1, <1>2, <2>3, Octetwise
  <2> QED
    BY <1>2, <2>4
<1>4. PICK b \in Seq(Octets) : b = ws[Len(fs) + 1] /\ Len(b) <= MaxBody /\ Len(b) \in Nat
  <2>1. Len(fs) + 1 \in 1..Len(ws)
    BY <1>1, <1>3
  <2>2. ws[Len(fs) + 1] \in Seq(Octets)
    BY <2>1 DEF Frames
  <2> QED
    BY <2>1, <2>2 DEF Within
<1>5. PICK t \in Seq(Octets) : FramedAll(ws) = (FramedAll(fs) \o Framed(b)) \o t
  BY <1>1, <1>3, <1>4, FramesSplit
<1>6. PICK octets \in Seq(Octets) :
        /\ octets = LengthOctets(Len(b)) /\ Len(octets) = HeaderLen
        /\ Framed(b) = octets \o b /\ Framed(b) \in Seq(Octets)
  BY FramedType DEF Framed
<1>7. (FramedAll(fs) \o Framed(b)) \o t = FramedAll(fs) \o (octets \o (b \o t))
  <2>1. (FramedAll(fs) \o Framed(b)) \o t = FramedAll(fs) \o (Framed(b) \o t)
    <3>1. PICK x \in Seq(Octets), y \in Seq(Octets) : x = FramedAll(fs) /\ y = Framed(b)
      BY <1>1, <1>6
    <3>2. (x \o y) \o t = x \o (y \o t)
      BY Assoc, Zenon
    <3> QED
      BY <3>1, <3>2, Zenon
  <2>2. (octets \o b) \o t = octets \o (b \o t)
    BY Assoc, Zenon
  <2> QED
    BY <1>6, <2>1, <2>2, Zenon
<1>8. b \o t \in Seq(Octets)
  BY ConcatProperties, Zenon
<1>9. octets \o (b \o t) \in Seq(Octets)
  BY <1>6, <1>8, ConcatProperties, Zenon
<1>10. head \o rest = octets \o (b \o t)
  <2>1. FramedAll(fs) \o (head \o rest) = FramedAll(fs) \o (octets \o (b \o t))
    BY <1>5, <1>7, Zenon DEF Follow
  <2> QED
    BY <1>1, <1>2, <1>9, <2>1, EqualParts, Zenon
<1>11. head = octets /\ rest = b \o t
  <2>1. PICK after \in Seq(Octets) : after = b \o t
    BY <1>8
  <2>2. head \o rest = octets \o after /\ Len(head) = Len(octets)
    BY <1>1, <1>6, <1>10, <2>1, Zenon
  <2> QED
    BY <2>1, <2>2, EqualParts, Zenon
<1>12. Len(b) \in 0..MaxBody /\ Length(octets) = Len(b)
  <2>1. MaxBody \in Nat
    BY BoundsAssumption
  <2> QED
    BY <1>4, <1>6, <2>1, LengthAsWritten
<1> QED
  BY <1>3, <1>4, <1>11, <1>12 DEF IsNext

-----------------------------------------------------------------------------
(* The sizes, and prefixes octet by octet.                                 *)

\* The assumptions, as the proofs need them.
LEMMA Sizes ==
  /\ Len(Preface) \in Nat /\ Len(Preface) > 0 /\ Preface \in Seq(Octets)
  /\ HeaderLen \in Nat /\ HeaderLen > 0 /\ MaxBody \in Nat /\ Ceiling \in Nat
  /\ MaxWire \in Nat /\ Silence \in Nat /\ Len(Preface) <= MaxWire
<1>1. Preface \in Seq(Octets) /\ Preface # <<>>
  BY PrefaceAssumption DEF Octets
<1>2. Len(Preface) \in Nat /\ Len(Preface) > 0
  BY <1>1
<1> QED
  BY <1>1, <1>2, BaseAssumption, BoundsAssumption

\* IsPrefix, which compares subsequences, octet by octet.
LEMMA PrefixByOctet ==
  ASSUME NEW S, NEW s \in Seq(S), NEW t \in Seq(S)
  PROVE  IsPrefix(s, t) <=> Len(s) <= Len(t) /\ \A i \in 1..Len(s) : t[i] = s[i]
<1> DEFINE n == Len(s)
<1>1. n \in Nat /\ Len(t) \in Nat
  OBVIOUS
<1>2. CASE n <= Len(t)
  <2>1. /\ SubSeq(s, 1, n) \in Seq(S) /\ Len(SubSeq(s, 1, n)) = n
        /\ \A i \in 1..n : SubSeq(s, 1, n)[i] = s[i]
    <3>1. \A i \in 1..n : s[i] \in S
      OBVIOUS
    <3> HIDE DEF n
    <3>2. /\ SubSeq(s, 1, n) \in Seq(S)
          /\ Len(SubSeq(s, 1, n)) = IF 1 <= n THEN n - 1 + 1 ELSE 0
          /\ \A i \in 1..n - 1 + 1 : SubSeq(s, 1, n)[i] = s[1 + i - 1]
      BY <1>1, <3>1, SubSeqProperties
    <3> QED
      BY <1>1, <3>2
  <2>2. /\ SubSeq(t, 1, n) \in Seq(S) /\ Len(SubSeq(t, 1, n)) = n
        /\ \A i \in 1..n : SubSeq(t, 1, n)[i] = t[i]
    <3>1. \A i \in 1..n : t[i] \in S
      BY <1>1, <1>2
    <3> HIDE DEF n
    <3>2. /\ SubSeq(t, 1, n) \in Seq(S)
          /\ Len(SubSeq(t, 1, n)) = IF 1 <= n THEN n - 1 + 1 ELSE 0
          /\ \A i \in 1..n - 1 + 1 : SubSeq(t, 1, n)[i] = t[1 + i - 1]
      BY <1>1, <3>1, SubSeqProperties
    <3> QED
      BY <1>1, <3>2
  <2>3. (\A i \in 1..n : t[i] = s[i]) => SubSeq(s, 1, n) = SubSeq(t, 1, n)
    <3>1. SUFFICES ASSUME \A i \in 1..n : t[i] = s[i]
                   PROVE  SubSeq(s, 1, n) = SubSeq(t, 1, n)
      OBVIOUS
    <3> DEFINE x == SubSeq(s, 1, n)
               y == SubSeq(t, 1, n)
    <3>2. x \in Seq(S) /\ y \in Seq(S) /\ Len(x) = Len(y) /\ \A i \in 1..Len(x) : x[i] = y[i]
      BY <2>1, <2>2, <3>1
    <3> HIDE DEF x, y
    <3>3. x = y
      BY <3>2, SeqEqual, Zenon
    <3> QED
      BY <3>3 DEF x, y
  <2>4. SubSeq(s, 1, n) = SubSeq(t, 1, n) => \A i \in 1..n : t[i] = s[i]
    BY <2>1, <2>2, Zenon
  <2> QED
    BY <1>2, <2>3, <2>4, Zenon DEF IsPrefix
<1>3. CASE ~(n <= Len(t))
  BY <1>3, Zenon DEF IsPrefix
<1> QED
  BY <1>2, <1>3

\* The wire opens with the preface where it matches it, and not where it
\* differs.
LEMMA Opens ==
  ASSUME OctetsTypeOK
  PROVE  /\ Matches => IsPrefix(Preface, wire)
         /\ Differs => ~IsPrefix(Preface, wire)
<1>1. wire \in Seq(Octets) /\ Len(wire) \in Nat
  BY DEF OctetsTypeOK
<1>2. IsPrefix(Preface, wire) <=> Matches
  BY <1>1, Sizes, PrefixByOctet DEF Matches
<1>3. Differs => ~Matches
  BY <1>1, Sizes DEF Differs, Matches
<1> QED
  BY <1>2, <1>3

\* Nothing has come.
LEMMA InitInv ==
  ASSUME Init
  PROVE  IInv
<1>1. <<>> \in Seq(Octets) /\ <<>> \in Seq(Seq(Octets)) /\ Len(<<>>) = 0
  OBVIOUS
<1>2. OctetsTypeOK
  BY <1>1, Sizes DEF Init, OctetsTypeOK, ReadTypeOK, Stages, Results
<1>3. ReadingInv
  BY Sizes DEF Init, ReadingInv, Fits
<1>4. WireInv
  BY Sizes DEF Init, WireInv
<1>5. OpeningInv /\ SilenceInv
  BY Sizes DEF Init, OpeningInv, SilenceInv
<1> QED
  BY <1>2, <1>3, <1>4, <1>5 DEF IInv

-----------------------------------------------------------------------------
(* What is read, and how much of it.                                       *)

\* Something else is read for, of a length above nothing, and perhaps a frame
\* was read whole.
LEMMA ReadingNext ==
  ASSUME IInv, stage # "done", NEW what \in Stages \ {"done"}, NEW length \in Nat,
         length > 0, Fits(what, length), Reading(what, length),
         \/ UNCHANGED frames
         \/ \E bytes \in Seq(Octets) : Len(bytes) <= MaxBody /\ frames' = Append(frames, bytes)
  PROVE  ReadTypeOK' /\ ReadingInv' /\ result' = "none"
<1>1. /\ result = "none" /\ result \in Results /\ frames \in Seq(Seq(Octets))
      /\ \A i \in DOMAIN frames : Len(frames[i]) <= MaxBody
  BY DEF IInv, ReadingInv, OctetsTypeOK, ReadTypeOK
<1>2. stage' = what /\ need' = length /\ buf' = <<>> /\ result' = "none"
  BY <1>1 DEF Reading
<1>3. frames' \in Seq(Seq(Octets)) /\ \A i \in DOMAIN frames' : Len(frames'[i]) <= MaxBody
  <2>1. CASE UNCHANGED frames
    BY <1>1, <2>1
  <2>2. ASSUME NEW bytes \in Seq(Octets), Len(bytes) <= MaxBody, frames' = Append(frames, bytes)
        PROVE  frames' \in Seq(Seq(Octets)) /\ \A i \in DOMAIN frames' : Len(frames'[i]) <= MaxBody
    BY <1>1, <2>2
  <2> QED
    BY <2>1, <2>2
<1>4. <<>> \in Seq(Octets) /\ Len(<<>>) = 0
  OBVIOUS
<1>5. ReadTypeOK'
  BY <1>1, <1>2, <1>3, <1>4 DEF ReadTypeOK
<1>6. ReadingInv'
  BY <1>2, <1>3, <1>4 DEF ReadingInv, Fits
<1> QED
  BY <1>2, <1>5, <1>6

\* Reading ends.
LEMMA FinishNext ==
  ASSUME NEW how \in Results \ {"none"}, Finish(how), frames' \in Seq(Seq(Octets))
  PROVE  ReadTypeOK' /\ ReadingInv'
<1>1. <<>> \in Seq(Octets)
  OBVIOUS
<1> QED
  BY <1>1 DEF Finish, ReadTypeOK, ReadingInv, Fits, Stages

\* What has been read of the wanted is made something of, whatever it is: no
\* more is held than was asked for.
LEMMA GotNext ==
  ASSUME IInv, stage # "done", NEW read \in Seq(Octets), Len(read) <= need, Got(read)
  PROVE  ReadTypeOK' /\ ReadingInv'
<1> USE Sizes
<1>1. /\ ReadTypeOK /\ ReadingInv /\ frames \in Seq(Seq(Octets)) /\ need \in Nat /\ stage \in Stages
      /\ result = "none"
  BY DEF IInv, OctetsTypeOK, ReadTypeOK, ReadingInv
<1>2. CASE More(read) /\ Len(read) < need
  BY <1>1, <1>2 DEF More, ReadTypeOK, ReadingInv
<1>3. CASE Sniffed(read)
  <2>1. CASE Reading("preface", Len(Preface)) /\ UNCHANGED frames
    BY <2>1, ReadingNext DEF Fits, Stages
  <2>2. CASE Reading("rest", Ceiling + 1) /\ UNCHANGED frames
    BY <2>2, ReadingNext DEF Fits, Stages
  <2> QED
    BY <1>3, <2>1, <2>2 DEF Sniffed
<1>4. CASE stage = "sniff" /\ Sniffing(read) /\ More(read)
  BY <1>1, <1>2, <1>4 DEF Sniffing, ReadingInv, Fits
<1>5. CASE Len(read) = need /\ Whole(read)
  <2>1. CASE Reading("header", HeaderLen) /\ UNCHANGED frames
    BY <2>1, ReadingNext DEF Fits, Stages
  <2>2. ASSUME NEW how \in {"not_preface", "over"}, Finish(how), UNCHANGED frames
        PROVE  ReadTypeOK' /\ ReadingInv'
    BY <1>1, <2>2, FinishNext DEF Results
  <2>3. CASE stage = "header" /\ Header(Length(read))
    <3>1. CASE Reading("header", HeaderLen) /\ frames' = Append(frames, <<>>)
      <4>1. <<>> \in Seq(Octets) /\ Len(<<>>) <= MaxBody
        OBVIOUS
      <4> QED
        BY <3>1, <4>1, ReadingNext DEF Fits, Stages
    <3>2. ASSUME NEW length \in 1..MaxBody, Reading("body", length), UNCHANGED frames
          PROVE  ReadTypeOK' /\ ReadingInv'
      BY <3>2, ReadingNext DEF Fits, Stages
    <3> QED
      BY <2>2, <2>3, <3>1, <3>2 DEF Header
  <2>4. CASE stage = "body" /\ Reading("header", HeaderLen) /\ frames' = Append(frames, read)
    <3>1. Len(read) <= MaxBody
      BY <1>1, <1>5, <2>4 DEF ReadingInv, Fits
    <3> QED
      BY <2>4, <3>1, ReadingNext DEF Fits, Stages
  <2> QED
    BY <1>5, <2>1, <2>2, <2>3, <2>4 DEF Whole
<1> QED
  BY <1>2, <1>3, <1>4, <1>5 DEF Got

\* The connection's end leaves it so too.
LEMMA EndedNext ==
  ASSUME IInv, stage # "done", Ended
  PROVE  ReadTypeOK' /\ ReadingInv'
<1> USE Sizes
<1>1. frames \in Seq(Seq(Octets)) /\ buf \in Seq(Octets)
  BY DEF IInv, OctetsTypeOK, ReadTypeOK
<1>2. CASE Sniffed(buf)
  <2>1. CASE Reading("preface", Len(Preface)) /\ UNCHANGED frames
    BY <2>1, ReadingNext DEF Fits, Stages
  <2>2. CASE Reading("rest", Ceiling + 1) /\ UNCHANGED frames
    BY <2>2, ReadingNext DEF Fits, Stages
  <2> QED
    BY <1>2, <2>1, <2>2 DEF Sniffed
<1>3. ASSUME NEW how \in {"nothing", "clean", "cut"}, Finish(how), UNCHANGED frames
      PROVE  ReadTypeOK' /\ ReadingInv'
  BY <1>1, <1>3, FinishNext DEF Results
<1>4. CASE Finish("whole") /\ frames' = <<buf>>
  <2>1. <<buf>> \in Seq(Seq(Octets))
    BY <1>1
  <2> QED
    BY <1>4, <2>1, FinishNext DEF Results
<1> QED
  BY <1>2, <1>3, <1>4 DEF Ended

\* What is made of what was read ends reading only over a length or a preface,
\* and takes no connection it reads for another kind.
LEMMA GotKind ==
  ASSUME IInv, stage # "done", stage # "sniff", NEW read, Got(read)
  PROVE  /\ result' \in {"none", "over", "not_preface"}
         /\ (stage \in {"header", "body", "rest"} => result' # "not_preface")
         /\ (stage \in {"header", "body"} => stage' \in {"header", "body", "done"})
         /\ (stage = "rest" => stage' \in {"rest", "done"})
<1>1. stage \in Stages /\ result = "none"
  BY DEF IInv, OctetsTypeOK, ReadTypeOK, ReadingInv
<1>2. More(read) \/ Whole(read)
  BY DEF Got
<1>3. CASE More(read)
  BY <1>1, <1>3 DEF More
<1>4. CASE Whole(read)
  BY <1>1, <1>4 DEF Whole, Header, Reading, Finish
<1> QED
  BY <1>2, <1>3, <1>4

\* A connection whose opening was told keeps it while its wire does.
LEMMA OpenedNext ==
  ASSUME IInv, stage \in {"header", "body", "rest"}, UNCHANGED <<wire, fin>>,
         result' \in {"none", "over"},
         stage \in {"header", "body"} => stage' \in {"header", "body", "done"},
         stage = "rest" => stage' \in {"rest", "done"}
  PROVE  OpeningInv'
<1>1. /\ stage \in {"header", "body"} => Matches'
      /\ stage = "rest" => Differs'
  BY DEF IInv, OpeningInv, Matches, Differs
<1> QED
  BY <1>1 DEF OpeningInv

\* Two sequences of the same length that are not the same differ somewhere.
LEMMA DifferSomewhere ==
  ASSUME NEW s \in Seq(Octets), NEW t \in Seq(Octets), Len(s) = Len(t), s # t
  PROVE  \E i \in 1..Len(s) : s[i] # t[i]
<1>1. SUFFICES ASSUME \A i \in 1..Len(s) : s[i] = t[i]
               PROVE  FALSE
  OBVIOUS
<1> QED
  BY <1>1, SeqEqual, Zenon

\* What sniff read, which is what came first, told to be the preface or not.
LEMMA SniffedNext ==
  ASSUME IInv, stage = "sniff", UNCHANGED <<wire, fin>>,
         NEW read \in Seq(Octets), Len(read) <= Len(wire), Len(read) <= Len(Preface),
         \A i \in 1..Len(read) : read[i] = wire[i],
         ~Sniffing(read) \/ (fin # "open" /\ Len(wire) < Len(Preface)),
         Sniffed(read), PutBack(read)
  PROVE  OpeningInv' /\ result' = "none"
<1> USE Sizes
<1>1. wire \in Seq(Octets) /\ Len(wire) \in Nat /\ result = "none" /\ Len(read) \in Nat
  BY DEF IInv, OctetsTypeOK, ReadingInv
<1>2. CASE read = Preface
  <2>1. stage' = "preface" /\ buf' = <<>> /\ result' = "none"
    BY <1>1, <1>2 DEF Sniffed, Reading
  <2>2. first' = Preface
    BY <1>2, <2>1 DEF PutBack
  <2>3. Matches'
    BY <1>2 DEF Matches
  <2> QED
    BY <2>1, <2>2, <2>3 DEF OpeningInv
<1>3. CASE read # Preface
  <2>1. stage' = "rest" /\ result' = "none"
    BY <1>1, <1>3 DEF Sniffed, Reading
  <2>2. Differs'
    <3>1. CASE fin # "open" /\ Len(wire) < Len(Preface)
      BY <3>1 DEF Differs
    <3>2. CASE Len(read) = Len(Preface)
      <4>1. PICK i \in 1..Len(read) : read[i] # Preface[i]
        BY <1>3, <3>2, DifferSomewhere
      <4> QED
        BY <1>1, <3>2, <4>1 DEF Differs
    <3>3. CASE Len(read) < Len(Preface) /\ ~IsPrefix(read, Preface)
      <4>1. PICK i \in 1..Len(read) : read[i] # Preface[i]
        BY <1>1, <3>3, PrefixByOctet
      <4> QED
        BY <1>1, <3>3, <4>1 DEF Differs
    <3> QED
      BY <1>1, <3>1, <3>2, <3>3 DEF Sniffing
  <2> QED
    BY <2>1, <2>2 DEF OpeningInv
<1> QED
  BY <1>2, <1>3

-----------------------------------------------------------------------------
(* One lemma per action.                                                   *)

\* What a step of the peer or the network leaves alone.
LEMMA NotReading ==
  ASSUME IInv, UNCHANGED <<stage, buf, need, frames, result>>
  PROVE  ReadTypeOK' /\ ReadingInv'
BY DEF IInv, OctetsTypeOK, ReadTypeOK, ReadingInv

\* The peer writes a frame.
LEMMA WriteStep ==
  ASSUME IInv, NEW bytes \in BoundedSeq(Octets, MaxBody + 1), Write(bytes)
  PROVE  IInv'
<1> USE Sizes
<1>1. bytes \in Seq(Octets)
  <2>1. PICK m \in 0..MaxBody + 1 : bytes \in [1..m -> Octets]
    BY DEF BoundedSeq, SeqOf
  <2> QED
    BY <2>1
<1>3. Framed(bytes) \in Seq(Octets) /\ Len(Framed(bytes)) = HeaderLen + Len(bytes)
  BY <1>1, FramedType
<1>4. /\ out \in Seq(Octets) /\ out' = out \o Framed(bytes) /\ wire \in Seq(Octets)
      /\ peer = "frames" /\ Len(wire) + Len(out) + HeaderLen + Len(bytes) <= MaxWire
      /\ UNCHANGED <<peer, beats, wire, fin, taken, first, stage, buf, need, frames, result, ending, quiet, idle>>
  BY DEF IInv, OctetsTypeOK, Write, Sent
<1>5. out' \in Seq(Octets) /\ Len(out') = Len(out) + HeaderLen + Len(bytes)
  <2> DEFINE framed == Framed(bytes)
  <2> HIDE DEF framed
  <2>1. framed \in Seq(Octets) /\ Len(framed) = HeaderLen + Len(bytes) /\ out' = out \o framed
    BY <1>3, <1>4 DEF framed
  <2>2. Len(bytes) \in Nat /\ out \in Seq(Octets)
    BY <1>1, <1>4
  <2>3. out \o framed \in Seq(Octets) /\ Len(out \o framed) = Len(out) + Len(framed)
    BY <2>1, <2>2, ConcatProperties, Zenon
  <2>4. Len(out) \in Nat
    BY <2>2
  <2>5. Len(out') = Len(out) + (HeaderLen + Len(bytes))
    BY <2>1, <2>3, Zenon
  <2> QED
    BY <2>1, <2>2, <2>3, <2>4, <2>5
<1>6. ReadTypeOK' /\ ReadingInv'
  BY <1>4, NotReading
<1>7. OctetsTypeOK'
  BY <1>4, <1>5, <1>6 DEF IInv, OctetsTypeOK
<1>8. WireInv'
  BY <1>1, <1>4, <1>5 DEF IInv, WireInv
<1>9. OpeningInv' /\ SilenceInv'
  BY <1>4 DEF IInv, OpeningInv, SilenceInv, Matches, Differs
<1> QED
  BY <1>6, <1>7, <1>8, <1>9 DEF IInv

\* An octet comes.
LEMMA ArriveStep ==
  ASSUME IInv, Arrive
  PROVE  IInv'
<1> USE Sizes
<1>1. /\ out \in Seq(Octets) /\ wire \in Seq(Octets) /\ taken \in Nat /\ taken <= Len(wire)
      /\ Len(wire) + Len(out) <= MaxWire /\ fin = "open" /\ idle' = 0
      /\ UNCHANGED <<peer, beats, fin, written, taken, first, stage, buf, need, frames, result, ending, quiet>>
  BY DEF IInv, OctetsTypeOK, WireInv, Arrive, Live
<1>2. PICK octet \in Octets :
        /\ wire' = Append(wire, octet)
        /\ out' \in Seq(Octets) /\ Len(wire) + 1 + Len(out') <= MaxWire
        /\ peer = "any" => out' = <<>>
  <2>1. CASE peer = "frames" /\ out # <<>> /\ wire' = Append(wire, Head(out)) /\ out' = Tail(out)
    <3>1. Head(out) \in Octets /\ Tail(out) \in Seq(Octets) /\ Len(Tail(out)) = Len(out) - 1
      BY <1>1, <2>1
    <3> QED
      BY <1>1, <2>1, <3>1
  <2>2. ASSUME peer = "any", Len(wire) < MaxWire, UNCHANGED out,
               NEW octet \in Octets, wire' = Append(wire, octet)
        PROVE  /\ octet \in Octets /\ wire' = Append(wire, octet)
               /\ out' \in Seq(Octets) /\ Len(wire) + 1 + Len(out') <= MaxWire
               /\ out' = <<>>
    <3>1. out' = <<>> /\ Len(<<>>) = 0
      BY <2>2 DEF IInv, WireInv
    <3> QED
      BY <1>1, <2>2, <3>1
  <2> QED
    BY <2>1, <2>2 DEF Arrive
<1>3. /\ wire' \in Seq(Octets) /\ Len(wire') = Len(wire) + 1 /\ Len(wire) \in Nat
      /\ \A i \in 1..Len(wire) : wire'[i] = wire[i]
  BY <1>1, <1>2
<1>4. ReadTypeOK' /\ ReadingInv'
  BY <1>1, NotReading
<1>5. OctetsTypeOK'
  BY <1>1, <1>2, <1>3, <1>4 DEF IInv, OctetsTypeOK
<1>6. WireInv'
  BY <1>1, <1>2, <1>3 DEF IInv, WireInv
<1>7. (Matches => Matches') /\ (Differs => Differs')
  <2>1. Matches => Matches'
    BY <1>3 DEF Matches
  <2>2. ASSUME NEW i \in 1..Len(Preface), i <= Len(wire), wire[i] # Preface[i]
        PROVE  Differs'
    <3>1. i <= Len(wire') /\ wire'[i] # Preface[i]
      BY <1>3, <2>2
    <3> QED
      BY <3>1 DEF Differs
  <2> QED
    BY <1>1, <2>1, <2>2 DEF Differs
<1>8. OpeningInv'
  <2>1. stage = "sniff" =>
          Len(buf') = taken' /\ \A i \in 1..taken' : buf'[i] = wire'[i] /\ buf'[i] = Preface[i]
    BY <1>1, <1>3 DEF IInv, OpeningInv
  <2> QED
    BY <1>1, <1>7, <2>1 DEF IInv, OpeningInv
<1>9. SilenceInv'
  <2>1. result = "none" /\ quiet \in Nat
    BY DEF IInv, OctetsTypeOK, ReadingInv, Arrive, Live
  <2> QED
    BY <1>1, <1>3, <2>1 DEF SilenceInv
<1> QED
  BY <1>4, <1>5, <1>6, <1>8, <1>9 DEF IInv

\* The peer is gone.
LEMMA CloseStep ==
  ASSUME IInv, Close
  PROVE  IInv'
<1>1. /\ fin = "open" /\ fin' \in {"closed", "reset"}
      /\ UNCHANGED <<peer, beats, out, wire, taken, first, stage, buf, need, frames, result, quiet, idle>>
  BY DEF Close, Live
<1>2. ReadTypeOK' /\ ReadingInv'
  BY <1>1, NotReading
<1>3. OctetsTypeOK' /\ WireInv'
  BY <1>1, <1>2 DEF IInv, OctetsTypeOK, WireInv
<1>4. OpeningInv' /\ SilenceInv'
  BY <1>1 DEF IInv, OpeningInv, SilenceInv, Matches, Differs
<1> QED
  BY <1>2, <1>3, <1>4 DEF IInv

\* A step of nothing the invariant is about.
LEMMA OtherStep ==
  ASSUME IInv, UNCHANGED <<sending, taken, first, stage, buf, need, frames, result, quiet, idle>>
  PROVE  IInv'
<1>1. UNCHANGED <<peer, beats, out, wire, fin, taken, first, stage, buf, need, frames, result, quiet, idle>>
  BY DEF sending
<1>2. ReadTypeOK' /\ ReadingInv'
  BY <1>1, NotReading
<1>3. OctetsTypeOK' /\ WireInv'
  BY <1>1, <1>2 DEF IInv, OctetsTypeOK, WireInv
<1>4. OpeningInv' /\ SilenceInv'
  BY <1>1 DEF IInv, OpeningInv, SilenceInv, Matches, Differs
<1> QED
  BY <1>2, <1>3, <1>4 DEF IInv

\* Octets added to what was read: how many, and where each is.
LEMMA ReadOn ==
  ASSUME NEW held \in Seq(Octets), NEW from \in Seq(Octets), NEW at \in Nat, NEW count \in Nat,
         at + count <= Len(from)
  PROVE  /\ held \o SubSeq(from, at + 1, at + count) \in Seq(Octets)
         /\ Len(held \o SubSeq(from, at + 1, at + count)) = Len(held) + count
         /\ \A i \in 1..Len(held) : (held \o SubSeq(from, at + 1, at + count))[i] = held[i]
         /\ \A i \in 1..count :
              (held \o SubSeq(from, at + 1, at + count))[Len(held) + i] = from[at + i]
<1> DEFINE m == at + 1
           n == at + count
           piece == SubSeq(from, m, n)
<1>1. m \in Nat /\ n \in Nat /\ Len(from) \in Nat /\ Len(held) \in Nat
  OBVIOUS
<1>2. \A i \in m..n : from[i] \in Octets
  OBVIOUS
<1>3. /\ piece \in Seq(Octets)
      /\ Len(piece) = IF m <= n THEN n - m + 1 ELSE 0
      /\ \A i \in 1..n - m + 1 : piece[i] = from[m + i - 1]
  <2> HIDE DEF m, n
  <2> QED
    BY <1>1, <1>2, SubSeqProperties
<1>4. Len(piece) = count /\ \A i \in 1..count : piece[i] = from[at + i]
  <2> HIDE DEF piece
  <2> QED
    BY <1>3
<1> HIDE DEF piece
<1>5. /\ held \o piece \in Seq(Octets) /\ Len(held \o piece) = Len(held) + Len(piece)
      /\ \A i \in 1..Len(held) + Len(piece) :
           (held \o piece)[i] = IF i <= Len(held) THEN held[i] ELSE piece[i - Len(held)]
  BY <1>3, ConcatProperties
<1>6. \A i \in 1..Len(held) : (held \o piece)[i] = held[i]
  BY <1>1, <1>4, <1>5
<1>7. ASSUME NEW i \in 1..count
      PROVE  (held \o piece)[Len(held) + i] = from[at + i]
  <2>1. Len(held) + i \in 1..Len(held) + Len(piece) /\ ~(Len(held) + i <= Len(held))
        /\ Len(held) + i - Len(held) = i
    BY <1>1, <1>4
  <2>2. (held \o piece)[Len(held) + i] = piece[i]
    BY <1>5, <2>1
  <2> QED
    BY <1>4, <2>2
<1> QED
  BY <1>4, <1>5, <1>6, <1>7 DEF piece

\* The preface sniff read is read again whole, and nothing else of it is left.
LEMMA PrefaceReplayed ==
  ASSUME IInv, Replay, stage = "preface"
  PROVE  /\ stage' = "header" /\ buf' = <<>> /\ first' = <<>> /\ first = Preface
         /\ UNCHANGED <<frames, result>>
<1> USE Sizes
<1> DEFINE count == LeastOf(Wanted, Len(first))
           read == buf \o SubSeq(first, 1, count)
<1>1. Got(read) /\ first' = SubSeq(first, count + 1, Len(first))
  BY DEF Replay
<1>2. buf = <<>> /\ first = Preface /\ need = Len(Preface)
  BY DEF IInv, OpeningInv, ReadingInv, Fits
<1>3. count = Len(Preface)
  BY <1>2 DEF LeastOf, Wanted
<1>4. read = Preface
  <2>1. SubSeq(Preface, 1, Len(Preface)) = Preface
    BY SubSeqFull, Zenon
  <2>2. <<>> \o Preface = Preface
    BY ConcatEmptySeq, Zenon
  <2> QED
    BY <1>2, <1>3, <2>1, <2>2
<1>5. first' = <<>>
  <2> HIDE DEF count
  <2>1. Len(Preface) \in Int /\ Len(Preface) + 1 \in Int /\ Len(Preface) < Len(Preface) + 1
    OBVIOUS
  <2> QED
    BY <1>1, <1>2, <1>3, <2>1, SubSeqEmpty
<1>6. Whole(Preface)
  <2>1. Len(Preface) = need /\ stage # "sniff"
    BY <1>2
  <2>2. Got(Preface)
    BY <1>1, <1>4, Zenon
  <2> QED
    BY <2>1, <2>2 DEF Got
<1>7. stage' = "header" /\ buf' = <<>> /\ UNCHANGED <<frames, result>>
  BY <1>6 DEF Whole, Reading
<1> QED
  BY <1>2, <1>5, <1>7

\* What sniff read is read again.
LEMMA ReplayStep ==
  ASSUME IInv, Replay
  PROVE  IInv'
<1> USE Sizes
<1> DEFINE count == LeastOf(Wanted, Len(first))
           read == buf \o SubSeq(first, 1, count)
<1>1. /\ stage \in Stages \ {"sniff", "done"} /\ result = "none"
      /\ buf \in Seq(Octets) /\ first \in Seq(Octets) /\ Len(buf) < need /\ need \in Nat
      /\ Len(buf) \in Nat /\ Len(first) \in Nat
  BY DEF IInv, OctetsTypeOK, ReadTypeOK, ReadingInv, Replay, Replaying
<1>2. /\ UNCHANGED <<peer, beats, out, wire, fin, taken, quiet, idle>>
      /\ Got(read) /\ first' = SubSeq(first, count + 1, Len(first))
  BY DEF Replay, sending
<1>3. count \in Nat /\ count <= Len(first) /\ count <= need - Len(buf)
  BY <1>1 DEF LeastOf, Wanted
<1>4. read \in Seq(Octets) /\ Len(read) = Len(buf) + count
  <2> HIDE DEF count
  <2>1. /\ buf \o SubSeq(first, 0 + 1, 0 + count) \in Seq(Octets)
        /\ Len(buf \o SubSeq(first, 0 + 1, 0 + count)) = Len(buf) + count
    <3>1. 0 \in Nat /\ 0 + count <= Len(first)
      BY <1>3
    <3> QED
      BY <1>1, <1>3, <3>1, ReadOn
  <2>2. 0 + 1 = 1 /\ 0 + count = count
    BY <1>3
  <2> QED
    BY <2>1, <2>2
<1>5. first' \in Seq(Octets)
  <2> HIDE DEF count
  <2>1. \A i \in count + 1..Len(first) : first[i] \in Octets
    BY <1>1, <1>3
  <2>2. count + 1 \in Nat
    BY <1>3
  <2>3. SubSeq(first, count + 1, Len(first)) \in Seq(Octets)
    BY <1>1, <2>1, <2>2, SubSeqProperties
  <2> QED
    BY <1>2, <2>3
<1>6. ReadTypeOK' /\ ReadingInv'
  <2> HIDE DEF read, count
  <2>1. Len(read) <= need
    BY <1>1, <1>3, <1>4
  <2> QED
    BY <1>1, <1>2, <1>4, <2>1, GotNext
<1>7. OctetsTypeOK' /\ WireInv'
  BY <1>2, <1>5, <1>6 DEF IInv, OctetsTypeOK, WireInv
<1>8. /\ result' \in {"none", "over", "not_preface"}
      /\ (stage \in {"header", "body", "rest"} => result' # "not_preface")
      /\ (stage \in {"header", "body"} => stage' \in {"header", "body", "done"})
      /\ (stage = "rest" => stage' \in {"rest", "done"})
  <2> HIDE DEF read, count
  <2> QED
    BY <1>1, <1>2, GotKind
<1>9. OpeningInv'
  <2>1. CASE stage = "preface"
    <3>1. Matches
      BY <2>1 DEF IInv, OpeningInv
    <3>2. stage' = "header" /\ result' = "none"
      BY <1>1, <2>1, PrefaceReplayed
    <3>3. Matches'
      BY <1>2, <3>1 DEF Matches
    <3> QED
      BY <3>2, <3>3 DEF OpeningInv
  <2>2. CASE stage # "preface"
    BY <1>1, <1>2, <1>8, <2>2, OpenedNext DEF Stages
  <2> QED
    BY <2>1, <2>2
<1>10. SilenceInv'
  BY <1>1, <1>2, <1>8 DEF IInv, SilenceInv
<1> QED
  BY <1>6, <1>7, <1>9, <1>10 DEF IInv

\* The socket's read returns some of what came.
LEMMA ReadStep ==
  ASSUME IInv, Read
  PROVE  IInv'
<1> USE Sizes
<1>1. PICK count \in 1..LeastOf(Wanted, Len(wire) - taken) :
        LET read == buf \o SubSeq(wire, taken + 1, taken + count)
        IN  Got(read) /\ PutBack(read) /\ taken' = taken + count
  BY Zenon DEF Read
<1> DEFINE read == buf \o SubSeq(wire, taken + 1, taken + count)
<1>2. Got(read) /\ PutBack(read) /\ taken' = taken + count
  BY <1>1, Zenon
<1>3. /\ OnSocket /\ taken < Len(wire) /\ quiet' = 0
      /\ UNCHANGED <<peer, beats, out, wire, fin, idle>>
  BY DEF Read, sending
<1>4. /\ stage \in Stages \ {"done"} /\ result = "none" /\ Len(buf) \in Nat /\ Len(wire) \in Nat
      /\ buf \in Seq(Octets) /\ wire \in Seq(Octets) /\ Len(buf) < need /\ need \in Nat /\ taken \in Nat
  BY <1>3 DEF IInv, OctetsTypeOK, ReadTypeOK, ReadingInv, OnSocket
<1>5. count \in Nat /\ count > 0 /\ taken + count <= Len(wire) /\ count <= need - Len(buf)
  BY <1>3, <1>4 DEF LeastOf, Wanted
<1>6. /\ read \in Seq(Octets) /\ Len(read) = Len(buf) + count
      /\ \A i \in 1..Len(buf) : read[i] = buf[i]
      /\ \A i \in 1..count : read[Len(buf) + i] = wire[taken + i]
  BY <1>4, <1>5, ReadOn
<1> HIDE DEF read
<1>7. Len(read) <= need
  BY <1>4, <1>5, <1>6
<1>8. ReadTypeOK' /\ ReadingInv'
  BY <1>2, <1>4, <1>6, <1>7, GotNext
<1>9. first' \in Seq(Octets)
  BY <1>2, <1>6 DEF PutBack, IInv, OctetsTypeOK
<1>10. OctetsTypeOK' /\ WireInv'
  BY <1>2, <1>3, <1>4, <1>5, <1>8, <1>9 DEF IInv, OctetsTypeOK, WireInv
<1>11. idle = 0
  BY <1>3 DEF IInv, SilenceInv
<1>12. OpeningInv' /\ result' # "silent"
  <2>1. CASE stage = "sniff"
    <3>1. /\ Len(buf) = taken /\ need = Len(Preface)
          /\ \A i \in 1..taken : buf[i] = wire[i] /\ buf[i] = Preface[i]
      BY <2>1 DEF IInv, OpeningInv, ReadingInv, Fits
    <3>2. Len(read) = taken' /\ Len(read) <= Len(wire) /\ Len(read) <= Len(Preface)
      BY <1>2, <1>5, <1>6, <1>7, <3>1
    <3>3. ASSUME NEW i \in 1..Len(read)
          PROVE  read[i] = wire[i]
      <4>1. CASE i <= taken
        BY <1>6, <3>1, <4>1
      <4>2. CASE i > taken
        <5>1. i - taken \in 1..count /\ Len(buf) + (i - taken) = i /\ taken + (i - taken) = i
          BY <1>2, <1>4, <1>5, <3>1, <3>2, <4>2
        <5> QED
          BY <1>6, <5>1
      <4> QED
        BY <1>4, <4>1, <4>2
    <3>4. CASE Sniffing(read) /\ More(read)
      <4>1. stage' = "sniff" /\ result' = "none" /\ buf' = read
        BY <1>4, <2>1, <3>4 DEF More
      <4>2. \A i \in 1..Len(read) : Preface[i] = read[i]
        BY <1>6, <3>4, PrefixByOctet DEF Sniffing
      <4>3. Len(buf') = taken' /\ \A i \in 1..taken' : buf'[i] = wire'[i] /\ buf'[i] = Preface[i]
        BY <1>3, <3>2, <3>3, <4>1, <4>2
      <4> QED
        BY <4>1, <4>3 DEF OpeningInv
    <3>5. CASE ~Sniffing(read) /\ Sniffed(read)
      <4>1. OpeningInv' /\ result' = "none"
        BY <1>2, <1>3, <1>6, <2>1, <3>2, <3>3, <3>5, SniffedNext
      <4> QED
        BY <4>1
    <3> QED
      BY <1>2, <2>1, <3>4, <3>5 DEF Got
  <2>2. CASE stage # "sniff"
    <3>1. stage # "preface"
      <4>1. SUFFICES ASSUME stage = "preface" PROVE FALSE
        OBVIOUS
      <4>2. first = Preface
        BY <4>1 DEF IInv, OpeningInv
      <4> QED
        BY <1>3, <4>1, <4>2, PrefaceAssumption DEF OnSocket, Replaying
    <3>2. /\ result' \in {"none", "over"}
          /\ (stage \in {"header", "body"} => stage' \in {"header", "body", "done"})
          /\ (stage = "rest" => stage' \in {"rest", "done"})
          /\ stage \in {"header", "body", "rest"}
      BY <1>2, <1>4, <2>2, <3>1, GotKind DEF Stages
    <3> QED
      BY <1>3, <3>2, OpenedNext
  <2> QED
    BY <2>1, <2>2
<1>13. SilenceInv'
  BY <1>3, <1>11, <1>12 DEF SilenceInv
<1> QED
  BY <1>8, <1>10, <1>12, <1>13 DEF IInv

\* The socket's read returns the end.
LEMMA ReadEndStep ==
  ASSUME IInv, ReadEnd
  PROVE  IInv'
<1> USE Sizes
<1>1. /\ OnSocket /\ taken = Len(wire) /\ fin # "open" /\ quiet' = 0
      /\ UNCHANGED <<peer, beats, out, wire, fin, taken, idle>>
  BY DEF ReadEnd, sending
<1>2. /\ stage \in Stages \ {"done"} /\ result = "none" /\ frames \in Seq(Seq(Octets))
      /\ buf \in Seq(Octets) /\ wire \in Seq(Octets) /\ first \in Seq(Octets) /\ Len(buf) < need
      /\ idle \in Nat
  BY <1>1 DEF IInv, OctetsTypeOK, ReadTypeOK, ReadingInv, OnSocket
<1>3. /\ ReadTypeOK' /\ ReadingInv' /\ first' \in Seq(Octets)
      /\ OpeningInv' /\ result' # "silent"
  <2>1. CASE fin = "reset" /\ Finish("broken") /\ UNCHANGED <<frames, first>>
    <3>1. ReadTypeOK' /\ ReadingInv'
      BY <1>2, <2>1, FinishNext DEF Results
    <3>2. OpeningInv' /\ result' # "silent"
      BY <2>1 DEF Finish, OpeningInv
    <3> QED
      BY <1>2, <2>1, <3>1, <3>2
  <2>2. CASE Ended /\ PutBack(buf)
    <3>1. ReadTypeOK' /\ ReadingInv'
      BY <1>2, <2>2, EndedNext
    <3>2. first' \in Seq(Octets)
      BY <1>2, <2>2 DEF PutBack
    <3>3. (Matches => Matches') /\ (Differs => Differs')
      BY <1>1 DEF Matches, Differs
    <3>4. CASE stage = "sniff" /\ Sniffed(buf)
      <4>1. /\ Len(buf) = Len(wire) /\ Len(buf) < Len(Preface)
            /\ \A i \in 1..Len(buf) : buf[i] = wire[i]
        BY <1>1, <1>2, <3>4 DEF IInv, OpeningInv, ReadingInv, Fits
      <4>2. Len(wire) < Len(Preface) /\ Len(buf) <= Len(wire) /\ Len(buf) <= Len(Preface)
        BY <1>2, <4>1
      <4>3. OpeningInv' /\ result' = "none"
        BY <1>1, <1>2, <2>2, <3>4, <4>1, <4>2, SniffedNext
      <4> QED
        BY <3>1, <3>2, <4>3
    <3>5. CASE stage = "header" /\ Finish("clean")
      <4>1. Matches
        BY <3>5 DEF IInv, OpeningInv
      <4> QED
        BY <3>1, <3>2, <3>3, <3>5, <4>1 DEF Finish, OpeningInv
    <3>6. CASE stage = "rest" /\ Finish("whole")
      <4>1. Differs
        BY <3>6 DEF IInv, OpeningInv
      <4> QED
        BY <3>1, <3>2, <3>3, <3>6, <4>1 DEF Finish, OpeningInv
    <3>7. CASE Finish("nothing") \/ Finish("cut")
      BY <3>1, <3>2, <3>7 DEF Finish, OpeningInv
    <3> QED
      BY <2>2, <3>4, <3>5, <3>6, <3>7 DEF Ended
  <2> QED
    BY <2>1, <2>2 DEF ReadEnd
<1>4. OctetsTypeOK' /\ WireInv'
  BY <1>1, <1>3 DEF IInv, OctetsTypeOK, WireInv
<1>5. SilenceInv'
  BY <1>1, <1>2, <1>3 DEF IInv, SilenceInv
<1> QED
  BY <1>3, <1>4, <1>5 DEF IInv

\* It waited its timeout.
LEMMA ReadTimesOutStep ==
  ASSUME IInv, ReadTimesOut
  PROVE  IInv'
<1> USE Sizes
<1>1. /\ stage # "done" /\ taken = Len(wire) /\ fin = "open" /\ Waited
      /\ quiet' = LeastOf(quiet + 1, Silence + 1) /\ idle' = LeastOf(idle + 1, Silence + 1)
      /\ UNCHANGED <<peer, beats, out, wire, fin, taken, first, frames>>
  BY DEF ReadTimesOut, OnSocket, sending
<1>2. /\ frames \in Seq(Seq(Octets)) /\ quiet \in 0..Silence + 1 /\ idle \in 0..Silence + 1
      /\ result = "none"
  BY <1>1 DEF IInv, OctetsTypeOK, ReadTypeOK, ReadingInv
<1>3. quiet = idle
  BY <1>1, <1>2 DEF IInv, SilenceInv
<1>4. quiet' \in 0..Silence + 1 /\ idle' \in 0..Silence + 1 /\ quiet' = idle'
  BY <1>1, <1>2, <1>3 DEF LeastOf
<1>5. CASE UNCHANGED <<stage, buf, need, result>> /\ ~FellSilent
  <2>1. ReadTypeOK' /\ ReadingInv'
    BY <1>1, <1>5, NotReading
  <2>2. OctetsTypeOK' /\ WireInv'
    BY <1>1, <1>4, <2>1 DEF IInv, OctetsTypeOK, WireInv
  <2>3. OpeningInv'
    BY <1>1, <1>5 DEF IInv, OpeningInv, Matches, Differs
  <2>4. SilenceInv'
    BY <1>1, <1>2, <1>3, <1>5 DEF SilenceInv, LeastOf, FellSilent
  <2> QED
    BY <2>1, <2>2, <2>3, <2>4 DEF IInv
<1>6. ASSUME NEW how \in {"aborted", "silent"}, Finish(how),
             how = "silent" => FellSilent
      PROVE  IInv'
  <2>1. ReadTypeOK' /\ ReadingInv'
    BY <1>1, <1>2, <1>6, FinishNext DEF Results
  <2>2. OctetsTypeOK' /\ WireInv'
    BY <1>1, <1>4, <2>1 DEF IInv, OctetsTypeOK, WireInv
  <2>3. OpeningInv'
    BY <1>6 DEF Finish, OpeningInv
  <2>4. SilenceInv'
    BY <1>1, <1>2, <1>3, <1>6 DEF Finish, SilenceInv, LeastOf, FellSilent
  <2> QED
    BY <2>1, <2>2, <2>3, <2>4 DEF IInv
<1> QED
  BY <1>1, <1>5, <1>6 DEF Waited

-----------------------------------------------------------------------------
(* The theorems.                                                           *)

\* Every step keeps the invariant.
LEMMA NextInv ==
  ASSUME IInv, [Next]_vars
  PROVE  IInv'
<1>1. ASSUME NEW bytes \in BoundedSeq(Octets, MaxBody + 1), Write(bytes)
      PROVE  IInv'
  BY <1>1, WriteStep, Zenon
<1>2. CASE Arrive
  BY <1>2, ArriveStep, Zenon
<1>3. CASE Close
  BY <1>3, CloseStep, Zenon
<1>4. CASE Ending
  BY <1>4, OtherStep DEF Ending
<1>5. CASE Reads
  BY <1>5, ReplayStep, ReadStep, ReadEndStep, ReadTimesOutStep, Zenon DEF Reads
<1>6. CASE Over \/ UNCHANGED vars
  BY <1>6, OtherStep DEF Over, vars
<1> QED
  BY <1>1, <1>2, <1>3, <1>4, <1>5, <1>6, Zenon DEF Next

\* The inductive invariant holds throughout.
LEMMA Invariance == Spec => []IInv
<1>1. Init => IInv
  BY InitInv
<1>2. IInv /\ [Next]_vars => IInv'
  BY NextInv
<1> QED
  BY <1>1, <1>2, PTL DEF Spec

\* What is read never outgrows what was asked for, nor a frame MAX_BODY, and
\* the socket never gives what did not come (read.rs, frame.rs read).
THEOREM FramingTypeCorrect == Spec => []TypeOK
<1>1. IInv => TypeOK
  <2>1. SUFFICES ASSUME IInv PROVE TypeOK
    OBVIOUS
  <2>2. need \in 0..MaxBody + Ceiling + HeaderLen + Len(Preface)
    BY <2>1, Sizes DEF IInv, OctetsTypeOK, ReadTypeOK, ReadingInv, Fits, Stages
  <2>3. taken \in 0..Len(wire) /\ Len(wire) <= MaxWire
    BY <2>1, Sizes DEF IInv, OctetsTypeOK, WireInv
  <2> QED
    BY <2>1, <2>2, <2>3 DEF IInv, OctetsTypeOK, ReadTypeOK, ReadingInv, TypeOK, Stages
<1> QED
  BY <1>1, Invariance, PTL

\* A connection is taken for HTTP/2 exactly where it opens with the preface,
\* however its first octets came, and the handshake always finds the preface
\* sniff found (preface.rs sniff, Replayed::read).
THEOREM OpensAsSent == Spec => []OpenedAsSent
<1>1. IInv => OpenedAsSent
  BY Opens DEF IInv, OpeningInv, OpenedAsSent
<1> QED
  BY <1>1, Invariance, PTL

\* A peer is taken for silent only where it must beat and after the whole
\* silence, and no read of one that must waits longer (watched.rs read).
THEOREM SilenceGiven == Spec => []SilenceKept
<1>1. IInv => SilenceKept
  BY DEF IInv, SilenceInv, SilenceKept
<1> QED
  BY <1>1, Invariance, PTL

-----------------------------------------------------------------------------
(* What was read of an HTTP/2 connection, and what was written on it.      *)

\* Nothing read is lost: what is replayed is gone before a frame is read, and
\* no frame is read before the preface.
KeptInv ==
  /\ NothingLost
  /\ stage \in {"header", "body"} => first = <<>>
  /\ stage \in {"sniff", "preface", "rest"} => frames = <<>>

\* What came and is to come of a peer that writes frames is what it wrote.
WroteInv ==
  peer = "frames" =>
    /\ written \in Frames /\ Within(written)
    /\ wire \o out = Preface \o FramedAll(written)

\* Its frames are read as they were written, and none is over MAX_BODY.
InOrderInv ==
  peer = "frames" =>
    /\ stage # "done" \/ result = "clean" => Begins(frames, written)
    /\ result = "over" => ~IsPrefix(Preface, wire)

DataInv == KeptInv /\ WroteInv /\ CleanEndIsWhole /\ InOrderInv

\* What octets are cut into is put back together.
LEMMA Cuts ==
  ASSUME NEW s \in Seq(Octets), NEW m \in 0..Len(s), NEW n \in m..Len(s)
  PROVE  /\ SubSeq(s, 1, m) \in Seq(Octets) /\ Len(SubSeq(s, 1, m)) = m
         /\ SubSeq(s, m + 1, n) \in Seq(Octets)
         /\ SubSeq(s, 1, m) \o SubSeq(s, m + 1, n) = SubSeq(s, 1, n)
         /\ SubSeq(s, 1, Len(s)) = s
<1>1. Len(s) \in Nat /\ m \in Nat /\ n \in Nat /\ m <= n /\ n <= Len(s)
  OBVIOUS
<1>2. SubSeq(s, 1, m) \in Seq(Octets) /\ Len(SubSeq(s, 1, m)) = m
  <2>1. \A i \in 1..m : s[i] \in Octets
    BY <1>1
  <2>2. /\ SubSeq(s, 1, m) \in Seq(Octets)
        /\ Len(SubSeq(s, 1, m)) = IF 1 <= m THEN m - 1 + 1 ELSE 0
    BY <1>1, <2>1, SubSeqProperties
  <2> QED
    BY <1>1, <2>2
<1>3. SubSeq(s, m + 1, n) \in Seq(Octets)
  <2>1. m + 1 \in Int /\ n \in Int /\ \A i \in m + 1..n : s[i] \in Octets
    BY <1>1
  <2> QED
    BY <2>1, SubSeqProperties
<1>4. SubSeq(s, 1, m) \o SubSeq(s, m + 1, n) = SubSeq(s, 1, n)
  <2>1. 1 \in 1..Len(s) + 1 /\ m \in 1 - 1..Len(s) /\ n \in m..Len(s)
    BY <1>1
  <2> QED
    BY <2>1, ConcatAdjacentSubSeq, Zenon
<1>5. SubSeq(s, 1, Len(s)) = s
  BY SubSeqFull, Zenon
<1> QED
  BY <1>2, <1>3, <1>4, <1>5

\* What was read stays what it is when more comes.
LEMMA CutsLast ==
  ASSUME NEW s \in Seq(Octets), NEW octet \in Octets, NEW m \in 0..Len(s)
  PROVE  SubSeq(Append(s, octet), 1, m) = SubSeq(s, 1, m)
<1> DEFINE t == Append(s, octet)
<1>1. /\ t \in Seq(Octets) /\ Len(t) = Len(s) + 1 /\ Len(s) \in Nat
      /\ \A i \in 1..Len(s) : t[i] = s[i]
  BY AppendProperties
<1> HIDE DEF t
<1>2. m \in Int /\ 1 \in Int /\ (\A i \in 1..m : s[i] \in Octets) /\ (\A i \in 1..m : t[i] \in Octets)
  BY <1>1
<1>3. /\ SubSeq(s, 1, m) \in Seq(Octets) /\ SubSeq(t, 1, m) \in Seq(Octets)
      /\ Len(SubSeq(s, 1, m)) = m /\ Len(SubSeq(t, 1, m)) = m
  <2>1. m \in 0..Len(t) /\ m \in m..Len(s) /\ m \in m..Len(t)
    BY <1>1
  <2> QED
    BY <1>1, <2>1, Cuts, Zenon
<1>4. ASSUME NEW i \in 1..m
      PROVE  SubSeq(s, 1, m)[i] = SubSeq(t, 1, m)[i]
  <2>1. i \in 1..m - 1 + 1 /\ 1 + i - 1 = i
    BY <1>2
  <2>2. SubSeq(s, 1, m)[i] = s[1 + i - 1] /\ SubSeq(t, 1, m)[i] = t[1 + i - 1]
    BY <1>2, <2>1, SubSeqProperties
  <2> QED
    BY <1>1, <2>1, <2>2
<1>5. SubSeq(s, 1, m) = SubSeq(t, 1, m)
  BY <1>3, <1>4, SeqEqual, Zenon
<1> QED
  BY <1>5 DEF t

\* One frame more of those written.
LEMMA BeginsNext ==
  ASSUME NEW ws \in Frames, NEW fs \in Frames, Begins(fs, ws), Len(fs) < Len(ws),
         NEW bytes \in Seq(Octets), bytes = ws[Len(fs) + 1]
  PROVE  Begins(Append(fs, bytes), ws)
<1>1. /\ Len(fs) \in Nat /\ Len(ws) \in Nat /\ Len(Append(fs, bytes)) = Len(fs) + 1
      /\ \A i \in 1..Len(fs) : Append(fs, bytes)[i] = fs[i]
      /\ Append(fs, bytes)[Len(fs) + 1] = bytes
  BY DEF Frames
<1>2. ASSUME NEW i \in 1..Len(fs) + 1
      PROVE  Append(fs, bytes)[i] = ws[i]
  <2>1. i \in 1..Len(fs) \/ i = Len(fs) + 1
    BY <1>1
  <2> QED
    BY <1>1, <2>1 DEF Begins
<1> QED
  BY <1>1, <1>2 DEF Begins

\* What is read of an HTTP/2 connection, when read is held of what is wanted.
Held(read) == (Preface \o FramedAll(frames)) \o
              (IF stage = "body" THEN LengthOctets(need) \o read ELSE read)

\* Types of the parts.
LEMMA HeldParts ==
  ASSUME IInv
  PROVE  /\ frames \in Frames /\ FramedAll(frames) \in Seq(Octets)
         /\ Preface \o FramedAll(frames) \in Seq(Octets)
         /\ need \in Nat /\ LengthOctets(need) \in Seq(Octets) /\ Len(LengthOctets(need)) = HeaderLen
         /\ Preface \in Seq(Octets) /\ Len(Preface) \in Nat
<1>1. frames \in Frames /\ need \in Nat
  BY DEF IInv, OctetsTypeOK, ReadTypeOK, Frames
<1>2. FramedAll(frames) \in Seq(Octets)
  BY <1>1, FramesJoin
<1>3. Preface \in Seq(Octets) /\ Len(Preface) \in Nat
  BY Sizes
<1>4. LengthOctets(need) \in Seq(Octets) /\ Len(LengthOctets(need)) = HeaderLen
  BY <1>1, OctetsType
<1>5. Preface \o FramedAll(frames) \in Seq(Octets)
  BY <1>2, <1>3, Octetwise
<1> QED
  BY <1>1, <1>2, <1>3, <1>4, <1>5

\* What is made of a header or a body keeps every octet of it.
LEMMA GotKeeps ==
  ASSUME IInv, stage \in {"header", "body"}, NEW read \in Seq(Octets), Got(read), stage' # "done"
  PROVE  stage' \in {"header", "body"} /\ ReadBack' = Held(read)
<1>1. PICK before : before = Preface \o FramedAll(frames) /\ before \in Seq(Octets)
  BY HeldParts
<1>2. frames \in Frames /\ FramedAll(frames) \in Seq(Octets) /\ Preface \in Seq(Octets)
      /\ LengthOctets(need) \in Seq(Octets) /\ need \in Nat
  BY HeldParts
<1>3. ASSUME NEW bytes \in Seq(Octets), frames' = Append(frames, bytes),
             stage' = "header", buf' = <<>>
      PROVE  ReadBack' = before \o Framed(bytes)
  <2>1. PICK all \in Seq(Octets), one \in Seq(Octets) :
          all = FramedAll(frames) /\ one = Framed(bytes)
    BY <1>2, FramedType
  <2>2. FramedAll(frames') = all \o one
    BY <1>2, <1>3, <2>1, FramesJoin
  <2>3. ReadBack' = (Preface \o FramedAll(frames')) \o <<>>
    BY <1>3 DEF ReadBack
  <2>4. (Preface \o all) \o one = Preface \o (all \o one)
    <3>1. Preface \in Seq(Octets)
      BY <1>2
    <3> QED
      BY <3>1, Assoc, Zenon
  <2>5. (Preface \o all) \o one \in Seq(Octets)
    BY <1>1, <2>1, Octetwise
  <2>6. ((Preface \o all) \o one) \o <<>> = (Preface \o all) \o one
    BY <2>5, Octetwise
  <2> QED
    BY <1>1, <2>1, <2>2, <2>3, <2>4, <2>6, Zenon
<1>4. CASE More(read)
  BY <1>4 DEF More, ReadBack, Held
<1>5. CASE stage = "header" /\ Len(read) = need /\ Header(Length(read))
  <2>1. Held(read) = before \o read
    BY <1>1, <1>5 DEF Held
  <2>2. Len(read) = HeaderLen
    BY <1>5 DEF IInv, ReadingInv, Fits
  <2>3. LengthOctets(Length(read)) = read
    BY <2>2, HeaderAsRead
  <2>4. CASE Length(read) = 0 /\ Reading("header", HeaderLen) /\ frames' = Append(frames, <<>>)
    <3>1. <<>> \in Seq(Octets) /\ Len(<<>>) = 0
      OBVIOUS
    <3>2. stage' = "header" /\ ReadBack' = before \o Framed(<<>>)
      BY <1>3, <2>4, <3>1 DEF Reading
    <3>3. Framed(<<>>) = read
      BY <2>3, <2>4, <3>1, ConcatEmptySeq DEF Framed
    <3> QED
      BY <2>1, <3>2, <3>3
  <2>5. CASE Reading("body", Length(read)) /\ UNCHANGED frames
    <3>1. stage' = "body" /\ ReadBack' = before \o (LengthOctets(Length(read)) \o <<>>)
      BY <1>1, <2>5 DEF Reading, ReadBack
    <3>2. read \o <<>> = read
      BY ConcatEmptySeq, Zenon
    <3> QED
      BY <2>1, <2>3, <3>1, <3>2
  <2> QED
    BY <1>5, <2>4, <2>5 DEF Header, Finish
<1>6. CASE stage = "body" /\ Len(read) = need /\ Reading("header", HeaderLen) /\ frames' = Append(frames, read)
  <2>1. Held(read) = before \o Framed(read)
    BY <1>1, <1>6 DEF Held, Framed
  <2>2. stage' = "header" /\ ReadBack' = before \o Framed(read)
    BY <1>3, <1>6 DEF Reading
  <2> QED
    BY <2>1, <2>2
<1> QED
  BY <1>4, <1>5, <1>6 DEF Got, Whole


\* What is made of a header or a body that was written is the frame that was
\* written next.
LEMMA GotInOrder ==
  ASSUME IInv, stage \in {"header", "body"}, NEW read \in Seq(Octets), Got(read),
         written \in Frames, Within(written), Begins(frames, written),
         NEW t \in Seq(Octets), Held(read) \o t = Preface \o FramedAll(written)
  PROVE  result' # "over" /\ (stage' # "done" => Begins(frames', written))
<1>1. /\ frames \in Frames /\ FramedAll(frames) \in Seq(Octets) /\ Preface \in Seq(Octets)
      /\ LengthOctets(need) \in Seq(Octets) /\ need \in Nat /\ Len(LengthOctets(need)) = HeaderLen
      /\ FramedAll(written) \in Seq(Octets)
  BY HeldParts, FramesJoin DEF Within
<1>2. result = "none" /\ Fits(stage, need)
  BY DEF IInv, ReadingInv
<1>3. ASSUME NEW part \in Seq(Octets), Held(read) = (Preface \o FramedAll(frames)) \o part
      PROVE  FramedAll(frames) \o (part \o t) = FramedAll(written)
  <2>1. PICK all \in Seq(Octets) : all = FramedAll(frames)
    BY <1>1
  <2>2. ((Preface \o all) \o part) \o t = Preface \o (all \o (part \o t))
    <3>1. PICK left \in Seq(Octets), right \in Seq(Octets) : left = Preface \o all /\ right = part \o t
      BY <1>1, Octetwise
    <3>2. (left \o part) \o t = left \o (part \o t)
      BY Assoc, Zenon
    <3>3. (Preface \o all) \o right = Preface \o (all \o right)
      <4>1. PICK p \in Seq(Octets) : p = Preface
        BY <1>1
      <4>2. (p \o all) \o right = p \o (all \o right)
        BY Assoc, Zenon
      <4> QED
        BY <4>1, <4>2
    <3> QED
      BY <3>1, <3>2, <3>3, Zenon
  <2>3. all \o (part \o t) \in Seq(Octets)
    <3>1. part \o t \in Seq(Octets)
      BY Octetwise
    <3> QED
      BY <3>1, Octetwise
  <2>4. Preface \o (all \o (part \o t)) = Preface \o FramedAll(written)
    BY <1>3, <2>1, <2>2, Zenon
  <2>5. all \o (part \o t) = FramedAll(written)
    BY <1>1, <2>3, <2>4, EqualParts, Zenon
  <2> QED
    BY <2>1, <2>5
<1>4. CASE More(read)
  BY <1>2, <1>4 DEF More
<1>5. CASE stage = "header" /\ Len(read) = need /\ Header(Length(read))
  <2>1. Len(read) = HeaderLen
    BY <1>2, <1>5 DEF Fits
  <2>2. FramedAll(frames) \o (read \o t) = FramedAll(written)
    <3>1. Held(read) = (Preface \o FramedAll(frames)) \o read
      BY <1>5 DEF Held
    <3> QED
      BY <1>3, <3>1
  <2>3. /\ Len(frames) < Len(written) /\ written[Len(frames) + 1] \in Seq(Octets)
        /\ Length(read) = Len(written[Len(frames) + 1]) /\ Length(read) \in 0..MaxBody
    <3>1. Follow(written, frames, read, t) /\ frames \in Frames
      BY <1>1, <2>1, <2>2 DEF Follow
    <3>2. IsNext(written, frames, read, t)
      BY <3>1, NextFrame, Zenon
    <3> QED
      BY <3>2 DEF IsNext
  <2>4. ~(Length(read) > MaxBody)
    BY <2>3, BoundsAssumption
  <2>5. CASE Length(read) = 0 /\ Reading("header", HeaderLen) /\ frames' = Append(frames, <<>>)
    <3>1. <<>> \in Seq(Octets) /\ written[Len(frames) + 1] = <<>>
      <4>1. PICK b \in Seq(Octets) : b = written[Len(frames) + 1] /\ Len(b) = 0
        BY <2>3, <2>5
      <4>2. b = <<>>
        BY <4>1
      <4> QED
        BY <4>1, <4>2
    <3>2. Begins(Append(frames, <<>>), written)
      BY <1>1, <2>3, <3>1, BeginsNext DEF Within
    <3> QED
      BY <1>2, <2>5, <3>2 DEF Reading
  <2>6. CASE Reading("body", Length(read)) /\ UNCHANGED frames
    BY <1>2, <2>6 DEF Reading
  <2> QED
    BY <1>5, <2>4, <2>5, <2>6 DEF Header
<1>6. CASE stage = "body" /\ Len(read) = need /\ Reading("header", HeaderLen) /\ frames' = Append(frames, read)
  <2>1. PICK head \in Seq(Octets) : head = LengthOctets(need) /\ Len(head) = HeaderLen
    BY <1>1
  <2>2. need \in 0..MaxBody /\ Length(head) = need
    <3>1. need \in 0..MaxBody
      BY <1>2, <1>6, BoundsAssumption DEF Fits
    <3> QED
      BY <2>1, <3>1, LengthAsWritten
  <2>3. /\ Held(read) = (Preface \o FramedAll(frames)) \o (head \o read)
        /\ head \o read \in Seq(Octets) /\ read \o t \in Seq(Octets)
    BY <1>6, <2>1, Octetwise DEF Held
  <2>4. FramedAll(frames) \o ((head \o read) \o t) = FramedAll(written)
    BY <1>3, <2>3
  <2>5. (head \o read) \o t = head \o (read \o t)
    BY Assoc, Zenon
  <2>6. FramedAll(frames) \o (head \o (read \o t)) = FramedAll(written)
    BY <2>4, <2>5, Zenon
  <2>7. /\ Len(frames) < Len(written) /\ read = written[Len(frames) + 1]
    <3>1. PICK rest \in Seq(Octets) : rest = read \o t
      BY <2>3
    <3>2. Follow(written, frames, head, rest) /\ frames \in Frames
      BY <1>1, <2>1, <2>6, <3>1, Zenon DEF Follow
    <3>3. IsNext(written, frames, head, rest)
      BY <3>2, NextFrame, Zenon
    <3>4. PICK b \in Seq(Octets), after \in Seq(Octets) :
            b = written[Len(frames) + 1] /\ rest = b \o after /\ Length(head) = Len(b)
      BY <3>3 DEF IsNext
    <3>5. read \o t = b \o after /\ Len(read) = Len(b)
      BY <1>6, <2>2, <3>1, <3>4, Zenon
    <3>6. read = b
      BY <3>5, EqualParts, Zenon
    <3> QED
      BY <3>3, <3>4, <3>6 DEF IsNext
  <2>8. Begins(Append(frames, read), written)
    BY <1>1, <2>7, BeginsNext DEF Within
  <2> QED
    BY <1>2, <1>6, <2>8 DEF Reading
<1> QED
  BY <1>2, <1>4, <1>5, <1>6 DEF Got, Whole

-----------------------------------------------------------------------------
(* One lemma per action again.                                             *)

\* Nothing was read or written.
LEMMA InitData ==
  ASSUME Init
  PROVE  DataInv
<1>1. <<>> \in Frames /\ Len(<<>>) = 0 /\ <<>> \in Seq(Octets) /\ SubSeq(<<>>, 1, 0) = <<>>
  BY SubSeqEmpty DEF Frames
<1>2. Preface \in Seq(Octets)
  BY Sizes
<1>3. <<>> \o Preface = Preface /\ Preface \o <<>> = Preface
  BY <1>2, ConcatEmptySeq, Zenon
<1>4. KeptInv
  BY <1>1 DEF Init, KeptInv, NothingLost
<1>5. WroteInv
  <2>1. SUFFICES ASSUME peer = "frames"
                 PROVE  written \in Frames /\ Within(written) /\ wire \o out = Preface \o FramedAll(written)
    BY DEF WroteInv
  <2>2. wire = <<>> /\ out = Preface /\ written = <<>>
    BY <2>1 DEF Init
  <2>3. wire \o out = Preface \o FramedAll(written)
    BY <1>3, <2>2, FramesJoin, Zenon
  <2> QED
    BY <1>1, <2>2, <2>3 DEF Within
<1>6. CleanEndIsWhole
  BY DEF Init, CleanEndIsWhole
<1>7. InOrderInv
  BY <1>1 DEF Init, InOrderInv, Begins
<1> QED
  BY <1>4, <1>5, <1>6, <1>7 DEF DataInv

\* A step of the peer or the network, or a wait, that leaves what was read.
LEMMA NotReadData ==
  ASSUME IInv, DataInv, stage # "done",
         UNCHANGED <<peer, taken, first, stage, buf, need, frames, result>>,
         SubSeq(wire', 1, taken) = SubSeq(wire, 1, taken),
         WroteInv', peer = "frames" => Begins(frames, written')
  PROVE  DataInv'
<1>1. result = "none"
  BY DEF IInv, ReadingInv
<1>2. KeptInv'
  <2>1. ReadBack' = ReadBack
    BY DEF ReadBack
  <2>2. NothingLost'
    BY <2>1 DEF DataInv, KeptInv, NothingLost
  <2> QED
    BY <2>2 DEF DataInv, KeptInv
<1>3. CleanEndIsWhole'
  BY <1>1 DEF CleanEndIsWhole
<1>4. InOrderInv'
  BY <1>1 DEF InOrderInv
<1> QED
  BY <1>2, <1>3, <1>4 DEF DataInv

\* Nothing at all changes of what was read, written or came.
LEMMA OtherData ==
  ASSUME IInv, DataInv,
         UNCHANGED <<sending, taken, first, stage, buf, need, frames, result>>
  PROVE  DataInv'
<1>1. ReadBack' = ReadBack
  BY DEF ReadBack
<1>2. KeptInv'
  <2>1. NothingLost'
    BY <1>1 DEF DataInv, KeptInv, NothingLost, sending
  <2> QED
    BY <2>1 DEF DataInv, KeptInv
<1>3. WroteInv'
  BY DEF DataInv, WroteInv, sending
<1>4. CleanEndIsWhole'
  BY DEF DataInv, CleanEndIsWhole, sending
<1>5. InOrderInv'
  BY DEF DataInv, InOrderInv, sending
<1> QED
  BY <1>2, <1>3, <1>4, <1>5 DEF DataInv

\* The peer writes a frame.
LEMMA WriteData ==
  ASSUME IInv, DataInv, NEW bytes \in BoundedSeq(Octets, MaxBody + 1), Write(bytes)
  PROVE  DataInv'
<1>1. bytes \in Seq(Octets)
  <2>1. PICK m \in 0..MaxBody + 1 : bytes \in [1..m -> Octets]
    BY DEF BoundedSeq, SeqOf
  <2> QED
    BY <2>1, Sizes
<1>2. /\ peer = "frames" /\ stage # "done" /\ Len(bytes) <= MaxBody
      /\ out' = out \o Framed(bytes) /\ written' = Append(written, bytes)
      /\ UNCHANGED <<peer, wire, fin, taken, first, stage, buf, need, frames, result>>
  BY DEF Write, Live
<1>3. /\ written \in Frames /\ wire \o out = Preface \o FramedAll(written)
      /\ \A i \in 1..Len(written) : Len(written[i]) <= MaxBody
      /\ frames \in Frames /\ Begins(frames, written)
  BY <1>2, HeldParts DEF DataInv, WroteInv, InOrderInv, Within
<1>4. /\ Len(written) \in Nat /\ Len(frames) \in Nat
      /\ written' \in Frames /\ Len(written') = Len(written) + 1
      /\ \A i \in 1..Len(written) : written'[i] = written[i]
      /\ written'[Len(written) + 1] = bytes
  BY <1>1, <1>2, <1>3 DEF Frames
<1>5. ASSUME NEW i \in 1..Len(written')
      PROVE  Len(written'[i]) <= MaxBody
  <2>1. i \in 1..Len(written) \/ i = Len(written) + 1
    BY <1>4
  <2> QED
    BY <1>2, <1>3, <1>4, <2>1
<1>6. wire' \o out' = Preface \o FramedAll(written')
  <2>1. PICK one \in Seq(Octets) : one = Framed(bytes)
    BY <1>1, FramedType
  <2>2. (wire \o out) \o one = wire \o (out \o one)
    <3>1. PICK w \in Seq(Octets), o \in Seq(Octets) : w = wire /\ o = out
      BY DEF IInv, OctetsTypeOK
    <3>2. (w \o o) \o one = w \o (o \o one)
      BY Assoc, Zenon
    <3> QED
      BY <3>1, <3>2
  <2>3. (Preface \o FramedAll(written)) \o one = Preface \o (FramedAll(written) \o one)
    <3>1. PICK p \in Seq(Octets), all \in Seq(Octets) : p = Preface /\ all = FramedAll(written)
      BY <1>3, FramesJoin, Sizes
    <3>2. (p \o all) \o one = p \o (all \o one)
      BY Assoc, Zenon
    <3> QED
      BY <3>1, <3>2
  <2>4. FramedAll(written') = FramedAll(written) \o one
    BY <1>1, <1>2, <1>3, <2>1, FramesJoin
  <2> QED
    BY <1>2, <1>3, <2>1, <2>2, <2>3, <2>4, Zenon
<1>7. WroteInv'
  BY <1>4, <1>5, <1>6 DEF WroteInv, Within
<1>8. Begins(frames, written')
  BY <1>3, <1>4 DEF Begins
<1> QED
  BY <1>2, <1>7, <1>8, NotReadData

\* An octet comes.
LEMMA ArriveData ==
  ASSUME IInv, DataInv, Arrive
  PROVE  DataInv'
<1>1. /\ out \in Seq(Octets) /\ wire \in Seq(Octets) /\ taken \in 0..Len(wire) /\ stage # "done"
      /\ UNCHANGED <<peer, fin, written, taken, first, stage, buf, need, frames, result>>
  BY DEF IInv, OctetsTypeOK, WireInv, Arrive, Live
<1>2. CASE peer = "frames" /\ out # <<>> /\ wire' = Append(wire, Head(out)) /\ out' = Tail(out)
  <2>1. Head(out) \in Octets /\ Tail(out) \in Seq(Octets) /\ out = <<Head(out)>> \o Tail(out)
    BY <1>1, <1>2
  <2>2. PICK w \in Seq(Octets), one \in Seq(Octets), rest \in Seq(Octets) :
          w = wire /\ one = <<Head(out)>> /\ rest = Tail(out)
    <3>1. <<Head(out)>> \in Seq(Octets)
      BY <2>1
    <3> QED
      BY <1>1, <2>1, <3>1
  <2>3. (w \o one) \o rest = w \o (one \o rest)
    BY Assoc, Zenon
  <2>4. wire' = w \o one
    BY <1>1, <1>2, <2>1, <2>2, AppendIsConcat
  <2>5. wire' \o out' = wire \o out
    BY <1>2, <2>1, <2>2, <2>3, <2>4, Zenon
  <2>6. WroteInv' /\ Begins(frames, written')
    BY <1>1, <1>2, <2>5 DEF DataInv, WroteInv, InOrderInv
  <2>7. SubSeq(wire', 1, taken) = SubSeq(wire, 1, taken)
    BY <1>1, <1>2, <2>1, CutsLast
  <2> QED
    BY <1>1, <2>6, <2>7, NotReadData
<1>3. ASSUME peer = "any", NEW octet \in Octets, wire' = Append(wire, octet)
      PROVE  DataInv'
  <2>1. WroteInv'
    BY <1>1, <1>3 DEF WroteInv
  <2>2. SubSeq(wire', 1, taken) = SubSeq(wire, 1, taken)
    BY <1>1, <1>3, CutsLast
  <2> QED
    BY <1>1, <1>3, <2>1, <2>2, NotReadData
<1> QED
  BY <1>2, <1>3 DEF Arrive

\* The peer is gone.
LEMMA CloseData ==
  ASSUME IInv, DataInv, Close
  PROVE  DataInv'
<1>1. /\ stage # "done"
      /\ UNCHANGED <<peer, out, wire, written, taken, first, stage, buf, need, frames, result>>
  BY DEF Close, Live
<1>2. WroteInv' /\ (peer = "frames" => Begins(frames, written'))
  BY <1>1 DEF DataInv, WroteInv, InOrderInv
<1> QED
  BY <1>1, <1>2, NotReadData

\* Reading ends with nothing said of what was read.
LEMMA FinishData ==
  ASSUME DataInv, UNCHANGED sending, NEW how \in Results \ {"clean", "whole", "cut"}, Finish(how),
         how = "over" => ~IsPrefix(Preface, wire)
  PROVE  DataInv'
<1>1. stage' = "done" /\ result' = how
  BY DEF Finish
<1>2. KeptInv'
  BY <1>1 DEF KeptInv, NothingLost
<1>3. WroteInv'
  BY DEF DataInv, WroteInv, sending
<1>4. CleanEndIsWhole'
  BY <1>1 DEF CleanEndIsWhole
<1>5. InOrderInv'
  BY <1>1 DEF InOrderInv, sending
<1> QED
  BY <1>2, <1>3, <1>4, <1>5 DEF DataInv

\* It waited its timeout.
LEMMA ReadTimesOutData ==
  ASSUME IInv, DataInv, ReadTimesOut
  PROVE  DataInv'
<1>1. UNCHANGED <<sending, taken, first, frames>> /\ Waited
  BY DEF ReadTimesOut
<1>2. CASE UNCHANGED <<stage, buf, need, result>>
  BY <1>1, <1>2, OtherData
<1>3. CASE Finish("aborted") \/ Finish("silent")
  BY <1>1, <1>3, FinishData DEF Results
<1> QED
  BY <1>1, <1>2, <1>3 DEF Waited

\* What sniff read is read again.
LEMMA ReplayData ==
  ASSUME IInv, DataInv, Replay
  PROVE  DataInv'
<1>1. /\ stage \in {"preface", "rest"} /\ result = "none" /\ first # <<>>
      /\ buf \in Seq(Octets) /\ first \in Seq(Octets) /\ Len(buf) < need /\ need \in Nat
      /\ UNCHANGED <<sending, taken>>
  BY DEF Replay, Replaying, DataInv, KeptInv, IInv, OctetsTypeOK, ReadTypeOK, ReadingInv, Stages
<1>2. /\ frames = <<>> /\ buf \o first = SubSeq(wire, 1, taken)
      /\ (peer = "frames" => Begins(frames, written))
  BY <1>1 DEF DataInv, KeptInv, NothingLost, InOrderInv
<1>3. WroteInv'
  BY <1>1 DEF DataInv, WroteInv, sending
<1>4. CASE stage = "preface"
  <2>1. /\ stage' = "header" /\ buf' = <<>> /\ first' = <<>> /\ first = Preface
        /\ UNCHANGED <<frames, result>>
    BY <1>4, PrefaceReplayed
  <2>2. buf = <<>> /\ Preface \in Seq(Octets)
    BY <1>4, Sizes DEF IInv, OpeningInv
  <2>3. Preface = SubSeq(wire, 1, taken)
    BY <1>2, <2>1, <2>2, ConcatEmptySeq
  <2>4. ReadBack' = (Preface \o <<>>) \o <<>>
    BY <1>2, <2>1, FramesJoin DEF ReadBack
  <2>5. ReadBack' \o first' = Preface
    BY <2>1, <2>2, <2>4, ConcatEmptySeq
  <2>6. KeptInv'
    BY <1>1, <2>1, <2>3, <2>5 DEF KeptInv, NothingLost, sending
  <2>7. CleanEndIsWhole' /\ InOrderInv'
    BY <1>1, <1>2, <2>1 DEF CleanEndIsWhole, InOrderInv, sending
  <2> QED
    BY <1>3, <2>6, <2>7 DEF DataInv
<1>5. CASE stage = "rest"
  <2>1. PICK count : /\ count = LeastOf(Wanted, Len(first))
                     /\ Got(buf \o SubSeq(first, 1, count))
                     /\ first' = SubSeq(first, count + 1, Len(first))
    BY DEF Replay
  <2>2. count \in 0..Len(first) /\ Len(first) \in count..Len(first)
    BY <1>1, <2>1 DEF LeastOf, Wanted
  <2>3. PICK x \in Seq(Octets), y \in Seq(Octets) :
          x = SubSeq(first, 1, count) /\ y = SubSeq(first, count + 1, Len(first)) /\ x \o y = first
    <3>1. /\ SubSeq(first, 1, count) \in Seq(Octets)
          /\ SubSeq(first, count + 1, Len(first)) \in Seq(Octets)
          /\ SubSeq(first, 1, count) \o SubSeq(first, count + 1, Len(first)) = SubSeq(first, 1, Len(first))
          /\ SubSeq(first, 1, Len(first)) = first
      BY <1>1, <2>2, Cuts, Zenon
    <3> QED
      BY <3>1, Zenon
  <2>4. CASE More(buf \o SubSeq(first, 1, count))
    <3>1. stage' = "rest" /\ buf' = buf \o x /\ first' = y /\ UNCHANGED <<frames, result>>
      BY <1>5, <2>1, <2>3, <2>4 DEF More
    <3>2. PICK b \in Seq(Octets) : b = buf
      BY <1>1
    <3>3. (b \o x) \o y = b \o (x \o y)
      BY Assoc, Zenon
    <3>4. buf' \o first' = SubSeq(wire, 1, taken)
      BY <1>2, <2>3, <3>1, <3>2, <3>3, Zenon
    <3>5. KeptInv'
      BY <1>1, <1>2, <3>1, <3>4 DEF KeptInv, NothingLost, sending
    <3>6. CleanEndIsWhole' /\ InOrderInv'
      BY <1>1, <1>2, <3>1 DEF CleanEndIsWhole, InOrderInv, sending
    <3> QED
      BY <1>3, <3>5, <3>6 DEF DataInv
  <2>5. CASE Finish("over")
    <3>1. ~IsPrefix(Preface, wire)
      BY <1>5, Opens DEF IInv, OpeningInv
    <3> QED
      BY <1>1, <2>5, <3>1, FinishData DEF Results
  <2> QED
    BY <1>5, <2>1, <2>4, <2>5 DEF Got, Whole
<1> QED
  BY <1>1, <1>4, <1>5

\* What sniff read, put back to be read again.
LEMMA SniffedData ==
  ASSUME IInv, DataInv, stage = "sniff", UNCHANGED sending, NEW read \in Seq(Octets),
         Sniffed(read), PutBack(read), read = SubSeq(wire, 1, taken')
  PROVE  DataInv'
<1>1. frames = <<>> /\ result = "none" /\ (peer = "frames" => Begins(frames, written))
  BY DEF DataInv, KeptInv, InOrderInv, IInv, ReadingInv
<1>2. stage' \in {"preface", "rest"} /\ buf' = <<>> /\ UNCHANGED <<frames, result>>
  BY DEF Sniffed, Reading
<1>3. first' = read
  BY <1>2 DEF PutBack
<1>4. buf' \o first' = SubSeq(wire, 1, taken')
  BY <1>2, <1>3, ConcatEmptySeq
<1>5. KeptInv'
  BY <1>1, <1>2, <1>4 DEF KeptInv, NothingLost, sending
<1>6. WroteInv'
  BY DEF DataInv, WroteInv, sending
<1>7. CleanEndIsWhole' /\ InOrderInv'
  BY <1>1, <1>2 DEF CleanEndIsWhole, InOrderInv, sending
<1> QED
  BY <1>5, <1>6, <1>7 DEF DataInv

\* The socket's read returns some of what came.
LEMMA ReadData ==
  ASSUME IInv, DataInv, Read
  PROVE  DataInv'
<1>1. PICK count \in 1..LeastOf(Wanted, Len(wire) - taken) :
        LET read == buf \o SubSeq(wire, taken + 1, taken + count)
        IN  Got(read) /\ PutBack(read) /\ taken' = taken + count
  BY Zenon DEF Read
<1>2. /\ OnSocket /\ taken < Len(wire) /\ UNCHANGED sending
  BY DEF Read
<1>3. /\ stage \in {"sniff", "header", "body", "rest"} /\ result = "none"
      /\ buf \in Seq(Octets) /\ wire \in Seq(Octets) /\ Len(buf) < need /\ need \in Nat /\ taken \in Nat
      /\ Len(wire) \in Nat /\ (stage # "sniff" => first = <<>>)
  <2>1. stage # "preface"
    BY <1>2, PrefaceAssumption DEF OnSocket, Replaying, IInv, OpeningInv
  <2> QED
    BY <1>2, <2>1 DEF OnSocket, Replaying, IInv, OctetsTypeOK, ReadTypeOK, ReadingInv, Stages
<1>4. taken \in 0..Len(wire) /\ taken + count \in taken..Len(wire) /\ taken + count \in 0..Len(wire)
      /\ Len(wire) \in taken + count..Len(wire)
  BY <1>2, <1>3 DEF LeastOf, Wanted
<1>5. PICK came \in Seq(Octets), piece \in Seq(Octets) :
        /\ came = SubSeq(wire, 1, taken) /\ piece = SubSeq(wire, taken + 1, taken + count)
        /\ came \o piece = SubSeq(wire, 1, taken + count)
  BY <1>3, <1>4, Cuts
<1>6. PICK read \in Seq(Octets) : read = buf \o piece
  BY <1>3, Octetwise
<1>7. Got(read) /\ PutBack(read) /\ taken' = taken + count
  BY <1>1, <1>5, <1>6, Zenon
<1>8. WroteInv'
  BY <1>2 DEF DataInv, WroteInv, sending
<1>9. peer = "frames" => Begins(frames, written)
  BY <1>3 DEF DataInv, InOrderInv
<1>10. CASE stage = "sniff"
  <2>1. buf = came /\ frames = <<>>
    BY <1>5, <1>10 DEF DataInv, KeptInv, NothingLost
  <2>2. read = SubSeq(wire, 1, taken')
    BY <1>5, <1>6, <1>7, <2>1
  <2>3. CASE More(read)
    <3>1. stage' = "sniff" /\ buf' = read /\ UNCHANGED <<frames, result>>
      BY <1>10, <2>3 DEF More
    <3>2. KeptInv'
      BY <1>2, <2>1, <2>2, <3>1 DEF KeptInv, NothingLost, sending
    <3>3. CleanEndIsWhole' /\ InOrderInv'
      BY <1>2, <1>3, <1>9, <3>1 DEF CleanEndIsWhole, InOrderInv, sending
    <3> QED
      BY <1>8, <3>2, <3>3 DEF DataInv
  <2>4. CASE Sniffed(read)
    BY <1>2, <1>7, <1>10, <2>2, <2>4, SniffedData
  <2> QED
    BY <1>7, <1>10, <2>3, <2>4 DEF Got
<1>11. CASE stage = "rest"
  <2>1. first = <<>> /\ frames = <<>> /\ buf \o first = came
    BY <1>3, <1>5, <1>11 DEF DataInv, KeptInv, NothingLost
  <2>2. buf = came
    BY <1>3, <2>1, ConcatEmptySeq
  <2>3. read = SubSeq(wire, 1, taken')
    BY <1>5, <1>6, <1>7, <2>2
  <2>4. CASE More(read)
    <3>1. stage' = "rest" /\ buf' = read /\ UNCHANGED <<frames, result>>
      BY <1>11, <2>4 DEF More
    <3>2. first' = <<>>
      BY <1>7, <1>11, <2>1 DEF PutBack
    <3>3. buf' \o first' = SubSeq(wire, 1, taken')
      BY <2>3, <3>1, <3>2, ConcatEmptySeq
    <3>4. KeptInv'
      BY <1>2, <2>1, <3>1, <3>3 DEF KeptInv, NothingLost, sending
    <3>5. CleanEndIsWhole' /\ InOrderInv'
      BY <1>2, <1>3, <1>9, <3>1 DEF CleanEndIsWhole, InOrderInv, sending
    <3> QED
      BY <1>8, <3>4, <3>5 DEF DataInv
  <2>5. CASE Finish("over")
    <3>1. ~IsPrefix(Preface, wire)
      BY <1>11, Opens DEF IInv, OpeningInv
    <3> QED
      BY <1>2, <2>5, <3>1, FinishData DEF Results
  <2> QED
    BY <1>7, <1>11, <2>4, <2>5 DEF Got, Whole
<1>12. CASE stage \in {"header", "body"}
  <2>1. first = <<>> /\ first' = <<>>
    BY <1>3, <1>7, <1>12 DEF PutBack
  <2>2. ReadBack \o first = came
    BY <1>5, <1>12 DEF DataInv, KeptInv, NothingLost
  <2>3. Held(read) = SubSeq(wire, 1, taken') /\ Held(read) \in Seq(Octets)
    <3>1. PICK before \in Seq(Octets), part \in Seq(Octets) :
            /\ before = Preface \o FramedAll(frames)
            /\ part = IF stage = "body" THEN LengthOctets(need) \o buf ELSE buf
            /\ ReadBack = before \o part
      <4>1. LengthOctets(need) \o buf \in Seq(Octets)
        BY <1>3, HeldParts, Octetwise
      <4> QED
        BY <1>3, <4>1, HeldParts DEF ReadBack
    <3>2. before \o part = came
      <4>1. before \o part \in Seq(Octets)
        BY Octetwise
      <4>2. (before \o part) \o <<>> = before \o part
        BY <4>1, ConcatEmptySeq, Zenon
      <4> QED
        BY <2>1, <2>2, <3>1, <4>2
    <3>3. Held(read) = before \o (part \o piece)
      <4>1. CASE stage = "body"
        <5>1. PICK head \in Seq(Octets), held \in Seq(Octets) : head = LengthOctets(need) /\ held = buf
          BY <1>3, HeldParts
        <5>2. (head \o held) \o piece = head \o (held \o piece)
          BY Assoc, Zenon
        <5>3. Held(read) = before \o (head \o read)
          BY <3>1, <4>1, <5>1 DEF Held
        <5>4. part = head \o held /\ read = held \o piece
          BY <1>6, <3>1, <4>1, <5>1
        <5> QED
          BY <5>2, <5>3, <5>4, Zenon
      <4>2. CASE stage = "header"
        BY <1>6, <3>1, <4>2 DEF Held
      <4> QED
        BY <1>12, <4>1, <4>2
    <3>4. (before \o part) \o piece = before \o (part \o piece)
      BY Assoc, Zenon
    <3>5. came \o piece \in Seq(Octets)
      BY Octetwise
    <3> QED
      BY <1>5, <1>7, <3>2, <3>3, <3>4, <3>5, Zenon
  <2>4. ASSUME peer = "frames"
        PROVE  result' # "over" /\ (stage' # "done" => Begins(frames', written))
    <3>1. PICK t \in Seq(Octets) : SubSeq(wire, 1, taken') \o t = wire \o out
      <4>1. PICK x \in Seq(Octets), y \in Seq(Octets), o \in Seq(Octets) :
              /\ x = SubSeq(wire, 1, taken + count) /\ x \o y = wire /\ o = out
        <5> DEFINE n == taken + count
        <5>1. n \in 0..Len(wire) /\ Len(wire) \in n..Len(wire) /\ out \in Seq(Octets)
          BY <1>4 DEF IInv, OctetsTypeOK
        <5> HIDE DEF n
        <5>2. /\ SubSeq(wire, 1, n) \in Seq(Octets) /\ SubSeq(wire, n + 1, Len(wire)) \in Seq(Octets)
              /\ SubSeq(wire, 1, n) \o SubSeq(wire, n + 1, Len(wire)) = SubSeq(wire, 1, Len(wire))
              /\ SubSeq(wire, 1, Len(wire)) = wire
          BY <1>3, <5>1, Cuts, Zenon
        <5> QED
          BY <5>1, <5>2, Zenon DEF n
      <4>2. (x \o y) \o o = x \o (y \o o)
        BY Assoc, Zenon
      <4>3. y \o o \in Seq(Octets)
        BY Octetwise
      <4> QED
        BY <1>7, <4>1, <4>2, <4>3, Zenon
    <3>2. /\ written \in Frames /\ Within(written) /\ Begins(frames, written)
          /\ Held(read) \o t = Preface \o FramedAll(written)
      BY <1>9, <2>3, <2>4, <3>1 DEF DataInv, WroteInv
    <3> QED
      BY <1>7, <1>12, <3>2, GotInOrder
  <2>5. CASE stage' = "done"
    <3>1. PICK how \in {"over"} : Finish(how)
      BY <1>3, <1>7, <1>12, <2>5 DEF Got, Whole, More, Header, Reading
    <3>2. result' = "over"
      BY <3>1 DEF Finish
    <3>3. KeptInv' /\ CleanEndIsWhole'
      BY <2>5, <3>2 DEF KeptInv, NothingLost, CleanEndIsWhole
    <3>4. InOrderInv'
      BY <1>2, <2>4, <3>2 DEF InOrderInv, sending
    <3> QED
      BY <1>8, <3>3, <3>4 DEF DataInv
  <2>6. CASE stage' # "done"
    <3>1. stage' \in {"header", "body"} /\ ReadBack' = Held(read)
      BY <1>7, <1>12, <2>6, GotKeeps
    <3>2. ReadBack' \o first' = SubSeq(wire, 1, taken')
      BY <2>1, <2>3, <3>1, ConcatEmptySeq
    <3>3. result' = "none"
      BY <1>3, <1>7, <1>12, <2>6 DEF Got, Whole, More, Header, Reading, Finish
    <3>4. KeptInv'
      BY <1>2, <2>1, <3>1, <3>2 DEF KeptInv, NothingLost, sending
    <3>5. CleanEndIsWhole' /\ InOrderInv'
      BY <1>2, <2>4, <2>6, <3>3 DEF CleanEndIsWhole, InOrderInv, sending
    <3> QED
      BY <1>8, <3>4, <3>5 DEF DataInv
  <2> QED
    BY <2>5, <2>6
<1> QED
  BY <1>3, <1>10, <1>11, <1>12

\* The socket's read returns the end.
LEMMA ReadEndData ==
  ASSUME IInv, DataInv, ReadEnd
  PROVE  DataInv'
<1>1. OnSocket /\ taken = Len(wire) /\ UNCHANGED <<sending, taken>>
  BY DEF ReadEnd
<1>2. /\ stage \in {"sniff", "header", "body", "rest"} /\ result = "none"
      /\ buf \in Seq(Octets) /\ wire \in Seq(Octets) /\ (stage # "sniff" => first = <<>>)
  <2>1. stage # "preface"
    BY <1>1, PrefaceAssumption DEF OnSocket, Replaying, IInv, OpeningInv
  <2> QED
    BY <1>1, <2>1 DEF OnSocket, Replaying, IInv, OctetsTypeOK, ReadTypeOK, ReadingInv, Stages
<1>3. SubSeq(wire, 1, taken) = wire
  BY <1>1, <1>2, SubSeqFull
<1>4. WroteInv'
  BY <1>1 DEF DataInv, WroteInv, sending
<1>5. PICK before \in Seq(Octets) : before = Preface \o FramedAll(frames)
  BY HeldParts
<1>6. CASE Finish("broken") \/ Finish("nothing")
  BY <1>1, <1>6, FinishData DEF Results
<1>7. CASE fin = "closed" /\ stage = "sniff" /\ Sniffed(buf) /\ PutBack(buf)
  <2>1. buf = SubSeq(wire, 1, taken')
    BY <1>1, <1>7 DEF DataInv, KeptInv, NothingLost
  <2> QED
    BY <1>1, <1>2, <1>7, <2>1, SniffedData
<1>8. CASE fin = "closed" /\ stage = "header" /\ buf = <<>> /\ Finish("clean") /\ UNCHANGED frames
  <2>1. stage' = "done" /\ result' = "clean" /\ fin' = "closed"
    BY <1>1, <1>8 DEF Finish, sending
  <2>2. (before \o <<>>) \o <<>> = wire
    BY <1>2, <1>3, <1>5, <1>8 DEF DataInv, KeptInv, NothingLost, ReadBack
  <2>3. before \o <<>> = before
    BY ConcatEmptySeq, Zenon
  <2>4. Preface \o FramedAll(frames') = wire'
    BY <1>1, <1>5, <1>8, <2>2, <2>3 DEF sending
  <2>5. KeptInv' /\ CleanEndIsWhole'
    BY <2>1, <2>4 DEF KeptInv, NothingLost, CleanEndIsWhole
  <2>6. InOrderInv'
    BY <1>1, <1>8, <2>1 DEF DataInv, InOrderInv, sending
  <2> QED
    BY <1>4, <2>5, <2>6 DEF DataInv
<1>9. CASE fin = "closed" /\ stage = "rest" /\ Finish("whole") /\ frames' = <<buf>>
  <2>1. stage' = "done" /\ result' = "whole" /\ fin' = "closed"
    BY <1>1, <1>9 DEF Finish, sending
  <2>2. buf \o <<>> = wire
    BY <1>2, <1>3, <1>9 DEF DataInv, KeptInv, NothingLost
  <2>3. buf = wire
    BY <1>2, <2>2, ConcatEmptySeq
  <2>4. KeptInv' /\ CleanEndIsWhole' /\ InOrderInv'
    BY <1>1, <1>9, <2>1, <2>3 DEF KeptInv, NothingLost, CleanEndIsWhole, InOrderInv, sending
  <2> QED
    BY <1>4, <2>4 DEF DataInv
<1>10. CASE /\ (stage = "header" /\ buf # <<>>) \/ stage = "body"
            /\ Finish("cut") /\ UNCHANGED frames
  <2>1. stage' = "done" /\ result' = "cut"
    BY <1>10 DEF Finish
  <2>2. PICK part \in Seq(Octets) : Len(part) > 0 /\ before \o part = wire
    <3> DEFINE held == IF stage = "body" THEN LengthOctets(need) \o buf ELSE buf
    <3>1. held \in Seq(Octets) /\ Len(held) > 0
      <4>1. CASE stage = "body"
        <5>1. /\ LengthOctets(need) \o buf \in Seq(Octets)
              /\ Len(LengthOctets(need) \o buf) = HeaderLen + Len(buf) /\ Len(buf) \in Nat
          <6>1. PICK head \in Seq(Octets), end \in Seq(Octets) :
                  head = LengthOctets(need) /\ Len(head) = HeaderLen /\ end = buf
            BY <1>2, HeldParts
          <6>2. head \o end \in Seq(Octets) /\ Len(head \o end) = Len(head) + Len(end) /\ Len(end) \in Nat
            BY Octetwise
          <6> QED
            BY <6>1, <6>2, Zenon
        <5> QED
          BY <4>1, <5>1, Sizes
      <4>2. CASE stage = "header" /\ buf # <<>>
        BY <1>2, <4>2
      <4> QED
        BY <1>10, <4>1, <4>2
    <3>2. (before \o held) \o <<>> = wire
      BY <1>2, <1>3, <1>5, <1>10 DEF DataInv, KeptInv, NothingLost, ReadBack
    <3> HIDE DEF held
    <3>3. before \o held \in Seq(Octets)
      BY <3>1, Octetwise
    <3>4. before \o held = wire
      BY <3>2, <3>3, ConcatEmptySeq
    <3> QED
      BY <3>1, <3>4
  <2>3. before # wire
    <3>1. Len(before \o part) = Len(before) + Len(part) /\ Len(before) \in Nat /\ Len(part) \in Nat
      BY Octetwise
    <3> QED
      BY <2>2, <3>1
  <2>4. Preface \o FramedAll(frames') # wire'
    BY <1>1, <1>5, <1>10, <2>3 DEF sending
  <2>5. KeptInv' /\ CleanEndIsWhole' /\ InOrderInv'
    BY <2>1, <2>4 DEF KeptInv, NothingLost, CleanEndIsWhole, InOrderInv
  <2> QED
    BY <1>4, <2>5 DEF DataInv
<1> QED
  BY <1>2, <1>6, <1>7, <1>8, <1>9, <1>10 DEF ReadEnd, Ended

-----------------------------------------------------------------------------
(* The theorems about what is read.                                        *)

\* Every step keeps what was read and written together.
LEMMA NextData ==
  ASSUME IInv, DataInv, [Next]_vars
  PROVE  DataInv'
<1>1. ASSUME NEW bytes \in BoundedSeq(Octets, MaxBody + 1), Write(bytes)
      PROVE  DataInv'
  BY <1>1, WriteData, Zenon
<1>2. CASE Arrive
  BY <1>2, ArriveData, Zenon
<1>3. CASE Close
  BY <1>3, CloseData, Zenon
<1>4. CASE Ending
  BY <1>4, OtherData DEF Ending
<1>5. CASE Reads
  BY <1>5, ReplayData, ReadData, ReadEndData, ReadTimesOutData, Zenon DEF Reads
<1>6. CASE Over \/ UNCHANGED vars
  BY <1>6, OtherData DEF Over, vars
<1> QED
  BY <1>1, <1>2, <1>3, <1>4, <1>5, <1>6, Zenon DEF Next

\* It holds throughout.
LEMMA DataInvariance == Spec => []DataInv
<1>1. Init => DataInv
  BY InitData
<1>2. IInv /\ DataInv /\ [Next]_vars => DataInv'
  BY NextData
<1> QED
  BY <1>1, <1>2, Invariance, PTL DEF Spec

\* Nothing read is lost, doubled or reordered between the socket and the
\* frames: not by sniff and Replayed (preface.rs), not by a read that returned
\* little or timed out and was tried again (read.rs, watched.rs), not between
\* a header and its body (frame.rs read).
THEOREM NothingReadIsLost == Spec => []NothingLost
<1>1. DataInv => NothingLost
  BY DEF DataInv, KeptInv
<1> QED
  BY <1>1, DataInvariance, PTL

\* None of frame.rs read means that everything that came was frames that came
\* whole, and an error that it was not; to_end gives all that came (read.rs).
THEOREM CleanMeansWhole == Spec => []CleanEndIsWhole
<1>1. DataInv => CleanEndIsWhole
  BY DEF DataInv
<1> QED
  BY <1>1, DataInvariance, PTL

\* What frame.rs write wrote, frame.rs read reads: the same frames in the same
\* order, none refused as over MAX_BODY, and all of them where the end was
\* clean and all was delivered.
THEOREM ReadAsWritten == Spec => []FramesAsWritten
<1>1. IInv /\ DataInv => FramesAsWritten
  <2>1. SUFFICES ASSUME IInv, DataInv, peer = "frames"
                 PROVE  /\ stage # "done" \/ result = "clean" => IsPrefix(frames, written)
                        /\ result = "clean" /\ out = <<>> => frames = written
                        /\ result = "over" => ~IsPrefix(Preface, wire)
    BY DEF FramesAsWritten
  <2>2. /\ frames \in Frames /\ written \in Frames /\ wire \o out = Preface \o FramedAll(written)
        /\ wire \in Seq(Octets)
    BY <2>1, HeldParts DEF DataInv, WroteInv, IInv, OctetsTypeOK
  <2>3. stage # "done" \/ result = "clean" => Begins(frames, written)
    BY <2>1 DEF DataInv, InOrderInv
  <2>4. Begins(frames, written) => IsPrefix(frames, written)
    BY <2>2, PrefixByOctet DEF Begins, Frames
  <2>5. ASSUME result = "clean", out = <<>>
        PROVE  frames = written
    <3>1. wire = Preface \o FramedAll(frames) /\ wire = Preface \o FramedAll(written)
      BY <2>1, <2>2, <2>5, ConcatEmptySeq DEF DataInv, CleanEndIsWhole
    <3>2. PICK read \in Seq(Octets), all \in Seq(Octets) :
            read = FramedAll(frames) /\ all = FramedAll(written)
      BY <2>2, FramesJoin
    <3>3. read = all
      BY <3>1, <3>2, Sizes, EqualParts, Zenon
    <3>4. Begins(frames, written) /\ Len(frames) \in Nat /\ Len(written) \in Nat
      BY <2>2, <2>3, <2>5 DEF Frames
    <3>5. ~(Len(frames) < Len(written))
      <4>1. SUFFICES ASSUME Len(frames) < Len(written) PROVE FALSE
        OBVIOUS
      <4>2. PICK bytes \in Seq(Octets) : bytes = written[Len(frames) + 1]
        <5>1. Len(frames) + 1 \in 1..Len(written)
          BY <3>4, <4>1
        <5> QED
          BY <2>2, <5>1 DEF Frames
      <4>3. PICK one \in Seq(Octets), t \in Seq(Octets) :
              one = Framed(bytes) /\ all = (read \o one) \o t /\ Len(one) > 0
        <5>1. PICK t \in Seq(Octets) : FramedAll(written) = (FramedAll(frames) \o Framed(bytes)) \o t
          BY <2>2, <3>4, <4>1, <4>2, FramesSplit
        <5>2. Framed(bytes) \in Seq(Octets) /\ Len(Framed(bytes)) > 0
          BY FramedType, Sizes
        <5> QED
          BY <3>2, <5>1, <5>2
      <4>4. PICK two \in Seq(Octets) : two = read \o one /\ Len(two) = Len(read) + Len(one)
        BY Octetwise
      <4>5. Len(all) = Len(two) + Len(t)
        BY <4>3, <4>4, Octetwise
      <4> QED
        BY <3>3, <4>3, <4>4, <4>5
    <3>6. Len(frames) = Len(written)
      BY <3>4, <3>5 DEF Begins
    <3> QED
      BY <2>2, <3>4, <3>6, SeqEqual, Zenon DEF Begins, Frames
  <2> QED
    BY <2>1, <2>3, <2>4, <2>5 DEF DataInv, InOrderInv
<1> QED
  BY <1>1, Invariance, DataInvariance, PTL
=============================================================================
