----------------------- MODULE BitfieldAndSieveProofs -----------------------
(***************************************************************************)
(* What is proved of the jobs of the prime generator's thread and of the   *)
(* bitfield.                                                               *)
(*                                                                         *)
(* The jobs, for every size of a job and any number of jobs: the list      *)
(* ascends and misses no prime, and the passes clear no bit at all: the    *)
(* list is that of the odd numbers.                                        *)
(*                                                                         *)
(* The bitfield, for every length of a block and both sizes of a word: its *)
(* operations are those of a set of numbers, and a visit calls for the     *)
(* selected bits, once each and in ascending order.                        *)
(***************************************************************************)
EXTENDS PrimeSieveJobs, Bitfield, FiniteSetTheorems, SequenceTheorems, WellFoundedInduction, TLAPS

(* Induction over a set: a least number outside it would follow one inside. *)
LEMMA Induction ==
  ASSUME NEW S, 0 \in S, \A i \in Nat : i \in S => i + 1 \in S
  PROVE  Nat \subseteq S
<1> DEFINE T == Nat \ S
<1>1. SUFFICES ASSUME T # {} PROVE FALSE
  OBVIOUS
<1>2. PICK m \in T : \A i \in T : <<i, m>> \notin OpToRel(<, Nat)
  BY <1>1, WFMin, NatLessThanWellFounded, Zenon
<1>3. \A i \in T : ~(i < m)
  BY <1>2 DEF OpToRel
<1>4. m - 1 \in Nat /\ m - 1 \in S
  <2>1. m \in Nat /\ m # 0
    OBVIOUS
  <2>2. QED
    BY <1>3, <2>1
<1>5. QED
  BY <1>4
-----------------------------------------------------------------------------
RootOf(r, a) == r * r - r < a /\ a <= r * r + r

LEMMA SqrtRoundedIs ==
  ASSUME NEW a \in Nat, a >= 1
  PROVE  SqrtRounded(a) \in Nat /\ RootOf(SqrtRounded(a), a)
<1> DEFINE S == {b \in Nat : \E r \in 0..(b + 1) : RootOf(r, b + 1)}
<1>1. 0 \in S
  <2>1. 1 \in 0..(0 + 1) /\ RootOf(1, 0 + 1)
    BY DEF RootOf
  <2>2. QED
    BY <2>1
<1>2. ASSUME NEW b \in Nat, b \in S PROVE b + 1 \in S
  <2>1. PICK r \in 0..(b + 1) : RootOf(r, b + 1)
    BY <1>2
  <2>2. PICK q \in Nat : q = r * r
    BY <2>1
  <2>3. q - r < b + 1 /\ b + 1 <= q + r
    BY <2>1, <2>2 DEF RootOf
  <2>4. CASE b + 2 <= q + r
    <3>1. RootOf(r, (b + 1) + 1) /\ r \in 0..((b + 1) + 1)
      BY <2>2, <2>3, <2>4 DEF RootOf
    <3>2. QED
      BY <3>1
  <2>5. CASE ~(b + 2 <= q + r)
    <3>1. (r + 1) * (r + 1) = q + 2 * r + 1
      BY <2>2
    <3>2. RootOf(r + 1, (b + 1) + 1) /\ r + 1 \in 0..((b + 1) + 1)
      BY <2>3, <2>5, <3>1 DEF RootOf
    <3>3. QED
      BY <3>2
  <2>6. QED
    BY <2>4, <2>5
<1> HIDE DEF S
<1>3. a - 1 \in S
  BY <1>1, <1>2, Induction
<1>4. \E r \in 0..a : RootOf(r, a)
  <2>1. (a - 1) + 1 = a
    OBVIOUS
  <2>2. \E r \in 0..((a - 1) + 1) : RootOf(r, (a - 1) + 1)
    BY <1>3 DEF S
  <2>3. QED
    BY Zenon, <2>1, <2>2
<1>5. SqrtRounded(a) \in 0..a /\ RootOf(SqrtRounded(a), a)
  BY <1>4, Zenon DEF SqrtRounded, RootOf
<1>6. QED
  BY <1>5

(* A number above the root has no multiple by itself up to the end. *)
LEMMA NothingAbove ==
  ASSUME NEW last \in Nat, last >= 1, NEW p \in Nat, p > SqrtRounded(last), NEW first
  PROVE  ClearedBy(p, first, last) = {}
<1>1. PICK r \in Nat : r = SqrtRounded(last) /\ last <= r * r + r
  BY SqrtRoundedIs DEF RootOf
<1>2. p >= r + 1
  BY <1>1
<1>3. p * p >= (r + 1) * (r + 1)
  BY <1>2
<1>4. p * p > last
  <2>1. (r + 1) * (r + 1) = r * r + 2 * r + 1
    OBVIOUS
  <2>2. r * r \in Nat /\ p * p \in Nat
    OBVIOUS
  <2>3. QED
    BY <1>1, <1>3, <2>1, <2>2
<1>5. ASSUME NEW q \in Nat, q = last \div p, p <= q PROVE FALSE
  <2>1. q * p <= last
    BY <1>2, <1>5
  <2>2. p * p <= q * p
    BY <1>5
  <2>3. QED
    BY <1>4, <2>1, <2>2
<1>6. last \div p \in Nat
  BY <1>2
<1>7. p..(last \div p) = {}
  BY <1>5, <1>6
<1>8. QED
  BY <1>7 DEF ClearedBy

LEMMA PreClearsNothing ==
  ASSUME NEW l, NEW len \in Nat, \A i \in 3..len : l[i] \in Nat, NEW first, NEW last \in Nat, last >= 1
  PROVE  PreCleared(l, len, first, last, SqrtRounded(last)) = {}
<1> DEFINE used == {i \in 3..len : \A j \in 3..i : l[j] > SqrtRounded(last)}
<1>1. ASSUME NEW i \in used PROVE ClearedBy(l[i], first, last) = {}
  <2>1. i \in 3..len /\ i \in 3..i
    OBVIOUS
  <2>2. l[i] \in Nat /\ l[i] > SqrtRounded(last)
    BY <2>1
  <2>3. QED
    BY <2>2, NothingAbove
<1>2. QED
  BY <1>1 DEF PreCleared

LEMMA MainClearsNothing ==
  ASSUME NEW bits, NEW first \in Nat, NEW last \in Nat, last >= 1, NEW m \in Nat
  PROVE  LET main == MainPass(bits, first, last, SqrtRounded(last), m)
         IN  main.set = bits /\ main.cleared = {}
<1> DEFINE fast == SqrtRounded(last)
           step(prev, i) ==
             LET p == first + 2 * (i - 1)
                 hits == ClearedBy(p, first, last)
             IN  IF prev.stop \/ (i - 1) \notin prev.set THEN prev
                 ELSE IF p <= fast THEN [prev EXCEPT !.stop = TRUE]
                 ELSE [prev EXCEPT !.set = @ \ hits, !.cleared = @ \cup hits]
           begin == [set |-> bits, cleared |-> {}, stop |-> FALSE]
           halted == [set |-> bits, cleared |-> {}, stop |-> TRUE]
           Steps(f) == f = [i \in 0..m |-> IF i = 0 THEN begin ELSE step(f[i - 1], i)]
           halts(i) == (i - 1) \in bits /\ first + 2 * (i - 1) <= fast
           Halted(i) == \E k \in 1..i : halts(k)
           g == [i \in 0..m |-> IF Halted(i) THEN halted ELSE begin]
           f == CHOOSE h : Steps(h)
<1>1. fast \in Nat
  BY SqrtRoundedIs
<1>2. ASSUME NEW i \in 1..m
      PROVE  /\ step(halted, i) = halted
             /\ halts(i) => step(begin, i) = halted
             /\ ~halts(i) => step(begin, i) = begin
  <2> DEFINE p == first + 2 * (i - 1)
             hits == ClearedBy(p, first, last)
  <2>1. p \in Nat
    OBVIOUS
  <2>2. p > fast => hits = {}
    BY <2>1, NothingAbove
  <2> HIDE DEF hits, fast, p
  <2>3. step(halted, i) = halted
    OBVIOUS
  <2>4. ASSUME (i - 1) \notin bits PROVE step(begin, i) = begin
    BY <2>4
  <2>5. ASSUME (i - 1) \in bits, p <= fast PROVE step(begin, i) = halted
    BY <2>5 DEF p
  <2>6. ASSUME (i - 1) \in bits, ~(p <= fast) PROVE step(begin, i) = begin
    <3>1. hits = {}
      BY <1>1, <2>1, <2>2, <2>6
    <3>2. step(begin, i) = [begin EXCEPT !.set = @ \ hits, !.cleared = @ \cup hits]
      BY Zenon, <2>6 DEF p, hits
    <3> HIDE DEF step
    <3>3. [begin EXCEPT !.set = @ \ hits, !.cleared = @ \cup hits] = begin
      BY <3>1
    <3>4. QED
      BY Zenon, <3>2, <3>3
  <2>7. halts(i) <=> (i - 1) \in bits /\ p <= fast
    BY DEF p
  <2> HIDE DEF step, begin, halted, halts
  <2>8. QED
    BY <2>3, <2>4, <2>5, <2>6, <2>7
<1>3. \A i \in 1..m : Halted(i) <=> Halted(i - 1) \/ halts(i)
  <2> HIDE DEF halts
  <2> TAKE i \in 1..m
  <2>1. \A k : k \in 1..i <=> k \in 1..(i - 1) \/ k = i
    OBVIOUS
  <2>2. QED
    BY <2>1
<1>0. ~Halted(0)
  OBVIOUS
<1> HIDE DEF step, begin, halted, halts, Halted
<1>4. Steps(g)
  <2>1. ASSUME NEW i \in 0..m PROVE g[i] = IF i = 0 THEN begin ELSE step(g[i - 1], i)
    <3>1. g[i] = IF Halted(i) THEN halted ELSE begin
      OBVIOUS
    <3>2. CASE i = 0
      BY <1>0, <3>1, <3>2
    <3>3. CASE i # 0
      <4>1. i \in 1..m /\ i - 1 \in 0..m
        BY <3>3
      <4>2. g[i - 1] = IF Halted(i - 1) THEN halted ELSE begin
        BY <4>1
      <4> HIDE DEF g
      <4>3. CASE Halted(i - 1)
        BY <1>2, <1>3, <3>1, <3>3, <4>1, <4>2, <4>3
      <4>4. CASE ~Halted(i - 1)
        BY <1>2, <1>3, <3>1, <3>3, <4>1, <4>2, <4>4
      <4>5. QED
        BY <4>3, <4>4
    <3>4. QED
      BY <3>2, <3>3
  <2>2. g = [i \in 0..m |-> g[i]]
    OBVIOUS
  <2> HIDE DEF g
  <2>3. g = [i \in 0..m |-> IF i = 0 THEN begin ELSE step(g[i - 1], i)]
    BY <2>1, <2>2
  <2>4. QED
    BY <2>3
<1>5. Steps(f)
  <2> HIDE DEF Steps, g
  <2>1. QED
    BY <1>4
<1> HIDE DEF f, g
<1>6. f = [i \in 0..m |-> IF i = 0 THEN begin ELSE step(f[i - 1], i)]
  BY <1>5
<1> HIDE DEF Steps
<1>7. f[0] = begin /\ \A i \in 1..m : f[i] = step(f[i - 1], i)
  <2>1. 0 \in 0..m /\ \A i \in 1..m : i \in 0..m /\ i # 0
    OBVIOUS
  <2>2. \A i \in 0..m : f[i] = IF i = 0 THEN begin ELSE step(f[i - 1], i)
    BY Zenon, <1>6
  <2>3. QED
    BY Zenon, <2>1, <2>2
<1> DEFINE S == {i \in Nat : i <= m => f[i] \in {begin, halted}}
<1>8. 0 \in S
  BY <1>7
<1>9. ASSUME NEW i \in Nat, i \in S PROVE i + 1 \in S
  <2>1. CASE i + 1 <= m
    <3>1. f[i] \in {begin, halted}
      BY <1>9, <2>1
    <3>2. PICK j \in 1..m : j = i + 1 /\ j - 1 = i
      BY <2>1
    <3>3. f[j] = step(f[i], j)
      BY Zenon, <1>7, <3>2
    <3>4. f[j] \in {begin, halted}
      BY <1>2, <3>1, <3>3
    <3>5. QED
      BY <3>2, <3>4
  <2>2. QED
    BY <2>1
<1> HIDE DEF S
<1>10. f[m] \in {begin, halted}
  <2>1. m \in S
    BY <1>8, <1>9, Induction
  <2>2. QED
    BY <2>1 DEF S
<1>11. f[m].set = bits /\ f[m].cleared = {}
  BY <1>10 DEF begin, halted
<1>12. MainPass(bits, first, last, fast, m) = f[m]
  BY Zenon DEF MainPass, f, step, begin, Steps
<1>13. QED
  BY <1>11, <1>12
-----------------------------------------------------------------------------
AllBits(m) == 0..(m - 1)
AllStay(found, m) == found.bits = AllBits(m) /\ found.cleared = {}
Positive == Nat \ {0}
NumbersIn(l, len) == \A i \in 3..len : l[i] \in Nat

LEMMA SievesNothing ==
  ASSUME NEW l, NEW len \in Nat, NumbersIn(l, len),
         NEW first \in Nat, NEW last \in Positive, NEW m \in Nat
  PROVE  AllStay(Sieve(l, len, first, last, m), m)
<1> DEFINE main == MainPass(0..(m - 1), first, last, SqrtRounded(last), m)
<1>1. PreCleared(l, len, first, last, SqrtRounded(last)) = {}
  BY PreClearsNothing DEF NumbersIn, Positive
<1>2. main.set = 0..(m - 1) /\ main.cleared = {}
  <2>1. last \in Nat /\ last >= 1
    BY DEF Positive
  <2>2. QED
    BY Zenon, <2>1, MainClearsNothing
<1>3. (0..(m - 1)) \ {} = 0..(m - 1)
  OBVIOUS
<1> HIDE DEF main
<1>4. Sieve(l, len, first, last, m) = [bits |-> main.set, cleared |-> {} \cup main.cleared]
  BY Zenon, <1>1, <1>3 DEF Sieve, main
<1>5. QED
  BY <1>2, <1>4 DEF AllBits, AllStay

(* Every number of the range is extracted, in ascending order. *)
LEMMA AllExtracted ==
  ASSUME NEW first \in Nat, NEW m \in Nat
  PROVE  Extracted(first, AllBits(m)) = [i \in 1..m |-> first + 2 * (i - 1)]
<1> DEFINE below(b) == {c \in 0..(m - 1) : c < b}
<1>1. ASSUME NEW k \in Nat PROVE Cardinality(0..(k - 1)) = k
  <2>1. 0 \in Int /\ k - 1 \in Int
    OBVIOUS
  <2>2. Cardinality(0..(k - 1)) = IF 0 > k - 1 THEN 0 ELSE (k - 1) - 0 + 1
    BY <2>1, FS_Interval
  <2>3. QED
    BY <2>2
<1>2. ASSUME NEW b \in 0..(m - 1) PROVE Cardinality(below(b)) = b
  <2>1. below(b) = 0..(b - 1)
    OBVIOUS
  <2> HIDE DEF below
  <2>2. QED
    BY <1>1, <2>1
<1> HIDE DEF below
<1>3. ASSUME NEW i \in 1..m PROVE NthBit(0..(m - 1), i) = i - 1
  <2>1. i - 1 \in 0..(m - 1) /\ Cardinality(below(i - 1)) = i - 1
    BY <1>2
  <2>2. \A b \in 0..(m - 1) : Cardinality(below(b)) = i - 1 => b = i - 1
    BY <1>2
  <2>3. NthBit(0..(m - 1), i) = CHOOSE b \in 0..(m - 1) : Cardinality(below(b)) = i - 1
    BY Zenon DEF NthBit, below
  <2>4. QED
    BY <2>1, <2>2, <2>3
<1>4. Cardinality(0..(m - 1)) = m
  BY <1>1
<1>5. QED
  BY <1>3, <1>4 DEF Extracted, BitValue, AllBits
-----------------------------------------------------------------------------
(* After the four static numbers, every odd number up to the end. *)
OddsUpTo(h) == [i \in 1..(h + 1) |-> IF i <= 2 THEN i ELSE 2 * i - 3]

Listed(h) == h >= 3 /\ covered = 2 * h /\ list = OddsUpTo(h)

JobsInv == n \in Nat \ {0} /\ cleared = {} /\ \E h \in Nat : Listed(h)

LEMMA JobsStart == ASSUME SieveInit PROVE JobsInv
<1>1. n \in Nat \ {0} /\ cleared = {} /\ covered = 6 /\ list = <<1, 2, 3, 5>>
  BY JobSizesAssumption DEF SieveInit, STATIC_END, StaticPrimes
<1>2. list = OddsUpTo(3)
  BY <1>1 DEF OddsUpTo
<1>3. 3 \in Nat /\ Listed(3)
  BY <1>1, <1>2 DEF Listed
<1>4. QED
  BY <1>1, <1>3 DEF JobsInv

LEMMA OddsUpToIs ==
  ASSUME NEW h \in Nat
  PROVE  /\ OddsUpTo(h) \in Seq(Nat)
         /\ Len(OddsUpTo(h)) = h + 1
         /\ \A i \in 1..(h + 1) : OddsUpTo(h)[i] = IF i <= 2 THEN i ELSE 2 * i - 3
<1>1. \A i \in 1..(h + 1) : (IF i <= 2 THEN i ELSE 2 * i - 3) \in Nat
  OBVIOUS
<1>2. QED
  BY <1>1 DEF OddsUpTo

LEMMA RunIs ==
  ASSUME NEW a \in Nat, NEW m \in Nat
  PROVE  LET t == [i \in 1..m |-> a + 2 * (i - 1)]
         IN  t \in Seq(Nat) /\ Len(t) = m /\ \A i \in 1..m : t[i] = a + 2 * (i - 1)
<1>1. \A i \in 1..m : a + 2 * (i - 1) \in Nat
  OBVIOUS
<1>2. QED
  BY <1>1

(* What a job appends continues the odd numbers of the list. *)
LEMMA OddsContinue ==
  ASSUME NEW h \in Nat, h >= 3, NEW m \in Nat
  PROVE  OddsUpTo(h) \o [i \in 1..m |-> (2 * h + 1) + 2 * (i - 1)] = OddsUpTo(h + m)
<1>1. PICK s \in Seq(Nat) : s = OddsUpTo(h) /\ Len(s) = h + 1
                             /\ \A i \in 1..(h + 1) : s[i] = IF i <= 2 THEN i ELSE 2 * i - 3
  BY Zenon, OddsUpToIs
<1>2. 2 * h + 1 \in Nat
  OBVIOUS
<1>3. PICK t \in Seq(Nat) : /\ t = [i \in 1..m |-> (2 * h + 1) + 2 * (i - 1)]
                             /\ Len(t) = m
                             /\ \A i \in 1..m : t[i] = (2 * h + 1) + 2 * (i - 1)
  BY Zenon, <1>2, RunIs
<1>4. PICK k \in Nat : k = (h + m) + 1
  OBVIOUS
<1>5. /\ s \o t \in Seq(Nat)
      /\ Len(s \o t) = k
      /\ \A i \in 1..k : (s \o t)[i] = IF i <= h + 1 THEN s[i] ELSE t[i - (h + 1)]
  <2>1. /\ Len(s \o t) = Len(s) + Len(t)
        /\ \A i \in 1..(Len(s) + Len(t)) :
             (s \o t)[i] = IF i <= Len(s) THEN s[i] ELSE t[i - Len(s)]
    BY ConcatProperties
  <2>2. Len(s) + Len(t) = k /\ s \o t \in Seq(Nat)
    BY <1>1, <1>3, <1>4
  <2>3. QED
    BY <1>1, <2>1, <2>2
<1>6. \A i \in 1..k : (s \o t)[i] = IF i <= 2 THEN i ELSE 2 * i - 3
  <2>1. ASSUME NEW i \in 1..k PROVE (s \o t)[i] = IF i <= 2 THEN i ELSE 2 * i - 3
    <3>1. CASE i <= h + 1
      BY <1>1, <1>4, <1>5, <3>1
    <3>2. CASE ~(i <= h + 1)
      <4>1. i - (h + 1) \in 1..m /\ ~(i <= 2)
        BY <1>4, <3>2
      <4>2. (s \o t)[i] = t[i - (h + 1)]
        BY <1>5, <3>2
      <4>3. t[i - (h + 1)] = 2 * i - 3
        BY <1>3, <4>1
      <4>4. QED
        BY <4>1, <4>2, <4>3
    <3>3. QED
      BY <3>1, <3>2
  <2>2. QED
    BY <2>1
<1>7. s \o t = [i \in 1..k |-> IF i <= 2 THEN i ELSE 2 * i - 3]
  <2>1. PICK c \in Seq(Nat) : c = s \o t
    BY <1>5
  <2>2. c = [i \in 1..Len(c) |-> c[i]]
    <3>1. c \in [1..Len(c) -> Nat]
      BY LenProperties
    <3>2. QED
      BY Zenon, <3>1
  <2>3. Len(c) = k /\ \A i \in 1..k : c[i] = IF i <= 2 THEN i ELSE 2 * i - 3
    BY Zenon, <1>5, <1>6, <2>1
  <2>4. c = [i \in 1..k |-> c[i]]
    BY Zenon, <2>2, <2>3
  <2>5. QED
    BY <2>1, <2>3, <2>4
<1>8. QED
  BY <1>1, <1>3, <1>4, <1>7 DEF OddsUpTo

(* One job over a list of odd numbers, as numbers: all of the range stays. *)
LEMMA OneJob ==
  ASSUME NEW h \in Nat, h >= 3, NEW m \in Nat
  PROVE  LET l == OddsUpTo(h)
             first == 2 * h + 1
             found == Sieve(l, h + 1, first, 2 * (h + m), m)
         IN  /\ found.cleared = {}
             /\ l \o Extracted(first, found.bits) = OddsUpTo(h + m)
<1>1. PICK l : l = OddsUpTo(h) /\ \A i \in 3..(h + 1) : l[i] \in Nat
  <2>1. PICK l : l = OddsUpTo(h) /\ \A i \in 1..(h + 1) : l[i] = IF i <= 2 THEN i ELSE 2 * i - 3
    BY Zenon, OddsUpToIs
  <2>2. \A i \in 3..(h + 1) : l[i] \in Nat
    BY <2>1
  <2>3. QED
    BY Zenon, <2>1, <2>2
<1>2. PICK first \in Nat : first = 2 * h + 1
  OBVIOUS
<1>3. PICK last \in Nat \ {0} : last = 2 * (h + m)
  OBVIOUS
<1>4. PICK len \in Nat : len = h + 1
  OBVIOUS
<1>5. NumbersIn(l, len)
  BY Zenon, <1>1, <1>4 DEF NumbersIn
<1>6. PICK found : found = Sieve(l, len, first, last, m)
  OBVIOUS
<1>7. found.bits = AllBits(m) /\ found.cleared = {}
  <2>1. first \in Nat /\ len \in Nat
    BY <1>2, <1>4
  <2>2. last \in Positive
    BY <1>3 DEF Positive
  <2>3. AllStay(Sieve(l, len, first, last, m), m)
    BY Zenon, <1>5, <2>1, <2>2, SievesNothing
  <2>4. QED
    BY Zenon, <1>6, <2>3 DEF AllStay
<1>8. Extracted(first, found.bits) = [i \in 1..m |-> first + 2 * (i - 1)]
  BY Zenon, <1>7, AllExtracted
<1>9. l \o Extracted(first, found.bits) = OddsUpTo(h + m)
  BY Zenon, <1>1, <1>2, <1>8, OddsContinue
<1>10. QED
  BY Zenon, <1>1, <1>2, <1>3, <1>4, <1>6, <1>7, <1>9

LEMMA JobsStep == ASSUME JobsInv, Job PROVE JobsInv'
<1>1. PICK h \in Nat : Listed(h)
  BY DEF JobsInv
<1>2. n \in Nat \ {0} /\ h >= 3 /\ covered = 2 * h /\ list = OddsUpTo(h) /\ n' = n
  BY <1>1 DEF JobsInv, Listed, Job
<1>3. PICK m \in Nat : m = n
  BY <1>2
<1>4. JobStart(covered) = 2 * h + 1 /\ JobEnd(covered, n) = 2 * (h + m)
  BY <1>2, <1>3 DEF JobStart, JobEnd
<1>5. PICK l : l = OddsUpTo(h) /\ Len(l) = h + 1
  BY Zenon, OddsUpToIs
<1>6. /\ covered' = 2 * (h + m)
      /\ list' = l \o Extracted(2 * h + 1, Sieve(l, h + 1, 2 * h + 1, 2 * (h + m), m).bits)
      /\ cleared' = Sieve(l, h + 1, 2 * h + 1, 2 * (h + m), m).cleared
  BY Zenon, <1>2, <1>3, <1>4, <1>5 DEF Job
<1>7. cleared' = {} /\ list' = OddsUpTo(h + m)
  BY Zenon, <1>2, <1>5, <1>6, OneJob
<1>8. h + m \in Nat /\ h + m >= 3
  BY <1>2
<1>9. Listed(h + m)'
  BY <1>6, <1>7, <1>8 DEF Listed
<1>10. QED
  BY <1>2, <1>7, <1>8, <1>9 DEF JobsInv

LEMMA JobsKeep == ASSUME JobsInv, [Job]_sievevars PROVE JobsInv'
<1>1. CASE Job
  BY <1>1, JobsStep
<1>2. CASE UNCHANGED sievevars
  BY <1>2 DEF sievevars, JobsInv, Listed
<1>3. QED
  BY <1>1, <1>2

(* No job of any size clears a bit: with the tests against the square root  *)
(* inverted (PrimeGenerator.c, lines 112 and 131), each pass ends at the    *)
(* first prime it could use, or has only primes without a multiple in the   *)
(* range.  The sieve publishes every odd number.                            *)
THEOREM ClearsNothing == SieveSpec => [](cleared = {})
<1>1. JobsInv => cleared = {}
  BY DEF JobsInv
<1>2. QED
  BY JobsStart, JobsKeep, <1>1, PTL DEF SieveSpec

(* After any number of jobs of any size, the list ascends and has every     *)
(* prime up to the end of the last range.                                   *)
THEOREM EachPrimeOnceHolds == SieveSpec => []EachPrimeOnce
<1>1. ASSUME JobsInv PROVE EachPrimeOnce
  <2>1. PICK h \in Nat : h >= 3 /\ covered = 2 * h /\ list = OddsUpTo(h)
    BY <1>1 DEF JobsInv, Listed
  <2>2. Len(list) = h + 1 /\ \A i \in 1..(h + 1) : list[i] = IF i <= 2 THEN i ELSE 2 * i - 3
    BY <2>1 DEF OddsUpTo
  <2>3. ASSUME NEW p \in 2..covered, IsPrime(p) PROVE \E i \in 1..Len(list) : list[i] = p
    <3>1. CASE p = 2
      BY <2>1, <2>2, <3>1
    <3>2. CASE p # 2
      <4>1. p % 2 # 0
        <5>1. 2 \in 2..(p - 1)
          BY <2>1, <3>2
        <5>2. QED
          BY <2>3, <5>1 DEF IsPrime
      <4>2. PICK i \in Nat : p = 2 * i - 3 /\ i >= 3
        <5>1. (p + 3) \div 2 \in Nat /\ p = 2 * ((p + 3) \div 2) - 3 /\ (p + 3) \div 2 >= 3
          BY <2>1, <3>2, <4>1
        <5>2. QED
          BY <5>1
      <4>3. i \in 1..(h + 1)
        BY <2>1, <4>2
      <4>4. list[i] = p
        BY <2>2, <4>2, <4>3
      <4>5. QED
        BY <2>2, <4>3, <4>4
    <3>3. QED
      BY <3>1, <3>2
  <2>4. StrictlyAscending
    BY <2>1, <2>2 DEF StrictlyAscending
  <2>5. QED
    BY <2>3, <2>4 DEF EachPrimeOnce, NoPrimeMissed
<1>2. QED
  BY JobsStart, JobsKeep, <1>1, PTL DEF SieveSpec
-----------------------------------------------------------------------------
(* A bit's place: its word and its position in the word. *)
LEMMA PlaceOf ==
  ASSUME NEW width \in Nat \ {0}, NEW i \in Nat
  PROVE  /\ i \div width \in Nat /\ i % width \in 0..(width - 1)
         /\ i = (i \div width) * width + (i % width)
OBVIOUS

LEMMA Placed ==
  ASSUME NEW width \in Nat \ {0}, NEW q \in Nat, NEW r \in 0..(width - 1)
  PROVE  (q * width + r) \div width = q /\ (q * width + r) % width = r
OBVIOUS

LEMMA PlaceBelow ==
  ASSUME NEW width \in Nat \ {0}, NEW q \in Nat, NEW r \in 0..(width - 1), NEW m \in Nat
  PROVE  q * width + r < m * width <=> q < m
<1>1. CASE q < m
  <2>1. PICK d \in Nat : m = q + 1 + d
    BY <1>1
  <2>2. m * width = q * width + width + d * width /\ d * width \in Nat /\ q * width \in Nat
    BY <2>1
  <2>3. QED
    BY <1>1, <2>2
<1>2. CASE ~(q < m)
  <2>1. PICK d \in Nat : q = m + d
    BY <1>2
  <2>2. q * width = m * width + d * width /\ d * width \in Nat /\ m * width \in Nat
    BY <2>1
  <2>3. QED
    BY <1>2, <2>2
<1>3. QED
  BY <1>1, <1>2
-----------------------------------------------------------------------------
(* The words are sets of positions, as many as the block is long. *)
FieldInv == /\ sizeT \in {4, 8}
            /\ \E m \in Nat : data \in [0..(m - 1) -> SUBSET SIZE_MAX]

Shaped(m) == /\ m \in Nat /\ WordBits \in Nat \ {0}
             /\ data \in [0..(m - 1) -> SUBSET SIZE_MAX]
             /\ Cardinality(DOMAIN data) = m
             /\ Bits = 0..(m * WordBits - 1)
             /\ Cardinality(Bits) = m * WordBits

LEMMA WordBitsIs == ASSUME sizeT \in {4, 8} PROVE WordBits \in Nat \ {0}
BY FieldAssumption DEF WordBits

LEMMA CountTo == ASSUME NEW m \in Nat PROVE IsFiniteSet(0..(m - 1)) /\ Cardinality(0..(m - 1)) = m
<1>1. 0 \in Int /\ m - 1 \in Int
  OBVIOUS
<1>2. IsFiniteSet(0..(m - 1)) /\ Cardinality(0..(m - 1)) = IF 0 > m - 1 THEN 0 ELSE (m - 1) - 0 + 1
  BY <1>1, FS_Interval
<1>3. QED
  BY <1>2

LEMMA ShapeIs == ASSUME FieldInv PROVE \E m \in Nat : Shaped(m)
<1>1. WordBits \in Nat \ {0}
  BY WordBitsIs DEF FieldInv
<1>2. PICK m \in Nat : data \in [0..(m - 1) -> SUBSET SIZE_MAX]
  BY DEF FieldInv
<1>3. DOMAIN data = 0..(m - 1) /\ Cardinality(DOMAIN data) = m
  BY <1>2, CountTo
<1>4. PICK k \in Nat : k = m * WordBits
  BY <1>1
<1>5. Bits = 0..(k - 1) /\ Cardinality(Bits) = k
  <2>1. Bits = 0..(k - 1)
    BY <1>3, <1>4 DEF Bits
  <2>2. QED
    BY <2>1, CountTo
<1>6. QED
  BY <1>1, <1>2, <1>3, <1>4, <1>5 DEF Shaped

LEMMA PlacesIn ==
  ASSUME NEW m, Shaped(m), NEW i \in Bits
  PROVE  /\ i \in Nat
         /\ i \div WordBits \in 0..(m - 1) /\ i % WordBits \in SIZE_MAX
         /\ i = (i \div WordBits) * WordBits + (i % WordBits)
<1>1. PICK width \in Nat \ {0} : width = WordBits
  BY DEF Shaped
<1>2. m \in Nat /\ m * width \in Nat /\ i \in 0..(m * width - 1)
  BY <1>1 DEF Shaped
<1>3. i \in Nat /\ i < m * width
  BY <1>2
<1>4. PICK q \in Nat, r \in Nat : q = i \div width /\ r = i % width
  <2>1. i \div width \in Nat /\ i % width \in 0..(width - 1)
    BY <1>3, PlaceOf
  <2>2. i % width \in Nat
    BY <2>1
  <2>3. QED
    BY Zenon, <2>1, <2>2
<1>5. r \in 0..(width - 1) /\ i = q * width + r
  BY <1>3, <1>4, PlaceOf
<1>6. q < m
  BY <1>2, <1>3, <1>5, PlaceBelow
<1>7. QED
  BY <1>1, <1>2, <1>3, <1>4, <1>5, <1>6 DEF SIZE_MAX

LEMMA SamePlace ==
  ASSUME NEW m, Shaped(m), NEW i \in Bits, NEW j \in Bits,
         i \div WordBits = j \div WordBits, i % WordBits = j % WordBits
  PROVE  i = j
BY PlacesIn

(* Which bits are 1 after one word has changed. *)
LEMMA OneWord ==
  ASSUME NEW m, Shaped(m), NEW i \in Bits, NEW v \in SUBSET SIZE_MAX, Changed(i, v),
         sizeT \in {4, 8}
  PROVE  /\ FieldInv' /\ Bits' = Bits
         /\ \A j \in Bits : j \in Ones' <=> IF j \div WordBits = i \div WordBits
                                            THEN j % WordBits \in v ELSE j \in Ones
<1>1. /\ data \in [0..(m - 1) -> SUBSET SIZE_MAX] /\ m \in Nat
      /\ data' = [data EXCEPT ![i \div WordBits] = v] /\ sizeT' = sizeT
  BY DEF Changed, Shaped
<1>2. WordBits' = WordBits /\ SIZE_MAX' = SIZE_MAX /\ DOMAIN data' = DOMAIN data
  BY <1>1 DEF WordBits, SIZE_MAX
<1>3. Bits' = Bits
  BY <1>2 DEF Bits
<1>4. data' \in [0..(m - 1) -> SUBSET SIZE_MAX]
  BY <1>1
<1>5. FieldInv'
  BY <1>1, <1>2, <1>4 DEF FieldInv
<1>6. ASSUME NEW j \in Bits
      PROVE  j \in Ones' <=> IF j \div WordBits = i \div WordBits
                             THEN j % WordBits \in v ELSE j \in Ones
  <2>1. j \div WordBits \in 0..(m - 1)
    BY PlacesIn
  <2>2. data'[j \div WordBits] = IF j \div WordBits = i \div WordBits THEN v
                                 ELSE data[j \div WordBits]
    BY <1>1, <2>1
  <2>3. j \in Ones' <=> j % WordBits \in data'[j \div WordBits]
    BY <1>2, <1>3 DEF Ones
  <2>4. j \in Ones <=> j % WordBits \in data[j \div WordBits]
    BY DEF Ones
  <2>5. QED
    BY <2>2, <2>3, <2>4
<1>7. QED
  BY <1>3, <1>5, <1>6

(* One bit changes, with its word's other bits and the other words as they were. *)
LEMMA OneBit ==
  ASSUME FieldInv, NEW i \in Bits, NEW v \in SUBSET SIZE_MAX, Changed(i, v),
         \A r \in SIZE_MAX \ {i % WordBits} : r \in v <=> r \in data[i \div WordBits]
  PROVE  /\ FieldInv' /\ Cardinality(Bits)' = Cardinality(Bits)
         /\ Ones' = IF i % WordBits \in v THEN Ones \cup {i} ELSE Ones \ {i}
<1>1. PICK m \in Nat : Shaped(m)
  BY ShapeIs
<1>2. sizeT \in {4, 8}
  BY DEF FieldInv
<1>3. /\ FieldInv' /\ Bits' = Bits
      /\ \A j \in Bits : j \in Ones' <=> IF j \div WordBits = i \div WordBits
                                         THEN j % WordBits \in v ELSE j \in Ones
  BY <1>1, <1>2, OneWord
<1>4. Ones \subseteq Bits /\ Ones' \subseteq Bits
  BY <1>3 DEF Ones
<1>5. ASSUME NEW j \in Bits, j # i PROVE j \in Ones' <=> j \in Ones
  <2>1. CASE j \div WordBits = i \div WordBits
    <3>1. j % WordBits # i % WordBits
      BY <1>1, <1>5, <2>1, SamePlace
    <3>2. j % WordBits \in SIZE_MAX
      BY <1>1, PlacesIn
    <3>3. j \in Ones <=> j % WordBits \in data[j \div WordBits]
      BY DEF Ones
    <3>4. QED
      BY <1>3, <2>1, <3>1, <3>2, <3>3
  <2>2. CASE j \div WordBits # i \div WordBits
    BY <1>3, <2>2
  <2>3. QED
    BY <2>1, <2>2
<1>6. i \in Ones' <=> i % WordBits \in v
  BY <1>3
<1>7. Ones' = IF i % WordBits \in v THEN Ones \cup {i} ELSE Ones \ {i}
  BY <1>4, <1>5, <1>6
<1>8. QED
  BY <1>3, <1>7

WordIn(i) == data[i \div WordBits] \in SUBSET SIZE_MAX /\ i % WordBits \in SIZE_MAX

LEMMA WordOf ==
  ASSUME FieldInv, NEW i \in Bits
  PROVE  WordIn(i) /\ (i \in Ones <=> i % WordBits \in data[i \div WordBits])
<1>1. PICK m \in Nat : Shaped(m)
  BY ShapeIs
<1>2. i \div WordBits \in 0..(m - 1) /\ i % WordBits \in SIZE_MAX
  BY <1>1, PlacesIn
<1>3. data[i \div WordBits] \in SUBSET SIZE_MAX
  BY <1>1, <1>2 DEF Shaped
<1>4. QED
  BY <1>2, <1>3 DEF WordIn, Ones

LEMMA SetBitIs == ASSUME FieldInv, NEW i \in Bits, SetBit(i) PROVE FieldInv' /\ Numbers!Insert(i)
<1>1. PICK v : v = data[i \div WordBits] \cup Mask(i)
  OBVIOUS
<1>2. WordIn(i)
  BY WordOf
<1>3. v \in SUBSET SIZE_MAX /\ i % WordBits \in v
      /\ \A r \in SIZE_MAX \ {i % WordBits} : r \in v <=> r \in data[i \div WordBits]
  BY <1>1, <1>2 DEF WordIn, Mask
<1>4. Changed(i, v)
  BY <1>1 DEF SetBit
<1>5. FieldInv' /\ Cardinality(Bits)' = Cardinality(Bits) /\ Ones' = Ones \cup {i}
  BY <1>3, <1>4, OneBit
<1>6. QED
  BY <1>5 DEF Numbers!Insert, Numbers!Become

LEMMA ClearBitIs == ASSUME FieldInv, NEW i \in Bits, ClearBit(i) PROVE FieldInv' /\ Numbers!Remove(i)
<1>1. PICK v : v = data[i \div WordBits] \cap (SIZE_MAX \ Mask(i))
  OBVIOUS
<1>2. WordIn(i)
  BY WordOf
<1>3. v \in SUBSET SIZE_MAX /\ i % WordBits \notin v
      /\ \A r \in SIZE_MAX \ {i % WordBits} : r \in v <=> r \in data[i \div WordBits]
  BY <1>1, <1>2 DEF WordIn, Mask
<1>4. Changed(i, v)
  BY <1>1 DEF ClearBit
<1>5. FieldInv' /\ Cardinality(Bits)' = Cardinality(Bits) /\ Ones' = Ones \ {i}
  BY <1>3, <1>4, OneBit
<1>6. QED
  BY <1>5 DEF Numbers!Remove, Numbers!Become

LEMMA ToggleIs == ASSUME FieldInv, NEW i \in Bits, Toggle(i) PROVE FieldInv' /\ Numbers!Flip(i)
<1>1. PICK v : v = Xor(data[i \div WordBits], Mask(i))
  OBVIOUS
<1>2. WordIn(i) /\ (i \in Ones <=> i % WordBits \in data[i \div WordBits])
  BY WordOf
<1>3. v \in SUBSET SIZE_MAX /\ (i % WordBits \in v <=> i \notin Ones)
      /\ \A r \in SIZE_MAX \ {i % WordBits} : r \in v <=> r \in data[i \div WordBits]
  BY <1>1, <1>2 DEF WordIn, Mask, Xor
<1>4. Changed(i, v)
  BY <1>1 DEF Toggle
<1>5. /\ FieldInv' /\ Cardinality(Bits)' = Cardinality(Bits)
      /\ Ones' = IF i \in Ones THEN Ones \ {i} ELSE Ones \cup {i}
  BY <1>3, <1>4, OneBit
<1>6. QED
  BY <1>5 DEF Numbers!Flip, Numbers!Become

LEMMA FilledIs ==
  ASSUME sizeT \in {4, 8}
  PROVE  /\ \A c : Filled(c) \in SUBSET SIZE_MAX
         /\ Filled({}) = {} /\ Filled(0..(CHAR_BIT - 1)) = SIZE_MAX
<1>1. ASSUME NEW i \in SIZE_MAX PROVE i % CHAR_BIT \in 0..(CHAR_BIT - 1)
  <2>1. i \in Nat /\ CHAR_BIT \in Nat \ {0}
    BY WordBitsIs, FieldAssumption DEF SIZE_MAX
  <2>2. QED
    BY <2>1, PlaceOf
<1>2. QED
  BY <1>1 DEF Filled

LEMMA FillIs ==
  ASSUME FieldInv, NEW c, Fill(c)
  PROVE  /\ FieldInv' /\ Cardinality(Bits)' = Cardinality(Bits)
         /\ Filled(c) = {} => Ones' = {}
         /\ Filled(c) = SIZE_MAX => Ones' = 0..(Cardinality(Bits) - 1)
<1>1. PICK m \in Nat : Shaped(m)
  BY ShapeIs
<1>2. /\ data \in [0..(m - 1) -> SUBSET SIZE_MAX] /\ Bits = 0..(m * WordBits - 1)
      /\ Cardinality(Bits) = m * WordBits
      /\ data' = [w \in 0..(m - 1) |-> Filled(c)] /\ sizeT' = sizeT /\ sizeT \in {4, 8}
  BY <1>1 DEF Fill, Shaped, FieldInv
<1>3. WordBits' = WordBits /\ SIZE_MAX' = SIZE_MAX /\ DOMAIN data' = DOMAIN data
  BY <1>2 DEF WordBits, SIZE_MAX
<1>4. Bits' = Bits
  BY <1>3 DEF Bits
<1>5. data' \in [0..(m - 1) -> SUBSET SIZE_MAX]
  BY <1>2, FilledIs
<1>6. FieldInv'
  BY <1>2, <1>3, <1>5 DEF FieldInv
<1>7. ASSUME NEW j \in Bits PROVE j % WordBits \in SIZE_MAX /\ (j \in Ones' <=> j % WordBits \in Filled(c))
  <2>1. j \div WordBits \in 0..(m - 1) /\ j % WordBits \in SIZE_MAX
    BY <1>1, PlacesIn
  <2>2. j \in Ones' <=> j % WordBits \in data'[j \div WordBits]
    BY <1>3, <1>4 DEF Ones
  <2>3. data'[j \div WordBits] = Filled(c)
    BY <1>2, <2>1
  <2>4. QED
    BY <2>1, <2>2, <2>3
<1>8. Ones' \subseteq Bits
  BY <1>4 DEF Ones
<1>9. (Filled(c) = {} => Ones' = {}) /\ (Filled(c) = SIZE_MAX => Ones' = Bits)
  BY <1>7, <1>8
<1>10. QED
  BY <1>2, <1>4, <1>6, <1>9

LEMMA ClearAllIs == ASSUME FieldInv, ClearAll PROVE FieldInv' /\ Numbers!Nothing
<1>1. Filled({}) = {}
  BY FilledIs DEF FieldInv
<1>2. FieldInv' /\ Cardinality(Bits)' = Cardinality(Bits) /\ Ones' = {}
  BY <1>1, FillIs DEF ClearAll
<1>3. QED
  BY <1>2 DEF Numbers!Nothing, Numbers!Become

LEMMA SetAllIs == ASSUME FieldInv, SetAll PROVE FieldInv' /\ Numbers!All
<1>1. Filled(0..(CHAR_BIT - 1)) = SIZE_MAX
  BY FilledIs DEF FieldInv
<1>2. FieldInv' /\ Cardinality(Bits)' = Cardinality(Bits) /\ Ones' = 0..(Cardinality(Bits) - 1)
  BY <1>1, FillIs DEF SetAll
<1>3. QED
  BY <1>2 DEF Numbers!All, Numbers!Become, Numbers!Indexes

(* A size is rounded up to whole words. *)
LEMMA SizeIs ==
  ASSUME sizeT \in {4, 8}, NEW b \in FieldSizes
  PROVE  \E q \in Nat : /\ Words(b) = 0..(q - 1)
                        /\ CHAR_BIT * BitfieldSize(b) = q * WordBits
<1>1. b \in Nat /\ CHAR_BIT \in Nat
  BY FieldAssumption
<1>2. PICK q \in Nat : BitfieldSize(b) \div sizeT = q /\ BitfieldSize(b) = sizeT * q
  <2>1. /\ BitfieldSize(b) \div sizeT \in Nat
        /\ BitfieldSize(b) = sizeT * (BitfieldSize(b) \div sizeT)
    BY <1>1 DEF BitfieldSize
  <2>2. QED
    BY Zenon, <2>1
<1>3. CHAR_BIT * (sizeT * q) = q * (sizeT * CHAR_BIT)
  BY <1>1
<1>4. QED
  BY <1>2, <1>3 DEF Words, WordBits

LEMMA UpdateIs ==
  ASSUME FieldInv, NEW b \in FieldSizes, FieldUpdate(b)
  PROVE  FieldInv' /\ Numbers!Resize(CHAR_BIT * BitfieldSize(b))
<1>1. PICK m \in Nat : Shaped(m)
  BY ShapeIs
<1>2. sizeT \in {4, 8} /\ sizeT' = sizeT
  BY DEF FieldUpdate, FieldInv
<1>3. PICK q \in Nat : Words(b) = 0..(q - 1) /\ CHAR_BIT * BitfieldSize(b) = q * WordBits
  BY <1>2, SizeIs
<1>4. PICK new \in [0..(q - 1) -> Uninitialised] :
        data' = [w \in 0..(q - 1) |-> IF w \in DOMAIN data THEN data[w] ELSE new[w]]
  BY <1>3 DEF FieldUpdate
<1>5. data \in [0..(m - 1) -> SUBSET SIZE_MAX] /\ Bits = 0..(m * WordBits - 1)
      /\ Cardinality(Bits) = m * WordBits
  BY <1>1 DEF Shaped
<1>6. WordBits' = WordBits /\ SIZE_MAX' = SIZE_MAX
  BY <1>2 DEF WordBits, SIZE_MAX
<1>7. data' \in [0..(q - 1) -> SUBSET SIZE_MAX]
  <2>1. Uninitialised \subseteq SUBSET SIZE_MAX
    BY <1>2, FilledIs DEF Uninitialised
  <2>2. QED
    BY <1>4, <1>5, <2>1
<1>8. FieldInv'
  BY <1>2, <1>6, <1>7 DEF FieldInv
<1>9. PICK k \in Nat : k = q * WordBits
  BY <1>1 DEF Shaped
<1>10. Bits' = 0..(k - 1) /\ Cardinality(Bits)' = k
  <2>1. Cardinality(DOMAIN data') = q
    BY <1>7, CountTo
  <2>2. Bits' = 0..(k - 1)
    BY <1>6, <1>9, <2>1 DEF Bits
  <2>3. QED
    BY <2>2, CountTo
<1>11. Ones' \subseteq 0..(k - 1)
  BY <1>10 DEF Ones
<1>12. ASSUME NEW i \in Bits \cap (0..(k - 1)) PROVE i \in Ones' <=> i \in Ones
  <2>1. /\ i \in Nat /\ i \div WordBits \in 0..(m - 1) /\ i % WordBits \in SIZE_MAX
        /\ i = (i \div WordBits) * WordBits + (i % WordBits)
    BY <1>1, PlacesIn
  <2>2. i \div WordBits \in 0..(q - 1)
    <3>1. PICK u \in Nat, r \in Nat : u = i \div WordBits /\ r = i % WordBits
      BY <2>1 DEF SIZE_MAX
    <3>2. WordBits \in Nat \ {0} /\ r \in 0..(WordBits - 1)
      BY <1>1, <2>1, <3>1 DEF Shaped, SIZE_MAX
    <3>3. u * WordBits + r < q * WordBits
      BY <1>9, <2>1, <3>1
    <3>4. u < q
      BY <3>2, <3>3, PlaceBelow
    <3>5. QED
      BY <3>1, <3>4
  <2>3. data'[i \div WordBits] = data[i \div WordBits]
    BY <1>4, <1>5, <2>1, <2>2
  <2>4. i \in Ones' <=> i % WordBits \in data'[i \div WordBits]
    BY <1>6, <1>10 DEF Ones
  <2>5. i \in Ones <=> i % WordBits \in data[i \div WordBits]
    BY DEF Ones
  <2>6. QED
    BY <2>3, <2>4, <2>5
<1>13. Numbers!Indexes = Bits
  BY <1>5 DEF Numbers!Indexes
<1>14. Numbers!Resize(k)
  BY <1>10, <1>11, <1>12, <1>13 DEF Numbers!Resize
<1>15. QED
  BY <1>3, <1>8, <1>9, <1>14

LEMMA FieldStart == FieldInit => FieldInv /\ Numbers!Init
<1> SUFFICES ASSUME FieldInit PROVE FieldInv /\ Numbers!Init
  OBVIOUS
<1>1. PICK b \in FieldSizes : data \in [Words(b) -> Uninitialised]
  BY DEF FieldInit
<1>2. sizeT \in {4, 8}
  BY DEF FieldInit
<1>3. PICK q \in Nat : Words(b) = 0..(q - 1)
  BY <1>2, SizeIs
<1>4. Uninitialised \subseteq SUBSET SIZE_MAX
  BY <1>2, FilledIs DEF Uninitialised
<1>5. FieldInv
  BY <1>1, <1>2, <1>3, <1>4 DEF FieldInv
<1>6. PICK m \in Nat : Shaped(m)
  BY <1>5, ShapeIs
<1>7. Numbers!Indexes = Bits
  BY <1>6 DEF Numbers!Indexes, Shaped
<1>8. Ones \subseteq Bits
  BY DEF Ones
<1>9. QED
  BY <1>5, <1>7, <1>8 DEF Numbers!Init

LEMMA CallsAre == ASSUME FieldInv PROVE CallsOnSet
<1>1. (SetAll => Numbers!All) /\ (ClearAll => Numbers!Nothing)
  BY SetAllIs, ClearAllIs
<1>2. ASSUME NEW i \in Bits
      PROVE  /\ SetBit(i) => Numbers!Insert(i)
             /\ ClearBit(i) => Numbers!Remove(i)
             /\ Toggle(i) => Numbers!Flip(i)
  BY SetBitIs, ClearBitIs, ToggleIs
<1>3. ASSUME NEW b \in FieldSizes PROVE FieldUpdate(b) => Numbers!Resize(CHAR_BIT * BitfieldSize(b))
  BY UpdateIs
<1>4. QED
  BY <1>1, <1>2, <1>3 DEF CallsOnSet

LEMMA FieldSteps ==
  ASSUME FieldInv, [FieldNext]_fieldvars
  PROVE  FieldInv' /\ [Numbers!Next]_(Numbers!vars)
<1>1. PICK m \in Nat : Shaped(m)
  BY ShapeIs
<1>2. Numbers!Indexes = Bits
  BY <1>1 DEF Numbers!Indexes, Shaped
<1>3. CASE ClearAll
  BY <1>3, ClearAllIs DEF Numbers!Next
<1>4. CASE SetAll
  BY <1>4, SetAllIs DEF Numbers!Next
<1>5. ASSUME NEW i \in Bits, SetBit(i) \/ ClearBit(i) \/ Toggle(i)
      PROVE  FieldInv' /\ Numbers!Next
  <2>1. CASE SetBit(i)
    BY <1>2, <2>1, SetBitIs DEF Numbers!Next
  <2>2. CASE ClearBit(i)
    BY <1>2, <2>2, ClearBitIs DEF Numbers!Next
  <2>3. CASE Toggle(i)
    BY <1>2, <2>3, ToggleIs DEF Numbers!Next
  <2>4. QED
    BY <1>5, <2>1, <2>2, <2>3
<1>6. ASSUME NEW i \in Bits, NEW value \in {0, 1}, Assign(i, value)
      PROVE  FieldInv' /\ Numbers!Next
  BY <1>5, <1>6 DEF Assign
<1>7. ASSUME NEW b \in FieldSizes, FieldUpdate(b) PROVE FieldInv' /\ Numbers!Next
  <2>1. FieldInv' /\ Numbers!Resize(CHAR_BIT * BitfieldSize(b))
    BY <1>7, UpdateIs
  <2>2. CHAR_BIT * BitfieldSize(b) \in {CHAR_BIT * BitfieldSize(c) : c \in FieldSizes}
    OBVIOUS
  <2>3. QED
    BY <2>1, <2>2 DEF Numbers!Next
<1>8. CASE UNCHANGED fieldvars
  <2>1. sizeT' = sizeT /\ data' = data
    BY <1>8 DEF fieldvars
  <2>2. WordBits' = WordBits /\ SIZE_MAX' = SIZE_MAX /\ Bits' = Bits
    BY <2>1 DEF WordBits, SIZE_MAX, Bits
  <2>3. Ones' = Ones
    BY <2>1, <2>2 DEF Ones
  <2>4. FieldInv'
    BY <2>1, <2>2 DEF FieldInv
  <2>5. QED
    BY <2>2, <2>3, <2>4 DEF Numbers!vars
<1>9. QED
  BY <1>3, <1>4, <1>5, <1>6, <1>7, <1>8 DEF FieldNext

(* For words of either size, bytes of any number of bits and blocks of any  *)
(* length: each call is the call on the set of the numbers whose bit is 1,  *)
(* also when the memory is replaced.                                        *)
THEOREM ImplementsBitSetHolds == FieldSpec => ImplementsBitSet
<1>1. FieldInit => FieldInv /\ Numbers!Init
  BY FieldStart
<1>2. FieldInv /\ [FieldNext]_fieldvars => FieldInv' /\ [Numbers!Next]_(Numbers!vars)
  BY FieldSteps
<1>3. FieldInv => [CallsOnSet]_fieldvars
  BY CallsAre
<1>4. QED
  BY <1>1, <1>2, <1>3, PTL DEF FieldSpec, ImplementsBitSet, Numbers!Spec
-----------------------------------------------------------------------------
(* A function defined by recursion on its argument exists.                  *)
Recurs(f, k, base, g) == f[0] = base /\ \A i \in 1..k : f[i] = g[<<i, f[i - 1]>>]
HasRecursion(V, k, base, g) == \E f \in [0..k -> V] : Recurs(f, k, base, g)

LEMMA RecursionDefined ==
  ASSUME NEW V, NEW base \in V, NEW k \in Nat, NEW g \in [(1..k) \X V -> V]
  PROVE  HasRecursion(V, k, base, g)
<1> DEFINE S == {m \in Nat : m <= k => HasRecursion(V, m, base, g)}
<1>1. 0 \in S
  <2>1. [i \in 0..0 |-> base] \in [0..0 -> V] /\ Recurs([i \in 0..0 |-> base], 0, base, g)
    BY DEF Recurs
  <2>2. HasRecursion(V, 0, base, g)
    BY Zenon, <2>1 DEF HasRecursion
  <2>3. QED
    BY <2>2
<1>2. ASSUME NEW m \in Nat, m \in S PROVE m + 1 \in S
  <2>1. CASE m + 1 > k
    BY <2>1
  <2>2. CASE m + 1 <= k
    <3>1. HasRecursion(V, m, base, g)
      BY <1>2, <2>2
    <3>2. PICK h \in [0..m -> V] : Recurs(h, m, base, g)
      BY Zenon, <3>1 DEF HasRecursion
    <3>3. PICK next : next = g[<<m + 1, h[m]>>]
      OBVIOUS
    <3>4. next \in V
      <4>1. h[m] \in V /\ m + 1 \in 1..k
        BY <2>2
      <4>2. QED
        BY <3>3, <4>1
    <3>5. PICK f : f = [i \in 0..(m + 1) |-> IF i = m + 1 THEN next ELSE h[i]]
      OBVIOUS
    <3>6. f \in [0..(m + 1) -> V] /\ f[m + 1] = next /\ \A i \in 0..m : f[i] = h[i]
      BY <3>4, <3>5
    <3>7. f[0] = base
      BY <3>2, <3>6 DEF Recurs
    <3>8. ASSUME NEW i \in 1..(m + 1) PROVE f[i] = g[<<i, f[i - 1]>>]
      <4>1. CASE i = m + 1
        BY <3>3, <3>6, <4>1
      <4>2. CASE i \in 1..m
        <5>1. h[i] = g[<<i, h[i - 1]>>]
          BY <3>2, <4>2 DEF Recurs
        <5>2. f[i] = h[i] /\ f[i - 1] = h[i - 1]
          BY <3>6, <4>2
        <5>3. QED
          BY <5>1, <5>2
      <4>3. QED
        BY <4>1, <4>2
    <3>9. Recurs(f, m + 1, base, g)
      BY <3>7, <3>8 DEF Recurs
    <3>10. HasRecursion(V, m + 1, base, g)
      BY Zenon, <3>6, <3>9 DEF HasRecursion
    <3>11. QED
      BY <3>10
  <2>3. QED
    BY <2>1, <2>2
<1> HIDE DEF S
<1>3. k \in S
  BY <1>1, <1>2, Induction
<1>4. QED
  BY <1>3 DEF S
-----------------------------------------------------------------------------
(* The calls s list the numbers of set, ascending, each with its value.     *)
Calls == Nat \X {0, 1}
Lists(s, set, ones) ==
  /\ s \in Seq(Calls)
  /\ \A k \in 1..Len(s) : s[k][1] \in set /\ s[k][2] = IF s[k][1] \in ones THEN 1 ELSE 0
  /\ \A i \in set : \E k \in 1..Len(s) : s[k][1] = i
  /\ \A k, l \in 1..Len(s) : k < l => s[k][1] < s[l][1]

LEMMA ListsNothing == ASSUME NEW ones PROVE Lists(<<>>, {}, ones)
BY DEF Lists

Part(set, from, to) == from..(to - 1) \cap set

LEMMA ListsBoth ==
  ASSUME NEW set, NEW ones, NEW a \in Nat, NEW b \in Nat, NEW c \in Nat, a <= b, b <= c,
         NEW s, Lists(s, Part(set, a, b), ones), NEW t, Lists(t, Part(set, b, c), ones)
  PROVE  Lists(s \o t, Part(set, a, c), ones)
<1>1. s \in Seq(Calls) /\ t \in Seq(Calls)
  BY DEF Lists
<1>2. PICK k \in Nat, l \in Nat : k = Len(s) /\ l = Len(t)
  BY <1>1
<1>3. PICK r : r = s \o t
  OBVIOUS
<1>4. /\ r \in Seq(Calls) /\ Len(r) = k + l
      /\ \A i \in 1..(k + l) : r[i] = IF i <= k THEN s[i] ELSE t[i - k]
  BY <1>1, <1>2, <1>3, ConcatProperties
<1>5. \A i \in 1..k : r[i] = s[i]
  BY <1>4
<1>6. \A i \in 1..l : i + k \in 1..(k + l) /\ r[i + k] = t[i]
  BY <1>4
<1>7. \A i \in 1..(k + l) : i \in 1..k \/ (i - k \in 1..l /\ r[i] = t[i - k])
  BY <1>4
<1>8. ASSUME NEW i \in 1..(k + l)
      PROVE r[i][1] \in Part(set, a, c) /\ r[i][2] = IF r[i][1] \in ones THEN 1 ELSE 0
  <2>1. CASE i \in 1..k
    <3>1. s[i][1] \in Part(set, a, b) /\ s[i][2] = IF s[i][1] \in ones THEN 1 ELSE 0
      BY <1>2, <2>1 DEF Lists
    <3>2. QED
      BY <1>5, <2>1, <3>1 DEF Part
  <2>2. CASE i - k \in 1..l /\ r[i] = t[i - k]
    <3>1. t[i - k][1] \in Part(set, b, c) /\ t[i - k][2] = IF t[i - k][1] \in ones THEN 1 ELSE 0
      BY <1>2, <2>2 DEF Lists
    <3>2. QED
      BY <2>2, <3>1 DEF Part
  <2>3. QED
    BY <1>7, <2>1, <2>2
<1>9. ASSUME NEW x \in Part(set, a, c) PROVE \E i \in 1..(k + l) : r[i][1] = x
  <2>1. CASE x \in Part(set, a, b)
    <3>1. PICK i \in 1..k : s[i][1] = x
      BY <1>2, <2>1 DEF Lists
    <3>2. QED
      BY <1>5, <3>1
  <2>2. CASE x \in Part(set, b, c)
    <3>1. PICK i \in 1..l : t[i][1] = x
      BY <1>2, <2>2 DEF Lists
    <3>2. QED
      BY <1>6, <3>1
  <2>3. QED
    BY <2>1, <2>2 DEF Part
<1>10. ASSUME NEW i \in 1..(k + l), NEW j \in 1..(k + l), i < j PROVE r[i][1] < r[j][1]
  <2>1. CASE i \in 1..k /\ j \in 1..k
    BY <1>2, <1>5, <1>10, <2>1 DEF Lists
  <2>2. CASE i \in 1..k /\ j - k \in 1..l /\ r[j] = t[j - k]
    <3>1. s[i][1] \in Part(set, a, b) /\ t[j - k][1] \in Part(set, b, c)
      BY <1>2, <2>2 DEF Lists
    <3>2. QED
      BY <1>5, <2>2, <3>1 DEF Part
  <2>3. CASE i - k \in 1..l /\ r[i] = t[i - k] /\ j - k \in 1..l /\ r[j] = t[j - k]
    <3>1. i - k < j - k
      BY <1>10
    <3>2. QED
      BY <1>2, <2>3, <3>1 DEF Lists
  <2>4. QED
    BY <1>7, <1>10, <2>1, <2>2, <2>3
<1>11. QED
  BY <1>3, <1>4, <1>8, <1>9, <1>10 DEF Lists

(* FlattenSeq appends one sequence after another.                           *)
Appends(f, k, seqs) == f[1] = seqs[1] /\ \A i \in 2..k : f[i] = f[i - 1] \o seqs[i]

LEMMA FlattenIs ==
  ASSUME NEW V, NEW k \in Nat \ {0}, NEW seqs \in [1..k -> Seq(V)]
  PROVE  \E f \in [1..k -> Seq(V)] : Appends(f, k, seqs) /\ FlattenSeq(seqs) = f[k]
<1> DEFINE Eq(f) == f = [i \in 1..k |-> IF i = 1 THEN seqs[i] ELSE f[i - 1] \o seqs[i]]
           F == CHOOSE f : Eq(f)
           g == [p \in (1..k) \X Seq(V) |-> p[2] \o seqs[p[1]]]
<1>1. Len(seqs) = k
  BY DEF Eq
<1>2. g \in [(1..k) \X Seq(V) -> Seq(V)] /\ \A i \in 1..k, s \in Seq(V) : g[<<i, s>>] = s \o seqs[i]
  <2>1. ASSUME NEW p \in (1..k) \X Seq(V) PROVE p[2] \o seqs[p[1]] \in Seq(V)
    <3>1. p[2] \in Seq(V) /\ seqs[p[1]] \in Seq(V)
      OBVIOUS
    <3>2. QED
      BY <3>1, ConcatProperties
  <2>2. QED
    BY <2>1
<1>3. <<>> \in Seq(V)
  OBVIOUS
<1> HIDE DEF g
<1>4. PICK h \in [0..k -> Seq(V)] : Recurs(h, k, <<>>, g)
  <2>1. HasRecursion(Seq(V), k, <<>>, g)
    BY Zenon, <1>2, <1>3, RecursionDefined
  <2>2. QED
    BY Zenon, <2>1 DEF HasRecursion
<1>5. \A i \in 1..k : h[i] = h[i - 1] \o seqs[i]
  <2>1. ASSUME NEW i \in 1..k PROVE h[i] = h[i - 1] \o seqs[i]
    <3>1. h[i] = g[<<i, h[i - 1]>>]
      BY Zenon, <1>4 DEF Recurs
    <3>2. i - 1 \in 0..k
      OBVIOUS
    <3>3. h[i - 1] \in Seq(V)
      BY Zenon, <3>2
    <3>4. QED
      BY Zenon, <1>2, <3>1, <3>3
  <2>2. QED
    BY <2>1
<1>6. h[1] = seqs[1]
  <2>1. h[0] = <<>> /\ seqs[1] \in Seq(V)
    BY <1>4 DEF Recurs
  <2>2. h[1] = h[0] \o seqs[1]
    BY <1>5
  <2>3. <<>> \o seqs[1] = seqs[1]
    BY <2>1, ConcatEmptySeq
  <2>4. QED
    BY <2>1, <2>2, <2>3
<1>7. PICK w : w = [i \in 1..k |-> h[i]]
  OBVIOUS
<1>8. w \in [1..k -> Seq(V)] /\ \A i \in 1..k : w[i] = h[i]
  BY <1>7
<1>9. Eq(w)
  <2>1. ASSUME NEW i \in 1..k PROVE w[i] = IF i = 1 THEN seqs[i] ELSE w[i - 1] \o seqs[i]
    <3>1. w[i] = h[i] /\ (i # 1 => i - 1 \in 1..k /\ w[i - 1] = h[i - 1])
      BY <1>8
    <3>2. h[i] = h[i - 1] \o seqs[i]
      BY Zenon, <1>5
    <3>3. CASE i = 1
      BY Zenon, <1>6, <3>1, <3>3
    <3>4. CASE i # 1
      BY Zenon, <3>1, <3>2, <3>4
    <3>5. QED
      BY Zenon, <3>3, <3>4
  <2>2. w = [i \in 1..k |-> w[i]]
    BY <1>8
  <2>3. QED
    BY Zenon, <2>1, <2>2
<1> HIDE DEF Eq
<1>10. Eq(F)
  BY Zenon, <1>9
<1>11. FlattenSeq(seqs) = F[k]
  <2>1. FlattenSeq(seqs) = (CHOOSE f : f = [i \in 1..k |-> IF i = 1 THEN seqs[i] ELSE f[i - 1] \o seqs[i]])[k]
    BY <1>1 DEF FlattenSeq
  <2>2. QED
    BY Zenon, <2>1 DEF F, Eq
<1> HIDE DEF F
<1>12. F = [i \in 1..k |-> IF i = 1 THEN seqs[i] ELSE F[i - 1] \o seqs[i]]
  BY Zenon, <1>10 DEF Eq
<1>13. Appends(F, k, seqs)
  <2>1. 1 \in 1..k /\ F[1] = seqs[1]
    <3>1. 1 \in 1..k
      OBVIOUS
    <3>2. QED
      BY Zenon, <1>12, <3>1
  <2>2. ASSUME NEW i \in 2..k PROVE F[i] = F[i - 1] \o seqs[i]
    <3>1. i \in 1..k /\ i # 1
      OBVIOUS
    <3>2. QED
      BY Zenon, <1>12, <3>1
  <2>3. QED
    BY Zenon, <2>1, <2>2 DEF Appends
<1>14. F \in [1..k -> Seq(V)]
  <2> DEFINE S == {i \in Nat : i + 1 <= k => F[i + 1] \in Seq(V)}
  <2>1. 0 \in S
    BY <1>13 DEF Appends
  <2>2. ASSUME NEW i \in Nat, i \in S PROVE i + 1 \in S
    <3>1. CASE i + 2 <= k
      <4>1. F[i + 1] \in Seq(V) /\ seqs[i + 2] \in Seq(V)
        BY <2>2, <3>1
      <4>2. F[i + 2] = F[i + 1] \o seqs[i + 2]
        <5>1. i + 2 \in 2..k /\ (i + 2) - 1 = i + 1
          BY <3>1
        <5>2. QED
          BY <1>13, <5>1 DEF Appends
      <4>3. F[i + 2] \in Seq(V)
        BY <4>1, <4>2, ConcatProperties
      <4>4. QED
        BY <4>3
    <3>2. CASE ~(i + 2 <= k)
      BY <3>2
    <3>3. QED
      BY <3>1, <3>2
  <2> HIDE DEF S
  <2>3. Nat \subseteq S
    BY <2>1, <2>2, Induction
  <2>4. ASSUME NEW i \in 1..k PROVE F[i] \in Seq(V)
    <3>1. i - 1 \in S
      BY <2>3
    <3>2. QED
      BY <3>1 DEF S
  <2>5. QED
    BY <1>12, <2>4
<1>15. QED
  BY Zenon, <1>11, <1>13, <1>14

(* Lists of the parts of a set, one behind the other.                       *)
LEMMA ListsAll ==
  ASSUME NEW set, NEW ones, NEW base \in Nat, NEW width \in Nat, NEW k \in Nat,
         NEW seqs \in [1..k -> Seq(Calls)],
         \A i \in 1..k : Lists(seqs[i], Part(set, base + (i - 1) * width, base + i * width), ones)
  PROVE  Lists(FlattenSeq(seqs), Part(set, base, base + k * width), ones)
<1>1. CASE k = 0
  <2>1. seqs = <<>> /\ Len(seqs) = 0
    BY <1>1
  <2>2. FlattenSeq(seqs) = <<>>
    BY <2>1 DEF FlattenSeq
  <2>3. Part(set, base, base + k * width) = {}
    BY <1>1 DEF Part
  <2>4. QED
    BY <2>2, <2>3, ListsNothing
<1>2. CASE k # 0
  <2>1. PICK f \in [1..k -> Seq(Calls)] : Appends(f, k, seqs) /\ FlattenSeq(seqs) = f[k]
    BY <1>2, FlattenIs
  <2> DEFINE S == {i \in Nat : i + 1 <= k => Lists(f[i + 1], Part(set, base, base + (i + 1) * width), ones)}
  <2>2. 0 \in S
    <3>1. f[1] = seqs[1] /\ base + (1 - 1) * width = base /\ 1 \in 1..k
      BY <1>2, <2>1 DEF Appends
    <3>2. Lists(seqs[1], Part(set, base + (1 - 1) * width, base + 1 * width), ones)
      BY <3>1
    <3>3. Lists(f[1], Part(set, base, base + 1 * width), ones)
      BY <3>1, <3>2
    <3>4. QED
      BY <3>3
  <2>3. ASSUME NEW i \in Nat, i \in S PROVE i + 1 \in S
    <3>1. CASE i + 2 <= k
      <4>1. PICK a \in Nat, b \in Nat, c \in Nat : /\ a = base /\ b = base + (i + 1) * width
                                                   /\ c = base + (i + 2) * width
        OBVIOUS
      <4>2. a <= b /\ b <= c
        <5>1. (i + 1) * width \in Nat /\ (i + 2) * width = (i + 1) * width + width
          OBVIOUS
        <5>2. QED
          BY <4>1, <5>1
      <4>3. Lists(f[i + 1], Part(set, a, b), ones)
        BY <2>3, <3>1, <4>1
      <4>4. i + 2 \in 1..k /\ i + 2 \in 2..k /\ (i + 2) - 1 = i + 1
        BY <3>1
      <4>5. Lists(seqs[i + 2], Part(set, b, c), ones)
        BY <4>1, <4>4
      <4>6. f[i + 2] = f[i + 1] \o seqs[i + 2]
        BY <2>1, <4>4 DEF Appends
      <4>7. Lists(f[i + 2], Part(set, a, c), ones)
        BY Zenon, <4>1, <4>2, <4>3, <4>5, <4>6, ListsBoth
      <4>8. (i + 1) + 1 = i + 2
        OBVIOUS
      <4>9. QED
        BY <4>1, <4>7, <4>8
    <3>2. CASE ~(i + 2 <= k)
      BY <3>2
    <3>3. QED
      BY <3>1, <3>2
  <2> HIDE DEF S
  <2>4. Nat \subseteq S
    BY Zenon, <2>2, <2>3, Induction
  <2>5. k - 1 \in S /\ (k - 1) + 1 = k
    BY <1>2, <2>4
  <2>6. QED
    BY <2>1, <2>5 DEF S
<1>3. QED
  BY <1>1, <1>2
-----------------------------------------------------------------------------
LEMMA LeastIn == ASSUME NEW S \in SUBSET Nat, S # {} PROVE \E m \in S : \A j \in S : m <= j
<1>1. PICK m \in S : \A i \in S : <<i, m>> \notin OpToRel(<, Nat)
  BY WFMin, NatLessThanWellFounded, Zenon
<1>2. \A i \in S : ~(i < m)
  BY <1>1 DEF OpToRel
<1>3. QED
  BY <1>2

LEMMA LowestIs ==
  ASSUME NEW S \in SUBSET Nat, S # {}
  PROVE  Lowest(S) \in S /\ \A j \in S : Lowest(S) <= j
<1>1. \E m \in S : \A j \in S : m <= j
  BY LeastIn
<1>2. QED
  BY Zenon, <1>1 DEF Lowest

(* What the loop over the bits of a byte has left after each turn.          *)
Leaves(h, turns, byte) ==
  /\ h[0] = byte
  /\ \A t \in 1..turns : h[t - 1] \subseteq byte /\ h[t - 1] # {} => h[t] = h[t - 1] \ {Lowest(h[t - 1])}

After(h, turns, byte, t) ==
  /\ h[t] \subseteq byte /\ Cardinality(h[t]) = turns - t
  /\ \A x \in byte \ h[t] : \E u \in 1..t : x = Lowest(h[u - 1])
  /\ \A x \in byte \ h[t], y \in h[t] : x < y
  /\ \A u \in 1..t : Lowest(h[u - 1]) \in byte \ h[t]

LEMMA LeavesLess ==
  ASSUME NEW byte \in SUBSET Nat, IsFiniteSet(byte), NEW h, Leaves(h, Cardinality(byte), byte)
  PROVE  \A t \in 0..Cardinality(byte) : After(h, Cardinality(byte), byte, t)
<1>1. PICK turns \in Nat : turns = Cardinality(byte)
  BY FS_CardinalityType
<1> DEFINE S == {t \in Nat : t <= turns => After(h, turns, byte, t)}
<1>2. 0 \in S
  <2>1. h[0] = byte
    BY DEF Leaves
  <2>2. After(h, turns, byte, 0)
    BY <1>1, <2>1 DEF After
  <2>3. QED
    BY <2>2
<1>3. ASSUME NEW t \in Nat, t \in S PROVE t + 1 \in S
  <2>1. CASE t + 1 <= turns
    <3>1. After(h, turns, byte, t)
      BY <1>3, <2>1
    <3>2. PICK s : s = h[t]
      OBVIOUS
    <3>3. s \subseteq byte /\ IsFiniteSet(s) /\ Cardinality(s) = turns - t /\ s # {}
      <4>1. s \subseteq byte /\ Cardinality(s) = turns - t
        BY <3>1, <3>2 DEF After
      <4>2. IsFiniteSet(s)
        BY <4>1, FS_Subset
      <4>3. s # {}
        BY <2>1, <4>1, FS_EmptySet
      <4>4. QED
        BY <4>1, <4>2, <4>3
    <3>4. PICK x : x = Lowest(s)
      OBVIOUS
    <3>5. x \in s /\ \A j \in s : x <= j
      <4>1. s \in SUBSET Nat
        BY <3>3
      <4>2. QED
        BY Zenon, <3>3, <3>4, <4>1, LowestIs
    <3>6. h[t + 1] = s \ {x}
      <4>1. t + 1 \in 1..turns /\ (t + 1) - 1 = t
        BY <2>1
      <4>2. QED
        BY <1>1, <3>2, <3>3, <3>4, <4>1 DEF Leaves
    <3>7. Cardinality(s \ {x}) = turns - (t + 1)
      <4>1. Cardinality(s \ {x}) = Cardinality(s) - 1
        BY <3>3, <3>5, FS_RemoveElement
      <4>2. QED
        BY <3>3, <4>1
    <3>8. byte \ (s \ {x}) = (byte \ s) \cup {x}
      BY <3>3, <3>5
    <3>9. t + 1 \in 1..(t + 1) /\ (t + 1) - 1 = t
      OBVIOUS
    <3>10. x = Lowest(h[(t + 1) - 1])
      BY <3>2, <3>4, <3>9
    <3>11. ASSUME NEW y \in byte \ (s \ {x}) PROVE \E u \in 1..(t + 1) : y = Lowest(h[u - 1])
      <4>1. CASE y = x
        BY Zenon, <3>9, <3>10, <4>1
      <4>2. CASE y \in byte \ s
        <5>1. PICK u \in 1..t : y = Lowest(h[u - 1])
          BY <3>1, <3>2, <4>2 DEF After
        <5>2. u \in 1..(t + 1)
          OBVIOUS
        <5>3. QED
          BY Zenon, <5>1, <5>2
      <4>3. QED
        BY <3>8, <4>1, <4>2
    <3>12. ASSUME NEW y \in byte \ (s \ {x}), NEW z \in s \ {x} PROVE y < z
      <4>1. CASE y = x
        BY <3>3, <3>5, <4>1
      <4>2. CASE y \in byte \ s
        BY <3>1, <3>2, <4>2 DEF After
      <4>3. QED
        BY <3>8, <4>1, <4>2
    <3>13. ASSUME NEW u \in 1..(t + 1) PROVE Lowest(h[u - 1]) \in byte \ (s \ {x})
      <4>1. CASE u = t + 1
        BY <3>8, <3>10, <4>1
      <4>2. CASE u \in 1..t
        <5>1. Lowest(h[u - 1]) \in byte \ s
          BY <3>1, <3>2, <4>2 DEF After
        <5>2. QED
          BY <3>8, <5>1
      <4>3. QED
        BY <4>1, <4>2
    <3>14. s \ {x} \subseteq byte
      BY <3>3
    <3>15. After(h, turns, byte, t + 1)
      BY Zenon, <3>6, <3>7, <3>11, <3>12, <3>13, <3>14 DEF After
    <3>16. QED
      BY <3>15
  <2>2. CASE ~(t + 1 <= turns)
    BY <2>2
  <2>3. QED
    BY <2>1, <2>2
<1> HIDE DEF S
<1>4. Nat \subseteq S
  BY Zenon, <1>2, <1>3, Induction
<1>5. QED
  BY <1>1, <1>4 DEF S
-----------------------------------------------------------------------------
LeftIs(h, turns, byte) ==
  h = [t \in 0..turns |-> IF t = 0 THEN byte ELSE Xor(h[t - 1], {Lowest(h[t - 1])})]

LEMMA TakeLowest ==
  ASSUME NEW s \in SUBSET Nat, s # {}
  PROVE  Xor(s, {Lowest(s)}) = s \ {Lowest(s)}
BY LowestIs DEF Xor

LEMMA LeftLeaves ==
  ASSUME NEW byte \in SUBSET Nat, NEW turns \in Nat, NEW h, LeftIs(h, turns, byte)
  PROVE  Leaves(h, turns, byte)
<1>1. h[0] = byte
  <2>1. 0 \in 0..turns
    OBVIOUS
  <2>2. QED
    BY Zenon, <2>1 DEF LeftIs
<1>2. ASSUME NEW t \in 1..turns, h[t - 1] \subseteq byte, h[t - 1] # {}
      PROVE  h[t] = h[t - 1] \ {Lowest(h[t - 1])}
  <2>1. t \in 0..turns /\ t # 0
    OBVIOUS
  <2>2. h[t] = Xor(h[t - 1], {Lowest(h[t - 1])})
    BY Zenon, <2>1 DEF LeftIs
  <2>3. h[t - 1] \in SUBSET Nat
    BY <1>2
  <2>4. QED
    BY Zenon, <1>2, <2>2, <2>3, TakeLowest
<1>3. QED
  BY <1>1, <1>2 DEF Leaves

(* The recursion of SetBitsOf has a solution, as no turn finds nothing left. *)
LEMMA LeftDefined ==
  ASSUME NEW byte \in SUBSET Nat, IsFiniteSet(byte)
  PROVE  \E h : LeftIs(h, Cardinality(byte), byte)
<1>1. PICK turns \in Nat : turns = Cardinality(byte)
  BY FS_CardinalityType
<1>2. PICK V : V = SUBSET byte
  OBVIOUS
<1> DEFINE g == [p \in (1..turns) \X V |-> IF p[2] = {} THEN {} ELSE p[2] \ {Lowest(p[2])}]
<1>3. g \in [(1..turns) \X V -> V] /\ byte \in V
  BY <1>2
<1>4. \A t \in 1..turns, s \in V : g[<<t, s>>] = IF s = {} THEN {} ELSE s \ {Lowest(s)}
  OBVIOUS
<1> HIDE DEF g
<1>5. PICK h \in [0..turns -> V] : Recurs(h, turns, byte, g)
  <2>1. HasRecursion(V, turns, byte, g)
    BY Zenon, <1>3, RecursionDefined
  <2>2. QED
    BY Zenon, <2>1 DEF HasRecursion
<1>6. ASSUME NEW t \in 1..turns
      PROVE  h[t - 1] \in V /\ h[t] = IF h[t - 1] = {} THEN {} ELSE h[t - 1] \ {Lowest(h[t - 1])}
  <2>1. h[t] = g[<<t, h[t - 1]>>]
    BY Zenon, <1>5 DEF Recurs
  <2>2. t - 1 \in 0..turns
    OBVIOUS
  <2>3. h[t - 1] \in V
    BY Zenon, <2>2
  <2>4. QED
    BY Zenon, <1>4, <2>1, <2>3
<1>7. Leaves(h, turns, byte)
  <2>1. h[0] = byte
    BY Zenon, <1>5 DEF Recurs
  <2>2. ASSUME NEW t \in 1..turns, h[t - 1] # {} PROVE h[t] = h[t - 1] \ {Lowest(h[t - 1])}
    BY Zenon, <1>6, <2>2
  <2>3. QED
    BY <2>1, <2>2 DEF Leaves
<1>8. ASSUME NEW t \in 1..turns PROVE h[t] = Xor(h[t - 1], {Lowest(h[t - 1])})
  <2>1. t - 1 \in 0..turns /\ turns - (t - 1) # 0
    OBVIOUS
  <2>2. Cardinality(h[t - 1]) = turns - (t - 1)
    <3>1. \A u \in 0..turns : After(h, turns, byte, u)
      BY Zenon, <1>1, <1>7, LeavesLess
    <3>2. After(h, turns, byte, t - 1)
      BY Zenon, <2>1, <3>1
    <3>3. QED
      BY Zenon, <3>2 DEF After
  <2>3. h[t - 1] # {}
    BY <2>1, <2>2, FS_EmptySet
  <2>4. h[t - 1] \in SUBSET Nat
    BY <1>2, <1>6
  <2>5. QED
    BY Zenon, <1>6, <2>3, <2>4, TakeLowest
<1>9. h = [t \in 0..turns |-> IF t = 0 THEN byte ELSE Xor(h[t - 1], {Lowest(h[t - 1])})]
  <2>1. h[0] = byte
    BY Zenon, <1>5 DEF Recurs
  <2>2. ASSUME NEW t \in 0..turns
        PROVE  h[t] = IF t = 0 THEN byte ELSE Xor(h[t - 1], {Lowest(h[t - 1])})
    <3>1. t = 0 \/ (t # 0 /\ t \in 1..turns)
      OBVIOUS
    <3>2. QED
      BY Zenon, <1>8, <2>1, <3>1
  <2>3. h = [t \in 0..turns |-> h[t]]
    OBVIOUS
  <2>4. QED
    BY Zenon, <2>2, <2>3
<1>10. QED
  BY <1>1, <1>9 DEF LeftIs

(* The positions are those of the byte, in ascending order, once each.      *)
Ascends(s, k, byte) ==
  /\ s \in [1..k -> byte]
  /\ \A x \in byte : \E t \in 1..k : s[t] = x
  /\ \A t, u \in 1..k : t < u => s[t] < s[u]

LEMMA SetBitsAscend ==
  ASSUME NEW byte \in SUBSET Nat, IsFiniteSet(byte)
  PROVE  Ascends(SetBitsOf(byte), Cardinality(byte), byte)
<1>1. PICK turns \in Nat : turns = Cardinality(byte)
  BY FS_CardinalityType
<1> DEFINE h == CHOOSE f : LeftIs(f, turns, byte)
<1>2. LeftIs(h, turns, byte)
  BY Zenon, <1>1, LeftDefined
<1>3. SetBitsOf(byte) = [t \in 1..turns |-> Lowest(h[t - 1])]
  BY <1>1 DEF SetBitsOf, LeftIs
<1> HIDE DEF h
<1>4. \A t \in 0..turns : After(h, turns, byte, t)
  BY <1>1, <1>2, LeftLeaves, LeavesLess
<1>5. h[turns] = {}
  <2>1. turns \in 0..turns
    OBVIOUS
  <2>2. h[turns] \subseteq byte /\ Cardinality(h[turns]) = 0
    BY <1>4, <2>1 DEF After
  <2>3. QED
    BY <2>2, FS_Subset, FS_EmptySet
<1>6. \A t \in 1..turns : Lowest(h[t - 1]) \in byte
  <2>1. turns \in 0..turns
    OBVIOUS
  <2>2. QED
    BY <1>4, <2>1 DEF After
<1>7. ASSUME NEW x \in byte PROVE \E t \in 1..turns : Lowest(h[t - 1]) = x
  <2>1. turns \in 0..turns /\ x \in byte \ h[turns]
    BY <1>5
  <2>2. QED
    BY <1>4, <2>1 DEF After
<1>8. ASSUME NEW t \in 1..turns, NEW u \in 1..turns, t < u
      PROVE Lowest(h[t - 1]) < Lowest(h[u - 1])
  <2>1. u - 1 \in 0..turns /\ t \in 1..(u - 1) /\ turns - (u - 1) # 0
    BY <1>8
  <2>2. After(h, turns, byte, u - 1)
    BY <1>4, <2>1
  <2>3. Lowest(h[t - 1]) \in byte \ h[u - 1]
    BY <2>1, <2>2 DEF After
  <2>4. h[u - 1] # {} /\ h[u - 1] \in SUBSET Nat
    <3>1. h[u - 1] \subseteq byte /\ Cardinality(h[u - 1]) = turns - (u - 1)
      BY <2>2 DEF After
    <3>2. QED
      BY <2>1, <3>1, FS_EmptySet
  <2>5. Lowest(h[u - 1]) \in h[u - 1]
    BY <2>4, LowestIs
  <2>6. QED
    BY <2>2, <2>3, <2>5 DEF After
<1>9. QED
  BY <1>1, <1>3, <1>6, <1>7, <1>8 DEF Ascends
-----------------------------------------------------------------------------
LEMMA ByteFinite ==
  ASSUME NEW byte \in SUBSET (0..(CHAR_BIT - 1))
  PROVE  byte \in SUBSET Nat /\ IsFiniteSet(byte)
<1>1. CHAR_BIT \in Nat
  BY FieldAssumption
<1>2. IsFiniteSet(0..(CHAR_BIT - 1))
  BY Zenon, <1>1, CountTo
<1>3. IsFiniteSet(byte)
  BY <1>2, FS_Subset
<1>4. QED
  BY <1>3

(* The calls for the set bits of a byte, base being the number of its first *)
(* bit.                                                                     *)
LEMMA ByteListed ==
  ASSUME NEW base \in Nat, NEW byte \in SUBSET (0..(CHAR_BIT - 1)), NEW value \in {0, 1},
         NEW set, NEW ones, NEW s,
         s = [k \in DOMAIN SetBitsOf(byte) |-> <<SetBitsOf(byte)[k] + base, value>>],
         \A k \in 0..(CHAR_BIT - 1) : k \in byte <=> base + k \in set,
         \A k \in byte : value = IF base + k \in ones THEN 1 ELSE 0
  PROVE  Lists(s, Part(set, base, base + CHAR_BIT), ones)
<1>1. CHAR_BIT \in Nat \ {0}
  BY FieldAssumption
<1>2. byte \in SUBSET Nat /\ IsFiniteSet(byte)
  BY Zenon, ByteFinite
<1>3. PICK turns \in Nat : turns = Cardinality(byte)
  BY <1>2, FS_CardinalityType
<1>4. PICK bits : bits = SetBitsOf(byte)
  OBVIOUS
<1>5. /\ bits \in [1..turns -> byte]
      /\ \A x \in byte : \E t \in 1..turns : bits[t] = x
      /\ \A t, u \in 1..turns : t < u => bits[t] < bits[u]
  <2>1. Ascends(bits, turns, byte)
    BY Zenon, <1>2, <1>3, <1>4, SetBitsAscend
  <2>2. QED
    BY Zenon, <2>1 DEF Ascends
<1>6. s = [k \in 1..turns |-> <<bits[k] + base, value>>]
  BY <1>4, <1>5
<1>7. \A k \in 1..turns : /\ bits[k] \in byte /\ bits[k] \in Nat /\ bits[k] < CHAR_BIT
                          /\ s[k] = <<bits[k] + base, value>>
                          /\ s[k][1] = base + bits[k] /\ s[k][2] = value
  <2>1. ASSUME NEW k \in 1..turns PROVE bits[k] \in byte /\ s[k] = <<bits[k] + base, value>>
    BY <1>5, <1>6
  <2>2. ASSUME NEW k \in 1..turns
        PROVE  /\ bits[k] \in Nat /\ bits[k] < CHAR_BIT
               /\ s[k][1] = base + bits[k] /\ s[k][2] = value
    <3>1. PICK x \in byte : x = bits[k]
      BY <2>1
    <3>2. x \in Nat /\ x < CHAR_BIT /\ x + base = base + x
      BY <1>1
    <3>3. s[k] = <<x + base, value>>
      BY Zenon, <2>1, <3>1
    <3>4. s[k][1] = x + base /\ s[k][2] = value
      BY <3>3
    <3>5. QED
      BY Zenon, <3>1, <3>2, <3>4
  <2>3. QED
    BY Zenon, <2>1, <2>2
<1>8. s \in Seq(Calls) /\ Len(s) = turns
  <2>1. \A k \in 1..turns : s[k] \in Calls
    BY <1>7 DEF Calls
  <2>2. QED
    BY <1>6, <2>1
<1>9. ASSUME NEW k \in 1..turns
      PROVE  s[k][1] \in Part(set, base, base + CHAR_BIT) /\ s[k][2] = IF s[k][1] \in ones THEN 1 ELSE 0
  <2>1. PICK x : x = bits[k]
    OBVIOUS
  <2>2. x \in byte /\ x \in 0..(CHAR_BIT - 1) /\ s[k][1] = base + x /\ s[k][2] = value
    BY <1>7, <2>1
  <2>3. base + x \in set /\ value = IF base + x \in ones THEN 1 ELSE 0
    BY <2>2
  <2>4. base + x \in base..((base + CHAR_BIT) - 1)
    BY <1>1, <2>2
  <2>5. QED
    BY <2>2, <2>3, <2>4 DEF Part
<1>10. ASSUME NEW x \in Part(set, base, base + CHAR_BIT) PROVE \E k \in 1..turns : s[k][1] = x
  <2>1. x - base \in 0..(CHAR_BIT - 1) /\ base + (x - base) = x /\ x \in set
    BY <1>1 DEF Part
  <2>2. x - base \in byte
    BY <2>1
  <2>3. PICK k \in 1..turns : bits[k] = x - base
    BY <1>5, <2>2
  <2>4. QED
    BY <1>7, <2>1, <2>3
<1>11. ASSUME NEW k \in 1..turns, NEW l \in 1..turns, k < l PROVE s[k][1] < s[l][1]
  <2>1. bits[k] < bits[l] /\ bits[k] \in Nat /\ bits[l] \in Nat
    BY <1>5, <1>7, <1>11
  <2>2. s[k][1] = base + bits[k] /\ s[l][1] = base + bits[l]
    BY <1>7
  <2>3. QED
    BY <2>1, <2>2
<1>12. QED
  BY <1>8, <1>9, <1>10, <1>11 DEF Lists

(* The calls for all the bits of a byte.                                    *)
LEMMA EachListed ==
  ASSUME NEW base \in Nat, NEW byte, NEW set, NEW ones, NEW s,
         s = [k \in 1..CHAR_BIT |-> <<(k - 1) + base, IF k - 1 \in byte THEN 1 ELSE 0>>],
         \A k \in 0..(CHAR_BIT - 1) : base + k \in set /\ (k \in byte <=> base + k \in ones)
  PROVE  Lists(s, Part(set, base, base + CHAR_BIT), ones)
<1>1. CHAR_BIT \in Nat \ {0}
  BY FieldAssumption
<1>2. \A k \in 1..CHAR_BIT : /\ s[k] = <<(k - 1) + base, IF k - 1 \in byte THEN 1 ELSE 0>>
                             /\ s[k][1] = base + (k - 1)
                             /\ s[k][2] = IF k - 1 \in byte THEN 1 ELSE 0
  BY <1>1
<1>3. s \in Seq(Calls) /\ Len(s) = CHAR_BIT
  <2>1. \A k \in 1..CHAR_BIT : s[k] \in Calls
    BY <1>1, <1>2 DEF Calls
  <2>2. s = [k \in 1..CHAR_BIT |-> s[k]]
    OBVIOUS
  <2>3. QED
    BY <1>1, <2>1, <2>2
<1>4. ASSUME NEW k \in 1..CHAR_BIT
      PROVE  s[k][1] \in Part(set, base, base + CHAR_BIT) /\ s[k][2] = IF s[k][1] \in ones THEN 1 ELSE 0
  <2>1. k - 1 \in 0..(CHAR_BIT - 1)
    BY <1>1
  <2>2. base + (k - 1) \in set /\ (k - 1 \in byte <=> base + (k - 1) \in ones)
    BY <2>1
  <2>3. base + (k - 1) \in base..((base + CHAR_BIT) - 1)
    BY <1>1
  <2>4. s[k][1] = base + (k - 1) /\ s[k][2] = IF k - 1 \in byte THEN 1 ELSE 0
    BY Zenon, <1>2
  <2>5. s[k][1] \in Part(set, base, base + CHAR_BIT)
    BY Zenon, <2>2, <2>3, <2>4 DEF Part
  <2>6. s[k][2] = IF s[k][1] \in ones THEN 1 ELSE 0
    BY Zenon, <2>2, <2>4
  <2>7. QED
    BY <2>5, <2>6
<1>5. ASSUME NEW x \in Part(set, base, base + CHAR_BIT) PROVE \E k \in 1..CHAR_BIT : s[k][1] = x
  <2>1. x - base + 1 \in 1..CHAR_BIT /\ base + ((x - base + 1) - 1) = x
    BY <1>1 DEF Part
  <2>2. QED
    BY <1>2, <2>1
<1>6. ASSUME NEW k \in 1..CHAR_BIT, NEW l \in 1..CHAR_BIT, k < l PROVE s[k][1] < s[l][1]
  BY <1>1, <1>2, <1>6
<1>7. QED
  BY <1>3, <1>4, <1>5, <1>6 DEF Lists

(* Bit k of byte b of word w, the byte's bits being counted from base.      *)
LEMMA BitAt ==
  ASSUME NEW m, Shaped(m), sizeT \in {4, 8}, NEW w \in 0..(m - 1), NEW b \in 0..(sizeT - 1),
         NEW k \in 0..(CHAR_BIT - 1), NEW base, base = w * WordBits + b * CHAR_BIT
  PROVE  /\ base \in Nat
         /\ base + k \in Ones <=> k \in Byte(data[w], b)
         /\ k \in Byte(SIZE_MAX \ data[w], b) <=> base + k \notin Ones
<1>1. PICK width \in Nat \ {0} : width = WordBits
  BY DEF Shaped
<1>2. m \in Nat /\ CHAR_BIT \in Nat \ {0} /\ w \in Nat /\ b \in Nat /\ k \in Nat
  BY FieldAssumption DEF Shaped
<1>3. PICK r \in Nat : r = b * CHAR_BIT + k
  BY <1>2
<1>4. r < width
  <2>1. b < sizeT /\ sizeT \in Nat
    OBVIOUS
  <2>2. b * CHAR_BIT + k < sizeT * CHAR_BIT
    BY <1>2, <2>1, PlaceBelow
  <2>3. QED
    BY <1>1, <1>3, <2>2 DEF WordBits
<1>5. base \in Nat /\ base + k = w * width + r
  <2>1. w * width \in Nat /\ b * CHAR_BIT \in Nat
    BY <1>1, <1>2
  <2>2. QED
    BY <1>1, <1>2, <1>3, <2>1
<1>6. (w * width + r) \div width = w /\ (w * width + r) % width = r
  BY <1>2, <1>4, Placed
<1>7. w * width + r \in 0..(m * width - 1)
  <2>1. w * width + r < m * width
    BY <1>2, <1>4, PlaceBelow
  <2>2. w * width \in Nat /\ m * width \in Nat
    BY <1>2
  <2>3. QED
    BY <2>1, <2>2
<1>8. base + k \in Bits
  BY <1>1, <1>5, <1>7 DEF Shaped
<1>9. base + k \in Ones <=> r \in data[w]
  BY <1>1, <1>5, <1>6, <1>8 DEF Ones
<1>10. r = k + b * CHAR_BIT /\ r \in SIZE_MAX
  <2>1. b * CHAR_BIT \in Nat
    BY <1>2
  <2>2. QED
    BY <1>1, <1>2, <1>3, <1>4, <2>1 DEF SIZE_MAX
<1>11. (k \in Byte(data[w], b) <=> r \in data[w])
       /\ (k \in Byte(SIZE_MAX \ data[w], b) <=> r \in SIZE_MAX /\ r \notin data[w])
  BY <1>10 DEF Byte
<1>12. QED
  BY <1>5, <1>9, <1>10, <1>11

(* The numbers that a filter lets through.                                  *)
Chosen(filter) == {i \in Nat : filter = (IF i \in Ones THEN 1 ELSE 0) \/ filter \notin {0, 1}}

LEMMA VisitSetListed ==
  ASSUME NEW base, NEW w, NEW b, w * WordBits \in Nat, b * CHAR_BIT \in Nat,
         base = w * WordBits + b * CHAR_BIT,
         NEW v, NEW value \in {0, 1}, NEW set, NEW ones,
         \A k \in 0..(CHAR_BIT - 1) : k \in Byte(v, b) <=> base + k \in set,
         \A k \in Byte(v, b) : value = IF base + k \in ones THEN 1 ELSE 0
  PROVE  Lists(VisitSet(w, v, b, value), Part(set, base, base + CHAR_BIT), ones)
<1>1. PICK byte \in SUBSET (0..(CHAR_BIT - 1)) : byte = Byte(v, b)
  BY DEF Byte
<1>2. byte \in SUBSET Nat /\ IsFiniteSet(byte)
  BY Zenon, ByteFinite
<1>3. PICK bits : bits = SetBitsOf(byte)
  OBVIOUS
<1>4. \A k \in DOMAIN bits : bits[k] \in Nat
  <2>1. Ascends(bits, Cardinality(byte), byte)
    BY Zenon, <1>2, <1>3, SetBitsAscend
  <2>2. QED
    BY <1>2, <2>1 DEF Ascends
<1>5. \A k \in DOMAIN bits : bits[k] + w * WordBits + b * CHAR_BIT = bits[k] + base
  BY <1>4
<1>6. VisitSet(w, v, b, value) =
        [k \in DOMAIN bits |-> <<bits[k] + w * WordBits + b * CHAR_BIT, value>>]
  BY Zenon, <1>1, <1>3 DEF VisitSet
<1>7. VisitSet(w, v, b, value) = [k \in DOMAIN SetBitsOf(byte) |-> <<SetBitsOf(byte)[k] + base, value>>]
  BY Zenon, <1>3, <1>5, <1>6
<1>8. base \in Nat
  OBVIOUS
<1>9. QED
  BY Zenon, <1>1, <1>7, <1>8, ByteListed

LEMMA VisitSetLists ==
  ASSUME NEW m, Shaped(m), sizeT \in {4, 8}, NEW w \in 0..(m - 1), NEW b \in 0..(sizeT - 1),
         NEW base, base = w * WordBits + b * CHAR_BIT
  PROVE  /\ Lists(VisitSet(w, SIZE_MAX \ data[w], b, 0), Part(Chosen(0), base, base + CHAR_BIT), Ones)
         /\ Lists(VisitSet(w, data[w], b, 1), Part(Chosen(1), base, base + CHAR_BIT), Ones)
<1>1. base \in Nat /\ w * WordBits \in Nat /\ b * CHAR_BIT \in Nat
  BY FieldAssumption DEF Shaped
<1>2. ASSUME NEW k \in 0..(CHAR_BIT - 1)
      PROVE  /\ base + k \in Nat
             /\ base + k \in Ones <=> k \in Byte(data[w], b)
             /\ k \in Byte(SIZE_MAX \ data[w], b) <=> base + k \notin Ones
  <2>1. base + k \in Nat
    BY <1>1
  <2>2. /\ base + k \in Ones <=> k \in Byte(data[w], b)
        /\ k \in Byte(SIZE_MAX \ data[w], b) <=> base + k \notin Ones
    BY Zenon, BitAt
  <2>3. QED
    BY <2>1, <2>2
<1>3. \A v : Byte(v, b) \subseteq 0..(CHAR_BIT - 1)
  BY DEF Byte
<1>4. Lists(VisitSet(w, SIZE_MAX \ data[w], b, 0), Part(Chosen(0), base, base + CHAR_BIT), Ones)
  <2>1. PICK v : v = SIZE_MAX \ data[w]
    OBVIOUS
  <2>2. ASSUME NEW k \in 0..(CHAR_BIT - 1) PROVE k \in Byte(v, b) <=> base + k \in Chosen(0)
    <3>1. base + k \in Nat /\ (k \in Byte(v, b) <=> base + k \notin Ones)
      BY Zenon, <1>2, <2>1
    <3>2. QED
      BY <3>1 DEF Chosen
  <2>3. ASSUME NEW k \in Byte(v, b) PROVE 0 = IF base + k \in Ones THEN 1 ELSE 0
    BY <1>2, <1>3, <2>1
  <2>4. 0 \in {0, 1}
    OBVIOUS
  <2>5. Lists(VisitSet(w, v, b, 0), Part(Chosen(0), base, base + CHAR_BIT), Ones)
    BY Zenon, <1>1, <2>2, <2>3, <2>4, VisitSetListed
  <2>6. QED
    BY Zenon, <2>1, <2>5
<1>5. Lists(VisitSet(w, data[w], b, 1), Part(Chosen(1), base, base + CHAR_BIT), Ones)
  <2>1. PICK v : v = data[w]
    OBVIOUS
  <2>2. ASSUME NEW k \in 0..(CHAR_BIT - 1) PROVE k \in Byte(v, b) <=> base + k \in Chosen(1)
    <3>1. base + k \in Nat /\ (k \in Byte(v, b) <=> base + k \in Ones)
      BY Zenon, <1>2, <2>1
    <3>2. QED
      BY <3>1 DEF Chosen
  <2>3. ASSUME NEW k \in Byte(v, b) PROVE 1 = IF base + k \in Ones THEN 1 ELSE 0
    BY <1>2, <1>3, <2>1
  <2>4. 1 \in {0, 1}
    OBVIOUS
  <2>5. Lists(VisitSet(w, v, b, 1), Part(Chosen(1), base, base + CHAR_BIT), Ones)
    BY Zenon, <1>1, <2>2, <2>3, <2>4, VisitSetListed
  <2>6. QED
    BY Zenon, <2>1, <2>5
<1>6. QED
  BY <1>4, <1>5

LEMMA VisitEachLists ==
  ASSUME NEW m, Shaped(m), sizeT \in {4, 8}, NEW w \in 0..(m - 1), NEW b \in 0..(sizeT - 1),
         NEW filter, filter \notin {0, 1}, NEW base, base = w * WordBits + b * CHAR_BIT
  PROVE  Lists(VisitEach(w, data[w], b), Part(Chosen(filter), base, base + CHAR_BIT), Ones)
<1>1. base \in Nat /\ w * WordBits \in Nat /\ b * CHAR_BIT \in Nat /\ CHAR_BIT \in Nat
  BY FieldAssumption DEF Shaped
<1>2. PICK byte : byte = Byte(data[w], b)
  OBVIOUS
<1>3. ASSUME NEW k \in 0..(CHAR_BIT - 1)
      PROVE  base + k \in Chosen(filter) /\ (k \in byte <=> base + k \in Ones)
  <2>1. base + k \in Nat
    BY <1>1
  <2>2. k \in byte <=> base + k \in Ones
    BY Zenon, <1>2, BitAt
  <2>3. QED
    BY <2>1, <2>2 DEF Chosen
<1>4. VisitEach(w, data[w], b) =
        [k \in 1..CHAR_BIT |-> <<(k - 1) + base, IF k - 1 \in byte THEN 1 ELSE 0>>]
  <2>1. \A k \in 1..CHAR_BIT : k - 1 + w * WordBits + b * CHAR_BIT = (k - 1) + base
    BY <1>1
  <2>2. QED
    BY <1>2, <2>1 DEF VisitEach
<1>5. QED
  BY Zenon, <1>1, <1>3, <1>4, EachListed
-----------------------------------------------------------------------------
(* A number among those of a word is 1 when its bit of the word is.         *)
LEMMA WordAt ==
  ASSUME NEW m, Shaped(m), NEW w \in 0..(m - 1), NEW i \in w * WordBits..((w * WordBits + WordBits) - 1)
  PROVE  \E r \in SIZE_MAX : i \in Ones <=> r \in data[w]
<1>1. PICK width \in Nat \ {0} : width = WordBits
  BY DEF Shaped
<1>2. m \in Nat /\ w \in Nat /\ w * width \in Nat /\ m * width \in Nat
  BY <1>1 DEF Shaped
<1>3. PICK r \in 0..(width - 1) : i = w * width + r
  <2>1. i - w * width \in 0..(width - 1) /\ i = w * width + (i - w * width)
    BY <1>1, <1>2
  <2>2. QED
    BY <2>1
<1>4. i \div width = w /\ i % width = r
  BY <1>2, <1>3, Placed
<1>5. i \in Bits
  <2>1. w * width + r < m * width
    BY <1>2, PlaceBelow
  <2>2. QED
    BY <1>1, <1>2, <1>3, <2>1 DEF Shaped
<1>6. i \in Ones <=> r \in data[w]
  BY <1>1, <1>4, <1>5 DEF Ones
<1>7. QED
  BY <1>1, <1>6 DEF SIZE_MAX

(* A word that a visit skips has no bit for it.                             *)
LEMMA Skipped ==
  ASSUME NEW m, Shaped(m), NEW w \in 0..(m - 1), NEW filter,
         (filter = 0 /\ data[w] = SIZE_MAX) \/ (filter = 1 /\ data[w] = {})
  PROVE  Part(Chosen(filter), w * WordBits, w * WordBits + WordBits) = {}
<1> SUFFICES ASSUME NEW i, i \in Part(Chosen(filter), w * WordBits, w * WordBits + WordBits)
             PROVE  FALSE
  OBVIOUS
<1>1. i \in w * WordBits..((w * WordBits + WordBits) - 1)
      /\ (filter = (IF i \in Ones THEN 1 ELSE 0) \/ filter \notin {0, 1})
  <2>1. i \in w * WordBits..((w * WordBits + WordBits) - 1) /\ i \in Chosen(filter)
    BY Zenon DEF Part
  <2>2. QED
    BY <2>1 DEF Chosen
<1>2. PICK r \in SIZE_MAX : i \in Ones <=> r \in data[w]
  BY <1>1, WordAt
<1>3. QED
  BY <1>1, <1>2

(* The visits of the bytes follow each other to that of the word, ...       *)
LEMMA VisitWordLists ==
  ASSUME NEW m, Shaped(m), sizeT \in {4, 8}, NEW w \in 0..(m - 1),
         NEW filter \in {-1, 0, 1}, NEW dense \in BOOLEAN
  PROVE  Lists(VisitWord(w, filter, dense),
               Part(Chosen(filter), w * WordBits, w * WordBits + WordBits), Ones)
<1> DEFINE v == data[w]
           full == filter = 0 /\ dense /\ v = SIZE_MAX
           empty == filter = 1 /\ ~dense /\ v = {}
           seqs == [b \in 1..sizeT |-> CASE filter = 0 -> VisitSet(w, SIZE_MAX \ v, b - 1, 0)
                                         [] filter = 1 -> VisitSet(w, v, b - 1, 1)
                                         [] OTHER      -> VisitEach(w, v, b - 1)]
<1>1. VisitWord(w, filter, dense) = FlattenSeq(IF full \/ empty THEN <<>> ELSE seqs)
  BY DEF VisitWord
<1>2. CASE full \/ empty
  <2>1. VisitWord(w, filter, dense) = FlattenSeq(<<>>)
    BY Zenon, <1>1, <1>2
  <2>2. Part(Chosen(filter), w * WordBits, w * WordBits + WordBits) = {}
    BY <1>2, Skipped
  <2>3. FlattenSeq(<<>>) = <<>>
    BY DEF FlattenSeq
  <2>4. QED
    BY Zenon, <2>1, <2>2, <2>3, ListsNothing
<1>3. CASE ~(full \/ empty)
  <2>1. VisitWord(w, filter, dense) = FlattenSeq(seqs)
    BY Zenon, <1>1, <1>3
  <2>2. PICK base \in Nat : base = w * WordBits
    BY DEF Shaped
  <2>3. CHAR_BIT \in Nat \ {0} /\ sizeT \in Nat
    BY FieldAssumption
  <2>4. ASSUME NEW i \in 1..sizeT
        PROVE  Lists(seqs[i], Part(Chosen(filter), base + (i - 1) * CHAR_BIT, base + i * CHAR_BIT), Ones)
    <3>1. PICK b \in 0..(sizeT - 1) : b = i - 1
      OBVIOUS
    <3>2. PICK from : from = w * WordBits + b * CHAR_BIT
      OBVIOUS
    <3>3. from = base + (i - 1) * CHAR_BIT /\ from + CHAR_BIT = base + i * CHAR_BIT
      BY <2>2, <2>3, <3>1, <3>2
    <3>4. /\ Lists(VisitSet(w, SIZE_MAX \ v, b, 0), Part(Chosen(0), from, from + CHAR_BIT), Ones)
          /\ Lists(VisitSet(w, v, b, 1), Part(Chosen(1), from, from + CHAR_BIT), Ones)
      BY Zenon, <3>2, VisitSetLists
    <3>5. filter \notin {0, 1} => Lists(VisitEach(w, v, b), Part(Chosen(filter), from, from + CHAR_BIT), Ones)
      BY Zenon, <3>2, VisitEachLists
    <3>6. seqs[i] = CASE filter = 0 -> VisitSet(w, SIZE_MAX \ v, b, 0)
                      [] filter = 1 -> VisitSet(w, v, b, 1)
                      [] OTHER      -> VisitEach(w, v, b)
      BY Zenon, <3>1
    <3>7. Lists(seqs[i], Part(Chosen(filter), from, from + CHAR_BIT), Ones)
      <4>1. CASE filter = 0
        <5>1. seqs[i] = VisitSet(w, SIZE_MAX \ v, b, 0)
          BY <3>6, <4>1
        <5>2. QED
          BY Zenon, <3>4, <4>1, <5>1
      <4>2. CASE filter = 1
        <5>1. seqs[i] = VisitSet(w, v, b, 1)
          BY <3>6, <4>2
        <5>2. QED
          BY Zenon, <3>4, <4>2, <5>1
      <4>3. CASE filter \notin {0, 1}
        <5>1. seqs[i] = VisitEach(w, v, b)
          BY <3>6, <4>3
        <5>2. QED
          BY Zenon, <3>5, <4>3, <5>1
      <4>4. QED
        BY <4>1, <4>2, <4>3
    <3>8. QED
      BY Zenon, <3>3, <3>7
  <2>5. PICK S : S = seqs
    OBVIOUS
  <2>6. S \in [1..sizeT -> Seq(Calls)]
    <3>1. \A i \in 1..sizeT : S[i] \in Seq(Calls)
      BY Zenon, <2>4, <2>5 DEF Lists
    <3>2. S = [i \in 1..sizeT |-> S[i]]
      BY <2>5
    <3>3. QED
      BY Zenon, <3>1, <3>2
  <2>7. \A i \in 1..sizeT : Lists(S[i], Part(Chosen(filter), base + (i - 1) * CHAR_BIT, base + i * CHAR_BIT), Ones)
    BY Zenon, <2>4, <2>5
  <2>8. CHAR_BIT \in Nat
    BY <2>3
  <2>9. Lists(FlattenSeq(S), Part(Chosen(filter), base, base + sizeT * CHAR_BIT), Ones)
    BY Zenon, <2>3, <2>6, <2>7, <2>8, ListsAll
  <2>10. QED
    BY Zenon, <2>1, <2>2, <2>5, <2>9 DEF WordBits
<1>4. QED
  BY <1>2, <1>3

(* ... and those of the words to that of the field.                         *)
LEMMA ForEachLists ==
  ASSUME NEW m, Shaped(m), sizeT \in {4, 8}, NEW filter \in {-1, 0, 1}, NEW dense \in BOOLEAN
  PROVE  Lists(ForEach(filter, dense), Part(Chosen(filter), 0, m * WordBits), Ones)
<1> DEFINE seqs == [k \in 1..m |-> VisitWord(k - 1, filter, dense)]
<1>1. m \in Nat /\ WordBits \in Nat /\ 0 \in Nat
  BY DEF Shaped
<1>2. ForEach(filter, dense) = FlattenSeq(seqs)
  BY DEF ForEach, Shaped
<1>3. ASSUME NEW i \in 1..m
      PROVE  Lists(seqs[i], Part(Chosen(filter), 0 + (i - 1) * WordBits, 0 + i * WordBits), Ones)
  <2>1. PICK w \in 0..(m - 1) : w = i - 1
    BY <1>1
  <2>2. 0 + (i - 1) * WordBits = w * WordBits /\ 0 + i * WordBits = w * WordBits + WordBits
    BY <1>1, <2>1
  <2>3. Lists(VisitWord(w, filter, dense), Part(Chosen(filter), w * WordBits, w * WordBits + WordBits), Ones)
    BY Zenon, VisitWordLists
  <2>4. seqs[i] = VisitWord(w, filter, dense)
    BY Zenon, <2>1
  <2>5. QED
    BY Zenon, <2>2, <2>3, <2>4
<1>4. seqs \in [1..m -> Seq(Calls)]
  <2>1. \A i \in 1..m : seqs[i] \in Seq(Calls)
    BY Zenon, <1>3 DEF Lists
  <2>2. seqs = [i \in 1..m |-> seqs[i]]
    BY Zenon
  <2>3. QED
    BY Zenon, <2>1, <2>2
<1> HIDE DEF seqs
<1>5. Lists(FlattenSeq(seqs), Part(Chosen(filter), 0, 0 + m * WordBits), Ones)
  BY Zenon, <1>1, <1>3, <1>4, ListsAll
<1>6. 0 + m * WordBits = m * WordBits
  BY <1>1
<1>7. QED
  BY Zenon, <1>2, <1>5, <1>6
-----------------------------------------------------------------------------
(* An ascending sequence has as many members as its range.                  *)
LEMMA CountsUp ==
  ASSUME NEW T \in SUBSET Nat, NEW k \in Nat, NEW s, Ascends(s, k, T)
  PROVE  IsFiniteSet(T) /\ Cardinality(T) = k
<1>1. /\ s \in [1..k -> T]
      /\ \A x \in T : \E t \in 1..k : s[t] = x
      /\ \A t, u \in 1..k : t < u => s[t] < s[u]
  BY Zenon DEF Ascends
<1>2. ASSUME NEW t \in 1..k, NEW u \in 1..k, s[t] = s[u] PROVE t = u
  <2>1. t < u \/ u < t \/ t = u
    OBVIOUS
  <2>2. s[t] \in Nat /\ s[u] \in Nat /\ ~(s[t] < s[u]) /\ ~(s[u] < s[t])
    <3>1. PICK x \in T : x = s[t]
      BY <1>1
    <3>2. x \in Nat /\ ~(x < x)
      OBVIOUS
    <3>3. QED
      BY Zenon, <1>2, <3>1, <3>2
  <2>3. QED
    BY <1>1, <2>1, <2>2
<1>3. s \in Bijection(1..k, T)
  BY <1>1, <1>2 DEF Bijection, Injection, Surjection, IsInjective
<1>4. ExistsBijection(1..k, T)
  BY Zenon, <1>3 DEF ExistsBijection
<1>5. IsFiniteSet(1..k) /\ Cardinality(1..k) = k
  <2>1. 1 \in Int /\ k \in Int
    OBVIOUS
  <2>2. IsFiniteSet(1..k) /\ Cardinality(1..k) = IF 1 > k THEN 0 ELSE k - 1 + 1
    BY Zenon, <2>1, FS_Interval
  <2>3. QED
    BY <2>2
<1>6. QED
  BY Zenon, <1>4, <1>5, FS_Bijection

LEMMA SameCount == \A S : Numbers!Cardinality(S) = Cardinality(S)
BY Zenon DEF Numbers!Cardinality, Cardinality

(* There is one way to put a set in ascending order.                        *)
LEMMA AscendingIs ==
  ASSUME NEW T \in SUBSET Nat, NEW k \in Nat, NEW s, Ascends(s, k, T)
  PROVE  Numbers!Ascending(T) = s
<1>1. /\ s \in [1..k -> T]
      /\ \A x \in T : \E t \in 1..k : s[t] = x
      /\ \A t, u \in 1..k : t < u => s[t] < s[u]
  BY Zenon DEF Ascends
<1>2. Cardinality(T) = k
  BY CountsUp
<1>3. ASSUME NEW p \in 1..k PROVE Cardinality({j \in T : j < s[p]}) = p - 1
  <2> DEFINE U == {j \in T : j < s[p]}
             t == [q \in 1..(p - 1) |-> s[q]]
  <2>1. \A q \in 1..(p - 1) : q \in 1..k /\ t[q] = s[q] /\ q < p
    OBVIOUS
  <2>2. \A q \in 1..(p - 1) : s[q] \in U
    BY <1>1, <2>1
  <2>3. t \in [1..(p - 1) -> U]
    BY <2>2
  <2>4. ASSUME NEW x \in U PROVE \E q \in 1..(p - 1) : t[q] = x
    <3>1. PICK q \in 1..k : s[q] = x
      BY <1>1
    <3>2. x < s[p] /\ x \in Nat /\ s[p] \in Nat
      BY <1>1
    <3>3. q < p
      <4>1. p < q => s[p] < s[q]
        BY <1>1
      <4>2. ~(p < q) /\ p # q
        BY <3>1, <3>2, <4>1
      <4>3. QED
        BY <4>2
    <3>4. q \in 1..(p - 1)
      BY <3>3
    <3>5. QED
      BY <2>1, <3>1, <3>4
  <2>5. \A q, r \in 1..(p - 1) : q < r => t[q] < t[r]
    BY <1>1, <2>1
  <2> HIDE DEF t
  <2>6. Ascends(t, p - 1, U)
    BY <2>3, <2>4, <2>5 DEF Ascends
  <2>7. U \in SUBSET Nat /\ p - 1 \in Nat
    <3>1. p - 1 \in Nat
      OBVIOUS
    <3>2. U \subseteq T
      OBVIOUS
    <3> HIDE DEF U
    <3>3. QED
      BY <3>1, <3>2
  <2> HIDE DEF U
  <2>8. Cardinality(U) = p - 1
    BY Zenon, <2>6, <2>7, CountsUp
  <2>9. QED
    BY <2>8 DEF U
<1> DEFINE Member(p) == CHOOSE i \in T : Numbers!Cardinality({j \in T : j < i}) = p - 1
<1>4. ASSUME NEW p \in 1..k PROVE Member(p) = s[p]
  <2>1. s[p] \in T /\ Numbers!Cardinality({j \in T : j < s[p]}) = p - 1
    BY <1>1, <1>3, SameCount
  <2>2. ASSUME NEW i \in T, Numbers!Cardinality({j \in T : j < i}) = p - 1 PROVE i = s[p]
    <3>1. PICK q \in 1..k : s[q] = i
      BY <1>1
    <3>2. q - 1 = p - 1
      BY <1>3, <2>2, <3>1, SameCount
    <3>3. q = p
      BY <3>2
    <3>4. QED
      BY <3>1, <3>3
  <2>3. QED
    BY Zenon, <2>1, <2>2
<1>5. Numbers!Ascending(T) = [p \in 1..k |-> s[p]]
  <2>1. Numbers!Ascending(T) = [p \in 1..Numbers!Cardinality(T) |-> Member(p)]
    BY Zenon DEF Numbers!Ascending
  <2> HIDE DEF Member
  <2>2. Numbers!Cardinality(T) = k
    BY Zenon, <1>2, SameCount
  <2>3. QED
    BY Zenon, <1>4, <2>1, <2>2
<1>6. s = [p \in 1..k |-> s[p]]
  BY <1>1
<1>7. QED
  BY Zenon, <1>5, <1>6

LEMMA SelectedIs ==
  ASSUME NEW m, Shaped(m), NEW filter
  PROVE  Numbers!Selected(filter) = Part(Chosen(filter), 0, m * WordBits)
<1>1. PICK k \in Nat : k = m * WordBits
  BY DEF Shaped
<1>2. Cardinality(Bits) = k
  BY <1>1 DEF Shaped
<1>3. Numbers!Selected(filter) =
        {i \in 0..(k - 1) : filter = (IF i \in Ones THEN 1 ELSE 0) \/ filter \notin {0, 1}}
  BY <1>2 DEF Numbers!Selected, Numbers!Indexes, Numbers!Value
<1>4. QED
  BY <1>1, <1>3 DEF Part, Chosen

(* Calls that list the selected numbers are the visits of the set.          *)
LEMMA ListsVisits ==
  ASSUME NEW m, Shaped(m), NEW filter, NEW calls,
         Lists(calls, Part(Chosen(filter), 0, m * WordBits), Ones)
  PROVE  calls = Numbers!Visits(filter)
<1>1. PICK T : T = Numbers!Selected(filter)
  OBVIOUS
<1>2. T \in SUBSET Nat
  BY <1>1, SelectedIs DEF Chosen, Part
<1>3. Lists(calls, T, Ones)
  BY Zenon, <1>1, SelectedIs
<1>4. /\ calls \in Seq(Calls)
      /\ \A p \in 1..Len(calls) : calls[p][1] \in T
                                  /\ calls[p][2] = IF calls[p][1] \in Ones THEN 1 ELSE 0
      /\ \A i \in T : \E p \in 1..Len(calls) : calls[p][1] = i
      /\ \A p, q \in 1..Len(calls) : p < q => calls[p][1] < calls[q][1]
  BY Zenon, <1>3 DEF Lists
<1>5. PICK k \in Nat : k = Len(calls)
  BY <1>4
<1>6. PICK s : s = [p \in 1..k |-> calls[p][1]]
  OBVIOUS
<1>7. \A p \in 1..k : s[p] = calls[p][1]
  BY Zenon, <1>6
<1>8. Ascends(s, k, T)
  <2>1. \A p \in 1..k : calls[p][1] \in T
    BY Zenon, <1>4, <1>5
  <2>2. s \in [1..k -> T]
    BY Zenon, <1>6, <2>1
  <2>3. \A x \in T : \E p \in 1..k : s[p] = x
    BY Zenon, <1>4, <1>5, <1>7
  <2>4. \A p, q \in 1..k : p < q => s[p] < s[q]
    BY Zenon, <1>4, <1>5, <1>7
  <2>5. QED
    BY Zenon, <2>2, <2>3, <2>4 DEF Ascends
<1>9. Numbers!Ascending(T) = s
  BY Zenon, <1>2, <1>8, AscendingIs
<1>10. DOMAIN s = 1..k
  BY Zenon, <1>6
<1>11. Numbers!Visits(filter) = [p \in 1..k |-> <<s[p], IF s[p] \in Ones THEN 1 ELSE 0>>]
  BY Zenon, <1>1, <1>9, <1>10 DEF Numbers!Visits, Numbers!Value
<1>12. ASSUME NEW p \in 1..k PROVE calls[p] = <<s[p], IF s[p] \in Ones THEN 1 ELSE 0>>
  <2>1. calls[p] \in Nat \X {0, 1}
    BY <1>4, <1>5 DEF Calls
  <2>2. PICK c \in Nat \X {0, 1} : c = calls[p]
    BY <2>1
  <2>3. c = <<c[1], c[2]>>
    OBVIOUS
  <2>4. c[1] = s[p] /\ c[2] = IF s[p] \in Ones THEN 1 ELSE 0
    BY Zenon, <1>4, <1>5, <1>7, <2>2
  <2>5. QED
    BY Zenon, <2>2, <2>3, <2>4
<1>13. calls = [p \in 1..k |-> calls[p]]
  BY <1>4, <1>5
<1>14. QED
  BY Zenon, <1>11, <1>12, <1>13

LEMMA FieldVisits == ASSUME FieldInv PROVE VisitsSelected
<1>1. PICK m \in Nat : Shaped(m)
  BY ShapeIs
<1>2. ASSUME NEW i \in Bits PROVE GetBit(i) = Numbers!Value(i)
  <2>1. i \in Ones <=> i % WordBits \in data[i \div WordBits]
    BY WordOf
  <2>2. data[i \div WordBits] \cap Mask(i) # {} <=> i \in Ones
    BY <2>1 DEF Mask
  <2>3. QED
    BY <2>2 DEF GetBit, Numbers!Value
<1>3. ASSUME NEW filter \in {-1, 0, 1}, NEW dense \in BOOLEAN
      PROVE  ForEach(filter, dense) = Numbers!Visits(filter)
  <2>1. Lists(ForEach(filter, dense), Part(Chosen(filter), 0, m * WordBits), Ones)
    BY Zenon, <1>1, ForEachLists DEF FieldInv
  <2>2. QED
    BY Zenon, <1>1, <2>1, ListsVisits
<1>4. QED
  BY <1>2, <1>3 DEF VisitsSelected

(* For words of either size, bytes of any number of bits and blocks of any  *)
(* length and content: a visit, whatever its filter and its hint, calls for *)
(* the selected bits in ascending order, once each and with their value.    *)
THEOREM VisitsSelectedHolds == FieldSpec => []VisitsSelected
<1>1. FieldInit => FieldInv
  BY FieldStart
<1>2. FieldInv /\ [FieldNext]_fieldvars => FieldInv'
  BY FieldSteps
<1>3. FieldInv => VisitsSelected
  BY FieldVisits
<1>4. QED
  BY <1>1, <1>2, <1>3, PTL DEF FieldSpec
=============================================================================
