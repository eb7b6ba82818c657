-------------------------- MODULE StructuresProofs --------------------------
(***************************************************************************)
(* Theorems about the sorted arrays and the hash set, for arrays and       *)
(* tables of any size: an array stays inside its block, every element of   *)
(* the table is in the bucket a lookup goes to, and every call does what   *)
(* the abstract bag or keyed set says.                                     *)
(***************************************************************************)
EXTENDS SortedArray, HashSet, SequenceTheorems, FunctionTheorems, FiniteSetTheorems,
        WellFoundedInduction, TLAPS

(* Induction over a set: a least number outside it would follow one inside. *)
LEMMA Induction ==
  ASSUME NEW S, 0 \in S, \A n \in Nat : n \in S => n + 1 \in S
  PROVE  Nat \subseteq S
<1> DEFINE T == Nat \ S
<1>1. SUFFICES ASSUME T # {} PROVE FALSE
  OBVIOUS
<1>2. PICK m \in T : \A n \in T : <<n, m>> \notin OpToRel(<, Nat)
  BY <1>1, WFMin, NatLessThanWellFounded, Zenon
<1>3. \A n \in T : ~(n < m)
  BY <1>2 DEF OpToRel
<1>4. m - 1 \in Nat /\ m - 1 \in S
  <2>1. m \in Nat /\ m # 0
    OBVIOUS
  <2>2. QED
    BY <1>3, <2>1
<1>5. QED
  BY <1>4
-----------------------------------------------------------------------------
(* One turn of a binary search for k in the keys from lo up to hi.          *)
Turn(f, key, k, lo, hi) ==
  LET middle == lo + (hi - lo) \div 2
  IN  IF lo >= hi THEN [index |-> lo, hit |-> FALSE]
      ELSE IF key[middle + 1] = k THEN [index |-> middle, hit |-> TRUE]
      ELSE IF key[middle + 1] < k THEN f[<<middle + 1, hi>>]
      ELSE f[<<lo, middle>>]

Spans(n) == (0..n) \X (0..n)

(* The middle of a span that is not empty lies in it.                       *)
LEMMA Middle ==
  ASSUME NEW lo \in Nat, NEW hi \in Nat, lo < hi
  PROVE  lo + (hi - lo) \div 2 \in lo..(hi - 1)
OBVIOUS

(* A turn looks at narrower spans only. *)
LEMMA TurnNarrows ==
  ASSUME NEW f, NEW g, NEW key, NEW k, NEW lo \in Nat, NEW hi \in Nat,
         \A a, b \in lo..hi : b - a < hi - lo => f[<<a, b>>] = g[<<a, b>>]
  PROVE  Turn(f, key, k, lo, hi) = Turn(g, key, k, lo, hi)
<1> DEFINE middle == lo + (hi - lo) \div 2
<1>1. CASE lo >= hi
  BY <1>1 DEF Turn
<1>2. CASE lo < hi
  <2>1. middle \in lo..(hi - 1)
    BY <1>2, Middle
  <2> HIDE DEF middle
  <2>2. /\ middle + 1 \in lo..hi /\ hi \in lo..hi /\ hi - (middle + 1) < hi - lo
        /\ lo \in lo..hi /\ middle \in lo..hi /\ middle - lo < hi - lo
    BY <1>2, <2>1
  <2>3. f[<<middle + 1, hi>>] = g[<<middle + 1, hi>>] /\ f[<<lo, middle>>] = g[<<lo, middle>>]
    BY <2>2
  <2>4. QED
    BY <2>3 DEF Turn, middle
<1>3. QED
  BY <1>1, <1>2

Searches(f, n, key, k) == f = [span \in Spans(n) |-> Turn(f, key, k, span[1], span[2])]

(* The recursion of a search has a solution.                                *)
LEMMA SearchDefined ==
  ASSUME NEW n \in Nat, NEW key, NEW k
  PROVE  \E f : Searches(f, n, key, k)
<1> DEFINE Upto(f, d) == \A lo, hi \in 0..n : hi - lo <= d => f[<<lo, hi>>] = Turn(f, key, k, lo, hi)
           S == {d \in Nat : \E f : Upto(f, d)}
<1>1. 0 \in S
  <2> DEFINE g == [span \in Spans(n) |-> [index |-> span[1], hit |-> FALSE]]
  <2>1. ASSUME NEW lo \in 0..n, NEW hi \in 0..n, hi - lo <= 0
        PROVE  g[<<lo, hi>>] = Turn(g, key, k, lo, hi)
    <3>1. g[<<lo, hi>>] = [index |-> lo, hit |-> FALSE]
      BY DEF Spans
    <3>2. lo >= hi
      BY <2>1
    <3> HIDE DEF g
    <3>3. QED
      BY <3>1, <3>2 DEF Turn
  <2> HIDE DEF g
  <2>2. Upto(g, 0)
    BY <2>1
  <2> HIDE DEF Upto
  <2>3. QED
    BY <2>2
<1>2. ASSUME NEW d \in Nat, d \in S PROVE d + 1 \in S
  <2>1. PICK f : Upto(f, d)
    BY <1>2
  <2> DEFINE g == [span \in Spans(n) |-> IF span[2] - span[1] <= d THEN f[span]
                                          ELSE Turn(f, key, k, span[1], span[2])]
  <2>2. ASSUME NEW lo \in 0..n, NEW hi \in 0..n
        PROVE  g[<<lo, hi>>] = IF hi - lo <= d THEN f[<<lo, hi>>] ELSE Turn(f, key, k, lo, hi)
    BY DEF Spans
  <2> HIDE DEF g
  <2>3. ASSUME NEW lo \in 0..n, NEW hi \in 0..n, hi - lo <= d + 1
        PROVE  g[<<lo, hi>>] = Turn(g, key, k, lo, hi)
    <3>1. g[<<lo, hi>>] = Turn(f, key, k, lo, hi)
      BY <2>1, <2>2
    <3>2. ASSUME NEW a \in lo..hi, NEW b \in lo..hi, b - a < hi - lo
          PROVE  f[<<a, b>>] = g[<<a, b>>]
      <4>1. a \in 0..n /\ b \in 0..n /\ b - a <= d
        BY <2>3, <3>2
      <4>2. QED
        BY <2>2, <4>1
    <3>3. Turn(f, key, k, lo, hi) = Turn(g, key, k, lo, hi)
      BY <3>2, TurnNarrows
    <3>4. QED
      BY <3>1, <3>3
  <2>4. Upto(g, d + 1)
    BY <2>3
  <2> HIDE DEF Upto
  <2>5. (\E h : Upto(h, d + 1)) /\ d + 1 \in Nat
    BY <2>4
  <2>6. QED
    BY <2>5, Zenon
<1>3. n \in S
  <2> HIDE DEF S
  <2>1. Nat \subseteq S
    BY <1>1, <1>2, Induction
  <2>2. QED
    BY <2>1
<1>4. PICK f : Upto(f, n)
  BY <1>3
<1> DEFINE h == [span \in Spans(n) |-> f[span]]
<1>5. ASSUME NEW lo \in 0..n, NEW hi \in 0..n
      PROVE  h[<<lo, hi>>] = f[<<lo, hi>>] /\ h[<<lo, hi>>] = Turn(h, key, k, lo, hi)
  <2>1. \A a, b \in 0..n : h[<<a, b>>] = f[<<a, b>>]
    BY DEF Spans
  <2> HIDE DEF h
  <2>2. hi - lo <= n
    OBVIOUS
  <2>3. f[<<lo, hi>>] = Turn(f, key, k, lo, hi)
    BY <1>4, <2>2
  <2>4. \A a, b \in lo..hi : f[<<a, b>>] = h[<<a, b>>]
    <3>1. \A a \in lo..hi : a \in 0..n
      OBVIOUS
    <3>2. QED
      BY <2>1, <3>1
  <2>5. Turn(f, key, k, lo, hi) = Turn(h, key, k, lo, hi)
    BY <2>4, TurnNarrows
  <2>6. QED
    BY <2>1, <2>3, <2>5
<1>6. ASSUME NEW span \in Spans(n) PROVE h[span] = Turn(h, key, k, span[1], span[2])
  <2>1. PICK lo \in 0..n, hi \in 0..n : span = <<lo, hi>>
    BY DEF Spans
  <2> HIDE DEF h
  <2>2. QED
    BY <1>5, <2>1
<1>7. h = [span \in Spans(n) |-> h[span]]
  OBVIOUS
<1> HIDE DEF h
<1>8. h = [span \in Spans(n) |-> Turn(h, key, k, span[1], span[2])]
  BY <1>6, <1>7
<1>9. QED
  BY <1>8 DEF Searches

Ascending(key, n) == \A i, j \in 1..n : i < j => key[i] <= key[j]

(* The keys in front of lo are less than k, those from hi on greater.       *)
Around(key, n, k, lo, hi) == /\ \A i \in 1..lo : key[i] < k
                             /\ \A i \in (hi + 1)..n : k < key[i]

(* Where k is, or between which keys. *)
Located(r, n, key, k) ==
  /\ r \in [index : 0..n, hit : BOOLEAN]
  /\ r.hit => r.index < n /\ key[r.index + 1] = k
  /\ ~r.hit /\ Ascending(key, n) => Around(key, n, k, r.index, r.index)

(* The same, if what lies outside of the span is known. *)
LocatedIn(r, n, key, k, lo, hi) ==
  /\ r \in [index : 0..n, hit : BOOLEAN]
  /\ r.hit => r.index < n /\ key[r.index + 1] = k
  /\ ~r.hit /\ Ascending(key, n) /\ Around(key, n, k, lo, hi) => Around(key, n, k, r.index, r.index)

(* A turn locates the key if every search of a narrower span does.          *)
LEMMA TurnLocates ==
  ASSUME NEW n \in Nat, NEW key, \A i \in 1..n : key[i] \in Int, NEW k \in Int, NEW f,
         NEW lo \in 0..n, NEW hi \in 0..n, lo <= hi,
         \A a, b \in 0..n : a <= b /\ b - a < hi - lo => LocatedIn(f[<<a, b>>], n, key, k, a, b)
  PROVE  LocatedIn(Turn(f, key, k, lo, hi), n, key, k, lo, hi)
<1>1. CASE lo = hi
  <2>1. Turn(f, key, k, lo, hi) = [index |-> lo, hit |-> FALSE]
    BY <1>1 DEF Turn
  <2>2. QED
    BY <1>1, <2>1 DEF LocatedIn
<1>2. CASE lo < hi
  <2> DEFINE middle == lo + (hi - lo) \div 2
  <2>1. middle \in lo..(hi - 1)
    BY <1>2, Middle
  <2>2. ~(lo >= hi)
    BY <1>2
  <2>3. Turn(f, key, k, lo, hi) = IF key[middle + 1] = k THEN [index |-> middle, hit |-> TRUE]
                                  ELSE IF key[middle + 1] < k THEN f[<<middle + 1, hi>>]
                                  ELSE f[<<lo, middle>>]
    BY <2>2 DEF Turn
  <2> HIDE DEF middle
  <2>4. /\ middle \in 0..n /\ middle + 1 \in 1..n /\ middle + 1 \in 0..n /\ middle < n
        /\ middle + 1 <= hi /\ hi - (middle + 1) < hi - lo /\ lo <= middle /\ middle - lo < hi - lo
        /\ key[middle + 1] \in Int
    BY <2>1
  <2>5. CASE key[middle + 1] = k
    <3>1. Turn(f, key, k, lo, hi) = [index |-> middle, hit |-> TRUE]
      BY <2>3, <2>5
    <3>2. QED
      BY <2>4, <2>5, <3>1 DEF LocatedIn
  <2>6. CASE key[middle + 1] < k
    <3>1. Turn(f, key, k, lo, hi) = f[<<middle + 1, hi>>]
      BY <2>3, <2>4, <2>6
    <3>2. LocatedIn(f[<<middle + 1, hi>>], n, key, k, middle + 1, hi)
      BY <2>4
    <3>3. ASSUME Ascending(key, n), Around(key, n, k, lo, hi) PROVE Around(key, n, k, middle + 1, hi)
      <4>1. ASSUME NEW i \in 1..(middle + 1) PROVE key[i] < k
        <5>1. i \in 1..n /\ key[i] \in Int /\ key[i] <= key[middle + 1]
          BY <2>4, <3>3 DEF Ascending
        <5>2. QED
          BY <2>4, <2>6, <5>1
      <4>2. QED
        BY <3>3, <4>1 DEF Around
    <3>4. QED
      BY <3>1, <3>2, <3>3 DEF LocatedIn
  <2>7. CASE key[middle + 1] > k
    <3>1. Turn(f, key, k, lo, hi) = f[<<lo, middle>>]
      BY <2>3, <2>4, <2>7
    <3>2. LocatedIn(f[<<lo, middle>>], n, key, k, lo, middle)
      BY <2>4
    <3>3. ASSUME Ascending(key, n), Around(key, n, k, lo, hi) PROVE Around(key, n, k, lo, middle)
      <4>1. ASSUME NEW i \in (middle + 1)..n PROVE k < key[i]
        <5>1. i \in 1..n /\ key[i] \in Int /\ key[middle + 1] <= key[i]
          BY <2>4, <3>3 DEF Ascending
        <5>2. QED
          BY <2>4, <2>7, <5>1
      <4>2. QED
        BY <3>3, <4>1 DEF Around
    <3>4. QED
      BY <3>1, <3>2, <3>3 DEF LocatedIn
  <2>8. QED
    BY <2>4, <2>5, <2>6, <2>7
<1>3. QED
  BY <1>1, <1>2

(* So the search of the whole locates it.                                   *)
LEMMA SearchLocates ==
  ASSUME NEW n \in Nat, NEW key, \A i \in 1..n : key[i] \in Int, NEW k \in Int,
         NEW f, Searches(f, n, key, k)
  PROVE  Located(f[<<0, n>>], n, key, k)
<1> DEFINE Good(d) == \A lo, hi \in 0..n : lo <= hi /\ hi - lo <= d =>
                        LocatedIn(f[<<lo, hi>>], n, key, k, lo, hi)
           S == {d \in Nat : Good(d)}
<1>1. ASSUME NEW lo \in 0..n, NEW hi \in 0..n PROVE f[<<lo, hi>>] = Turn(f, key, k, lo, hi)
  BY DEF Spans, Searches
<1>2. ASSUME NEW lo \in 0..n, NEW hi \in 0..n, lo <= hi,
             \A a, b \in 0..n : a <= b /\ b - a < hi - lo => LocatedIn(f[<<a, b>>], n, key, k, a, b)
      PROVE  LocatedIn(f[<<lo, hi>>], n, key, k, lo, hi)
  BY <1>1, <1>2, TurnLocates
<1>3. Good(0)
  <2>1. ASSUME NEW lo \in 0..n, NEW hi \in 0..n, lo <= hi, hi - lo <= 0
        PROVE  LocatedIn(f[<<lo, hi>>], n, key, k, lo, hi)
    <3>1. \A a, b \in 0..n : ~(a <= b /\ b - a < hi - lo)
      BY <2>1
    <3>2. QED
      BY <1>2, <2>1, <3>1
  <2>2. QED
    BY <2>1
<1>4. ASSUME NEW d \in Nat, Good(d) PROVE Good(d + 1)
  <2>1. ASSUME NEW lo \in 0..n, NEW hi \in 0..n, lo <= hi, hi - lo <= d + 1
        PROVE  LocatedIn(f[<<lo, hi>>], n, key, k, lo, hi)
    <3>1. \A a, b \in 0..n : a <= b /\ b - a < hi - lo => LocatedIn(f[<<a, b>>], n, key, k, a, b)
      BY <1>4, <2>1
    <3>2. QED
      BY <1>2, <2>1, <3>1
  <2>2. QED
    BY <2>1
<1> HIDE DEF Good
<1>5. Nat \subseteq S
  <2>1. 0 \in S /\ \A d \in Nat : d \in S => d + 1 \in S
    BY <1>3, <1>4
  <2> HIDE DEF S
  <2>2. QED
    BY <2>1, Induction
<1>6. Good(n)
  BY <1>5
<1>7. LocatedIn(f[<<0, n>>], n, key, k, 0, n)
  BY <1>6 DEF Good
<1>8. Around(key, n, k, 0, n)
  BY DEF Around
<1>9. QED
  BY <1>7, <1>8 DEF LocatedIn, Located

(* What the binary searches of both structures return. *)
LEMMA BinarySearchLocates ==
  ASSUME NEW s \in Seq(Int), NEW k \in Int
  PROVE  Located(BinarySearch(s, k), Len(s), s, k)
<1> DEFINE f == CHOOSE g : g = [span \in Spans(Len(s)) |-> Turn(g, s, k, span[1], span[2])]
<1>1. Searches(f, Len(s), s, k)
  <2>1. Len(s) \in Nat
    OBVIOUS
  <2>2. \E g : Searches(g, Len(s), s, k)
    BY <2>1, SearchDefined
  <2>3. QED
    BY <2>2 DEF Searches
<1>2. BinarySearch(s, k) = f[<<0, Len(s)>>]
  BY DEF BinarySearch, Spans, Turn
<1> HIDE DEF f
<1>3. Len(s) \in Nat /\ \A i \in 1..Len(s) : s[i] \in Int
  OBVIOUS
<1>4. QED
  BY <1>1, <1>2, <1>3, SearchLocates

(* A function on 1..n is a sequence.                                        *)
LEMMA FunctionIsSeq ==
  ASSUME NEW S, NEW n \in Nat, NEW f \in [1..n -> S]
  PROVE  f \in Seq(S) /\ Len(f) = n
<1>1. f \in Seq(S)
  BY SeqDef
<1>2. QED
  BY <1>1, LenProperties

(* What an insertion into a sequence gives.                                 *)
LEMMA InsertAtIs ==
  ASSUME NEW S, NEW s \in Seq(S), NEW i \in 1..(Len(s) + 1), NEW e \in S
  PROVE  /\ InsertAt(s, i, e) \in Seq(S) /\ Len(InsertAt(s, i, e)) = Len(s) + 1
         /\ \A j \in 1..(Len(s) + 1) :
              InsertAt(s, i, e)[j] = IF j < i THEN s[j] ELSE IF j = i THEN e ELSE s[j - 1]
<1> DEFINE n == Len(s)
           front == SubSeq(s, 1, i - 1)
           back == SubSeq(s, i, n)
           mid == front \o <<e>>
<1>0. n \in Nat /\ i \in Nat /\ i - 1 \in 0..n /\ \A j \in 1..n : s[j] \in S
  BY ElementOfSeq
<1>1. front \in Seq(S) /\ Len(front) = i - 1 /\ \A j \in 1..(i - 1) : front[j] = s[j]
  <2>1. \A j \in 1..(i - 1) : s[j] \in S
    BY <1>0
  <2>2. QED
    BY <1>0, <2>1, SubSeqProperties
<1>2. back \in Seq(S) /\ Len(back) = n - i + 1 /\ \A j \in 1..(n - i + 1) : back[j] = s[i + j - 1]
  <2>1. \A j \in i..n : s[j] \in S
    BY <1>0
  <2>2. QED
    BY <1>0, <2>1, SubSeqProperties
<1>3. <<e>> \in Seq(S) /\ Len(<<e>>) = 1 /\ <<e>>[1] = e
  OBVIOUS
<1> HIDE DEF n, front, back
<1>4. mid \in Seq(S) /\ Len(mid) = i /\ \A j \in 1..i : mid[j] = IF j < i THEN s[j] ELSE e
  <2>1. /\ mid \in Seq(S) /\ Len(mid) = (i - 1) + 1
        /\ \A j \in 1..((i - 1) + 1) : mid[j] = IF j <= i - 1 THEN front[j] ELSE <<e>>[j - (i - 1)]
    BY <1>1, <1>3, ConcatProperties
  <2> HIDE DEF mid
  <2>2. ASSUME NEW j \in 1..i PROVE mid[j] = IF j < i THEN s[j] ELSE e
    <3>1. CASE j < i
      BY <1>0, <1>1, <2>1, <3>1
    <3>2. CASE j = i
      <4>1. j \in 1..((i - 1) + 1) /\ ~(j <= i - 1) /\ j - (i - 1) = 1 /\ ~(j < i)
        BY <1>0, <3>2
      <4>2. mid[j] = <<e>>[j - (i - 1)]
        BY <2>1, <4>1
      <4>3. QED
        BY <1>3, <4>1, <4>2
    <3>3. QED
      BY <1>0, <3>1, <3>2
  <2>3. QED
    BY <1>0, <2>1, <2>2
<1>5. InsertAt(s, i, e) = mid \o back
  BY DEF InsertAt, front, back, n
<1> HIDE DEF mid
<1>6. /\ mid \o back \in Seq(S) /\ Len(mid \o back) = i + (n - i + 1)
      /\ \A j \in 1..(i + (n - i + 1)) : (mid \o back)[j] = IF j <= i THEN mid[j] ELSE back[j - i]
  <2>1. mid \in Seq(S) /\ back \in Seq(S)
    BY <1>2, <1>4
  <2>2. /\ mid \o back \in Seq(S) /\ Len(mid \o back) = Len(mid) + Len(back)
        /\ \A j \in 1..(Len(mid) + Len(back)) :
             (mid \o back)[j] = IF j <= Len(mid) THEN mid[j] ELSE back[j - Len(mid)]
    BY <2>1, ConcatProperties
  <2>3. Len(mid) = i /\ Len(back) = n - i + 1
    BY <1>2, <1>4
  <2>4. QED
    BY <2>2, <2>3
<1>7. ASSUME NEW j \in 1..(n + 1)
      PROVE  (mid \o back)[j] = IF j < i THEN s[j] ELSE IF j = i THEN e ELSE s[j - 1]
  <2>1. j \in 1..(i + (n - i + 1))
    BY <1>0
  <2>2. CASE j <= i
    <3>1. (mid \o back)[j] = mid[j]
      BY <1>6, <2>1, <2>2
    <3>2. j \in 1..i /\ (~(j < i) => j = i)
      BY <1>0, <2>2
    <3>3. mid[j] = IF j < i THEN s[j] ELSE e
      BY <1>4, <3>2
    <3>4. j < i => mid[j] = s[j]
      BY <3>3
    <3>5. ~(j < i) => mid[j] = e /\ j = i
      BY <3>2, <3>3
    <3>6. QED
      BY <3>1, <3>4, <3>5
  <2>3. CASE j > i
    <3>1. j - i \in 1..(n - i + 1) /\ i + (j - i) - 1 = j - 1
      BY <1>0, <2>3
    <3>2. back[j - i] = s[i + (j - i) - 1]
      BY <1>2, <3>1
    <3>3. j \in Int /\ i \in Int
      BY <1>0
    <3>4. (mid \o back)[j] = back[j - i]
      BY <1>6, <2>1, <2>3, <3>3
    <3>5. ~(j < i) /\ j # i
      BY <2>3, <3>3
    <3>6. (mid \o back)[j] = s[j - 1]
      BY <3>1, <3>2, <3>4, Zenon
    <3>7. QED
      BY <3>5, <3>6, Zenon
  <2>4. j \in Int /\ i \in Int
    BY <1>0
  <2>5. j <= i \/ j > i
    BY <2>4
  <2>6. QED
    BY <2>2, <2>3, <2>5, Zenon
<1>8. QED
  BY <1>0, <1>5, <1>6, <1>7 DEF n

(* What a removal from a sequence gives.                                    *)
LEMMA RemoveAtIs ==
  ASSUME NEW S, NEW s \in Seq(S), NEW i \in 1..Len(s)
  PROVE  /\ RemoveAt(s, i) \in Seq(S) /\ Len(RemoveAt(s, i)) = Len(s) - 1
         /\ \A j \in 1..(Len(s) - 1) : RemoveAt(s, i)[j] = IF j < i THEN s[j] ELSE s[j + 1]
<1> DEFINE n == Len(s)
           front == SubSeq(s, 1, i - 1)
           back == SubSeq(s, i + 1, n)
<1>0. n \in Nat /\ i \in 1..n /\ i \in Nat /\ i - 1 \in 0..n /\ \A j \in 1..n : s[j] \in S
  BY ElementOfSeq
<1>1. front \in Seq(S) /\ Len(front) = i - 1 /\ \A j \in 1..(i - 1) : front[j] = s[j]
  <2>1. \A j \in 1..(i - 1) : s[j] \in S
    BY <1>0
  <2>2. QED
    BY <1>0, <2>1, SubSeqProperties
<1>2. back \in Seq(S) /\ Len(back) = n - i /\ \A j \in 1..(n - i) : back[j] = s[i + j]
  <2>1. \A j \in (i + 1)..n : s[j] \in S
    BY <1>0
  <2>2. /\ back \in Seq(S) /\ Len(back) = IF i + 1 <= n THEN n - (i + 1) + 1 ELSE 0
        /\ \A j \in 1..(n - (i + 1) + 1) : back[j] = s[(i + 1) + j - 1]
    BY <1>0, <2>1, SubSeqProperties
  <2> HIDE DEF back, n
  <2>3. Len(back) = n - i
    BY <1>0, <2>2
  <2>4. ASSUME NEW j \in 1..(n - i) PROVE back[j] = s[i + j]
    <3>1. j \in 1..(n - (i + 1) + 1) /\ (i + 1) + j - 1 = i + j
      BY <1>0
    <3>2. QED
      BY <2>2, <3>1
  <2>5. QED
    BY <2>2, <2>3, <2>4
<1>3. RemoveAt(s, i) = front \o back
  BY DEF RemoveAt
<1> HIDE DEF n, front, back
<1>4. /\ front \o back \in Seq(S) /\ Len(front \o back) = (i - 1) + (n - i)
      /\ \A j \in 1..((i - 1) + (n - i)) : (front \o back)[j] = IF j <= i - 1 THEN front[j] ELSE back[j - (i - 1)]
  <2>1. front \in Seq(S) /\ back \in Seq(S)
    BY <1>1, <1>2
  <2>2. /\ front \o back \in Seq(S) /\ Len(front \o back) = Len(front) + Len(back)
        /\ \A j \in 1..(Len(front) + Len(back)) :
             (front \o back)[j] = IF j <= Len(front) THEN front[j] ELSE back[j - Len(front)]
    BY <2>1, ConcatProperties
  <2>3. Len(front) = i - 1 /\ Len(back) = n - i
    BY <1>1, <1>2
  <2>4. QED
    BY <2>2, <2>3
<1>5. ASSUME NEW j \in 1..(n - 1) PROVE (front \o back)[j] = IF j < i THEN s[j] ELSE s[j + 1]
  <2>1. j \in 1..((i - 1) + (n - i))
    BY <1>0
  <2>2. CASE j < i
    BY <1>0, <1>1, <1>4, <2>1, <2>2
  <2>3. CASE j >= i
    <3>1. j - (i - 1) \in 1..(n - i) /\ i + (j - (i - 1)) = j + 1
      BY <1>0, <2>3
    <3>2. back[j - (i - 1)] = s[j + 1]
      BY <1>2, <3>1
    <3>3. j \in Int /\ i \in Int
      BY <1>0
    <3>4. (front \o back)[j] = back[j - (i - 1)]
      BY <1>4, <2>1, <2>3, <3>3
    <3>5. QED
      BY <2>3, <3>2, <3>3, <3>4
  <2>4. j \in Int /\ i \in Int
    BY <1>0
  <2>5. j < i \/ j >= i
    BY <2>4
  <2>6. QED
    BY <2>2, <2>3, <2>5, Zenon
<1>6. QED
  BY <1>0, <1>3, <1>4, <1>5 DEF n
-----------------------------------------------------------------------------
Blocks == Seq(Keys \cup {Junk})

(* The elements lie inside the block, and only a block with elements has an *)
(* unused front.                                                            *)
Fine(x) ==
  /\ x \in [block : Blocks \cup {NULL}, length : Nat, offset : Nat]
  /\ x.length = 0 => x.offset = 0
  /\ x.length > 0 => x.block \in Blocks /\ x.offset + x.length <= Len(x.block)
  /\ \A i \in InUse(x) : x.block[i] \in Keys

(* The items of an array in its block.                                      *)
LEMMA ItemsAre ==
  ASSUME NEW x, Fine(x)
  PROVE  /\ Items(x) \in Seq(Keys) /\ Len(Items(x)) = x.length
         /\ \A i \in 1..x.length : Items(x)[i] = x.block[x.offset + i]
<1>0. x.length \in Nat /\ x.offset \in Nat
  BY DEF Fine
<1>1. CASE x.length = 0
  <2>1. Items(x) = <<>>
    BY <1>1 DEF Items
  <2>2. QED
    BY <1>1, <2>1
<1>2. CASE x.length > 0
  <2> DEFINE b == x.block
             lo == x.offset + 1
             hi == x.offset + x.length
  <2>0. x.length # 0
    BY <1>0, <1>2
  <2>1. Items(x) = SubSeq(b, lo, hi)
    BY <2>0, Zenon DEF Items
  <2>2. lo \in Int /\ hi \in Int /\ lo <= hi /\ hi - lo + 1 = x.length
    BY <1>0, <1>2
  <2>3. \A i \in lo..hi : b[i] \in Keys
    BY DEF Fine, InUse
  <2> HIDE DEF b, lo, hi
  <2>4. /\ SubSeq(b, lo, hi) \in Seq(Keys)
        /\ Len(SubSeq(b, lo, hi)) = IF lo <= hi THEN hi - lo + 1 ELSE 0
        /\ \A i \in 1..(hi - lo + 1) : SubSeq(b, lo, hi)[i] = b[lo + i - 1]
    BY <2>2, <2>3, SubSeqProperties
  <2>5. \A i \in 1..x.length : lo + i - 1 = x.offset + i
    BY <1>0 DEF lo
  <2>6. QED
    BY <2>1, <2>2, <2>4, <2>5 DEF b
<1>3. QED
  BY <1>0, <1>1, <1>2

(* When they are the sequence t.                                            *)
LEMMA ItemsIs ==
  ASSUME NEW x, Fine(x), NEW t \in Seq(Keys), Len(t) = x.length,
         \A i \in 1..x.length : x.block[x.offset + i] = t[i]
  PROVE  Items(x) = t
<1>1. /\ Items(x) \in Seq(Keys) /\ Len(Items(x)) = Len(t)
      /\ \A i \in 1..Len(Items(x)) : Items(x)[i] = t[i]
  BY ItemsAre
<1>2. QED
  BY <1>1, SeqEqual

(* An array that becomes empty starts at the front of its block again.      *)
LEMMA TidyKeeps == ASSUME NEW x, Fine(x) PROVE Fine(Tidy(x)) /\ Items(Tidy(x)) = Items(x)
<1>1. CASE x.block = NULL
  BY <1>1 DEF Tidy
<1>2. CASE x.block # NULL
  <2> DEFINE b == [i \in DOMAIN x.block |-> IF i \in InUse(x) THEN x.block[i] ELSE Junk]
             y == Tidy(x)
  <2>0. x.length \in Nat /\ x.offset \in Nat /\ x.block \in Blocks
    BY <1>2 DEF Fine
  <2>1. DOMAIN x.block = 1..Len(x.block) /\ Len(x.block) \in Nat
    BY <2>0, LenProperties DEF Blocks
  <2>2. b \in Blocks /\ Len(b) = Len(x.block)
    <3>1. b \in [1..Len(x.block) -> Keys \cup {Junk}]
      BY <2>1 DEF Fine
    <3>2. QED
      BY <2>1, <3>1, FunctionIsSeq DEF Blocks
  <2>3. y = [block |-> b, length |-> x.length, offset |-> x.offset]
    BY <1>2 DEF Tidy, Fine
  <2>4. ASSUME NEW i \in InUse(x) PROVE b[i] = x.block[i] /\ b[i] \in Keys
    <3>1. i \in 1..Len(x.block)
      BY <2>0, <2>1 DEF InUse, Fine
    <3>2. QED
      BY <2>1, <3>1 DEF Fine
  <2> HIDE DEF b, y
  <2>5. y.block = b /\ y.length = x.length /\ y.offset = x.offset /\ InUse(y) = InUse(x)
    BY <2>3 DEF InUse
  <2>6. Fine(y)
    <3>1. y \in [block : Blocks \cup {NULL}, length : Nat, offset : Nat]
      BY <2>0, <2>2, <2>3
    <3>2. QED
      BY <2>2, <2>4, <2>5, <3>1 DEF Fine
  <2>7. Items(y) = Items(x)
    <3>1. \A i \in 1..x.length : y.block[y.offset + i] = Items(x)[i]
      <4>1. ASSUME NEW i \in 1..x.length PROVE x.offset + i \in InUse(x)
        BY <2>0 DEF InUse
      <4>2. QED
        BY <2>4, <2>5, <4>1, ItemsAre
    <3>2. QED
      BY <2>5, <2>6, <3>1, ItemsAre, ItemsIs
  <2>8. QED
    BY <2>6, <2>7 DEF y
<1>3. QED
  BY <1>1, <1>2

(* A record whose fields are in order is such an array.                     *)
LEMMA Makes ==
  ASSUME NEW x \in [block : Blocks, length : Nat, offset : Nat], NEW t \in Seq(Keys),
         Len(t) = x.length, x.length = 0 => x.offset = 0,
         x.length > 0 => x.offset + x.length <= Len(x.block),
         \A i \in 1..x.length : x.block[x.offset + i] = t[i]
  PROVE  Fine(x) /\ Items(x) = t
<1>1. ASSUME NEW i \in InUse(x) PROVE x.block[i] \in Keys
  <2>1. i - x.offset \in 1..x.length /\ i = x.offset + (i - x.offset)
    BY DEF InUse
  <2>2. t[i - x.offset] \in Keys
    BY <2>1, ElementOfSeq
  <2>3. QED
    BY <2>1, <2>2
<1>2. x.block \in Blocks /\ x \in [block : Blocks \cup {NULL}, length : Nat, offset : Nat]
  OBVIOUS
<1>3. Fine(x)
  BY <1>1, <1>2 DEF Fine
<1>4. QED
  BY <1>3, ItemsIs

(* What memmove leaves in a block,                                          *)
LEMMA MoveIs ==
  ASSUME NEW b \in Blocks, NEW to \in Nat, NEW from \in Nat, NEW count \in Nat,
         to + count <= Len(b), from + count <= Len(b)
  PROVE  /\ Move(b, to, from, count) \in Blocks /\ Len(Move(b, to, from, count)) = Len(b)
         /\ \A i \in 1..Len(b) :
              Move(b, to, from, count)[i] =
                IF to + 1 <= i /\ i <= to + count THEN b[i - to + from] ELSE b[i]
<1> DEFINE n == Len(b)
           m == [i \in 1..n |-> IF i \in (to + 1)..(to + count) THEN b[i - to + from] ELSE b[i]]
<1>1. n \in Nat /\ DOMAIN b = 1..n /\ \A i \in 1..n : b[i] \in Keys \cup {Junk}
  BY LenProperties, ElementOfSeq DEF Blocks
<1>2. Move(b, to, from, count) = m
  BY <1>1 DEF Move
<1>3. ASSUME NEW i \in 1..n PROVE m[i] \in Keys \cup {Junk}
  <2>1. ASSUME i \in (to + 1)..(to + count) PROVE i - to + from \in 1..n
    BY <1>1, <2>1
  <2>2. QED
    BY <1>1, <2>1
<1>4. m \in Seq(Keys \cup {Junk}) /\ Len(m) = n
  <2>1. m \in [1..n -> Keys \cup {Junk}]
    BY <1>3
  <2> HIDE DEF m, n
  <2>2. QED
    BY <1>1, <2>1, FunctionIsSeq
<1>5. QED
  BY <1>1, <1>2, <1>4 DEF Blocks

(* what a store of one item does,                                           *)
LEMMA StoreIs ==
  ASSUME NEW b \in Blocks, NEW slot \in Nat, slot + 1 <= Len(b), NEW k \in Keys
  PROVE  /\ Store(b, slot, k) \in Blocks /\ Len(Store(b, slot, k)) = Len(b)
         /\ \A i \in 1..Len(b) : Store(b, slot, k)[i] = IF i = slot + 1 THEN k ELSE b[i]
<1>1. slot + 1 \in 1..Len(b) /\ k \in Keys \cup {Junk} /\ b \in Seq(Keys \cup {Junk})
  BY LenProperties DEF Blocks
<1>2. QED
  BY <1>1, ExceptSeq DEF Store, Blocks

(* and what realloc does.                                                   *)
LEMMA ReallocIs ==
  ASSUME NEW b \in Blocks, NEW n \in Nat
  PROVE  /\ Realloc(b, n) \in Blocks /\ Len(Realloc(b, n)) = n
         /\ \A i \in 1..n : i <= Len(b) => Realloc(b, n)[i] = b[i]
<1> DEFINE r == [i \in 1..n |-> IF i <= Len(b) THEN b[i] ELSE Junk]
<1>1. Len(b) \in Nat /\ \A i \in 1..Len(b) : b[i] \in Keys \cup {Junk}
  BY LenProperties, ElementOfSeq DEF Blocks
<1>2. r \in [1..n -> Keys \cup {Junk}]
  BY <1>1
<1>3. r \in Seq(Keys \cup {Junk}) /\ Len(r) = n
  <2> HIDE DEF r
  <2>1. QED
    BY <1>2, FunctionIsSeq
<1>4. QED
  BY <1>3 DEF Realloc, Blocks

(* The items around one that is inserted.                                   *)
LEMMA InsertedItem ==
  ASSUME NEW s \in Seq(Keys), NEW at \in 1..(Len(s) + 1), NEW k \in Keys, NEW i \in 1..(Len(s) + 1)
  PROVE  InsertAt(s, at, k)[i] = IF i < at THEN s[i] ELSE IF i = at THEN k ELSE s[i - 1]
BY InsertAtIs

(* All of them at once.                                                     *)
LEMMA InsertedAt ==
  ASSUME NEW s \in Seq(Keys), NEW index \in 0..Len(s), NEW k \in Keys
  PROVE  /\ InsertAt(s, index + 1, k) \in Seq(Keys) /\ Len(InsertAt(s, index + 1, k)) = Len(s) + 1
         /\ \A i \in 1..(Len(s) + 1) :
              InsertAt(s, index + 1, k)[i] = IF i < index + 1 THEN s[i]
                                             ELSE IF i = index + 1 THEN k ELSE s[i - 1]
<1>1. index + 1 \in 1..(Len(s) + 1)
  BY LenProperties
<1>2. ASSUME NEW i \in 1..(Len(s) + 1)
      PROVE  InsertAt(s, index + 1, k)[i] = IF i < index + 1 THEN s[i]
                                            ELSE IF i = index + 1 THEN k ELSE s[i - 1]
  BY <1>1, InsertedItem
<1>3. QED
  BY <1>1, <1>2, InsertAtIs

(* An insertion, at the front or at the back of the block. *)
LEMMA InsertedIs ==
  ASSUME NEW x, Fine(x), NEW k \in Keys, NEW index \in 0..x.length
  PROVE  /\ Fine(Inserted(x, k, index))
         /\ Items(Inserted(x, k, index)) = InsertAt(Items(x), index + 1, k)
<1> DEFINE L == x.length
           o == x.offset
           b == x.block
           t == InsertAt(Items(x), index + 1, k)
           y == Inserted(x, k, index)
<1>0. L \in Nat /\ o \in Nat /\ index \in Nat /\ index <= L /\ x \in [block : Blocks \cup {NULL}, length : Nat, offset : Nat]
      /\ (L = 0 => o = 0) /\ (L > 0 => b \in Blocks /\ o + L <= Len(b))
  BY DEF Fine
<1>1. /\ t \in Seq(Keys) /\ Len(t) = L + 1
      /\ \A i \in 1..(L + 1) : t[i] = IF i < index + 1 THEN b[o + i]
                                      ELSE IF i = index + 1 THEN k ELSE b[o + (i - 1)]
  <2>1. PICK u \in Seq(Keys) : u = Items(x) /\ Len(u) = L /\ \A i \in 1..L : u[i] = b[o + i]
    BY ItemsAre
  <2>2. t = InsertAt(u, index + 1, k) /\ index \in 0..Len(u)
    BY <1>0, <2>1
  <2> HIDE DEF L, o, b, t
  <2>3. /\ InsertAt(u, index + 1, k) \in Seq(Keys) /\ Len(InsertAt(u, index + 1, k)) = Len(u) + 1
        /\ \A i \in 1..(Len(u) + 1) :
             InsertAt(u, index + 1, k)[i] = IF i < index + 1 THEN u[i]
                                            ELSE IF i = index + 1 THEN k ELSE u[i - 1]
    BY <2>2, InsertedAt
  <2>4. /\ t \in Seq(Keys) /\ Len(t) = L + 1
        /\ \A i \in 1..(L + 1) : t[i] = IF i < index + 1 THEN u[i]
                                        ELSE IF i = index + 1 THEN k ELSE u[i - 1]
    BY <2>1, <2>2, <2>3
  <2>5. ASSUME NEW i \in 1..(L + 1) PROVE i < index + 1 => i \in 1..L
    BY <1>0, <2>5
  <2>6. ASSUME NEW i \in 1..(L + 1) PROVE ~(i < index + 1) /\ i # index + 1 => i - 1 \in 1..L
    BY <1>0, <2>6
  <2>7. QED
    BY <2>1, <2>4, <2>5, <2>6
<1> HIDE DEF t
<1>2. CASE L = 0
  <2>1. y = [block |-> <<k>>, length |-> 1, offset |-> 0]
    BY <1>0, <1>2 DEF Inserted
  <2>2. <<k>> \in Blocks /\ Len(<<k>>) = 1 /\ <<k>>[1] = k
    BY DEF Blocks
  <2> HIDE DEF y
  <2>3. t[1] = k
    BY <1>0, <1>1, <1>2
  <2>4. QED
    <3>1. y \in [block : Blocks, length : Nat, offset : Nat]
      BY <2>1, <2>2
    <3>2. \A i \in 1..y.length : y.block[y.offset + i] = t[i]
      BY <2>1, <2>2, <2>3
    <3>3. Len(t) = y.length /\ y.length # 0 /\ y.offset + y.length <= Len(y.block)
      BY <1>1, <1>2, <2>1, <2>2
    <3>4. Fine(y) /\ Items(y) = t
      BY <1>1, <3>1, <3>2, <3>3, Makes
    <3>5. QED
      BY <3>4 DEF y, t
<1>3. CASE L > 0 /\ o > 0 /\ index <= L \div 2
  <2> DEFINE start == o - 1
             moved == Move(b, start, o, index)
             stored == Store(moved, start + index, k)
  <2>1. y = [block |-> stored, length |-> L + 1, offset |-> start]
    BY <1>0, <1>3 DEF Inserted, InsertedFront
  <2>2. start \in Nat /\ start + index <= Len(b) /\ o + index <= Len(b) /\ start + index + 1 <= Len(b)
        /\ b \in Blocks /\ Len(b) \in Nat
    BY <1>0, <1>3, LenProperties DEF Blocks
  <2> HIDE DEF y, moved, stored, L, o, b
  <2>3. /\ moved \in Blocks /\ Len(moved) = Len(b)
        /\ \A i \in 1..Len(b) : moved[i] = IF start + 1 <= i /\ i <= start + index THEN b[i - start + o] ELSE b[i]
    BY <1>0, <2>2, MoveIs DEF moved
  <2>4. /\ stored \in Blocks /\ Len(stored) = Len(b)
        /\ \A i \in 1..Len(b) : stored[i] = IF i = start + index + 1 THEN k ELSE moved[i]
    <3>1. start + index \in Nat /\ (start + index) + 1 <= Len(moved)
      BY <1>0, <2>2, <2>3
    <3>2. QED
      BY <2>3, <3>1, StoreIs DEF stored
  <2>5. ASSUME NEW i \in 1..(L + 1) PROVE stored[start + i] = t[i]
    <3>1. start + i \in 1..Len(b)
      BY <1>0, <1>3, <2>2
    <3>2. CASE i < index + 1
      <4>1. (start + i) - start + o = o + i /\ start + 1 <= start + i /\ start + i <= start + index /\ start + i # start + index + 1
        BY <1>0, <2>2, <3>2
      <4>2. stored[start + i] = moved[start + i]
        BY <2>4, <3>1, <4>1
      <4>3. moved[start + i] = b[o + i]
        BY <2>3, <3>1, <4>1
      <4>4. QED
        BY <1>1, <3>2, <4>2, <4>3
    <3>3. CASE i = index + 1
      BY <1>0, <1>1, <2>2, <2>4, <3>1, <3>3
    <3>4. CASE i > index + 1
      <4>1. start + i = o + (i - 1) /\ ~(start + i <= start + index) /\ start + i # start + index + 1
        BY <1>0, <2>2, <3>4
      <4>2. stored[start + i] = moved[start + i]
        BY <2>4, <3>1, <4>1
      <4>3. moved[start + i] = b[start + i]
        BY <2>3, <3>1, <4>1
      <4>4. ~(i < index + 1) /\ i # index + 1
        BY <1>0, <3>4
      <4>5. QED
        BY <1>1, <4>1, <4>2, <4>3, <4>4
    <3>5. i < index + 1 \/ i = index + 1 \/ i > index + 1
      BY <1>0
    <3>6. QED
      BY <3>2, <3>3, <3>4, <3>5, Zenon
  <2>6. y \in [block : Blocks, length : Nat, offset : Nat]
    BY <1>0, <2>1, <2>2, <2>4
  <2>7. /\ Len(t) = y.length /\ y.length # 0 /\ y.offset + y.length <= Len(y.block)
        /\ \A i \in 1..y.length : y.block[y.offset + i] = t[i]
    BY <1>0, <1>1, <1>3, <2>1, <2>2, <2>4, <2>5
  <2>8. Fine(y) /\ Items(y) = t
    BY <1>1, <2>6, <2>7, Makes
  <2>9. QED
    BY <2>8 DEF y, t
<1>4. CASE L > 0 /\ ~(o > 0 /\ index <= L \div 2)
  <2> DEFINE room == Realloc(b, L + o + 1)
             slot == o + index
             moved == Move(room, slot + 1, slot, L - index)
             stored == Store(moved, slot, k)
             n == L + o + 1
  <2>0. y = InsertedBack(x, k, index)
    <3>1. L # 0
      BY <1>0, <1>4
    <3>2. QED
      BY <1>4, <3>1, Zenon DEF Inserted
  <2>1. y = [block |-> stored, length |-> L + 1, offset |-> o]
    BY <1>0, <2>0 DEF InsertedBack
  <2>2. b \in Blocks /\ Len(b) \in Nat /\ o + L <= Len(b)
    BY <1>0, <1>4, LenProperties DEF Blocks
  <2> HIDE DEF y, moved, stored, room, L, o, b
  <2>3. n \in Nat /\ slot \in Nat /\ slot + 1 \in Nat /\ L - index \in Nat
        /\ (slot + 1) + (L - index) <= n /\ slot + (L - index) <= n /\ slot + 1 <= n
    BY <1>0
  <2> HIDE DEF n, slot
  <2>4. room \in Blocks /\ Len(room) = n /\ \A i \in 1..(o + L) : room[i] = b[i]
    <3>1. \A i \in 1..(o + L) : i \in 1..n /\ i <= Len(b)
      BY <1>0, <2>2 DEF n
    <3>2. QED
      BY <2>2, <2>3, <3>1, ReallocIs DEF room, n
  <2>5. /\ moved \in Blocks /\ Len(moved) = n
        /\ \A i \in 1..n : moved[i] = IF (slot + 1) + 1 <= i /\ i <= (slot + 1) + (L - index)
                                      THEN room[i - (slot + 1) + slot] ELSE room[i]
    BY SMTT(30), <2>3, <2>4, MoveIs DEF moved
  <2>6. /\ stored \in Blocks /\ Len(stored) = n
        /\ \A i \in 1..n : stored[i] = IF i = slot + 1 THEN k ELSE moved[i]
    BY <2>3, <2>5, StoreIs DEF stored
  <2>7. ASSUME NEW i \in 1..(L + 1) PROVE stored[o + i] = t[i]
    <3>1. o + i \in 1..n
      BY <1>0 DEF n
    <3>2. CASE i < index + 1
      <4>1. o + i # slot + 1 /\ ~((slot + 1) + 1 <= o + i) /\ o + i \in 1..(o + L)
        BY <1>0, <3>2 DEF slot
      <4>2. stored[o + i] = room[o + i]
        BY <2>5, <2>6, <3>1, <4>1
      <4>3. QED
        BY <1>1, <2>4, <3>2, <4>1, <4>2
    <3>3. CASE i = index + 1
      <4>1. o + i = slot + 1 /\ ~(i < index + 1)
        BY <1>0, <3>3 DEF slot
      <4>2. QED
        BY <1>1, <2>6, <3>1, <3>3, <4>1
    <3>4. CASE i > index + 1
      <4>1. /\ o + i # slot + 1 /\ (slot + 1) + 1 <= o + i /\ o + i <= (slot + 1) + (L - index)
            /\ (o + i) - (slot + 1) + slot = o + (i - 1) /\ o + (i - 1) \in 1..(o + L)
            /\ ~(i < index + 1) /\ i # index + 1
        BY <1>0, <3>4 DEF slot
      <4>2. stored[o + i] = moved[o + i]
        BY <2>6, <3>1, <4>1
      <4>3. moved[o + i] = room[o + (i - 1)]
        BY <2>5, <3>1, <4>1
      <4>4. QED
        BY <1>1, <2>4, <4>1, <4>2, <4>3
    <3>5. i < index + 1 \/ i = index + 1 \/ i > index + 1
      BY <1>0
    <3>6. QED
      BY <3>2, <3>3, <3>4, <3>5, Zenon
  <2>8. y \in [block : Blocks, length : Nat, offset : Nat]
    BY <1>0, <2>1, <2>6
  <2>9. /\ Len(t) = y.length /\ y.length # 0 /\ y.offset + y.length <= Len(y.block)
        /\ \A i \in 1..y.length : y.block[y.offset + i] = t[i]
    BY <1>0, <1>1, <2>1, <2>6, <2>7 DEF n
  <2>10. Fine(y) /\ Items(y) = t
    BY <1>1, <2>8, <2>9, Makes
  <2>11. QED
    BY <2>10 DEF y, t
<1>5. QED
  BY <1>0, <1>2, <1>3, <1>4

(* The two fields that a removal or a merge assigns.                        *)
LEMMA TwoFields ==
  ASSUME NEW S, NEW x \in [block : S, length : Nat, offset : Nat], NEW m, NEW n \in Nat
  PROVE  [x EXCEPT !.block = m, !.length = n] = [block |-> m, length |-> n, offset |-> x.offset]
<1> DEFINE y == [x EXCEPT !.block = m, !.length = n]
<1>1. y.block = m /\ y.length = n /\ y.offset = x.offset
  OBVIOUS
<1>2. y \in [block : {m}, length : Nat, offset : Nat]
  OBVIOUS
<1> HIDE DEF y
<1>3. y = [block |-> y.block, length |-> y.length, offset |-> y.offset]
  BY <1>2
<1>4. QED
  BY <1>1, <1>3 DEF y

(* The items around one that is removed.                                    *)
LEMMA RemovedItem ==
  ASSUME NEW S, NEW s \in Seq(S), NEW at \in 1..Len(s), NEW i \in 1..(Len(s) - 1)
  PROVE  RemoveAt(s, at)[i] = IF i < at THEN s[i] ELSE s[i + 1]
BY RemoveAtIs

(* A removal, at the front or at the back, with or without a smaller block. *)
LEMMA RemovedIs ==
  ASSUME NEW x, Fine(x), NEW index \in 0..(x.length - 1), NEW y \in RemovedItems(x, index)
  PROVE  Fine(y) /\ Items(y) = RemoveAt(Items(x), index + 1)
<1> DEFINE L == x.length
           o == x.offset
           b == x.block
           t == RemoveAt(Items(x), index + 1)
<1>0. /\ L \in Nat /\ o \in Nat /\ index \in Nat /\ index < L /\ L > 0
      /\ x \in [block : Blocks \cup {NULL}, length : Nat, offset : Nat]
      /\ b \in Blocks /\ o + L <= Len(b) /\ Len(b) \in Nat
  BY LenProperties DEF Fine, Blocks
<1>1. /\ t \in Seq(Keys) /\ Len(t) = L - 1
      /\ \A i \in 1..(L - 1) : t[i] = IF i < index + 1 THEN b[o + i] ELSE b[o + (i + 1)]
  <2>1. PICK u \in Seq(Keys) : u = Items(x) /\ Len(u) = L /\ \A i \in 1..L : u[i] = b[o + i]
    BY ItemsAre
  <2>2. PICK at \in 1..Len(u) : at = index + 1
    BY <1>0, <2>1
  <2> HIDE DEF L, o, b
  <2>3. /\ RemoveAt(u, at) \in Seq(Keys) /\ Len(RemoveAt(u, at)) = Len(u) - 1
        /\ \A i \in 1..(Len(u) - 1) : RemoveAt(u, at)[i] = IF i < at THEN u[i] ELSE u[i + 1]
    BY RemoveAtIs
  <2>4. t = RemoveAt(u, at)
    BY <2>1, <2>2
  <2> HIDE DEF t
  <2>5. /\ t \in Seq(Keys) /\ Len(t) = L - 1
        /\ \A i \in 1..(L - 1) : t[i] = IF i < index + 1 THEN u[i] ELSE u[i + 1]
    BY <2>1, <2>2, <2>3, <2>4
  <2>6. ASSUME NEW i \in 1..(L - 1) PROVE i \in 1..L /\ i + 1 \in 1..L
    BY <1>0
  <2>7. QED
    BY <2>1, <2>5, <2>6
<1> HIDE DEF t
<1>2. CASE index < L \div 2 /\ L > OFFSET_THRESHOLD
  <2> DEFINE moved == Move(b, o + 1, o, index)
  <2>1. y = [block |-> moved, length |-> L - 1, offset |-> o + 1]
    BY <1>2 DEF RemovedItems, RemovedFront
  <2>2. L > 1 /\ o + 1 \in Nat /\ (o + 1) + index <= Len(b) /\ o + index <= Len(b)
    BY <1>0, <1>2, OffsetThresholdAssumption
  <2> HIDE DEF moved, L, o, b
  <2>3. /\ moved \in Blocks /\ Len(moved) = Len(b)
        /\ \A i \in 1..Len(b) : moved[i] = IF (o + 1) + 1 <= i /\ i <= (o + 1) + index
                                           THEN b[i - (o + 1) + o] ELSE b[i]
    BY <1>0, <2>2, MoveIs DEF moved
  <2>4. ASSUME NEW i \in 1..(L - 1) PROVE moved[(o + 1) + i] = t[i]
    <3>1. (o + 1) + i \in 1..Len(b)
      BY <1>0
    <3>2. CASE i < index + 1
      <4>1. /\ (o + 1) + 1 <= (o + 1) + i /\ (o + 1) + i <= (o + 1) + index
            /\ ((o + 1) + i) - (o + 1) + o = o + i
        BY <1>0, <3>2
      <4>2. moved[(o + 1) + i] = b[o + i]
        BY <2>3, <3>1, <4>1
      <4>3. QED
        BY <1>1, <3>2, <4>2
    <3>3. CASE i >= index + 1
      <4>1. ~((o + 1) + i <= (o + 1) + index) /\ (o + 1) + i = o + (i + 1) /\ ~(i < index + 1)
        BY <1>0, <3>3
      <4>2. moved[(o + 1) + i] = b[o + (i + 1)]
        BY <2>3, <3>1, <4>1
      <4>3. QED
        BY <1>1, <4>1, <4>2
    <3>4. i < index + 1 \/ i >= index + 1
      BY <1>0
    <3>5. QED
      BY <3>2, <3>3, <3>4, Zenon
  <2>5. y \in [block : Blocks, length : Nat, offset : Nat]
    BY <1>0, <2>1, <2>2, <2>3
  <2>6. /\ Len(t) = y.length /\ y.length # 0 /\ y.offset + y.length <= Len(y.block)
        /\ \A i \in 1..y.length : y.block[y.offset + i] = t[i]
    BY <1>0, <1>1, <2>1, <2>2, <2>3, <2>4
  <2>7. Fine(y) /\ Items(y) = t
    BY <1>1, <2>5, <2>6, Makes
  <2>8. QED
    BY <2>7 DEF t
<1>3. CASE ~(index < L \div 2 /\ L > OFFSET_THRESHOLD)
  <2> DEFINE slot == o + index
             moved == Move(b, slot, slot + 1, L - index - 1)
             smaller == Realloc(moved, (L - 1) + o)
  <2>1. y \in RemovedBack(x, index)
    BY <1>3, Zenon DEF RemovedItems
  <2>2. CASE L = 1
    <3>1. y = Empty
      BY <1>0, <2>1, <2>2 DEF RemovedBack
    <3>2. t = <<>>
      BY <1>0, <1>1, <2>2, EmptySeq
    <3>3. Fine(y) /\ Items(y) = <<>>
      BY <3>1 DEF Fine, Empty, Items, InUse
    <3>4. QED
      BY <3>2, <3>3 DEF t
  <2>3. CASE L # 1
    <3>1. \/ y = [block |-> moved, length |-> L - 1, offset |-> o]
          \/ y = [block |-> smaller, length |-> L - 1, offset |-> o]
      <4>0. L - 1 \in Nat
        BY <1>0
      <4>1. \A m : [x EXCEPT !.block = m, !.length = @ - 1] = [block |-> m, length |-> L - 1, offset |-> o]
        BY <1>0, <4>0, TwoFields
      <4>2. [[block |-> moved, length |-> L - 1, offset |-> o] EXCEPT !.block = smaller]
              = [block |-> smaller, length |-> L - 1, offset |-> o]
        OBVIOUS
      <4> DEFINE rest == [block |-> moved, length |-> L - 1, offset |-> o]
      <4>3. rest.length # 0 /\ rest.length + rest.offset = (L - 1) + o
        BY <1>0, <2>3
      <4>4. RemovedBack(x, index) = {rest, [rest EXCEPT !.block = smaller]}
        BY <4>1, <4>3 DEF RemovedBack
      <4>5. QED
        BY <2>1, <4>2, <4>4
    <3>2. /\ slot \in Nat /\ slot + 1 \in Nat /\ L - index - 1 \in Nat /\ (L - 1) + o \in Nat
          /\ slot + (L - index - 1) <= Len(b) /\ (slot + 1) + (L - index - 1) <= Len(b)
          /\ (L - 1) + o <= Len(b)
      BY <1>0
    <3> HIDE DEF L, o, b, slot, moved, smaller
    <3>3. /\ moved \in Blocks /\ Len(moved) = Len(b)
          /\ \A i \in 1..Len(b) : moved[i] = IF slot + 1 <= i /\ i <= slot + (L - index - 1)
                                             THEN b[i - slot + (slot + 1)] ELSE b[i]
      BY SMTT(30), <1>0, <3>2, MoveIs DEF moved
    <3>4. /\ smaller \in Blocks /\ Len(smaller) = (L - 1) + o
          /\ \A i \in 1..((L - 1) + o) : smaller[i] = moved[i]
      <4>1. \A i \in 1..((L - 1) + o) : i <= Len(moved)
        BY <1>0, <3>2, <3>3
      <4>2. QED
        BY <3>2, <3>3, <4>1, ReallocIs DEF smaller
    <3>5. ASSUME NEW i \in 1..(L - 1) PROVE moved[o + i] = t[i] /\ o + i \in 1..((L - 1) + o)
      <4>1. o + i \in 1..Len(b) /\ o + i \in 1..((L - 1) + o)
        BY <1>0
      <4>2. CASE i < index + 1
        <5>1. ~(slot + 1 <= o + i)
          BY <1>0, <4>2 DEF slot
        <5>2. QED
          BY <1>1, <3>3, <4>1, <4>2, <5>1
      <4>3. CASE i >= index + 1
        <5>1. /\ slot + 1 <= o + i /\ o + i <= slot + (L - index - 1)
              /\ (o + i) - slot + (slot + 1) = o + (i + 1) /\ ~(i < index + 1)
          BY <1>0, <4>3 DEF slot
        <5>2. moved[o + i] = b[o + (i + 1)]
          BY <3>3, <4>1, <5>1
        <5>3. QED
          BY <1>1, <4>1, <5>1, <5>2
      <4>4. i < index + 1 \/ i >= index + 1
        BY <1>0
      <4>5. QED
        BY <4>2, <4>3, <4>4, <4>1, Zenon
    <3>6. y \in [block : Blocks, length : Nat, offset : Nat]
      BY <1>0, <3>1, <3>3, <3>4
    <3>7. /\ Len(t) = y.length /\ y.length # 0 /\ y.offset + y.length <= Len(y.block)
          /\ \A i \in 1..y.length : y.block[y.offset + i] = t[i]
      <4>1. L - 1 # 0 /\ o + (L - 1) <= Len(moved) /\ o + (L - 1) <= Len(smaller)
        BY <1>0, <2>3, <3>2, <3>3, <3>4
      <4>2. \A i \in 1..(L - 1) : smaller[o + i] = t[i]
        BY <3>4, <3>5
      <4>3. CASE y = [block |-> moved, length |-> L - 1, offset |-> o]
        BY <1>1, <3>5, <4>1, <4>3
      <4>4. CASE y = [block |-> smaller, length |-> L - 1, offset |-> o]
        BY <1>1, <4>1, <4>2, <4>4
      <4>5. QED
        BY <3>1, <4>3, <4>4
    <3>8. Fine(y) /\ Items(y) = t
      BY <1>1, <3>6, <3>7, Makes
    <3>9. QED
      BY <3>8 DEF t
  <2>4. QED
    BY <2>2, <2>3
<1>4. QED
  BY <1>2, <1>3

(* What is moved to the start of its block is not changed by that. *)
LEMMA CompactIs ==
  ASSUME NEW x, Fine(x), x.offset > 0,
         NEW block \in {Move(x.block, 0, x.offset, x.length),
                        Realloc(Move(x.block, 0, x.offset, x.length), x.length)},
         NEW y, y = [x EXCEPT !.block = block, !.offset = 0]
  PROVE  Fine(y) /\ Items(y) = Items(x)
<1> DEFINE L == x.length
           o == x.offset
           b == x.block
           moved == Move(b, 0, o, L)
           smaller == Realloc(moved, L)
<1>0. /\ L \in Nat /\ o \in Nat /\ L > 0 /\ L # 0
      /\ x \in [block : Blocks \cup {NULL}, length : Nat, offset : Nat]
      /\ b \in Blocks /\ o + L <= Len(b) /\ Len(b) \in Nat
  BY LenProperties DEF Fine, Blocks
<1>1. PICK t \in Seq(Keys) : t = Items(x) /\ Len(t) = L /\ \A i \in 1..L : t[i] = b[o + i]
  BY ItemsAre
<1>2. y.block \in {moved, smaller} /\ y.length = L /\ y.offset = 0 /\ y \in [block : {block}, length : Nat, offset : Nat]
  BY <1>0
<1> HIDE DEF L, o, b, moved, smaller
<1>3. /\ moved \in Blocks /\ Len(moved) = Len(b)
      /\ \A i \in 1..Len(b) : moved[i] = IF 0 + 1 <= i /\ i <= 0 + L THEN b[i - 0 + o] ELSE b[i]
  <2>1. PICK to \in Nat : to = 0
    OBVIOUS
  <2>2. to + L <= Len(b) /\ moved = Move(b, to, o, L)
    BY <1>0, <2>1 DEF moved
  <2>3. /\ moved \in Blocks /\ Len(moved) = Len(b)
        /\ \A i \in 1..Len(b) : moved[i] = IF to + 1 <= i /\ i <= to + L THEN b[i - to + o] ELSE b[i]
    BY <1>0, <2>2, MoveIs
  <2>4. QED
    BY <2>1, <2>3
<1>4. ASSUME NEW i \in 1..L PROVE moved[i] = t[i] /\ i <= Len(moved)
  <2>1. i \in 1..Len(b) /\ 0 + 1 <= i /\ i <= 0 + L /\ i - 0 + o = o + i
    BY <1>0
  <2>2. QED
    BY <1>0, <1>1, <1>3, <2>1
<1>5. smaller \in Blocks /\ Len(smaller) = L /\ \A i \in 1..L : smaller[i] = t[i]
  BY <1>0, <1>3, <1>4, ReallocIs DEF smaller
<1>6. y \in [block : Blocks, length : Nat, offset : Nat]
  BY <1>0, <1>2, <1>3, <1>5
<1>7. /\ Len(t) = y.length /\ y.length # 0 /\ y.offset + y.length <= Len(y.block)
      /\ \A i \in 1..y.length : y.block[y.offset + i] = t[i]
  <2>2. L <= Len(moved) /\ L <= Len(smaller)
    BY <1>0, <1>3, <1>5
  <2>3. Len(t) = y.length /\ y.length # 0 /\ y.offset + y.length <= Len(y.block)
    BY <1>0, <1>1, <1>2, <2>2
  <2>4. ASSUME NEW i \in 1..L PROVE y.offset + i = i /\ y.block[i] = t[i]
    BY <1>2, <1>4, <1>5
  <2>5. QED
    BY <1>2, <2>3, <2>4
<1>8. QED
  BY <1>1, <1>6, <1>7, Makes
-----------------------------------------------------------------------------
Sorted(s) == \A i, j \in 1..Len(s) : i < j => s[i] <= s[j]
Agree(t, s, n) == \A i \in 1..n : t[i] = s[i]
Same(a, b) == IF a = b THEN 1 ELSE 0
CountTo(s, n, k) == Cardinality({i \in 1..n : s[i] = k})
Occurrences(s, k) == CountTo(s, Len(s), k)

(* The number of times an item occurs.                                      *)
LEMMA OccurrencesNat ==
  ASSUME NEW S, NEW s \in Seq(S), NEW k
  PROVE  IsFiniteSet({i \in 1..Len(s) : s[i] = k}) /\ Occurrences(s, k) \in Nat
<1>1. IsFiniteSet(1..Len(s)) /\ {i \in 1..Len(s) : s[i] = k} \in SUBSET (1..Len(s))
  BY LenProperties, FS_Interval
<1>2. QED
  BY <1>1, FS_Subset, FS_CardinalityType DEF Occurrences, CountTo

(* One item more is counted,                                                *)
LEMMA OneMore ==
  ASSUME NEW n \in Nat, NEW s, NEW t, NEW k, Agree(t, s, n)
  PROVE  CountTo(t, n + 1, k) = CountTo(s, n, k) + Same(t[n + 1], k)
<1> DEFINE A == {i \in 1..n : s[i] = k}
           B == {i \in 1..(n + 1) : t[i] = k}
<1>1. IsFiniteSet(A) /\ Cardinality(A) \in Nat
  <2>1. IsFiniteSet(1..n) /\ A \in SUBSET (1..n)
    BY FS_Interval
  <2>2. QED
    BY <2>1, FS_Subset, FS_CardinalityType
<1>2. n + 1 \notin A
  OBVIOUS
<1>3. CASE t[n + 1] = k
  <2>1. B = A \cup {n + 1}
    BY <1>3 DEF Agree
  <2> HIDE DEF A, B
  <2>2. Cardinality(B) = Cardinality(A) + 1
    BY <1>1, <1>2, <2>1, FS_AddElement
  <2>3. QED
    BY <1>3, <2>2 DEF A, B, CountTo, Same
<1>4. CASE t[n + 1] # k
  <2>1. B = A
    BY <1>4 DEF Agree
  <2> HIDE DEF A, B
  <2>2. Cardinality(B) = Cardinality(A) + 0
    BY <1>1, <2>1
  <2>3. QED
    BY <1>4, <2>2 DEF A, B, CountTo, Same
<1>5. QED
  BY <1>3, <1>4

(* in a sequence that gets longer,                                          *)
LEMMA OccurrencesAppend ==
  ASSUME NEW S, NEW s \in Seq(S), NEW e \in S, NEW k
  PROVE  Occurrences(Append(s, e), k) = Occurrences(s, k) + Same(e, k)
<1>1. PICK n \in Nat : n = Len(s)
  BY LenProperties
<1>2. PICK t \in Seq(S) : /\ t = Append(s, e) /\ Len(t) = n + 1
                          /\ \A i \in 1..n : t[i] = s[i]
                          /\ t[n + 1] = e
  BY <1>1, AppendProperties
<1>3. CountTo(t, n + 1, k) = CountTo(s, n, k) + Same(t[n + 1], k)
  <2>1. Agree(t, s, n)
    BY <1>2 DEF Agree
  <2>2. QED
    BY <2>1, OneMore, Zenon
<1>4. QED
  BY <1>1, <1>2, <1>3, Zenon DEF Occurrences

(* A prefix, and the one that is longer by one. *)
LEMMA Prefix ==
  ASSUME NEW S, NEW s \in Seq(S), NEW j \in 0..Len(s)
  PROVE  /\ SubSeq(s, 1, j) \in Seq(S) /\ Len(SubSeq(s, 1, j)) = j
         /\ \A i \in 1..j : SubSeq(s, 1, j)[i] = s[i]
         /\ j > 0 => SubSeq(s, 1, j) = Append(SubSeq(s, 1, j - 1), s[j])
         /\ j = Len(s) => SubSeq(s, 1, j) = s
<1>0. Len(s) \in Nat /\ j \in Nat /\ \A i \in 1..j : s[i] \in S
  BY LenProperties, ElementOfSeq
<1>1. SubSeq(s, 1, j) \in Seq(S) /\ Len(SubSeq(s, 1, j)) = j /\ \A i \in 1..j : SubSeq(s, 1, j)[i] = s[i]
  BY <1>0, SubSeqProperties
<1>2. ASSUME j > 0 PROVE SubSeq(s, 1, j) = Append(SubSeq(s, 1, j - 1), s[j])
  <2>1. 1 \in 1..Len(s) /\ j \in 1..Len(s) /\ j - 1 \in Int /\ s[j] \in S /\ \A i \in 1..(j - 1) : s[i] \in S
    BY <1>0, <1>2
  <2>2. SubSeq(s, 1, j) = SubSeq(s, 1, j - 1) \o <<s[j]>>
    BY <2>1, SubSeqRecursiveSecond
  <2>3. SubSeq(s, 1, j - 1) \in Seq(S)
    BY <2>1, SubSeqProperties
  <2>4. QED
    BY <2>1, <2>2, <2>3, AppendIsConcat
<1>3. QED
  BY <1>1, <1>2, SubSeqFull

(* and in two that are joined.                                              *)
LEMMA OccurrencesConcat ==
  ASSUME NEW S, NEW s \in Seq(S), NEW t \in Seq(S), NEW k
  PROVE  Occurrences(s \o t, k) = Occurrences(s, k) + Occurrences(t, k)
<1> DEFINE First(j) == SubSeq(t, 1, j)
           Good(j) == j <= Len(t) => Occurrences(s \o First(j), k) = Occurrences(s, k) + Occurrences(First(j), k)
           T == {j \in Nat : Good(j)}
<1>1. Good(0)
  <2>1. First(0) = <<>> /\ s \o <<>> = s
    BY SubSeqEmpty, ConcatEmptySeq
  <2>2. Occurrences(<<>>, k) = 0
    <3>1. {i \in 1..Len(<<>>) : <<>>[i] = k} = {}
      OBVIOUS
    <3>2. QED
      BY <3>1, FS_EmptySet DEF Occurrences, CountTo
  <2>3. Occurrences(s, k) \in Nat
    BY OccurrencesNat
  <2>4. Occurrences(s, k) = Occurrences(s, k) + Occurrences(<<>>, k)
    BY <2>2, <2>3
  <2>5. QED
    BY <2>1, <2>4, Zenon
<1>2. ASSUME NEW j \in Nat, Good(j) PROVE Good(j + 1)
  <2> SUFFICES ASSUME j + 1 <= Len(t)
               PROVE  Occurrences(s \o First(j + 1), k) = Occurrences(s, k) + Occurrences(First(j + 1), k)
    OBVIOUS
  <2>1. j \in 0..Len(t) /\ j + 1 \in 0..Len(t) /\ j + 1 > 0 /\ (j + 1) - 1 = j /\ j + 1 \in 1..Len(t)
    BY LenProperties
  <2>2. PICK e \in S : e = t[j + 1]
    BY <2>1, ElementOfSeq
  <2>3. PICK u \in Seq(S) : u = First(j) /\ First(j + 1) = Append(u, e)
    <3>1. First(j) \in Seq(S)
      BY <2>1, Prefix
    <3>2. First(j + 1) = Append(First(j), e)
      BY <2>1, <2>2, Prefix
    <3>3. QED
      BY <3>1, <3>2, Zenon
  <2>4. s \o Append(u, e) = Append(s \o u, e) /\ s \o u \in Seq(S)
    <3>1. <<e>> \in Seq(S) /\ s \o u \in Seq(S)
      BY ConcatProperties
    <3>2. Append(u, e) = u \o <<e>> /\ Append(s \o u, e) = (s \o u) \o <<e>>
      BY <3>1, AppendIsConcat
    <3>3. QED
      BY <3>1, <3>2, ConcatAssociative
  <2>5. Occurrences(s \o u, k) = Occurrences(s, k) + Occurrences(u, k)
    BY <1>2, <2>1, <2>3
  <2>6. Occurrences(s, k) \in Nat /\ Occurrences(u, k) \in Nat
    BY OccurrencesNat
  <2>7. PICK v \in Seq(S) : v = s \o u
    BY <2>4
  <2>8. /\ Occurrences(Append(v, e), k) = Occurrences(v, k) + Same(e, k)
        /\ Occurrences(Append(u, e), k) = Occurrences(u, k) + Same(e, k)
    BY OccurrencesAppend
  <2>9. Occurrences(v, k) = Occurrences(s, k) + Occurrences(u, k)
    BY <2>5, <2>7, Zenon
  <2>10. Occurrences(Append(v, e), k) = Occurrences(s, k) + Occurrences(Append(u, e), k)
    BY <2>6, <2>8, <2>9 DEF Same
  <2>11. s \o Append(u, e) = Append(v, e)
    BY <2>4, <2>7, Zenon
  <2>12. QED
    BY <2>3, <2>10, <2>11, Zenon
<1> HIDE DEF Good
<1>3. Nat \subseteq T
  <2>1. 0 \in T /\ \A j \in Nat : j \in T => j + 1 \in T
    BY <1>1, <1>2
  <2> HIDE DEF T
  <2>2. QED
    BY <2>1, Induction
<1>4. Good(Len(t))
  BY <1>3, LenProperties
<1>5. First(Len(t)) = t /\ Len(t) <= Len(t)
  BY LenProperties, SubSeqFull
<1>6. QED
  BY <1>4, <1>5, Zenon DEF Good
-----------------------------------------------------------------------------
(* One turn of the merge of the first i of d and the first j of s.          *)
MergeTurn(f, d, s, i, j) ==
  IF i = 0 THEN SubSeq(s, 1, j)
  ELSE IF j = 0 THEN SubSeq(d, 1, i)
  ELSE IF d[i] < s[j] THEN Append(f[<<i, j - 1>>], s[j])
  ELSE Append(f[<<i - 1, j>>], d[i])

Grid(m, n) == (0..m) \X (0..n)
Merges(f, d, s, m, n) == f = [at \in Grid(m, n) |-> MergeTurn(f, d, s, at[1], at[2])]

(* A turn of the merge looks at what is left of one of the two.             *)
LEMMA MergeNarrows ==
  ASSUME NEW f, NEW g, NEW d, NEW s, NEW i \in Nat, NEW j \in Nat,
         i > 0 => f[<<i - 1, j>>] = g[<<i - 1, j>>], j > 0 => f[<<i, j - 1>>] = g[<<i, j - 1>>]
  PROVE  MergeTurn(f, d, s, i, j) = MergeTurn(g, d, s, i, j)
BY DEF MergeTurn

(* The recursion of a merge has a solution.                                 *)
LEMMA MergeDefined ==
  ASSUME NEW m \in Nat, NEW n \in Nat, NEW d, NEW s
  PROVE  \E f : Merges(f, d, s, m, n)
<1> DEFINE Upto(f, c) == \A i \in 0..m, j \in 0..n : i + j <= c => f[<<i, j>>] = MergeTurn(f, d, s, i, j)
           S == {c \in Nat : \E f : Upto(f, c)}
<1>1. 0 \in S
  <2> DEFINE g == [at \in Grid(m, n) |-> SubSeq(s, 1, at[2])]
  <2>1. ASSUME NEW i \in 0..m, NEW j \in 0..n, i + j <= 0 PROVE g[<<i, j>>] = MergeTurn(g, d, s, i, j)
    <3>1. g[<<i, j>>] = SubSeq(s, 1, j)
      BY DEF Grid
    <3>2. i = 0
      BY <2>1
    <3> HIDE DEF g
    <3>3. QED
      BY <3>1, <3>2 DEF MergeTurn
  <2> HIDE DEF g
  <2>2. Upto(g, 0)
    BY <2>1
  <2> HIDE DEF Upto
  <2>3. QED
    BY <2>2
<1>2. ASSUME NEW c \in Nat, c \in S PROVE c + 1 \in S
  <2>1. PICK f : Upto(f, c)
    BY <1>2
  <2> DEFINE g == [at \in Grid(m, n) |-> IF at[1] + at[2] <= c THEN f[at]
                                          ELSE MergeTurn(f, d, s, at[1], at[2])]
  <2>2. ASSUME NEW i \in 0..m, NEW j \in 0..n
        PROVE  g[<<i, j>>] = IF i + j <= c THEN f[<<i, j>>] ELSE MergeTurn(f, d, s, i, j)
    BY DEF Grid
  <2> HIDE DEF g
  <2>3. ASSUME NEW i \in 0..m, NEW j \in 0..n, i + j <= c + 1
        PROVE  g[<<i, j>>] = MergeTurn(g, d, s, i, j)
    <3>1. g[<<i, j>>] = MergeTurn(f, d, s, i, j)
      BY <2>1, <2>2
    <3>2. i > 0 => f[<<i - 1, j>>] = g[<<i - 1, j>>]
      <4>1. i > 0 => i - 1 \in 0..m /\ (i - 1) + j <= c
        BY <2>3
      <4>2. QED
        BY <2>2, <4>1
    <3>3. j > 0 => f[<<i, j - 1>>] = g[<<i, j - 1>>]
      <4>1. j > 0 => j - 1 \in 0..n /\ i + (j - 1) <= c
        BY <2>3
      <4>2. QED
        BY <2>2, <4>1
    <3>4. MergeTurn(f, d, s, i, j) = MergeTurn(g, d, s, i, j)
      BY <3>2, <3>3, MergeNarrows
    <3>5. QED
      BY <3>1, <3>4
  <2>4. Upto(g, c + 1)
    BY <2>3
  <2> HIDE DEF Upto
  <2>5. (\E h : Upto(h, c + 1)) /\ c + 1 \in Nat
    BY <2>4
  <2>6. QED
    BY <2>5, Zenon
<1>3. m + n \in S
  <2> HIDE DEF S
  <2>1. Nat \subseteq S
    BY <1>1, <1>2, Induction
  <2>2. QED
    BY <2>1
<1>4. PICK f : Upto(f, m + n)
  BY <1>3
<1> DEFINE h == [at \in Grid(m, n) |-> f[at]]
<1>5. ASSUME NEW i \in 0..m, NEW j \in 0..n
      PROVE  h[<<i, j>>] = MergeTurn(h, d, s, i, j)
  <2>1. \A a \in 0..m, b \in 0..n : h[<<a, b>>] = f[<<a, b>>]
    BY DEF Grid
  <2> HIDE DEF h
  <2>2. i + j <= m + n
    OBVIOUS
  <2>3. f[<<i, j>>] = MergeTurn(f, d, s, i, j)
    BY <1>4, <2>2
  <2>4. (i > 0 => i - 1 \in 0..m) /\ (j > 0 => j - 1 \in 0..n)
    OBVIOUS
  <2> DEFINE i1 == i - 1
             j1 == j - 1
  <2>5. (i > 0 => f[<<i1, j>>] = h[<<i1, j>>]) /\ (j > 0 => f[<<i, j1>>] = h[<<i, j1>>])
    <3> HIDE DEF i1, j1
    <3>1. (i > 0 => i1 \in 0..m) /\ (j > 0 => j1 \in 0..n)
      BY <2>4 DEF i1, j1
    <3>2. QED
      BY <2>1, <3>1, Zenon
  <2>7. MergeTurn(f, d, s, i, j) = MergeTurn(h, d, s, i, j)
    BY <2>5, MergeNarrows
  <2>6. QED
    BY <2>1, <2>3, <2>7, Zenon
<1>6. ASSUME NEW at \in Grid(m, n) PROVE h[at] = MergeTurn(h, d, s, at[1], at[2])
  <2>1. PICK i \in 0..m, j \in 0..n : at = <<i, j>>
    BY DEF Grid
  <2> HIDE DEF h
  <2>2. QED
    BY <1>5, <2>1
<1>7. h = [at \in Grid(m, n) |-> h[at]]
  OBVIOUS
<1> HIDE DEF h
<1>8. h = [at \in Grid(m, n) |-> MergeTurn(h, d, s, at[1], at[2])]
  BY <1>6, <1>7
<1>9. QED
  BY <1>8 DEF Merges

(* The keys of a sequence are numbers.                                      *)
LEMMA KeyElements ==
  ASSUME NEW s \in Seq(Keys)
  PROVE  Len(s) \in Nat /\ \A i \in 1..Len(s) : s[i] \in Keys /\ s[i] \in Nat
BY ArrayKeysAssumption, LenProperties, ElementOfSeq

(* An item that is not less goes to the end.                                *)
LEMMA SortedAppend ==
  ASSUME NEW s \in Seq(Keys), NEW e \in Keys, Sorted(s), \A i \in 1..Len(s) : s[i] <= e
  PROVE  Sorted(Append(s, e))
<1>1. PICK n \in Nat : n = Len(s)
  BY LenProperties
<1>2. PICK t \in Seq(Keys) : /\ t = Append(s, e) /\ Len(t) = n + 1
                             /\ \A i \in 1..n : t[i] = s[i]
                             /\ t[n + 1] = e
  BY <1>1, AppendProperties
<1>3. ASSUME NEW i \in 1..(n + 1), NEW j \in 1..(n + 1), i < j PROVE t[i] <= t[j]
  <2>1. i \in 1..n
    BY <1>3
  <2>2. CASE j \in 1..n
    BY <1>1, <1>2, <1>3, <2>1, <2>2 DEF Sorted
  <2>3. CASE j = n + 1
    BY <1>1, <1>2, <2>1, <2>3
  <2>4. j \in 1..n \/ j = n + 1
    OBVIOUS
  <2>5. QED
    BY <2>2, <2>3, <2>4, Zenon
<1>4. Sorted(t)
  BY <1>2, <1>3 DEF Sorted
<1>5. QED
  BY <1>2, <1>4, Zenon

(* Counts look at the items only,                                           *)
LEMMA CountSame ==
  ASSUME NEW n \in Nat, NEW s, NEW t, NEW k, Agree(t, s, n)
  PROVE  CountTo(t, n, k) = CountTo(s, n, k)
<1>1. {i \in 1..n : t[i] = k} = {i \in 1..n : s[i] = k}
  BY DEF Agree
<1>2. QED
  BY <1>1, Zenon DEF CountTo

(* are numbers,                                                             *)
LEMMA CountNat == ASSUME NEW n \in Nat, NEW s, NEW k PROVE CountTo(s, n, k) \in Nat
<1>1. IsFiniteSet(1..n) /\ {i \in 1..n : s[i] = k} \in SUBSET (1..n)
  BY FS_Interval
<1>2. QED
  BY <1>1, FS_Subset, FS_CardinalityType DEF CountTo

(* and start at zero.                                                       *)
LEMMA CountNone == ASSUME NEW s, NEW k PROVE CountTo(s, 0, k) = 0
<1>1. {i \in 1..0 : s[i] = k} = {}
  OBVIOUS
<1>2. QED
  BY <1>1, FS_EmptySet DEF CountTo

(* r is the merge of the first i of d and the first j of s.                 *)
Merged(r, d, s, i, j) ==
  /\ r \in Seq(Keys) /\ Len(r) = i + j /\ Sorted(r)
  /\ \A x \in 1..(i + j) : (i > 0 /\ r[x] <= d[i]) \/ (j > 0 /\ r[x] <= s[j])
  /\ \A k : Occurrences(r, k) = CountTo(d, i, k) + CountTo(s, j, k)

(* A merge does not tell the two apart.                                     *)
LEMMA MergedEither ==
  ASSUME NEW r, NEW d, NEW s, NEW i \in Nat, NEW j \in Nat, Merged(r, d, s, i, j)
  PROVE  Merged(r, s, d, j, i)
<1>1. i + j = j + i
  OBVIOUS
<1>2. ASSUME NEW k PROVE CountTo(d, i, k) + CountTo(s, j, k) = CountTo(s, j, k) + CountTo(d, i, k)
  BY CountNat
<1>3. QED
  BY <1>1, <1>2, Zenon DEF Merged

(* With nothing in the one, it is the other.                                *)
LEMMA MergedPrefix ==
  ASSUME NEW d, NEW s \in Seq(Keys), Sorted(s), NEW j \in 0..Len(s)
  PROVE  Merged(SubSeq(s, 1, j), d, s, 0, j)
<1>0. j \in Nat /\ Len(s) \in Nat /\ 0 + j = j /\ j \in Nat
  BY LenProperties
<1>1. PICK r \in Seq(Keys) : r = SubSeq(s, 1, j) /\ Len(r) = j /\ \A i \in 1..j : r[i] = s[i]
  BY Prefix
<1>2. Sorted(r)
  BY <1>0, <1>1 DEF Sorted
<1>3. ASSUME NEW x \in 1..(0 + j) PROVE j > 0 /\ r[x] <= s[j]
  <2>1. x \in 1..j /\ j \in 1..Len(s) /\ x \in 1..Len(s) /\ (x < j \/ x = j)
    BY <1>0
  <2>2. s[x] <= s[j]
    BY <2>1, KeyElements DEF Sorted
  <2>3. QED
    BY <1>1, <2>1, <2>2
<1>4. ASSUME NEW k PROVE Occurrences(r, k) = CountTo(d, 0, k) + CountTo(s, j, k)
  <2>1. CountTo(r, j, k) = CountTo(s, j, k)
    <3>1. j \in Nat /\ Agree(r, s, j)
      BY <1>0, <1>1 DEF Agree
    <3>2. QED
      BY <3>1, CountSame
  <2>2. Occurrences(r, k) = CountTo(s, j, k)
    BY <1>1, <2>1 DEF Occurrences
  <2>3. CountTo(d, 0, k) = 0 /\ CountTo(s, j, k) \in Nat
    BY <1>0, CountNat, CountNone
  <2>4. QED
    BY <2>2, <2>3
<1>5. Merged(r, d, s, 0, j)
  BY <1>0, <1>1, <1>2, <1>3, <1>4 DEF Merged
<1>6. QED
  BY <1>1, <1>5, Zenon

(* The larger of the two last items comes last.                             *)
LEMMA MergedNext ==
  ASSUME NEW d \in Seq(Keys), NEW s \in Seq(Keys), Sorted(s),
         NEW i \in 0..Len(d), NEW j \in 1..Len(s), i > 0 => d[i] <= s[j],
         NEW r, Merged(r, d, s, i, j - 1)
  PROVE  Merged(Append(r, s[j]), d, s, i, j)
<1>0. /\ i \in Nat /\ j \in Nat /\ j - 1 \in Nat /\ Len(s) \in Nat /\ Len(d) \in Nat /\ i + (j - 1) \in Nat
      /\ (i + (j - 1)) + 1 = i + j /\ (j - 1) + 1 = j
  BY LenProperties
<1>1. PICK e \in Keys : e = s[j] /\ e \in Nat
  BY KeyElements
<1>2. PICK n \in Nat : n = i + (j - 1) /\ n + 1 = i + j
  BY <1>0
<1>3. r \in Seq(Keys) /\ Len(r) = n /\ Sorted(r)
  BY <1>2 DEF Merged
<1>4. ASSUME NEW x \in 1..n PROVE r[x] <= e
  <2>1. (i > 0 /\ r[x] <= d[i]) \/ (j - 1 > 0 /\ r[x] <= s[j - 1])
    BY <1>2 DEF Merged
  <2>2. r[x] \in Nat
    BY <1>3, KeyElements
  <2>3. ASSUME i > 0, r[x] <= d[i] PROVE r[x] <= e
    <3>1. i \in 1..Len(d)
      BY <2>3, <1>0
    <3>2. d[i] \in Nat
      BY <3>1, KeyElements
    <3>3. QED
      BY <1>1, <2>2, <2>3, <3>2
  <2>4. ASSUME j - 1 > 0, r[x] <= s[j - 1] PROVE r[x] <= e
    <3>1. j - 1 \in 1..Len(s) /\ j - 1 < j
      BY <2>4, <1>0
    <3>2. s[j - 1] \in Nat /\ s[j - 1] <= s[j]
      BY <3>1, KeyElements DEF Sorted
    <3>3. QED
      BY <1>1, <2>2, <2>4, <3>2
  <2>5. QED
    BY <2>1, <2>3, <2>4, Zenon
<1>5. PICK t \in Seq(Keys) : /\ t = Append(r, e) /\ Len(t) = n + 1
                             /\ \A x \in 1..n : t[x] = r[x]
                             /\ t[n + 1] = e
  BY <1>3, AppendProperties
<1>6. Sorted(t)
  BY <1>3, <1>4, <1>5, SortedAppend
<1>7. ASSUME NEW x \in 1..(n + 1) PROVE t[x] <= s[j]
  <2>1. CASE x \in 1..n
    BY <1>1, <1>4, <1>5, <2>1
  <2>2. CASE x = n + 1
    BY <1>1, <1>5, <2>2
  <2>3. x \in 1..n \/ x = n + 1
    OBVIOUS
  <2>4. QED
    BY <2>1, <2>2, <2>3, Zenon
<1>8. ASSUME NEW k PROVE Occurrences(t, k) = CountTo(d, i, k) + CountTo(s, j, k)
  <2>1. Occurrences(t, k) = Occurrences(r, k) + Same(e, k)
    <3>1. Occurrences(Append(r, e), k) = Occurrences(r, k) + Same(e, k)
      BY <1>3, OccurrencesAppend
    <3>2. QED
      BY <1>5, <3>1, Zenon
  <2>2. Occurrences(r, k) = CountTo(d, i, k) + CountTo(s, j - 1, k)
    BY DEF Merged
  <2>3. CountTo(s, j, k) = CountTo(s, j - 1, k) + Same(e, k)
    <3>1. PICK m \in Nat : m = j - 1 /\ m + 1 = j
      BY <1>0
    <3>2. CountTo(s, m + 1, k) = CountTo(s, m, k) + Same(s[m + 1], k)
      BY OneMore DEF Agree
    <3>3. QED
      BY <1>1, <3>1, <3>2
  <2>4. CountTo(d, i, k) \in Nat /\ CountTo(s, j - 1, k) \in Nat /\ Same(e, k) \in Nat
    BY <1>0, CountNat DEF Same
  <2>5. QED
    BY <2>1, <2>2, <2>3, <2>4
<1>9. Merged(t, d, s, i, j)
  <2>1. j > 0
    BY <1>0
  <2>2. QED
    BY <1>2, <1>5, <1>6, <1>7, <1>8, <2>1 DEF Merged
<1>10. QED
  BY <1>1, <1>5, <1>9, Zenon

(* A turn merges if what it looks at is merged.                             *)
LEMMA MergeTurnMerges ==
  ASSUME NEW d \in Seq(Keys), NEW s \in Seq(Keys), Sorted(d), Sorted(s),
         NEW i \in 0..Len(d), NEW j \in 0..Len(s), NEW f,
         i > 0 => Merged(f[<<i - 1, j>>], d, s, i - 1, j),
         j > 0 => Merged(f[<<i, j - 1>>], d, s, i, j - 1)
  PROVE  Merged(MergeTurn(f, d, s, i, j), d, s, i, j)
<1>0. i \in Nat /\ j \in Nat /\ Len(s) \in Nat /\ Len(d) \in Nat
  BY LenProperties
<1>1. CASE i = 0
  BY <1>1, MergedPrefix DEF MergeTurn
<1>2. CASE i # 0 /\ j = 0
  <2>1. Merged(SubSeq(d, 1, i), s, d, 0, i)
    BY MergedPrefix
  <2>2. Merged(SubSeq(d, 1, i), d, s, i, 0)
    BY <1>0, <2>1, MergedEither
  <2>3. MergeTurn(f, d, s, i, j) = SubSeq(d, 1, i)
    BY <1>2 DEF MergeTurn
  <2>4. QED
    BY <1>2, <2>2, <2>3, Zenon
<1>3. CASE i # 0 /\ j # 0
  <2>0. i \in 1..Len(d) /\ j \in 1..Len(s) /\ i - 1 \in 0..Len(d) /\ j - 1 \in 0..Len(s) /\ i > 0 /\ j > 0
        /\ i - 1 \in Nat /\ j - 1 \in Nat
    BY <1>0, <1>3
  <2>1. d[i] \in Nat /\ s[j] \in Nat
    BY <2>0, KeyElements
  <2>2. CASE d[i] < s[j]
    <3>1. d[i] <= s[j]
      BY <2>1, <2>2
    <3>2. Merged(Append(f[<<i, j - 1>>], s[j]), d, s, i, j)
      BY <2>0, <3>1, MergedNext
    <3>3. MergeTurn(f, d, s, i, j) = Append(f[<<i, j - 1>>], s[j])
      BY <1>3, <2>2 DEF MergeTurn
    <3>4. QED
      BY <3>2, <3>3, Zenon
  <2>3. CASE ~(d[i] < s[j])
    <3>1. s[j] <= d[i]
      BY <2>1, <2>3
    <3>2. Merged(f[<<i - 1, j>>], s, d, j, i - 1)
      BY <1>0, <2>0, MergedEither
    <3>3. Merged(Append(f[<<i - 1, j>>], d[i]), s, d, j, i)
      BY <2>0, <3>1, <3>2, MergedNext
    <3>4. Merged(Append(f[<<i - 1, j>>], d[i]), d, s, i, j)
      BY <1>0, <3>3, MergedEither
    <3>5. MergeTurn(f, d, s, i, j) = Append(f[<<i - 1, j>>], d[i])
      BY <1>3, <2>3 DEF MergeTurn
    <3>6. QED
      BY <3>4, <3>5, Zenon
  <2>4. QED
    BY <2>2, <2>3
<1>4. QED
  BY <1>1, <1>2, <1>3

(* The merge has the items of both, in order.                               *)
LEMMA MergeMerges ==
  ASSUME NEW d \in Seq(Keys), NEW s \in Seq(Keys), Sorted(d), Sorted(s)
  PROVE  Merged(MergedItems(d, s), d, s, Len(d), Len(s))
<1>0. PICK m \in Nat, n \in Nat : m = Len(d) /\ n = Len(s)
  BY LenProperties
<1> DEFINE f == CHOOSE g : g = [at \in Grid(m, n) |-> MergeTurn(g, d, s, at[1], at[2])]
<1>1. Merges(f, d, s, m, n)
  <2>1. \E g : g = [at \in Grid(m, n) |-> MergeTurn(g, d, s, at[1], at[2])]
    <3>1. \E g : Merges(g, d, s, m, n)
      BY MergeDefined, Zenon
    <3>2. QED
      BY <3>1, Zenon DEF Merges
  <2>2. f = [at \in Grid(m, n) |-> MergeTurn(f, d, s, at[1], at[2])]
    BY <2>1, Zenon
  <2>3. QED
    BY <2>2, Zenon DEF Merges
<1>2. MergedItems(d, s) = f[<<m, n>>]
  BY <1>0 DEF MergedItems, Grid, MergeTurn
<1> HIDE DEF f
<1>3. ASSUME NEW i \in 0..m, NEW j \in 0..n PROVE f[<<i, j>>] = MergeTurn(f, d, s, i, j)
  BY <1>1 DEF Merges, Grid
<1> DEFINE Good(c) == \A i \in 0..m, j \in 0..n : i + j <= c => Merged(f[<<i, j>>], d, s, i, j)
           S == {c \in Nat : Good(c)}
<1>4. ASSUME NEW i \in 0..m, NEW j \in 0..n,
             i > 0 => Merged(f[<<i - 1, j>>], d, s, i - 1, j),
             j > 0 => Merged(f[<<i, j - 1>>], d, s, i, j - 1)
      PROVE  Merged(f[<<i, j>>], d, s, i, j)
  <2>1. Merged(MergeTurn(f, d, s, i, j), d, s, i, j)
    BY <1>0, <1>4, MergeTurnMerges
  <2>2. QED
    BY <1>3, <2>1
<1>5. Good(0)
  <2> SUFFICES ASSUME NEW i \in 0..m, NEW j \in 0..n, i + j <= 0 PROVE Merged(f[<<i, j>>], d, s, i, j)
    OBVIOUS
  <2>1. ~(i > 0) /\ ~(j > 0)
    OBVIOUS
  <2>2. QED
    BY <1>4, <2>1
<1>6. ASSUME NEW c \in Nat, Good(c) PROVE Good(c + 1)
  <2> SUFFICES ASSUME NEW i \in 0..m, NEW j \in 0..n, i + j <= c + 1 PROVE Merged(f[<<i, j>>], d, s, i, j)
    OBVIOUS
  <2>1. ASSUME i > 0 PROVE Merged(f[<<i - 1, j>>], d, s, i - 1, j)
    <3>1. i - 1 \in 0..m /\ (i - 1) + j <= c
      BY <2>1
    <3>2. QED
      BY <1>6, <3>1
  <2>2. ASSUME j > 0 PROVE Merged(f[<<i, j - 1>>], d, s, i, j - 1)
    <3>1. j - 1 \in 0..n /\ i + (j - 1) <= c
      BY <2>2
    <3>2. QED
      BY <1>6, <3>1
  <2>3. QED
    BY <1>4, <2>1, <2>2
<1> HIDE DEF Good
<1>7. Nat \subseteq S
  <2>1. 0 \in S /\ \A c \in Nat : c \in S => c + 1 \in S
    BY <1>5, <1>6
  <2> HIDE DEF S
  <2>2. QED
    BY <2>1, Induction
<1>8. Good(m + n)
  BY <1>7
<1>9. Merged(f[<<m, n>>], d, s, m, n)
  BY <1>8 DEF Good
<1>10. QED
  BY <1>0, <1>2, <1>9

(* The array after a merge into its block.                                  *)
LEMMA MergedIntoIs ==
  ASSUME NEW x, Fine(x), x.block # NULL, Sorted(Items(x)), NEW s \in Seq(Keys), Sorted(s)
  PROVE  Fine(MergedInto(x, s)) /\ Items(MergedInto(x, s)) = MergedItems(Items(x), s)
<1> DEFINE L == x.length
           o == x.offset
           b == x.block
           d == Items(x)
           t == MergedItems(d, s)
           front == SubSeq(b, 1, o)
           y == MergedInto(x, s)
<1>0. /\ L \in Nat /\ o \in Nat /\ b \in Blocks /\ o <= Len(b) /\ Len(b) \in Nat /\ Len(s) \in Nat
      /\ x \in [block : Blocks \cup {NULL}, length : Nat, offset : Nat]
  BY LenProperties DEF Fine, Blocks
<1>1. d \in Seq(Keys) /\ Len(d) = L
  BY ItemsAre
<1>2. t \in Seq(Keys) /\ Len(t) = L + Len(s)
  BY <1>1, MergeMerges DEF Merged
<1>3. PICK u \in Blocks : /\ u = front /\ Len(u) = o
  <2>1. b \in Seq(Keys \cup {Junk}) /\ o \in 0..Len(b)
    BY <1>0 DEF Blocks
  <2>2. front \in Seq(Keys \cup {Junk}) /\ Len(front) = o
    BY <2>1, Prefix
  <2> HIDE DEF front
  <2>3. QED
    BY <2>2 DEF Blocks
<1>4. PICK v \in Seq(Keys) : v = t /\ Len(v) = L + Len(s)
  BY <1>2
<1>5. PICK w \in Blocks : /\ w = u \o v /\ Len(w) = o + (L + Len(s))
                          /\ \A i \in 1..(L + Len(s)) : w[o + i] = v[i]
  <2>1. v \in Seq(Keys \cup {Junk}) /\ u \in Seq(Keys \cup {Junk})
    BY SeqMonotonic DEF Blocks
  <2>2. PICK m \in Nat : m = L + Len(s)
    BY <1>0
  <2>3. PICK w : w = u \o v
    OBVIOUS
  <2>4. /\ w \in Seq(Keys \cup {Junk}) /\ Len(w) = o + m
        /\ \A i \in 1..(o + m) : w[i] = IF i <= o THEN u[i] ELSE v[i - o]
    BY <1>3, <1>4, <2>1, <2>2, <2>3, ConcatProperties
  <2>5. ASSUME NEW i \in 1..m PROVE w[o + i] = v[i]
    <3>1. o + i \in 1..(o + m) /\ ~(o + i <= o) /\ (o + i) - o = i
      BY <1>0
    <3>2. QED
      BY <2>4, <3>1
  <2>6. QED
    BY <2>2, <2>3, <2>4, <2>5 DEF Blocks
<1>6. y = [x EXCEPT !.block = w, !.length = L + Len(s)]
  BY <1>3, <1>4, <1>5, Zenon DEF MergedInto
<1>7. y = [block |-> w, length |-> L + Len(s), offset |-> o]
  BY <1>0, <1>6, TwoFields
<1>8. /\ y \in [block : Blocks, length : Nat, offset : Nat]
      /\ y.length = L + Len(s) /\ y.offset = o /\ y.block = w
  BY <1>0, <1>7
<1>9. (y.length = 0 => y.offset = 0) /\ y.offset + y.length <= Len(y.block)
  <2>1. L + Len(s) = 0 => L = 0
    BY <1>0
  <2>2. L = 0 => o = 0
    BY DEF Fine
  <2>3. y.length = 0 => y.offset = 0
    BY <1>8, <2>1, <2>2
  <2>4. QED
    BY <1>0, <1>5, <1>8, <2>3
<1> HIDE DEF y, t
<1>10. Fine(y) /\ Items(y) = v
  <2>1. \A i \in 1..y.length : y.block[y.offset + i] = v[i]
    BY <1>5, <1>8
  <2>2. Len(v) = y.length
    BY <1>4, <1>8
  <2>3. QED
    BY <1>8, <1>9, <2>1, <2>2, Makes
<1>11. QED
  BY <1>4, <1>10, Zenon DEF y, t
-----------------------------------------------------------------------------
(* Every sequence can be put in order.                                      *)
LEMMA Largest ==
  ASSUME NEW n \in Nat, NEW s, \A i \in 1..(n + 1) : s[i] \in Nat
  PROVE  \E m \in 1..(n + 1) : \A i \in 1..(n + 1) : s[i] <= s[m]
<1> DEFINE Good(c) == c <= n => \E m \in 1..(c + 1) : \A i \in 1..(c + 1) : s[i] <= s[m]
           S == {c \in Nat : Good(c)}
<1>1. Good(0)
  BY 1 \in 1..1, \A i \in 1..1 : i = 1
<1>2. ASSUME NEW c \in Nat, Good(c) PROVE Good(c + 1)
  <2> SUFFICES ASSUME c + 1 <= n
               PROVE  \E m \in 1..((c + 1) + 1) : \A i \in 1..((c + 1) + 1) : s[i] <= s[m]
    OBVIOUS
  <2>1. PICK m \in 1..(c + 1) : \A i \in 1..(c + 1) : s[i] <= s[m]
    BY <1>2
  <2>2. s[m] \in Nat /\ s[c + 2] \in Nat /\ \A i \in 1..(c + 1) : s[i] \in Nat
    OBVIOUS
  <2>3. CASE s[c + 2] <= s[m]
    <3>1. ASSUME NEW i \in 1..((c + 1) + 1) PROVE s[i] <= s[m]
      <4>1. i \in 1..(c + 1) \/ i = c + 2
        OBVIOUS
      <4>2. QED
        BY <2>1, <2>3, <4>1
    <3>2. m \in 1..((c + 1) + 1)
      OBVIOUS
    <3>3. QED
      BY <3>1, <3>2, Zenon
  <2>4. CASE ~(s[c + 2] <= s[m])
    <3>1. ASSUME NEW i \in 1..((c + 1) + 1) PROVE s[i] <= s[c + 2]
      <4>1. i \in 1..(c + 1) \/ i = c + 2
        OBVIOUS
      <4>2. CASE i \in 1..(c + 1)
        <5>1. s[i] <= s[m] /\ s[i] \in Nat
          BY <2>1, <2>2, <4>2
        <5>2. QED
          BY <2>2, <2>4, <5>1
      <4>3. CASE i = c + 2
        BY <2>2, <4>3
      <4>4. QED
        BY <4>1, <4>2, <4>3, Zenon
    <3>2. c + 2 \in 1..((c + 1) + 1)
      OBVIOUS
    <3>3. QED
      BY <3>1, <3>2, Zenon
  <2>5. QED
    BY <2>3, <2>4, Zenon
<1> HIDE DEF Good
<1>3. Nat \subseteq S
  <2>1. 0 \in S /\ \A c \in Nat : c \in S => c + 1 \in S
    BY <1>1, <1>2
  <2> HIDE DEF S
  <2>2. QED
    BY <2>1, Induction
<1>4. Good(n) /\ n <= n
  BY <1>3
<1>5. QED
  BY <1>4, Zenon DEF Good

Orders(p, s, n) ==
  /\ p \in [1..n -> 1..n]
  /\ \A i, j \in 1..n : p[i] = p[j] => i = j
  /\ \A v \in 1..n : \E i \in 1..n : p[i] = v
  /\ \A i, j \in 1..n : i < j => s[p[i]] <= s[p[j]]

(* The largest element is sent to the end, the one it takes the place of is *)
(* put in order with the others.                                            *)
LEMMA OrderNext ==
  ASSUME NEW n \in Nat, NEW s, \A i \in 1..(n + 1) : s[i] \in Nat,
         NEW m \in 1..(n + 1), \A i \in 1..(n + 1) : s[i] <= s[m],
         NEW g, g = [i \in 1..n |-> IF i = m THEN s[n + 1] ELSE s[i]],
         NEW p, Orders(p, g, n)
  PROVE  \E q : Orders(q, s, n + 1)
<1> DEFINE q == [i \in 1..(n + 1) |-> IF i = n + 1 THEN m ELSE IF p[i] = m THEN n + 1 ELSE p[i]]
<1>1. ASSUME NEW i \in 1..n
      PROVE  /\ p[i] \in 1..n /\ p[i] \in 1..(n + 1) /\ p[i] # n + 1
             /\ p[i] = m => q[i] = n + 1
             /\ p[i] # m => q[i] = p[i]
             /\ q[i] # m /\ q[i] \in 1..(n + 1)
             /\ s[q[i]] = g[p[i]]
  <2>1. p[i] \in 1..n /\ i \in 1..(n + 1) /\ i # n + 1
    BY DEF Orders
  <2>2. p[i] \in 1..(n + 1) /\ p[i] # n + 1
    BY <2>1
  <2>3. q[i] = IF p[i] = m THEN n + 1 ELSE p[i]
    BY <2>1
  <2> HIDE DEF q
  <2>4. g[p[i]] = IF p[i] = m THEN s[n + 1] ELSE s[p[i]]
    BY <2>1
  <2>5. CASE p[i] = m
    BY <2>1, <2>2, <2>3, <2>4, <2>5
  <2>6. CASE p[i] # m
    BY <2>1, <2>2, <2>3, <2>4, <2>6
  <2>7. QED
    BY <2>5, <2>6, Zenon
<1>2. q[n + 1] = m /\ n + 1 \in 1..(n + 1)
  OBVIOUS
<1>3. \A i \in 1..(n + 1) : i \in 1..n \/ i = n + 1
  OBVIOUS
<1>4. q \in [1..(n + 1) -> 1..(n + 1)]
  <2>1. ASSUME NEW i \in 1..(n + 1) PROVE q[i] \in 1..(n + 1)
    <3> HIDE DEF q
    <3>1. QED
      BY <1>1, <1>2, <1>3
  <2>2. q = [i \in 1..(n + 1) |-> q[i]]
    OBVIOUS
  <2> HIDE DEF q
  <2>3. QED
    BY <2>1, <2>2
<1> HIDE DEF q
<1>5. ASSUME NEW i \in 1..(n + 1), NEW j \in 1..(n + 1), q[i] = q[j] PROVE i = j
  <2>1. CASE i \in 1..n /\ j \in 1..n
    <3>1. p[i] = p[j]
      <4>1. p[i] # n + 1 /\ p[j] # n + 1
        BY <1>1, <2>1
      <4>2. (p[i] = m => q[i] = n + 1) /\ (p[i] # m => q[i] = p[i])
        BY <1>1, <2>1
      <4>3. (p[j] = m => q[j] = n + 1) /\ (p[j] # m => q[j] = p[j])
        BY <1>1, <2>1
      <4>4. QED
        BY <1>5, <4>1, <4>2, <4>3, Zenon
    <3>2. QED
      BY <2>1, <3>1 DEF Orders
  <2>2. CASE i \in 1..n /\ j = n + 1
    BY <1>1, <1>2, <1>5, <2>2
  <2>3. CASE i = n + 1 /\ j \in 1..n
    BY <1>1, <1>2, <1>5, <2>3
  <2>4. CASE i = n + 1 /\ j = n + 1
    BY <2>4
  <2>5. QED
    BY <1>3, <2>1, <2>2, <2>3, <2>4, Zenon
<1>6. ASSUME NEW v \in 1..(n + 1) PROVE \E i \in 1..(n + 1) : q[i] = v
  <2>1. CASE v = m
    BY <1>2, <2>1
  <2>2. CASE v # m /\ v = n + 1
    <3>1. m \in 1..n
      BY <2>2
    <3>2. PICK i \in 1..n : p[i] = m
      BY <3>1 DEF Orders
    <3>3. q[i] = v /\ i \in 1..(n + 1)
      BY <1>1, <2>2, <3>2
    <3>4. QED
      BY <3>3, Zenon
  <2>3. CASE v # m /\ v # n + 1
    <3>1. v \in 1..n
      BY <2>3
    <3>2. PICK i \in 1..n : p[i] = v
      BY <3>1 DEF Orders
    <3>3. q[i] = v /\ i \in 1..(n + 1)
      BY <1>1, <2>3, <3>2
    <3>4. QED
      BY <3>3, Zenon
  <2>4. QED
    BY <2>1, <2>2, <2>3, Zenon
<1>7. ASSUME NEW i \in 1..(n + 1), NEW j \in 1..(n + 1), i < j PROVE s[q[i]] <= s[q[j]]
  <2>1. i \in 1..n
    BY <1>7
  <2>2. CASE j \in 1..n
    <3>1. s[q[i]] = g[p[i]] /\ s[q[j]] = g[p[j]]
      BY <1>1, <2>1, <2>2
    <3>2. g[p[i]] <= g[p[j]]
      BY <1>7, <2>1, <2>2 DEF Orders
    <3>3. QED
      BY <3>1, <3>2, Zenon
  <2>3. CASE j = n + 1
    <3>1. q[j] = m /\ q[i] \in 1..(n + 1)
      BY <1>1, <1>2, <2>1, <2>3
    <3>2. QED
      BY <3>1
  <2>4. QED
    BY <1>3, <2>2, <2>3, Zenon
<1>8. Orders(q, s, n + 1)
  BY <1>4, <1>5, <1>6, <1>7 DEF Orders
<1>9. QED
  BY <1>8, Zenon

(* Numbers can be put in order.                                             *)
LEMMA OrderExists ==
  ASSUME NEW n \in Nat, NEW s, \A i \in 1..n : s[i] \in Nat
  PROVE  \E p : Orders(p, s, n)
<1> DEFINE Good(c) == \A t : (\A i \in 1..c : t[i] \in Nat) => \E p : Orders(p, t, c)
           S == {c \in Nat : Good(c)}
<1>1. Good(0)
  <2> SUFFICES ASSUME NEW t PROVE \E p : Orders(p, t, 0)
    OBVIOUS
  <2> DEFINE p == [i \in 1..0 |-> i]
  <2>1. 1..0 = {}
    OBVIOUS
  <2>2. p \in [1..0 -> 1..0]
    OBVIOUS
  <2> HIDE DEF p
  <2>3. Orders(p, t, 0)
    BY <2>1, <2>2 DEF Orders
  <2>4. QED
    BY <2>3, Zenon
<1>2. ASSUME NEW c \in Nat, Good(c) PROVE Good(c + 1)
  <2> SUFFICES ASSUME NEW t, \A i \in 1..(c + 1) : t[i] \in Nat PROVE \E q : Orders(q, t, c + 1)
    OBVIOUS
  <2>1. PICK m \in 1..(c + 1) : \A i \in 1..(c + 1) : t[i] <= t[m]
    BY Largest
  <2>2. PICK g : g = [i \in 1..c |-> IF i = m THEN t[c + 1] ELSE t[i]]
    OBVIOUS
  <2>3. ASSUME NEW i \in 1..c PROVE g[i] \in Nat
    <3>1. t[c + 1] \in Nat /\ t[i] \in Nat
      OBVIOUS
    <3>2. g[i] = IF i = m THEN t[c + 1] ELSE t[i]
      BY <2>2
    <3>3. QED
      BY <3>1, <3>2
  <2>4. PICK p : Orders(p, g, c)
    BY <1>2, <2>3, Zenon
  <2>5. QED
    BY <2>1, <2>2, <2>4, OrderNext
<1> HIDE DEF Good
<1>3. Nat \subseteq S
  <2>1. 0 \in S /\ \A c \in Nat : c \in S => c + 1 \in S
    BY <1>1, <1>2
  <2> HIDE DEF S
  <2>2. QED
    BY <2>1, Induction
<1>4. Good(n)
  BY <1>3
<1>5. QED
  BY <1>4, Zenon DEF Good

(* The copy of a batch that is sorted has its items.                        *)
LEMMA SortedCopyIs ==
  ASSUME NEW s \in Seq(Keys)
  PROVE  /\ SortedCopy(s) \in Seq(Keys) /\ Len(SortedCopy(s)) = Len(s) /\ Sorted(SortedCopy(s))
         /\ \A k : Occurrences(SortedCopy(s), k) = Occurrences(s, k)
<1> DEFINE n == Len(s)
           D == DOMAIN s
           Ascends(p) == \A i, j \in D : i < j => s[p[i]] <= s[p[j]]
           order == CHOOSE p \in Bijection(D, D) : Ascends(p)
           c == [i \in D |-> s[order[i]]]
<1>0. n \in Nat /\ D = 1..n /\ \A i \in 1..n : s[i] \in Keys /\ s[i] \in Nat
  BY KeyElements, LenProperties
<1>1. \E p \in Bijection(D, D) : Ascends(p)
  <2>1. PICK p : Orders(p, s, n)
    BY <1>0, OrderExists
  <2>2. p \in Bijection(D, D)
    BY <1>0, <2>1 DEF Orders, Bijection, Injection, Surjection, IsInjective
  <2>3. Ascends(p)
    BY <1>0, <2>1 DEF Orders
  <2> HIDE DEF Ascends, D
  <2>4. QED
    BY <2>2, <2>3
<1>2. order \in Bijection(D, D) /\ Ascends(order)
  <2> HIDE DEF Ascends, D
  <2>1. QED
    BY <1>1
<1> HIDE DEF order
<1>3. /\ order \in [1..n -> 1..n]
      /\ \A i, j \in 1..n : order[i] = order[j] => i = j
      /\ \A v \in 1..n : \E i \in 1..n : order[i] = v
      /\ \A i, j \in 1..n : i < j => s[order[i]] <= s[order[j]]
  BY <1>0, <1>2 DEF Bijection, Injection, Surjection, IsInjective
<1>4. SortedCopy(s) = c
  BY DEF SortedCopy, order
<1>5. c \in [1..n -> Keys] /\ \A i \in 1..n : c[i] = s[order[i]]
  BY <1>0, <1>3
<1> HIDE DEF c
<1>6. c \in Seq(Keys) /\ Len(c) = n
  BY <1>0, <1>5, FunctionIsSeq
<1>7. Sorted(c)
  BY SMTT(30), <1>3, <1>5, <1>6 DEF Sorted
<1>8. ASSUME NEW k PROVE Occurrences(c, k) = Occurrences(s, k)
  <2> DEFINE A == {i \in 1..n : c[i] = k}
             B == {i \in 1..n : s[i] = k}
             h == [i \in A |-> order[i]]
  <2>1. IsFiniteSet(A)
    <3>1. IsFiniteSet(1..n) /\ A \in SUBSET (1..n)
      BY <1>0, FS_Interval
    <3>2. QED
      BY <3>1, FS_Subset
  <2>2. h \in [A -> B]
    BY <1>3, <1>5
  <2>3. ASSUME NEW v \in B PROVE \E i \in A : h[i] = v
    <3>1. PICK i \in 1..n : order[i] = v
      BY <1>3
    <3>2. i \in A
      BY <1>5, <3>1
    <3>3. QED
      BY <3>1, <3>2
  <2>4. ASSUME NEW i \in A, NEW j \in A, h[i] = h[j] PROVE i = j
    BY <1>3, <2>4
  <2> HIDE DEF A, B, h
  <2>5. h \in Bijection(A, B)
    BY <2>2, <2>3, <2>4 DEF Bijection, Injection, Surjection, IsInjective
  <2>6. Cardinality(B) = Cardinality(A)
    BY <2>1, <2>5, FS_Bijection DEF ExistsBijection
  <2>7. QED
    BY <1>6, <2>6 DEF A, B, Occurrences, CountTo
<1>9. QED
  BY <1>4, <1>6, <1>7, <1>8, Zenon
-----------------------------------------------------------------------------
(* A place for k: nothing greater is in front of it, nothing less behind.   *)
Place(s, k, i) == /\ i \in 0..Len(s)
                  /\ \A j \in 1..i : s[j] <= k
                  /\ \A j \in (i + 1)..Len(s) : k <= s[j]

(* An insertion in its place keeps the order.                               *)
LEMMA SortedInsertAt ==
  ASSUME NEW s \in Seq(Keys), Sorted(s), NEW k \in Keys, NEW i, Place(s, k, i)
  PROVE  Sorted(InsertAt(s, i + 1, k))
<1>1. PICK n \in Nat : n = Len(s)
  BY LenProperties
<1>2. i \in 0..n /\ k \in Nat
  BY <1>1, ArrayKeysAssumption DEF Place
<1>3. PICK t \in Seq(Keys) :
        /\ t = InsertAt(s, i + 1, k) /\ Len(t) = n + 1
        /\ \A j \in 1..(n + 1) : t[j] = IF j < i + 1 THEN s[j] ELSE IF j = i + 1 THEN k ELSE s[j - 1]
  BY <1>1, <1>2, InsertedAt
<1>4. \A j \in 1..n : s[j] \in Nat
  BY <1>1, KeyElements
<1>5. ASSUME NEW x \in 1..(n + 1), NEW y \in 1..(n + 1), x < y PROVE t[x] <= t[y]
  <2>1. CASE x < i + 1 /\ y < i + 1
    <3>1. x \in 1..n /\ y \in 1..n /\ t[x] = s[x] /\ t[y] = s[y]
      BY <1>2, <1>3, <2>1
    <3>2. QED
      BY <1>1, <1>5, <3>1 DEF Sorted
  <2>2. CASE x < i + 1 /\ y = i + 1
    <3>1. x \in 1..i /\ t[x] = s[x] /\ t[y] = k
      BY <1>2, <1>3, <2>2
    <3>2. QED
      BY <3>1 DEF Place
  <2>3. CASE x < i + 1 /\ y > i + 1
    <3>1. /\ x \in 1..i /\ x \in 1..n /\ t[x] = s[x]
          /\ y - 1 \in (i + 1)..n /\ y - 1 \in 1..n /\ t[y] = s[y - 1] /\ x < y - 1
      BY <1>2, <1>3, <2>3
    <3>2. QED
      BY <1>1, <3>1 DEF Sorted
  <2>4. CASE x = i + 1 /\ y > i + 1
    <3>1. t[x] = k /\ y - 1 \in (i + 1)..n /\ t[y] = s[y - 1]
      BY <1>2, <1>3, <2>4
    <3>2. QED
      BY <1>1, <3>1 DEF Place
  <2>5. CASE x > i + 1 /\ y > i + 1
    <3>1. /\ x - 1 \in 1..n /\ t[x] = s[x - 1]
          /\ y - 1 \in 1..n /\ t[y] = s[y - 1] /\ x - 1 < y - 1
      BY <1>2, <1>3, <1>5, <2>5
    <3>2. QED
      BY <1>1, <3>1 DEF Sorted
  <2>6. \/ x < i + 1 /\ y < i + 1
        \/ x < i + 1 /\ y = i + 1
        \/ x < i + 1 /\ y > i + 1
        \/ x = i + 1 /\ y > i + 1
        \/ x > i + 1 /\ y > i + 1
    BY <1>2, <1>5
  <2>7. QED
    BY <2>1, <2>2, <2>3, <2>4, <2>5, <2>6, Zenon
<1>6. Sorted(t)
  BY <1>3, <1>5 DEF Sorted
<1>7. QED
  BY <1>3, <1>6, Zenon

(* A removal does.                                                          *)
LEMMA SortedRemoveAt ==
  ASSUME NEW s \in Seq(Keys), Sorted(s), NEW i \in 1..Len(s)
  PROVE  /\ RemoveAt(s, i) \in Seq(Keys) /\ Len(RemoveAt(s, i)) = Len(s) - 1
         /\ Sorted(RemoveAt(s, i))
<1>1. PICK n \in Nat : n = Len(s)
  BY LenProperties
<1>2. i \in 1..n
  BY <1>1
<1>3. RemoveAt(s, i) \in Seq(Keys) /\ Len(RemoveAt(s, i)) = n - 1
  BY <1>1, RemoveAtIs
<1>4. PICK t \in Seq(Keys) : t = RemoveAt(s, i) /\ Len(t) = n - 1
  BY <1>3
<1>5. ASSUME NEW j \in 1..(n - 1) PROVE t[j] = IF j < i THEN s[j] ELSE s[j + 1]
  BY <1>1, <1>4, RemovedItem
<1>6. ASSUME NEW x \in 1..(n - 1), NEW y \in 1..(n - 1), x < y PROVE t[x] <= t[y]
  <2>1. PICK p \in 1..n : t[x] = s[p] /\ p = IF x < i THEN x ELSE x + 1
    BY <1>5
  <2>2. PICK q \in 1..n : t[y] = s[q] /\ q = IF y < i THEN y ELSE y + 1
    BY <1>5
  <2>3. p < q
    BY <1>2, <1>6, <2>1, <2>2
  <2>4. QED
    BY <1>1, <2>1, <2>2, <2>3 DEF Sorted
<1>7. Sorted(t)
  BY <1>4, <1>6 DEF Sorted
<1>8. QED
  BY <1>1, <1>3, <1>4, <1>7, Zenon

(* The search of an array in order.                                         *)
LEMMA FoundIs ==
  ASSUME NEW s \in Seq(Keys), Sorted(s), NEW k \in Keys
  PROVE  /\ BinarySearch(s, k) \in [index : Nat, hit : BOOLEAN]
         /\ Place(s, k, BinarySearch(s, k).index)
         /\ BinarySearch(s, k).hit => /\ BinarySearch(s, k).index \in 0..(Len(s) - 1)
                                      /\ s[BinarySearch(s, k).index + 1] = k
         /\ ~BinarySearch(s, k).hit => \A j \in 1..Len(s) : s[j] # k
<1>1. PICK n \in Nat : n = Len(s)
  BY LenProperties
<1>2. s \in Seq(Int) /\ k \in Int /\ k \in Nat
  <2>1. Keys \subseteq Int
    BY ArrayKeysAssumption
  <2>2. QED
    BY <2>1, ArrayKeysAssumption, SeqMonotonic
<1>3. \A j \in 1..n : s[j] \in Nat
  BY <1>1, KeyElements
<1>4. PICK r : r = BinarySearch(s, k)
  OBVIOUS
<1>5. Located(r, n, s, k)
  BY <1>1, <1>2, <1>4, BinarySearchLocates
<1>10. r \in [index : Nat, hit : BOOLEAN]
  BY <1>5 DEF Located
<1>6. Ascending(s, n)
  BY <1>1 DEF Ascending, Sorted
<1>7. CASE r.hit
  <2>1. r.index \in 0..(n - 1) /\ s[r.index + 1] = k
    BY <1>5, <1>7 DEF Located
  <2>2. Place(s, k, r.index)
    <3>1. PICK i \in 0..(n - 1) : i = r.index /\ s[i + 1] = k
      BY <2>1
    <3>2. ASSUME NEW j \in 1..i PROVE s[j] <= k
      <4>1. j < i + 1 /\ j \in 1..n /\ i + 1 \in 1..n
        BY <3>1
      <4>2. QED
        BY <1>6, <3>1, <4>1 DEF Ascending
    <3>3. ASSUME NEW j \in (i + 1)..n PROVE k <= s[j]
      <4>1. (j = i + 1 \/ i + 1 < j) /\ j \in 1..n /\ i + 1 \in 1..n
        BY <3>1
      <4>2. QED
        BY <1>2, <1>6, <3>1, <4>1 DEF Ascending
    <3>4. QED
      BY <1>1, <3>1, <3>2, <3>3 DEF Place
  <2>3. QED
    BY <1>1, <1>4, <1>7, <1>10, <2>1, <2>2, Zenon
<1>8. CASE ~r.hit
  <2>1. Around(s, n, k, r.index, r.index) /\ r.index \in 0..n /\ r.hit \in BOOLEAN
    BY <1>5, <1>6, <1>8 DEF Located
  <2>2. PICK i \in 0..n : i = r.index
    BY <2>1
  <2>3. (\A j \in 1..i : s[j] < k) /\ (\A j \in (i + 1)..n : k < s[j])
    BY <2>1, <2>2 DEF Around
  <2>4. Place(s, k, r.index)
    <3>1. ASSUME NEW j \in 1..i PROVE s[j] <= k
      BY <1>2, <1>3, <2>3
    <3>2. ASSUME NEW j \in (i + 1)..n PROVE k <= s[j]
      BY <1>2, <1>3, <2>3
    <3>3. QED
      BY <1>1, <2>2, <3>1, <3>2 DEF Place
  <2>5. ASSUME NEW j \in 1..n PROVE s[j] # k
    <3>1. j \in 1..i \/ j \in (i + 1)..n
      OBVIOUS
    <3>2. QED
      BY <1>2, <1>3, <2>3, <3>1
  <2>6. QED
    BY <1>1, <1>4, <1>8, <1>10, <2>4, <2>5, Zenon
<1>9. QED
  BY <1>7, <1>8

(* An equal element is a place too.                                         *)
LEMMA EqualIsPlace ==
  ASSUME NEW s \in Seq(Keys), Sorted(s), NEW k \in Keys, NEW i \in 0..(Len(s) - 1), s[i + 1] = k
  PROVE  Place(s, k, i)
<1>1. PICK n \in Nat : n = Len(s)
  BY LenProperties
<1>2. k \in Nat
  BY ArrayKeysAssumption
<1>3. ASSUME NEW j \in 1..i PROVE s[j] <= k
  <2>1. j < i + 1 /\ j \in 1..n /\ i + 1 \in 1..n
    BY <1>1
  <2>2. QED
    BY <1>1, <2>1 DEF Sorted
<1>4. ASSUME NEW j \in (i + 1)..n PROVE k <= s[j]
  <2>1. (j = i + 1 \/ i + 1 < j) /\ j \in 1..n /\ i + 1 \in 1..n
    BY <1>1
  <2>2. QED
    BY <1>1, <1>2, <2>1 DEF Sorted
<1>5. QED
  BY <1>1, <1>3, <1>4 DEF Place

(* The linear search forwards stops at an element that is equal.            *)
LEMMA ForwardsIs ==
  ASSUME NEW x, Fine(x), NEW k \in Keys, NEW hit \in 0..(x.length - 1), Items(x)[hit + 1] = k,
         NEW i \in StableIndexes(x, hit, k, Forwards)
  PROVE  i \in 0..(x.length - 1) /\ Items(x)[i + 1] = k
<1>0. x.length \in Nat /\ x.offset \in Nat
  BY DEF Fine
<1>1. PICK m \in 0..(x.length - 1 - hit) :
        /\ i = hit + m
        /\ \A j \in 1..m : \/ x.offset + hit + 1 * j + 1 \notin InUse(x)
                           \/ x.block[x.offset + hit + 1 * j + 1] = k
  BY DEF StableIndexes, Forwards
<1>2. i \in 0..(x.length - 1)
  BY <1>0, <1>1
<1>3. CASE m = 0
  BY <1>0, <1>1, <1>3
<1>4. CASE m > 0
  <2>1. m \in 1..m /\ x.offset + hit + 1 * m + 1 = x.offset + (i + 1) /\ i + 1 \in 1..x.length
    BY <1>0, <1>1, <1>4
  <2>2. x.offset + (i + 1) \in InUse(x)
    BY <1>0, <2>1 DEF InUse
  <2>3. x.block[x.offset + (i + 1)] = k
    BY <1>1, <2>1, <2>2
  <2>4. QED
    BY <1>2, <2>1, <2>3, ItemsAre
<1>5. QED
  BY <1>0, <1>2, <1>3, <1>4

(* Backwards or not, its index is one of an element.                        *)
LEMMA StableIndexesIn ==
  ASSUME NEW x, Fine(x), NEW k, NEW hit \in 0..(x.length - 1), NEW direction,
         NEW i \in StableIndexes(x, hit, k, direction)
  PROVE  i \in 0..(x.length - 1)
<1>0. x.length \in Nat
  BY DEF Fine
<1>1. PICK m \in 0..(x.length - 1 - hit) : i = hit + m
  BY DEF StableIndexes
<1>2. QED
  BY <1>0, <1>1
-----------------------------------------------------------------------------
(* Every array lies in its block and its elements are in order.             *)
Ordered(x) == Fine(x) /\ Sorted(Items(x))

ArrayInv == /\ arr = [a \in Arrays |-> arr[a]]
            /\ \A a \in Arrays : Ordered(arr[a])
            /\ result \in Int

Elements == [a \in Arrays |-> Items(arr[a])]

(* What the invariant says of one array.                                    *)
LEMMA ElementsAre ==
  ASSUME ArrayInv, NEW a \in Arrays
  PROVE  /\ Elements[a] = Items(arr[a]) /\ Items(arr[a]) \in Seq(Keys)
         /\ Len(Items(arr[a])) = arr[a].length /\ Sorted(Items(arr[a])) /\ Fine(arr[a])
<1>1. Fine(arr[a]) /\ Sorted(Items(arr[a]))
  BY DEF ArrayInv, Ordered
<1>2. Elements[a] = Items(arr[a])
  BY DEF Elements
<1>3. QED
  BY <1>1, <1>2, ItemsAre

(* A call replaces one array.                                               *)
LEMMA Replaces ==
  ASSUME ArrayInv, NEW a \in Arrays, NEW y, Ordered(y), arr' = [arr EXCEPT ![a] = y], result' \in Int
  PROVE  /\ ArrayInv' /\ Elements' = [Elements EXCEPT ![a] = Items(y)]
         /\ Elements'[a] = Items(y)
<1>1. DOMAIN arr = Arrays
  BY DEF ArrayInv
<1>2. arr' = [b \in Arrays |-> IF b = a THEN y ELSE arr[b]]
  BY <1>1
<1>3. ASSUME NEW b \in Arrays PROVE arr'[b] = IF b = a THEN y ELSE arr[b]
  BY <1>2
<1>4. arr' = [b \in Arrays |-> arr'[b]]
  BY <1>2
<1>5. ASSUME NEW b \in Arrays PROVE Ordered(arr'[b])
  BY <1>3 DEF ArrayInv
<1>6. ArrayInv'
  BY <1>4, <1>5 DEF ArrayInv
<1>7. Elements' = [b \in Arrays |-> Items(arr'[b])]
  BY DEF Elements
<1>8. Elements' = [b \in Arrays |-> IF b = a THEN Items(y) ELSE Items(arr[b])]
  BY <1>3, <1>7
<1>9. Elements' = [Elements EXCEPT ![a] = Items(y)]
  BY <1>8 DEF Elements
<1>10. QED
  BY <1>6, <1>8, <1>9

(* A call that leaves the arrays alone.                                     *)
LEMMA NothingReplaced ==
  ASSUME ArrayInv, arr' = arr, result' \in Int
  PROVE  ArrayInv' /\ Elements' = Elements
BY DEF ArrayInv, Elements

(* The abstract operations, of the elements.                                *)
LEMMA BagIs ==
  ASSUME NEW a, NEW k, NEW s, NEW i
  PROVE  /\ Bag!Insert(a, k) <=>
              \E j \in 0..Len(Elements[a]) : /\ Elements' = [Elements EXCEPT ![a] = InsertAt(Elements[a], j + 1, k)]
                                             /\ Bag!Sorted(Elements'[a])
                                             /\ result' = j
         /\ Bag!Fail <=> result' = -1 /\ Elements' = Elements
         /\ Bag!Without(a, i) <=> Elements' = [Elements EXCEPT ![a] = RemoveAt(Elements[a], i + 1)]
         /\ Bag!Clear(a) <=> Elements' = [Elements EXCEPT ![a] = <<>>] /\ result' = 0
         /\ Bag!Add(a, s) <=> /\ Bag!Sorted(Elements'[a])
                              /\ Bag!SameElements(Elements'[a], Elements[a] \o s)
                              /\ Elements' = [Elements EXCEPT ![a] = Elements'[a]]
                              /\ result' = 0
         /\ Bag!Pop(a) <=>
              \/ /\ Elements[a] # <<>>
                 /\ Elements' = [Elements EXCEPT ![a] = Front(Elements[a])]
                 /\ result' = Last(Elements[a])
              \/ Elements[a] = <<>> /\ Bag!Fail
         /\ Bag!Find(a, k) <=>
              /\ IF Contains(Elements[a], k)
                   THEN result' \in {m - 1 : m \in {j \in DOMAIN Elements[a] : Elements[a][j] = k}}
                   ELSE result' = -1
              /\ Elements' = Elements
         /\ Bag!Delete(a, k) <=>
              \/ \E j \in 0..(Len(Elements[a]) - 1) :
                   Elements[a][j + 1] = k /\ Bag!Without(a, j) /\ result' = j
              \/ ~Contains(Elements[a], k) /\ Bag!Fail
         /\ Bag!Erase(a, i) <=>
              \/ i < Len(Elements[a]) /\ Bag!Without(a, i) /\ result' = 0
              \/ i >= Len(Elements[a]) /\ Bag!Fail
<1>1. Bag!Insert(a, k) <=>
        \E j \in 0..Len(Elements[a]) : /\ Elements' = [Elements EXCEPT ![a] = InsertAt(Elements[a], j + 1, k)]
                                       /\ Bag!Sorted(Elements'[a])
                                       /\ result' = j
  BY Zenon DEF Bag!Insert, Bag!InsertAt, InsertAt, Elements
<1>2. Bag!Fail <=> result' = -1 /\ Elements' = Elements
  BY DEF Bag!Fail, Bag!INVALID, Elements
<1>3. Bag!Without(a, i) <=> Elements' = [Elements EXCEPT ![a] = RemoveAt(Elements[a], i + 1)]
  BY Zenon DEF Bag!Without, Bag!RemoveAt, RemoveAt, Elements
<1>4. Bag!Clear(a) <=> Elements' = [Elements EXCEPT ![a] = <<>>] /\ result' = 0
  BY DEF Bag!Clear, Elements
<1>5. Bag!Add(a, s) <=> /\ Bag!Sorted(Elements'[a])
                        /\ Bag!SameElements(Elements'[a], Elements[a] \o s)
                        /\ Elements' = [Elements EXCEPT ![a] = Elements'[a]]
                        /\ result' = 0
  BY DEF Bag!Add, Elements
<1>6. Bag!Pop(a) <=>
        \/ /\ Elements[a] # <<>>
           /\ Elements' = [Elements EXCEPT ![a] = Front(Elements[a])]
           /\ result' = Last(Elements[a])
        \/ Elements[a] = <<>> /\ Bag!Fail
  BY Zenon DEF Bag!Pop, Bag!Front, Front, Bag!Last, Last, Elements
<1>7. Bag!Find(a, k) <=>
        /\ IF Contains(Elements[a], k)
             THEN result' \in {m - 1 : m \in {j \in DOMAIN Elements[a] : Elements[a][j] = k}}
             ELSE result' = -1
        /\ Elements' = Elements
  BY Zenon DEF Bag!Find, Bag!INVALID, Bag!Contains, Contains, Elements
<1>8. Bag!Delete(a, k) <=>
        \/ \E j \in 0..(Len(Elements[a]) - 1) :
             Elements[a][j + 1] = k /\ Bag!Without(a, j) /\ result' = j
        \/ ~Contains(Elements[a], k) /\ Bag!Fail
  BY Zenon DEF Bag!Delete, Bag!Contains, Contains, Elements
<1>9. Bag!Erase(a, i) <=>
        \/ i < Len(Elements[a]) /\ Bag!Without(a, i) /\ result' = 0
        \/ i >= Len(Elements[a]) /\ Bag!Fail
  BY DEF Bag!Erase, Elements
<1>10. QED
  BY <1>1, <1>2, <1>3, <1>4, <1>5, <1>6, <1>7, <1>8, <1>9, Zenon

(* The order of the abstract specification.                                 *)
LEMMA BagSorted == ASSUME NEW s \in Seq(Keys), Sorted(s) PROVE Bag!Sorted(s)
<1>1. DOMAIN s = 1..Len(s)
  BY LenProperties
<1>2. QED
  BY <1>1 DEF Sorted, Bag!Sorted

(* Its elements, however ordered.                                           *)
LEMMA BagSame ==
  ASSUME NEW s \in Seq(Keys), NEW t \in Seq(Keys), \A k : Occurrences(s, k) = Occurrences(t, k)
  PROVE  Bag!SameElements(s, t)
<1>1. DOMAIN s = 1..Len(s) /\ DOMAIN t = 1..Len(t)
  BY LenProperties
<1>2. ASSUME NEW k PROVE Bag!Occurrences(s, k) = Occurrences(s, k) /\ Bag!Occurrences(t, k) = Occurrences(t, k)
  BY <1>1, Zenon DEF Bag!Occurrences, Bag!Cardinality, Cardinality, Occurrences, CountTo
<1>3. QED
  BY <1>2, Zenon DEF Bag!SameElements

(* One item goes into its place, or nothing does.                           *)
LEMMA InsertStep ==
  ASSUME ArrayInv, NEW a \in Arrays, NEW k \in Keys, NEW index, Place(Items(arr[a]), k, index),
         InsertInto(a, k, index)
  PROVE  ArrayInv' /\ (Bag!Insert(a, k) \/ Bag!Fail)
<1> DEFINE x == arr[a]
           s == Items(x)
<1>1. s \in Seq(Keys) /\ Len(s) = x.length /\ Sorted(s) /\ Fine(x) /\ Elements[a] = s
  BY ElementsAre
<1>2. index \in 0..Len(s) /\ index \in 0..x.length /\ index \in Int
  BY <1>1 DEF Place
<1>3. CASE /\ arr' = [arr EXCEPT ![a] = Tidy(Inserted(arr[a], k, index))]
           /\ result' = index
  <2>1. PICK y : y = Tidy(Inserted(x, k, index))
    OBVIOUS
  <2>2. Fine(y) /\ Items(y) = InsertAt(s, index + 1, k)
    BY <1>1, <1>2, <2>1, InsertedIs, TidyKeeps
  <2>3. Sorted(Items(y))
    BY <1>1, <2>2, SortedInsertAt
  <2>4. /\ ArrayInv' /\ Elements' = [Elements EXCEPT ![a] = Items(y)]
        /\ Elements'[a] = Items(y)
    <3>1. Ordered(y) /\ arr' = [arr EXCEPT ![a] = y] /\ result' \in Int
      BY <1>2, <1>3, <2>1, <2>2, <2>3 DEF Ordered
    <3>2. QED
      BY <3>1, Replaces
  <2>5. Bag!Sorted(Elements'[a])
    <3>1. Items(y) \in Seq(Keys)
      BY <2>2, ItemsAre
    <3>2. QED
      BY <2>3, <2>4, <3>1, BagSorted
  <2>6. Elements' = [Elements EXCEPT ![a] = InsertAt(Elements[a], index + 1, k)]
    BY <1>1, <2>2, <2>4, Zenon
  <2>7. index \in 0..Len(Elements[a]) /\ result' = index
    BY <1>1, <1>2, <1>3
  <2>8. Bag!Insert(a, k)
    BY <2>5, <2>6, <2>7, BagIs, Zenon
  <2>9. QED
    BY <2>4, <2>8
<1>4. CASE /\ arr' = [arr EXCEPT ![a].block = IF arr[a].length = 0 THEN NULL ELSE @]
           /\ result' = INVALID
  <2>1. PICK y : y = [x EXCEPT !.block = IF x.length = 0 THEN NULL ELSE x.block]
    OBVIOUS
  <2>2. x \in [block : Blocks \cup {NULL}, length : Nat, offset : Nat]
    BY <1>1 DEF Fine
  <2>3. Fine(y) /\ Items(y) = s
    <3>1. CASE x.length = 0
      <4>1. y = [x EXCEPT !.block = NULL]
        BY <2>1, <3>1
      <4>2. /\ y \in [block : Blocks \cup {NULL}, length : Nat, offset : Nat]
            /\ y.length = 0 /\ y.offset = x.offset
        BY <2>2, <3>1, <4>1
      <4>3. y.offset = 0
        BY <1>1, <3>1, <4>2 DEF Fine
      <4>4. InUse(y) = {}
        BY <4>2, <4>3 DEF InUse
      <4>5. Fine(y)
        BY <4>2, <4>3, <4>4 DEF Fine
      <4>6. Items(y) = <<>> /\ s = <<>>
        BY <3>1, <4>2 DEF Items
      <4>7. QED
        BY <4>5, <4>6
    <3>2. CASE x.length # 0
      <4>1. y = x
        BY <2>1, <2>2, <3>2
      <4>2. QED
        BY <1>1, <4>1
    <3>3. QED
      BY <3>1, <3>2
  <2>4. /\ ArrayInv' /\ Elements' = [Elements EXCEPT ![a] = Items(y)]
    <3>1. arr' = [arr EXCEPT ![a] = y]
      BY <1>4, <2>1
    <3>2. Ordered(y) /\ result' \in Int
      BY <1>1, <1>4, <2>3 DEF Ordered, INVALID
    <3>3. QED
      BY <3>1, <3>2, Replaces
  <2>5. Elements' = Elements
    BY <1>1, <2>3, <2>4 DEF Elements
  <2>6. Bag!Fail
    BY <1>4, <2>5, BagIs DEF INVALID
  <2>7. QED
    BY <2>4, <2>6
<1>5. QED
  BY <1>3, <1>4 DEF InsertInto

(* The two insertions.                                                      *)
LEMMA InsertKept ==
  ASSUME ArrayInv, NEW a \in Arrays, NEW k \in Keys, Insert(a, k) \/ InsertStable(a, k)
  PROVE  ArrayInv' /\ (Bag!Insert(a, k) \/ Bag!Fail)
<1> DEFINE s == Items(arr[a])
           found == BinarySearch(s, k)
<1>1. s \in Seq(Keys) /\ Len(s) = arr[a].length /\ Sorted(s) /\ Fine(arr[a])
  BY ElementsAre
<1>2. /\ found \in [index : Nat, hit : BOOLEAN]
      /\ Place(s, k, found.index)
      /\ found.hit => found.index \in 0..(Len(s) - 1) /\ s[found.index + 1] = k
  BY <1>1, FoundIs
<1>3. CASE Insert(a, k)
  <2>1. InsertInto(a, k, found.index)
    BY <1>3 DEF Insert
  <2> HIDE DEF found
  <2>2. QED
    BY <1>2, <2>1, InsertStep
<1>4. CASE InsertStable(a, k)
  <2>1. PICK r \in FindStable(arr[a], k, Forwards) : InsertInto(a, k, r.index)
    BY <1>4 DEF InsertStable
  <2>2. Place(s, k, r.index)
    <3>1. CASE found.hit
      <4>1. PICK i \in StableIndexes(arr[a], found.index, k, Forwards) : r = [found EXCEPT !.index = i]
        BY <2>1, <3>1 DEF FindStable
      <4>2. i \in 0..(Len(s) - 1) /\ s[i + 1] = k
        BY <1>1, <1>2, <3>1, ForwardsIs
      <4>3. Place(s, k, i)
        BY <1>1, <4>2, EqualIsPlace
      <4>4. r.index = i
        BY <1>2, <4>1
      <4>5. QED
        BY <4>3, <4>4
    <3>2. CASE ~found.hit
      <4>1. r = found
        BY <2>1, <3>2 DEF FindStable
      <4>2. QED
        BY <1>2, <4>1
    <3>3. QED
      BY <3>1, <3>2, Zenon
  <2>3. QED
    BY <2>1, <2>2, InsertStep
<1>5. QED
  BY <1>3, <1>4

(* One item goes.                                                           *)
LEMMA RemoveStep ==
  ASSUME ArrayInv, NEW a \in Arrays, NEW index \in 0..(arr[a].length - 1),
         RemoveAtIndex(a, index), result' \in Int
  PROVE  ArrayInv' /\ Bag!Without(a, index)
<1> DEFINE x == arr[a]
           s == Items(x)
<1>1. s \in Seq(Keys) /\ Len(s) = x.length /\ Sorted(s) /\ Fine(x) /\ Elements[a] = s
  BY ElementsAre
<1>2. PICK z \in RemovedItems(x, index) : arr' = [arr EXCEPT ![a] = Tidy(z)]
  BY DEF RemoveAtIndex
<1>3. PICK y : y = Tidy(z)
  OBVIOUS
<1>4. Fine(y) /\ Items(y) = RemoveAt(s, index + 1)
  BY <1>1, <1>3, RemovedIs, TidyKeeps
<1>5. Sorted(Items(y))
  <2>1. index + 1 \in 1..Len(s)
    BY <1>1, LenProperties
  <2>2. QED
    BY <1>1, <1>4, <2>1, SortedRemoveAt
<1>6. ArrayInv' /\ Elements' = [Elements EXCEPT ![a] = Items(y)]
  <2>1. Ordered(y) /\ arr' = [arr EXCEPT ![a] = y]
    BY <1>2, <1>3, <1>4, <1>5 DEF Ordered
  <2>2. QED
    BY <2>1, Replaces
<1>7. Elements' = [Elements EXCEPT ![a] = RemoveAt(Elements[a], index + 1)]
  BY <1>1, <1>4, <1>6, Zenon
<1>8. QED
  BY <1>6, <1>7, BagIs, Zenon

(* A removal by key.                                                        *)
LEMMA DeleteKept ==
  ASSUME ArrayInv, NEW a \in Arrays, NEW k \in Keys, Delete(a, k)
  PROVE  ArrayInv' /\ Bag!Delete(a, k)
<1> DEFINE s == Items(arr[a])
           found == BinarySearch(s, k)
<1>1. s \in Seq(Keys) /\ Len(s) = arr[a].length /\ Sorted(s) /\ Elements[a] = s
  BY ElementsAre
<1>2. /\ found.hit => found.index \in 0..(Len(s) - 1) /\ s[found.index + 1] = k
      /\ ~found.hit => \A j \in 1..Len(s) : s[j] # k
  BY <1>1, FoundIs
<1>3. CASE found.hit
  <2>1. RemoveAtIndex(a, found.index) /\ result' = found.index
    BY <1>3 DEF Delete
  <2> HIDE DEF found
  <2>2. PICK i \in 0..(Len(s) - 1) : i = found.index /\ s[i + 1] = k
    BY <1>2, <1>3
  <2>3. RemoveAtIndex(a, i) /\ result' = i /\ result' \in Int /\ i \in 0..(arr[a].length - 1)
    BY <1>1, <2>1, <2>2
  <2>4. ArrayInv' /\ Bag!Without(a, i)
    BY <2>3, RemoveStep
  <2>5. i \in 0..(Len(Elements[a]) - 1) /\ Elements[a][i + 1] = k
    BY <1>1, <2>2
  <2>6. Bag!Delete(a, k)
    BY <2>3, <2>4, <2>5, BagIs, Zenon
  <2>7. QED
    BY <2>4, <2>6
<1>4. CASE ~found.hit
  <2>1. arr' = arr /\ result' = -1 /\ result' \in Int
    BY <1>4 DEF Delete, INVALID
  <2>2. ArrayInv' /\ Elements' = Elements
    BY <2>1, NothingReplaced
  <2>3. ~Contains(Elements[a], k)
    BY <1>1, <1>2, <1>4 DEF Contains
  <2>4. Bag!Fail
    BY <2>1, <2>2, BagIs, Zenon
  <2>5. QED
    BY <2>2, <2>3, <2>4, BagIs, Zenon
<1>5. QED
  BY <1>3, <1>4, Zenon

(* A removal of one of equal keys, whichever.                               *)
LEMMA DeleteStableKept ==
  ASSUME ArrayInv, NEW a \in Arrays, NEW k \in Keys, DeleteStable(a, k)
  PROVE  ArrayInv'
<1> DEFINE s == Items(arr[a])
           found == BinarySearch(s, k)
<1>1. s \in Seq(Keys) /\ Len(s) = arr[a].length /\ Sorted(s) /\ Fine(arr[a])
  BY ElementsAre
<1>2. /\ found \in [index : Nat, hit : BOOLEAN]
      /\ found.hit => found.index \in 0..(Len(s) - 1)
  BY <1>1, FoundIs
<1>3. PICK r \in FindStable(arr[a], k, Backwards) :
        IF r.hit THEN RemoveAtIndex(a, r.index) /\ result' = r.index
                 ELSE result' = INVALID /\ UNCHANGED arr
  BY DEF DeleteStable
<1>4. CASE found.hit
  <2>1. PICK i \in StableIndexes(arr[a], found.index, k, Backwards) : r = [found EXCEPT !.index = i]
    BY <1>3, <1>4 DEF FindStable
  <2>2. r.hit /\ r.index = i
    BY <1>2, <1>4, <2>1
  <2>3. i \in 0..(arr[a].length - 1)
    <3>1. found.index \in 0..(arr[a].length - 1)
      BY <1>1, <1>2, <1>4
    <3> HIDE DEF found
    <3>2. QED
      BY <1>1, <2>1, <3>1, StableIndexesIn
  <2>4. RemoveAtIndex(a, i) /\ result' \in Int
    BY <1>3, <2>2, <2>3
  <2>5. QED
    BY <2>3, <2>4, RemoveStep
<1>5. CASE ~found.hit
  <2>1. r = found
    BY <1>3, <1>5 DEF FindStable
  <2>2. arr' = arr /\ result' \in Int
    BY <1>3, <1>5, <2>1 DEF INVALID
  <2>3. QED
    BY <2>2, NothingReplaced
<1>6. QED
  BY <1>4, <1>5, Zenon

(* A removal by position.                                                   *)
LEMMA EraseKept ==
  ASSUME ArrayInv, NEW a \in Arrays, NEW index \in Nat, EraseItem(a, index)
  PROVE  ArrayInv' /\ Bag!Erase(a, index)
<1>1. PICK n \in Nat : n = arr[a].length /\ Len(Elements[a]) = n
  BY ElementsAre, LenProperties
<1>2. CASE index >= n
  <2>1. arr' = arr /\ result' = -1 /\ result' \in Int
    BY <1>1, <1>2 DEF EraseItem, INVALID
  <2>2. ArrayInv' /\ Elements' = Elements
    BY <2>1, NothingReplaced
  <2>3. Bag!Fail
    BY <2>1, <2>2, BagIs, Zenon
  <2>4. index >= Len(Elements[a])
    BY <1>1, <1>2
  <2>5. QED
    BY <2>2, <2>3, <2>4, BagIs, Zenon
<1>3. CASE ~(index >= n)
  <2>1. /\ RemoveAtIndex(a, index) /\ result' = 0 /\ result' \in Int
        /\ index \in 0..(arr[a].length - 1) /\ index < n
    BY <1>1, <1>3 DEF EraseItem
  <2>2. ArrayInv' /\ Bag!Without(a, index)
    BY <2>1, RemoveStep
  <2>3. index < Len(Elements[a])
    BY <1>1, <2>1
  <2>4. QED
    BY <2>1, <2>2, <2>3, BagIs, Zenon
<1>4. QED
  BY <1>2, <1>3, Zenon

(* A removal of the last item.                                              *)
LEMMA PopKept ==
  ASSUME ArrayInv, NEW a \in Arrays, Pop(a)
  PROVE  ArrayInv' /\ Bag!Pop(a)
<1> DEFINE s == Items(arr[a])
<1>1. s \in Seq(Keys) /\ Len(s) = arr[a].length /\ Elements[a] = s
  BY ElementsAre
<1>2. PICK n \in Nat : n = Len(s) /\ n = arr[a].length
  BY <1>1, LenProperties
<1>3. CASE n = 0
  <2>1. arr' = arr /\ result' = -1 /\ result' \in Int
    BY <1>2, <1>3 DEF Pop, INVALID
  <2>2. ArrayInv' /\ Elements' = Elements
    BY <2>1, NothingReplaced
  <2>3. Bag!Fail
    BY <2>1, <2>2, BagIs, Zenon
  <2>4. Elements[a] = <<>>
    <3>1. s = <<>>
      BY <1>1, <1>2, <1>3, EmptySeq
    <3>2. QED
      BY <1>1, <3>1
  <2>5. QED
    BY <2>2, <2>3, <2>4, BagIs, Zenon
<1>4. CASE n # 0
  <2>1. RemoveAtIndex(a, n - 1) /\ result' = s[n]
    BY <1>2, <1>4 DEF Pop
  <2>2. n - 1 \in 0..(arr[a].length - 1) /\ n \in 1..Len(s) /\ (n - 1) + 1 = n
    BY <1>2, <1>4
  <2>3. result' \in Int
    BY <1>1, <2>1, <2>2, KeyElements
  <2>4. ArrayInv' /\ Bag!Without(a, n - 1)
    BY <2>1, <2>2, <2>3, RemoveStep
  <2>5. RemoveAt(s, (n - 1) + 1) = Front(s)
    <3>1. SubSeq(s, n + 1, Len(s)) = <<>>
      BY <1>2, SubSeqEmpty
    <3>2. SubSeq(s, 1, n - 1) \in Seq(Keys)
      <4>1. n - 1 \in 0..Len(s)
        BY <1>2, <1>4
      <4>2. QED
        BY <1>1, <4>1, Prefix
    <3>3. SubSeq(s, 1, n - 1) \o <<>> = SubSeq(s, 1, n - 1)
      BY <3>2, ConcatEmptySeq
    <3>4. QED
      BY <1>2, <2>2, <3>1, <3>3 DEF RemoveAt, Front
  <2>6. Elements' = [Elements EXCEPT ![a] = Front(Elements[a])]
    <3>1. Elements' = [Elements EXCEPT ![a] = RemoveAt(Elements[a], (n - 1) + 1)]
      BY <2>4, BagIs, Zenon
    <3>2. QED
      BY <1>1, <2>5, <3>1, Zenon
  <2>7. result' = Last(Elements[a]) /\ Elements[a] # <<>>
    <3>1. s # <<>>
      BY <1>1, <1>2, <1>4, EmptySeq
    <3>2. QED
      BY <1>1, <1>2, <2>1, <3>1 DEF Last
  <2>8. QED
    BY <2>4, <2>6, <2>7, BagIs, Zenon
<1>5. QED
  BY <1>3, <1>4

(* A search.                                                                *)
LEMMA FindKept ==
  ASSUME ArrayInv, NEW a \in Arrays, NEW k \in Keys, Find(a, k)
  PROVE  ArrayInv' /\ Bag!Find(a, k)
<1> DEFINE s == Items(arr[a])
           found == BinarySearch(s, k)
<1>1. s \in Seq(Keys) /\ Sorted(s) /\ Elements[a] = s
  BY ElementsAre
<1>2. /\ found.hit => found.index \in 0..(Len(s) - 1) /\ s[found.index + 1] = k
      /\ ~found.hit => \A j \in 1..Len(s) : s[j] # k
  BY <1>1, FoundIs
<1>3. arr' = arr /\ result' = IF found.hit THEN found.index ELSE -1
  BY DEF Find, INVALID
<1> HIDE DEF found
<1>4. result' \in Int
  BY <1>2, <1>3
<1>5. ArrayInv' /\ Elements' = Elements
  BY <1>3, <1>4, NothingReplaced
<1>6. CASE found.hit
  <2>1. PICK i \in 0..(Len(s) - 1) : i = found.index /\ s[i + 1] = k
    BY <1>2, <1>6
  <2>2. i + 1 \in 1..Len(s) /\ (i + 1) - 1 = i /\ DOMAIN s = 1..Len(s)
    BY <1>1, <2>1, LenProperties
  <2>3. Contains(Elements[a], k)
    BY <1>1, <2>1, <2>2 DEF Contains
  <2>4. result' \in {m - 1 : m \in {j \in DOMAIN Elements[a] : Elements[a][j] = k}}
    BY <1>1, <1>3, <1>6, <2>1, <2>2
  <2>5. QED
    BY <1>5, <2>3, <2>4, BagIs, Zenon
<1>7. CASE ~found.hit
  <2>1. ~Contains(Elements[a], k)
    BY <1>1, <1>2, <1>7 DEF Contains
  <2>2. result' = -1
    BY <1>3, <1>7
  <2>3. QED
    BY <1>5, <2>1, <2>2, BagIs, Zenon
<1>8. QED
  BY <1>6, <1>7, Zenon

(* An array without items.                                                  *)
LEMMA NoItems ==
  ASSUME NEW x \in [block : Blocks \cup {NULL}, length : Nat, offset : Nat], x.length = 0, x.offset = 0
  PROVE  Fine(x) /\ Items(x) = <<>> /\ Ordered(x)
<1>1. InUse(x) = {} /\ Items(x) = <<>>
  BY DEF InUse, Items
<1>2. Sorted(<<>>)
  BY DEF Sorted
<1>3. Fine(x)
  BY <1>1 DEF Fine
<1>4. QED
  BY <1>1, <1>2, <1>3 DEF Ordered

(* The array loses its items and its block.                                 *)
LEMMA ClearKept ==
  ASSUME ArrayInv, NEW a \in Arrays, ClearArray(a)
  PROVE  ArrayInv' /\ Bag!Clear(a)
<1>1. Ordered(Empty) /\ Items(Empty) = <<>>
  <2>1. /\ Empty \in [block : Blocks \cup {NULL}, length : Nat, offset : Nat]
        /\ Empty.length = 0 /\ Empty.offset = 0
    BY DEF Empty
  <2>2. QED
    BY <2>1, NoItems
<1>2. arr' = [arr EXCEPT ![a] = Empty] /\ result' = 0 /\ result' \in Int
  BY DEF ClearArray
<1>3. ArrayInv' /\ Elements' = [Elements EXCEPT ![a] = Items(Empty)]
  BY <1>1, <1>2, Replaces
<1>4. QED
  BY <1>1, <1>2, <1>3, BagIs, Zenon

(* The items move to the front of the block.                                *)
LEMMA CompactKept ==
  ASSUME ArrayInv, NEW a \in Arrays, Compact(a)
  PROVE  ArrayInv' /\ Elements' = Elements /\ result' = result
<1> DEFINE x == arr[a]
           moved == Move(x.block, 0, x.offset, x.length)
<1>1. Fine(x) /\ Sorted(Items(x)) /\ Elements[a] = Items(x)
  BY ElementsAre
<1>2. PICK block \in {moved, Realloc(moved, x.length)} :
        arr' = [arr EXCEPT ![a] = Tidy([x EXCEPT !.block = block, !.offset = 0])]
  BY DEF Compact
<1>3. PICK z : z = [x EXCEPT !.block = block, !.offset = 0]
  OBVIOUS
<1>4. Fine(z) /\ Items(z) = Items(x)
  <2>1. x.offset > 0
    BY DEF Compact
  <2>2. QED
    BY <1>1, <1>2, <1>3, <2>1, CompactIs
<1>5. PICK y : y = Tidy(z)
  OBVIOUS
<1>6. Ordered(y) /\ Items(y) = Items(x)
  BY <1>1, <1>4, <1>5, TidyKeeps DEF Ordered
<1>7. ArrayInv' /\ Elements' = [Elements EXCEPT ![a] = Items(y)]
  <2>1. arr' = [arr EXCEPT ![a] = y] /\ result' \in Int
    BY <1>2, <1>3, <1>5 DEF Compact, ArrayInv
  <2>2. QED
    BY <1>6, <2>1, Replaces
<1>8. Elements' = Elements
  BY <1>1, <1>6, <1>7 DEF Elements
<1>9. QED
  BY <1>7, <1>8 DEF Compact

(* An array gets the items of a sequence.                                   *)
LEMMA AddStep ==
  ASSUME ArrayInv, NEW a \in Arrays, NEW t \in Seq(Keys), NEW y, Ordered(y),
         \A k : Occurrences(Items(y), k) = Occurrences(Items(arr[a]), k) + Occurrences(t, k),
         arr' = [arr EXCEPT ![a] = y], result' = 0
  PROVE  ArrayInv' /\ Bag!Add(a, t)
<1> DEFINE s == Items(arr[a])
           u == Items(y)
<1>1. s \in Seq(Keys) /\ Elements[a] = s
  BY ElementsAre
<1>2. u \in Seq(Keys) /\ Sorted(u)
  BY ItemsAre DEF Ordered
<1>3. /\ ArrayInv' /\ Elements' = [Elements EXCEPT ![a] = u]
      /\ Elements'[a] = u
  <2>1. result' \in Int
    OBVIOUS
  <2>2. QED
    BY <2>1, Replaces
<1>4. Bag!SameElements(u, s \o t)
  <2>1. s \o t \in Seq(Keys)
    BY <1>1, ConcatProperties
  <2>2. ASSUME NEW k PROVE Occurrences(u, k) = Occurrences(s \o t, k)
    BY <1>1, OccurrencesConcat
  <2> HIDE DEF s, u
  <2>3. QED
    BY <1>2, <2>1, <2>2, BagSame
<1>5. Bag!Sorted(u)
  BY <1>2, BagSorted
<1> HIDE DEF s, u
<1>6. Bag!SameElements(Elements'[a], Elements[a] \o t) /\ Bag!Sorted(Elements'[a])
  BY <1>1, <1>3, <1>4, <1>5, Zenon
<1>7. Elements' = [Elements EXCEPT ![a] = Elements'[a]]
  BY <1>3, Zenon
<1>8. QED
  BY <1>3, <1>6, <1>7, BagIs, Zenon

(* An empty sequence adds nothing.                                          *)
LEMMA NothingAdded == ASSUME NEW s \in Seq(Keys), NEW k PROVE Occurrences(s, k) = Occurrences(s, k) + Occurrences(<<>>, k)
<1>1. Occurrences(s, k) \in Nat
  BY OccurrencesNat
<1>2. Occurrences(<<>>, k) = 0
  <2>1. Len(<<>>) = 0
    OBVIOUS
  <2>2. QED
    BY <2>1, CountNone DEF Occurrences
<1>3. QED
  BY <1>1, <1>2

(* Two sequences in order are merged in a block that is there.              *)
LEMMA MergeStep ==
  ASSUME ArrayInv, NEW a \in Arrays, arr[a].block # NULL, NEW s \in Seq(Keys), Sorted(s),
         arr' = [arr EXCEPT ![a] = MergedInto(arr[a], s)], result' = 0
  PROVE  ArrayInv' /\ Bag!Add(a, s)
<1> DEFINE d == Items(arr[a])
<1>1. d \in Seq(Keys) /\ Sorted(d) /\ Fine(arr[a])
  BY ElementsAre
<1>2. PICK y : y = MergedInto(arr[a], s)
  OBVIOUS
<1>3. Fine(y) /\ Items(y) = MergedItems(d, s)
  BY <1>1, <1>2, MergedIntoIs
<1>4. Merged(Items(y), d, s, Len(d), Len(s))
  BY <1>1, <1>3, MergeMerges
<1>5. Ordered(y)
  BY <1>3, <1>4 DEF Merged, Ordered
<1>6. \A k : Occurrences(Items(y), k) = Occurrences(d, k) + Occurrences(s, k)
  BY <1>4, Zenon DEF Merged, Occurrences
<1>7. QED
  BY <1>2, <1>5, <1>6, AddStep

(* A block that is there is not NULL.                                       *)
LEMMA BlocksHere ==
  ASSUME NEW x, Fine(x)
  PROVE  /\ x.block # NULL <=> x.block \in Blocks
         /\ x.length # 0 => x.block # NULL
<1>1. NULL \notin Blocks
  <2>1. Keys \cup {Junk} \subseteq Nat
    BY ArrayKeysAssumption DEF Junk
  <2>2. Blocks \subseteq Seq(Nat)
    BY <2>1, SeqMonotonic DEF Blocks
  <2>3. QED
    BY <2>2, NullBlockAssumption
<1>2. QED
  BY <1>1 DEF Fine

(* A merge of items that are sorted first,                                  *)
LEMMA MergeKept ==
  ASSUME ArrayInv, NEW a \in Arrays, NEW s \in Batches, Merge(a, s)
  PROVE  ArrayInv' /\ (Bag!Add(a, s) \/ Bag!Fail)
<1> DEFINE x == arr[a]
<1>1. Fine(x) /\ Elements[a] = Items(x)
  BY ElementsAre
<1>2. s \in Seq(Keys)
  BY BatchesAssumption
<1>3. PICK c \in Seq(Keys) : c = SortedCopy(s) /\ Len(c) = Len(s) /\ Sorted(c) /\ \A k : Occurrences(c, k) = Occurrences(s, k)
  BY <1>2, SortedCopyIs
<1>4. CASE result' = INVALID /\ UNCHANGED arr
  <2>1. result' = -1 /\ arr' = arr /\ result' \in Int
    BY <1>4 DEF INVALID
  <2>2. ArrayInv' /\ Elements' = Elements
    BY <2>1, NothingReplaced
  <2>3. QED
    BY <2>1, <2>2, BagIs, Zenon
<1>5. CASE x.block = NULL /\ arr' = [arr EXCEPT ![a] = [x EXCEPT !.block = SortedCopy(s), !.length = Len(s)]] /\ result' = 0
  <2>1. /\ x \in [block : Blocks \cup {NULL}, length : Nat, offset : Nat]
        /\ x.length = 0 /\ x.offset = 0 /\ Items(x) = <<>>
    BY <1>1, <1>5, BlocksHere DEF Fine, Items
  <2>2. PICK n \in Nat : n = Len(c) /\ n = Len(s)
    BY <1>3, LenProperties
  <2>3. PICK y : y = [x EXCEPT !.block = c, !.length = n]
    OBVIOUS
  <2>4. y = [block |-> c, length |-> n, offset |-> 0]
    BY <2>1, <2>3, TwoFields
  <2>5. c \in Blocks
    BY <1>3, SeqMonotonic DEF Blocks
  <2>6. Fine(y) /\ Items(y) = c
    <3>1. y \in [block : Blocks, length : Nat, offset : Nat] /\ y.block = c /\ y.length = n /\ y.offset = 0
      BY <2>4, <2>5
    <3>2. \A i \in 1..y.length : y.block[y.offset + i] = c[i]
      BY <3>1
    <3>3. y.offset + y.length <= Len(y.block) /\ Len(c) = y.length
      <4>1. 0 + n <= n
        BY <2>2
      <4>2. QED
        BY <2>2, <3>1, <4>1, Zenon
    <3>4. QED
      BY <1>3, <3>1, <3>2, <3>3, Makes
  <2>7. Ordered(y)
    BY <1>3, <2>6 DEF Ordered
  <2>8. ASSUME NEW k PROVE Occurrences(Items(y), k) = Occurrences(Items(x), k) + Occurrences(s, k)
    <3>1. Occurrences(c, k) = Occurrences(s, k) /\ Occurrences(s, k) \in Nat
      BY <1>2, <1>3, OccurrencesNat
    <3>2. Occurrences(<<>>, k) = 0
      BY CountNone DEF Occurrences
    <3>3. QED
      BY <2>1, <2>6, <3>1, <3>2
  <2>9. arr' = [arr EXCEPT ![a] = y] /\ result' = 0
    BY <1>3, <1>5, <2>2, <2>3, Zenon
  <2>10. ArrayInv' /\ Bag!Add(a, s)
    BY <1>2, <2>7, <2>8, <2>9, AddStep
  <2>11. QED
    BY <2>10
<1>6. CASE x.block # NULL /\ arr' = [arr EXCEPT ![a] = MergedInto(x, SortedCopy(s))] /\ result' = 0
  <2>1. ArrayInv' /\ Bag!Add(a, c)
    BY <1>3, <1>6, MergeStep
  <2>2. Bag!Add(a, s)
    <3>1. /\ Bag!Sorted(Elements'[a])
          /\ Elements' = [Elements EXCEPT ![a] = Elements'[a]]
          /\ result' = 0
      BY <2>1, BagIs, Zenon
    <3>2. Bag!SameElements(Elements'[a], Elements[a] \o s)
      <4> DEFINE d == Items(x)
      <4>1. d \in Seq(Keys) /\ Elements[a] = d
        BY ElementsAre
      <4>2. Bag!SameElements(Elements'[a], d \o c)
        BY <2>1, <4>1, BagIs, Zenon
      <4>3. d \o c \in Seq(Keys) /\ d \o s \in Seq(Keys)
        BY <1>2, <1>3, <4>1, ConcatProperties
      <4>4. ASSUME NEW k PROVE Occurrences(d \o c, k) = Occurrences(d \o s, k)
        <5>1. /\ Occurrences(d \o c, k) = Occurrences(d, k) + Occurrences(c, k)
              /\ Occurrences(d \o s, k) = Occurrences(d, k) + Occurrences(s, k)
          BY <1>2, <1>3, <4>1, OccurrencesConcat
        <5>2. QED
          BY <1>3, <5>1
      <4> HIDE DEF d
      <4>5. Bag!SameElements(d \o c, d \o s)
        BY <4>3, <4>4, BagSame
      <4>6. QED
        BY <4>1, <4>2, <4>5, Zenon DEF Bag!SameElements
    <3>3. QED
      BY <3>1, <3>2, BagIs, Zenon
  <2>3. QED
    BY <2>1, <2>2
<1>7. QED
  BY <1>4, <1>5, <1>6, Zenon DEF Merge

(* one of another array,                                                    *)
LEMMA MergeSortedKept ==
  ASSUME ArrayInv, NEW a \in Arrays, NEW b \in Arrays, MergeSorted(a, b)
  PROVE  ArrayInv' /\ (Bag!Add(a, Items(arr[b])) \/ Bag!Fail)
<1> DEFINE s == Items(arr[b])
<1>1. /\ s \in Seq(Keys) /\ Sorted(s)
      /\ Fine(arr[a]) /\ Elements[a] = Items(arr[a]) /\ Items(arr[a]) \in Seq(Keys) /\ Sorted(Items(arr[a]))
  BY ElementsAre
<1>2. CASE arr[b].length = 0
  <2>1. arr' = arr /\ result' = 0 /\ s = <<>>
    BY <1>2 DEF MergeSorted, Items
  <2>2. PICK y : y = arr[a]
    OBVIOUS
  <2>3. arr' = [arr EXCEPT ![a] = y]
    BY <2>1, <2>2 DEF ArrayInv
  <2>4. ASSUME NEW k PROVE Occurrences(Items(y), k) = Occurrences(Items(arr[a]), k) + Occurrences(s, k)
    BY <1>1, <2>1, <2>2, NothingAdded
  <2>5. Ordered(y)
    BY <1>1, <2>2 DEF Ordered
  <2>6. QED
    BY <1>1, <2>1, <2>3, <2>4, <2>5, AddStep
<1>3. CASE arr[b].length # 0 /\ arr' = [arr EXCEPT ![a] = MergedInto(arr[a], s)] /\ result' = 0
  <2>1. arr[a].block # NULL
    BY <1>1, <1>3, BlocksHere DEF MergeSorted
  <2>2. QED
    BY <1>1, <1>3, <2>1, MergeStep
<1>4. CASE result' = INVALID /\ UNCHANGED arr
  <2>1. result' = -1 /\ arr' = arr /\ result' \in Int
    BY <1>4 DEF INVALID
  <2>2. ArrayInv' /\ Elements' = Elements
    BY <2>1, NothingReplaced
  <2>3. QED
    BY <2>1, <2>2, BagIs, Zenon
<1>5. QED
  BY <1>2, <1>3, <1>4, Zenon DEF MergeSorted

(* one of another array into an empty one,                                  *)
LEMMA MergeSortedCopyKept ==
  ASSUME ArrayInv, NEW a \in Arrays, NEW b \in Arrays, MergeSortedCopy(a, b)
  PROVE  ArrayInv'
<1> DEFINE x == arr[a]
           z == arr[b]
<1>1. Fine(x) /\ Fine(z)
  BY ElementsAre
<1>2. /\ x \in [block : Blocks \cup {NULL}, length : Nat, offset : Nat]
      /\ x.length = 0 /\ x.offset = 0
  BY <1>1 DEF MergeSortedCopy, Fine
<1>3. PICK c : c = SubSeq(z.block, 1, z.length)
  OBVIOUS
<1>4. c \in Blocks
  <2>1. z.block \in Seq(Keys \cup {Junk}) /\ z.length \in 0..Len(z.block)
    <3>1. /\ z.length \in Nat /\ z.offset \in Nat /\ z.length > 0 /\ z.block \in Seq(Keys \cup {Junk})
          /\ z.offset + z.length <= Len(z.block)
      BY <1>1 DEF MergeSortedCopy, Fine, Blocks
    <3>2. Len(z.block) \in Nat
      BY <3>1, LenProperties
    <3>3. QED
      BY <3>1, <3>2
  <2>2. SubSeq(z.block, 1, z.length) \in Seq(Keys \cup {Junk})
    BY <2>1, Prefix
  <2>3. QED
    BY <1>3, <2>2 DEF Blocks
<1>5. ASSUME NEW block \in Blocks \cup {NULL}, NEW y, y = [x EXCEPT !.block = block]
      PROVE  Ordered(y)
  <2>1. y \in [block : Blocks \cup {NULL}, length : Nat, offset : Nat] /\ y.length = 0 /\ y.offset = 0
    BY <1>2, <1>5
  <2>2. QED
    BY <2>1, NoItems
<1>6. CASE arr' = [arr EXCEPT ![a] = Tidy([x EXCEPT !.block = SubSeq(z.block, 1, z.length)])] /\ result' = 0
  <2>1. PICK v : v = [x EXCEPT !.block = c]
    OBVIOUS
  <2>2. Ordered(v)
    BY <1>4, <1>5, <2>1
  <2>3. PICK y : y = Tidy(v)
    OBVIOUS
  <2>4. Ordered(y)
    BY <2>2, <2>3, TidyKeeps DEF Ordered
  <2>5. arr' = [arr EXCEPT ![a] = y] /\ result' \in Int
    BY <1>3, <1>6, <2>1, <2>3
  <2>6. QED
    BY <2>4, <2>5, Replaces
<1>7. CASE arr' = [arr EXCEPT ![a].block = NULL] /\ result' = INVALID
  <2>1. PICK y : y = [x EXCEPT !.block = NULL]
    OBVIOUS
  <2>2. Ordered(y)
    BY <1>5, <2>1
  <2>3. arr' = [arr EXCEPT ![a] = y] /\ result' \in Int
    BY <1>7, <2>1 DEF INVALID
  <2>4. QED
    BY <2>2, <2>3, Replaces
<1>8. QED
  BY <1>6, <1>7 DEF MergeSortedCopy

(* and one of the array itself.                                             *)
LEMMA MergeSameKept ==
  ASSUME ArrayInv, NEW a \in Arrays, MergeSame(a)
  PROVE  ArrayInv' /\ Bag!Fail
<1>1. result' = -1 /\ arr' = arr /\ result' \in Int
  BY DEF MergeSame, INVALID
<1>2. ArrayInv' /\ Elements' = Elements
  BY <1>1, NothingReplaced
<1>3. QED
  BY <1>1, <1>2, BagIs, Zenon

(* The arrays at first.                                                     *)
LEMMA ArrayInitInv == ArrayInit => ArrayInv
<1> SUFFICES ASSUME ArrayInit PROVE ArrayInv
  OBVIOUS
<1>1. /\ Empty \in [block : Blocks \cup {NULL}, length : Nat, offset : Nat]
      /\ Empty.length = 0 /\ Empty.offset = 0
  BY DEF Empty
<1>2. Ordered(Empty)
  BY <1>1, NoItems
<1>3. QED
  BY <1>2 DEF ArrayInit, ArrayInv

(* What a step does: a call of the abstract specification, or one of the    *)
(* two calls that keep only the invariant.                                  *)
LEMMA ArrayStep ==
  ASSUME ArrayInv, [ArrayNext]_arrayvars
  PROVE  /\ ArrayInv'
         /\ \/ Bag!Next \/ UNCHANGED <<Elements, result>>
            \/ \E a \in Arrays, k \in Keys : DeleteStable(a, k)
            \/ \E a, b \in Arrays : MergeSortedCopy(a, b)
<1>1. CASE UNCHANGED arrayvars
  <2>1. arr' = arr /\ result' = result
    BY <1>1 DEF arrayvars
  <2>2. result' \in Int
    BY <2>1 DEF ArrayInv
  <2>3. QED
    BY <2>1, <2>2, NothingReplaced
<1>2. ASSUME NEW a \in Arrays, NEW k \in Keys,
             Insert(a, k) \/ InsertStable(a, k) \/ Find(a, k) \/ Delete(a, k)
      PROVE  ArrayInv' /\ Bag!Next
  <2>1. ArrayInv' /\ (Bag!Insert(a, k) \/ Bag!Delete(a, k) \/ Bag!Find(a, k) \/ Bag!Fail)
    BY <1>2, InsertKept, FindKept, DeleteKept, Zenon
  <2>2. QED
    BY <2>1, Zenon DEF Bag!Next
<1>3. ASSUME NEW a \in Arrays, NEW index \in 0..MaxLength, EraseItem(a, index)
      PROVE  ArrayInv' /\ Bag!Next
  <2>1. index \in Nat
    BY ArrayBoundsAssumption
  <2>2. ArrayInv' /\ Bag!Erase(a, index)
    BY <1>3, <2>1, EraseKept
  <2>3. CASE index < Len(Elements[a])
    <3>1. index \in 0..(Len(Elements[a]) - 1)
      <4>1. Len(Elements[a]) \in Nat
        BY ElementsAre, LenProperties
      <4>2. QED
        BY <2>1, <2>3, <4>1
    <3>2. \E i \in 0..(Len(Elements[a]) - 1) : Bag!Erase(a, i)
      BY <2>2, <3>1, Zenon
    <3>3. QED
      BY <2>2, <3>2, Zenon DEF Bag!Next, Elements
  <2>4. CASE ~(index < Len(Elements[a]))
    <3>1. Bag!Fail
      BY <2>2, <2>4, BagIs, Zenon
    <3>2. QED
      BY <2>2, <3>1, Zenon DEF Bag!Next
  <2>5. QED
    BY <2>3, <2>4, Zenon
<1>4. ASSUME NEW a \in Arrays, Pop(a) \/ ClearArray(a) \/ MergeSame(a)
      PROVE  ArrayInv' /\ Bag!Next
  <2>1. ArrayInv' /\ (Bag!Pop(a) \/ Bag!Clear(a) \/ Bag!Fail)
    BY <1>4, PopKept, ClearKept, MergeSameKept, Zenon
  <2>2. QED
    BY <2>1, Zenon DEF Bag!Next
<1>5. ASSUME NEW a \in Arrays, NEW s \in Batches, Merge(a, s)
      PROVE  ArrayInv' /\ Bag!Next
  <2>1. ArrayInv' /\ (Bag!Add(a, s) \/ Bag!Fail)
    BY <1>5, MergeKept
  <2>2. QED
    BY <2>1, Zenon DEF Bag!Next
<1>6. ASSUME NEW a \in Arrays, NEW b \in Arrays \ {a}, MergeSorted(a, b)
      PROVE  ArrayInv' /\ Bag!Next
  <2>1. ArrayInv' /\ (Bag!Add(a, Items(arr[b])) \/ Bag!Fail)
    BY <1>6, MergeSortedKept
  <2>2. Items(arr[b]) = [c \in Arrays |-> Items(arr[c])][b]
    OBVIOUS
  <2>3. Bag!Fail \/ Bag!Add(a, [c \in Arrays |-> Items(arr[c])][b])
    BY <2>1, <2>2, Zenon
  <2>4. QED
    BY <2>1, <2>3, Zenon DEF Bag!Next
<1>7. ASSUME NEW a \in Arrays, Compact(a)
      PROVE  ArrayInv' /\ UNCHANGED <<Elements, result>>
  BY <1>7, CompactKept
<1>8. ASSUME NEW a \in Arrays, NEW k \in Keys, DeleteStable(a, k) PROVE ArrayInv'
  BY <1>8, DeleteStableKept
<1>9. ASSUME NEW a \in Arrays, NEW b \in Arrays, MergeSortedCopy(a, b) PROVE ArrayInv'
  BY <1>9, MergeSortedCopyKept
<1>10. QED
  BY <1>1, <1>2, <1>3, <1>4, <1>5, <1>6, <1>7, <1>8, <1>9, Zenon DEF ArrayNext

(* The invariant always holds.                                              *)
LEMMA ArrayInvHolds == ArraySpec => []ArrayInv
<1>1. ArrayInv /\ [ArrayNext]_arrayvars => ArrayInv'
  BY ArrayStep
<1>2. QED
  BY <1>1, ArrayInitInv, PTL DEF ArraySpec

(* The array lies inside its block, whatever is inserted, removed, merged   *)
(* or compacted, and whichever malloc or realloc fails.                     *)
THEOREM ArrayInsideBlock == ArraySpec => []InsideBlock
<1>1. ArrayInv => InsideBlock
  <2> SUFFICES ASSUME ArrayInv PROVE InsideBlock
    OBVIOUS
  <2>1. ASSUME NEW a \in Arrays
        PROVE  /\ arr[a].block = NULL \/ arr[a].block \in Seq(Keys \cup {Junk})
               /\ arr[a].length \in Nat /\ arr[a].offset \in Nat
               /\ arr[a].length > 0 => /\ arr[a].block # NULL
                                       /\ arr[a].offset + arr[a].length <= Len(arr[a].block)
    <3>1. Fine(arr[a])
      BY ElementsAre
    <3>2. arr[a].length > 0 => arr[a].block # NULL
      BY <3>1, BlocksHere DEF Fine
    <3>3. QED
      BY <3>1, <3>2 DEF Fine, Blocks
  <2>2. result \in Int
    BY DEF ArrayInv
  <2>3. QED
    BY <2>1, <2>2 DEF InsideBlock, ArrayTypeOK
<1>2. QED
  BY <1>1, ArrayInvHolds, PTL

(* Each call is the one the abstract specification names.                   *)
LEMMA CallsKept == ArrayInv => BagCallsKept
<1> SUFFICES ASSUME ArrayInv, NEW a \in Arrays
             PROVE  /\ \A k \in Keys :
                         /\ Insert(a, k) \/ InsertStable(a, k) => Bag!Insert(a, k) \/ Bag!Fail
                         /\ Find(a, k) => Bag!Find(a, k)
                         /\ Delete(a, k) => Bag!Delete(a, k)
                    /\ \A i \in 0..MaxLength : EraseItem(a, i) => Bag!Erase(a, i)
                    /\ Pop(a) => Bag!Pop(a)
                    /\ ClearArray(a) => Bag!Clear(a)
                    /\ Compact(a) => UNCHANGED Bag!vars
                    /\ \A s \in Batches : Merge(a, s) => Bag!Add(a, s) \/ Bag!Fail
                    /\ \A b \in Arrays \ {a} :
                         MergeSorted(a, b) => Bag!Add(a, Items(arr[b])) \/ Bag!Fail
  BY Zenon DEF BagCallsKept
<1>1. ASSUME NEW k \in Keys
      PROVE  /\ Insert(a, k) \/ InsertStable(a, k) => Bag!Insert(a, k) \/ Bag!Fail
             /\ Find(a, k) => Bag!Find(a, k)
             /\ Delete(a, k) => Bag!Delete(a, k)
  BY InsertKept, FindKept, DeleteKept, Zenon
<1>2. ASSUME NEW i \in 0..MaxLength PROVE EraseItem(a, i) => Bag!Erase(a, i)
  <2>1. i \in Nat
    BY ArrayBoundsAssumption
  <2>2. QED
    BY <2>1, EraseKept
<1>3. (Pop(a) => Bag!Pop(a)) /\ (ClearArray(a) => Bag!Clear(a))
  BY PopKept, ClearKept, Zenon
<1>4. Compact(a) => UNCHANGED Bag!vars
  <2>1. Compact(a) => Elements' = Elements /\ result' = result
    BY CompactKept
  <2>2. QED
    BY <2>1, Zenon DEF Bag!vars, Elements
<1>5. ASSUME NEW s \in Batches PROVE Merge(a, s) => Bag!Add(a, s) \/ Bag!Fail
  BY MergeKept, Zenon
<1>6. ASSUME NEW b \in Arrays \ {a} PROVE MergeSorted(a, b) => Bag!Add(a, Items(arr[b])) \/ Bag!Fail
  BY MergeSortedKept
<1>7. QED
  BY <1>1, <1>2, <1>3, <1>4, <1>5, <1>6, Zenon

(* Each call changes the elements as the abstract specification says: an    *)
(* insertion adds one in its place, a merge adds all of them, and so on.    *)
THEOREM ArrayImplementsBag == ArraySpec => ImplementsBag
<1>1. ArrayInit => Bag!Init
  BY DEF ArrayInit, Bag!Init, Items, Empty
<1>2. ArrayInv /\ [ArrayNext]_arrayvars =>
        [\/ Bag!Next
         \/ \E a \in Arrays, k \in Keys : DeleteStable(a, k)
         \/ \E a, b \in Arrays : MergeSortedCopy(a, b)]_<<Bag!vars>>
  <2>1. UNCHANGED <<Elements, result>> => UNCHANGED <<Bag!vars>>
    BY DEF Bag!vars, Elements
  <2>2. QED
    BY <2>1, ArrayStep, Zenon
<1>3. ArrayInv /\ [ArrayNext]_arrayvars => [BagCallsKept]_arrayvars
  BY CallsKept
<1>4. QED
  BY <1>1, <1>2, <1>3, ArrayInvHolds, PTL DEF ArraySpec, ImplementsBag
-----------------------------------------------------------------------------
(* A search in a bucket is a search in its keys.                            *)
LEMMA BucketFindLocates ==
  ASSUME NEW b \in Seq([key : HashKeys, payload : Payloads]), NEW k \in HashKeys
  PROVE  Located(BucketFind(b, k), Len(b), [i \in 1..Len(b) |-> b[i].key], k)
<1> DEFINE n == Len(b)
           key == [i \in 1..n |-> b[i].key]
           BucketTurn(g, lo, hi) ==
             LET middle == lo + (hi - lo) \div 2
             IN  IF lo >= hi THEN [index |-> lo, hit |-> FALSE]
                 ELSE IF b[middle + 1].key = k THEN [index |-> middle, hit |-> TRUE]
                 ELSE IF b[middle + 1].key < k THEN g[<<middle + 1, hi>>]
                 ELSE g[<<lo, middle>>]
           f == CHOOSE g : g = [span \in Spans(n) |-> BucketTurn(g, span[1], span[2])]
<1>0. n \in Nat /\ k \in Int
  BY HashKeysAssumption
<1>1. ASSUME NEW i \in 1..n PROVE key[i] = b[i].key /\ key[i] \in Int
  <2>1. b[i] \in [key : HashKeys, payload : Payloads]
    BY ElementOfSeq
  <2>2. b[i].key \in HashKeys
    BY <2>1
  <2>3. key[i] = b[i].key
    OBVIOUS
  <2>4. b[i].key \in Int
    <3>1. \A h \in HashKeys : h \in Int
      BY HashKeysAssumption
    <3>2. QED
      BY <2>2, <3>1, Zenon
  <2>5. QED
    BY <2>3, <2>4, Zenon
<1> HIDE DEF key
<1>2. ASSUME NEW g, NEW lo \in 0..n, NEW hi \in 0..n PROVE BucketTurn(g, lo, hi) = Turn(g, key, k, lo, hi)
  <2> DEFINE middle == lo + (hi - lo) \div 2
  <2>1. CASE lo >= hi
    BY <2>1 DEF Turn
  <2>2. CASE lo < hi
    <3>1. middle \in lo..(hi - 1)
      BY <2>2, Middle
    <3> HIDE DEF middle
    <3>2. b[middle + 1].key = key[middle + 1]
      BY <1>1, <3>1
    <3>3. QED
      BY <3>2 DEF Turn, middle
  <2>3. QED
    BY <2>1, <2>2
<1>4. BucketFind(b, k) = f[<<0, n>>]
  BY DEF BucketFind, Spans
<1> HIDE DEF BucketTurn, n
<1>3. ASSUME NEW g
      PROVE  [span \in Spans(n) |-> BucketTurn(g, span[1], span[2])]
               = [span \in Spans(n) |-> Turn(g, key, k, span[1], span[2])]
  <2>1. ASSUME NEW span \in Spans(n)
        PROVE  BucketTurn(g, span[1], span[2]) = Turn(g, key, k, span[1], span[2])
    <3>1. span[1] \in 0..n /\ span[2] \in 0..n
      BY DEF Spans
    <3>2. QED
      BY <1>2, <3>1
  <2>2. QED
    BY <2>1
<1>5. Searches(f, n, key, k)
  <2>1. PICK g : Searches(g, n, key, k)
    BY <1>0, SearchDefined
  <2>2. g = [span \in Spans(n) |-> BucketTurn(g, span[1], span[2])]
    BY <1>3, <2>1 DEF Searches
  <2>3. f = [span \in Spans(n) |-> BucketTurn(f, span[1], span[2])]
    BY <2>2
  <2>4. QED
    BY <1>3, <2>3 DEF Searches
<1> HIDE DEF f
<1>7. Located(f[<<0, n>>], n, key, k)
  BY <1>0, <1>1, <1>5, SearchLocates
<1>8. QED
  BY <1>4, <1>7 DEF key, n
-----------------------------------------------------------------------------
Entry == [key : HashKeys, payload : Payloads]
Rising(b) == \A i, j \in 1..Len(b) : i < j => b[i].key < b[j].key
Members(b) == {b[i] : i \in 1..Len(b)}

(* The elements of a bucket.                                                *)
LEMMA EntriesOf ==
  ASSUME NEW b \in Seq(Entry)
  PROVE  /\ Len(b) \in Nat
         /\ \A i \in 1..Len(b) : b[i] \in Entry /\ b[i].key \in HashKeys /\ b[i].key \in Nat
<1>1. ASSUME NEW i \in 1..Len(b) PROVE b[i] \in Entry
  BY ElementOfSeq
<1>2. QED
  BY <1>1, HashKeysAssumption, LenProperties DEF Entry

(* What a search in a bucket in order says.                                 *)
LEMMA BucketFindIs ==
  ASSUME NEW b \in Seq(Entry), Rising(b), NEW k \in HashKeys, NEW r, r = BucketFind(b, k)
  PROVE  /\ r \in [index : 0..Len(b), hit : BOOLEAN]
         /\ r.hit => r.index \in 0..(Len(b) - 1) /\ b[r.index + 1].key = k
         /\ ~r.hit => /\ \A i \in 1..r.index : b[i].key < k
                      /\ \A i \in (r.index + 1)..Len(b) : k < b[i].key
<1>1. PICK n \in Nat : n = Len(b)
  BY LenProperties
<1>2. PICK key : key = [i \in 1..n |-> b[i].key]
  OBVIOUS
<1>3. \A i \in 1..n : key[i] = b[i].key /\ b[i].key \in Nat
  BY <1>1, <1>2, EntriesOf
<1>4. Located(r, n, key, k)
  BY <1>1, <1>2, BucketFindLocates DEF Entry
<1>5. Ascending(key, n)
  BY <1>1, <1>3 DEF Ascending, Rising
<1>6. /\ r \in [index : 0..n, hit : BOOLEAN]
      /\ r.hit => r.index < n /\ key[r.index + 1] = k
      /\ ~r.hit => Around(key, n, k, r.index, r.index)
  BY <1>4, <1>5 DEF Located
<1>7. PICK at \in 0..n : at = r.index
  BY <1>6
<1>8. r.hit => at \in 0..(n - 1) /\ b[at + 1].key = k
  BY <1>3, <1>6, <1>7
<1>9. ASSUME ~r.hit PROVE (\A i \in 1..at : b[i].key < k) /\ (\A i \in (at + 1)..n : k < b[i].key)
  <2>1. (\A i \in 1..at : key[i] < k) /\ (\A i \in (at + 1)..n : k < key[i])
    BY <1>6, <1>7, <1>9 DEF Around
  <2>2. QED
    BY <1>3, <2>1
<1>10. QED
  BY <1>1, <1>6, <1>7, <1>8, <1>9

(* The bucket after an insertion,                                           *)
LEMMA EntryInserted ==
  ASSUME NEW b \in Seq(Entry), Rising(b), NEW e \in Entry, NEW index \in 0..Len(b),
         \A i \in 1..index : b[i].key < e.key,
         \A i \in (index + 1)..Len(b) : e.key < b[i].key
  PROVE  /\ InsertAt(b, index + 1, e) \in Seq(Entry) /\ Rising(InsertAt(b, index + 1, e))
         /\ Members(InsertAt(b, index + 1, e)) = Members(b) \cup {e}
<1>1. PICK n \in Nat : n = Len(b)
  BY LenProperties
<1>2. PICK at \in 1..(n + 1) : at = index + 1 /\ index = at - 1
  BY <1>1
<1>3. PICK t \in Seq(Entry) :
        /\ t = InsertAt(b, at, e) /\ Len(t) = n + 1
        /\ \A j \in 1..(n + 1) : /\ j < at => t[j] = b[j]
                                 /\ j = at => t[j] = e
                                 /\ j > at => t[j] = b[j - 1]
  <2>1. InsertAt(b, at, e) \in Seq(Entry) /\ Len(InsertAt(b, at, e)) = n + 1
    BY <1>1, InsertAtIs
  <2>2. ASSUME NEW j \in 1..(n + 1)
        PROVE  /\ j < at => InsertAt(b, at, e)[j] = b[j]
               /\ j = at => InsertAt(b, at, e)[j] = e
               /\ j > at => InsertAt(b, at, e)[j] = b[j - 1]
    <3>1. InsertAt(b, at, e)[j] = IF j < at THEN b[j] ELSE IF j = at THEN e ELSE b[j - 1]
      BY <1>1, InsertAtIs
    <3>2. (j = at => ~(j < at)) /\ (j > at => ~(j < at) /\ j # at)
      OBVIOUS
    <3>3. QED
      BY <3>1, <3>2, Zenon
  <2>3. QED
    BY <2>1, <2>2, Zenon
<1>4. \A i \in 1..n : b[i].key \in Nat
  BY <1>1, EntriesOf
<1>5. ASSUME NEW x \in 1..(n + 1), NEW y \in 1..(n + 1), x < y PROVE t[x].key < t[y].key
  <2>1. CASE x < at /\ y < at
    <3>1. x \in 1..n /\ y \in 1..n /\ t[x] = b[x] /\ t[y] = b[y]
      BY <1>3, <2>1
    <3>2. QED
      BY <1>1, <1>5, <3>1 DEF Rising
  <2>2. CASE x < at /\ y = at
    <3>1. x \in 1..index /\ t[x] = b[x] /\ t[y] = e
      BY <1>2, <1>3, <2>2
    <3>2. QED
      BY <3>1
  <2>3. CASE x < at /\ y > at
    <3>1. /\ x \in 1..n /\ t[x] = b[x]
          /\ y - 1 \in 1..n /\ t[y] = b[y - 1] /\ x < y - 1
      BY <1>3, <2>3
    <3>2. QED
      BY <1>1, <3>1 DEF Rising
  <2>4. CASE x = at /\ y > at
    <3>1. t[x] = e /\ y - 1 \in (index + 1)..n /\ t[y] = b[y - 1]
      BY <1>2, <1>3, <2>4
    <3>2. QED
      BY <1>1, <3>1
  <2>5. CASE x > at /\ y > at
    <3>1. /\ x - 1 \in 1..n /\ t[x] = b[x - 1]
          /\ y - 1 \in 1..n /\ t[y] = b[y - 1] /\ x - 1 < y - 1
      BY <1>3, <1>5, <2>5
    <3>2. QED
      BY <1>1, <3>1 DEF Rising
  <2>6. \/ x < at /\ y < at
        \/ x < at /\ y = at
        \/ x < at /\ y > at
        \/ x = at /\ y > at
        \/ x > at /\ y > at
    BY <1>5
  <2>7. QED
    BY <2>1, <2>2, <2>3, <2>4, <2>5, <2>6, Zenon
<1>6. Rising(t)
  BY <1>3, <1>5 DEF Rising
<1>7. Members(t) = Members(b) \cup {e}
  <2>1. ASSUME NEW j \in 1..(n + 1) PROVE t[j] = e \/ \E i \in 1..n : t[j] = b[i]
    <3>1. (j < at => j \in 1..n) /\ (j > at => j - 1 \in 1..n)
      OBVIOUS
    <3>2. j < at \/ j = at \/ j > at
      OBVIOUS
    <3>3. QED
      BY <1>3, <3>1, <3>2, Zenon
  <2>2. ASSUME NEW i \in 1..n PROVE \E j \in 1..(n + 1) : b[i] = t[j]
    <3>1. CASE i < at
      <4>1. i \in 1..(n + 1) /\ t[i] = b[i]
        BY <1>3, <3>1
      <4>2. QED
        BY <4>1, Zenon
    <3>2. CASE i >= at
      <4>1. i + 1 \in 1..(n + 1) /\ t[i + 1] = b[i]
        BY <1>3, <3>2
      <4>2. QED
        BY <4>1, Zenon
    <3>3. i < at \/ i >= at
      OBVIOUS
    <3>4. QED
      BY <3>1, <3>2, <3>3, Zenon
  <2>3. t[at] = e /\ at \in 1..(n + 1)
    BY <1>3
  <2>4. Members(t) \subseteq Members(b) \cup {e}
    BY <1>1, <1>3, <2>1 DEF Members
  <2>5. Members(b) \cup {e} \subseteq Members(t)
    <3>1. Members(b) \subseteq Members(t)
      BY <1>1, <1>3, <2>2 DEF Members
    <3>2. e \in Members(t)
      BY <1>3, <2>3 DEF Members
    <3>3. QED
      BY <3>1, <3>2
  <2>6. QED
    BY <2>4, <2>5
<1>8. QED
  BY <1>2, <1>3, <1>6, <1>7, Zenon

(* after a removal,                                                         *)
LEMMA EntryRemoved ==
  ASSUME NEW b \in Seq(Entry), Rising(b), NEW index \in 0..(Len(b) - 1)
  PROVE  /\ RemoveAt(b, index + 1) \in Seq(Entry) /\ Rising(RemoveAt(b, index + 1))
         /\ Members(RemoveAt(b, index + 1)) = Members(b) \ {b[index + 1]}
<1>1. PICK n \in Nat : n = Len(b)
  BY LenProperties
<1>2. PICK at \in 1..n : at = index + 1
  BY <1>1
<1>3. PICK t \in Seq(Entry) : t = RemoveAt(b, at) /\ Len(t) = n - 1
  BY <1>1, RemoveAtIs
<1>4. ASSUME NEW j \in 1..(n - 1) PROVE t[j] = IF j < at THEN b[j] ELSE b[j + 1]
  BY <1>1, <1>3, RemovedItem
<1>5. \A i \in 1..n : b[i].key \in Nat
  BY <1>1, EntriesOf
<1>6. ASSUME NEW x \in 1..(n - 1), NEW y \in 1..(n - 1), x < y PROVE t[x].key < t[y].key
  <2>1. PICK p \in 1..n : t[x] = b[p] /\ p = IF x < at THEN x ELSE x + 1
    BY <1>4
  <2>2. PICK q \in 1..n : t[y] = b[q] /\ q = IF y < at THEN y ELSE y + 1
    BY <1>4
  <2>3. p < q
    BY <1>6, <2>1, <2>2
  <2>4. QED
    BY <1>1, <2>1, <2>2, <2>3 DEF Rising
<1>7. Rising(t)
  BY <1>3, <1>6 DEF Rising
<1>8. ASSUME NEW j \in 1..(n - 1) PROVE \E i \in 1..n : t[j] = b[i] /\ b[i] # b[at]
  <2>1. PICK p \in 1..n : t[j] = b[p] /\ p = IF j < at THEN j ELSE j + 1
    BY <1>4
  <2>2. p < at \/ at < p
    BY <2>1
  <2>3. b[p].key < b[at].key \/ b[at].key < b[p].key
    BY <1>1, <2>2 DEF Rising
  <2>4. b[p] # b[at]
    BY <1>5, <2>3
  <2>5. QED
    BY <2>1, <2>4
<1>9. ASSUME NEW i \in 1..n, b[i] # b[at] PROVE \E j \in 1..(n - 1) : b[i] = t[j]
  <2>1. CASE i < at
    <3>1. i \in 1..(n - 1) /\ t[i] = b[i]
      BY <1>4, <2>1
    <3>2. QED
      BY <3>1, Zenon
  <2>2. CASE i > at
    <3>1. i - 1 \in 1..(n - 1) /\ t[i - 1] = b[i]
      <4>1. i - 1 \in 1..(n - 1) /\ ~(i - 1 < at) /\ (i - 1) + 1 = i
        BY <2>2
      <4>2. QED
        BY <1>4, <4>1
    <3>2. QED
      BY <3>1, Zenon
  <2>3. i < at \/ i > at
    BY <1>9
  <2>4. QED
    BY <2>1, <2>2, <2>3, Zenon
<1>10. Members(t) = Members(b) \ {b[at]}
  <2>1. Members(t) \subseteq Members(b) \ {b[at]}
    BY <1>1, <1>3, <1>8 DEF Members
  <2>2. Members(b) \ {b[at]} \subseteq Members(t)
    BY <1>1, <1>3, <1>9 DEF Members
  <2>3. QED
    BY <2>1, <2>2
<1>11. QED
  BY <1>2, <1>3, <1>7, <1>10, Zenon

Rewritten(t, b, i, p) == t = [b EXCEPT ![i].payload = p]

(* and after a replacement.                                                 *)
LEMMA EntryReplaced ==
  ASSUME NEW b \in Seq(Entry), Rising(b), NEW i \in 1..Len(b), NEW p \in Payloads,
         NEW t, Rewritten(t, b, i, p)
  PROVE  /\ t \in Seq(Entry) /\ Rising(t)
         /\ Members(t) = (Members(b) \ {b[i]}) \cup {[key |-> b[i].key, payload |-> p]}
<1>1. PICK n \in Nat : n = Len(b)
  BY LenProperties
<1>2. b[i] \in Entry /\ b[i].key \in HashKeys
  BY EntriesOf
<1>3. PICK e \in Entry : e = [key |-> b[i].key, payload |-> p] /\ e.key = b[i].key
  <2>1. PICK k \in HashKeys : k = b[i].key
    BY <1>2
  <2>2. [key |-> k, payload |-> p] \in Entry /\ [key |-> k, payload |-> p].key = k
    BY DEF Entry
  <2>3. QED
    BY <2>1, <2>2, Zenon
<1>4. [b[i] EXCEPT !.payload = p] = e
  BY <1>2, <1>3 DEF Entry
<1>5. t = [b EXCEPT ![i] = e]
  BY <1>4 DEF Rewritten
<1>6. /\ t \in Seq(Entry) /\ Len(t) = n
      /\ \A j \in 1..n : t[j] = IF j = i THEN e ELSE b[j]
  BY <1>1, <1>5, ExceptSeq
<1>7. \A j \in 1..n : t[j].key = b[j].key
  BY <1>3, <1>6
<1>8. Rising(t)
  BY <1>1, <1>6, <1>7 DEF Rising
<1>9. ASSUME NEW j \in 1..n, j # i PROVE b[j] # b[i]
  <2>1. b[j].key \in Nat /\ b[i].key \in Nat
    BY <1>1, EntriesOf
  <2>2. i \in 1..n /\ (j < i \/ i < j)
    BY <1>1, <1>9
  <2>3. b[j].key < b[i].key \/ b[i].key < b[j].key
    BY <1>1, <2>2 DEF Rising
  <2>4. QED
    BY <2>1, <2>3
<1>10. Members(t) = (Members(b) \ {b[i]}) \cup {e}
  BY <1>1, <1>6, <1>9 DEF Members
<1>11. QED
  BY <1>3, <1>6, <1>8, <1>10
-----------------------------------------------------------------------------
(* n buckets, in ascending order, each with the keys that belong there.     *)
Belong(b, n, c) == \A e \in Members(b) : CalcIndex(n, e.key) = c
Instead(B, A, c, b) == B = [A EXCEPT ![c] = b]
GoodTable(A, n) ==
  /\ A \in [0..(n - 1) -> Seq(Entry)]
  /\ \A i \in 0..(n - 1) : Rising(A[i])
  /\ \A i \in 0..(n - 1) : \A e \in Members(A[i]) : CalcIndex(n, e.key) = i

All(A, n) == UNION {Members(A[i]) : i \in 0..(n - 1)}
KeysOf(E) == {e.key : e \in E}
Unique(E) == \A e, f \in E : e.key = f.key => e = f

(* A key belongs to one of the buckets.                                     *)
LEMMA CalcIndexIn ==
  ASSUME NEW n \in Nat \ {0}, NEW k \in HashKeys
  PROVE  CalcIndex(n, k) \in 0..(n - 1)
<1>1. Hash[k] \in Nat
  BY HashKeysAssumption
<1>2. QED
  BY <1>1 DEF CalcIndex

(* In a bucket in order no two elements have one key.                       *)
LEMMA MembersAre ==
  ASSUME NEW b \in Seq(Entry)
  PROVE  /\ Members(b) \subseteq Entry
         /\ Rising(b) => Unique(Members(b))
<1>1. Members(b) \subseteq Entry
  BY EntriesOf DEF Members
<1>2. ASSUME Rising(b), NEW i \in 1..Len(b), NEW j \in 1..Len(b), b[i].key = b[j].key PROVE b[i] = b[j]
  <2>1. b[i].key \in Nat /\ b[j].key \in Nat /\ Len(b) \in Nat
    BY EntriesOf
  <2>2. i < j \/ i = j \/ j < i
    BY <2>1
  <2>3. ~(i < j) /\ ~(j < i)
    BY <1>2, <2>1 DEF Rising
  <2>4. QED
    BY <2>2, <2>3
<1>3. QED
  BY <1>1, <1>2 DEF Members, Unique

(* Nor in the table: every element is where its key belongs.                *)
LEMMA AllAre ==
  ASSUME NEW n \in Nat \ {0}, NEW A, GoodTable(A, n)
  PROVE  /\ All(A, n) \subseteq Entry /\ Unique(All(A, n))
         /\ \A e \in All(A, n) : e \in Members(A[CalcIndex(n, e.key)]) /\ e.key \in HashKeys
         /\ \A i \in 0..(n - 1) : A[i] \in Seq(Entry) /\ Rising(A[i]) /\ Members(A[i]) \subseteq All(A, n)
<1>1. ASSUME NEW i \in 0..(n - 1) PROVE A[i] \in Seq(Entry) /\ Rising(A[i]) /\ Members(A[i]) \subseteq All(A, n)
  BY DEF GoodTable, All
<1>2. ASSUME NEW e \in All(A, n) PROVE e \in Members(A[CalcIndex(n, e.key)]) /\ e \in Entry /\ e.key \in HashKeys
  <2>1. PICK i \in 0..(n - 1) : e \in Members(A[i])
    BY DEF All
  <2>2. CalcIndex(n, e.key) = i
    BY <2>1 DEF GoodTable
  <2>3. e \in Entry
    BY <1>1, <2>1, MembersAre
  <2>4. e.key \in HashKeys
    BY <2>3 DEF Entry
  <2>5. QED
    BY <2>1, <2>2, <2>3, <2>4, Zenon
<1>3. ASSUME NEW e \in All(A, n), NEW f \in All(A, n), e.key = f.key PROVE e = f
  <2>1. PICK c : c = CalcIndex(n, e.key)
    OBVIOUS
  <2>2. c \in 0..(n - 1) /\ e \in Members(A[c]) /\ f \in Members(A[c])
    BY <1>2, <1>3, <2>1, CalcIndexIn
  <2>3. Unique(Members(A[c]))
    BY <1>1, <2>2, MembersAre
  <2>4. QED
    BY <1>3, <2>2, <2>3 DEF Unique
<1>4. QED
  BY <1>1, <1>2, <1>3 DEF Unique

(* A search in the bucket of k tells whether k is in the table.             *)
LEMMA TableFinds ==
  ASSUME NEW n \in Nat \ {0}, NEW A, GoodTable(A, n), NEW k \in HashKeys,
         NEW c, c = CalcIndex(n, k), NEW r, r = BucketFind(A[c], k)
  PROVE  /\ r.hit \in BOOLEAN /\ r.index \in 0..Len(A[c])
         /\ r.hit => /\ r.index \in 0..(Len(A[c]) - 1) /\ A[c][r.index + 1].key = k
                     /\ A[c][r.index + 1] \in All(A, n) /\ k \in KeysOf(All(A, n))
         /\ ~r.hit => k \notin KeysOf(All(A, n))
<1>1. c \in 0..(n - 1)
  BY CalcIndexIn
<1>2. PICK b \in Seq(Entry) : b = A[c] /\ Rising(b) /\ Members(b) \subseteq All(A, n)
  BY <1>1, AllAre
<1>3. /\ r \in [index : 0..Len(b), hit : BOOLEAN]
      /\ r.hit => r.index \in 0..(Len(b) - 1) /\ b[r.index + 1].key = k
      /\ ~r.hit => /\ \A i \in 1..r.index : b[i].key < k
                   /\ \A i \in (r.index + 1)..Len(b) : k < b[i].key
  BY <1>2, BucketFindIs
<1>4. ASSUME r.hit PROVE b[r.index + 1] \in All(A, n) /\ k \in KeysOf(All(A, n))
  <2>1. r.index + 1 \in 1..Len(b)
    BY <1>3, <1>4, LenProperties
  <2>2. b[r.index + 1] \in Members(b)
    BY <2>1 DEF Members
  <2>3. b[r.index + 1] \in All(A, n)
    BY <1>2, <2>2
  <2>4. QED
    BY <1>3, <1>4, <2>3 DEF KeysOf
<1>5. ASSUME ~r.hit, NEW e \in All(A, n), e.key = k PROVE FALSE
  <2>1. e \in Members(b)
    BY <1>2, <1>5, AllAre
  <2>2. PICK i \in 1..Len(b) : e = b[i]
    BY <2>1 DEF Members
  <2>3. b[i].key \in Nat /\ Len(b) \in Nat
    BY EntriesOf
  <2>4. PICK m \in 0..Len(b) : m = r.index
    BY <1>3
  <2>5. i \in 1..m \/ i \in (m + 1)..Len(b)
    BY <2>3
  <2>6. b[i].key < k \/ k < b[i].key
    BY <1>3, <1>5, <2>4, <2>5
  <2>7. QED
    BY <1>5, <2>2, <2>3, <2>6
<1>6. QED
  BY <1>2, <1>3, <1>4, <1>5 DEF KeysOf

(* One bucket is replaced.                                                  *)
LEMMA BucketReplaced ==
  ASSUME NEW n \in Nat \ {0}, NEW A, GoodTable(A, n), NEW c \in 0..(n - 1),
         NEW b \in Seq(Entry), Rising(b), Belong(b, n, c),
         NEW B, Instead(B, A, c, b)
  PROVE  /\ GoodTable(B, n)
         /\ All(B, n) = (All(A, n) \ Members(A[c])) \cup Members(b)
<1>1. A \in [0..(n - 1) -> Seq(Entry)]
  BY DEF GoodTable
<1>2. B \in [0..(n - 1) -> Seq(Entry)] /\ B[c] = b /\ \A i \in 0..(n - 1) : i # c => B[i] = A[i]
  BY <1>1 DEF Instead
<1>3. GoodTable(B, n)
  <2>1. ASSUME NEW i \in 0..(n - 1) PROVE Rising(B[i]) /\ \A e \in Members(B[i]) : CalcIndex(n, e.key) = i
    <3>1. CASE i = c
      BY <1>2, <3>1 DEF Belong
    <3>2. CASE i # c
      <4>1. B[i] = A[i]
        BY <1>2, <3>2
      <4>2. QED
        BY <4>1 DEF GoodTable
    <3>3. QED
      BY <3>1, <3>2, Zenon
  <2>2. QED
    BY <1>2, <2>1 DEF GoodTable
<1>4. ASSUME NEW e \in All(B, n) PROVE e \in (All(A, n) \ Members(A[c])) \cup Members(b)
  <2>1. PICK i \in 0..(n - 1) : e \in Members(B[i])
    BY DEF All
  <2>2. CASE i = c
    BY <1>2, <2>1, <2>2
  <2>3. CASE i # c
    <3>1. e \in Members(A[i])
      BY <1>2, <2>1, <2>3
    <3>2. e \in All(A, n)
      BY <3>1 DEF All
    <3>3. e \notin Members(A[c])
      BY <2>3, <3>1 DEF GoodTable
    <3>4. QED
      BY <3>2, <3>3
  <2>4. QED
    BY <2>2, <2>3, Zenon
<1>5. ASSUME NEW e \in (All(A, n) \ Members(A[c])) \cup Members(b) PROVE e \in All(B, n)
  <2>1. CASE e \in Members(b)
    BY <1>2, <2>1 DEF All
  <2>2. CASE e \in All(A, n) \ Members(A[c])
    <3>1. PICK i \in 0..(n - 1) : e \in Members(A[i])
      BY <2>2 DEF All
    <3>2. i # c
      BY <2>2, <3>1
    <3>3. e \in Members(B[i])
      BY <1>2, <3>1, <3>2
    <3>4. QED
      BY <3>3 DEF All
  <2>3. QED
    BY <2>1, <2>2
<1>6. QED
  BY <1>3, <1>4, <1>5

(* A new element goes to the bucket of its key.                             *)
LEMMA PutIs ==
  ASSUME NEW n \in Nat \ {0}, NEW A, GoodTable(A, n), NEW e \in Entry, e.key \notin KeysOf(All(A, n))
  PROVE  GoodTable(Put(A, n, e), n) /\ All(Put(A, n, e), n) = All(A, n) \cup {e}
<1>1. PICK k \in HashKeys : k = e.key
  BY DEF Entry
<1>2. PICK c \in 0..(n - 1) : c = CalcIndex(n, k)
  BY CalcIndexIn
<1>3. PICK b \in Seq(Entry) : b = A[c] /\ Rising(b) /\ Members(b) \subseteq All(A, n)
  BY AllAre
<1>4. PICK r : r = BucketFind(b, k)
  OBVIOUS
<1>5. ~r.hit /\ r.index \in 0..Len(b)
  BY <1>1, <1>2, <1>3, <1>4, TableFinds
<1>6. (\A i \in 1..r.index : b[i].key < k) /\ (\A i \in (r.index + 1)..Len(b) : k < b[i].key)
  BY <1>3, <1>4, <1>5, BucketFindIs
<1>7. PICK t : t = InsertAt(b, r.index + 1, e)
  OBVIOUS
<1>8. t \in Seq(Entry) /\ Rising(t) /\ Members(t) = Members(b) \cup {e}
  BY <1>1, <1>3, <1>5, <1>6, <1>7, EntryInserted
<1>9. ASSUME NEW f \in Members(t) PROVE CalcIndex(n, f.key) = c
  <2>1. CASE f = e
    BY <1>1, <1>2, <2>1
  <2>2. CASE f \in Members(b)
    BY <1>3, <2>2 DEF GoodTable
  <2>3. QED
    BY <1>8, <2>1, <2>2
<1>10. PICK B : Instead(B, A, c, t)
  BY DEF Instead
<1>11. Put(A, n, e) = B
  BY <1>1, <1>2, <1>3, <1>4, <1>7, <1>10, Zenon DEF Put, Instead
<1>12. GoodTable(B, n) /\ All(B, n) = (All(A, n) \ Members(A[c])) \cup Members(t)
  <2>1. t \in Seq(Entry) /\ Rising(t) /\ Belong(t, n, c)
    BY <1>8, <1>9 DEF Belong
  <2>2. QED
    BY <1>10, <2>1, BucketReplaced
<1>13. All(B, n) = All(A, n) \cup {e}
  BY <1>3, <1>8, <1>12
<1>14. QED
  BY <1>11, <1>12, <1>13, Zenon
-----------------------------------------------------------------------------
(* The loop over a bucket, and the one over the buckets.                    *)
PutTurn(f, A, m, b, j) == IF j = 0 THEN A ELSE Put(f[j - 1], m, b[j])
Puts(f, A, m, b, n) == f = [j \in 0..n |-> PutTurn(f, A, m, b, j)]

(* The recursion over a bucket has a solution.                              *)
LEMMA PutDefined ==
  ASSUME NEW n \in Nat, NEW A, NEW m, NEW b
  PROVE  \E f : Puts(f, A, m, b, n)
<1> DEFINE Upto(f, c) == \A j \in 0..c : f[j] = PutTurn(f, A, m, b, j)
           S == {c \in Nat : \E f : Upto(f, c)}
<1>1. 0 \in S
  <2>1. PICK f : f = [j \in 0..0 |-> A]
    OBVIOUS
  <2>2. Upto(f, 0)
    BY <2>1 DEF PutTurn
  <2> HIDE DEF Upto
  <2>3. QED
    BY <2>2
<1>2. ASSUME NEW c \in Nat, c \in S PROVE c + 1 \in S
  <2>1. PICK f : Upto(f, c)
    BY <1>2
  <2>2. PICK g : g = [j \in 0..(c + 1) |-> IF j <= c THEN f[j] ELSE PutTurn(f, A, m, b, j)]
    OBVIOUS
  <2>3. ASSUME NEW j \in 0..(c + 1) PROVE g[j] = PutTurn(g, A, m, b, j)
    <3>1. g[j] = PutTurn(f, A, m, b, j)
      <4>1. CASE j <= c
        BY <2>1, <2>2, <4>1
      <4>2. CASE ~(j <= c)
        BY <2>2, <4>2
      <4>3. QED
        BY <4>1, <4>2, Zenon
    <3>2. j > 0 => f[j - 1] = g[j - 1]
      <4>1. j > 0 => j - 1 \in 0..(c + 1) /\ j - 1 <= c
        OBVIOUS
      <4>2. QED
        BY <2>2, <4>1
    <3>3. PutTurn(f, A, m, b, j) = PutTurn(g, A, m, b, j)
      <4>1. j = 0 \/ j > 0
        OBVIOUS
      <4>2. QED
        BY <3>2, <4>1, Zenon DEF PutTurn
    <3>4. QED
      BY <3>1, <3>3, Zenon
  <2>4. Upto(g, c + 1)
    BY <2>3
  <2> HIDE DEF Upto
  <2>5. (\E h : Upto(h, c + 1)) /\ c + 1 \in Nat
    BY <2>4
  <2>6. QED
    BY <2>5, Zenon
<1>3. n \in S
  <2> HIDE DEF S
  <2>1. Nat \subseteq S
    BY <1>1, <1>2, Induction
  <2>2. QED
    BY <2>1
<1>4. PICK f : Upto(f, n)
  BY <1>3
<1>5. PICK h : h = [j \in 0..n |-> f[j]]
  OBVIOUS
<1>6. ASSUME NEW j \in 0..n PROVE h[j] = PutTurn(h, A, m, b, j)
  <2>1. h[j] = PutTurn(f, A, m, b, j)
    BY <1>4, <1>5
  <2>2. j > 0 => f[j - 1] = h[j - 1]
    <3>1. j > 0 => j - 1 \in 0..n
      OBVIOUS
    <3>2. QED
      BY <1>5, <3>1
  <2>3. j = 0 \/ j > 0
    OBVIOUS
  <2>4. PutTurn(f, A, m, b, j) = PutTurn(h, A, m, b, j)
    BY <2>2, <2>3, Zenon DEF PutTurn
  <2>5. QED
    BY <2>1, <2>4, Zenon
<1>7. h = [j \in 0..n |-> h[j]]
  BY <1>5
<1>8. Puts(h, A, m, b, n)
  BY <1>6, <1>7 DEF Puts
<1>9. QED
  BY <1>8, Zenon

(* The elements of a bucket are added to the new array.                     *)
LEMMA PutAllIs ==
  ASSUME NEW m \in Nat \ {0}, NEW A, GoodTable(A, m), NEW b \in Seq(Entry), Rising(b),
         KeysOf(Members(b)) \cap KeysOf(All(A, m)) = {}
  PROVE  GoodTable(PutAll(A, m, b), m) /\ All(PutAll(A, m, b), m) = All(A, m) \cup Members(b)
<1>1. PICK n \in Nat : n = Len(b)
  BY LenProperties
<1> DEFINE f == CHOOSE g : g = [j \in 0..n |-> PutTurn(g, A, m, b, j)]
<1>2. f = [j \in 0..n |-> PutTurn(f, A, m, b, j)]
  <2>1. \E g : Puts(g, A, m, b, n)
    BY PutDefined
  <2>2. \E g : g = [j \in 0..n |-> PutTurn(g, A, m, b, j)]
    BY <2>1, Zenon DEF Puts
  <2>3. QED
    BY <2>2, Zenon
<1>3. PutAll(A, m, b) = f[n]
  BY <1>1 DEF PutAll, PutTurn
<1> HIDE DEF f
<1>4. ASSUME NEW j \in 0..n PROVE f[j] = PutTurn(f, A, m, b, j)
  BY <1>2
<1> DEFINE Of(j) == {b[x] : x \in 1..j}
           Good(j) == j <= n => GoodTable(f[j], m) /\ All(f[j], m) = All(A, m) \cup Of(j)
           S == {j \in Nat : Good(j)}
<1>5. Good(0)
  <2>1. f[0] = A
    BY <1>4 DEF PutTurn
  <2>2. Of(0) = {}
    OBVIOUS
  <2> HIDE DEF Of
  <2>3. QED
    BY <2>1, <2>2
<1>6. ASSUME NEW j \in Nat, Good(j) PROVE Good(j + 1)
  <2> SUFFICES ASSUME j + 1 <= n
               PROVE  GoodTable(f[j + 1], m) /\ All(f[j + 1], m) = All(A, m) \cup Of(j + 1)
    OBVIOUS
  <2>1. j + 1 \in 0..n /\ j + 1 \in 1..n /\ j + 1 # 0 /\ (j + 1) - 1 = j /\ j <= n
    OBVIOUS
  <2>2. PICK e \in Entry : e = b[j + 1]
    BY <1>1, <2>1, EntriesOf
  <2>3. PICK B : B = f[j]
    OBVIOUS
  <2>4. GoodTable(B, m) /\ All(B, m) = All(A, m) \cup Of(j)
    BY <1>6, <2>1, <2>3
  <2>5. f[j + 1] = Put(B, m, e)
    BY <1>4, <2>1, <2>2, <2>3 DEF PutTurn
  <2>6. e.key \notin KeysOf(All(B, m))
    <3>1. ASSUME NEW g \in All(A, m), g.key = e.key PROVE FALSE
      <4>1. e \in Members(b)
        BY <1>1, <2>1, <2>2 DEF Members
      <4>2. e.key \in KeysOf(Members(b)) /\ e.key \in KeysOf(All(A, m))
        BY <3>1, <4>1 DEF KeysOf
      <4>3. QED
        BY <4>2
    <3>2. ASSUME NEW g \in Of(j), g.key = e.key PROVE FALSE
      <4>1. PICK x \in 1..j : g = b[x]
        OBVIOUS
      <4>2. x \in 1..n /\ x < j + 1
        BY <2>1
      <4>3. b[x].key < b[j + 1].key
        BY <1>1, <2>1, <4>2 DEF Rising
      <4>4. b[x].key \in Nat
        BY <1>1, <4>2, EntriesOf
      <4>5. QED
        BY <2>2, <3>2, <4>1, <4>3, <4>4
    <3> HIDE DEF Of
    <3>3. QED
      BY <2>4, <3>1, <3>2 DEF KeysOf
  <2>7. GoodTable(Put(B, m, e), m) /\ All(Put(B, m, e), m) = All(B, m) \cup {e}
    BY <2>4, <2>6, PutIs
  <2>8. Of(j + 1) = Of(j) \cup {e}
    <3>1. \A x : x \in 1..(j + 1) <=> x \in 1..j \/ x = j + 1
      BY <2>1
    <3>2. QED
      BY <2>2, <3>1
  <2> HIDE DEF Of
  <2>9. QED
    BY <2>4, <2>5, <2>7, <2>8
<1> HIDE DEF Good
<1>7. Nat \subseteq S
  <2>1. 0 \in S /\ \A j \in Nat : j \in S => j + 1 \in S
    BY <1>5, <1>6
  <2> HIDE DEF S
  <2>2. QED
    BY <2>1, Induction
<1>8. Good(n) /\ n <= n
  BY <1>7
<1>9. Of(n) = Members(b)
  BY <1>1 DEF Members
<1> HIDE DEF Of
<1>10. QED
  BY <1>3, <1>8, <1>9 DEF Good

MoveTurn(f, A, m, i) == IF i = 0 THEN EmptyBuckets(m) ELSE PutAll(f[i - 1], m, A[i - 1])
Moves(f, A, m, n) == f = [i \in 0..n |-> MoveTurn(f, A, m, i)]

(* The recursion over the buckets has a solution.                           *)
LEMMA MoveDefined ==
  ASSUME NEW n \in Nat, NEW A, NEW m
  PROVE  \E f : Moves(f, A, m, n)
<1> DEFINE Upto(f, c) == \A j \in 0..c : f[j] = MoveTurn(f, A, m, j)
           S == {c \in Nat : \E f : Upto(f, c)}
<1>1. 0 \in S
  <2>1. PICK f : f = [j \in 0..0 |-> EmptyBuckets(m)]
    OBVIOUS
  <2>2. Upto(f, 0)
    BY <2>1 DEF MoveTurn
  <2> HIDE DEF Upto
  <2>3. QED
    BY <2>2
<1>2. ASSUME NEW c \in Nat, c \in S PROVE c + 1 \in S
  <2>1. PICK f : Upto(f, c)
    BY <1>2
  <2>2. PICK g : g = [j \in 0..(c + 1) |-> IF j <= c THEN f[j] ELSE MoveTurn(f, A, m, j)]
    OBVIOUS
  <2>3. ASSUME NEW j \in 0..(c + 1) PROVE g[j] = MoveTurn(g, A, m, j)
    <3>1. g[j] = MoveTurn(f, A, m, j)
      <4>1. CASE j <= c
        BY <2>1, <2>2, <4>1
      <4>2. CASE ~(j <= c)
        BY <2>2, <4>2
      <4>3. QED
        BY <4>1, <4>2, Zenon
    <3>2. j > 0 => f[j - 1] = g[j - 1]
      <4>1. j > 0 => j - 1 \in 0..(c + 1) /\ j - 1 <= c
        OBVIOUS
      <4>2. QED
        BY <2>2, <4>1
    <3>3. MoveTurn(f, A, m, j) = MoveTurn(g, A, m, j)
      <4>1. j = 0 \/ j > 0
        OBVIOUS
      <4>2. QED
        BY <3>2, <4>1, Zenon DEF MoveTurn
    <3>4. QED
      BY <3>1, <3>3, Zenon
  <2>4. Upto(g, c + 1)
    BY <2>3
  <2> HIDE DEF Upto
  <2>5. (\E h : Upto(h, c + 1)) /\ c + 1 \in Nat
    BY <2>4
  <2>6. QED
    BY <2>5, Zenon
<1>3. n \in S
  <2> HIDE DEF S
  <2>1. Nat \subseteq S
    BY <1>1, <1>2, Induction
  <2>2. QED
    BY <2>1
<1>4. PICK f : Upto(f, n)
  BY <1>3
<1>5. PICK h : h = [j \in 0..n |-> f[j]]
  OBVIOUS
<1>6. ASSUME NEW j \in 0..n PROVE h[j] = MoveTurn(h, A, m, j)
  <2>1. h[j] = MoveTurn(f, A, m, j)
    BY <1>4, <1>5
  <2>2. j > 0 => f[j - 1] = h[j - 1]
    <3>1. j > 0 => j - 1 \in 0..n
      OBVIOUS
    <3>2. QED
      BY <1>5, <3>1
  <2>3. j = 0 \/ j > 0
    OBVIOUS
  <2>4. MoveTurn(f, A, m, j) = MoveTurn(h, A, m, j)
    BY <2>2, <2>3, Zenon DEF MoveTurn
  <2>5. QED
    BY <2>1, <2>4, Zenon
<1>7. h = [j \in 0..n |-> h[j]]
  BY <1>5
<1>8. Moves(h, A, m, n)
  BY <1>6, <1>7 DEF Moves
<1>9. QED
  BY <1>8, Zenon

(* The buckets of a new array.                                              *)
LEMMA EmptyTable ==
  ASSUME NEW m \in Nat \ {0}
  PROVE  GoodTable(EmptyBuckets(m), m) /\ All(EmptyBuckets(m), m) = {}
<1>1. PICK B : B = EmptyBuckets(m)
  OBVIOUS
<1>2. B = [i \in 0..(m - 1) |-> <<>>]
  BY <1>1 DEF EmptyBuckets
<1>3. <<>> \in Seq(Entry) /\ Len(<<>>) = 0
  OBVIOUS
<1>4. Rising(<<>>) /\ Members(<<>>) = {}
  BY <1>3 DEF Rising, Members
<1>5. B \in [0..(m - 1) -> Seq(Entry)] /\ \A i \in 0..(m - 1) : B[i] = <<>>
  BY <1>2
<1>6. GoodTable(B, m)
  BY <1>4, <1>5 DEF GoodTable
<1>7. All(B, m) = {}
  BY <1>4, <1>5 DEF All
<1>8. QED
  BY <1>1, <1>6, <1>7

(* Every element goes to the new array, and no other.                       *)
LEMMA RelocatedIs ==
  ASSUME NEW n \in Nat \ {0}, NEW m \in Nat \ {0}, NEW A, GoodTable(A, n)
  PROVE  GoodTable(Relocated(A, n, m), m) /\ All(Relocated(A, n, m), m) = All(A, n)
<1> DEFINE f == CHOOSE g : g = [i \in 0..n |-> MoveTurn(g, A, m, i)]
<1>1. f = [i \in 0..n |-> MoveTurn(f, A, m, i)]
  <2>1. \E g : Moves(g, A, m, n)
    BY MoveDefined
  <2>2. \E g : g = [i \in 0..n |-> MoveTurn(g, A, m, i)]
    BY <2>1, Zenon DEF Moves
  <2>3. QED
    BY <2>2, Zenon
<1>2. Relocated(A, n, m) = f[n]
  BY DEF Relocated, MoveTurn
<1> HIDE DEF f
<1>3. ASSUME NEW i \in 0..n PROVE f[i] = MoveTurn(f, A, m, i)
  BY <1>1
<1> DEFINE Of(i) == UNION {Members(A[x]) : x \in 0..(i - 1)}
           Good(i) == i <= n => GoodTable(f[i], m) /\ All(f[i], m) = Of(i)
           S == {i \in Nat : Good(i)}
<1>4. Good(0)
  <2>1. f[0] = EmptyBuckets(m)
    BY <1>3 DEF MoveTurn
  <2>2. Of(0) = {}
    OBVIOUS
  <2> HIDE DEF Of
  <2>3. QED
    BY <2>1, <2>2, EmptyTable
<1>5. ASSUME NEW i \in Nat, Good(i) PROVE Good(i + 1)
  <2> SUFFICES ASSUME i + 1 <= n
               PROVE  GoodTable(f[i + 1], m) /\ All(f[i + 1], m) = Of(i + 1)
    OBVIOUS
  <2>1. i + 1 \in 0..n /\ i \in 0..(n - 1) /\ i + 1 # 0 /\ (i + 1) - 1 = i /\ i <= n
    OBVIOUS
  <2>2. PICK b \in Seq(Entry) : b = A[i] /\ Rising(b)
    BY <2>1, AllAre
  <2>3. PICK B : B = f[i]
    OBVIOUS
  <2>4. GoodTable(B, m) /\ All(B, m) = Of(i)
    BY <1>5, <2>1, <2>3
  <2>5. f[i + 1] = PutAll(B, m, b)
    BY <1>3, <2>1, <2>2, <2>3 DEF MoveTurn
  <2>6. KeysOf(Members(b)) \cap KeysOf(All(B, m)) = {}
    <3>1. ASSUME NEW e \in Members(b), NEW g \in Of(i), g.key = e.key PROVE FALSE
      <4>1. PICK x \in 0..(i - 1) : g \in Members(A[x])
        OBVIOUS
      <4>2. x \in 0..(n - 1) /\ x # i
        BY <2>1
      <4>3. CalcIndex(n, g.key) = x
        BY <4>1, <4>2 DEF GoodTable
      <4>4. CalcIndex(n, e.key) = i
        BY <2>1, <2>2, <3>1 DEF GoodTable
      <4>5. QED
        BY <3>1, <4>2, <4>3, <4>4
    <3> HIDE DEF Of
    <3>2. QED
      BY <2>4, <3>1 DEF KeysOf
  <2>7. GoodTable(PutAll(B, m, b), m) /\ All(PutAll(B, m, b), m) = All(B, m) \cup Members(b)
    BY <2>2, <2>4, <2>6, PutAllIs
  <2>8. Of(i + 1) = Of(i) \cup Members(b)
    <3>1. \A x : x \in 0..((i + 1) - 1) <=> x \in 0..(i - 1) \/ x = i
      BY <2>1
    <3>2. QED
      BY <2>2, <3>1
  <2> HIDE DEF Of
  <2>9. QED
    BY <2>4, <2>5, <2>7, <2>8
<1> HIDE DEF Good
<1>6. Nat \subseteq S
  <2>1. 0 \in S /\ \A i \in Nat : i \in S => i + 1 \in S
    BY <1>4, <1>5
  <2> HIDE DEF S
  <2>2. QED
    BY <2>1, Induction
<1>7. Good(n) /\ n <= n
  BY <1>6
<1>8. Of(n) = All(A, n)
  BY DEF All
<1> HIDE DEF Of
<1>9. QED
  BY <1>2, <1>7, <1>8 DEF Good
-----------------------------------------------------------------------------
SetIn(B, A, c, i, p) == B = [A EXCEPT ![c][i].payload = p]
CutIn(B, A, c, i) == B = [A EXCEPT ![c] = RemoveAt(@, i)]

(* The hit of a search is replaced or removed.                              *)
LEMMA HitReplaced ==
  ASSUME NEW n \in Nat \ {0}, NEW A, GoodTable(A, n), NEW k \in HashKeys, NEW p \in Payloads,
         NEW c, c = CalcIndex(n, k), NEW r, r = BucketFind(A[c], k), r.hit,
         NEW B, SetIn(B, A, c, r.index + 1, p)
  PROVE  /\ GoodTable(B, n)
         /\ All(B, n) = (All(A, n) \ {A[c][r.index + 1]}) \cup {[key |-> k, payload |-> p]}
<1>1. c \in 0..(n - 1)
  BY CalcIndexIn
<1>2. PICK b \in Seq(Entry) : b = A[c] /\ Rising(b) /\ Members(b) \subseteq All(A, n)
  BY <1>1, AllAre
<1>3. r.index \in 0..(Len(b) - 1) /\ b[r.index + 1].key = k
  BY <1>2, TableFinds
<1>4. PICK i \in 1..Len(b) : i = r.index + 1 /\ b[i].key = k
  BY <1>3, LenProperties
<1>5. PICK t : Rewritten(t, b, i, p)
  BY DEF Rewritten
<1>6. PICK e : e = [key |-> k, payload |-> p]
  OBVIOUS
<1>7. t \in Seq(Entry) /\ Rising(t) /\ Members(t) = (Members(b) \ {b[i]}) \cup {e}
  <2>1. /\ t \in Seq(Entry) /\ Rising(t)
        /\ Members(t) = (Members(b) \ {b[i]}) \cup {[key |-> b[i].key, payload |-> p]}
    BY <1>2, <1>5, EntryReplaced
  <2>2. QED
    BY <1>4, <1>6, <2>1, Zenon
<1>8. Instead(B, A, c, t)
  BY <1>2, <1>4, <1>5, Zenon DEF Instead, Rewritten, SetIn
<1>9. Belong(t, n, c)
  <2>1. ASSUME NEW f \in Members(t) PROVE CalcIndex(n, f.key) = c
    <3>1. CASE f = e
      BY <1>6, <3>1
    <3>2. CASE f \in Members(b)
      BY <1>1, <1>2, <3>2 DEF GoodTable
    <3>3. QED
      BY <1>7, <3>1, <3>2
  <2>2. QED
    BY <2>1 DEF Belong
<1>10. GoodTable(B, n) /\ All(B, n) = (All(A, n) \ Members(b)) \cup Members(t)
  <2>1. GoodTable(B, n) /\ All(B, n) = (All(A, n) \ Members(A[c])) \cup Members(t)
    BY <1>1, <1>2, <1>7, <1>8, <1>9, BucketReplaced
  <2>2. QED
    BY <1>2, <2>1, Zenon
<1>11. b[i] \in Members(b)
  BY DEF Members
<1>12. (All(A, n) \ Members(b)) \cup Members(t) = (All(A, n) \ {b[i]}) \cup {e}
  BY <1>2, <1>7, <1>11
<1>13. QED
  BY <1>2, <1>4, <1>6, <1>10, <1>12, Zenon

(* The hit of a search is removed.                                          *)
LEMMA HitRemoved ==
  ASSUME NEW n \in Nat \ {0}, NEW A, GoodTable(A, n), NEW k \in HashKeys,
         NEW c, c = CalcIndex(n, k), NEW r, r = BucketFind(A[c], k), r.hit,
         NEW B, CutIn(B, A, c, r.index + 1)
  PROVE  /\ GoodTable(B, n)
         /\ All(B, n) = All(A, n) \ {A[c][r.index + 1]}
<1>1. c \in 0..(n - 1)
  BY CalcIndexIn
<1>2. PICK b \in Seq(Entry) : b = A[c] /\ Rising(b) /\ Members(b) \subseteq All(A, n)
  BY <1>1, AllAre
<1>3. r.index \in 0..(Len(b) - 1)
  BY <1>2, TableFinds
<1>4. PICK i \in 1..Len(b) : i = r.index + 1
  BY <1>3, LenProperties
<1>5. PICK t : t = RemoveAt(b, r.index + 1)
  OBVIOUS
<1>6. t \in Seq(Entry) /\ Rising(t) /\ Members(t) = Members(b) \ {b[i]}
  BY <1>2, <1>3, <1>4, <1>5, EntryRemoved
<1>7. Instead(B, A, c, t)
  BY <1>2, <1>5, Zenon DEF Instead, CutIn
<1>8. Belong(t, n, c)
  <2>1. ASSUME NEW f \in Members(t) PROVE CalcIndex(n, f.key) = c
    <3>1. f \in Members(b)
      BY <1>6
    <3>2. QED
      BY <1>1, <1>2, <3>1 DEF GoodTable
  <2>2. QED
    BY <2>1 DEF Belong
<1>9. GoodTable(B, n) /\ All(B, n) = (All(A, n) \ Members(b)) \cup Members(t)
  <2>1. GoodTable(B, n) /\ All(B, n) = (All(A, n) \ Members(A[c])) \cup Members(t)
    BY <1>1, <1>2, <1>6, <1>7, <1>8, BucketReplaced
  <2>2. QED
    BY <1>2, <2>1, Zenon
<1>10. b[i] \in Members(b)
  BY DEF Members
<1>11. (All(A, n) \ Members(b)) \cup Members(t) = All(A, n) \ {b[i]}
  BY <1>2, <1>6, <1>10
<1>12. QED
  BY <1>2, <1>4, <1>9, <1>11, Zenon
-----------------------------------------------------------------------------
(* The elements as a function from their keys.                              *)
Keyed(E) == [k \in KeysOf(E) |-> (CHOOSE e \in E : e.key = k).payload]
Held(E, count) == IsFiniteSet(KeysOf(E)) /\ count \in Nat /\ count = Cardinality(KeysOf(E))

(* Elements with different keys are a function from these.                  *)
LEMMA KeyedIs ==
  ASSUME NEW E, Unique(E)
  PROVE  DOMAIN Keyed(E) = KeysOf(E) /\ \A e \in E : e.key \in KeysOf(E) /\ Keyed(E)[e.key] = e.payload
<1>1. ASSUME NEW e \in E PROVE e.key \in KeysOf(E) /\ Keyed(E)[e.key] = e.payload
  <2>1. e.key \in KeysOf(E)
    BY DEF KeysOf
  <2>2. PICK f : f = CHOOSE g \in E : g.key = e.key
    OBVIOUS
  <2>3. f \in E /\ f.key = e.key
    BY <2>2
  <2>4. f = e
    BY <2>3 DEF Unique
  <2>5. Keyed(E)[e.key] = f.payload
    BY <2>1, <2>2 DEF Keyed
  <2>6. QED
    BY <2>1, <2>4, <2>5
<1>2. QED
  BY <1>1 DEF Keyed

With(g, k, p) == [j \in DOMAIN g \cup {k} |-> IF j = k THEN p ELSE g[j]]

Joins(e, E, F) == /\ e \in F
                  /\ \A g \in E : g.key = e.key \/ g \in F
                  /\ \A g \in F : g = e \/ g \in E

(* That function after an addition or a replacement,                        *)
LEMMA KeyedAdded ==
  ASSUME NEW E, Unique(E), NEW e, NEW F, Unique(F), Joins(e, E, F)
  PROVE  Keyed(F) = With(Keyed(E), e.key, e.payload) /\ KeysOf(F) = KeysOf(E) \cup {e.key}
<1>1. KeysOf(F) = KeysOf(E) \cup {e.key}
  BY DEF KeysOf, Joins
<1>2. DOMAIN Keyed(E) = KeysOf(E) /\ DOMAIN Keyed(F) = KeysOf(F)
  BY KeyedIs
<1>3. ASSUME NEW j \in KeysOf(F) PROVE Keyed(F)[j] = IF j = e.key THEN e.payload ELSE Keyed(E)[j]
  <2>1. PICK g \in F : g.key = j
    BY DEF KeysOf
  <2>2. Keyed(F)[j] = g.payload
    BY <2>1, KeyedIs
  <2>3. CASE j = e.key
    <3>1. g = e
      BY <2>1, <2>3 DEF Unique, Joins
    <3>2. QED
      BY <2>2, <2>3, <3>1
  <2>4. CASE j # e.key
    <3>1. g \in E
      BY <2>1, <2>4 DEF Joins
    <3>2. Keyed(E)[j] = g.payload
      BY <2>1, <3>1, KeyedIs
    <3>3. QED
      BY <2>2, <2>4, <3>2
  <2>5. QED
    BY <2>3, <2>4, Zenon
<1>4. PICK g : g = Keyed(E)
  OBVIOUS
<1>5. Keyed(F) = [j \in KeysOf(F) |-> Keyed(F)[j]]
  BY DEF Keyed
<1>6. PICK h : h = Keyed(F)
  OBVIOUS
<1>7. h = [j \in KeysOf(F) |-> IF j = e.key THEN e.payload ELSE g[j]]
  BY <1>3, <1>4, <1>5, <1>6
<1>8. KeysOf(F) = DOMAIN g \cup {e.key}
  BY <1>1, <1>2, <1>4
<1>9. h = With(g, e.key, e.payload)
  BY <1>7, <1>8, Zenon DEF With
<1>10. QED
  BY <1>1, <1>4, <1>6, <1>9, Zenon

Reduced(g, k) == [j \in DOMAIN g \ {k} |-> g[j]]

(* and after a removal.                                                     *)
LEMMA KeyedRemoved ==
  ASSUME NEW E, Unique(E), NEW e \in E, NEW F, F = E \ {e}
  PROVE  Keyed(F) = Reduced(Keyed(E), e.key) /\ KeysOf(F) = KeysOf(E) \ {e.key}
<1>1. KeysOf(F) = KeysOf(E) \ {e.key}
  BY DEF KeysOf, Unique
<1>2. Unique(F)
  BY DEF Unique
<1>3. DOMAIN Keyed(E) = KeysOf(E)
  BY KeyedIs
<1>4. ASSUME NEW j \in KeysOf(F) PROVE Keyed(F)[j] = Keyed(E)[j]
  <2>1. PICK g \in F : g.key = j
    BY DEF KeysOf
  <2>2. Keyed(F)[j] = g.payload
    BY <1>2, <2>1, KeyedIs
  <2>3. Keyed(E)[j] = g.payload
    BY <2>1, KeyedIs
  <2>4. QED
    BY <2>2, <2>3
<1>5. PICK g : g = Keyed(E)
  OBVIOUS
<1>6. PICK h : h = Keyed(F)
  OBVIOUS
<1>7. Keyed(F) = [j \in KeysOf(F) |-> Keyed(F)[j]]
  BY DEF Keyed
<1>8. h = [j \in KeysOf(F) |-> g[j]]
  BY <1>4, <1>5, <1>6, <1>7
<1>9. KeysOf(F) = DOMAIN g \ {e.key}
  BY <1>1, <1>3, <1>5
<1>10. h = Reduced(g, e.key)
  BY <1>8, <1>9, Zenon DEF Reduced
<1>11. QED
  BY <1>1, <1>5, <1>6, <1>10, Zenon

(* The number of keys then.                                                 *)
LEMMA HeldOf ==
  ASSUME NEW E, NEW count, Held(E, count), NEW F, NEW k
  PROVE  /\ KeysOf(F) = KeysOf(E) \cup {k} /\ k \in KeysOf(E) => Held(F, count)
         /\ KeysOf(F) = KeysOf(E) \cup {k} /\ k \notin KeysOf(E) => Held(F, count + 1)
         /\ KeysOf(F) = KeysOf(E) \ {k} /\ k \in KeysOf(E) => Held(F, count - 1)
<1>1. PICK S : S = KeysOf(E)
  OBVIOUS
<1>2. IsFiniteSet(S) /\ count \in Nat /\ count = Cardinality(S)
  BY <1>1 DEF Held
<1>3. /\ IsFiniteSet(S \cup {k})
      /\ k \in S => Cardinality(S \cup {k}) = count
      /\ k \notin S => Cardinality(S \cup {k}) = count + 1
  BY <1>2, FS_AddElement
<1>4. IsFiniteSet(S \ {k}) /\ (k \in S => Cardinality(S \ {k}) = count - 1)
  BY <1>2, FS_RemoveElement
<1>5. k \in S => count - 1 \in Nat
  <2>1. Cardinality(S \ {k}) \in Nat
    BY <1>4, FS_CardinalityType
  <2>2. QED
    BY <1>4, <2>1
<1>6. count + 1 \in Nat
  BY <1>2
<1>7. QED
  BY <1>1, <1>2, <1>3, <1>4, <1>5, <1>6, Zenon DEF Held
-----------------------------------------------------------------------------
(* The sizes a table can have: the least one, doubled any number of times.  *)
Doublings(least) ==
  {n \in Nat : \A S \in SUBSET Nat : least \in S /\ (\A m \in S : 2 * m \in S) => n \in S}

(* A size doubled, or halved above the least, is one of these.              *)
LEMMA DoublingsAre ==
  ASSUME NEW least \in Nat \ {0}
  PROVE  /\ least \in Doublings(least)
         /\ \A n \in Doublings(least) : /\ n \in Nat \ {0} /\ n >= least
                                        /\ 2 * n \in Doublings(least)
                                        /\ n > least => n \div 2 \in Doublings(least) /\ n \div 2 < n
<1> DEFINE D == Doublings(least)
<1>1. least \in D
  BY DEF Doublings
<1>2. ASSUME NEW n \in D PROVE n \in Nat /\ 2 * n \in D
  BY DEF Doublings
<1>3. ASSUME NEW S \in SUBSET Nat, least \in S, \A m \in S : 2 * m \in S, NEW n \in D PROVE n \in S
  BY <1>3 DEF Doublings
<1> HIDE DEF D
<1>4. ASSUME NEW n \in D PROVE n >= least
  <2> DEFINE S == {m \in Nat : m >= least}
  <2>1. S \in SUBSET Nat /\ least \in S /\ \A m \in S : 2 * m \in S
    OBVIOUS
  <2>2. n \in S
    <3> HIDE DEF S
    <3>1. QED
      BY <1>3, <2>1
  <2>3. QED
    BY <2>2
<1>5. ASSUME NEW n \in D, n > least PROVE n \div 2 \in D /\ n \div 2 < n
  <2> DEFINE S == {m \in D : m = least \/ \E h \in D : m = 2 * h}
  <2>1. S \in SUBSET Nat
    BY <1>2
  <2>2. least \in S
    BY <1>1
  <2>3. \A m \in S : 2 * m \in S
    BY <1>2
  <2>4. n \in S
    <3> HIDE DEF S
    <3>1. QED
      BY <1>3, <2>1, <2>2, <2>3
  <2>5. PICK h \in D : n = 2 * h
    <3>1. n # least
      BY <1>2, <1>5
    <3>2. QED
      BY <2>4, <3>1
  <2>6. h \in Nat /\ n \in Nat
    BY <1>2
  <2>7. n \div 2 = h /\ h < n
    BY <1>5, <2>5, <2>6
  <2>8. QED
    BY <2>5, <2>7
<1>6. \A n \in D : n \in Nat \ {0} /\ n >= least
  BY <1>2, <1>4
<1>7. QED
  BY <1>1, <1>2, <1>5, <1>6 DEF D

Allowed(m) == m \in Doublings(min_size) /\ m <= MaxSize

TableInv ==
  /\ min_size \in MinSizes /\ shrink \in Shrinks /\ expand \in Expands
  /\ Allowed(size)
  /\ length \in Nat /\ answer \in Nat
  /\ array # NoBuckets => GoodTable(array, size) /\ Held(All(array, size), length)

(* What there is to know of a size in bounds.                               *)
LEMMA FitsIn ==
  ASSUME TableInv, NEW m, Allowed(m)
  PROVE  /\ m \in Nat \ {0} /\ m \in 1..MaxSize /\ m >= min_size
         /\ 2 * m <= MaxSize => Allowed(2 * m)
         /\ m > min_size => Allowed(m \div 2)
<1>1. min_size \in Nat \ {0} /\ MaxSize \in Nat
  BY TableSizesAssumption DEF TableInv
<1>2. m \in Doublings(min_size) /\ m <= MaxSize
  BY DEF Allowed
<1>3. /\ m \in Nat \ {0} /\ m >= min_size
      /\ 2 * m \in Doublings(min_size)
      /\ m > min_size => m \div 2 \in Doublings(min_size) /\ m \div 2 < m
  BY <1>1, <1>2, DoublingsAre
<1>4. m \div 2 \in Nat
  BY <1>3
<1>5. m > min_size => m \div 2 <= MaxSize
  BY <1>1, <1>2, <1>3, <1>4
<1>6. QED
  BY <1>1, <1>2, <1>3, <1>5 DEF Allowed

(* Buckets are not the missing array.                                       *)
LEMMA TableThere ==
  ASSUME NEW m \in 1..MaxSize, NEW A, GoodTable(A, m)
  PROVE  A # NoBuckets
<1>1. A \in [0..(m - 1) -> Seq([key : HashKeys, payload : Payloads])]
  BY DEF GoodTable, Entry
<1>2. QED
  BY <1>1, NoBucketsAssumption

(* The elements of the buckets.                                             *)
LEMMA EntriesAll ==
  ASSUME NEW n \in Nat \ {0}, NEW A, GoodTable(A, n)
  PROVE  UNION {Range(A[i]) : i \in DOMAIN A} = All(A, n)
<1>1. A \in [0..(n - 1) -> Seq(Entry)]
  BY DEF GoodTable
<1>2. DOMAIN A = 0..(n - 1)
  BY <1>1
<1>3. ASSUME NEW i \in 0..(n - 1) PROVE Range(A[i]) = Members(A[i])
  <2>1. A[i] \in Seq(Entry)
    BY <1>1
  <2>2. DOMAIN A[i] = 1..Len(A[i])
    BY <2>1, LenProperties
  <2>3. QED
    BY <2>2 DEF Range, Members
<1>4. QED
  BY <1>2, <1>3 DEF All

Elems == Keyed(Entries)

(* What there is to know of a table that is there.                          *)
LEMMA TableIs ==
  ASSUME TableInv, array # NoBuckets
  PROVE  /\ GoodTable(array, size) /\ Held(All(array, size), length) /\ size \in Nat \ {0}
         /\ Entries = All(array, size)
<1>1. GoodTable(array, size) /\ Held(All(array, size), length)
  BY DEF TableInv
<1>2. size \in Nat \ {0}
  BY FitsIn DEF TableInv
<1>3. UNION {Range(array[i]) : i \in DOMAIN array} = All(array, size)
  BY <1>1, <1>2, EntriesAll
<1>4. Entries = All(array, size)
  BY <1>3, Zenon DEF Entries
<1>5. QED
  BY <1>1, <1>2, <1>4

(* What a step has to establish for the invariant.                          *)
LEMMA TableKept ==
  ASSUME TableInv, UNCHANGED config, NEW m, Allowed(m), size' = m,
         NEW A, array' = A, GoodTable(A, m), Held(All(A, m), length'), answer' \in Nat
  PROVE  TableInv' /\ array' # NoBuckets /\ Entries' = All(A, m)
<1>1. m \in 1..MaxSize /\ m \in Nat \ {0}
  BY FitsIn
<1>2. A # NoBuckets
  BY <1>1, TableThere
<1>3. min_size' = min_size /\ shrink' = shrink /\ expand' = expand
  BY DEF config
<1>4. TableInv'
  <2>1. Allowed(size)'
    BY <1>3, Zenon DEF Allowed
  <2>2. length' \in Nat
    BY DEF Held
  <2>3. min_size' \in MinSizes /\ shrink' \in Shrinks /\ expand' \in Expands
    BY <1>3 DEF TableInv
  <2>4. GoodTable(array', size') /\ Held(All(array', size'), length')
    BY Zenon
  <2>5. QED
    BY <2>1, <2>2, <2>3, <2>4, Zenon DEF TableInv
<1>5. UNION {Range(A[i]) : i \in DOMAIN A} = All(A, m)
  BY <1>1, EntriesAll
<1>6. Entries' = All(A, m)
  BY <1>2, <1>5, Zenon DEF Entries
<1>7. QED
  BY <1>2, <1>4, <1>6, Zenon

(* A call that leaves the table alone.                                      *)
LEMMA TableSame ==
  ASSUME TableInv, array # NoBuckets, UNCHANGED <<array, size, length, config>>, answer' \in Nat
  PROVE  TableInv' /\ Elems' = Elems
<1>1. array' = array /\ size' = size /\ length' = length /\ min_size' = min_size /\ shrink' = shrink /\ expand' = expand
  BY DEF config
<1>2. Allowed(size)' <=> Allowed(size)
  BY <1>1, Zenon DEF Allowed
<1>3. TableInv'
  BY <1>1, <1>2, Zenon DEF TableInv
<1>4. Entries' = Entries
  BY <1>1, Zenon DEF Entries
<1>5. QED
  BY <1>3, <1>4, Zenon DEF Elems
-----------------------------------------------------------------------------
(* The calls of the abstract specification, of these elements.              *)
LEMMA TableCalls ==
  ASSUME NEW k, NEW p
  PROVE  /\ Table!Add(k, p) <=> Elems' = With(Elems, k, p) /\ answer' = 0
         /\ Table!Remove(k) <=> k \in DOMAIN Elems /\ Elems' = Reduced(Elems, k) /\ answer' = 0
         /\ Table!Get(k) <=> k \in DOMAIN Elems /\ answer' = Elems[k] /\ Elems' = Elems
         /\ Table!Missing(k) <=> k \notin DOMAIN Elems /\ answer' = 1 /\ Elems' = Elems
         /\ Table!Contains(k) <=> answer' = (IF k \in DOMAIN Elems THEN 1 ELSE 0) /\ Elems' = Elems
         /\ Table!Count <=> answer' = Cardinality(DOMAIN Elems) /\ Elems' = Elems
         /\ Table!Clear <=> Elems' = Keyed({}) /\ answer' = 0
         /\ Table!Fail <=> answer' = 1 /\ Elems' = Elems
<1>1. Table!Add(k, p) <=> Elems' = With(Elems, k, p) /\ answer' = 0
  BY Zenon DEF Table!Add, Elems, Keyed, KeysOf, With
<1>2. Table!Remove(k) <=> k \in DOMAIN Elems /\ Elems' = Reduced(Elems, k) /\ answer' = 0
  BY Zenon DEF Table!Remove, Table!Restrict, Elems, Keyed, KeysOf, Reduced
<1>3. Table!Get(k) <=> k \in DOMAIN Elems /\ answer' = Elems[k] /\ Elems' = Elems
  BY Zenon DEF Table!Get, Elems, Keyed, KeysOf
<1>4. Table!Missing(k) <=> k \notin DOMAIN Elems /\ answer' = 1 /\ Elems' = Elems
  BY Zenon DEF Table!Missing, Elems, Keyed, KeysOf
<1>5. Table!Contains(k) <=> answer' = (IF k \in DOMAIN Elems THEN 1 ELSE 0) /\ Elems' = Elems
  BY Zenon DEF Table!Contains, Elems, Keyed, KeysOf
<1>6. Table!Count <=> answer' = Cardinality(DOMAIN Elems) /\ Elems' = Elems
  BY Zenon DEF Table!Count, Table!Cardinality, Cardinality, Elems, Keyed, KeysOf
<1>7. Table!Clear <=> Elems' = Keyed({}) /\ answer' = 0
  <2>1. Keyed({}) = [j \in {} |-> 0]
    BY DEF Keyed, KeysOf
  <2>2. QED
    BY <2>1, Zenon DEF Table!Clear, Elems, Keyed, KeysOf
<1>8. Table!Fail <=> answer' = 1 /\ Elems' = Elems
  BY Zenon DEF Table!Fail, Elems, Keyed, KeysOf
<1>9. QED
  BY <1>1, <1>2, <1>3, <1>4, <1>5, <1>6, <1>7, <1>8, Zenon

(* What the search in the bucket of a key tells.                            *)
LEMMA FoundHere ==
  ASSUME TableInv, array # NoBuckets, NEW k \in HashKeys
  PROVE  /\ Found(k).hit => /\ Bucket(k)[Found(k).index + 1] \in Entries
                            /\ Bucket(k)[Found(k).index + 1].key = k
                            /\ k \in KeysOf(Entries)
         /\ ~Found(k).hit => k \notin KeysOf(Entries)
         /\ Unique(Entries) /\ Entries \subseteq Entry
         /\ DOMAIN Elems = KeysOf(Entries)
<1>1. /\ GoodTable(array, size) /\ size \in Nat \ {0}
      /\ Entries = All(array, size)
  BY TableIs
<1>2. PICK c : c = CalcIndex(size, k)
  OBVIOUS
<1>3. PICK r : r = BucketFind(array[c], k)
  OBVIOUS
<1>4. /\ r.hit => /\ array[c][r.index + 1].key = k
                  /\ array[c][r.index + 1] \in All(array, size) /\ k \in KeysOf(All(array, size))
      /\ ~r.hit => k \notin KeysOf(All(array, size))
  BY <1>1, <1>2, <1>3, TableFinds
<1>5. Unique(Entries) /\ Entries \subseteq Entry
  BY <1>1, AllAre
<1>6. DOMAIN Elems = KeysOf(Entries)
  BY <1>5, KeyedIs DEF Elems
<1>7. Bucket(k) = array[c] /\ Found(k) = r
  BY <1>2, <1>3, Zenon DEF Bucket, Found
<1>8. QED
  BY <1>1, <1>4, <1>5, <1>6, <1>7, Zenon

(* Four calls that leave the table alone.                                   *)
LEMMA ContainsKeyKept ==
  ASSUME TableInv, NEW k \in HashKeys, ContainsKey(k)
  PROVE  TableInv' /\ Table!Contains(k)
<1>1. /\ array # NoBuckets /\ UNCHANGED <<array, size, length, config>>
      /\ answer' = IF Found(k).hit THEN 1 ELSE 0
  BY DEF ContainsKey
<1>2. answer' \in Nat
  BY <1>1
<1>3. TableInv' /\ Elems' = Elems
  BY <1>1, <1>2, TableSame
<1>4. Found(k).hit <=> k \in DOMAIN Elems
  BY <1>1, FoundHere, Zenon
<1>5. QED
  BY <1>1, <1>3, <1>4, TableCalls, Zenon

(* A get of a key that is there gives its payload.                          *)
LEMMA GetKept ==
  ASSUME TableInv, NEW k \in HashKeys, Get(k)
  PROVE  TableInv' /\ (Table!Get(k) \/ Table!Missing(k))
<1> DEFINE g == Bucket(k)[Found(k).index + 1]
<1>1. /\ array # NoBuckets /\ UNCHANGED <<array, size, length, config>>
      /\ answer' = IF Found(k).hit THEN g.payload ELSE 1
  BY DEF Get
<1>2. CASE Found(k).hit
  <2>1. g \in Entries /\ g.key = k /\ k \in DOMAIN Elems /\ Unique(Entries) /\ Entries \subseteq Entry
    BY <1>1, <1>2, FoundHere, Zenon
  <2>2. answer' = g.payload
    BY <1>1, <1>2
  <2> HIDE DEF g
  <2>3. Elems[k] = g.payload
    BY <2>1, KeyedIs DEF Elems
  <2>4. answer' \in Nat
    BY <2>1, <2>2, HashKeysAssumption DEF Entry
  <2>5. TableInv' /\ Elems' = Elems
    BY <1>1, <2>4, TableSame
  <2>6. QED
    BY <2>1, <2>2, <2>3, <2>5, TableCalls, Zenon
<1>3. CASE ~Found(k).hit
  <2>1. answer' = 1 /\ answer' \in Nat
    BY <1>1, <1>3
  <2>2. TableInv' /\ Elems' = Elems
    BY <1>1, <2>1, TableSame
  <2>3. k \notin DOMAIN Elems
    BY <1>1, <1>3, FoundHere, Zenon
  <2>4. QED
    BY <2>1, <2>2, <2>3, TableCalls, Zenon
<1>4. QED
  BY <1>2, <1>3, Zenon

(* A removal of a key that is not there.                                    *)
LEMMA RemoveMissingKept ==
  ASSUME TableInv, NEW k \in HashKeys, RemoveMissing(k)
  PROVE  TableInv' /\ Table!Missing(k)
<1>1. /\ array # NoBuckets /\ UNCHANGED <<array, size, length, config>>
      /\ answer' = 1 /\ ~Found(k).hit /\ answer' \in Nat
  BY DEF RemoveMissing
<1>2. TableInv' /\ Elems' = Elems
  BY <1>1, TableSame
<1>3. k \notin DOMAIN Elems
  BY <1>1, FoundHere, Zenon
<1>4. QED
  BY <1>1, <1>2, <1>3, TableCalls, Zenon

(* The number of elements.                                                  *)
LEMMA CountKept ==
  ASSUME TableInv, Count
  PROVE  TableInv' /\ Table!Count
<1>1. /\ array # NoBuckets /\ UNCHANGED <<array, size, length, config>>
      /\ answer' = length
  BY DEF Count
<1>2. Held(Entries, length) /\ GoodTable(array, size) /\ size \in Nat \ {0} /\ Entries = All(array, size)
  BY <1>1, TableIs
<1>3. answer' \in Nat
  BY <1>1 DEF TableInv
<1>4. TableInv' /\ Elems' = Elems
  BY <1>1, <1>3, TableSame
<1>5. DOMAIN Elems = KeysOf(Entries)
  <2>1. Unique(Entries)
    BY <1>2, AllAre
  <2>2. QED
    BY <2>1, KeyedIs DEF Elems
<1>6. answer' = Cardinality(DOMAIN Elems)
  BY <1>1, <1>2, <1>5, Zenon DEF Held
<1>7. QED
  BY <1>4, <1>6, TableCalls, Zenon

(* An element put together from its key and its payload.                    *)
LEMMA EntryMade ==
  ASSUME NEW k \in HashKeys, NEW p \in Payloads
  PROVE  LET e == [key |-> k, payload |-> p] IN e \in Entry /\ e.key = k /\ e.payload = p
  BY DEF Entry

(* hashset_add of a key that is there, and of a new one.                    *)
LEMMA ReplaceKept ==
  ASSUME TableInv, NEW k \in HashKeys, NEW p \in Payloads, Replace(k, p)
  PROVE  TableInv' /\ Table!Add(k, p)
<1>1. /\ array # NoBuckets /\ Found(k).hit
      /\ array' = [array EXCEPT ![CalcIndex(size, k)][Found(k).index + 1].payload = p]
      /\ answer' = 0 /\ size' = size /\ length' = length /\ UNCHANGED config
  BY DEF Replace
<1>2. /\ GoodTable(array, size) /\ Held(Entries, length) /\ size \in Nat \ {0}
      /\ Entries = All(array, size)
  BY <1>1, TableIs
<1>3. PICK A : A = array
  OBVIOUS
<1>4. PICK c : c = CalcIndex(size, k)
  OBVIOUS
<1>5. PICK r : r = BucketFind(A[c], k)
  OBVIOUS
<1>6. PICK B : B = array'
  OBVIOUS
<1>7. Bucket(k) = A[c] /\ Found(k) = r /\ r.hit /\ SetIn(B, A, c, r.index + 1, p)
  BY <1>1, <1>3, <1>4, <1>5, <1>6, Zenon DEF Bucket, Found, SetIn
<1>8. PICK g : g = A[c][r.index + 1]
  OBVIOUS
<1>9. PICK e \in Entry : e = [key |-> k, payload |-> p] /\ e.key = k /\ e.payload = p
  BY EntryMade, Zenon
<1>10. GoodTable(B, size) /\ All(B, size) = (Entries \ {g}) \cup {e}
  BY <1>2, <1>3, <1>4, <1>5, <1>7, <1>8, <1>9, HitReplaced
<1>11. g \in Entries /\ g.key = k /\ k \in KeysOf(Entries) /\ Unique(Entries)
  BY <1>1, <1>7, <1>8, FoundHere, Zenon
<1>12. Keyed(All(B, size)) = With(Keyed(Entries), k, p) /\ KeysOf(All(B, size)) = KeysOf(Entries) \cup {k}
  <2>1. Unique(All(B, size))
    BY <1>2, <1>10, AllAre
  <2>2. Joins(e, Entries, All(B, size))
    BY <1>9, <1>10, <1>11 DEF Joins
  <2>3. QED
    BY <1>9, <1>11, <2>1, <2>2, KeyedAdded, Zenon
<1>13. Held(All(B, size), length')
  BY <1>1, <1>2, <1>11, <1>12, HeldOf, Zenon
<1>14. TableInv' /\ Entries' = All(B, size)
  <2>1. Allowed(size) /\ answer' \in Nat
    BY <1>1 DEF TableInv
  <2>2. QED
    BY <1>1, <1>6, <1>10, <1>13, <2>1, TableKept
<1>15. QED
  BY <1>1, <1>12, <1>14, TableCalls, Zenon DEF Elems

(* A resize, done or not.                                                   *)
LEMMA ResizedIs ==
  ASSUME TableInv, array # NoBuckets, NEW m, Allowed(m)
  PROVE  GoodTable(Resized(m), m) /\ All(Resized(m), m) = Entries
<1>1. /\ GoodTable(array, size) /\ size \in Nat \ {0}
      /\ Entries = All(array, size)
  BY TableIs
<1>2. m \in Nat \ {0}
  BY FitsIn
<1>3. CASE m = size
  BY <1>1, <1>3, Zenon DEF Resized
<1>4. CASE m # size
  <2>1. Resized(m) = Relocated(array, size, m)
    BY <1>4, Zenon DEF Resized
  <2>2. QED
    BY <1>1, <1>2, <2>1, RelocatedIs
<1>5. QED
  BY <1>3, <1>4, Zenon

(* With or without a resize, and with or without memory for the element.    *)
LEMMA AddKept ==
  ASSUME TableInv, NEW k \in HashKeys, NEW p \in Payloads, Add(k, p)
  PROVE  TableInv' /\ (Table!Add(k, p) \/ Table!Fail)
<1>1. array # NoBuckets /\ ~Found(k).hit /\ UNCHANGED config
  BY DEF Add
<1>2. PICK m \in AfterExpand :
        /\ m <= MaxSize
        /\ size' = m
        /\ \/ /\ array' = Put(Resized(m), m, [key |-> k, payload |-> p])
              /\ length' = length + 1 /\ answer' = 0
           \/ /\ array' = Resized(m)
              /\ answer' = 1 /\ length' = length
  BY Zenon DEF Add
<1>3. Held(Entries, length)
  BY <1>1, TableIs
<1>4. Allowed(m)
  <2>1. Allowed(size)
    BY DEF TableInv
  <2>2. m = size \/ m = 2 * size
    BY <1>2 DEF AfterExpand, FACTOR
  <2>3. QED
    BY <1>2, <2>1, <2>2, FitsIn
<1>5. PICK R : R = Resized(m)
  OBVIOUS
<1>6. GoodTable(R, m) /\ All(R, m) = Entries
  BY <1>1, <1>4, <1>5, ResizedIs
<1>7. k \notin KeysOf(Entries) /\ Unique(Entries)
  BY <1>1, FoundHere, Zenon
<1>8. PICK e \in Entry : e = [key |-> k, payload |-> p] /\ e.key = k /\ e.payload = p
  BY EntryMade, Zenon
<1>9. CASE array' = Put(Resized(m), m, [key |-> k, payload |-> p]) /\ length' = length + 1 /\ answer' = 0
  <2>1. PICK B : B = Put(R, m, e)
    OBVIOUS
  <2>2. GoodTable(B, m) /\ All(B, m) = Entries \cup {e}
    <3>1. m \in Nat \ {0}
      BY <1>4, FitsIn
    <3>2. QED
      BY <1>6, <1>7, <1>8, <2>1, <3>1, PutIs
  <2>3. Keyed(All(B, m)) = With(Keyed(Entries), k, p) /\ KeysOf(All(B, m)) = KeysOf(Entries) \cup {k}
    <3>1. Unique(All(B, m))
      <4>1. m \in Nat \ {0}
        BY <1>4, FitsIn
      <4>2. QED
        BY <2>2, <4>1, AllAre
    <3>2. Joins(e, Entries, All(B, m))
      BY <2>2 DEF Joins
    <3>3. QED
      BY <1>7, <1>8, <3>1, <3>2, KeyedAdded, Zenon
  <2>4. Held(All(B, m), length')
    BY <1>3, <1>7, <1>9, <2>3, HeldOf, Zenon
  <2>5. array' = B /\ answer' \in Nat
    BY <1>5, <1>8, <1>9, <2>1
  <2>6. TableInv' /\ Entries' = All(B, m)
    BY <1>1, <1>2, <1>4, <2>2, <2>4, <2>5, TableKept
  <2>7. QED
    BY <1>9, <2>3, <2>6, TableCalls, Zenon DEF Elems
<1>10. CASE array' = Resized(m) /\ answer' = 1 /\ length' = length
  <2>1. Held(All(R, m), length') /\ array' = R /\ answer' \in Nat
    BY <1>3, <1>5, <1>6, <1>10
  <2>2. TableInv' /\ Entries' = Entries
    BY <1>1, <1>2, <1>4, <1>6, <2>1, TableKept
  <2>3. QED
    BY <1>10, <2>2, TableCalls, Zenon DEF Elems
<1>11. QED
  BY <1>2, <1>9, <1>10, Zenon

(* hashset_remove, with or without a resize.                                *)
LEMMA RemoveKeyKept ==
  ASSUME TableInv, NEW k \in HashKeys, RemoveKey(k)
  PROVE  TableInv' /\ Table!Remove(k)
<1>1. /\ array # NoBuckets /\ Found(k).hit
      /\ length' = length - 1 /\ answer' = 0 /\ UNCHANGED config
  BY DEF RemoveKey
<1>2. PICK m \in AfterShrink :
        /\ size' = m
        /\ array' = IF m = size THEN Without(k) ELSE Relocated(Without(k), size, m)
  BY Zenon DEF RemoveKey
<1>3. /\ GoodTable(array, size) /\ Held(Entries, length) /\ size \in Nat \ {0}
      /\ Entries = All(array, size)
  BY <1>1, TableIs
<1>4. Allowed(m) /\ m \in Nat \ {0}
  <2>1. Allowed(size)
    BY DEF TableInv
  <2>2. m = size \/ (m = size \div 2 /\ size > min_size)
    BY <1>2 DEF AfterShrink, ShrinkDue, FACTOR
  <2>3. Allowed(m)
    BY <2>1, <2>2, FitsIn
  <2>4. QED
    BY <2>3, FitsIn
<1>5. PICK A : A = array
  OBVIOUS
<1>6. PICK c : c = CalcIndex(size, k)
  OBVIOUS
<1>7. PICK r : r = BucketFind(A[c], k)
  OBVIOUS
<1>8. PICK W : W = Without(k)
  OBVIOUS
<1>9. Bucket(k) = A[c] /\ Found(k) = r /\ r.hit /\ CutIn(W, A, c, r.index + 1)
  BY <1>1, <1>5, <1>6, <1>7, <1>8, Zenon DEF Bucket, Found, CutIn, Without
<1>10. PICK g : g = A[c][r.index + 1]
  OBVIOUS
<1>11. GoodTable(W, size) /\ All(W, size) = Entries \ {g}
  BY <1>3, <1>5, <1>6, <1>7, <1>9, <1>10, HitRemoved
<1>12. g \in Entries /\ g.key = k /\ k \in KeysOf(Entries) /\ Unique(Entries) /\ DOMAIN Elems = KeysOf(Entries)
  BY <1>1, <1>9, <1>10, FoundHere, Zenon
<1>13. PICK B : B = array'
  OBVIOUS
<1>14. GoodTable(B, m) /\ All(B, m) = Entries \ {g}
  <2>1. CASE m = size
    BY <1>2, <1>8, <1>11, <1>13, <2>1
  <2>2. CASE m # size
    <3>1. B = Relocated(W, size, m)
      BY <1>2, <1>8, <1>13, <2>2
    <3>2. QED
      BY <1>3, <1>4, <1>11, <3>1, RelocatedIs
  <2>3. QED
    BY <2>1, <2>2, Zenon
<1>15. Keyed(All(B, m)) = Reduced(Keyed(Entries), k) /\ KeysOf(All(B, m)) = KeysOf(Entries) \ {k}
  BY <1>12, <1>14, KeyedRemoved, Zenon
<1>16. Held(All(B, m), length')
  BY <1>1, <1>3, <1>12, <1>15, HeldOf, Zenon
<1>17. TableInv' /\ Entries' = All(B, m)
  <2>1. answer' \in Nat
    BY <1>1
  <2>2. QED
    BY <1>1, <1>2, <1>4, <1>13, <1>14, <1>16, <2>1, TableKept
<1>18. QED
  BY <1>1, <1>12, <1>15, <1>17, TableCalls, Zenon DEF Elems

(* hashset_clear, with or without a new array.                              *)
LEMMA ClearTableKept ==
  ASSUME TableInv, ClearTable
  PROVE  TableInv' /\ (Table!Clear \/ array' = NoBuckets)
<1>1. UNCHANGED config /\ min_size' = min_size /\ shrink' = shrink /\ expand' = expand
  BY DEF ClearTable, config
<1>2. CASE array' = NoBuckets /\ answer' = 1 /\ size' = size /\ length' = length
  <2>1. Allowed(size)' <=> Allowed(size)
    BY <1>1, <1>2, Zenon DEF Allowed
  <2>2. answer' \in Nat
    BY <1>2
  <2>3. TableInv'
    BY <1>1, <1>2, <2>1, <2>2, Zenon DEF TableInv
  <2>4. QED
    BY <1>2, <2>3
<1>3. CASE array' = EmptyBuckets(min_size) /\ size' = min_size /\ length' = 0 /\ answer' = 0
  <2>1. min_size \in Nat \ {0} /\ min_size <= MaxSize
    BY TableSizesAssumption DEF TableInv
  <2>2. Allowed(min_size)
    BY <2>1, DoublingsAre DEF Allowed
  <2>3. PICK B : B = EmptyBuckets(min_size)
    OBVIOUS
  <2>4. GoodTable(B, min_size) /\ All(B, min_size) = {}
    BY <2>1, <2>3, EmptyTable
  <2>5. Held({}, 0)
    <3>1. KeysOf({}) = {}
      BY DEF KeysOf
    <3>2. QED
      BY <3>1, FS_EmptySet DEF Held
  <2>6. Held(All(B, min_size), length') /\ array' = B /\ answer' \in Nat
    BY <1>3, <2>3, <2>4, <2>5
  <2>7. TableInv' /\ Entries' = {}
    BY <1>1, <1>3, <2>2, <2>4, <2>6, TableKept
  <2>8. QED
    BY <1>3, <2>7, TableCalls, Zenon DEF Elems
<1>4. QED
  BY <1>2, <1>3, Zenon DEF ClearTable

(* The table at first.                                                      *)
LEMMA TableStart == TableInit => TableInv /\ Table!Init
<1> SUFFICES ASSUME TableInit PROVE TableInv /\ Table!Init
  OBVIOUS
<1>1. min_size \in MinSizes /\ min_size \in Nat \ {0} /\ min_size \in 1..MaxSize /\ min_size <= MaxSize
  BY TableSizesAssumption DEF TableInit
<1>2. PICK B : B = EmptyBuckets(min_size)
  OBVIOUS
<1>3. GoodTable(B, min_size) /\ All(B, min_size) = {}
  BY <1>1, <1>2, EmptyTable
<1>4. Held({}, 0)
  <2>1. KeysOf({}) = {}
    BY DEF KeysOf
  <2>2. QED
    BY <2>1, FS_EmptySet DEF Held
<1>5. array = B /\ size = min_size /\ length = 0 /\ answer = 0 /\ shrink \in Shrinks /\ expand \in Expands
  BY <1>2 DEF TableInit
<1>6. Allowed(min_size)
  BY <1>1, DoublingsAre DEF Allowed
<1>7. TableInv
  <2>1. 0 \in Nat
    OBVIOUS
  <2>2. QED
    BY <1>1, <1>3, <1>4, <1>5, <1>6, <2>1, Zenon DEF TableInv
<1>8. Elems = Keyed({})
  <2>1. array # NoBuckets
    BY <1>1, <1>3, <1>5, TableThere
  <2>2. Entries = All(array, size)
    BY <1>7, <2>1, TableIs
  <2>3. Entries = {}
    BY <1>3, <1>5, <2>2
  <2>4. QED
    BY <2>3 DEF Elems
<1>9. Keyed({}) = [j \in {} |-> 0]
  BY DEF Keyed, KeysOf
<1>10. Table!Init
  BY <1>5, <1>8, <1>9, Zenon DEF Table!Init, Elems, Keyed, KeysOf
<1>11. QED
  BY <1>7, <1>10

(* What a step does.                                                        *)
LEMMA TableStep ==
  ASSUME TableInv, [TableNext]_tablevars
  PROVE  TableInv' /\ (Table!Next \/ array' = NoBuckets \/ (Elems' = Elems /\ answer' = answer))
<1>1. CASE UNCHANGED tablevars
  <2>1. /\ array' = array /\ size' = size /\ length' = length /\ answer' = answer
        /\ min_size' = min_size /\ shrink' = shrink /\ expand' = expand
    BY <1>1 DEF tablevars, config
  <2>2. Allowed(size)' <=> Allowed(size)
    BY <2>1, Zenon DEF Allowed
  <2>3. TableInv'
    BY <2>1, <2>2, Zenon DEF TableInv
  <2>4. Entries' = Entries
    BY <2>1, Zenon DEF Entries
  <2>5. QED
    BY <2>1, <2>3, <2>4, Zenon DEF Elems
<1>2. ASSUME NEW k \in HashKeys, ContainsKey(k) \/ Get(k) \/ RemoveKey(k) \/ RemoveMissing(k)
      PROVE  TableInv' /\ Table!Next
  <2>1. TableInv' /\ (Table!Contains(k) \/ Table!Get(k) \/ Table!Missing(k) \/ Table!Remove(k))
    BY <1>2, ContainsKeyKept, GetKept, RemoveKeyKept, RemoveMissingKept, Zenon
  <2>2. QED
    BY <2>1, Zenon DEF Table!Next
<1>3. ASSUME NEW k \in HashKeys, NEW p \in Payloads, Add(k, p) \/ Replace(k, p)
      PROVE  TableInv' /\ Table!Next
  <2>1. TableInv' /\ (Table!Add(k, p) \/ Table!Fail)
    BY <1>3, AddKept, ReplaceKept, Zenon
  <2>2. QED
    BY <2>1, Zenon DEF Table!Next
<1>4. CASE Count
  <2>1. TableInv' /\ Table!Count
    BY <1>4, CountKept
  <2>2. QED
    BY <2>1, Zenon DEF Table!Next
<1>5. CASE ClearTable
  <2>1. TableInv' /\ (Table!Clear \/ array' = NoBuckets)
    BY <1>5, ClearTableKept
  <2>2. QED
    BY <2>1, Zenon DEF Table!Next
<1>6. QED
  BY <1>1, <1>2, <1>3, <1>4, <1>5, Zenon DEF TableNext

(* The invariant always holds.                                              *)
LEMMA TableInvHolds == TableSpec => []TableInv
<1>1. TableInv /\ [TableNext]_tablevars => TableInv'
  BY TableStep
<1>2. QED
  BY <1>1, TableStart, PTL DEF TableSpec

(* Every element is in the one bucket a lookup with the present size goes   *)
(* to, and every bucket is in ascending order: through every replacement    *)
(* and every resize, finished or given up.                                  *)
THEOREM TablePlaced == TableSpec => []Placed
<1>1. TableInv => Placed
  <2> SUFFICES ASSUME TableInv PROVE Placed
    OBVIOUS
  <2>1. size \in Nat \ {0} /\ size >= min_size /\ length \in Nat /\ answer \in Nat
    BY FitsIn DEF TableInv
  <2>2. ASSUME array # NoBuckets
        PROVE  /\ DOMAIN array = 0..(size - 1)
               /\ \A i \in DOMAIN array :
                    /\ array[i] \in Seq([key : HashKeys, payload : Payloads])
                    /\ \A j \in DOMAIN array[i] : CalcIndex(size, array[i][j].key) = i
                    /\ \A j \in 1..(Len(array[i]) - 1) : array[i][j].key < array[i][j + 1].key
    <3>1. GoodTable(array, size)
      BY <2>2 DEF TableInv
    <3>2. array \in [0..(size - 1) -> Seq(Entry)] /\ DOMAIN array = 0..(size - 1)
      BY <3>1 DEF GoodTable
    <3>3. ASSUME NEW i \in 0..(size - 1)
          PROVE  /\ array[i] \in Seq([key : HashKeys, payload : Payloads])
                 /\ \A j \in DOMAIN array[i] : CalcIndex(size, array[i][j].key) = i
                 /\ \A j \in 1..(Len(array[i]) - 1) : array[i][j].key < array[i][j + 1].key
      <4>1. PICK b \in Seq(Entry) : b = array[i]
        BY <3>2
      <4>2. Rising(b) /\ \A e \in Members(b) : CalcIndex(size, e.key) = i
        BY <3>1, <4>1 DEF GoodTable
      <4>3. DOMAIN b = 1..Len(b) /\ Len(b) \in Nat
        BY LenProperties
      <4>4. \A j \in DOMAIN b : CalcIndex(size, b[j].key) = i
        BY <4>2, <4>3 DEF Members
      <4>5. \A j \in 1..(Len(b) - 1) : b[j].key < b[j + 1].key
        BY <4>2, <4>3 DEF Rising
      <4>6. b \in Seq([key : HashKeys, payload : Payloads])
        BY DEF Entry
      <4>7. QED
        BY <4>1, <4>4, <4>5, <4>6, Zenon
    <3>4. QED
      BY <3>2, <3>3, Zenon
  <2>3. QED
    BY <2>1, <2>2, Zenon DEF Placed, TableTypeOK
<1>2. QED
  BY <1>1, TableInvHolds, PTL

(* Each call is the one the abstract specification names.                   *)
LEMMA TableCallsAreKept == TableInv => TableCallsKept
<1> SUFFICES ASSUME TableInv PROVE TableCallsKept
  OBVIOUS
<1>1. ASSUME NEW k \in HashKeys
      PROVE  /\ \A p \in Payloads : /\ Add(k, p) => Table!Add(k, p) \/ Table!Fail
                                    /\ Replace(k, p) => Table!Add(k, p)
             /\ RemoveKey(k) => Table!Remove(k)
             /\ Get(k) => Table!Get(k) \/ Table!Missing(k)
             /\ RemoveMissing(k) => Table!Missing(k)
             /\ ContainsKey(k) => Table!Contains(k)
  BY AddKept, ReplaceKept, RemoveKeyKept, GetKept, RemoveMissingKept, ContainsKeyKept, Zenon
<1>2. (Count => Table!Count) /\ (ClearTable => Table!Clear \/ array' = NoBuckets)
  BY CountKept, ClearTableKept, Zenon
<1>3. QED
  BY <1>1, <1>2, Zenon DEF TableCallsKept

(* Whatever the buckets, every call finds, replaces, adds or removes the    *)
(* element it is named for and no other, and one that reports an error      *)
(* leaves the elements alone.                                               *)
THEOREM TableImplementsKeyedSet == TableSpec => ImplementsKeyedSet
<1>1. TableInv /\ [TableNext]_tablevars => [Table!Next \/ array' = NoBuckets]_<<Table!vars>>
  <2>1. Elems' = Elems /\ answer' = answer => UNCHANGED <<Table!vars>>
    BY Zenon DEF Table!vars, Elems, Keyed, KeysOf
  <2>2. QED
    BY <2>1, TableStep, Zenon
<1>2. TableInv /\ [TableNext]_tablevars => [TableCallsKept]_tablevars
  BY TableCallsAreKept
<1>3. QED
  BY <1>1, <1>2, TableStart, TableInvHolds, PTL DEF TableSpec, ImplementsKeyedSet
=============================================================================
