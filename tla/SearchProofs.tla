---------------------------- MODULE SearchProofs -----------------------------
(***************************************************************************)
(* Theorems about the searches, for every set of states, every graph over  *)
(* them with or without cycles, every heuristic, every order of the states *)
(* and any failures: what an exhausted search has found, in which order    *)
(* states and goals come, and that every step does what the abstract       *)
(* search says.                                                            *)
(***************************************************************************)
EXTENDS Search, SequenceTheorems, FiniteSetTheorems, WellFoundedInduction, TLAPS

(* Induction over a set: a least number outside it would follow one inside. *)
LEMMA Induction ==
  ASSUME NEW S, 0 \in S, \A n \in Nat : n \in S => n + 1 \in S
  PROVE  Nat \subseteq S
<1> DEFINE T == Nat \ S
<1>1. SUFFICES ASSUME T # {} PROVE FALSE
  OBVIOUS
<1>2. PICK m \in T : \A n \in T : <<n, m>> \notin OpToRel(<, Nat)
  BY <1>1, WFMin, NatLessThanWellFounded, Zenon
<1>3. \A n \in T : ~(n < m)
  BY <1>2 DEF OpToRel
<1>4. m - 1 \in Nat /\ m - 1 \in S
  <2>1. m \in Nat /\ m # 0
    OBVIOUS
  <2>2. QED
    BY <1>3, <2>1
<1>5. QED
  BY <1>4

(* A recursion over the naturals up to n: g gives the value for i from the  *)
(* one for i - 1.                                                           *)
Recursion(f, n, base, g) == f[0] = base /\ \A i \in 1..n : f[i] = g[<<i, f[i - 1]>>]

LEMMA RecursionDefined ==
  ASSUME NEW V, NEW base \in V, NEW n \in Nat, NEW g \in [(1..n) \X V -> V]
  PROVE  \E f \in [0..n -> V] : Recursion(f, n, base, g)
<1> DEFINE S == {m \in Nat : m <= n => \E f \in [0..m -> V] : Recursion(f, m, base, g)}
<1>1. 0 \in S
  <2> DEFINE f == [i \in 0..0 |-> base]
  <2>1. f \in [0..0 -> V] /\ f[0] = base
    OBVIOUS
  <2> HIDE DEF f
  <2>2. Recursion(f, 0, base, g)
    BY <2>1 DEF Recursion
  <2>3. QED
    BY <2>1, <2>2
<1>2. ASSUME NEW m \in Nat, m \in S PROVE m + 1 \in S
  <2>1. CASE m + 1 > n
    BY <2>1
  <2>2. CASE m + 1 <= n
    <3>1. PICK h \in [0..m -> V] : Recursion(h, m, base, g)
      BY <1>2, <2>2
    <3>2. h[m] \in V /\ m + 1 \in 1..n
      BY <2>2
    <3>3. PICK v \in V : v = g[<<m + 1, h[m]>>]
      BY <3>2
    <3> DEFINE f == [i \in 0..(m + 1) |-> IF i = m + 1 THEN v ELSE h[i]]
    <3>4. f \in [0..(m + 1) -> V] /\ f[m + 1] = v /\ \A i \in 0..m : f[i] = h[i]
      OBVIOUS
    <3> HIDE DEF f
    <3>5. ASSUME NEW i \in 1..(m + 1) PROVE f[i] = g[<<i, f[i - 1]>>]
      <4>1. CASE i = m + 1
        <5>1. f[i - 1] = h[m]
          BY <3>4, <4>1
        <5>2. QED
          BY <3>3, <3>4, <4>1, <5>1
      <4>2. CASE i \in 1..m
        <5>1. f[i] = h[i] /\ f[i - 1] = h[i - 1]
          BY <3>4, <4>2
        <5>2. h[i] = g[<<i, h[i - 1]>>]
          BY <3>1, <4>2 DEF Recursion
        <5>3. QED
          BY <5>1, <5>2
      <4>3. QED
        BY <4>1, <4>2
    <3>6. f[0] = base
      BY <3>1, <3>4 DEF Recursion
    <3>7. Recursion(f, m + 1, base, g)
      BY <3>5, <3>6 DEF Recursion
    <3>8. \E k \in [0..(m + 1) -> V] : Recursion(k, m + 1, base, g)
      BY <3>4, <3>7, Zenon
    <3>9. m + 1 \in Nat
      OBVIOUS
    <3>10. QED
      BY <3>8, <3>9, Zenon
  <2>3. QED
    BY <2>1, <2>2
<1> HIDE DEF S
<1>3. n \in S
  BY <1>1, <1>2, Induction
<1>4. QED
  BY <1>3 DEF S
-----------------------------------------------------------------------------
(* The elements of a sequence, and of what the searches make of sequences.  *)
LEMMA ElementsIs ==
  ASSUME NEW T, NEW s \in Seq(T)
  PROVE  /\ ToSet(s) \subseteq T
         /\ \A x : x \in ToSet(s) <=> \E i \in 1..Len(s) : s[i] = x
BY DEF ToSet

LEMMA FewElements == ToSet(<<>>) = {} /\ \A x : ToSet(<<x>>) = {x}
BY DEF ToSet

LEMMA AppendElements ==
  ASSUME NEW T, NEW s \in Seq(T), NEW x \in T
  PROVE  ToSet(Append(s, x)) = ToSet(s) \cup {x}
<1>1. /\ Append(s, x) \in Seq(T) /\ Len(s) \in Nat /\ Len(Append(s, x)) = Len(s) + 1
      /\ \A i \in 1..Len(s) : Append(s, x)[i] = s[i]
      /\ Append(s, x)[Len(s) + 1] = x
  BY AppendProperties, LenProperties
<1>2. PICK t \in Seq(T) : t = Append(s, x)
  BY <1>1
<1>3. \A y : y \in ToSet(t) <=> y \in ToSet(s) \/ y = x
  <2>1. \A y : y \in ToSet(t) <=> \E i \in 1..(Len(s) + 1) : t[i] = y
    <3>1. \A y : y \in ToSet(t) <=> \E i \in 1..Len(t) : t[i] = y
      BY ElementsIs
    <3>2. Len(t) = Len(s) + 1
      BY <1>1, <1>2, Zenon
    <3>3. QED
      BY <3>1, <3>2, Zenon
  <2>2. \A y : y \in ToSet(s) <=> \E i \in 1..Len(s) : s[i] = y
    BY ElementsIs
  <2>3. QED
    BY <1>1, <1>2, <2>1, <2>2
<1>4. QED
  BY <1>2, <1>3

LEMMA ConcatElements ==
  ASSUME NEW T, NEW s \in Seq(T), NEW t \in Seq(T)
  PROVE  ToSet(s \o t) = ToSet(s) \cup ToSet(t)
<1>1. PICK u \in Seq(T) : /\ u = s \o t /\ Len(u) = Len(s) + Len(t)
                          /\ \A i \in 1..(Len(s) + Len(t)) :
                               u[i] = IF i <= Len(s) THEN s[i] ELSE t[i - Len(s)]
  <2>1. /\ s \o t \in Seq(T) /\ Len(s \o t) = Len(s) + Len(t)
        /\ \A i \in 1..(Len(s) + Len(t)) :
             (s \o t)[i] = IF i <= Len(s) THEN s[i] ELSE t[i - Len(s)]
    BY ConcatProperties
  <2>2. QED
    BY <2>1, Zenon
<1>2. Len(s) \in Nat /\ Len(t) \in Nat
  BY LenProperties
<1>3. /\ \A x : x \in ToSet(u) <=> \E i \in 1..(Len(s) + Len(t)) : u[i] = x
      /\ \A x : x \in ToSet(s) <=> \E i \in 1..Len(s) : s[i] = x
      /\ \A x : x \in ToSet(t) <=> \E i \in 1..Len(t) : t[i] = x
  BY <1>1, ElementsIs
<1>4. ASSUME NEW x, x \in ToSet(u) PROVE x \in ToSet(s) \cup ToSet(t)
  <2>1. PICK i \in 1..(Len(s) + Len(t)) : u[i] = x
    BY <1>3, <1>4
  <2>2. CASE i <= Len(s)
    BY <1>1, <1>2, <1>3, <2>1, <2>2
  <2>3. CASE i > Len(s)
    <3>1. i - Len(s) \in 1..Len(t) /\ t[i - Len(s)] = x
      BY <1>1, <1>2, <2>1, <2>3
    <3>2. QED
      BY <1>3, <3>1
  <2>4. QED
    BY <1>2, <2>2, <2>3
<1>5. ASSUME NEW x, x \in ToSet(s) PROVE x \in ToSet(u)
  <2>1. PICK i \in 1..Len(s) : s[i] = x
    BY <1>3, <1>5
  <2>2. i \in 1..(Len(s) + Len(t)) /\ u[i] = x
    BY <1>1, <1>2, <2>1
  <2>3. QED
    BY <1>3, <2>2
<1>6. ASSUME NEW x, x \in ToSet(t) PROVE x \in ToSet(u)
  <2>1. PICK i \in 1..Len(t) : t[i] = x
    BY <1>3, <1>6
  <2>2. Len(s) + i \in 1..(Len(s) + Len(t)) /\ u[Len(s) + i] = x
    BY <1>1, <1>2, <2>1
  <2>3. QED
    BY <1>3, <2>2
<1>7. QED
  BY <1>1, <1>4, <1>5, <1>6

LEMMA ReverseElements ==
  ASSUME NEW T, NEW s \in Seq(T)
  PROVE  Reverse(s) \in Seq(T) /\ ToSet(Reverse(s)) = ToSet(s)
<1>1. Len(s) \in Nat /\ \A i \in 1..Len(s) : s[i] \in T /\ (Len(s) - i) + 1 \in 1..Len(s)
  BY LenProperties, ElementOfSeq
<1>2. Reverse(s) \in [1..Len(s) -> T] /\ \A i \in 1..Len(s) : Reverse(s)[i] = s[(Len(s) - i) + 1]
  BY <1>1 DEF Reverse
<1>3. Reverse(s) \in Seq(T) /\ Len(Reverse(s)) = Len(s)
  <2>1. Reverse(s) \in Seq(T)
    BY <1>1, <1>2, SeqDef
  <2>2. QED
    BY <1>1, <1>2, <2>1, LenProperties
<1>4. PICK r \in Seq(T) : r = Reverse(s)
  BY <1>3
<1>5. /\ \A x : x \in ToSet(r) <=> \E i \in 1..Len(s) : r[i] = x
      /\ \A x : x \in ToSet(s) <=> \E i \in 1..Len(s) : s[i] = x
  BY <1>3, <1>4, ElementsIs
<1>6. \A i \in 1..Len(s) : r[i] = s[(Len(s) - i) + 1] /\ r[(Len(s) - i) + 1] = s[i]
  BY <1>1, <1>2, <1>4
<1>7. \A x : x \in ToSet(r) <=> x \in ToSet(s)
  BY <1>1, <1>5, <1>6
<1>8. QED
  BY <1>3, <1>4, <1>7

LEMMA HeadElements ==
  ASSUME NEW T, NEW s \in Seq(T), s # <<>>
  PROVE  /\ Head(s) \in T /\ Tail(s) \in Seq(T) /\ Len(Tail(s)) = Len(s) - 1
         /\ Head(s) = s[1] /\ \A i \in 1..Len(Tail(s)) : Tail(s)[i] = s[i + 1]
         /\ ToSet(s) = ToSet(Tail(s)) \cup {Head(s)}
<1>1. /\ Head(s) \in T /\ Tail(s) \in Seq(T) /\ Len(Tail(s)) = Len(s) - 1 /\ Head(s) = s[1]
      /\ \A i \in 1..Len(Tail(s)) : Tail(s)[i] = s[i + 1] /\ Len(s) \in Nat \ {0}
  BY HeadTailProperties, EmptySeq
<1>2. Len(s) \in Nat \ {0}
  BY EmptySeq
<1>3. PICK t \in Seq(T) : t = Tail(s)
  BY <1>1
<1>4. /\ \A x : x \in ToSet(s) <=> \E i \in 1..Len(s) : s[i] = x
      /\ \A x : x \in ToSet(t) <=> \E i \in 1..(Len(s) - 1) : s[i + 1] = x
  <2>1. /\ \A x : x \in ToSet(s) <=> \E i \in 1..Len(s) : s[i] = x
        /\ \A x : x \in ToSet(t) <=> \E i \in 1..Len(t) : t[i] = x
    BY ElementsIs
  <2>2. Len(t) = Len(s) - 1 /\ \A i \in 1..Len(t) : t[i] = s[i + 1]
    BY <1>1, <1>3, Zenon
  <2>3. QED
    BY <2>1, <2>2
<1>5. \A x : x \in ToSet(s) <=> x \in ToSet(t) \/ x = s[1]
  <2>1. ASSUME NEW x, x \in ToSet(s), x # s[1] PROVE x \in ToSet(t)
    <3>1. PICK i \in 1..Len(s) : s[i] = x
      BY <1>4, <2>1
    <3>2. i - 1 \in 1..(Len(s) - 1) /\ s[(i - 1) + 1] = x
      BY <1>2, <2>1, <3>1
    <3>3. QED
      BY <1>4, <3>2
  <2>2. ASSUME NEW x, x \in ToSet(t) PROVE x \in ToSet(s)
    BY <1>2, <1>4, <2>2
  <2>3. s[1] \in ToSet(s)
    BY <1>2, <1>4
  <2>4. QED
    BY <2>1, <2>2, <2>3
<1>6. QED
  BY <1>1, <1>3, <1>5

LEMMA LastElements ==
  ASSUME NEW T, NEW s \in Seq(T), s # <<>>
  PROVE  /\ Last(s) \in T /\ Front(s) \in Seq(T) /\ Len(Front(s)) = Len(s) - 1
         /\ \A i \in 1..Len(Front(s)) : Front(s)[i] = s[i]
         /\ ToSet(s) = ToSet(Front(s)) \cup {Last(s)}
<1>1. Len(s) \in Nat \ {0} /\ \A i \in 1..Len(s) : s[i] \in T
  BY EmptySeq, ElementOfSeq
<1>2. PICK n \in Nat : n = Len(s) - 1 /\ n + 1 = Len(s)
  BY <1>1
<1>3. /\ SubSeq(s, 1, n) \in Seq(T) /\ Len(SubSeq(s, 1, n)) = n
      /\ \A i \in 1..n : SubSeq(s, 1, n)[i] = s[i]
  BY <1>1, <1>2, SubSeqProperties
<1>4. PICK t \in Seq(T) : t = Front(s) /\ Len(t) = n /\ \A i \in 1..n : t[i] = s[i]
  BY <1>2, <1>3 DEF Front
<1>5. Last(s) = s[n + 1] /\ s[n + 1] \in T
  BY <1>1, <1>2 DEF Last
<1>6. /\ \A x : x \in ToSet(s) <=> \E i \in 1..(n + 1) : s[i] = x
      /\ \A x : x \in ToSet(t) <=> \E i \in 1..n : s[i] = x
  BY <1>2, <1>4, ElementsIs
<1>7. \A x : x \in ToSet(s) <=> x \in ToSet(t) \/ x = s[n + 1]
  BY <1>6
<1>8. QED
  BY <1>2, <1>4, <1>5, <1>7

(* A part of a sequence has no others. *)
LEMMA PrefixElements ==
  ASSUME NEW T, NEW s \in Seq(T), NEW n \in 0..Len(s)
  PROVE  SubSeq(s, 1, n) \in Seq(T) /\ ToSet(SubSeq(s, 1, n)) \subseteq ToSet(s)
<1>1. Len(s) \in Nat /\ \A i \in 1..Len(s) : s[i] \in T
  BY LenProperties, ElementOfSeq
<1>2. PICK t \in Seq(T) : t = SubSeq(s, 1, n) /\ Len(t) = n /\ \A i \in 1..n : t[i] = s[i]
  <2>1. /\ SubSeq(s, 1, n) \in Seq(T) /\ Len(SubSeq(s, 1, n)) = n
        /\ \A i \in 1..n : SubSeq(s, 1, n)[i] = s[i]
    BY <1>1, SubSeqProperties
  <2>2. QED
    BY <2>1, Zenon
<1>3. ASSUME NEW x \in ToSet(t) PROVE x \in ToSet(s)
  <2>1. PICK i \in 1..n : t[i] = x
    <3>1. \E i \in 1..Len(t) : t[i] = x
      BY <1>3, ElementsIs
    <3>2. QED
      BY Zenon, <1>2, <3>1
  <2>2. i \in 1..Len(s)
    BY <1>1, <2>1
  <2>3. s[i] = x
    BY Zenon, <1>2, <2>1
  <2>4. QED
    BY <2>2, <2>3, ElementsIs
<1>4. QED
  BY <1>2, <1>3
-----------------------------------------------------------------------------
(* The order of the frontier of the best first search. *)
Falling(h, s) == \A i, j \in 1..Len(s) : i < j => h[s[i]] >= h[s[j]]

LEMMA FallingConcat ==
  ASSUME NEW T, NEW h \in [T -> Int], NEW s \in Seq(T), NEW t \in Seq(T),
         Falling(h, s), Falling(h, t), \A x \in ToSet(s), y \in ToSet(t) : h[x] >= h[y]
  PROVE  Falling(h, s \o t)
<1>1. PICK u \in Seq(T) : /\ u = s \o t /\ Len(u) = Len(s) + Len(t)
                          /\ \A i \in 1..(Len(s) + Len(t)) :
                               u[i] = IF i <= Len(s) THEN s[i] ELSE t[i - Len(s)]
  <2>1. /\ s \o t \in Seq(T) /\ Len(s \o t) = Len(s) + Len(t)
        /\ \A i \in 1..(Len(s) + Len(t)) :
             (s \o t)[i] = IF i <= Len(s) THEN s[i] ELSE t[i - Len(s)]
    BY ConcatProperties
  <2>2. QED
    BY <2>1, Zenon
<1>2. PICK m \in Nat, n \in Nat : m = Len(s) /\ n = Len(t)
  BY LenProperties
<1>3. ASSUME NEW i \in 1..(m + n), NEW j \in 1..(m + n), i < j PROVE h[u[i]] >= h[u[j]]
  <2>1. CASE j <= m
    <3>1. i \in 1..m /\ j \in 1..m /\ u[i] = s[i] /\ u[j] = s[j]
      BY <1>1, <1>2, <1>3, <2>1
    <3>2. QED
      BY <1>2, <1>3, <3>1 DEF Falling
  <2>2. CASE i > m
    <3>1. /\ i - m \in 1..n /\ j - m \in 1..n /\ i - m < j - m
          /\ u[i] = t[i - m] /\ u[j] = t[j - m]
      BY <1>1, <1>2, <1>3, <2>2
    <3>2. h[t[i - m]] >= h[t[j - m]]
      BY <1>2, <3>1 DEF Falling
    <3>3. QED
      BY <3>1, <3>2
  <2>3. CASE i <= m /\ j > m
    <3>1. i \in 1..m /\ j - m \in 1..n /\ u[i] = s[i] /\ u[j] = t[j - m]
      BY <1>1, <1>2, <1>3, <2>3
    <3>2. s[i] \in ToSet(s) /\ t[j - m] \in ToSet(t)
      BY <1>2, <3>1, ElementsIs
    <3>3. QED
      BY <3>1, <3>2
  <2>4. QED
    BY <1>3, <2>1, <2>2, <2>3
<1>4. QED
  BY <1>1, <1>2, <1>3 DEF Falling

LEMMA FallingAppend ==
  ASSUME NEW T, NEW h \in [T -> Int], NEW s \in Seq(T), NEW x \in T,
         Falling(h, s), \A y \in ToSet(s) : h[y] >= h[x]
  PROVE  Falling(h, Append(s, x))
<1>1. <<x>> \in Seq(T) /\ Append(s, x) = s \o <<x>> /\ ToSet(<<x>>) = {x}
  BY AppendIsConcat, FewElements
<1>2. Falling(h, <<x>>)
  BY DEF Falling
<1>3. QED
  BY <1>1, <1>2, FallingConcat

LEMMA FallingFront ==
  ASSUME NEW T, NEW s \in Seq(T), s # <<>>, NEW h, Falling(h, s)
  PROVE  Falling(h, Front(s))
<1>1. /\ Len(Front(s)) = Len(s) - 1 /\ Len(s) \in Nat
      /\ \A i \in 1..Len(Front(s)) : Front(s)[i] = s[i]
  BY LastElements, LenProperties
<1>2. QED
  BY <1>1 DEF Falling

(* What the search takes from the far end is as good as any. *)
LEMMA FallingLast ==
  ASSUME NEW T, NEW h \in [T -> Int], NEW s \in Seq(T), s # <<>>, Falling(h, s), NEW x \in ToSet(s)
  PROVE  h[x] >= h[Last(s)]
<1>1. Len(s) \in Nat \ {0} /\ \A i \in 1..Len(s) : s[i] \in T
  BY EmptySeq, ElementOfSeq
<1>2. PICK i \in 1..Len(s) : s[i] = x
  BY ElementsIs
<1>3. CASE i = Len(s)
  <2>1. h[x] \in Int /\ x = Last(s)
    BY <1>1, <1>2, <1>3 DEF Last
  <2>2. QED
    BY <2>1
<1>4. CASE i < Len(s)
  BY <1>1, <1>2, <1>4 DEF Falling, Last
<1>5. QED
  BY <1>1, <1>3, <1>4
-----------------------------------------------------------------------------
KeptBy(f, s, S) ==
  f = [i \in 0..Len(s) |-> IF i = 0 THEN <<>>
                           ELSE IF s[i] \in S THEN Append(f[i - 1], s[i]) ELSE f[i - 1]]

LEMMA KeptDefined ==
  ASSUME NEW T, NEW s \in Seq(T), NEW S
  PROVE  \E f : KeptBy(f, s, S)
<1> DEFINE g == [p \in (1..Len(s)) \X Seq(T) |->
                   IF s[p[1]] \in S THEN Append(p[2], s[p[1]]) ELSE p[2]]
<1>1. Len(s) \in Nat /\ \A i \in 1..Len(s) : s[i] \in T
  BY LenProperties, ElementOfSeq
<1>2. \A i \in 1..Len(s), r \in Seq(T) :
        /\ g[<<i, r>>] = IF s[i] \in S THEN Append(r, s[i]) ELSE r
        /\ g[<<i, r>>] \in Seq(T)
  BY <1>1
<1>3. g \in [(1..Len(s)) \X Seq(T) -> Seq(T)]
  BY <1>1
<1> HIDE DEF g
<1>4. PICK f \in [0..Len(s) -> Seq(T)] : Recursion(f, Len(s), <<>>, g)
  <2>1. <<>> \in Seq(T)
    OBVIOUS
  <2>2. QED
    BY <1>1, <1>3, <2>1, RecursionDefined
<1>5. ASSUME NEW i \in 0..Len(s)
      PROVE  f[i] = IF i = 0 THEN <<>>
                    ELSE IF s[i] \in S THEN Append(f[i - 1], s[i]) ELSE f[i - 1]
  <2>1. CASE i = 0
    BY <1>4, <2>1 DEF Recursion
  <2>2. CASE i # 0
    <3>1. i \in 1..Len(s) /\ i - 1 \in 0..Len(s)
      BY <1>1, <2>2
    <3>2. f[i] = g[<<i, f[i - 1]>>] /\ f[i - 1] \in Seq(T)
      BY <1>4, <3>1 DEF Recursion
    <3>3. QED
      BY <1>2, <2>2, <3>1, <3>2
  <2>3. QED
    BY <2>1, <2>2
<1>6. f = [i \in 0..Len(s) |-> f[i]]
  OBVIOUS
<1>7. KeptBy(f, s, S)
  BY <1>5, <1>6 DEF KeptBy
<1>8. QED
  BY <1>7

(* Those that are kept stay in order. *)
LEMMA KeptIs ==
  ASSUME NEW T, NEW s \in Seq(T), NEW S, NEW h \in [T -> Int]
  PROVE  /\ Kept(s, S) \in Seq(T) /\ ToSet(Kept(s, S)) = ToSet(s) \cap S
         /\ Falling(h, s) => Falling(h, Kept(s, S))
<1> DEFINE f == CHOOSE k : k = [i \in 0..Len(s) |->
                   IF i = 0 THEN <<>>
                   ELSE IF s[i] \in S THEN Append(k[i - 1], s[i]) ELSE k[i - 1]]
<1>1. KeptBy(f, s, S)
  <2>1. \E k : KeptBy(k, s, S)
    BY KeptDefined
  <2>2. QED
    BY <2>1 DEF KeptBy
<1>2. Kept(s, S) = f[Len(s)]
  BY DEF Kept
<1> HIDE DEF f
<1>3. Len(s) \in Nat /\ \A i \in 1..Len(s) : s[i] \in T
  BY LenProperties, ElementOfSeq
<1>4. /\ f[0] = <<>>
      /\ \A i \in 1..Len(s) : f[i] = IF s[i] \in S THEN Append(f[i - 1], s[i]) ELSE f[i - 1]
  <2>1. ASSUME NEW i \in 0..Len(s)
        PROVE  f[i] = IF i = 0 THEN <<>>
                      ELSE IF s[i] \in S THEN Append(f[i - 1], s[i]) ELSE f[i - 1]
    BY <1>1, Zenon DEF KeptBy
  <2>2. QED
    BY <1>3, <2>1
<1> DEFINE Good(i) == i <= Len(s) => /\ f[i] \in Seq(T)
                                     /\ \A x : x \in ToSet(f[i]) <=> x \in S /\ \E j \in 1..i : s[j] = x
                                     /\ Falling(h, s) => Falling(h, f[i])
           G == {i \in Nat : Good(i)}
<1>5. Good(0)
  <2>1. Falling(h, <<>>) /\ <<>> \in Seq(T)
    BY DEF Falling
  <2>2. QED
    BY <1>4, <2>1, FewElements
<1>6. ASSUME NEW i \in Nat, Good(i) PROVE Good(i + 1)
  <2> SUFFICES ASSUME i + 1 <= Len(s)
               PROVE  /\ f[i + 1] \in Seq(T)
                      /\ \A x : x \in ToSet(f[i + 1]) <=> x \in S /\ \E j \in 1..(i + 1) : s[j] = x
                      /\ Falling(h, s) => Falling(h, f[i + 1])
    OBVIOUS
  <2>1. i + 1 \in 1..Len(s) /\ s[i + 1] \in T
    BY <1>3
  <2>2. f[i + 1] = IF s[i + 1] \in S THEN Append(f[i], s[i + 1]) ELSE f[i]
    BY <1>4, <2>1
  <2>3. /\ f[i] \in Seq(T)
        /\ \A x : x \in ToSet(f[i]) <=> x \in S /\ \E j \in 1..i : s[j] = x
        /\ Falling(h, s) => Falling(h, f[i])
    BY <1>3, <1>6
  <2>4. \A x : (\E j \in 1..(i + 1) : s[j] = x) <=> (\E j \in 1..i : s[j] = x) \/ x = s[i + 1]
    OBVIOUS
  <2>5. CASE s[i + 1] \notin S
    BY <2>2, <2>3, <2>4, <2>5
  <2>6. CASE s[i + 1] \in S
    <3>1. f[i + 1] = Append(f[i], s[i + 1])
      BY <2>2, <2>6
    <3>2. f[i + 1] \in Seq(T) /\ ToSet(f[i + 1]) = ToSet(f[i]) \cup {s[i + 1]}
      BY <2>1, <2>3, <3>1, AppendProperties, AppendElements
    <3>3. ASSUME Falling(h, s) PROVE Falling(h, f[i + 1])
      <4>1. ASSUME NEW y \in ToSet(f[i]) PROVE h[y] >= h[s[i + 1]]
        <5>1. PICK j \in 1..i : s[j] = y
          BY <2>3, <4>1
        <5>2. j \in 1..Len(s) /\ j < i + 1
          BY <1>3
        <5>3. QED
          BY <2>1, <3>3, <5>1, <5>2 DEF Falling
      <4>2. f[i] \in Seq(T) /\ s[i + 1] \in T /\ Falling(h, f[i])
        BY <2>1, <2>3, <3>3
      <4>3. Falling(h, Append(f[i], s[i + 1]))
        BY Zenon, <4>1, <4>2, FallingAppend
      <4>4. QED
        BY <3>1, <4>3
    <3>4. QED
      BY <2>3, <2>4, <2>6, <3>2, <3>3
  <2>7. QED
    BY <2>5, <2>6
<1> HIDE DEF Good
<1>7. Nat \subseteq G
  <2>1. 0 \in G /\ \A i \in Nat : i \in G => i + 1 \in G
    BY <1>5, <1>6
  <2> HIDE DEF G
  <2>2. QED
    BY <2>1, Induction
<1>8. Good(Len(s))
  BY <1>3, <1>7
<1>9. \A x : x \in ToSet(s) <=> \E j \in 1..Len(s) : s[j] = x
  BY ElementsIs
<1>10. QED
  BY <1>2, <1>3, <1>8, <1>9 DEF Good

-----------------------------------------------------------------------------
LEMMA ProblemIs ==
  ASSUME problem \in Problems
  PROVE  /\ problem.rank \in [States -> Int]
         /\ \A s \in States : Children(s) \in Seq(States) /\ problem.rank[s] \in Int
         /\ \A s : IsGoal(s) <=> problem.heuristic[s] = 0
BY ProblemsAssumption DEF Children, IsGoal

(* A state is put in its place in the order. *)
LEMMA QueuedIs ==
  ASSUME problem \in Problems, NEW rest \in Seq(States), NEW s \in States
  PROVE  /\ Queued(rest, s) \in Seq(States) /\ ToSet(Queued(rest, s)) = ToSet(rest) \cup {s}
         /\ Falling(problem.rank, rest) => Falling(problem.rank, Queued(rest, s))
<1> DEFINE h == problem.rank
           A == {t \in States : h[t] > h[s]}
           B == {t \in States : h[t] <= h[s]}
           front == Kept(rest, A)
           back == Kept(rest, B)
<1>1. h \in [States -> Int] /\ h[s] \in Int /\ \A t \in States : h[t] \in Int
  BY ProblemIs
<1>2. /\ front \in Seq(States) /\ ToSet(front) = ToSet(rest) \cap A
      /\ Falling(h, rest) => Falling(h, front)
  BY <1>1, KeptIs
<1>3. /\ back \in Seq(States) /\ ToSet(back) = ToSet(rest) \cap B
      /\ Falling(h, rest) => Falling(h, back)
  BY <1>1, KeptIs
<1>4. Queued(rest, s) = front \o <<s>> \o back
  BY DEF Queued
<1>5. A \cup B = States /\ ToSet(rest) \subseteq States
  BY <1>1, ElementsIs
<1>6. /\ \A x \in A : x \in States /\ h[x] >= h[s] /\ h[x] \in Int
      /\ \A x \in B : x \in States /\ h[x] <= h[s] /\ h[x] \in Int
  BY <1>1
<1> HIDE DEF h, A, B, front, back
<1>7. <<s>> \in Seq(States) /\ ToSet(<<s>>) = {s}
  BY FewElements
<1>8. /\ front \o <<s>> \in Seq(States) /\ front \o <<s>> \o back \in Seq(States)
      /\ ToSet(front \o <<s>>) = ToSet(front) \cup {s}
  <2>1. PICK one \in Seq(States) : one = <<s>>
    BY <1>7
  <2>2. front \o one \in Seq(States) /\ ToSet(front \o one) = ToSet(front) \cup ToSet(one)
    <3>1. front \in Seq(States)
      BY <1>2
    <3>2. front \o one \in Seq(States)
      BY Zenon, <3>1, ConcatProperties
    <3>3. ToSet(front \o one) = ToSet(front) \cup ToSet(one)
      BY Zenon, <3>1, ConcatElements
    <3>4. QED
      BY Zenon, <3>2, <3>3
  <2>3. PICK u \in Seq(States) : u = front \o one
    BY <2>2
  <2>4. u \o back \in Seq(States)
    BY <1>3, ConcatProperties, Zenon
  <2>5. u = front \o <<s>> /\ u \in Seq(States)
    BY Zenon, <2>1, <2>3
  <2>6. ToSet(u) = ToSet(front) \cup {s}
    BY Zenon, <1>7, <2>1, <2>2, <2>3
  <2>7. QED
    BY Zenon, <2>4, <2>5, <2>6
<1>9. ToSet(front \o <<s>> \o back) = ToSet(front) \cup {s} \cup ToSet(back)
  <2>1. PICK u \in Seq(States) : u = front \o <<s>>
    BY <1>8
  <2>2. ToSet(u \o back) = ToSet(u) \cup ToSet(back)
    <3>1. back \in Seq(States)
      BY <1>3
    <3>2. QED
      BY Zenon, <3>1, ConcatElements
  <2>3. ToSet(u) = ToSet(front) \cup {s}
    BY Zenon, <1>8, <2>1
  <2>4. QED
    BY Zenon, <2>1, <2>2, <2>3
<1>10. ASSUME Falling(h, rest) PROVE Falling(h, front \o <<s>> \o back)
  <2>1. Falling(h, <<s>>) /\ Falling(h, front) /\ Falling(h, back)
    BY <1>2, <1>3, <1>10 DEF Falling
  <2>2. \A x \in ToSet(front), y \in ToSet(<<s>>) : h[x] >= h[y]
    BY <1>2, <1>6, <1>7
  <2>3. Falling(h, front \o <<s>>)
    BY <1>1, <1>2, <1>7, <2>1, <2>2, FallingConcat
  <2>4. \A x \in ToSet(front \o <<s>>), y \in ToSet(back) : h[x] >= h[y]
    <3>1. \A x \in ToSet(front \o <<s>>) : h[x] >= h[s] /\ h[x] \in Int
      BY <1>1, <1>2, <1>6, <1>8
    <3>2. \A y \in ToSet(back) : h[y] <= h[s] /\ h[y] \in Int
      BY <1>3, <1>6
    <3>3. QED
      BY <1>1, <3>1, <3>2
  <2>5. QED
    BY <1>1, <1>3, <1>8, <2>1, <2>3, <2>4, FallingConcat
<1>11. QED
  BY <1>2, <1>3, <1>4, <1>5, <1>8, <1>9, <1>10 DEF h

QueuedBy(f, rest, s) ==
  f = [i \in 0..Len(s) |-> IF i = 0 THEN rest ELSE Queued(f[i - 1], s[i])]

LEMMA QueuedDefined ==
  ASSUME problem \in Problems, NEW rest \in Seq(States), NEW s \in Seq(States)
  PROVE  \E f : QueuedBy(f, rest, s)
<1> DEFINE g == [p \in (1..Len(s)) \X Seq(States) |-> Queued(p[2], s[p[1]])]
<1>1. Len(s) \in Nat /\ \A i \in 1..Len(s) : s[i] \in States
  BY LenProperties, ElementOfSeq
<1>2. \A i \in 1..Len(s), r \in Seq(States) : g[<<i, r>>] = Queued(r, s[i]) /\ g[<<i, r>>] \in Seq(States)
  BY <1>1, QueuedIs
<1>3. g \in [(1..Len(s)) \X Seq(States) -> Seq(States)]
  BY <1>1, QueuedIs
<1> HIDE DEF g
<1>4. PICK f \in [0..Len(s) -> Seq(States)] : Recursion(f, Len(s), rest, g)
  BY <1>1, <1>3, RecursionDefined
<1>5. ASSUME NEW i \in 0..Len(s)
      PROVE  f[i] = IF i = 0 THEN rest ELSE Queued(f[i - 1], s[i])
  <2>1. CASE i = 0
    BY <1>4, <2>1 DEF Recursion
  <2>2. CASE i # 0
    <3>1. i \in 1..Len(s) /\ i - 1 \in 0..Len(s)
      BY <1>1, <2>2
    <3>2. f[i] = g[<<i, f[i - 1]>>] /\ f[i - 1] \in Seq(States)
      BY <1>4, <3>1 DEF Recursion
    <3>3. QED
      BY <1>2, <2>2, <3>1, <3>2
  <2>3. QED
    BY <2>1, <2>2
<1>6. f = [i \in 0..Len(s) |-> f[i]]
  OBVIOUS
<1>7. f = [i \in 0..Len(s) |-> IF i = 0 THEN rest ELSE Queued(f[i - 1], s[i])]
  BY <1>5, <1>6
<1>8. QED
  BY <1>7 DEF QueuedBy

(* All children are put in their places. *)
LEMMA QueuedEachIs ==
  ASSUME problem \in Problems, NEW rest \in Seq(States), NEW s \in Seq(States)
  PROVE  /\ QueuedEach(rest, s) \in Seq(States)
         /\ ToSet(QueuedEach(rest, s)) = ToSet(rest) \cup ToSet(s)
         /\ Falling(problem.rank, rest) => Falling(problem.rank, QueuedEach(rest, s))
<1> DEFINE f == CHOOSE q : q = [i \in 0..Len(s) |-> IF i = 0 THEN rest ELSE Queued(q[i - 1], s[i])]
           h == problem.rank
<1>1. QueuedBy(f, rest, s)
  <2>1. \E q : QueuedBy(q, rest, s)
    BY QueuedDefined
  <2>2. QED
    BY <2>1 DEF QueuedBy
<1>2. QueuedEach(rest, s) = f[Len(s)]
  BY DEF QueuedEach
<1> HIDE DEF f, h
<1>3. Len(s) \in Nat /\ \A i \in 1..Len(s) : s[i] \in States
  BY LenProperties, ElementOfSeq
<1>4. f[0] = rest /\ \A i \in 1..Len(s) : f[i] = Queued(f[i - 1], s[i])
  <2>1. ASSUME NEW i \in 0..Len(s) PROVE f[i] = IF i = 0 THEN rest ELSE Queued(f[i - 1], s[i])
    BY <1>1, Zenon DEF QueuedBy
  <2>2. QED
    BY <1>3, <2>1
<1> DEFINE Good(i) == i <= Len(s) => /\ f[i] \in Seq(States)
                                     /\ \A x : x \in ToSet(f[i]) <=> x \in ToSet(rest) \/ \E j \in 1..i : s[j] = x
                                     /\ Falling(h, rest) => Falling(h, f[i])
           G == {i \in Nat : Good(i)}
<1>5. Good(0)
  BY <1>4
<1>6. ASSUME NEW i \in Nat, Good(i) PROVE Good(i + 1)
  <2> SUFFICES ASSUME i + 1 <= Len(s)
               PROVE  /\ f[i + 1] \in Seq(States)
                      /\ \A x : x \in ToSet(f[i + 1]) <=> x \in ToSet(rest) \/ \E j \in 1..(i + 1) : s[j] = x
                      /\ Falling(h, rest) => Falling(h, f[i + 1])
    OBVIOUS
  <2>1. i + 1 \in 1..Len(s) /\ s[i + 1] \in States
    BY <1>3
  <2>2. f[i + 1] = Queued(f[i], s[i + 1])
    BY <1>4, <2>1
  <2>3. /\ f[i] \in Seq(States)
        /\ \A x : x \in ToSet(f[i]) <=> x \in ToSet(rest) \/ \E j \in 1..i : s[j] = x
        /\ Falling(h, rest) => Falling(h, f[i])
    BY <1>3, <1>6
  <2>4. /\ f[i + 1] \in Seq(States) /\ ToSet(f[i + 1]) = ToSet(f[i]) \cup {s[i + 1]}
        /\ Falling(h, f[i]) => Falling(h, f[i + 1])
    BY <2>1, <2>2, <2>3, QueuedIs DEF h
  <2>5. \A x : (\E j \in 1..(i + 1) : s[j] = x) <=> (\E j \in 1..i : s[j] = x) \/ x = s[i + 1]
    OBVIOUS
  <2>6. QED
    BY <2>3, <2>4, <2>5
<1> HIDE DEF Good
<1>7. Nat \subseteq G
  <2>1. 0 \in G /\ \A i \in Nat : i \in G => i + 1 \in G
    BY <1>5, <1>6
  <2> HIDE DEF G
  <2>2. QED
    BY <2>1, Induction
<1>8. Good(Len(s))
  BY <1>3, <1>7
<1>9. \A x : x \in ToSet(s) <=> \E j \in 1..Len(s) : s[j] = x
  BY ElementsIs
<1>10. QED
  BY <1>2, <1>3, <1>8, <1>9 DEF Good, h

(* In whichever order the sort leaves them. *)
LEMMA QueuedAllIs ==
  ASSUME problem \in Problems, NEW rest \in Seq(States), NEW children \in Seq(States),
         NEW f \in QueuedAll(rest, children)
  PROVE  /\ f \in Seq(States) /\ ToSet(f) = ToSet(rest) \cup ToSet(children)
         /\ Falling(problem.rank, rest) => Falling(problem.rank, f)
<1>1. PICK sorting \in Bijection(DOMAIN children, DOMAIN children) :
        f = QueuedEach(rest, [i \in DOMAIN children |-> children[sorting[i]]])
  BY DEF QueuedAll
<1>2. PICK n \in Nat : n = Len(children) /\ DOMAIN children = 1..n /\ \A i \in 1..n : children[i] \in States
  BY LenProperties, ElementOfSeq
<1>3. /\ sorting \in [1..n -> 1..n]
      /\ \A j \in 1..n : \E i \in 1..n : sorting[i] = j
  BY <1>1, <1>2 DEF Bijection, Injection, Surjection
<1> DEFINE c == [i \in 1..n |-> children[sorting[i]]]
<1>4. c \in [1..n -> States] /\ \A i \in 1..n : c[i] = children[sorting[i]]
  BY <1>2, <1>3
<1>5. f = QueuedEach(rest, c)
  BY <1>1, <1>2
<1> HIDE DEF c
<1>6. c \in Seq(States) /\ Len(c) = n
  <2>1. c \in Seq(States)
    BY <1>4, SeqDef
  <2>2. DOMAIN c = 1..n /\ DOMAIN c = 1..Len(c) /\ Len(c) \in Nat
    BY <1>4, <2>1, LenProperties
  <2>3. QED
    BY <2>1, <2>2
<1>7. ToSet(c) = ToSet(children)
  <2>1. /\ \A x : x \in ToSet(c) <=> \E i \in 1..n : c[i] = x
        /\ \A x : x \in ToSet(children) <=> \E i \in 1..n : children[i] = x
    BY <1>2, <1>6, ElementsIs
  <2>2. ASSUME NEW x \in ToSet(c) PROVE x \in ToSet(children)
    <3>1. PICK i \in 1..n : c[i] = x
      BY <2>1
    <3>2. sorting[i] \in 1..n /\ children[sorting[i]] = x
      BY <1>3, <1>4, <3>1
    <3>3. QED
      BY <2>1, <3>2
  <2>3. ASSUME NEW x \in ToSet(children) PROVE x \in ToSet(c)
    <3>1. PICK j \in 1..n : children[j] = x
      BY <2>1
    <3>2. PICK i \in 1..n : sorting[i] = j
      BY <1>3
    <3>3. c[i] = x
      BY <1>4, <3>1, <3>2
    <3>4. QED
      BY <2>1, <3>3
  <2>4. QED
    BY <2>2, <2>3
<1>8. QED
  BY <1>5, <1>6, <1>7, QueuedEachIs

-----------------------------------------------------------------------------
(* What one step takes from the frontier and puts into it. *)
LEMMA CurrentIs ==
  ASSUME NEW T, frontier \in Seq(T), frontier # <<>>
  PROVE  /\ Current \in T /\ Remaining \in Seq(T)
         /\ ToSet(frontier) = ToSet(Remaining) \cup {Current}
BY HeadElements, LastElements DEF Current, Remaining

LEMMA PushedIs ==
  ASSUME NEW rest \in Seq(States), NEW c \in Seq(States)
  PROVE  Pushed(rest, c) \in Seq(States) /\ ToSet(Pushed(rest, c)) = ToSet(rest) \cup ToSet(c)
<1>1. CASE strategy = "breadth"
  <2>1. rest \o c \in Seq(States) /\ ToSet(rest \o c) = ToSet(rest) \cup ToSet(c)
    BY ConcatProperties, ConcatElements, Zenon
  <2>2. QED
    BY <1>1, <2>1, Zenon DEF Pushed
<1>2. CASE strategy # "breadth"
  <2>1. PICK r \in Seq(States) : r = Reverse(c) /\ ToSet(r) = ToSet(c)
    BY ReverseElements
  <2>2. r \o rest \in Seq(States) /\ ToSet(r \o rest) = ToSet(r) \cup ToSet(rest)
    BY ConcatProperties, ConcatElements, Zenon
  <2>3. Pushed(rest, c) = r \o rest
    BY <1>2, <2>1, Zenon DEF Pushed
  <2>4. QED
    BY <2>1, <2>2, <2>3
<1>3. QED
  BY <1>1, <1>2

LEMMA FreshIs ==
  ASSUME problem \in Problems, closed \subseteq States, NEW c \in Seq(States)
  PROVE  Fresh(c) \in Seq(States) /\ ToSet(Fresh(c)) = ToSet(c) \ closed
<1>1. PICK h \in [States -> Int] : h = problem.rank
  BY ProblemIs
<1>2. Fresh(c) \in Seq(States) /\ ToSet(Fresh(c)) = ToSet(c) \cap (States \ closed)
  <2>1. /\ Kept(c, States \ closed) \in Seq(States)
        /\ ToSet(Kept(c, States \ closed)) = ToSet(c) \cap (States \ closed)
    BY Zenon, KeptIs
  <2>2. QED
    BY Zenon, <2>1 DEF Fresh
<1>3. ToSet(c) \subseteq States
  BY ElementsIs
<1>4. QED
  BY <1>2, <1>3

(* The rest stays, nothing but the children comes, and those that are not   *)
(* closed all do.                                                           *)
LEMMA StoredIs ==
  ASSUME problem \in Problems, closed \subseteq States,
         NEW rest \in Seq(States), NEW c \in Seq(States), NEW f \in Stored(rest, c)
  PROVE  /\ f \in Seq(States)
         /\ ToSet(rest) \subseteq ToSet(f) /\ ToSet(f) \subseteq ToSet(rest) \cup ToSet(c)
         /\ ToSet(c) \subseteq ToSet(f) \cup closed
         /\ strategy = "best" /\ Falling(problem.rank, rest) => Falling(problem.rank, f)
<1>1. CASE strategy = "best"
  <2>1. f \in QueuedAll(rest, c)
    BY <1>1 DEF Stored
  <2>2. QED
    BY <2>1, QueuedAllIs
<1>2. CASE strategy # "best"
  <2>1. f = Pushed(rest, Fresh(c))
    BY <1>2 DEF Stored
  <2>2. Fresh(c) \in Seq(States) /\ ToSet(Fresh(c)) = ToSet(c) \ closed
    BY FreshIs
  <2>3. f \in Seq(States) /\ ToSet(f) = ToSet(rest) \cup ToSet(Fresh(c))
    BY <2>1, <2>2, PushedIs
  <2>4. QED
    BY <1>2, <2>2, <2>3
<1>3. QED
  BY <1>1, <1>2

(* When it fails some of the children may have come. *)
LEMMA BrokenIs ==
  ASSUME problem \in Problems, closed \subseteq States,
         NEW rest \in Seq(States), NEW c \in Seq(States), NEW f \in Broken(rest, c)
  PROVE  /\ f \in Seq(States)
         /\ ToSet(rest) \subseteq ToSet(f) /\ ToSet(f) \subseteq ToSet(rest) \cup ToSet(c)
         /\ strategy = "best" => f = rest
<1>1. CASE strategy = "best"
  BY <1>1 DEF Broken
<1>2. CASE strategy # "best"
  <2>1. PICK fresh \in Seq(States) : fresh = Fresh(c) /\ ToSet(fresh) = ToSet(c) \ closed
    BY FreshIs
  <2>2. PICK n \in 0..(Len(fresh) - 1) : f = Pushed(rest, SubSeq(fresh, 1, n))
    BY <1>2, <2>1 DEF Broken
  <2>3. n \in 0..Len(fresh)
    BY LenProperties
  <2>4. SubSeq(fresh, 1, n) \in Seq(States) /\ ToSet(SubSeq(fresh, 1, n)) \subseteq ToSet(fresh)
    BY <2>3, PrefixElements
  <2>5. f \in Seq(States) /\ ToSet(f) = ToSet(rest) \cup ToSet(SubSeq(fresh, 1, n))
    BY <2>2, <2>4, PushedIs
  <2>6. QED
    BY <1>2, <2>1, <2>4, <2>5
<1>3. QED
  BY <1>1, <1>2
-----------------------------------------------------------------------------
(* What is within n steps of the start in the graph of problem q. *)
Onward(q, A) == A \cup UNION {ToSet(q.children[s]) : s \in {t \in A : ~(q.heuristic[t] = 0)}}

Level(q, n) ==
  LET level[i \in 0..n] == IF i = 0 THEN {Start} ELSE Onward(q, level[i - 1])
  IN  level[n]

LEMMA WithinLevel == \A n : Within(n) = Level(problem, n)
BY DEF Within, Level, Onward, Children, IsGoal

LevelsOf(f, q, n) == f = [i \in 0..n |-> IF i = 0 THEN {Start} ELSE Onward(q, f[i - 1])]

LEMMA OnwardStates ==
  ASSUME NEW q \in Problems, NEW A \in SUBSET States
  PROVE  /\ Onward(q, A) \in SUBSET States /\ A \subseteq Onward(q, A)
         /\ \A x : x \in Onward(q, A) <=>
              x \in A \/ \E s \in A : q.heuristic[s] # 0 /\ x \in ToSet(q.children[s])
<1>1. \A s \in States : q.children[s] \in Seq(States)
  BY ProblemsAssumption
<1>2. \A s \in States : ToSet(q.children[s]) \subseteq States
  BY <1>1, ElementsIs
<1>3. QED
  BY <1>2 DEF Onward

LEMMA LevelsDefined ==
  ASSUME NEW q \in Problems, NEW n \in Nat
  PROVE  \E f \in [0..n -> SUBSET States] : LevelsOf(f, q, n)
<1> DEFINE g == [p \in (1..n) \X SUBSET States |-> Onward(q, p[2])]
<1>1. \A i \in 1..n, A \in SUBSET States : g[<<i, A>>] = Onward(q, A)
  OBVIOUS
<1>2. g \in [(1..n) \X SUBSET States -> SUBSET States]
  BY OnwardStates
<1> HIDE DEF g
<1>3. PICK f \in [0..n -> SUBSET States] : Recursion(f, n, {Start}, g)
  <2>1. {Start} \in SUBSET States
    BY ProblemsAssumption
  <2>2. QED
    BY <1>2, <2>1, RecursionDefined
<1>4. ASSUME NEW i \in 0..n PROVE f[i] = IF i = 0 THEN {Start} ELSE Onward(q, f[i - 1])
  <2>1. CASE i = 0
    BY <1>3, <2>1 DEF Recursion
  <2>2. CASE i # 0
    <3>1. i \in 1..n /\ i - 1 \in 0..n
      BY <2>2
    <3>2. f[i] = g[<<i, f[i - 1]>>] /\ f[i - 1] \in SUBSET States
      BY <1>3, <3>1 DEF Recursion
    <3>3. g[<<i, f[i - 1]>>] = Onward(q, f[i - 1])
      BY <1>1, <3>1, <3>2
    <3>4. QED
      BY <2>2, <3>2, <3>3
  <2>3. QED
    BY <2>1, <2>2
<1>5. f = [i \in 0..n |-> f[i]]
  OBVIOUS
<1>6. f = [i \in 0..n |-> IF i = 0 THEN {Start} ELSE Onward(q, f[i - 1])]
  BY <1>4, <1>5
<1>7. QED
  BY <1>6 DEF LevelsOf

LEMMA LevelsAgree ==
  ASSUME NEW q \in Problems, NEW m \in Nat, NEW n \in Nat, m <= n,
         NEW f, LevelsOf(f, q, m), NEW g, LevelsOf(g, q, n)
  PROVE  f[m] = g[m]
<1> DEFINE Good(i) == i <= m => f[i] = g[i]
           G == {i \in Nat : Good(i)}
<1>1. /\ \A i \in 0..m : f[i] = IF i = 0 THEN {Start} ELSE Onward(q, f[i - 1])
      /\ \A i \in 0..n : g[i] = IF i = 0 THEN {Start} ELSE Onward(q, g[i - 1])
  <2>1. ASSUME NEW i \in 0..m PROVE f[i] = IF i = 0 THEN {Start} ELSE Onward(q, f[i - 1])
    BY Zenon DEF LevelsOf
  <2>2. ASSUME NEW i \in 0..n PROVE g[i] = IF i = 0 THEN {Start} ELSE Onward(q, g[i - 1])
    BY Zenon DEF LevelsOf
  <2>3. QED
    BY <2>1, <2>2
<1>2. 0 \in G
  BY <1>1
<1>3. ASSUME NEW i \in Nat, i \in G PROVE i + 1 \in G
  <2>1. CASE i + 1 > m
    BY <2>1
  <2>2. CASE i + 1 <= m
    <3>1. f[i] = g[i] /\ i + 1 \in 0..m /\ i + 1 \in 0..n /\ i + 1 # 0 /\ (i + 1) - 1 = i
      BY <1>3, <2>2
    <3>2. f[i + 1] = Onward(q, f[i]) /\ g[i + 1] = Onward(q, g[i])
      BY <1>1, <3>1
    <3>3. QED
      BY <3>1, <3>2
  <2>3. QED
    BY <2>1, <2>2
<1> HIDE DEF G
<1>4. m \in G
  BY <1>2, <1>3, Induction
<1>5. QED
  BY <1>4 DEF G

(* Level by level. *)
LEMMA LevelIs ==
  ASSUME NEW q \in Problems
  PROVE  /\ Level(q, 0) = {Start}
         /\ \A n \in Nat : /\ Level(q, n) \in SUBSET States
                           /\ Level(q, n + 1) = Onward(q, Level(q, n))
<1>1. ASSUME NEW n \in Nat
      PROVE  \E f \in [0..n -> SUBSET States] : LevelsOf(f, q, n) /\ Level(q, n) = f[n]
  <2> DEFINE h == CHOOSE l : l = [i \in 0..n |-> IF i = 0 THEN {Start} ELSE Onward(q, l[i - 1])]
  <2>1. PICK f \in [0..n -> SUBSET States] : LevelsOf(f, q, n)
    BY LevelsDefined
  <2>2. LevelsOf(h, q, n)
    BY <2>1 DEF LevelsOf
  <2>3. Level(q, n) = h[n]
    BY DEF Level
  <2> HIDE DEF h
  <2>4. f[n] = h[n]
    BY <2>1, <2>2, LevelsAgree
  <2>5. QED
    BY <2>1, <2>3, <2>4
<1>2. Level(q, 0) = {Start}
  <2>1. PICK f : LevelsOf(f, q, 0) /\ Level(q, 0) = f[0]
    BY <1>1
  <2>2. 0 \in 0..0
    OBVIOUS
  <2>3. f[0] = IF 0 = 0 THEN {Start} ELSE Onward(q, f[0 - 1])
    BY <2>1, <2>2, Zenon DEF LevelsOf
  <2>4. QED
    BY <2>1, <2>3
<1>3. ASSUME NEW n \in Nat PROVE Level(q, n) \in SUBSET States /\ Level(q, n + 1) = Onward(q, Level(q, n))
  <2>1. PICK f \in [0..n -> SUBSET States] : LevelsOf(f, q, n) /\ Level(q, n) = f[n]
    BY <1>1
  <2>2. PICK g : LevelsOf(g, q, n + 1) /\ Level(q, n + 1) = g[n + 1]
    BY <1>1
  <2>3. f[n] = g[n]
    BY <2>1, <2>2, LevelsAgree
  <2>4. n + 1 \in 0..(n + 1)
    OBVIOUS
  <2>5. g[n + 1] = IF n + 1 = 0 THEN {Start} ELSE Onward(q, g[(n + 1) - 1])
    BY <2>2, <2>4, Zenon DEF LevelsOf
  <2>6. g[n + 1] = Onward(q, g[n])
    BY <2>5
  <2>7. QED
    BY <2>1, <2>2, <2>3, <2>6
<1>4. QED
  BY <1>2, <1>3

-----------------------------------------------------------------------------
(* D has been searched through: the states that were taken off and whose    *)
(* children were stored, closed or not.                                     *)
Explored(D) ==
  /\ closed \subseteq D /\ \A s \in D : ~IsGoal(s)
  /\ Start \in ToSet(frontier) \cup D \cup found
  /\ \A s \in D : ToSet(Children(s)) \subseteq ToSet(frontier) \cup D \cup found

(* In a queue f the states within d steps come first, up to position p, and *)
(* then those one step further; the others within d steps are in A, all     *)
(* those within d - 1 are.                                                  *)
LevelsAt(q, f, A, d, p) ==
  /\ \A i \in 1..Len(f) : f[i] \in IF i <= p THEN Level(q, d) ELSE Level(q, d + 1)
  /\ Level(q, d) \subseteq A \cup {f[i] : i \in 1..p}
  /\ d > 0 => Level(q, d - 1) \subseteq A

ByLevels(D) ==
  \E d \in Nat : /\ \E p \in 0..Len(frontier) : LevelsAt(problem, frontier, D \cup found, d, p)
                 /\ code = "goal" => goal \in Level(problem, d)

Ends == /\ life = "none" => code = "none" /\ frontier = <<>> /\ closed = {}
        /\ code = "exhausted" => frontier = <<>>

GoalsApart == (\A s \in closed : ~IsGoal(s)) /\ \A s \in found : IsGoal(s)

Ordered == strategy = "best" => Falling(problem.rank, frontier)

Progress ==
  life # "none" /\ ~lost =>
    \E D \in SUBSET States : Explored(D) /\ (strategy = "breadth" => ByLevels(D))

SearchInv == SearchTypeOK /\ Ends /\ GoalsApart /\ Ordered /\ Progress

(* What is taken off has been searched through or handed out, its children  *)
(* are in the frontier.                                                     *)
LEMMA ExploredMore ==
  ASSUME problem' = problem, NEW D \in SUBSET States, Explored(D), NEW E \in SUBSET States,
         D \subseteq E, closed' \subseteq E, \A s \in E : ~IsGoal(s), found \subseteq found',
         ToSet(frontier) \subseteq ToSet(frontier') \cup E \cup found',
         \A s \in E \ D : ToSet(Children(s)) \subseteq ToSet(frontier') \cup E \cup found'
  PROVE  Explored(E)'
<1>1. \A s : Children(s)' = Children(s) /\ (IsGoal(s)' <=> IsGoal(s))
  BY DEF Children, IsGoal
<1>2. Start \in ToSet(frontier') \cup E \cup found'
  BY DEF Explored
<1>3. \A s \in E : ToSet(Children(s)) \subseteq ToSet(frontier') \cup E \cup found'
  BY DEF Explored
<1> QED
  BY <1>1, <1>2, <1>3 DEF Explored

LEMMA ExploredStep ==
  ASSUME SearchTypeOK, NEW D \in SUBSET States, Explored(D), SearchStep, ~lost'
  PROVE  \E E \in SUBSET States :
           /\ D \subseteq E /\ Explored(E)'
           /\ StepEmpty \/ StepNoBuffer \/ Current \in E \cup found'
<1>1. problem' = problem /\ problem \in Problems /\ frontier \in Seq(States) /\ closed \subseteq States
  BY DEF SearchStep, SearchTypeOK
<1>2. closed \subseteq D /\ \A s \in D : ~IsGoal(s)
  BY DEF Explored
<1>3. CASE StepEmpty \/ StepNoBuffer
  <2>1. frontier' = frontier /\ closed' = closed /\ found' = found
    BY <1>3 DEF StepEmpty, StepNoBuffer
  <2>2. Explored(D)'
    BY <1>1, <1>2, <2>1, ExploredMore
  <2>3. QED
    BY <1>3, <2>2
<1>4. CASE StepAgain
  <2>1. frontier # <<>> /\ frontier' = Remaining /\ closed' = closed /\ found' = found /\ Current \in D
    BY <1>2, <1>4 DEF StepAgain, AlreadySearched
  <2>2. ToSet(frontier) = ToSet(frontier') \cup {Current}
    BY <1>1, <2>1, CurrentIs
  <2>3. Explored(D)'
    BY <1>1, <1>2, <2>1, <2>2, ExploredMore
  <2>4. QED
    BY <2>1, <2>3
<1>5. CASE StepGoal
  <2>1. frontier # <<>> /\ frontier' = Remaining /\ closed' = closed /\ found' = found \cup {Current}
    BY <1>5 DEF StepGoal, Unsearched
  <2>2. ToSet(frontier) = ToSet(frontier') \cup {Current}
    BY <1>1, <2>1, CurrentIs
  <2>3. Explored(D)'
    BY <1>1, <1>2, <2>1, <2>2, ExploredMore
  <2>4. QED
    BY <2>1, <2>3
<1>6. CASE StepExpand \/ StepNotClosed
  <2>1. /\ frontier # <<>> /\ ~IsGoal(Current) /\ frontier' \in Stored(Remaining, Children(Current))
        /\ closed' \subseteq closed \cup {Current} /\ found' = found
    BY <1>6 DEF StepExpand, StepNotClosed, Unsearched
  <2>2. /\ Current \in States /\ Remaining \in Seq(States)
        /\ ToSet(frontier) = ToSet(Remaining) \cup {Current}
    BY <1>1, <2>1, CurrentIs
  <2>3. Children(Current) \in Seq(States)
    BY <1>1, <2>2, ProblemIs
  <2>4. /\ ToSet(Remaining) \subseteq ToSet(frontier')
        /\ ToSet(Children(Current)) \subseteq ToSet(frontier') \cup closed
    BY <1>1, <2>1, <2>2, <2>3, StoredIs
  <2>0. PICK E \in SUBSET States : E = D \cup {Current}
    BY <2>2
  <2>5. D \subseteq E /\ closed' \subseteq E /\ \A s \in E : ~IsGoal(s)
    BY <1>2, <2>0, <2>1
  <2>6. /\ ToSet(frontier) \subseteq ToSet(frontier') \cup E \cup found'
        /\ \A s \in E \ D : ToSet(Children(s)) \subseteq ToSet(frontier') \cup E \cup found'
    BY <1>2, <2>0, <2>2, <2>4
  <2>7. Current \in E
    BY <2>0
  <2>8. Explored(E)'
    BY <1>1, <2>1, <2>5, <2>6, ExploredMore
  <2>9. QED
    BY <2>5, <2>7, <2>8
<1>7. CASE StepBroken
  BY <1>7 DEF StepBroken
<1>8. QED
  BY <1>3, <1>4, <1>5, <1>6, <1>7 DEF SearchStep

(* The first level that is left in the queue begins at its head. *)
LEMMA NextLevel ==
  ASSUME NEW q \in Problems, NEW f \in Seq(States), f # <<>>, NEW A, NEW d \in Nat, NEW p \in 0..Len(f),
         LevelsAt(q, f, A, d, p),
         \A s \in A : q.heuristic[s] # 0 => ToSet(q.children[s]) \subseteq ToSet(f) \cup A
  PROVE  \E e \in Nat, r \in 1..Len(f) : d <= e /\ LevelsAt(q, f, A, e, r)
<1>1. PICK n \in Nat \ {0} : n = Len(f)
  BY EmptySeq
<1>2. CASE p > 0
  <2>1. p \in 1..Len(f) /\ d <= d
    BY <1>1, <1>2
  <2>2. QED
    BY <2>1, Zenon
<1>3. CASE p = 0
  <2>1. Level(q, d) \subseteq A /\ \A i \in 1..n : f[i] \in Level(q, d + 1)
    BY <1>1, <1>3 DEF LevelsAt
  <2>2. Level(q, d) \in SUBSET States /\ Level(q, d + 1) = Onward(q, Level(q, d))
    BY LevelIs
  <2>3. ASSUME NEW x \in Level(q, d + 1) PROVE x \in A \cup {f[i] : i \in 1..n}
    <3>1. CASE x \in Level(q, d)
      BY <2>1, <3>1
    <3>2. ASSUME NEW s \in Level(q, d), q.heuristic[s] # 0, x \in ToSet(q.children[s])
          PROVE  x \in A \cup {f[i] : i \in 1..n}
      <4>1. x \in ToSet(f) \cup A
        BY <2>1, <3>2
      <4>2. x \in ToSet(f) <=> \E i \in 1..n : f[i] = x
        BY <1>1, ElementsIs
      <4>3. QED
        BY <4>1, <4>2
    <3>3. QED
      BY <2>2, <3>1, <3>2, OnwardStates
  <2>4. LevelsAt(q, f, A, d + 1, n)
    <3>1. \A i \in 1..Len(f) : f[i] \in IF i <= n THEN Level(q, d + 1) ELSE Level(q, (d + 1) + 1)
      BY <1>1, <2>1
    <3>2. (d + 1) - 1 = d
      OBVIOUS
    <3>3. QED
      BY <2>1, <2>3, <3>1, <3>2 DEF LevelsAt
  <2>5. d + 1 \in Nat /\ n \in 1..Len(f) /\ d <= d + 1
    BY <1>1
  <2>6. QED
    BY <2>4, <2>5, Zenon
<1>4. QED
  BY <1>2, <1>3

(* The head is taken, and states one step further come to the end. *)
LEMMA LevelsTaken ==
  ASSUME NEW q \in Problems, NEW f \in Seq(States), f # <<>>, NEW A, NEW d \in Nat, NEW p \in 1..Len(f),
         LevelsAt(q, f, A, d, p),
         NEW w \in Seq(States), ToSet(w) \subseteq Level(q, d + 1),
         NEW B, A \subseteq B, Head(f) \in B
  PROVE  /\ LevelsAt(q, Tail(f) \o w, B, d, p - 1)
         /\ p - 1 \in 0..Len(Tail(f) \o w) /\ Head(f) \in Level(q, d)
<1>1. PICK n \in Nat, m \in Nat : n + 1 = Len(f) /\ m = Len(w)
  <2>1. Len(f) \in Nat \ {0} /\ Len(w) \in Nat
    BY EmptySeq, LenProperties
  <2>2. Len(f) - 1 \in Nat /\ (Len(f) - 1) + 1 = Len(f)
    BY <2>1
  <2>3. QED
    BY <2>1, <2>2
<1>2. PICK t \in Seq(States) : t = Tail(f) /\ Len(t) = n /\ \A i \in 1..n : t[i] = f[i + 1]
  <2>1. /\ Tail(f) \in Seq(States) /\ Len(Tail(f)) = Len(f) - 1
        /\ \A i \in 1..Len(Tail(f)) : Tail(f)[i] = f[i + 1]
    BY HeadElements
  <2>2. Len(f) - 1 = n
    BY <1>1
  <2>3. QED
    BY <2>1, <2>2, Zenon
<1>3. PICK u \in Seq(States) : /\ u = t \o w /\ Len(u) = n + m
                               /\ \A i \in 1..(n + m) : u[i] = IF i <= n THEN t[i] ELSE w[i - n]
  <2>1. /\ t \o w \in Seq(States) /\ Len(t \o w) = Len(t) + Len(w)
        /\ \A i \in 1..(Len(t) + Len(w)) : (t \o w)[i] = IF i <= Len(t) THEN t[i] ELSE w[i - Len(t)]
    BY ConcatProperties
  <2>2. QED
    BY <1>1, <1>2, <2>1, Zenon
<1>4. Head(f) = f[1] /\ f[1] \in Level(q, d)
  <2>1. Head(f) = f[1]
    BY HeadElements
  <2>2. 1 \in 1..Len(f) /\ 1 <= p
    BY <1>1
  <2>3. QED
    BY <2>1, <2>2 DEF LevelsAt
<1>5. ASSUME NEW i \in 1..(n + m)
      PROVE  u[i] \in IF i <= p - 1 THEN Level(q, d) ELSE Level(q, d + 1)
  <2>1. CASE i <= n
    <3>1. u[i] = f[i + 1] /\ i + 1 \in 1..Len(f) /\ (i <= p - 1 <=> i + 1 <= p)
      BY <1>1, <1>2, <1>3, <2>1
    <3>2. f[i + 1] \in IF i + 1 <= p THEN Level(q, d) ELSE Level(q, d + 1)
      BY <3>1 DEF LevelsAt
    <3>3. QED
      BY <3>1, <3>2
  <2>2. CASE i > n
    <3>1. u[i] = w[i - n] /\ i - n \in 1..m /\ ~(i <= p - 1)
      BY <1>1, <1>3, <2>2
    <3>2. w[i - n] \in ToSet(w)
      BY <1>1, <3>1, ElementsIs
    <3>3. QED
      BY <3>1, <3>2
  <2>3. QED
    BY <2>1, <2>2
<1>6. ASSUME NEW x \in Level(q, d) PROVE x \in B \cup {u[i] : i \in 1..(p - 1)}
  <2>1. x \in A \/ \E i \in 1..p : x = f[i]
    BY DEF LevelsAt
  <2>2. ASSUME NEW i \in 1..p, x = f[i], i # 1 PROVE \E j \in 1..(p - 1) : x = u[j]
    <3>1. i - 1 \in 1..(p - 1) /\ i - 1 \in 1..n /\ (i - 1) + 1 = i
      BY <1>1, <2>2
    <3>2. u[i - 1] = f[i]
      BY <1>2, <1>3, <3>1
    <3>3. QED
      BY <2>2, <3>1, <3>2
  <2>3. QED
    BY <1>4, <2>1, <2>2
<1>7. p - 1 \in 0..(n + m)
  BY <1>1
<1>8. LevelsAt(q, u, B, d, p - 1)
  <2>1. d > 0 => Level(q, d - 1) \subseteq B
    BY DEF LevelsAt
  <2>2. QED
    BY <1>3, <1>5, <1>6, <2>1 DEF LevelsAt
<1>9. QED
  BY <1>2, <1>3, <1>4, <1>7, <1>8, Zenon

LEMMA LevelsStep ==
  ASSUME SearchTypeOK, GoalsApart, strategy = "breadth", SearchStep, ~lost',
         NEW D \in SUBSET States, Explored(D), ByLevels(D), NEW E \in SUBSET States, D \subseteq E,
         StepEmpty \/ StepNoBuffer \/ Current \in E \cup found'
  PROVE  ByLevels(E)'
<1>1. problem' = problem /\ problem \in Problems /\ frontier \in Seq(States) /\ closed \subseteq States
  BY DEF SearchStep, SearchTypeOK
<1>2. PICK d \in Nat, p \in 0..Len(frontier) : LevelsAt(problem, frontier, D \cup found, d, p)
  BY DEF ByLevels
<1>3. CASE StepEmpty \/ StepNoBuffer
  <2>1. frontier' = frontier /\ found' = found /\ code' # "goal"
    BY <1>3 DEF StepEmpty, StepNoBuffer
  <2>2. LevelsAt(problem, frontier, E \cup found, d, p)
    BY <1>2 DEF LevelsAt
  <2>3. QED
    BY <1>1, <2>1, <2>2 DEF ByLevels
<1>4. CASE /\ frontier # <<>>
           /\ Current \in E \cup found' /\ found \subseteq found'
           /\ code' = "goal" => goal' = Current
           /\ \E w \in Seq(States) :
                /\ frontier' = Remaining \o w
                /\ w = <<>> \/ (~IsGoal(Current) /\ ToSet(w) \subseteq ToSet(Children(Current)))
  <2>1. Current = Head(frontier) /\ Remaining = Tail(frontier)
    BY DEF Current, Remaining
  <2>2. PICK w \in Seq(States) :
          /\ frontier' = Tail(frontier) \o w
          /\ w = <<>> \/ (~IsGoal(Current) /\ ToSet(w) \subseteq ToSet(Children(Current)))
    BY <1>4, <2>1
  <2> DEFINE A == D \cup found
             B == E \cup found'
  <2>3. ASSUME NEW s \in A, problem.heuristic[s] # 0
        PROVE  ToSet(problem.children[s]) \subseteq ToSet(frontier) \cup A
    <3>1. s \in D
      BY <2>3 DEF GoalsApart, IsGoal
    <3>2. QED
      BY <3>1 DEF Explored, Children
  <2>4. A \subseteq B /\ Head(frontier) \in B
    BY <1>4, <2>1
  <2> HIDE DEF A, B
  <2>5. LevelsAt(problem, frontier, A, d, p)
    BY <1>2 DEF A
  <2>6. PICK e \in Nat, r \in 1..Len(frontier) : LevelsAt(problem, frontier, A, e, r)
    BY <1>1, <1>4, <2>3, <2>5, NextLevel
  <2>7. Head(frontier) \in Level(problem, e)
    <3>1. Head(frontier) = frontier[1]
      BY <1>1, <1>4, HeadElements
    <3>2. 1 \in 1..Len(frontier) /\ 1 <= r
      OBVIOUS
    <3>3. QED
      BY <2>6, <3>1, <3>2 DEF LevelsAt
  <2>8. ToSet(w) \subseteq Level(problem, e + 1)
    <3>1. CASE w = <<>>
      BY <3>1, FewElements
    <3>2. CASE ~IsGoal(Current) /\ ToSet(w) \subseteq ToSet(Children(Current))
      <4>1. /\ Level(problem, e) \in SUBSET States
            /\ Level(problem, e + 1) = Onward(problem, Level(problem, e))
        BY <1>1, LevelIs
      <4>2. problem.heuristic[Current] # 0 /\ Children(Current) = problem.children[Current]
        BY <3>2 DEF IsGoal, Children
      <4>3. QED
        BY <1>1, <2>1, <2>7, <3>2, <4>1, <4>2, OnwardStates
    <3>3. QED
      BY <2>2, <3>1, <3>2
  <2>9. LevelsAt(problem, Tail(frontier) \o w, B, e, r - 1) /\ r - 1 \in 0..Len(Tail(frontier) \o w)
    BY <1>1, <1>4, <2>4, <2>6, <2>8, LevelsTaken
  <2>10. /\ LevelsAt(problem', frontier', E \cup found', e, r - 1) /\ r - 1 \in 0..Len(frontier')
         /\ code' = "goal" => goal' \in Level(problem', e)
    BY <1>1, <1>4, <2>1, <2>2, <2>7, <2>9 DEF B
  <2>11. QED
    BY <2>10 DEF ByLevels
<1>5. CASE (StepAgain \/ StepGoal) /\ Current \in E \cup found'
  <2>1. /\ frontier # <<>> /\ frontier' = Remaining /\ found \subseteq found'
        /\ code' = "goal" => goal' = Current
    BY <1>5 DEF StepAgain, StepGoal, Unsearched
  <2>2. Remaining \in Seq(States)
    BY <1>1, <2>1, CurrentIs
  <2>3. <<>> \in Seq(States) /\ Remaining \o <<>> = Remaining
    BY <2>2, ConcatEmptySeq
  <2>4. QED
    BY <1>4, <1>5, <2>1, <2>3
<1>6. CASE (StepExpand \/ StepNotClosed) /\ Current \in E \cup found'
  <2>1. /\ frontier # <<>> /\ ~IsGoal(Current) /\ frontier' \in Stored(Remaining, Children(Current))
        /\ found' = found /\ code' # "goal"
    BY <1>6 DEF StepExpand, StepNotClosed, Unsearched
  <2>2. Current \in States /\ Remaining \in Seq(States)
    BY <1>1, <2>1, CurrentIs
  <2>3. Children(Current) \in Seq(States)
    BY <1>1, <2>2, ProblemIs
  <2>4. frontier' = Remaining \o Fresh(Children(Current))
    BY <2>1 DEF Stored, Pushed
  <2>5. /\ Fresh(Children(Current)) \in Seq(States)
        /\ ToSet(Fresh(Children(Current))) \subseteq ToSet(Children(Current))
    BY <1>1, <2>3, FreshIs
  <2>6. \E w \in Seq(States) :
          /\ frontier' = Remaining \o w
          /\ w = <<>> \/ (~IsGoal(Current) /\ ToSet(w) \subseteq ToSet(Children(Current)))
    BY <2>1, <2>4, <2>5, Zenon
  <2>7. QED
    BY <1>4, <1>6, <2>1, <2>6
<1>7. CASE StepBroken
  BY <1>7 DEF StepBroken
<1>8. QED
  BY <1>3, <1>5, <1>6, <1>7 DEF SearchStep
-----------------------------------------------------------------------------
LEMMA SearchStart == SearchInit => SearchInv
<1> SUFFICES ASSUME SearchInit PROVE SearchInv
  OBVIOUS
<1>1. SearchTypeOK
  <2>1. <<>> \in Seq(States) /\ Start \in States /\ 0 \in 0..MaxFailures
    BY ProblemsAssumption, FailuresAssumption
  <2>2. QED
    BY <2>1 DEF SearchInit, SearchTypeOK
<1>2. Ends /\ GoalsApart /\ Ordered /\ Progress
  BY DEF SearchInit, Ends, GoalsApart, Ordered, Falling, Progress
<1> QED
  BY <1>1, <1>2 DEF SearchInv

LEMMA CreateInv == ASSUME SearchInv, Create PROVE SearchInv'
<1>1. /\ SearchTypeOK /\ life = "none" /\ frontier = <<>> /\ closed = {} /\ problem \in Problems
      /\ life' = "live" /\ code' = "continue"
      /\ UNCHANGED <<problem, strategy, closed, goal, found>>
  BY DEF SearchInv, Ends, Create, SearchTypeOK
<1>2. CASE CreateWith
  <2>1. frontier' = <<Start>> /\ Start \in States /\ lost' = lost /\ failures' = failures
    BY <1>2, ProblemsAssumption DEF CreateWith
  <2>2. SearchTypeOK'
    BY <1>1, <2>1 DEF SearchTypeOK
  <2>3. Ends' /\ GoalsApart' /\ Ordered'
    BY <1>1, <2>1 DEF SearchInv, Ends, GoalsApart, Ordered, Falling, IsGoal
  <2>4. ToSet(frontier') = {Start}
    BY <2>1, FewElements
  <2>5. Explored({})'
    BY <1>1, <2>4 DEF Explored
  <2>6. ByLevels({})'
    <3>1. Level(problem, 0) = {Start}
      BY <1>1, LevelIs
    <3>2. LevelsAt(problem, <<Start>>, {} \cup found, 0, 1) /\ 1 \in 0..Len(<<Start>>)
      BY <3>1 DEF LevelsAt
    <3>3. LevelsAt(problem', frontier', {} \cup found', 0, 1) /\ 1 \in 0..Len(frontier')
      BY <1>1, <2>1, <3>2
    <3>4. QED
      BY <1>1, <3>3 DEF ByLevels
  <2>7. Progress'
    BY <2>5, <2>6 DEF Progress
  <2>8. QED
    BY <2>2, <2>3, <2>7 DEF SearchInv
<1>3. CASE CreateWithout
  <2>1. frontier' = frontier /\ lost' = TRUE /\ failures < MaxFailures /\ failures' = failures + 1
    BY <1>3 DEF CreateWithout, MayFail
  <2>2. SearchTypeOK'
    BY <1>1, <2>1, FailuresAssumption DEF SearchTypeOK, IsGoal
  <2>3. Ends' /\ GoalsApart' /\ Ordered' /\ Progress'
    BY <1>1, <2>1 DEF SearchInv, Ends, GoalsApart, Ordered, IsGoal, Progress
  <2>4. QED
    BY <2>2, <2>3 DEF SearchInv
<1>4. QED
  BY <1>2, <1>3 DEF Create

LEMMA TypeStep == ASSUME SearchTypeOK, SearchStep PROVE SearchTypeOK'
<1>1. /\ problem' = problem /\ strategy' = strategy /\ life' = life
      /\ problem \in Problems /\ frontier \in Seq(States) /\ closed \subseteq States
  BY DEF SearchStep, SearchTypeOK
<1>2. MayFail => failures' \in 0..MaxFailures
  BY FailuresAssumption DEF SearchTypeOK, MayFail
<1>3. \A s : IsGoal(s)' <=> IsGoal(s)
  BY <1>1 DEF IsGoal
<1>4. CASE StepEmpty \/ StepNoBuffer
  BY <1>1, <1>2, <1>4 DEF StepEmpty, StepNoBuffer, SearchTypeOK
<1>5. ASSUME frontier # <<>>
      PROVE  /\ Current \in States /\ Remaining \in Seq(States) /\ Children(Current) \in Seq(States)
             /\ \A f \in Stored(Remaining, Children(Current)) : f \in Seq(States)
             /\ \A f \in Broken(Remaining, Children(Current)) : f \in Seq(States)
  <2>1. Current \in States /\ Remaining \in Seq(States)
    BY <1>1, <1>5, CurrentIs
  <2>2. Children(Current) \in Seq(States)
    BY <1>1, <2>1, ProblemIs
  <2>3. QED
    BY <1>1, <2>1, <2>2, StoredIs, BrokenIs
<1>6. CASE StepAgain
  BY <1>1, <1>5, <1>6 DEF StepAgain, SearchTypeOK
<1>7. CASE StepGoal
  BY <1>1, <1>3, <1>5, <1>7 DEF StepGoal, Unsearched, SearchTypeOK
<1>8. CASE StepExpand
  BY <1>1, <1>5, <1>8 DEF StepExpand, Unsearched, SearchTypeOK
<1>9. CASE StepBroken
  BY <1>1, <1>2, <1>5, <1>9 DEF StepBroken, Unsearched, SearchTypeOK
<1>10. CASE StepNotClosed
  BY <1>1, <1>2, <1>5, <1>10 DEF StepNotClosed, Unsearched, SearchTypeOK
<1>11. QED
  BY <1>4, <1>6, <1>7, <1>8, <1>9, <1>10 DEF SearchStep

LEMMA EndsStep == ASSUME Ends, SearchStep PROVE Ends' /\ code' # "none"
BY DEF Ends, SearchStep, StepEmpty, StepNoBuffer, StepAgain, StepGoal, StepExpand, StepBroken, StepNotClosed

LEMMA GoalsApartStep == ASSUME GoalsApart, SearchStep PROVE GoalsApart'
<1>1. \A s : IsGoal(s)' <=> IsGoal(s)
  BY DEF SearchStep, IsGoal
<1>2. /\ \A s \in closed' : s \in closed \/ ~IsGoal(s)
      /\ \A s \in found' : s \in found \/ IsGoal(s)
  <2>1. CASE StepEmpty \/ StepNoBuffer
    BY <2>1 DEF StepEmpty, StepNoBuffer
  <2>2. CASE StepAgain \/ StepGoal
    BY <2>2 DEF StepAgain, StepGoal
  <2>3. CASE StepExpand \/ StepBroken \/ StepNotClosed
    BY <2>3 DEF StepExpand, StepBroken, StepNotClosed
  <2>4. QED
    BY <2>1, <2>2, <2>3 DEF SearchStep
<1>3. QED
  BY <1>1, <1>2 DEF GoalsApart

LEMMA OrderedStep == ASSUME SearchTypeOK, Ordered, SearchStep PROVE Ordered'
<1> SUFFICES ASSUME strategy = "best" PROVE Falling(problem.rank, frontier')
  BY DEF SearchStep, Ordered
<1>1. /\ problem \in Problems /\ frontier \in Seq(States) /\ closed \subseteq States
      /\ Falling(problem.rank, frontier)
  BY DEF SearchTypeOK, Ordered
<1>2. CASE StepEmpty \/ StepNoBuffer
  BY <1>1, <1>2 DEF StepEmpty, StepNoBuffer
<1>3. ASSUME frontier # <<>>
      PROVE  /\ Remaining \in Seq(States) /\ Falling(problem.rank, Remaining)
             /\ Children(Current) \in Seq(States)
  <2>1. Current \in States /\ Remaining \in Seq(States) /\ Remaining = Front(frontier)
    BY <1>1, <1>3, CurrentIs DEF Remaining
  <2>2. Falling(problem.rank, Front(frontier))
    BY <1>1, <1>3, FallingFront
  <2>3. Children(Current) \in Seq(States)
    BY <1>1, <2>1, ProblemIs
  <2>4. QED
    BY <2>1, <2>2, <2>3
<1>4. CASE StepAgain \/ StepGoal
  BY <1>3, <1>4 DEF StepAgain, StepGoal, Unsearched
<1>5. CASE StepExpand \/ StepNotClosed
  <2>1. frontier # <<>> /\ frontier' \in Stored(Remaining, Children(Current))
    BY <1>5 DEF StepExpand, StepNotClosed, Unsearched
  <2>2. QED
    BY <1>1, <1>3, <2>1, StoredIs
<1>6. CASE StepBroken
  <2>1. frontier # <<>> /\ frontier' \in Broken(Remaining, Children(Current))
    BY <1>6 DEF StepBroken, Unsearched
  <2>2. frontier' = Remaining
    BY <1>1, <1>3, <2>1, BrokenIs
  <2>3. QED
    BY <1>3, <2>1, <2>2
<1>7. QED
  BY <1>2, <1>4, <1>5, <1>6 DEF SearchStep

LEMMA ProgressStep == ASSUME SearchTypeOK, GoalsApart, Progress, SearchStep PROVE Progress'
<1> SUFFICES ASSUME ~lost'
             PROVE  \E E \in SUBSET States : Explored(E)' /\ (strategy = "breadth" => ByLevels(E)')
  BY DEF SearchStep, Progress
<1>1. life # "none" /\ ~lost
  <2>1. life = "live"
    BY DEF SearchStep
  <2>2. lost' = lost \/ lost' = TRUE
    BY DEF SearchStep, StepEmpty, StepNoBuffer, StepAgain, StepGoal, StepExpand, StepBroken, StepNotClosed
  <2>3. QED
    BY <2>1, <2>2
<1>2. PICK D \in SUBSET States : Explored(D) /\ (strategy = "breadth" => ByLevels(D))
  BY <1>1 DEF Progress
<1>3. PICK E \in SUBSET States : /\ D \subseteq E /\ Explored(E)'
                                 /\ StepEmpty \/ StepNoBuffer \/ Current \in E \cup found'
  BY <1>2, ExploredStep
<1>4. strategy = "breadth" => ByLevels(E)'
  BY <1>2, <1>3, LevelsStep
<1>5. QED
  BY <1>3, <1>4

LEMMA SearchNextInv == ASSUME SearchInv, [SearchNext]_searchvars PROVE SearchInv'
<1>1. CASE SearchStep
  BY <1>1, TypeStep, EndsStep, GoalsApartStep, OrderedStep, ProgressStep DEF SearchInv
<1>2. CASE Destroy \/ UNCHANGED searchvars
  <2>1. /\ life' \in {"none", "live", "gone"} /\ (life' = "none" <=> life = "none")
        /\ UNCHANGED <<problem, strategy, frontier, closed, code, goal, found, lost, failures>>
    BY <1>2 DEF Destroy, searchvars, SearchInv, SearchTypeOK
  <2>2. SearchTypeOK'
    BY <2>1 DEF SearchInv, SearchTypeOK, IsGoal
  <2>3. Ends' /\ GoalsApart' /\ Ordered'
    BY <2>1 DEF SearchInv, Ends, GoalsApart, Ordered, IsGoal
  <2>4. ASSUME NEW D \in SUBSET States
        PROVE  (Explored(D)' <=> Explored(D)) /\ (ByLevels(D)' <=> ByLevels(D))
    BY <2>1 DEF Explored, ByLevels, IsGoal, Children
  <2>5. Progress'
    BY <2>1, <2>4 DEF SearchInv, Progress
  <2>6. QED
    BY <2>2, <2>3, <2>5 DEF SearchInv
<1>3. CASE Create
  BY <1>3, CreateInv
<1>4. QED
  BY <1>1, <1>2, <1>3 DEF SearchNext

(* The searches keep SearchInv. *)
THEOREM SearchInductive == SearchSpec => []SearchInv
BY SearchStart, SearchNextInv, PTL DEF SearchSpec

-----------------------------------------------------------------------------
LEMMA LevelsGrow ==
  ASSUME NEW q \in Problems, NEW m \in Nat, NEW n \in Nat, m <= n
  PROVE  Level(q, m) \subseteq Level(q, n)
<1> DEFINE S == {k \in Nat : Level(q, m) \subseteq Level(q, m + k)}
<1>1. 0 \in S
  <2>1. m + 0 = m
    OBVIOUS
  <2>2. Level(q, m) \subseteq Level(q, m + 0)
    BY Zenon, <2>1
  <2>3. QED
    BY <2>2
<1>2. ASSUME NEW k \in Nat, k \in S PROVE k + 1 \in S
  <2>1. m + k \in Nat /\ m + (k + 1) = (m + k) + 1
    OBVIOUS
  <2>2. Level(q, m + k) \in SUBSET States /\ Level(q, (m + k) + 1) = Onward(q, Level(q, m + k))
    BY <2>1, LevelIs
  <2>3. Level(q, m + k) \subseteq Level(q, (m + k) + 1)
    BY <2>2, OnwardStates
  <2>4. QED
    BY <1>2, <2>1, <2>3
<1> HIDE DEF S
<1>3. n - m \in Nat /\ n - m \in S /\ m + (n - m) = n
  BY <1>1, <1>2, Induction
<1>4. QED
  BY <1>3 DEF S

(* The distance of what can be reached is the first level it is in. *)
LEMMA DistanceIs ==
  ASSUME problem \in Problems, NEW x \in Reachable
  PROVE  /\ Cardinality(States) \in Nat /\ Distance(x) \in 0..Cardinality(States)
         /\ x \in Level(problem, Distance(x))
         /\ \A m \in Nat : m < Distance(x) => x \notin Level(problem, m)
<1>1. PICK n \in Nat : n = Cardinality(States)
  BY StatesAssumption, FS_CardinalityType
<1>2. x \in Level(problem, n)
  BY <1>1, WithinLevel DEF Reachable
<1> DEFINE First(k) == x \in Level(problem, k) /\ \A m \in 0..(k - 1) : x \notin Level(problem, m)
<1>3. \E k \in 0..n : First(k)
  <2> SUFFICES ASSUME \A k \in 0..n : ~First(k) PROVE FALSE
    OBVIOUS
  <2> DEFINE S == {k \in Nat : k <= n => \A m \in 0..k : x \notin Level(problem, m)}
  <2>1. 0 \in S
    BY 0 \in 0..n
  <2>2. ASSUME NEW k \in Nat, k \in S PROVE k + 1 \in S
    <3>1. CASE k + 1 > n
      BY <3>1
    <3>2. CASE k + 1 <= n
      <4>1. \A m \in 0..((k + 1) - 1) : x \notin Level(problem, m)
        BY <2>2, <3>2
      <4>2. k + 1 \in 0..n
        BY <3>2
      <4>3. x \notin Level(problem, k + 1)
        BY <4>1, <4>2
      <4>4. QED
        BY <4>1, <4>3
    <3>3. QED
      BY <3>1, <3>2
  <2> HIDE DEF S
  <2>3. n \in S
    BY <2>1, <2>2, Induction
  <2>4. QED
    BY <1>2, <2>3 DEF S
<1>4. \A k : First(k) <=> x \in Within(k) /\ \A m \in 0..(k - 1) : x \notin Within(m)
  BY WithinLevel
<1>5. Distance(x) = CHOOSE k \in 0..n : First(k)
  BY <1>1, <1>4 DEF Distance
<1> HIDE DEF First
<1>6. Distance(x) \in 0..n /\ First(Distance(x))
  BY <1>3, <1>5
<1>7. QED
  BY <1>1, <1>6 DEF First

(* With nothing left in the frontier, all there is has been searched. *)
LEMMA AllFound == ASSUME SearchInv PROVE Exhausted
<1>1. SearchTypeOK /\ problem \in Problems
  BY DEF SearchInv, SearchTypeOK
<1>2. ASSUME code = "exhausted", ~lost, NEW s \in Reachable, IsGoal(s) PROVE s \in found
  <2>1. life # "none" /\ frontier = <<>>
    BY <1>2 DEF SearchInv, Ends
  <2>2. PICK D \in SUBSET States : Explored(D)
    BY <1>2, <2>1 DEF SearchInv, Progress
  <2>3. ToSet(frontier) = {}
    BY <2>1, FewElements
  <2> DEFINE S == {n \in Nat : Level(problem, n) \subseteq D \cup found}
  <2>4. 0 \in S
    BY <1>1, <2>2, <2>3, LevelIs DEF Explored
  <2>5. ASSUME NEW n \in Nat, n \in S PROVE n + 1 \in S
    <3>1. Level(problem, n) \in SUBSET States /\ Level(problem, n + 1) = Onward(problem, Level(problem, n))
      BY <1>1, LevelIs
    <3>2. ASSUME NEW t \in Level(problem, n), problem.heuristic[t] # 0
          PROVE  ToSet(problem.children[t]) \subseteq D \cup found
      <4>1. t \in D
        BY <2>5, <3>2 DEF SearchInv, GoalsApart, IsGoal
      <4>2. QED
        BY <2>2, <2>3, <4>1 DEF Explored, Children
    <3>3. \A x \in Level(problem, n + 1) : x \in D \cup found
      BY <1>1, <2>5, <3>1, <3>2, OnwardStates
    <3>4. QED
      BY <3>3
  <2> HIDE DEF S
  <2>6. Cardinality(States) \in Nat
    BY StatesAssumption, FS_CardinalityType
  <2>7. Cardinality(States) \in S
    BY <2>4, <2>5, <2>6, Induction
  <2>8. s \in D \cup found
    BY <1>2, <2>7, WithinLevel DEF S, Reachable
  <2>9. QED
    BY <1>2, <2>2, <2>8 DEF Explored
<1>3. QED
  BY <1>1, <1>2 DEF Exhausted

(* "If all the nodes have been searched, then it returns -1": whichever     *)
(* calls of the allocator fail, a search that reports its end and has not   *)
(* lost a state has handed out every goal there is to reach.                *)
THEOREM ExhaustedHolds == SearchSpec => []Exhausted
BY SearchInductive, AllFound, PTL

LEMMA NearerFound == ASSUME SearchInv PROVE NearestFirst
<1> SUFFICES ASSUME strategy = "breadth", code = "goal", ~lost, NEW s \in Reachable \ found, IsGoal(s)
             PROVE  Distance(s) >= Distance(goal)
  BY DEF NearestFirst
<1>1. problem \in Problems /\ life # "none"
  BY DEF SearchInv, SearchTypeOK, Ends
<1>2. PICK D \in SUBSET States : Explored(D) /\ ByLevels(D)
  BY <1>1 DEF SearchInv, Progress
<1>3. PICK d \in Nat : /\ \E p \in 0..Len(frontier) : LevelsAt(problem, frontier, D \cup found, d, p)
                       /\ goal \in Level(problem, d)
  BY <1>2 DEF ByLevels
<1>4. PICK n \in Nat : n = Cardinality(States)
  BY StatesAssumption, FS_CardinalityType
<1>5. Distance(s) \in 0..n /\ s \in Level(problem, Distance(s))
  BY <1>1, <1>4, DistanceIs
<1>6. Distance(s) >= d
  <2> SUFFICES ASSUME Distance(s) < d PROVE FALSE
    BY <1>5
  <2>1. d > 0 /\ d - 1 \in Nat /\ Distance(s) <= d - 1 /\ Distance(s) \in Nat
    BY <1>5
  <2>2. Level(problem, Distance(s)) \subseteq Level(problem, d - 1)
    BY <1>1, <2>1, LevelsGrow
  <2>3. Level(problem, d - 1) \subseteq D \cup found
    BY <1>3, <2>1 DEF LevelsAt
  <2>4. s \in D
    BY <1>5, <2>2, <2>3
  <2>5. QED
    BY <1>2, <2>4 DEF Explored
<1>7. goal \in Reachable
  <2>1. d <= n
    BY <1>5, <1>6
  <2>2. Level(problem, d) \subseteq Level(problem, n)
    BY <1>1, <2>1, LevelsGrow
  <2>3. QED
    BY <1>3, <1>4, <2>2, WithinLevel DEF Reachable
<1>8. Distance(goal) \in 0..n /\ ~(d < Distance(goal))
  BY <1>1, <1>3, <1>4, <1>7, DistanceIs
<1>9. QED
  BY <1>5, <1>6, <1>8

(* Breadth first never hands out a goal while a nearer one has not been     *)
(* handed out.                                                              *)
THEOREM NearestFirstHolds == SearchSpec => []NearestFirst
BY SearchInductive, NearerFound, PTL

-----------------------------------------------------------------------------
LEMMA LeastIs == ASSUME SearchInv PROVE LeastNext
<1> SUFFICES ASSUME strategy = "best", frontier # <<>>, NEW s \in ToSet(frontier)
             PROVE  problem.rank[Current] <= problem.rank[s]
  BY DEF LeastNext
<1>1. problem \in Problems /\ frontier \in Seq(States) /\ Falling(problem.rank, frontier)
  BY DEF SearchInv, SearchTypeOK, Ordered
<1>2. PICK h \in [States -> Int] : h = problem.rank
  BY <1>1, ProblemIs
<1>3. Current = Last(frontier) /\ Current \in States /\ s \in States
  BY <1>1, CurrentIs, ElementsIs DEF Current
<1>4. h[s] >= h[Last(frontier)]
  BY <1>1, <1>2, FallingLast
<1>5. QED
  BY <1>2, <1>3, <1>4

(* For every order of the states, best first takes off a least state of the *)
(* frontier: the sorted array stays in descending order through every merge *)
(* and every pop.                                                           *)
THEOREM LeastNextHolds == SearchSpec => []LeastNext
BY SearchInductive, LeastIs, PTL

LEMMA EagerStep ==
  ASSUME SearchInv, strategy = "best", GoalsLeast(problem), SearchStep, code' # "error",
         NEW i \in DOMAIN frontier, IsGoal(frontier[i])
  PROVE  code' = "goal"
<1>1. problem \in Problems /\ frontier \in Seq(States) /\ \A s \in closed : ~IsGoal(s)
  BY DEF SearchInv, SearchTypeOK, GoalsApart
<1>2. frontier # <<>> /\ frontier[i] \in ToSet(frontier) /\ frontier[i] \in States
  BY <1>1, ElementsIs, EmptySeq
<1>3. Current \in States
  BY <1>1, <1>2, CurrentIs
<1>4. problem.rank[Current] <= problem.rank[frontier[i]]
  BY <1>2, LeastIs DEF LeastNext
<1>5. IsGoal(Current) /\ Current \notin closed
  <2>1. ASSUME ~IsGoal(Current) PROVE problem.rank[frontier[i]] < problem.rank[Current]
    BY <1>2, <1>3, <2>1 DEF GoalsLeast, IsGoal
  <2>2. problem.rank[Current] \in Int /\ problem.rank[frontier[i]] \in Int
    BY <1>1, <1>2, <1>3, ProblemIs
  <2>3. QED
    BY <1>1, <1>4, <2>1, <2>2
<1>6. ~StepEmpty /\ ~StepNoBuffer /\ ~StepAgain
  BY <1>2, <1>5 DEF StepEmpty, StepNoBuffer, StepAgain, AlreadySearched
<1>7. ~StepExpand /\ ~StepBroken /\ ~StepNotClosed
  BY <1>5 DEF StepExpand, StepBroken, StepNotClosed
<1>8. QED
  BY <1>6, <1>7 DEF SearchStep, StepGoal

(* Where the order makes every goal less than any other state, best first   *)
(* hands out a goal with the first call that does not fail after one has    *)
(* come into the frontier.                                                  *)
THEOREM EagerGoalHolds == SearchSpec => EagerGoal
<1>1. ASSUME SearchInv, [SearchNext]_searchvars
      PROVE  [(/\ strategy = "best" /\ GoalsLeast(problem)
               /\ SearchStep /\ code' # "error"
               /\ \E i \in DOMAIN frontier : IsGoal(frontier[i])) => code' = "goal"]_searchvars
  BY <1>1, EagerStep
<1>2. QED
  BY <1>1, SearchInductive, PTL DEF SearchSpec, EagerGoal
-----------------------------------------------------------------------------
LEMMA GraphStart == SearchInit => Graph!Init
BY FewElements, ProblemsAssumption DEF SearchInit, Graph!Init

LEMMA GraphCreate ==
  ASSUME SearchInv, Create
  PROVE  Graph!Create(Start) \/ Graph!CreateNothing
<1>1. code = "none" /\ closed = {} /\ closed' = closed /\ code' = "continue"
      /\ UNCHANGED <<problem, goal>>
  BY DEF SearchInv, Ends, Create
<1>2. CASE CreateWith
  <2>1. ToSet(frontier') = {Start}
    BY <1>2, FewElements DEF CreateWith
  <2>2. QED
    BY <1>1, <2>1 DEF Graph!Create
<1>3. CASE CreateWithout
  BY <1>1, <1>3 DEF CreateWithout, Graph!CreateNothing
<1>4. QED
  BY <1>2, <1>3 DEF Create

LEMMA GraphStep ==
  ASSUME SearchInv, SearchStep
  PROVE  Graph!Next
<1>1. /\ problem \in Problems /\ frontier \in Seq(States) /\ closed \subseteq States
      /\ problem' = problem
  BY DEF SearchInv, SearchTypeOK, SearchStep
<1>2. CASE StepEmpty
  <2>1. ToSet(frontier) \ closed = {}
    BY <1>2, FewElements DEF StepEmpty
  <2>2. Graph!Exhaust
    BY <1>1, <1>2, <2>1 DEF StepEmpty, Graph!Exhaust
  <2>3. QED
    BY <2>2 DEF Graph!Next
<1>3. CASE StepNoBuffer
  <2>1. Graph!FailEarly
    BY <1>1, <1>3 DEF StepNoBuffer, Graph!FailEarly
  <2>2. QED
    BY <2>1 DEF Graph!Next
<1>4. ASSUME frontier # <<>>
      PROVE  /\ Current \in States /\ Remaining \in Seq(States)
             /\ ToSet(frontier) = ToSet(Remaining) \cup {Current}
             /\ Children(Current) \in Seq(States)
             /\ Graph!Children(Current) = ToSet(Children(Current))
  <2>1. /\ Current \in States /\ Remaining \in Seq(States)
        /\ ToSet(frontier) = ToSet(Remaining) \cup {Current}
    BY <1>1, <1>4, CurrentIs
  <2>2. Children(Current) \in Seq(States)
    BY <1>1, <2>1, ProblemIs
  <2>3. Graph!Children(Current) = ToSet(Children(Current))
    BY DEF Graph!Children, Children, ToSet
  <2>4. QED
    BY <2>1, <2>2, <2>3
<1>5. CASE StepAgain
  <2>1. Current \in closed /\ ToSet(frontier') = ToSet(Remaining) /\ frontier # <<>>
    BY <1>5 DEF StepAgain, AlreadySearched
  <2>2. ToSet(frontier') \ closed = ToSet(frontier) \ closed
    BY <1>4, <2>1
  <2>3. Graph!PassOver
    BY <1>1, <1>5, <2>2 DEF StepAgain, Graph!PassOver
  <2>4. QED
    BY <2>3 DEF Graph!Next
<1>6. CASE StepGoal
  <2>1. frontier # <<>> /\ Current \notin closed /\ ToSet(frontier') = ToSet(Remaining)
    BY <1>6 DEF StepGoal, Unsearched, AlreadySearched
  <2>2. /\ Current \in ToSet(frontier) \ closed
        /\ ToSet(frontier') \ closed \in {ToSet(frontier) \ closed, (ToSet(frontier) \ closed) \ {Current}}
    BY <1>4, <2>1
  <2>3. Graph!HandOut(Current)
    BY <1>1, <1>6, <2>2 DEF StepGoal, IsGoal, Graph!HandOut, Graph!IsGoal
  <2>4. QED
    BY <1>4, <2>1, <2>3 DEF Graph!Next
<1>7. ASSUME frontier # <<>>, frontier' \in Stored(Remaining, Children(Current))
      PROVE  /\ ToSet(Remaining) \subseteq ToSet(frontier')
             /\ ToSet(frontier') \subseteq ToSet(Remaining) \cup ToSet(Children(Current))
             /\ ToSet(Children(Current)) \subseteq ToSet(frontier') \cup closed
  BY <1>1, <1>4, <1>7, StoredIs
<1>8. CASE StepExpand
  <2>1. /\ frontier # <<>> /\ Current \notin closed /\ closed' = closed \cup {Current}
        /\ frontier' \in Stored(Remaining, Children(Current))
    BY <1>8 DEF StepExpand, Unsearched, AlreadySearched
  <2>2. /\ Current \in ToSet(frontier) \ closed
        /\ ToSet(frontier') \ closed' = ((ToSet(frontier) \ closed) \cup ToSet(Children(Current))) \ closed'
    BY <1>4, <1>7, <2>1
  <2>3. Graph!Expand(Current)
    BY <1>1, <1>4, <1>8, <2>1, <2>2 DEF StepExpand, IsGoal, Graph!Expand, Graph!IsGoal
  <2>4. QED
    BY <1>4, <2>1, <2>3 DEF Graph!Next
<1>9. CASE StepBroken \/ StepNotClosed
  <2>1. /\ frontier # <<>> /\ Current \notin closed
        /\ code' = "error" /\ UNCHANGED <<problem, closed, goal>>
    BY <1>1, <1>9 DEF StepBroken, StepNotClosed, Unsearched, AlreadySearched
  <2>2. /\ ToSet(Remaining) \subseteq ToSet(frontier')
        /\ ToSet(frontier') \subseteq ToSet(Remaining) \cup ToSet(Children(Current))
    <3>1. CASE StepBroken
      <4>1. frontier' \in Broken(Remaining, Children(Current))
        BY <3>1 DEF StepBroken
      <4>2. QED
        BY <1>1, <1>4, <2>1, <4>1, BrokenIs
    <3>2. CASE StepNotClosed
      BY <1>7, <2>1, <3>2 DEF StepNotClosed
    <3>3. QED
      BY <1>9, <3>1, <3>2
  <2>3. /\ Current \in ToSet(frontier) \ closed
        /\ (ToSet(frontier) \ closed) \ {Current} \subseteq ToSet(frontier') \ closed'
        /\ ToSet(frontier') \ closed' \subseteq ((ToSet(frontier) \ closed) \cup ToSet(Children(Current))) \ closed
    BY <1>4, <2>1, <2>2
  <2>4. Graph!Fail(Current)
    BY <1>4, <2>1, <2>3 DEF Graph!Fail
  <2>5. QED
    BY <1>4, <2>1, <2>4 DEF Graph!Next
<1>10. QED
  BY <1>2, <1>3, <1>5, <1>6, <1>8, <1>9 DEF SearchStep

(* The three searches do what module GraphSearch says of any search: a step *)
(* hands out or expands one state that is open, never one that is closed,   *)
(* and only a call that reports an error may lose a state.                  *)
THEOREM ImplementsSearchHolds == SearchSpec => ImplementsSearch
<1>1. ASSUME SearchInv, [SearchNext]_searchvars
      PROVE  [Graph!Next]_Graph!vars
  <2>1. CASE Create
    <3>1. Start \in States
      BY ProblemsAssumption
    <3>2. QED
      BY <1>1, <2>1, <3>1, GraphCreate DEF Graph!Next
  <2>2. CASE SearchStep
    BY <1>1, <2>2, GraphStep
  <2>3. CASE Destroy \/ UNCHANGED searchvars
    BY <2>3 DEF Destroy, searchvars, Graph!vars
  <2>4. QED
    BY <1>1, <2>1, <2>2, <2>3 DEF SearchNext
<1>2. QED
  BY <1>1, GraphStart, SearchInductive, PTL DEF SearchSpec, ImplementsSearch, Graph!Spec
=============================================================================
