---------------------------- MODULE MemoryProofs ----------------------------
(***************************************************************************)
(* What is proved of module FAlloc for every size of stack and page, every *)
(* set of lengths and alignments and each platform: blocks are apart, in   *)
(* committed memory and aligned, and a caller that has given everything    *)
(* back leaves the stack empty.  And of module MemSwap, for every length:  *)
(* the two blocks change places.  And of module Logger, for every set of   *)
(* threads and of levels and any number of calls: a thread that has        *)
(* returned from logger_log holds none of its memory, and what the level   *)
(* lets through, and nothing else, is in the file and on stdout.           *)
(***************************************************************************)
EXTENDS FAlloc, MemSwap, Logger, SequenceTheorems, WellFoundedInduction, TLAPS

Blocks == [at : Nat, length : Nat, align : Nat \ {0}]
Shape == [usage : Nat, allocated : Int, reserved : Int]

(* The first block begins where the region does: nothing is in front of it. *)
FromStart == blocks # <<>> => blocks[1].at = 0

IInv == tls \in Shape /\ blocks \in Seq(Blocks) /\ Drained /\ FromStart

(* The start of the region needs no padding, whatever the alignment. *)
LEMMA NoPadding == ASSUME NEW a \in Nat \ {0} PROVE Padding(0, a) = 0
<1>1. 0 % a = 0
  OBVIOUS
<1>2. a % a = 0
  OBVIOUS
<1> QED BY <1>1, <1>2 DEF Padding

LEMMA PaddingNat == ASSUME NEW x \in Nat, NEW a \in Nat \ {0} PROVE Padding(x, a) \in Nat
<1>1. (a - (x % a)) \in Int
  OBVIOUS
<1> QED BY <1>1 DEF Padding

(* Getting the stack of a thread changes nothing that is in it. *)
LEMMA StackSame == ASSUME IInv PROVE Stack \in Shape /\ Stack.usage = tls.usage
BY StackSizeAssumption DEF IInv, Stack, NoStack, Shape

(* However it grows, or fails to, the stack's usage is left alone. *)
LEMMA SpaceSame ==
  ASSUME NEW s \in Shape, NEW needed \in Nat, NEW outcome \in EnsureSpace(s, needed)
  PROVE  outcome.stack \in Shape /\ outcome.stack.usage = s.usage
<1>1. ASSUME NEW r \in Reserved(s, needed)
      PROVE  r.stack \in Shape /\ r.stack.usage = s.usage
  BY <1>1, BoundsAssumption DEF Reserved, Granted, Failed, Shape
<1>2. ASSUME NEW t \in Shape, NEW r \in CommittedIn(t, needed)
      PROVE  r.stack \in Shape /\ r.stack.usage = t.usage
  <2>1. Committed(t.allocated, needed) \in Int
    BY StackSizeAssumption DEF Committed, Shape
  <2> QED BY <1>2, <2>1 DEF CommittedIn, Granted, Failed, Shape
<1>3. ASSUME NEW r \in Remapped(s, needed)
      PROVE  r.stack \in Shape /\ r.stack.usage = s.usage
  BY <1>3, BoundsAssumption DEF Remapped, Granted, Failed, Shape
<1>4. CASE platform = "windows"
  <2>1. PICK r \in Reserved(s, needed) :
          outcome \in (IF r.ok THEN CommittedIn(r.stack, needed) ELSE {r})
    BY <1>4 DEF EnsureSpace
  <2> QED BY <1>1, <1>2, <2>1
<1>5. CASE platform # "windows"
  BY <1>3, <1>5 DEF EnsureSpace, Granted, Failed
<1> QED BY <1>4, <1>5

LEMMA InitIInv == StackInit => IInv
BY DEF StackInit, IInv, NoStack, Shape, Drained, FromStart

LEMMA MallocIInv ==
  ASSUME IInv, NEW l \in Requests, NEW a \in Alignments, Malloc(l, a)
  PROVE  IInv'
<1> DEFINE block == [at |-> Stack.usage + Padding(Stack.usage, a), length |-> l, align |-> a]
<1>1. l \in Nat /\ a \in Nat \ {0}
  BY RequestsAssumption
<1>2. Stack \in Shape /\ Stack.usage = tls.usage /\ tls.usage \in Nat
  BY StackSame DEF IInv, Shape
<1>3. Padding(Stack.usage, a) \in Nat
  BY <1>1, <1>2, PaddingNat
<1>4. block \in Blocks /\ Needed(Stack, l, a) \in Nat
  BY <1>1, <1>2, <1>3 DEF Blocks, Needed
<1>5. PICK outcome \in EnsureSpace(Stack, Needed(Stack, l, a)) :
        IF outcome.ok
          THEN /\ tls' = [outcome.stack EXCEPT !.usage = @ + Padding(@, a) + l]
               /\ blocks' = Append(blocks, block)
          ELSE tls' = outcome.stack /\ UNCHANGED blocks
  BY DEF Malloc
<1>6. outcome.stack \in Shape /\ outcome.stack.usage = tls.usage
  BY <1>2, <1>4, <1>5, SpaceSame
<1>7. CASE ~outcome.ok
  BY <1>5, <1>6, <1>7 DEF IInv, Drained, FromStart
<1>8. CASE outcome.ok
  <2>1. tls' \in Shape
    <3> DEFINE used == outcome.stack.usage + Padding(outcome.stack.usage, a) + l
    <3>1. used \in Nat
      BY <1>1, <1>2, <1>3, <1>6
    <3> HIDE DEF used
    <3>2. [outcome.stack EXCEPT !.usage = used] \in Shape
      BY <1>6, <3>1 DEF Shape
    <3> QED BY <1>5, <1>8, <3>2 DEF used
  <2>2. blocks' \in Seq(Blocks) /\ blocks' # <<>>
    BY <1>4, <1>5, <1>8 DEF IInv
  <2>3. blocks'[1] = IF blocks = <<>> THEN block ELSE blocks[1]
    BY <1>4, <1>5, <1>8 DEF IInv
  <2>4. blocks = <<>> => block.at = 0
    BY <1>1, <1>2, NoPadding DEF IInv, Drained
  <2> QED BY <2>1, <2>2, <2>3, <2>4 DEF IInv, Drained, FromStart
<1> QED BY <1>7, <1>8

LEMMA FreeIInv == ASSUME IInv, NEW i \in DOMAIN blocks, Free(i) PROVE IInv'
<1>1. /\ blocks \in Seq(Blocks) /\ tls \in Shape /\ i \in 1..Len(blocks)
      /\ blocks[i] \in Blocks /\ blocks[1].at = 0
  BY DEF IInv, FromStart
<1>2. tls' \in Shape
  BY <1>1 DEF Free, Shape, Blocks
<1>3. blocks' \in Seq(Blocks) /\ Len(blocks') = i - 1
  BY <1>1 DEF Free
<1>4. CASE i = 1
  <2>1. blocks' = <<>>
    BY <1>3, <1>4
  <2>2. tls'.usage = 0
    BY <1>1, <1>4 DEF Free, Shape
  <2> QED BY <1>2, <2>1, <2>2 DEF IInv, Drained, FromStart
<1>5. CASE i # 1
  <2>1. blocks' # <<>> /\ blocks'[1] = blocks[1]
    BY <1>1, <1>3, <1>5 DEF Free
  <2> QED BY <1>1, <1>2, <1>3, <2>1 DEF IInv, Drained, FromStart
<1> QED BY <1>4, <1>5

LEMMA StackIInv == IInv /\ [StackNext]_stackvars => IInv'
<1> SUFFICES ASSUME IInv, [StackNext]_stackvars PROVE IInv'
  OBVIOUS
<1>1. ASSUME NEW l \in Requests, NEW a \in Alignments, Malloc(l, a) PROVE IInv'
  BY <1>1, MallocIInv
<1>2. ASSUME NEW i \in DOMAIN blocks, Free(i) PROVE IInv'
  BY <1>2, FreeIInv
<1>3. CASE FreeForeign
  BY <1>3, StackSame DEF FreeForeign, IInv, Drained, FromStart
<1>4. CASE ThreadExit
  BY <1>4 DEF ThreadExit, IInv, NoStack, Shape, Drained, FromStart
<1>5. CASE UNCHANGED stackvars
  BY <1>5 DEF stackvars, IInv, Drained, FromStart
<1>6. QED
  BY <1>1, <1>2, <1>3, <1>4, <1>5 DEF StackNext

(* A caller that has given everything back, one block at a time from the    *)
(* youngest or several at once, leaves the thread's stack as empty as it    *)
(* found it: falloc_free undoes the padding of falloc_malloc_aligned, on    *)
(* each platform and after failed growths.                                  *)
THEOREM DrainedHolds == StackSpec => []Drained
<1>1. IInv => Drained
  BY DEF IInv
<1> QED BY InitIInv, StackIInv, <1>1, PTL DEF StackSpec
-----------------------------------------------------------------------------
(* Induction over a set: a least number outside it would follow one inside. *)
LEMMA Induction ==
  ASSUME NEW S, 0 \in S, \A n \in Nat : n \in S => n + 1 \in S
  PROVE  Nat \subseteq S
<1> DEFINE T == Nat \ S
<1>1. SUFFICES ASSUME T # {} PROVE FALSE
  OBVIOUS
<1>2. PICK m \in T : \A n \in T : <<n, m>> \notin OpToRel(<, Nat)
  BY <1>1, WFMin, NatLessThanWellFounded, Zenon
<1>3. \A n \in T : ~(n < m)
  BY <1>2 DEF OpToRel
<1>4. m - 1 \in Nat /\ m - 1 \in S
  <2>1. m \in Nat /\ m # 0
    OBVIOUS
  <2>2. QED
    BY <1>3, <2>1
<1>5. QED
  BY <1>4

(* How the region grows: the number the loop of the growth ends with is     *)
(* enough.                                                                  *)
Step(h, D, needed) == h = [a \in D |-> IF a >= needed THEN a ELSE h[a + a \div 2]]

LEMMA GrownIs ==
  ASSUME NEW size, NEW needed
  PROVE  Grown(size, needed) = (CHOOSE h : Step(h, Nat, needed))[size + size \div 2]
BY DEF Grown, Step

LEMMA Div == \A a \in Nat : a \div 2 \in Nat /\ (a = 0 => a \div 2 = 0) /\ (a = 1 => a \div 2 = 0) /\ (a >= 2 => a \div 2 >= 1)
OBVIOUS
(* For the numbers that are within d of what is needed the growth is defined. *)
LEMMA GrowthDefined ==
  ASSUME NEW needed \in Nat
  PROVE  \E h : Step(h, Nat, needed)
<1> DEFINE Near(d) == {a \in Nat : a + d >= needed}
           S == {d \in Nat : \E h : Step(h, Near(d), needed)}
<1>1. 0 \in S
  <2>1. Step([a \in Near(0) |-> a], Near(0), needed)
    BY DEF Step
  <2>2. QED
    BY <2>1
<1>2. ASSUME NEW d \in Nat, d \in S PROVE d + 1 \in S
  <2>1. PICK h : Step(h, Near(d), needed)
    BY <1>2
  <2> DEFINE g == [a \in Near(d + 1) |->
                     IF a \in Near(d) THEN h[a]
                     ELSE IF a >= 2 THEN h[a + a \div 2] ELSE 0]
  <2>2. ASSUME NEW a \in Near(d + 1)
        PROVE  g[a] = IF a >= needed THEN a ELSE g[a + a \div 2]
    <3>1. a \in Nat /\ a \div 2 \in Nat /\ a + a \div 2 \in Near(d + 1)
          /\ (a < 2 => a + a \div 2 = a) /\ (a >= 2 => a \div 2 >= 1)
      BY Div
    <3>2. CASE a \in Near(d)
      <4>1. g[a] = h[a] /\ a + a \div 2 \in Near(d)
        BY <3>1, <3>2
      <4>2. h[a] = IF a >= needed THEN a ELSE h[a + a \div 2]
        BY <2>1, <3>2 DEF Step
      <4>3. g[a + a \div 2] = h[a + a \div 2]
        BY <3>1, <4>1
      <4>4. QED
        BY <4>1, <4>2, <4>3
    <3>3. CASE a \notin Near(d)
      <4>1. a < needed
        BY <3>1, <3>3
      <4>2. CASE a < 2
        BY <3>1, <3>3, <4>1, <4>2
      <4>3. CASE a >= 2
        <5>1. a + a \div 2 \in Near(d)
          BY <3>1, <4>3
        <5>2. g[a] = h[a + a \div 2]
          BY <3>1, <3>3, <4>3
        <5>3. g[a + a \div 2] = h[a + a \div 2]
          BY <3>1, <5>1
        <5>4. QED
          BY <4>1, <5>2, <5>3
      <4>4. QED
        BY <3>1, <4>2, <4>3
    <3>4. QED
      BY <3>2, <3>3
  <2>3. Step(g, Near(d + 1), needed)
    BY <2>2 DEF Step
  <2> HIDE DEF g, Near
  <2>4. (\E k : Step(k, Near(d + 1), needed)) /\ d + 1 \in Nat
    BY <2>3
  <2>5. QED
    BY <2>4, Zenon
<1>3. needed \in S
  <2> HIDE DEF S
  <2>1. QED
    BY <1>1, <1>2, Induction
<1>4. Near(needed) = Nat
  OBVIOUS
<1>5. QED
  BY <1>3, <1>4

LEMMA GrownEnough ==
  ASSUME NEW size \in Nat, size >= 2, NEW needed \in Nat
  PROVE  Grown(size, needed) \in Nat /\ Grown(size, needed) >= needed
<1> DEFINE f == CHOOSE h : Step(h, Nat, needed)
<1>1. Step(f, Nat, needed)
  BY GrowthDefined
<1> HIDE DEF f
<1> DEFINE Enough(d) == \A a \in Nat : a >= 2 /\ a + d >= needed => f[a] \in Nat /\ f[a] >= needed
           S == {d \in Nat : Enough(d)}
<1>2. \A a \in Nat : f[a] = IF a >= needed THEN a ELSE f[a + a \div 2]
  BY <1>1 DEF Step
<1>3. 0 \in S
  BY <1>2
<1>4. ASSUME NEW d \in Nat, d \in S PROVE d + 1 \in S
  <2>1. ASSUME NEW a \in Nat, a >= 2, a + (d + 1) >= needed
        PROVE  f[a] \in Nat /\ f[a] >= needed
    <3>1. CASE a >= needed
      BY <1>2, <3>1
    <3>2. CASE a < needed
      <4>1. a + a \div 2 \in Nat /\ a + a \div 2 >= 2 /\ a + a \div 2 + d >= needed
        BY <2>1, Div
      <4>2. f[a + a \div 2] \in Nat /\ f[a + a \div 2] >= needed
        BY <1>4, <4>1
      <4>3. f[a] = f[a + a \div 2]
        BY <1>2, <3>2
      <4>4. QED
        BY <4>2, <4>3
    <3>3. QED
      BY <3>1, <3>2
  <2>2. Enough(d + 1) /\ d + 1 \in Nat
    BY <2>1
  <2>3. QED
    BY <2>2, Zenon
<1>5. needed \in S
  <2> HIDE DEF S
  <2>1. QED
    BY <1>3, <1>4, Induction
<1>6. Grown(size, needed) = f[size + size \div 2]
  BY GrownIs DEF f
<1>7. size + size \div 2 \in Nat /\ size + size \div 2 >= 2
  BY Div
<1>8. QED
  BY <1>5, <1>6, <1>7

LEMMA CommittedEnough ==
  ASSUME NEW s \in Int, NEW n \in Int, n > s
  PROVE  Committed(s, n) >= n
<1>1. PageSize \in Nat \ {0}
  BY StackSizeAssumption
<1> DEFINE x == n - s + PageSize - 1
           q == x \div PageSize
<1>2. x \in Int
  BY <1>1
<1>3. q \in Int /\ x = PageSize * q + (x % PageSize) /\ (x % PageSize) <= PageSize - 1
  BY <1>1, <1>2
<1>4. Committed(s, n) = s + PageSize * q 
  BY DEF Committed
<1>5. QED
  BY <1>1, <1>3, <1>4

(* The address of a block after the padding for it. *)
LEMMA PaddedAligned ==
  ASSUME NEW u \in Nat, NEW a \in Nat \ {0}
  PROVE  (u + Padding(u, a)) % a = 0
<1> DEFINE r == u % a
           q == u \div a
<1>1. CASE r = 0
  <2>1. (a - r) % a = 0
    BY <1>1
  <2>2. QED
    BY <2>1, <1>1 DEF Padding
<1>2. CASE r # 0
  <2>1. r \in 1..(a - 1) /\ q \in Int /\ u = a * q + r
    BY <1>2
  <2>2. (a - r) % a = a - r
    BY <2>1
  <2>3. u + Padding(u, a) = a * (q + 1)
    BY <2>1, <2>2 DEF Padding
  <2>4. (a * (q + 1)) % a = 0
    BY <2>1
  <2>5. QED
    BY <2>3, <2>4
<1>3. QED
  BY <1>1, <1>2

(* A growth that succeeds makes room for what is needed, one that fails     *)
(* loses nothing.                                                           *)
LEMMA SpaceEnough ==
  ASSUME NEW s \in Shape, s.allocated \in Nat, platform # "windows" => s.allocated >= 2,
         NEW needed \in Nat, NEW outcome \in EnsureSpace(s, needed)
  PROVE  /\ outcome.stack.allocated >= s.allocated
         /\ outcome.ok => outcome.stack.allocated >= needed
<1>1. ASSUME NEW r \in Reserved(s, needed)
      PROVE  r.stack \in Shape /\ r.stack.allocated = s.allocated
  BY <1>1, BoundsAssumption DEF Reserved, Granted, Failed, Shape
<1>2. ASSUME NEW t \in Shape, t.allocated = s.allocated, NEW r \in CommittedIn(t, needed)
      PROVE  /\ r.stack.allocated >= s.allocated
             /\ r.ok => r.stack.allocated >= needed
  <2>1. CASE needed <= t.allocated
    BY <1>2, <2>1 DEF CommittedIn, Granted, Failed, Shape
  <2>2. CASE needed > t.allocated
    <3>1. r \in {Failed(t), Granted([t EXCEPT !.allocated = Committed(t.allocated, needed)])}
      BY <1>2, <2>2 DEF CommittedIn, Shape
    <3>2. Committed(t.allocated, needed) >= needed
      BY <1>2, <2>2, CommittedEnough
    <3>3. [t EXCEPT !.allocated = Committed(t.allocated, needed)].allocated
            = Committed(t.allocated, needed)
      BY DEF Shape
    <3>4. CASE r = Failed(t)
      BY <1>2, <3>4 DEF Failed
    <3>5. CASE r = Granted([t EXCEPT !.allocated = Committed(t.allocated, needed)])
      <4>1. r.stack.allocated = Committed(t.allocated, needed)
        BY <3>3, <3>5 DEF Granted
      <4>2. Committed(t.allocated, needed) \in Int
        BY StackSizeAssumption DEF Committed, Shape
      <4>3. QED
        BY <1>2, <2>2, <3>2, <4>1, <4>2
    <3>6. QED
      BY <3>1, <3>4, <3>5
  <2>3. QED
    BY <1>2, <2>1, <2>2 DEF Shape
<1>3. CASE platform = "windows"
  <2>1. PICK r \in Reserved(s, needed) :
          outcome \in (IF r.ok THEN CommittedIn(r.stack, needed) ELSE {r})
    BY <1>3 DEF EnsureSpace
  <2>2. r.stack \in Shape /\ r.stack.allocated = s.allocated
    BY <1>1
  <2>3. CASE r.ok
    BY <1>2, <2>1, <2>2, <2>3
  <2>4. CASE ~r.ok
    BY <2>1, <2>2, <2>4
  <2>5. QED
    BY <2>3, <2>4
<1>4. CASE platform # "windows"
  <2>1. CASE needed <= s.allocated
    BY <1>4, <2>1 DEF EnsureSpace, Granted, Shape
  <2>2. CASE needed > s.allocated
    <3> DEFINE size == Grown(s.allocated, needed)
    <3>1. size \in Nat /\ size >= needed
      BY <1>4, GrownEnough
    <3> HIDE DEF size
    <3>2. outcome = Failed(s) \/ outcome \in Remapped(s, needed)
      BY <1>4, <2>2 DEF EnsureSpace
    <3>3. outcome = Failed(s) \/ outcome = Granted([s EXCEPT !.allocated = size])
      BY <3>2 DEF Remapped, size
    <3>4. [s EXCEPT !.allocated = size].allocated = size
      BY DEF Shape
    <3>5. CASE outcome = Failed(s)
      BY <3>5 DEF Failed
    <3>6. CASE outcome = Granted([s EXCEPT !.allocated = size])
      <4>1. outcome.stack.allocated = size
        BY <3>4, <3>6 DEF Granted
      <4>2. QED
        BY <2>2, <3>1, <4>1
    <3>7. QED
      BY <3>3, <3>5, <3>6
  <2>3. QED
    BY <2>1, <2>2
<1>5. QED
  BY <1>3, <1>4

(* Any older block ends before any younger one begins, and all of them      *)
(* below the stack's usage: stronger than Carved, which speaks of           *)
(* neighbours.                                                              *)
Apart == \A i, j \in DOMAIN blocks : i < j => blocks[i].at + blocks[i].length <= blocks[j].at
Used == \A i \in DOMAIN blocks : /\ blocks[i].at + blocks[i].length <= tls.usage
                                 /\ blocks[i].at % blocks[i].align = 0
(* A region that grows by halves has two bytes at least. *)
Backed == /\ tls.usage <= tls.allocated
          /\ platform # "windows" /\ tls # NoStack => tls.allocated >= 2

CInv == IInv /\ Apart /\ Used /\ Backed

LEMMA InitCInv == StackInit => CInv
BY InitIInv DEF CInv, StackInit, Apart, Used, Backed, NoStack

LEMMA MallocCInv ==
  ASSUME CInv, NEW l \in Requests, NEW a \in Alignments, Malloc(l, a), UNCHANGED platform
  PROVE  CInv'
<1> DEFINE begin == Stack.usage + Padding(Stack.usage, a)
           block == [at |-> begin, length |-> l, align |-> a]
<1>0. IInv /\ Apart /\ Used /\ Backed /\ IInv'
  BY MallocIInv DEF CInv
<1>1. l \in Nat /\ a \in Nat \ {0}
  BY RequestsAssumption
<1>2. /\ Stack \in Shape /\ Stack.usage = tls.usage /\ tls.usage \in Nat
      /\ Stack.usage <= Stack.allocated /\ Stack.allocated \in Nat
      /\ platform # "windows" => Stack.allocated >= 2
  <2>1. Stack \in Shape /\ Stack.usage = tls.usage /\ tls.usage \in Nat
    BY <1>0, StackSame DEF IInv, Shape
  <2>2. CASE tls = NoStack
    BY <2>1, <2>2, StackSizeAssumption DEF Stack, NoStack, Shape
  <2>3. CASE tls # NoStack
    BY <1>0, <2>1, <2>3 DEF Stack, Backed, Shape
  <2>4. QED
    BY <2>1, <2>2, <2>3
<1>3. Padding(Stack.usage, a) \in Nat /\ begin \in Nat /\ begin >= tls.usage /\ begin % a = 0
  <2>1. Stack.usage \in Nat /\ Padding(Stack.usage, a) \in Nat
    BY <1>1, <1>2, PaddingNat
  <2>2. begin % a = 0
    BY <1>1, <2>1, PaddedAligned
  <2>3. QED
    BY <1>2, <2>1, <2>2
<1>4. block \in Blocks /\ Needed(Stack, l, a) = begin + l /\ Needed(Stack, l, a) \in Nat
  BY <1>1, <1>2, <1>3 DEF Blocks, Needed
<1>5. PICK outcome \in EnsureSpace(Stack, Needed(Stack, l, a)) :
        IF outcome.ok
          THEN /\ tls' = [outcome.stack EXCEPT !.usage = @ + Padding(@, a) + l]
               /\ blocks' = Append(blocks, block)
          ELSE tls' = outcome.stack /\ UNCHANGED blocks
  BY DEF Malloc
<1>6. outcome.stack \in Shape /\ outcome.stack.usage = Stack.usage
  BY <1>2, <1>4, <1>5, SpaceSame
<1>7. /\ outcome.stack.allocated >= Stack.allocated
      /\ outcome.ok => outcome.stack.allocated >= begin + l
  BY <1>2, <1>4, <1>5, SpaceEnough
<1>8. CASE ~outcome.ok
  <2>1. tls' = outcome.stack /\ blocks' = blocks /\ platform' = platform
    BY <1>5, <1>8
  <2>2. tls'.usage = tls.usage /\ tls'.usage <= tls'.allocated
        /\ (platform # "windows" => tls'.allocated >= 2)
    BY <1>2, <1>6, <1>7, <2>1 DEF Shape
  <2>3. QED
    BY <1>0, <2>1, <2>2 DEF CInv, Apart, Used, Backed
<1>9. CASE outcome.ok
  <2>1. tls' = [outcome.stack EXCEPT !.usage = begin + l] /\ blocks' = Append(blocks, block)
    BY <1>5, <1>6, <1>9
  <2>2. tls'.usage = begin + l /\ tls'.allocated = outcome.stack.allocated
    BY <1>6, <2>1 DEF Shape
  <2>3. Backed'
    BY <1>2, <1>6, <1>7, <1>9, <2>2 DEF Backed, Shape
  <2>4. /\ blocks \in Seq(Blocks) /\ DOMAIN blocks' = 1..(Len(blocks) + 1)
        /\ DOMAIN blocks = 1..Len(blocks) /\ Len(blocks) \in Nat
        /\ \A i \in 1..Len(blocks) : blocks'[i] = blocks[i] /\ blocks[i] \in Blocks
        /\ blocks'[Len(blocks) + 1] = block
    BY <1>0, <1>4, <2>1 DEF IInv
  <2>5. ASSUME NEW i \in 1..Len(blocks) PROVE blocks[i].at + blocks[i].length <= begin
    <3>1. blocks[i].at + blocks[i].length <= tls.usage /\ blocks[i] \in Blocks
      BY <1>0, <2>4 DEF Used
    <3>2. blocks[i].at + blocks[i].length \in Nat
      BY <3>1 DEF Blocks
    <3>3. QED
      BY <1>2, <1>3, <3>1, <3>2
  <2>6. \A i \in DOMAIN blocks' : i \in 1..Len(blocks) \/ i = Len(blocks) + 1
    BY <2>4
  <2>7. Used'
    <3> SUFFICES ASSUME NEW i \in DOMAIN blocks'
                 PROVE  /\ blocks'[i].at + blocks'[i].length <= tls'.usage
                        /\ blocks'[i].at % blocks'[i].align = 0
      BY DEF Used
    <3>1. CASE i \in 1..Len(blocks)
      <4>1. blocks'[i] = blocks[i] /\ blocks[i] \in Blocks /\ i \in DOMAIN blocks
        BY <2>4, <3>1
      <4>2. blocks[i].at + blocks[i].length <= begin /\ blocks[i].at % blocks[i].align = 0
        BY <1>0, <2>5, <3>1, <4>1 DEF Used
      <4>3. QED
        BY <1>1, <1>3, <2>2, <4>1, <4>2 DEF Blocks
    <3>2. CASE i = Len(blocks) + 1
      BY <1>1, <1>3, <2>2, <2>4, <3>2
    <3>3. QED
      BY <2>6, <3>1, <3>2
  <2>8. Apart'
    <3> SUFFICES ASSUME NEW i \in DOMAIN blocks', NEW j \in DOMAIN blocks', i < j
                 PROVE  blocks'[i].at + blocks'[i].length <= blocks'[j].at
      BY DEF Apart
    <3>1. i \in 1..Len(blocks) /\ blocks'[i] = blocks[i]
      BY <2>4, <2>6
    <3>2. CASE j \in 1..Len(blocks)
      BY <1>0, <2>4, <3>1, <3>2 DEF Apart
    <3>3. CASE j = Len(blocks) + 1
      BY <2>4, <2>5, <3>1, <3>3
    <3>4. QED
      BY <2>6, <3>2, <3>3
  <2>9. QED
    BY <1>0, <2>3, <2>7, <2>8 DEF CInv
<1>10. QED
  BY <1>8, <1>9

LEMMA FreeCInv ==
  ASSUME CInv, NEW i \in DOMAIN blocks, Free(i), UNCHANGED platform
  PROVE  CInv'
<1>0. IInv /\ Apart /\ Used /\ Backed /\ IInv'
  BY FreeIInv DEF CInv
<1>1. /\ blocks \in Seq(Blocks) /\ tls \in Shape /\ i \in 1..Len(blocks)
      /\ \A j \in 1..Len(blocks) : blocks[j] \in Blocks
  BY <1>0 DEF IInv
<1>2. blocks[i].at <= tls.usage /\ blocks[i].at \in Nat /\ tls.usage \in Nat
  <2>1. blocks[i] \in Blocks /\ blocks[i].at + blocks[i].length <= tls.usage
    BY <1>0, <1>1 DEF Used
  <2>2. blocks[i].at \in Nat /\ blocks[i].length \in Nat /\ tls.usage \in Nat
    BY <1>1, <2>1 DEF Blocks, Shape
  <2>3. QED
    BY <2>1, <2>2
<1>3. /\ tls' = [tls EXCEPT !.usage = blocks[i].at]
      /\ tls'.usage = blocks[i].at /\ tls'.allocated = tls.allocated
  <2>1. (IF blocks[i].at < tls.usage THEN blocks[i].at ELSE tls.usage) = blocks[i].at
    BY <1>2
  <2>2. tls' = [tls EXCEPT !.usage = blocks[i].at]
    BY <2>1 DEF Free
  <2>3. QED
    BY <1>1, <2>2 DEF Shape
<1>4. DOMAIN blocks' = 1..(i - 1) /\ \A j \in 1..(i - 1) : blocks'[j] = blocks[j]
  BY <1>1 DEF Free
<1>5. \A j \in 1..(i - 1) : j \in DOMAIN blocks /\ j < i
  BY <1>1
<1>6. Apart'
  BY <1>0, <1>4, <1>5 DEF Apart
<1>7. Used'
  <2> SUFFICES ASSUME NEW j \in 1..(i - 1)
               PROVE  /\ blocks'[j].at + blocks'[j].length <= tls'.usage
                      /\ blocks'[j].at % blocks'[j].align = 0
    BY <1>4 DEF Used
  <2>1. QED
    BY <1>0, <1>3, <1>4, <1>5 DEF Apart, Used
<1>8. Backed'
  BY <1>0, <1>1, <1>2, <1>3 DEF Backed, NoStack, Shape
<1>9. QED
  BY <1>0, <1>6, <1>7, <1>8 DEF CInv

LEMMA StackCInv == CInv /\ [StackNext]_stackvars => CInv'
<1> SUFFICES ASSUME CInv, [StackNext]_stackvars PROVE CInv'
  OBVIOUS
<1>0. IInv'
  BY StackIInv DEF CInv
<1>1. CASE \E l \in Requests, a \in Alignments : Malloc(l, a) /\ UNCHANGED platform
  BY <1>1, MallocCInv
<1>2. CASE \E i \in DOMAIN blocks : Free(i) /\ UNCHANGED platform
  BY <1>2, FreeCInv
<1>3. CASE FreeForeign /\ UNCHANGED platform
  <2>1. tls' = Stack /\ blocks' = blocks /\ Stack.usage = tls.usage
    BY <1>3, StackSame DEF CInv, FreeForeign
  <2>2. Stack.usage <= Stack.allocated /\ (platform # "windows" => Stack.allocated >= 2)
    BY StackSizeAssumption DEF CInv, Backed, Stack, NoStack
  <2>3. QED
    BY <1>0, <1>3, <2>1, <2>2 DEF CInv, Apart, Used, Backed
<1>4. CASE ThreadExit /\ UNCHANGED platform
  BY <1>0, <1>4 DEF ThreadExit, CInv, NoStack, Apart, Used, Backed
<1>5. CASE UNCHANGED stackvars
  BY <1>0, <1>5 DEF stackvars, CInv, Apart, Used, Backed
<1>6. QED
  BY <1>1, <1>2, <1>3, <1>4, <1>5 DEF StackNext

(* Every block lies in committed memory, aligned as asked, and no two share *)
(* a byte: across every growth of the region, every failed one, and every   *)
(* release of a block and of those younger than it; for each platform, each *)
(* size of stack of two bytes or more and each page size.                   *)
THEOREM CarvedHolds == StackSpec => []Carved
<1>1. CInv => Carved
  <2> SUFFICES ASSUME CInv PROVE Carved
    OBVIOUS
  <2>1. DOMAIN blocks = 1..Len(blocks) /\ Len(blocks) \in Nat
    BY DEF CInv, IInv
  <2>2. \A i \in DOMAIN blocks : i # Len(blocks) => i + 1 \in DOMAIN blocks /\ i < i + 1
    BY <2>1
  <2>3. QED
    BY <2>1, <2>2 DEF CInv, Apart, Used, Backed, Carved
<1>2. QED
  BY InitCInv, StackCInv, <1>1, PTL DEF StackSpec
-----------------------------------------------------------------------------
(* The swap of two blocks.  The 64 bit ARM build is excepted: its wide loop *)
(* moves its pointers by less than it has swapped.                          *)
WholeSteps == "arm64" \notin Processors

Moved == call.len - len

(* The widths that are left are halves of each other, down to one byte. *)
Halving(s) == \A i \in 1..Len(s) : s[i] = IF i = Len(s) THEN 1 ELSE 2 * s[i + 1]

(* What has passed the pointers has changed places, and nothing else has    *)
(* been written to.                                                         *)
Places ==
  /\ call.len \in Nat /\ len \in 0..call.len
  /\ \/ call.dst = 0 /\ call.src = call.len
     \/ call.dst = call.len /\ call.src = 0
  /\ dst = call.dst + Moved /\ src = call.src + Moved
  /\ DOMAIN bytes = Addresses(call.len)
  /\ \A a \in DOMAIN bytes :
       bytes[a] = IF a - call.dst \in 0..(Moved - 1) THEN a - call.dst + call.src
                  ELSE IF a - call.src \in 0..(Moved - 1) THEN a - call.src + call.dst
                  ELSE a

(* What is left always fits the widths that are left: once each will do.    *)
Widths ==
  /\ bulk.type \in Nat \ {0} /\ bulk.step = bulk.type
  /\ singles \in Seq(Nat \ {0}) /\ Halving(singles)
  /\ Fits => singles # <<>> /\ bulk.type = 2 * singles[1]
  /\ ~Fits => IF singles = <<>> THEN len = 0 ELSE len < 2 * singles[1]

SwapInv == Places /\ Widths

(* A function whose wide loop moves by what it swaps, and whose single      *)
(* swaps go on from half of that.                                           *)
Whole(f) ==
  /\ f.bulk.type \in Nat \ {0} /\ f.bulk.step = f.bulk.type
  /\ f.singles \in Seq(Nat \ {0}) /\ f.singles # <<>>
  /\ Halving(f.singles) /\ f.bulk.type = 2 * f.singles[1]

LEMMA FunctionsWhole == \A f \in {Generic32, Neon32, Sse2, Avx, Avx512} : Whole(f)
<1>1. Whole(Generic32)
  <2> DEFINE s == <<2, 1>>
  <2>1. Generic32.bulk.type = 4 /\ Generic32.bulk.step = 4 /\ Generic32.singles = s
    BY DEF Generic32, Function
  <2>2. s \in Seq(Nat \ {0}) /\ s # <<>> /\ Len(s) = 2
    OBVIOUS
  <2>3. s[1] = 2 /\ s[2] = 1
    OBVIOUS
  <2> HIDE DEF s
  <2>4. \A i \in 1..2 : i = 1 \/ i = 2
    OBVIOUS
  <2>5. Halving(s)
    BY <2>2, <2>3, <2>4 DEF Halving
  <2>6. QED
    BY <2>1, <2>2, <2>3, <2>5 DEF Whole
<1>2. Whole(Neon32)
  <2> DEFINE s == <<4, 2, 1>>
  <2>1. Neon32.bulk.type = 8 /\ Neon32.bulk.step = 8 /\ Neon32.singles = s
    BY DEF Neon32, Function
  <2>2. s \in Seq(Nat \ {0}) /\ s # <<>> /\ Len(s) = 3
    OBVIOUS
  <2>3. s[1] = 4 /\ s[2] = 2 /\ s[3] = 1
    OBVIOUS
  <2> HIDE DEF s
  <2>4. \A i \in 1..3 : i = 1 \/ i = 2 \/ i = 3
    OBVIOUS
  <2>5. Halving(s)
    BY <2>2, <2>3, <2>4 DEF Halving
  <2>6. QED
    BY <2>1, <2>2, <2>3, <2>5 DEF Whole
<1>3. Whole(Sse2)
  <2> DEFINE s == <<8, 4, 2, 1>>
  <2>1. Sse2.bulk.type = 16 /\ Sse2.bulk.step = 16 /\ Sse2.singles = s
    BY DEF Sse2, Function
  <2>2. s \in Seq(Nat \ {0}) /\ s # <<>> /\ Len(s) = 4
    OBVIOUS
  <2>3. s[1] = 8 /\ s[2] = 4 /\ s[3] = 2 /\ s[4] = 1
    OBVIOUS
  <2> HIDE DEF s
  <2>4. \A i \in 1..4 : i = 1 \/ i = 2 \/ i = 3 \/ i = 4
    OBVIOUS
  <2>5. Halving(s)
    BY <2>2, <2>3, <2>4 DEF Halving
  <2>6. QED
    BY <2>1, <2>2, <2>3, <2>5 DEF Whole
<1>4. Whole(Avx)
  <2> DEFINE s == <<16, 8, 4, 2, 1>>
  <2>1. Avx.bulk.type = 32 /\ Avx.bulk.step = 32 /\ Avx.singles = s
    BY DEF Avx, Function
  <2>2. s \in Seq(Nat \ {0}) /\ s # <<>> /\ Len(s) = 5
    OBVIOUS
  <2>3. s[1] = 16 /\ s[2] = 8 /\ s[3] = 4 /\ s[4] = 2 /\ s[5] = 1
    OBVIOUS
  <2> HIDE DEF s
  <2>4. \A i \in 1..5 : i = 1 \/ i = 2 \/ i = 3 \/ i = 4 \/ i = 5
    OBVIOUS
  <2>5. Halving(s)
    BY <2>2, <2>3, <2>4 DEF Halving
  <2>6. QED
    BY <2>1, <2>2, <2>3, <2>5 DEF Whole
<1>5. Whole(Avx512)
  <2> DEFINE s == <<32, 16, 8, 4, 2, 1>>
  <2>1. Avx512.bulk.type = 64 /\ Avx512.bulk.step = 64 /\ Avx512.singles = s
    BY DEF Avx512, Function
  <2>2. s \in Seq(Nat \ {0}) /\ s # <<>> /\ Len(s) = 6
    OBVIOUS
  <2>3. s[1] = 32 /\ s[2] = 16 /\ s[3] = 8 /\ s[4] = 4 /\ s[5] = 2 /\ s[6] = 1
    OBVIOUS
  <2> HIDE DEF s
  <2>4. \A i \in 1..6 : i = 1 \/ i = 2 \/ i = 3 \/ i = 4 \/ i = 5 \/ i = 6
    OBVIOUS
  <2>5. Halving(s)
    BY <2>2, <2>3, <2>4 DEF Halving
  <2>6. QED
    BY <2>1, <2>2, <2>3, <2>5 DEF Whole
<1>6. QED
  BY <1>1, <1>2, <1>3, <1>4, <1>5

LEMMA InitSwap == ASSUME WholeSteps, SwapInit PROVE SwapInv
<1>0. PICK p \in Processors, l \in SwapLengths, first \in BOOLEAN : \E f \in Variants[p] :
        /\ bytes = [a \in Addresses(l) |-> a]
        /\ dst = (IF first THEN 0 ELSE l) /\ src = (IF first THEN l ELSE 0)
        /\ len = l
        /\ bulk = f.bulk /\ singles = f.singles
        /\ call = [dst |-> dst, src |-> src, len |-> len]
  BY DEF SwapInit
<1>1. PICK f \in Variants[p] :
        /\ bytes = [a \in Addresses(l) |-> a]
        /\ dst = (IF first THEN 0 ELSE l) /\ src = (IF first THEN l ELSE 0)
        /\ len = l
        /\ bulk = f.bulk /\ singles = f.singles
        /\ call = [dst |-> dst, src |-> src, len |-> len]
  BY <1>0
<1>2. l \in Nat
  BY SwapAssumption
<1>3. Places
  <2>1. /\ call.dst = dst /\ call.src = src /\ call.len = l /\ Moved = 0
    BY <1>1, <1>2 DEF Moved
  <2>2. DOMAIN bytes = Addresses(l) /\ \A a \in Addresses(l) : bytes[a] = a /\ a \in Int
    BY <1>1, <1>2, SwapAssumption DEF Addresses
  <2>3. QED
    BY <1>1, <1>2, <2>1, <2>2 DEF Places
<1>4. f \in {Generic32, Neon32, Sse2, Avx, Avx512}
  <2>1. p \in {"x86_64", "i386", "arm"}
    BY ProcessorsAssumption DEF WholeSteps
  <2>2. Variants[p] \in {X86_64, I386, Arm}
    BY <2>1 DEF Variants
  <2>3. QED
    BY <1>1, <2>2 DEF X86_64, I386, Arm
<1>5. Whole(f)
  BY <1>4, FunctionsWhole
<1>6. bulk = f.bulk /\ singles = f.singles
  BY <1>1
<1>7. Widths
  <2>1. len \in Nat /\ bulk.type \in Nat
    BY <1>1, <1>2, <1>5, <1>6 DEF Whole
  <2>2. ~Fits => len < bulk.type
    BY <2>1 DEF Fits
  <2>3. QED
    BY <1>5, <1>6, <2>2 DEF Whole, Widths
<1>8. QED
  BY <1>3, <1>7 DEF SwapInv

(* One exchange of a width that fits. *)
LEMMA BlockSwapped ==
  ASSUME Places, NEW width \in Nat \ {0}, width <= len, BlockSwap(width, width), call' = call
  PROVE  Places' /\ len' = len - width
<1>1. /\ len' = len - width /\ dst' = dst + width /\ src' = src + width
      /\ DOMAIN bytes' = DOMAIN bytes
      /\ \A a \in DOMAIN bytes :
           bytes'[a] = IF a - dst \in 0..(width - 1) THEN bytes[a - dst + src]
                       ELSE IF a - src \in 0..(width - 1) THEN bytes[a - src + dst]
                       ELSE bytes[a]
  BY DEF BlockSwap, Exchange
<1> DEFINE d == call.dst
           s == call.src
           l == call.len
           m == Moved
           n == m + width
<1>2. /\ l \in Nat /\ len \in 0..l /\ m \in 0..l /\ m + width <= l
      /\ (d = 0 /\ s = l) \/ (d = l /\ s = 0)
      /\ dst = d + m /\ src = s + m /\ Moved' = m + width
  BY <1>1 DEF Places, Moved
<1>3. ASSUME NEW a \in DOMAIN bytes
      PROVE  bytes'[a] = IF (a - d) \in 0..(n - 1) THEN a - d + s
                         ELSE IF (a - s) \in 0..(n - 1) THEN a - s + d
                         ELSE a
  <2>1. DOMAIN bytes = -Margin..(2 * l + Margin - 1) /\ Margin \in Nat /\ a \in Int
    BY SwapAssumption DEF Places, Addresses
  <2> DEFINE In(b, from, count) == 0 <= b - from /\ b - from < count
  <2>0. ASSUME NEW b \in Int, NEW from \in Int, NEW count \in Int
        PROVE  (b - from) \in 0..(count - 1) <=> In(b, from, count)
    OBVIOUS
  <2>2. ASSUME NEW b \in DOMAIN bytes
        PROVE  bytes[b] = IF In(b, d, m) THEN b - d + s ELSE IF In(b, s, m) THEN b - s + d ELSE b
    <3>1. bytes[b] = IF (b - d) \in 0..(m - 1) THEN b - d + s
                     ELSE IF (b - s) \in 0..(m - 1) THEN b - s + d ELSE b
      BY DEF Places
    <3>2. b \in Int /\ d \in Int /\ s \in Int /\ m \in Int
      BY SMTT(30), <1>2, <2>1
    <3> HIDE DEF d, s, m, In
    <3>3. QED
      BY <2>0, <3>1, <3>2
  <2>3. bytes'[a] = IF In(a, dst, width) THEN bytes[a - dst + src]
                    ELSE IF In(a, src, width) THEN bytes[a - src + dst] ELSE bytes[a]
    <3>1. dst \in Int /\ src \in Int /\ width \in Int
      BY <1>2
    <3>2. bytes'[a] = IF (a - dst) \in 0..(width - 1) THEN bytes[a - dst + src]
                      ELSE IF (a - src) \in 0..(width - 1) THEN bytes[a - src + dst] ELSE bytes[a]
      BY <1>1
    <3> HIDE DEF In
    <3>3. QED
      BY <2>0, <2>1, <3>1, <3>2
  <2> HIDE DEF d, s, l, m
  <2>4. d \in Int /\ s \in Int
    BY <1>2
  <2>5. ASSUME In(a, dst, width)
        PROVE  bytes'[a] = IF In(a, d, m + width) THEN a - d + s
                           ELSE IF In(a, s, m + width) THEN a - s + d ELSE a
    <3> DEFINE b == a - dst + src
    <3>1. b \in DOMAIN bytes /\ b \in Int
      BY <1>2, <2>1, <2>5
    <3>2. ~In(b, d, m) /\ ~In(b, s, m)
      BY <1>2, <2>1, <2>5
    <3>3. bytes'[a] = b
      BY <2>2, <2>3, <2>5, <3>1, <3>2
    <3>4. QED
      BY <1>2, <2>1, <2>4, <2>5, <3>3
  <2>6. ASSUME In(a, src, width)
        PROVE  bytes'[a] = IF In(a, d, m + width) THEN a - d + s
                           ELSE IF In(a, s, m + width) THEN a - s + d ELSE a
    <3> DEFINE b == a - src + dst
    <3>1. b \in DOMAIN bytes /\ b \in Int /\ ~In(a, dst, width)
      BY <1>2, <2>1, <2>6
    <3>2. ~In(b, d, m) /\ ~In(b, s, m)
      BY <1>2, <2>1, <2>6
    <3>3. bytes'[a] = b
      BY <2>2, <2>3, <2>6, <3>1, <3>2
    <3>4. QED
      BY <1>2, <2>1, <2>4, <2>6, <3>3
  <2>7. ASSUME ~In(a, dst, width), ~In(a, src, width)
        PROVE  bytes'[a] = IF In(a, d, m + width) THEN a - d + s
                           ELSE IF In(a, s, m + width) THEN a - s + d ELSE a
    <3>1. bytes'[a] = bytes[a]
      BY <2>3, <2>7
    <3>2. width \in Int /\ m \in Int /\ m >= 0 /\ width >= 0 /\ dst = d + m /\ src = s + m
      BY <1>2
    <3>3. /\ In(a, d, m + width) <=> In(a, d, m)
          /\ In(a, s, m + width) <=> In(a, s, m)
      BY SMTT(30), <2>1, <2>4, <2>7, <3>2
    <3>4. bytes[a] = IF In(a, d, m) THEN a - d + s ELSE IF In(a, s, m) THEN a - s + d ELSE a
      BY <2>2
    <3> HIDE DEF In
    <3>5. QED
      BY <3>1, <3>3, <3>4
  <2>8. bytes'[a] = IF In(a, d, n) THEN a - d + s ELSE IF In(a, s, n) THEN a - s + d ELSE a
    <3>1. CASE In(a, dst, width)
      BY <2>5, <3>1
    <3>2. CASE ~In(a, dst, width)
      BY <2>6, <2>7, <3>2
    <3>3. QED
      BY <3>1, <3>2
  <2>9. n \in Int
    BY <1>2
  <2> HIDE DEF n, In
  <2>10. /\ (a - d) \in 0..(n - 1) <=> In(a, d, n)
         /\ (a - s) \in 0..(n - 1) <=> In(a, s, n)
    BY <2>0, <2>1, <2>4, <2>9
  <2>11. QED
    BY <2>8, <2>10
<1>4. QED
  BY <1>1, <1>2, <1>3 DEF Places

LEMMA OnceInto ==
  ASSUME NEW n \in Nat, NEW v \in Nat \ {0}, v <= n, n < 2 * v
  PROVE  n \div v = 1
OBVIOUS

LEMMA NextSwap == ASSUME SwapInv, [SwapNext]_swapvars PROVE SwapInv'
<1>0. Places /\ Widths /\ call.len \in Nat /\ len \in Nat
  BY DEF SwapInv, Places
<1>1. CASE BulkSwap
  <2>1. /\ Fits /\ BlockSwap(bulk.type, bulk.type) /\ UNCHANGED <<bulk, singles, call>>
        /\ bulk.type \in Nat \ {0} /\ bulk.type <= len
    BY <1>0, <1>1 DEF BulkSwap, Widths, Fits
  <2>2. Places' /\ len' = len - bulk.type
    BY <1>0, <2>1, BlockSwapped
  <2>3. Widths'
    BY <1>0, <2>1, <2>2 DEF Widths, Fits
  <2>4. QED
    BY <2>2, <2>3 DEF SwapInv
<1>2. CASE SingleSwap
  <2> DEFINE w == singles[1]
  <2>1. /\ ~Fits /\ singles # <<>> /\ singles' = Tail(singles) /\ UNCHANGED <<bulk, call>>
        /\ IF len \div w = 1 THEN BlockSwap(w, w) ELSE UNCHANGED <<bytes, dst, src, len>>
    BY <1>2 DEF SingleSwap
  <2>2. /\ singles \in Seq(Nat \ {0}) /\ Halving(singles) /\ w \in Nat \ {0} /\ len < 2 * w
    BY <1>0, <2>1 DEF Widths
  <2>3. /\ singles' \in Seq(Nat \ {0}) /\ Len(singles') = Len(singles) - 1
        /\ \A i \in 1..Len(singles') : singles'[i] = singles[i + 1]
    BY <2>1, <2>2
  <2>4. ASSUME NEW i \in 1..Len(singles')
        PROVE  singles'[i] = IF i = Len(singles') THEN 1 ELSE 2 * singles'[i + 1]
    <3>1. i + 1 \in 1..Len(singles) /\ singles'[i] = singles[i + 1]
      BY <2>2, <2>3
    <3>2. singles[i + 1] = IF i + 1 = Len(singles) THEN 1 ELSE 2 * singles[(i + 1) + 1]
      BY <2>2, <3>1 DEF Halving
    <3>3. i # Len(singles') => singles'[i + 1] = singles[(i + 1) + 1]
      BY SMTT(30), <2>2, <2>3
    <3>4. QED
      BY SMTT(30), <2>2, <2>3, <3>1, <3>2, <3>3
  <2>5. IF singles' = <<>> THEN w = 1 ELSE w = 2 * singles'[1]
    BY SMTT(30), <2>2, <2>3 DEF Halving
  <2>6. Places' /\ len' \in Nat /\ len' < w /\ len' <= len
    <3>1. CASE len >= w
      <4>1. len \div w = 1
        <5>1. len \in Nat /\ w \in Nat \ {0} /\ w <= len /\ len < 2 * w
          BY <1>0, <2>2, <3>1
        <5> HIDE DEF w
        <5>2. QED
          BY <5>1, OnceInto
      <4>2. BlockSwap(w, w) /\ call' = call /\ w <= len
        BY <2>1, <3>1, <4>1
      <4>3. w \in Nat \ {0}
        BY <2>2
      <4> HIDE DEF w
      <4>4. Places' /\ len' = len - w
        BY <1>0, <4>2, <4>3, BlockSwapped
      <4>5. len < 2 * w
        BY <2>2
      <4>6. QED
        BY <1>0, <3>1, <4>3, <4>4, <4>5
    <3>2. CASE len < w
      <4>1. len \div w = 0
        BY SMTT(30), <1>0, <2>2, <3>2
      <4>2. UNCHANGED <<bytes, dst, src, len, call>>
        BY <2>1, <4>1
      <4>3. QED
        BY <1>0, <3>2, <4>2 DEF Places, Moved
    <3>3. QED
      BY <1>0, <2>2, <3>1, <3>2
  <2>7. ~Fits'
    BY <1>0, <2>1, <2>2, <2>6 DEF Fits, Widths
  <2>8. Halving(singles')
    BY <2>4 DEF Halving
  <2>9. /\ (bulk.type \in Nat \ {0} /\ bulk.step = bulk.type)'
        /\ IF singles' = <<>> THEN len' = 0 ELSE len' < 2 * singles'[1]
    BY <1>0, <2>1, <2>5, <2>6 DEF Widths
  <2>10. Widths'
    BY <2>3, <2>7, <2>8, <2>9 DEF Widths
  <2>11. QED
    BY <2>6, <2>10 DEF SwapInv
<1>3. CASE UNCHANGED swapvars
  BY <1>0, <1>3 DEF swapvars, SwapInv, Places, Widths, Moved, Fits
<1>4. QED
  BY <1>1, <1>2, <1>3 DEF SwapNext

(* memswap exchanges the two blocks byte by byte, whatever their length,    *)
(* and writes to no other byte: the wide loop and the single swaps after it *)
(* come out exactly at the end.                                             *)
THEOREM ExchangedHolds == ASSUME WholeSteps PROVE SwapSpec => []Exchanged
<1>1. SwapInit => SwapInv
  BY InitSwap
<1>2. SwapInv /\ [SwapNext]_swapvars => SwapInv'
  BY NextSwap
<1>3. SwapInv => Exchanged
  <2> SUFFICES ASSUME SwapInv, SwapDone PROVE Moved = call.len /\ Places
    BY DEF Exchanged, Places
  <2>1. ~Fits => len = 0
    BY DEF SwapInv, Widths, SwapDone
  <2>2. Fits => FALSE
    BY DEF SwapInv, Widths, SwapDone
  <2>3. QED
    BY <2>1, <2>2 DEF SwapInv, Places, Moved
<1>4. QED
  BY <1>1, <1>2, <1>3, PTL DEF SwapSpec
-----------------------------------------------------------------------------
LogPlaces == {"idle", "concat", "file", "newline", "stdout", "extras"}

(* The base string is the only one of a thread, and it is there between its *)
(* building and the output to stdout at most; what is left on the stack is  *)
(* left there by a failure or for a console.                                *)
LogInv ==
  /\ at \in [Threads -> LogPlaces] /\ DOMAIN stack = Threads
  /\ heap \subseteq Threads \X {"base"}
  /\ \A t \in Threads : at[t] \in {"idle", "concat", "extras"} => \A h \in heap : h[1] # t
  /\ \A t \in Threads : stack[t] = 0 \/ t \in failed \/ setup.console

LEMMA LogStart == LogInit => LogInv
BY DEF LogInit, Quiet, LogInv, LogPlaces

(* A step of one thread t that goes to place p, or stays. *)
LEMMA OwnStep ==
  ASSUME LogInv, NEW t \in Threads, NEW p \in LogPlaces, setup' = setup,
         at' = [at EXCEPT ![t] = p] \/ at' = at,
         heap' \subseteq heap \cup {<<t, "base">>},
         at'[t] \in {"idle", "concat", "extras"} => <<t, "base">> \notin heap',
         failed \subseteq failed',
         \/ stack' = stack
         \/ \E v : stack' = [stack EXCEPT ![t] = v] /\ (v = stack[t] \/ t \in failed' \/ setup.console)
  PROVE  LogInv'
<1>1. /\ at' \in [Threads -> LogPlaces]
      /\ \A u \in Threads : u # t => at'[u] = at[u]
  BY DEF LogInv
<1>2. DOMAIN stack' = Threads /\ \A u \in Threads : stack'[u] = 0 \/ u \in failed' \/ setup.console
  <2>1. \A u \in Threads : stack[u] = 0 \/ u \in failed' \/ setup.console
    BY DEF LogInv
  <2>2. CASE stack' = stack
    BY <2>1, <2>2 DEF LogInv
  <2>3. ASSUME NEW v, stack' = [stack EXCEPT ![t] = v],
               v = stack[t] \/ t \in failed' \/ setup.console
        PROVE  DOMAIN stack' = Threads /\ \A u \in Threads : stack'[u] = 0 \/ u \in failed' \/ setup.console
    BY <2>1, <2>3 DEF LogInv
  <2>4. QED
    BY <2>2, <2>3
<1>3. /\ heap' \subseteq Threads \X {"base"}
      /\ \A h \in heap' : h \in heap \/ h = <<t, "base">>
  BY DEF LogInv
<1>4. ASSUME NEW u \in Threads, at'[u] \in {"idle", "concat", "extras"}, NEW h \in heap'
      PROVE  h[1] # u
  <2>1. CASE u # t
    <3>1. at[u] \in {"idle", "concat", "extras"}
      BY <1>1, <1>4, <2>1
    <3>2. CASE h \in heap
      BY <3>1, <3>2 DEF LogInv
    <3>3. CASE h = <<t, "base">>
      BY <2>1, <3>3
    <3>4. QED
      BY <1>3, <3>2, <3>3
  <2>2. CASE u = t
    <3>1. h = <<h[1], "base">>
      BY <1>3
    <3>2. QED
      BY <1>4, <2>2, <3>1
  <2>3. QED
    BY <2>1, <2>2
<1>5. QED
  BY <1>1, <1>2, <1>3, <1>4 DEF LogInv

LEMMA LogStepInv == ASSUME LogInv, NEW t \in Threads, LogStep(t) PROVE LogInv'
<1>1. /\ "idle" \in LogPlaces /\ "concat" \in LogPlaces /\ "file" \in LogPlaces /\ "newline" \in LogPlaces
      /\ "stdout" \in LogPlaces /\ "extras" \in LogPlaces
  BY DEF LogPlaces
<1>2. ASSUME NEW l \in MessageLevels, NEW format \in Formats, Log(t, l, format) PROVE LogInv'
  BY <1>1, <1>2, OwnStep DEF Log, Goto, LogInv
<1>3. CASE BuildBase(t)
  BY <1>1, <1>3, OwnStep DEF BuildBase, Goto, NoArray, NoResult, Joined, LogInv
<1>4. CASE WriteText(t)
  BY <1>1, <1>4, OwnStep DEF WriteText, Goto, LogInv
<1>5. CASE WriteNewline(t)
  BY <1>1, <1>5, OwnStep DEF WriteNewline, Goto, LogInv
<1>6. CASE Show(t)
  BY <1>1, <1>6, OwnStep DEF Show, NativePuts, Goto, LogInv
<1>7. CASE ShowNothing(t)
  BY <1>1, <1>7, OwnStep DEF ShowNothing, LogInv
<1>8. ASSUME NEW abort \in BOOLEAN, Extras(t, abort) PROVE LogInv'
  BY <1>1, <1>8, OwnStep DEF Extras, Goto, LogInv
<1>9. QED
  BY <1>2, <1>3, <1>4, <1>5, <1>6, <1>7, <1>8 DEF LogStep

LEMMA LogNextInv == ASSUME LogInv, [LogNext]_logvars PROVE LogInv'
<1>1. CASE LogExit
  BY <1>1 DEF LogExit, LogInv
<1>2. ASSUME NEW l \in Thresholds, SetLevel(l) PROVE LogInv'
  BY <1>2 DEF SetLevel, LogInv
<1>3. ASSUME NEW t \in Threads, LogStep(t) PROVE LogInv'
  BY <1>3, LogStepInv
<1>4. CASE UNCHANGED logvars
  BY <1>4 DEF logvars, LogInv
<1>5. QED
  BY <1>1, <1>2, <1>3, <1>4 DEF LogNext

(* Once logger_log has returned, the thread has given its strings back and, *)
(* but for a failure of malloc and a Windows console, what it had on its    *)
(* fast allocator, whatever the other threads are in the middle of.         *)
THEOREM NothingHeldHolds == LogSpec => []NothingHeld
<1>1. LogInv => NothingHeld
  BY DEF LogInv, NothingHeld
<1>2. QED
  BY LogStart, LogNextInv, <1>1, PTL DEF LogSpec
-----------------------------------------------------------------------------
Calls == [wanted : BOOLEAN, format : Formats]
Outputs == Nat \X {"line", "text", "newline"}

StreamTypes ==
  /\ at \in [Threads -> LogPlaces] /\ level \in Int /\ file \in {"none", "open", "closed"}
  /\ sent \in [Threads -> Seq(Calls)]
  /\ shown \in [Threads -> Seq(Outputs)] /\ written \in [Threads -> Seq(Outputs)]

(* What reaches the output: the messages with text, and as the code is,     *)
(* those whose formatting failed.                                           *)
Through(t) ==
  {k \in DOMAIN sent[t] : sent[t][k].wanted /\ sent[t][k].format # "empty"}
Complete(stream, calls, kinds) == InOrder(stream) /\ Range(stream) = calls \X kinds

(* The calls before the one the thread is in. *)
Earlier(t) == Through(t) \ {MyCall(t)}

(* How far the output of a thread is, by the place where it is. *)
Progress(t) ==
  /\ at[t] \in {"idle", "extras"} => Complete(shown[t], Through(t), {"line"})
  /\ at[t] \notin {"idle", "extras"} => /\ MyCall(t) \in Through(t)
                                        /\ Complete(shown[t], Earlier(t), {"line"})
  /\ file # "none" =>
       /\ at[t] \in {"idle", "extras", "stdout"} => Complete(written[t], Through(t), {"text", "newline"})
       /\ at[t] \in {"concat", "file"} => Complete(written[t], Earlier(t), {"text", "newline"})
       /\ at[t] = "newline" =>
            /\ InOrder(written[t])
            /\ Range(written[t]) = (Earlier(t) \X {"text", "newline"}) \cup {<<MyCall(t), "text">>}

OutInv == StreamTypes /\ \A t \in Threads \ failed : Progress(t)

LEMMA OutStart == LogInit => OutInv
<1> SUFFICES ASSUME LogInit PROVE OutInv
  OBVIOUS
<1>1. /\ level = 0 /\ file \in {"none", "open"}
      /\ at = [t \in Threads |-> "idle"] /\ sent = [t \in Threads |-> <<>>]
      /\ shown = [t \in Threads |-> <<>>] /\ written = [t \in Threads |-> <<>>]
  BY DEF LogInit, Quiet, LOGGER_ALL
<1>2. StreamTypes
  BY <1>1 DEF StreamTypes, LogPlaces
<1>3. ASSUME NEW t \in Threads PROVE Progress(t)
  <2>1. at[t] = "idle" /\ sent[t] = <<>> /\ shown[t] = <<>> /\ written[t] = <<>>
    BY <1>1
  <2>2. Through(t) = {}
    BY <2>1 DEF Through
  <2>3. InOrder(<<>>) /\ Range(<<>>) = {}
    BY DEF InOrder, Range
  <2>4. QED
    BY <2>1, <2>2, <2>3 DEF Progress, Complete
<1>4. QED
  BY <1>2, <1>3 DEF OutInv

(* What comes after all the rest may be appended. *)
LEMMA OneMore ==
  ASSUME NEW S, NEW s \in Seq(S), NEW x \in S, InOrder(s), \A y \in Range(s) : Before(y, x)
  PROVE  InOrder(Append(s, x)) /\ Range(Append(s, x)) = Range(s) \cup {x}
<1>1. PICK n \in Nat : n = Len(s) /\ DOMAIN s = 1..n
  BY LenProperties
<1>2. PICK u : u = Append(s, x)
  OBVIOUS
<1>3. DOMAIN u = 1..(n + 1) /\ u[n + 1] = x /\ \A i \in 1..n : u[i] = s[i]
  BY <1>1, <1>2, AppendProperties
<1>4. Range(u) = Range(s) \cup {x}
  <2>1. \A i \in 1..(n + 1) : i \in 1..n \/ i = n + 1
    OBVIOUS
  <2>2. QED
    BY <1>1, <1>3, <2>1 DEF Range
<1>5. ASSUME NEW i \in 1..(n + 1), NEW j \in 1..(n + 1), i < j PROVE Before(u[i], u[j])
  <2>1. i \in 1..n /\ u[i] = s[i] /\ s[i] \in Range(s)
    BY <1>1, <1>3, <1>5 DEF Range
  <2>2. CASE j = n + 1
    BY <1>3, <2>1, <2>2
  <2>3. CASE j \in 1..n
    BY <1>1, <1>3, <1>5, <2>1, <2>3 DEF InOrder
  <2>4. QED
    BY <2>2, <2>3
<1>6. QED
  BY <1>2, <1>3, <1>4, <1>5 DEF InOrder

(* Other threads *)
LEMMA OthersProgress ==
  ASSUME NEW u, Progress(u), at'[u] = at[u], sent'[u] = sent[u], shown'[u] = shown[u],
         written'[u] = written[u], file' = "none" <=> file = "none"
  PROVE  Progress(u)'
BY DEF Progress, Through, Earlier, MyCall

LEMMA Callers ==
  ASSUME StreamTypes, NEW t \in Threads
  PROVE  /\ MyCall(t) \in Nat /\ Through(t) \subseteq 1..MyCall(t)
         /\ \A c \in Earlier(t) : c \in Nat /\ c < MyCall(t)
<1>1. sent[t] \in Seq(Calls)
  BY DEF StreamTypes
<1>2. MyCall(t) \in Nat /\ DOMAIN sent[t] = 1..MyCall(t)
  BY <1>1, LenProperties DEF MyCall
<1>3. QED
  BY <1>2 DEF Through, Earlier

(* A step of thread t that leaves alone what belongs to the others. *)
OnlyOwn(t) ==
  /\ \A u \in Threads \ {t} : /\ at'[u] = at[u] /\ sent'[u] = sent[u]
                              /\ shown'[u] = shown[u] /\ written'[u] = written[u]
  /\ file' = file /\ failed \subseteq failed'

LEMMA OwnProgress ==
  ASSUME OutInv, NEW t \in Threads, OnlyOwn(t), StreamTypes', t \in failed' \/ Progress(t)'
  PROVE  OutInv'
<1>1. ASSUME NEW u \in Threads \ failed' PROVE Progress(u)'
  <2>1. CASE u = t
    BY <2>1
  <2>2. CASE u # t
    <3>1. Progress(u)
      BY DEF OutInv, OnlyOwn
    <3>2. QED
      BY <2>2, <3>1, OthersProgress DEF OnlyOwn
  <2>3. QED
    BY <2>1, <2>2
<1>2. QED
  BY <1>1 DEF OutInv

LEMMA LogOut ==
  ASSUME OutInv, NEW t \in Threads, NEW l \in MessageLevels, NEW format \in Formats, Log(t, l, format)
  PROVE  OutInv'
<1> DEFINE c == [wanted |-> l >= level, format |-> format]
<1>1. /\ at[t] = "idle" /\ sent' = [sent EXCEPT ![t] = Append(@, c)]
      /\ at' = IF l < level \/ format = "empty" THEN at ELSE [at EXCEPT ![t] = "concat"]
      /\ file' = file /\ shown' = shown /\ written' = written /\ failed' = failed /\ level' = level
  BY DEF Log, Called, Filters, Goto
<1>2. c \in Calls /\ c.wanted = (l >= level) /\ c.format = format
  <2>1. l \in Int /\ level \in Int
    BY LoggerAssumption DEF OutInv, StreamTypes, LOGGER_ALL, LOGGER_OFF
  <2>2. c \in Calls
    BY <2>1 DEF Calls
  <2>3. QED
    BY <2>2
<1>3. StreamTypes /\ l \in Int /\ level \in Int
  BY LoggerAssumption DEF OutInv, StreamTypes, LOGGER_ALL, LOGGER_OFF
<1> HIDE DEF c
<1>4. PICK n \in Nat : n = MyCall(t) /\ Len(sent[t]) = n /\ sent[t] \in Seq(Calls)
  BY <1>3, Callers DEF MyCall, StreamTypes
<1>5. /\ sent'[t] \in Seq(Calls) /\ Len(sent'[t]) = n + 1 /\ DOMAIN sent'[t] = 1..(n + 1) /\ DOMAIN sent[t] = 1..n
      /\ sent'[t][n + 1] = c /\ \A i \in 1..n : sent'[t][i] = sent[t][i]
  <2>1. PICK s \in Seq(Calls) : s = sent[t] /\ Len(s) = n /\ DOMAIN s = 1..n
    BY <1>4, LenProperties
  <2>2. sent'[t] = Append(s, c)
    BY <1>1, <1>3, <2>1 DEF StreamTypes
  <2>3. QED
    BY <1>2, <2>1, <2>2, AppendProperties
<1>6. StreamTypes'
  BY <1>1, <1>3, <1>5 DEF StreamTypes, LogPlaces
<1>7. OnlyOwn(t)
  BY <1>1, <1>3 DEF OnlyOwn, StreamTypes
<1>8. Through(t)' = Through(t) \cup (IF l < level \/ format = "empty" THEN {} ELSE {n + 1})
  <2>1. \A i : i \in 1..(n + 1) <=> i \in 1..n \/ i = n + 1
    OBVIOUS
  <2>2. \A i : i \in Through(t)' <=> i \in 1..(n + 1) /\ sent'[t][i].wanted /\ sent'[t][i].format # "empty"
    BY <1>5 DEF Through
  <2>3. \A i : i \in Through(t) <=> i \in 1..n /\ sent[t][i].wanted /\ sent[t][i].format # "empty"
    BY <1>5 DEF Through
  <2>4. \A i \in 1..n : i \in Through(t)' <=> i \in Through(t)
    BY <1>5, <2>1, <2>2, <2>3
  <2>5. n + 1 \in Through(t)' <=> ~(l < level \/ format = "empty")
    <3>1. (l >= level) <=> ~(l < level)
      BY <1>3
    <3>2. n + 1 \in Through(t)' <=> c.wanted /\ c.format # "empty"
      BY <1>5, <2>1, <2>2
    <3>3. QED
      BY <1>2, <3>1, <3>2
  <2>6. n + 1 \notin Through(t)
    BY <2>3
  <2>7. ASSUME NEW i PROVE i \in Through(t)' <=> i \in Through(t) \cup (IF l < level \/ format = "empty" THEN {} ELSE {n + 1})
    BY <2>1, <2>2, <2>3, <2>4, <2>5, <2>6
  <2>8. QED
    BY <2>7
<1>9. MyCall(t)' = n + 1 /\ n + 1 \notin Through(t)
  BY <1>3, <1>4, <1>5, Callers DEF MyCall
<1>10. t \in failed' \/ Progress(t)'
  <2> SUFFICES ASSUME t \notin failed PROVE Progress(t)'
    BY <1>1
  <2>1. Complete(shown[t], Through(t), {"line"}) /\ (file # "none" => Complete(written[t], Through(t), {"text", "newline"}))
    BY <1>1 DEF OutInv, Progress
  <2>2. CASE l < level \/ format = "empty"
    <3>1. at'[t] = "idle" /\ Through(t)' = Through(t)
      BY <1>1, <1>8, <2>2
    <3>2. QED
      BY <1>1, <2>1, <3>1 DEF Progress
  <2>3. CASE ~(l < level \/ format = "empty")
    <3>1. at'[t] = "concat" /\ Earlier(t)' = Through(t) /\ MyCall(t)' \in Through(t)'
      BY <1>1, <1>3, <1>8, <1>9, <2>3 DEF Earlier, StreamTypes
    <3>2. QED
      BY <1>1, <2>1, <3>1 DEF Progress
  <2>4. QED
    BY <2>2, <2>3
<1>11. QED
  BY <1>6, <1>7, <1>10, OwnProgress

(* Steps within a call *)
LEMMA SameCall ==
  ASSUME NEW t, sent' = sent
  PROVE  Through(t)' = Through(t) /\ Earlier(t)' = Earlier(t) /\ MyCall(t)' = MyCall(t)
BY DEF Through, Earlier, MyCall

LEMMA BuildOut == ASSUME OutInv, NEW t \in Threads, BuildBase(t) PROVE OutInv'
<1>1. /\ at[t] = "concat" /\ at' = [at EXCEPT ![t] = "file"] /\ sent' = sent /\ shown' = shown
      /\ written' = written /\ file' = file /\ level' = level /\ failed \subseteq failed'
  BY DEF BuildBase, Goto, NoArray, NoResult, Joined
<1>2. StreamTypes' /\ OnlyOwn(t) /\ at'[t] = "file"
  BY <1>1 DEF OutInv, StreamTypes, LogPlaces, OnlyOwn
<1>3. t \in failed' \/ Progress(t)'
  BY <1>1, <1>2, SameCall DEF OutInv, Progress
<1>4. QED
  BY <1>2, <1>3, OwnProgress

LEMMA TextOut == ASSUME OutInv, NEW t \in Threads, WriteText(t) PROVE OutInv'
<1>1. /\ at[t] = "file" /\ sent' = sent /\ shown' = shown /\ file' = file /\ level' = level /\ failed' = failed
  BY DEF WriteText
<1>2. \/ file = "none" /\ at' = [at EXCEPT ![t] = "stdout"] /\ written' = written
      \/ at' = at /\ written' = written
      \/ /\ file = "open" /\ at' = [at EXCEPT ![t] = "newline"]
         /\ written' = [written EXCEPT ![t] = Append(@, <<MyCall(t), "text">>)]
  BY DEF WriteText, Goto, Output, OutInv, StreamTypes
<1>3. StreamTypes /\ (t \in failed \/ Progress(t))
  BY DEF OutInv
<1>4. MyCall(t) \in Nat /\ \A c \in Earlier(t) : c \in Nat /\ c < MyCall(t)
  BY <1>3, Callers
<1>5. CASE file = "none" /\ at' = [at EXCEPT ![t] = "stdout"] /\ written' = written
  <2>1. StreamTypes' /\ OnlyOwn(t) /\ at'[t] = "stdout"
    BY <1>1, <1>3, <1>5 DEF StreamTypes, LogPlaces, OnlyOwn
  <2>2. t \in failed' \/ Progress(t)'
    BY <1>1, <1>3, <1>5, <2>1, SameCall DEF Progress
  <2>3. QED
    BY <2>1, <2>2, OwnProgress
<1>6. CASE at' = at /\ written' = written
  <2>1. StreamTypes' /\ OnlyOwn(t)
    BY <1>1, <1>3, <1>6 DEF StreamTypes, OnlyOwn
  <2>2. t \in failed' \/ Progress(t)'
    BY <1>1, <1>3, <1>6, SameCall DEF Progress
  <2>3. QED
    BY <2>1, <2>2, OwnProgress
<1>7. CASE /\ file = "open" /\ at' = [at EXCEPT ![t] = "newline"]
           /\ written' = [written EXCEPT ![t] = Append(@, <<MyCall(t), "text">>)]
  <2>1. at'[t] = "newline" /\ written'[t] = Append(written[t], <<MyCall(t), "text">>) /\ written[t] \in Seq(Outputs)
    BY <1>3, <1>7 DEF StreamTypes
  <2>2. <<MyCall(t), "text">> \in Outputs
    BY <1>4 DEF Outputs
  <2>3. written'[t] \in Seq(Outputs)
    BY <2>1, <2>2
  <2>4. StreamTypes' /\ OnlyOwn(t)
    BY <1>1, <1>3, <1>7, <2>3 DEF StreamTypes, LogPlaces, OnlyOwn
  <2>5. t \in failed' \/ Progress(t)'
    <3> SUFFICES ASSUME t \notin failed PROVE Progress(t)'
      BY <1>1
    <3>1. /\ MyCall(t) \in Through(t) /\ Complete(shown[t], Earlier(t), {"line"})
          /\ Complete(written[t], Earlier(t), {"text", "newline"})
      BY <1>1, <1>3, <1>7 DEF Progress
    <3>2. /\ InOrder(written'[t])
          /\ Range(written'[t]) = (Earlier(t) \X {"text", "newline"}) \cup {<<MyCall(t), "text">>}
      <4>1. \A y \in Range(written[t]) : Before(y, <<MyCall(t), "text">>)
        BY <1>4, <3>1 DEF Complete, Before
      <4>2. PICK s \in Seq(Outputs), x \in Outputs : s = written[t] /\ x = <<MyCall(t), "text">>
        BY <2>1, <2>2
      <4>3. InOrder(s) /\ (\A y \in Range(s) : Before(y, x)) /\ Range(s) = Earlier(t) \X {"text", "newline"}
        BY Zenon, <1>4, <3>1, <4>1, <4>2 DEF Complete
      <4>4. InOrder(Append(s, x)) /\ Range(Append(s, x)) = Range(s) \cup {x}
        BY <4>3, OneMore
      <4>5. QED
        BY Zenon, <2>1, <4>2, <4>3, <4>4
    <3>3. QED
      BY <1>1, <2>1, <3>1, <3>2, SameCall DEF Progress
  <2>6. QED
    BY <2>4, <2>5, OwnProgress
<1>8. QED
  BY <1>2, <1>5, <1>6, <1>7

LEMMA NewlineOut == ASSUME OutInv, NEW t \in Threads, WriteNewline(t) PROVE OutInv'
<1>1. /\ at[t] = "newline" /\ sent' = sent /\ shown' = shown /\ file' = file /\ level' = level /\ failed' = failed
  BY DEF WriteNewline
<1>2. \/ at' = at /\ written' = written
      \/ /\ at' = [at EXCEPT ![t] = "stdout"]
         /\ written' = [written EXCEPT ![t] = Append(@, <<MyCall(t), "newline">>)]
  BY DEF WriteNewline, Goto, Output
<1>3. StreamTypes /\ (t \in failed \/ Progress(t))
  BY DEF OutInv
<1>4. MyCall(t) \in Nat /\ \A c \in Earlier(t) : c \in Nat /\ c < MyCall(t)
  BY <1>3, Callers
<1>5. CASE at' = at /\ written' = written
  <2>1. StreamTypes' /\ OnlyOwn(t)
    BY <1>1, <1>3, <1>5 DEF StreamTypes, OnlyOwn
  <2>2. t \in failed' \/ Progress(t)'
    BY <1>1, <1>3, <1>5, SameCall DEF Progress
  <2>3. QED
    BY <2>1, <2>2, OwnProgress
<1>6. CASE /\ at' = [at EXCEPT ![t] = "stdout"]
           /\ written' = [written EXCEPT ![t] = Append(@, <<MyCall(t), "newline">>)]
  <2>1. at'[t] = "stdout" /\ written'[t] = Append(written[t], <<MyCall(t), "newline">>) /\ written[t] \in Seq(Outputs)
    BY <1>3, <1>6 DEF StreamTypes
  <2>2. <<MyCall(t), "newline">> \in Outputs
    BY <1>4 DEF Outputs
  <2>3. written'[t] \in Seq(Outputs)
    BY <2>1, <2>2
  <2>4. StreamTypes' /\ OnlyOwn(t)
    BY <1>1, <1>3, <1>6, <2>3 DEF StreamTypes, LogPlaces, OnlyOwn
  <2>5. t \in failed' \/ Progress(t)'
    <3> SUFFICES ASSUME t \notin failed PROVE Progress(t)'
      BY <1>1
    <3>1. MyCall(t) \in Through(t) /\ Complete(shown[t], Earlier(t), {"line"})
      BY <1>1, <1>3 DEF Progress
    <3>2. file # "none" => Complete(written'[t], Through(t), {"text", "newline"})
      <4> SUFFICES ASSUME file # "none" PROVE Complete(written'[t], Through(t), {"text", "newline"})
        OBVIOUS
      <4>1. /\ InOrder(written[t])
            /\ Range(written[t]) = (Earlier(t) \X {"text", "newline"}) \cup {<<MyCall(t), "text">>}
        BY <1>1, <1>3 DEF Progress
      <4>2. \A y \in Range(written[t]) : Before(y, <<MyCall(t), "newline">>)
        BY <1>4, <4>1 DEF Before
      <4>3. InOrder(written'[t]) /\ Range(written'[t]) = Range(written[t]) \cup {<<MyCall(t), "newline">>}
        <5>1. PICK s \in Seq(Outputs), x \in Outputs : s = written[t] /\ x = <<MyCall(t), "newline">>
          BY <2>1, <2>2
        <5>2. InOrder(s) /\ \A y \in Range(s) : Before(y, x)
          BY Zenon, <4>1, <4>2, <5>1
        <5>3. InOrder(Append(s, x)) /\ Range(Append(s, x)) = Range(s) \cup {x}
          BY <5>2, OneMore
        <5>4. QED
          BY Zenon, <2>1, <5>1, <5>3
      <4>4. Through(t) = Earlier(t) \cup {MyCall(t)}
        BY <3>1 DEF Earlier
      <4>5. Range(written'[t]) = Through(t) \X {"text", "newline"}
        BY <4>1, <4>3, <4>4
      <4>6. QED
        BY <4>3, <4>5 DEF Complete
    <3>3. QED
      BY <1>1, <2>1, <3>1, <3>2, SameCall DEF Progress
  <2>6. QED
    BY <2>4, <2>5, OwnProgress
<1>7. QED
  BY <1>2, <1>5, <1>6

LEMMA ShowOut == ASSUME OutInv, NEW t \in Threads, Show(t) PROVE OutInv'
<1>1. /\ at[t] = "stdout" /\ sent' = sent /\ file' = file /\ level' = level /\ failed' = failed
      /\ written' = written /\ at' = [at EXCEPT ![t] = "extras"]
      /\ shown' = [shown EXCEPT ![t] = Append(@, <<MyCall(t), "line">>)]
  BY DEF Show, NativePuts, Goto, Output
<1>2. StreamTypes /\ (t \in failed \/ Progress(t))
  BY DEF OutInv
<1>3. MyCall(t) \in Nat /\ \A c \in Earlier(t) : c \in Nat /\ c < MyCall(t)
  BY <1>2, Callers
<1>4. at'[t] = "extras" /\ shown'[t] = Append(shown[t], <<MyCall(t), "line">>) /\ shown[t] \in Seq(Outputs)
  BY <1>1, <1>2 DEF StreamTypes
<1>5. <<MyCall(t), "line">> \in Outputs
  BY <1>3 DEF Outputs
<1>6. shown'[t] \in Seq(Outputs)
  BY <1>4, <1>5
<1>7. StreamTypes' /\ OnlyOwn(t)
  BY <1>1, <1>2, <1>6 DEF StreamTypes, LogPlaces, OnlyOwn
<1>8. t \in failed' \/ Progress(t)'
  <2> SUFFICES ASSUME t \notin failed PROVE Progress(t)'
    BY <1>1
  <2>1. /\ MyCall(t) \in Through(t) /\ Complete(shown[t], Earlier(t), {"line"})
        /\ file # "none" => Complete(written[t], Through(t), {"text", "newline"})
    BY <1>1, <1>2 DEF Progress
  <2>2. InOrder(shown'[t]) /\ Range(shown'[t]) = (Earlier(t) \X {"line"}) \cup {<<MyCall(t), "line">>}
    <3>1. \A y \in Range(shown[t]) : Before(y, <<MyCall(t), "line">>)
      BY <1>3, <2>1 DEF Complete, Before
    <3>2. PICK s \in Seq(Outputs), x \in Outputs : s = shown[t] /\ x = <<MyCall(t), "line">>
      BY <1>4, <1>5
    <3>3. InOrder(s) /\ (\A y \in Range(s) : Before(y, x)) /\ Range(s) = Earlier(t) \X {"line"}
      BY Zenon, <1>3, <2>1, <3>1, <3>2 DEF Complete
    <3>4. InOrder(Append(s, x)) /\ Range(Append(s, x)) = Range(s) \cup {x}
      BY <3>3, OneMore
    <3>5. QED
      BY Zenon, <1>4, <3>2, <3>3, <3>4
  <2>3. Through(t) = Earlier(t) \cup {MyCall(t)}
    BY <2>1 DEF Earlier
  <2>4. Range(shown'[t]) = Through(t) \X {"line"}
    BY <2>2, <2>3
  <2>5. Complete(shown'[t], Through(t), {"line"})
    BY <2>2, <2>4 DEF Complete
  <2>6. QED
    BY <1>1, <1>4, <2>1, <2>5, SameCall DEF Progress
<1>9. QED
  BY <1>7, <1>8, OwnProgress

LEMMA ExtrasOut == ASSUME OutInv, NEW t \in Threads, NEW abort \in BOOLEAN, Extras(t, abort) PROVE OutInv'
<1>1. /\ at[t] = "extras" /\ sent' = sent /\ file' = file /\ level' = level /\ failed' = failed
      /\ written' = written /\ shown' = shown
      /\ at' = at \/ at' = [at EXCEPT ![t] = "idle"]
  BY DEF Extras, Goto
<1>2. StreamTypes /\ (t \in failed \/ Progress(t))
  BY DEF OutInv
<1>3. at'[t] \in {"idle", "extras"} /\ StreamTypes' /\ OnlyOwn(t)
  BY <1>1, <1>2 DEF StreamTypes, LogPlaces, OnlyOwn
<1>4. t \in failed' \/ Progress(t)'
  BY <1>1, <1>2, <1>3, SameCall DEF Progress
<1>5. QED
  BY <1>3, <1>4, OwnProgress

(* The steps that are no output: the level, the exit, the end by a crash. *)
LEMMA SilentOut ==
  ASSUME OutInv, at' = at, sent' = sent, shown' = shown, written' = written, failed' = failed,
         level' \in Int, file' \in {"none", "open", "closed"}, file' = "none" <=> file = "none"
  PROVE  OutInv'
<1>1. StreamTypes'
  BY DEF OutInv, StreamTypes
<1>2. ASSUME NEW u \in Threads \ failed' PROVE Progress(u)'
  BY OthersProgress DEF OutInv
<1>3. QED
  BY <1>1, <1>2 DEF OutInv

LEMMA OutNext == ASSUME OutInv, [LogNext]_logvars PROVE OutInv'
<1>1. level \in Int /\ file \in {"none", "open", "closed"}
  BY DEF OutInv, StreamTypes
<1>2. CASE LogExit
  BY <1>1, <1>2, SilentOut DEF LogExit
<1>3. ASSUME NEW l \in Thresholds, SetLevel(l) PROVE OutInv'
  <2>1. level' \in Int
    BY <1>1, <1>3, LoggerAssumption DEF SetLevel
  <2>2. QED
    BY <1>1, <1>3, <2>1, SilentOut DEF SetLevel
<1>4. ASSUME NEW t \in Threads, LogStep(t) PROVE OutInv'
  <2>1. CASE ShowNothing(t)
    BY <1>1, <2>1, SilentOut DEF ShowNothing
  <2>2. QED
    BY <1>4, <2>1, LogOut, BuildOut, TextOut, NewlineOut, ShowOut, ExtrasOut DEF LogStep
<1>5. CASE UNCHANGED logvars
  BY <1>1, <1>5, SilentOut DEF logvars
<1>6. QED
  BY <1>2, <1>3, <1>4, <1>5 DEF LogNext

(* What the level lets through reaches the file and stdout, each message of *)
(* a thread once, in order and with its end of line, and nothing else does, *)
(* for any number of threads and calls; a message that could not be         *)
(* formatted may be among it.                                               *)
THEOREM MessagesOutHolds == LogSpec => []MessagesOut
<1>1. ASSUME NEW t \in Threads, StreamTypes
      PROVE  Passed(t) \subseteq Through(t) /\ Through(t) \subseteq Passed(t) \cup Unformatted(t)
  <2>1. DOMAIN sent[t] = 1..Len(sent[t]) /\ \A k \in DOMAIN sent[t] : sent[t][k] \in Calls
    BY <1>1, LenProperties, ElementOfSeq DEF StreamTypes
  <2>2. \A k \in DOMAIN sent[t] : sent[t][k].format \in {"text", "empty", "failed"}
    BY <2>1 DEF Calls, Formats
  <2>3. QED
    BY <2>2 DEF Passed, Unformatted, LetThrough, Through
<1>2. ASSUME NEW t \in Threads, StreamTypes, NEW stream, NEW kinds, Complete(stream, Through(t), kinds)
      PROVE  PutOut(t, stream, kinds)
  BY <1>1, <1>2 DEF Complete, PutOut
<1>3. OutInv => MessagesOut
  BY <1>2 DEF OutInv, Progress, MessagesOut
<1>4. QED
  BY OutStart, OutNext, <1>3, PTL DEF LogSpec
=============================================================================
