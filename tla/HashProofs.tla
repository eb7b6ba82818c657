----------------------------- MODULE HashProofs -----------------------------
(***************************************************************************)
(* What is proved of module Hash for every length and address of the       *)
(* message: how the bytes are read, and that each of them, the seed and    *)
(* the length have a way into the result.                                  *)
(***************************************************************************)
EXTENDS Hash, WellFoundedInduction, SequenceTheorems, TLAPS

(* The reads rs take the bytes from one index up to another, each once.     *)
(* Register r takes those from offset at[r] on, into as many lanes as it is *)
(* wide.                                                                    *)
Placed(rs, from, to, width, at) ==
  /\ \A r \in rs : /\ r.register \in DOMAIN at
                   /\ r.size \in Nat \ {0} /\ r.lane \in Nat /\ r.from \in Nat
                   /\ r.from = from + at[r.register] + r.lane
                   /\ r.lane + r.size <= width /\ r.from + r.size <= to
  /\ \A b \in from..(to - 1) : \E r \in rs : r.from <= b /\ b < r.from + r.size
  /\ \A r, s \in rs : r # s => r.from + r.size <= s.from \/ s.from + s.size <= r.from

LEMMA BytesAre ==
  /\ BytesOf({}) = {}
  /\ \A rs : (\A r \in rs : r.from \in Nat /\ r.size \in Nat) =>
       BytesOf(rs) = UNION {r.from..(r.from + r.size - 1) : r \in rs}
<1>1. ASSUME NEW from \in Nat, NEW size \in Nat
      PROVE  {from + i : i \in 0..(size - 1)} = from..(from + size - 1)
  <2>1. ASSUME NEW b \in from..(from + size - 1) PROVE \E i \in 0..(size - 1) : b = from + i
    <3>1. b - from \in 0..(size - 1) /\ b = from + (b - from)
      OBVIOUS
    <3>2. QED
      BY <3>1
  <2>2. QED
    BY <2>1
<1>2. ASSUME NEW rs, \A r \in rs : r.from \in Nat /\ r.size \in Nat
      PROVE  BytesOf(rs) = UNION {r.from..(r.from + r.size - 1) : r \in rs}
  <2>1. \A r \in rs : {r.from + i : i \in 0..(r.size - 1)} = r.from..(r.from + r.size - 1)
    BY <1>1, <1>2
  <2>2. \A b : b \in BytesOf(rs) <=> \E r \in rs : b \in {r.from + i : i \in 0..(r.size - 1)}
    BY Zenon DEF BytesOf
  <2>3. \A b : b \in BytesOf(rs) <=> \E r \in rs : b \in r.from..(r.from + r.size - 1)
    BY <2>1, <2>2, Zenon
  <2>4. QED
    BY <2>3
<1>3. BytesOf({}) = {}
  BY DEF BytesOf
<1>4. QED
  BY <1>2, <1>3

LEMMA PlacedOnce ==
  ASSUME NEW rs, NEW from \in Nat, NEW to \in Nat, NEW width \in Nat, NEW D, NEW at \in [D -> Nat],
         Placed(rs, from, to, width, at)
  PROVE  /\ BytesOf(rs) = from..(to - 1)
         /\ \A r, s \in rs : r # s => /\ Lanes(r) \cap Lanes(s) = {}
                                      /\ BytesOf({r}) \cap BytesOf({s}) = {}
<1>1. \A r \in rs : /\ r.register \in D /\ r.size \in Nat \ {0} /\ r.lane \in Nat /\ r.from \in Nat
                    /\ at[r.register] \in Nat
                    /\ r.from = from + at[r.register] + r.lane /\ r.from + r.size <= to
  BY DEF Placed
<1>0. BytesOf(rs) = UNION {r.from..(r.from + r.size - 1) : r \in rs}
  BY <1>1, BytesAre
<1>2. BytesOf(rs) \subseteq from..(to - 1)
  <2>1. ASSUME NEW r \in rs, NEW b \in r.from..(r.from + r.size - 1) PROVE b \in from..(to - 1)
    BY <1>1
  <2>2. QED
    BY <1>0, <2>1
<1>3. ASSUME NEW b \in from..(to - 1) PROVE b \in BytesOf(rs)
  <2>1. PICK r \in rs : r.from <= b /\ b < r.from + r.size
    BY DEF Placed
  <2>2. b \in r.from..(r.from + r.size - 1)
    BY <1>1, <2>1
  <2>3. QED
    BY <1>0, <2>2
<1>4. ASSUME NEW r \in rs, NEW s \in rs, r # s
      PROVE  Lanes(r) \cap Lanes(s) = {} /\ BytesOf({r}) \cap BytesOf({s}) = {}
  <2>1. r.from + r.size <= s.from \/ s.from + s.size <= r.from
    BY <1>4 DEF Placed
  <2>2. BytesOf({r}) = r.from..(r.from + r.size - 1) /\ BytesOf({s}) = s.from..(s.from + s.size - 1)
    <3>1. ASSUME NEW x \in rs PROVE BytesOf({x}) = x.from..(x.from + x.size - 1)
      <4>1. BytesOf({x}) = UNION {y.from..(y.from + y.size - 1) : y \in {x}}
        BY <1>1, BytesAre
      <4>2. QED
        BY <4>1
    <3>2. QED
      BY <3>1
  <2>3. (r.from..(r.from + r.size - 1)) \cap (s.from..(s.from + s.size - 1)) = {}
    BY <1>1, <2>1
  <2>4. ASSUME NEW b \in r.lane..(r.lane + r.size - 1), NEW c \in s.lane..(s.lane + s.size - 1),
               <<r.register, b>> = <<s.register, c>>
        PROVE  FALSE
    <3>1. r.register = s.register /\ b = c
      BY <2>4
    <3> DEFINE a == at[r.register]
    <3>2. a \in Nat /\ r.from = from + a + r.lane /\ s.from = from + a + s.lane
      BY <1>1, <3>1
    <3> HIDE DEF a
    <3>3. b \in Nat /\ r.lane <= b /\ b < r.lane + r.size /\ s.lane <= b /\ b < s.lane + s.size
      BY <1>1, <3>1
    <3>4. QED
      BY <1>1, <2>1, <3>2, <3>3
  <2>5. Lanes(r) \cap Lanes(s) = {}
    BY <2>4 DEF Lanes
  <2>6. QED
    BY <2>2, <2>3, <2>5
<1>5. BytesOf(rs) = from..(to - 1)
  BY <1>2, <1>3
<1>6. QED
  BY <1>4, <1>5
-----------------------------------------------------------------------------
(* Where in a block the words of the registers come from. *)
ShortAt == [r \in 0..3 |-> IF r = 2 THEN 0 ELSE IF r = 3 THEN 8 ELSE IF r = 0 THEN 16 ELSE 24]
LongAt == [r \in 0..(NUM_VARS - 1) |-> 8 * r]
StripeAt == [r \in 0..3 |-> 4 * r]

LEMMA AtTyped ==
  /\ ShortAt \in [0..3 -> Nat]
  /\ LongAt \in [0..(NUM_VARS - 1) -> Nat]
  /\ StripeAt \in [0..3 -> Nat]
<1>1. ShortAt \in [0..3 -> Nat]
  BY DEF ShortAt
<1>2. LongAt \in [0..(NUM_VARS - 1) -> Nat]
  BY DEF LongAt, NUM_VARS
<1>3. StripeAt \in [0..3 -> Nat]
  BY DEF StripeAt
<1>4. QED
  BY <1>1, <1>2, <1>3

LEMMA BlockPlaced ==
  ASSUME NEW n \in Nat
  PROVE  Placed({Full(2, n, 8), Full(3, n + 8, 8)} \cup {Full(0, n + 16, 8), Full(1, n + 24, 8)},
                n, n + 32, 8, ShortAt)
BY DEF Placed, Full, ShortAt

LEMMA HalfPlaced ==
  ASSUME NEW n \in Nat
  PROVE  Placed({Full(2, n, 8), Full(3, n + 8, 8)}, n, n + 16, 8, ShortAt)
BY DEF Placed, Full, ShortAt

LEMMA WordsPlaced ==
  ASSUME NEW n \in Nat
  PROVE  Placed({Full(r, n + 8 * r, 8) : r \in 0..(NUM_VARS - 1)}, n, n + BLOCK_SIZE, 8, LongAt)
<1> DEFINE rs == {Full(r, n + 8 * r, 8) : r \in 0..(NUM_VARS - 1)}
<1>1. ASSUME NEW x \in rs
      PROVE  \E r \in 0..11 : /\ x = Full(r, n + 8 * r, 8) /\ x.register = r
                              /\ x.from = n + 8 * r /\ x.size = 8 /\ x.lane = 0
  BY DEF Full, NUM_VARS
<1>2. ASSUME NEW r \in 0..11
      PROVE  \E x \in rs : x.from = n + 8 * r /\ x.size = 8
  <2>1. Full(r, n + 8 * r, 8) \in rs
    BY DEF NUM_VARS
  <2>2. Full(r, n + 8 * r, 8).from = n + 8 * r /\ Full(r, n + 8 * r, 8).size = 8
    BY DEF Full
  <2> HIDE DEF rs
  <2>3. QED
    BY <2>1, <2>2
<1>3. DOMAIN LongAt = 0..11 /\ \A r \in 0..11 : LongAt[r] = 8 * r
  BY DEF LongAt, NUM_VARS
<1>4. n + BLOCK_SIZE = n + 96
  BY DEF BLOCK_SIZE, NUM_VARS
<1> HIDE DEF rs
<1>5. ASSUME NEW x \in rs
      PROVE  /\ x.register \in DOMAIN LongAt
             /\ x.size \in Nat \ {0} /\ x.lane \in Nat /\ x.from \in Nat
             /\ x.from = n + LongAt[x.register] + x.lane
             /\ x.lane + x.size <= 8 /\ x.from + x.size <= n + 96
  BY <1>1, <1>3
<1>6. ASSUME NEW b \in n..(n + 96 - 1) PROVE \E x \in rs : x.from <= b /\ b < x.from + x.size
  <2> DEFINE r == (b - n) \div 8
  <2>1. r \in 0..11 /\ n + 8 * r <= b /\ b < n + 8 * r + 8
    OBVIOUS
  <2> HIDE DEF r
  <2>2. QED
    BY <1>2, <2>1
<1>7. ASSUME NEW x \in rs, NEW y \in rs, x # y
      PROVE  x.from + x.size <= y.from \/ y.from + y.size <= x.from
  <2>1. PICK r \in 0..11 : x = Full(r, n + 8 * r, 8) /\ x.from = n + 8 * r /\ x.size = 8
    BY <1>1
  <2>2. PICK s \in 0..11 : y = Full(s, n + 8 * s, 8) /\ y.from = n + 8 * s /\ y.size = 8
    BY <1>1
  <2>3. r # s
    BY <1>7, <2>1, <2>2
  <2>4. QED
    BY <2>1, <2>2, <2>3
<1>8. QED
  BY <1>4, <1>5, <1>6, <1>7 DEF Placed, rs

LEMMA CopyPlaced ==
  ASSUME NEW n \in Nat, NEW count \in 0..(BLOCK_SIZE - 1)
  PROVE  Placed({Single(i \div 8, n + i, i % 8) : i \in 0..(count - 1)}, n, n + count, 8, LongAt)
<1> DEFINE rs == {Single(i \div 8, n + i, i % 8) : i \in 0..(count - 1)}
<1>1. count \in 0..95 /\ DOMAIN LongAt = 0..11 /\ \A r \in 0..11 : LongAt[r] = 8 * r
  BY DEF BLOCK_SIZE, NUM_VARS, LongAt
<1>2. ASSUME NEW x \in rs
      PROVE  \E i \in 0..(count - 1) :
               /\ x = Single(i \div 8, n + i, i % 8) /\ x.register = i \div 8
               /\ x.from = n + i /\ x.size = 1 /\ x.lane = i % 8
  BY DEF Single
<1>3. ASSUME NEW i \in 0..(count - 1) PROVE \E x \in rs : x.from = n + i /\ x.size = 1
  <2> DEFINE x == Single(i \div 8, n + i, i % 8)
  <2>1. x \in rs
    OBVIOUS
  <2>2. x.from = n + i /\ x.size = 1
    BY DEF Single
  <2> HIDE DEF rs, x
  <2>3. QED
    BY <2>1, <2>2
<1> HIDE DEF rs
<1>4. ASSUME NEW x \in rs
      PROVE  /\ x.register \in DOMAIN LongAt
             /\ x.size \in Nat \ {0} /\ x.lane \in Nat /\ x.from \in Nat
             /\ x.from = n + LongAt[x.register] + x.lane
             /\ x.lane + x.size <= 8 /\ x.from + x.size <= n + count
  <2>1. PICK i \in 0..(count - 1) : /\ x.register = i \div 8
                                    /\ x.from = n + i /\ x.size = 1 /\ x.lane = i % 8
    BY <1>2
  <2>2. i \div 8 \in 0..11 /\ i % 8 \in 0..7 /\ i = 8 * (i \div 8) + (i % 8)
    BY <1>1
  <2>3. QED
    BY <1>1, <2>1, <2>2
<1>5. ASSUME NEW b \in n..(n + count - 1) PROVE \E x \in rs : x.from <= b /\ b < x.from + x.size
  <2>1. PICK x \in rs : x.from = n + (b - n) /\ x.size = 1
    BY <1>1, <1>3
  <2>2. QED
    BY <1>1, <2>1
<1>6. ASSUME NEW x \in rs, NEW y \in rs, x # y
      PROVE  x.from + x.size <= y.from \/ y.from + y.size <= x.from
  <2>1. PICK i \in 0..(count - 1) : x = Single(i \div 8, n + i, i % 8) /\ x.from = n + i /\ x.size = 1
    BY <1>2
  <2>2. PICK j \in 0..(count - 1) : y = Single(j \div 8, n + j, j % 8) /\ y.from = n + j /\ y.size = 1
    BY <1>2
  <2>3. i # j
    BY <1>6, <2>1, <2>2
  <2>4. QED
    BY <1>1, <2>1, <2>2, <2>3
<1>7. Placed(rs, n, n + count, 8, LongAt)
  BY <1>4, <1>5, <1>6 DEF Placed
<1>8. QED
  BY <1>7 DEF rs

LEMMA StripePlaced ==
  ASSUME NEW n \in Nat
  PROVE  Placed({Full(r, n + 4 * r, 4) : r \in 0..3}, n, n + 16, 4, StripeAt)
<1> DEFINE rs == {Full(r, n + 4 * r, 4) : r \in 0..3}
<1>1. ASSUME NEW x \in rs
      PROVE  \E r \in 0..3 : /\ x = Full(r, n + 4 * r, 4) /\ x.register = r
                              /\ x.from = n + 4 * r /\ x.size = 4 /\ x.lane = 0
  BY DEF Full
<1>2. ASSUME NEW r \in 0..3
      PROVE  \E x \in rs : x.from = n + 4 * r /\ x.size = 4
  <2>1. Full(r, n + 4 * r, 4) \in rs
    OBVIOUS
  <2>2. Full(r, n + 4 * r, 4).from = n + 4 * r /\ Full(r, n + 4 * r, 4).size = 4
    BY DEF Full
  <2> HIDE DEF rs
  <2>3. QED
    BY <2>1, <2>2
<1>3. DOMAIN StripeAt = 0..3 /\ \A r \in 0..3 : StripeAt[r] = 4 * r
  BY DEF StripeAt
<1>4. n + 16 = n + 16
  OBVIOUS
<1> HIDE DEF rs
<1>5. ASSUME NEW x \in rs
      PROVE  /\ x.register \in DOMAIN StripeAt
             /\ x.size \in Nat \ {0} /\ x.lane \in Nat /\ x.from \in Nat
             /\ x.from = n + StripeAt[x.register] + x.lane
             /\ x.lane + x.size <= 4 /\ x.from + x.size <= n + 16
  BY <1>1, <1>3
<1>6. ASSUME NEW b \in n..(n + 16 - 1) PROVE \E x \in rs : x.from <= b /\ b < x.from + x.size
  <2> DEFINE r == (b - n) \div 4
  <2>1. r \in 0..3 /\ n + 4 * r <= b /\ b < n + 4 * r + 4
    OBVIOUS
  <2> HIDE DEF r
  <2>2. QED
    BY <1>2, <2>1
<1>7. ASSUME NEW x \in rs, NEW y \in rs, x # y
      PROVE  x.from + x.size <= y.from \/ y.from + y.size <= x.from
  <2>1. PICK r \in 0..3 : x = Full(r, n + 4 * r, 4) /\ x.from = n + 4 * r /\ x.size = 4
    BY <1>1
  <2>2. PICK s \in 0..3 : y = Full(s, n + 4 * s, 4) /\ y.from = n + 4 * s /\ y.size = 4
    BY <1>1
  <2>3. r # s
    BY <1>7, <2>1, <2>2
  <2>4. QED
    BY <2>1, <2>2, <2>3
<1>8. QED
  BY <1>4, <1>5, <1>6, <1>7 DEF Placed, rs

LEMMA ProcessPlaced ==
  ASSUME NEW n \in Nat, NEW size \in {1, 4}
  PROVE  Placed({Full(0, n, size)}, n, n + size, 4, StripeAt)
BY DEF Placed, Full, StripeAt

LEMMA TailPlaced ==
  ASSUME next \in Nat, rest \in 0..15
  PROVE  Placed(TailReads, next, next + rest, 8, ShortAt)
<1> DEFINE Singles(reg, first, lane) == {Single(reg, next + i, i - lane) : i \in first..(rest - 1)}
<1>1. /\ DOMAIN ShortAt = 0..3 /\ ShortAt[2] = 0 /\ ShortAt[3] = 8
  BY DEF ShortAt
(* The words taken: from is where they begin, words how many bytes they are. *)
<1> DEFINE Parted(wide, words, reg, lane) ==
             /\ words \in 0..rest /\ TailReads = wide \cup Singles(reg, words, lane)
             /\ lane = ShortAt[reg] /\ lane <= words /\ rest <= lane + 8
             /\ reg \in {2, 3} /\ Placed(wide, next, next + words, 8, ShortAt)
<1>2. ASSUME NEW wide, NEW words \in Nat, NEW reg \in {2, 3}, NEW lane \in Nat,
             Parted(wide, words, reg, lane)
      PROVE  Placed(TailReads, next, next + rest, 8, ShortAt)
  <2> DEFINE rs == wide \cup Singles(reg, words, lane)
  <2>1. /\ words \in 0..rest /\ TailReads = rs
        /\ lane = ShortAt[reg] /\ lane <= words /\ rest <= lane + 8
        /\ Placed(wide, next, next + words, 8, ShortAt)
    BY <1>2
  <2>2. ASSUME NEW x \in Singles(reg, words, lane)
        PROVE  \E i \in words..(rest - 1) :
                 /\ x = Single(reg, next + i, i - lane) /\ x.register = reg
                 /\ x.from = next + i /\ x.size = 1 /\ x.lane = i - lane
    BY DEF Single
  <2>3. ASSUME NEW i \in words..(rest - 1)
        PROVE  \E x \in Singles(reg, words, lane) : x.from = next + i /\ x.size = 1
    <3> DEFINE x == Single(reg, next + i, i - lane)
    <3>1. x \in Singles(reg, words, lane)
      OBVIOUS
    <3>2. x.from = next + i /\ x.size = 1
      BY DEF Single
    <3> HIDE DEF Singles, x
    <3>3. QED
      BY <3>1, <3>2
  <2> HIDE DEF Singles, Parted
  <2>4. ASSUME NEW x \in rs
        PROVE  /\ x.register \in DOMAIN ShortAt
               /\ x.size \in Nat \ {0} /\ x.lane \in Nat /\ x.from \in Nat
               /\ x.from = next + ShortAt[x.register] + x.lane
               /\ x.lane + x.size <= 8 /\ x.from + x.size <= next + rest
    <3>1. CASE x \in wide
      BY <2>1, <3>1 DEF Placed
    <3>2. CASE x \in Singles(reg, words, lane)
      BY <1>1, <2>1, <2>2, <3>2
    <3>3. QED
      BY <3>1, <3>2
  <2>5. ASSUME NEW b \in next..(next + rest - 1) PROVE \E x \in rs : x.from <= b /\ b < x.from + x.size
    <3>1. CASE b < next + words
      <4>1. b \in next..(next + words - 1)
        BY <2>1, <3>1
      <4>2. PICK x \in wide : x.from <= b /\ b < x.from + x.size
        BY <2>1, <4>1 DEF Placed
      <4>3. QED
        BY <4>2
    <3>2. CASE b >= next + words
      <4>1. b - next \in words..(rest - 1)
        BY <2>1, <3>2
      <4>2. PICK x \in Singles(reg, words, lane) : x.from = next + (b - next) /\ x.size = 1
        BY <2>3, <4>1
      <4>3. x.from <= b /\ b < x.from + x.size
        BY <4>2
      <4>4. QED
        BY <4>2, <4>3
    <3>3. QED
      BY <2>1, <3>1, <3>2
  <2>6. ASSUME NEW x \in rs, NEW y \in rs, x # y
        PROVE  x.from + x.size <= y.from \/ y.from + y.size <= x.from
    <3>1. ASSUME NEW u \in wide PROVE u.from + u.size <= next + words /\ u.from \in Nat /\ u.size \in Nat
      BY <2>1 DEF Placed
    <3>2. ASSUME NEW u \in Singles(reg, words, lane) PROVE next + words <= u.from /\ u.size = 1 /\ u.from \in Nat
      BY <2>1, <2>2
    <3>3. CASE x \in wide /\ y \in wide
      BY <2>1, <2>6, <3>3 DEF Placed
    <3>4. CASE x \in wide /\ y \in Singles(reg, words, lane)
      BY <2>1, <3>1, <3>2, <3>4
    <3>5. CASE x \in Singles(reg, words, lane) /\ y \in wide
      BY <2>1, <3>1, <3>2, <3>5
    <3>6. CASE x \in Singles(reg, words, lane) /\ y \in Singles(reg, words, lane)
      <4>1. PICK i \in words..(rest - 1) : x = Single(reg, next + i, i - lane) /\ x.from = next + i /\ x.size = 1
        BY <2>2, <3>6
      <4>2. PICK j \in words..(rest - 1) : y = Single(reg, next + j, j - lane) /\ y.from = next + j /\ y.size = 1
        BY <2>2, <3>6
      <4>3. i # j
        BY <2>6, <4>1, <4>2
      <4>4. QED
        BY <2>1, <4>1, <4>2, <4>3
    <3>7. QED
      BY <3>3, <3>4, <3>5, <3>6
  <2> HIDE DEF rs
  <2>7. Placed(rs, next, next + rest, 8, ShortAt)
    BY <2>4, <2>5, <2>6 DEF Placed
  <2>8. QED
    BY <2>1, <2>7
<1>3. CASE rest >= 12
  <2> DEFINE wide == {Full(2, next, 8), Full(3, next + 8, 4)}
  <2>1. TailReads = wide \cup Singles(3, 12, 8)
    BY <1>3 DEF TailReads
  <2>2. Placed(wide, next, next + 12, 8, ShortAt)
    BY DEF Placed, Full, ShortAt
  <2>3. QED
    BY <1>1, <1>2, <1>3, <2>1, <2>2
<1>4. CASE rest \in 8..11
  <2> DEFINE wide == {Full(2, next, 8)}
  <2>1. TailReads = wide \cup Singles(3, 8, 8)
    BY <1>4 DEF TailReads
  <2>2. Placed(wide, next, next + 8, 8, ShortAt)
    BY DEF Placed, Full, ShortAt
  <2>3. QED
    BY <1>1, <1>2, <1>4, <2>1, <2>2
<1>5. CASE rest \in 4..7
  <2> DEFINE wide == {Full(2, next, 4)}
  <2>1. TailReads = wide \cup Singles(2, 4, 0)
    BY <1>5 DEF TailReads
  <2>2. Placed(wide, next, next + 4, 8, ShortAt)
    BY DEF Placed, Full, ShortAt
  <2>3. QED
    BY <1>1, <1>2, <1>5, <2>1, <2>2
<1>6. CASE rest < 4
  <2>1. TailReads = {} \cup Singles(2, 0, 0)
    BY <1>6 DEF TailReads, Single
  <2>2. Placed({}, next, next + 0, 8, ShortAt)
    BY DEF Placed
  <2>3. Parted({}, 0, 2, 0)
    BY <1>1, <1>6, <2>1, <2>2
  <2>4. 0 \in Nat /\ 2 \in {2, 3}
    OBVIOUS
  <2> HIDE DEF Parted
  <2>5. QED
    BY <1>2, <2>3, <2>4
<1>7. QED
  BY <1>3, <1>4, <1>5, <1>6
-----------------------------------------------------------------------------
Functions == {"spooky64", "spooky128", "xxhash32"}

HashTypes ==
  /\ message \in [function : Functions, length : Nat, skew : 0..7, strict : BOOLEAN]
  /\ stage \in {"blocks", "tail", "done"}
  /\ next \in Nat /\ rest \in Nat /\ next + rest = message.length

(* How far the words are aligned to the message, and what is left for the   *)
(* tail.                                                                    *)
Position ==
  /\ Spooky /\ Short /\ stage = "blocks" => next % 32 = 0
  /\ Spooky /\ Short /\ stage = "tail" => next % 16 = 0 /\ rest < 16
  /\ Spooky /\ ~Short /\ stage = "blocks" => next % 8 = 0
  /\ ~Spooky /\ stage = "blocks" => next % 4 = 0
  /\ ~Spooky /\ stage = "tail" => next % 4 = 0 \/ rest < 4

HashInv == HashTypes /\ AbsorbsOnce /\ Position

(* The last byte of the last register is out of the tail's reach. *)
LEMMA LastFree ==
  ASSUME NEW rs, NEW from \in Nat, NEW to \in Nat, NEW D, NEW at \in [D -> Nat], NEW reg \in D,
         Placed(rs, from, to, 8, at), to < from + at[reg] + 8
  PROVE  \A r \in rs : <<reg, 7>> \notin Lanes(r)
<1> SUFFICES ASSUME NEW r \in rs, <<reg, 7>> \in Lanes(r) PROVE FALSE
  OBVIOUS
<1>1. PICK b \in r.lane..(r.lane + r.size - 1) : <<reg, 7>> = <<r.register, b>>
  BY DEF Lanes
<1>2. r.register = reg /\ b = 7
  BY <1>1
<1>3. /\ r.size \in Nat /\ r.lane \in Nat /\ r.from = from + at[reg] + r.lane
      /\ r.from + r.size <= to /\ at[reg] \in Nat
  BY <1>2 DEF Placed
<1>4. QED
  BY <1>1, <1>2, <1>3

LEMMA Ranges ==
  ASSUME NEW a \in Nat, NEW b \in Nat, a <= b
  PROVE  /\ (0..(a - 1)) \cap (a..(b - 1)) = {}
         /\ (0..(a - 1)) \cup (a..(b - 1)) = 0..(b - 1)
OBVIOUS

(* A step that reads rs, for registers of width bytes. *)
LEMMA Absorbed ==
  ASSUME HashTypes, AbsorbsOnce, NEW rs, NEW width \in {4, 8}, NEW D, NEW at \in [D -> Nat],
         width = LaneWidth, Reading(rs), next' \in Nat, next <= next', next' <= message.length,
         stage' = "done" => next' = message.length,
         Placed(rs, next, next', width, at),
         \A r \in rs : r.size = 1 \/ (r.size \in {4, 8} /\ r.from % r.size = 0),
         Spooky /\ stage' = "done" =>
           \A r \in rs : <<IF Short THEN 3 ELSE NUM_VARS - 1, 7>> \notin Lanes(r)
  PROVE  AbsorbsOnce'
<1>1. reads' = rs /\ taken' = taken \cup BytesOf(reads) /\ message' = message
  BY DEF Reading
<1>2. taken' = 0..(next - 1)
  BY <1>1 DEF AbsorbsOnce
<1>3. /\ BytesOf(rs) = next..(next' - 1)
      /\ \A r, s \in rs : r # s => /\ Lanes(r) \cap Lanes(s) = {}
                                   /\ BytesOf({r}) \cap BytesOf({s}) = {}
  <2>1. next \in Nat /\ width \in Nat
    BY DEF HashTypes
  <2>2. QED
    BY <2>1, PlacedOnce
<1>4. taken' \cap BytesOf(rs) = {} /\ taken' \cup BytesOf(rs) = 0..(next' - 1)
  <2>1. next \in Nat
    BY DEF HashTypes
  <2>2. QED
    BY <1>2, <1>3, <2>1, Ranges
<1>5. (Spooky <=> Spooky') /\ (Short <=> Short') /\ LaneWidth' = width
  BY <1>1 DEF Spooky, Short, LaneWidth
<1>6. ASSUME NEW r \in rs
      PROVE  r.lane + r.size <= width /\ (message.strict => ReadAddress(r)' % r.size = 0)
  <2>1. /\ r.lane + r.size <= width /\ r.lane \in Nat /\ r.from \in Nat /\ r.size \in Nat
        /\ r.size = 1 \/ (r.size \in {4, 8} /\ r.from % r.size = 0)
    BY DEF Placed
  <2> DEFINE base == IF Copied' THEN 0 ELSE message.skew
  <2>2. base \in 0..7
    BY DEF HashTypes
  <2>3. ReadAddress(r)' = base + r.from
    BY <1>1 DEF ReadAddress
  <2>4. message.strict => base % width = 0
    <3>1. Copied' = (message.strict /\ message.skew % width # 0)
      BY <1>1 DEF Copied, Spooky, LaneWidth
    <3>2. \/ base = 0
          \/ base = message.skew /\ (message.strict => message.skew % width = 0)
      BY <3>1 DEF HashTypes
    <3>3. 0 % width = 0
      OBVIOUS
    <3> HIDE DEF base
    <3>4. QED
      BY <3>2, <3>3
  <2> HIDE DEF base
  <2>5. ASSUME message.strict PROVE (base + r.from) % r.size = 0
    <3>1. CASE r.size = 1
      BY <2>1, <2>2, <3>1
    <3>2. CASE r.size = 4
      BY <2>1, <2>2, <2>4, <2>5, <3>2
    <3>3. CASE r.size = 8
      <4>1. width = 8 /\ base % 8 = 0 /\ r.from % 8 = 0 /\ base \in Nat /\ r.from \in Nat
        BY <2>1, <2>2, <2>4, <2>5, <3>3
      <4>2. (base + r.from) % 8 = 0
        BY <4>1
      <4>3. QED
        BY <3>3, <4>2
    <3>4. QED
      BY <2>1, <3>1, <3>2, <3>3
  <2>6. QED
    BY <2>1, <2>3, <2>5
<1>7. \A r \in rs : Lanes(r)' = Lanes(r)
  BY DEF Lanes
<1>8. QED
  BY <1>1, <1>3, <1>4, <1>5, <1>6 DEF AbsorbsOnce

LEMMA HashStart == HashInit => HashInv
<1> SUFFICES ASSUME HashInit PROVE HashInv
  OBVIOUS
<1>1. /\ message \in [function : Functions, length : Nat, skew : 0..7, strict : BOOLEAN]
      /\ stage = "blocks" /\ next = 0 /\ rest = message.length /\ reads = {} /\ taken = {}
  BY FunctionsAssumption, MessageLengthsAssumption, SkewsAssumption DEF HashInit, Functions
<1>2. HashTypes
  BY <1>1 DEF HashTypes
<1>3. BytesOf({}) = {}
  BY BytesAre
<1>4. AbsorbsOnce
  BY <1>1, <1>3 DEF AbsorbsOnce
<1>5. Position
  BY <1>1 DEF Position
<1>6. QED
  BY <1>2, <1>4, <1>5 DEF HashInv

(* SpookyHash of a short message *)
LEMMA ShortBlockInv == ASSUME HashInv, Spooky, ShortBlock PROVE HashInv'
<1> DEFINE rs == {Full(2, next, 8), Full(3, next + 8, 8)} \cup {Full(0, next + 16, 8), Full(1, next + 24, 8)}
<1>1. /\ Short /\ stage = "blocks" /\ next < (message.length \div 32) * 32
      /\ Reading(rs) /\ next' = next + 32 /\ rest' = rest - 32 /\ stage' = stage
      /\ message' = message
  BY DEF ShortBlock, Reading
<1>2. /\ next \in Nat /\ rest \in Nat /\ next + rest = message.length /\ message.length \in Nat
      /\ next % 32 = 0
  BY <1>1 DEF HashInv, HashTypes, Position
<1>3. rest' \in Nat /\ next' \in Nat /\ next <= next' /\ next' <= message.length /\ next' % 32 = 0 /\ next % 8 = 0
  BY <1>1, <1>2
<1>4. \A r \in rs : r.size = 8 /\ r.from % 8 = 0
  BY <1>2, <1>3 DEF Full
<1>5. Placed(rs, next, next', 8, ShortAt)
  BY <1>1, <1>2, BlockPlaced
<1> HIDE DEF rs
<1>6. LaneWidth = 8
  BY DEF LaneWidth
<1>7. AbsorbsOnce'
  <2>1. HashTypes /\ AbsorbsOnce
    BY DEF HashInv
  <2>2. QED
    BY <1>1, <1>2, <1>3, <1>4, <1>5, <1>6, <2>1, AtTyped, Absorbed
<1>8. HashTypes'
  BY <1>1, <1>2, <1>3 DEF HashInv, HashTypes
<1>9. Position'
  BY <1>1, <1>3 DEF Position, Spooky, Short
<1>10. QED
  BY <1>7, <1>8, <1>9 DEF HashInv

LEMMA ShortHalfInv == ASSUME HashInv, Spooky, ShortHalf PROVE HashInv'
<1> DEFINE rs == {Full(2, next, 8), Full(3, next + 8, 8)}
<1>1. /\ Short /\ stage = "blocks" /\ next = (message.length \div 32) * 32 /\ rest >= 16
      /\ Reading(rs) /\ next' = next + 16 /\ rest' = rest - 16 /\ stage' = "tail"
      /\ message' = message
  BY DEF ShortHalf, Reading
<1>2. /\ next \in Nat /\ rest \in Nat /\ next + rest = message.length /\ message.length \in Nat
      /\ next % 32 = 0
  BY <1>1 DEF HashInv, HashTypes, Position
<1>3. /\ rest' \in Nat /\ next' \in Nat /\ next <= next' /\ next' <= message.length
      /\ next' % 16 = 0
      /\ next % 8 = 0 /\ rest' < 16
  BY <1>1, <1>2
<1>4. \A r \in rs : r.size = 8 /\ r.from % 8 = 0
  BY <1>2, <1>3 DEF Full
<1>5. Placed(rs, next, next', 8, ShortAt)
  BY <1>1, <1>2, HalfPlaced
<1> HIDE DEF rs
<1>6. LaneWidth = 8
  BY DEF LaneWidth
<1>7. AbsorbsOnce'
  <2>1. HashTypes /\ AbsorbsOnce /\ Reading(rs) /\ stage' # "done"
    BY <1>1 DEF HashInv
  <2>2. QED
    BY <1>3, <1>4, <1>5, <1>6, <2>1, AtTyped, Absorbed
<1>8. HashTypes'
  BY <1>1, <1>2, <1>3 DEF HashInv, HashTypes
<1>9. Position'
  BY <1>1, <1>3 DEF Position, Spooky, Short
<1>10. QED
  BY <1>7, <1>8, <1>9 DEF HashInv

LEMMA ShortTailInv == ASSUME HashInv, Spooky, ShortTail PROVE HashInv'
<1>1. /\ Short /\ Reading(TailReads) /\ next' = next + rest /\ rest' = 0 /\ stage' = "done"
      /\ message' = message
      /\ (stage = "blocks" /\ rest < 16) \/ stage = "tail"
  BY DEF ShortTail, Reading
<1>2. /\ next \in Nat /\ next + rest = message.length /\ rest \in 0..15
      /\ next % 8 = 0
  <2>1. next \in Nat /\ rest \in Nat /\ next + rest = message.length /\ rest < 16
    BY <1>1 DEF HashInv, HashTypes, Position
  <2>2. next % 32 = 0 \/ next % 16 = 0
    BY <1>1 DEF HashInv, Position
  <2>3. QED
    BY <2>1, <2>2
<1>3. Placed(TailReads, next, next', 8, ShortAt)
  BY <1>1, <1>2, TailPlaced
<1>4. \A r \in TailReads : r.size = 1 \/ (r.size \in {4, 8} /\ r.from % r.size = 0)
  <2>1. next % 4 = 0 /\ (next + 8) % 4 = 0
    BY <1>2
  <2>2. CASE rest >= 12
    BY <1>2, <2>1, <2>2 DEF TailReads, Full, Single
  <2>3. CASE rest \in 8..11
    BY <1>2, <2>1, <2>3 DEF TailReads, Full, Single
  <2>4. CASE rest \in 4..7
    BY <1>2, <2>1, <2>4 DEF TailReads, Full, Single
  <2>5. CASE rest < 4
    BY <1>2, <2>1, <2>5 DEF TailReads, Full, Single
  <2>6. QED
    BY <1>2, <2>2, <2>3, <2>4, <2>5
<1>5. \A r \in TailReads : <<IF Short THEN 3 ELSE NUM_VARS - 1, 7>> \notin Lanes(r)
  <2>1. ShortAt[3] = 8 /\ 3 \in 0..3
    BY DEF ShortAt
  <2>2. next' \in Nat /\ next' < next + ShortAt[3] + 8
    BY <1>1, <1>2, <2>1
  <2>3. \A r \in TailReads : <<3, 7>> \notin Lanes(r)
    BY <1>2, <1>3, <2>1, <2>2, AtTyped, LastFree
  <2>4. QED
    BY <1>1, <2>3
<1>6. LaneWidth = 8
  BY DEF LaneWidth
<1>7. next' \in Nat /\ next <= next' /\ next' = message.length /\ next' <= message.length
  BY <1>1, <1>2
<1>8. AbsorbsOnce'
  <2> DEFINE rs == TailReads
  <2>1. HashTypes /\ AbsorbsOnce /\ Reading(rs)
    BY <1>1 DEF HashInv
  <2> HIDE DEF rs
  <2>2. QED
    BY <1>3, <1>4, <1>5, <1>6, <1>7, <2>1, AtTyped, Absorbed DEF rs
<1>9. HashTypes'
  BY <1>1, <1>2, <1>7 DEF HashInv, HashTypes
<1>10. Position'
  BY <1>1 DEF Position, Spooky, Short
<1>11. QED
  BY <1>8, <1>9, <1>10 DEF HashInv

(* SpookyHash of a long message *)
LEMMA LongBlockInv == ASSUME HashInv, Spooky, LongBlock PROVE HashInv'
<1> DEFINE rs == {Full(r, next + 8 * r, 8) : r \in 0..(NUM_VARS - 1)}
<1>1. /\ ~Short /\ stage = "blocks" /\ rest >= BLOCK_SIZE
      /\ Reading(rs) /\ next' = next + BLOCK_SIZE /\ rest' = rest - BLOCK_SIZE /\ stage' = stage
      /\ message' = message
  BY DEF LongBlock, Reading
<1>2. /\ next \in Nat /\ rest \in Nat /\ next + rest = message.length /\ message.length \in Nat
      /\ next % 8 = 0
  BY <1>1 DEF HashInv, HashTypes, Position
<1>3. BLOCK_SIZE = 96
  BY DEF BLOCK_SIZE, NUM_VARS
<1>4. rest' \in Nat /\ next' \in Nat /\ next <= next' /\ next' <= message.length /\ next' % 8 = 0
  BY <1>1, <1>2, <1>3
<1>5. \A x \in rs : x.size = 8 /\ x.from % 8 = 0
  BY <1>2 DEF Full, NUM_VARS
<1>6. Placed(rs, next, next', 8, LongAt)
  BY <1>1, <1>2, WordsPlaced
<1> HIDE DEF rs
<1>7. LaneWidth = 8
  BY DEF LaneWidth
<1>8. AbsorbsOnce'
  <2>1. HashTypes /\ AbsorbsOnce
    BY DEF HashInv
  <2>2. QED
    BY <1>1, <1>2, <1>4, <1>5, <1>6, <1>7, <2>1, AtTyped, Absorbed
<1>9. HashTypes'
  BY <1>1, <1>2, <1>3, <1>4 DEF HashInv, HashTypes
<1>10. Position'
  BY <1>1, <1>4 DEF Position, Spooky, Short
<1>11. QED
  BY <1>8, <1>9, <1>10 DEF HashInv

LEMMA LongTailInv == ASSUME HashInv, Spooky, LongTail PROVE HashInv'
<1> DEFINE rs == {Single(i \div 8, next + i, i % 8) : i \in 0..(rest - 1)}
<1>1. /\ ~Short /\ stage = "blocks" /\ rest < BLOCK_SIZE
      /\ Reading(rs) /\ next' = next + rest /\ rest' = 0 /\ stage' = "done"
      /\ message' = message
  BY DEF LongTail, Reading
<1>2. BLOCK_SIZE = 96 /\ NUM_VARS - 1 = 11
  BY DEF BLOCK_SIZE, NUM_VARS
<1>3. /\ next \in Nat /\ rest \in 0..95 /\ next + rest = message.length
  BY <1>1, <1>2 DEF HashInv, HashTypes
<1>4. next' \in Nat /\ next <= next' /\ next' = message.length /\ next' <= message.length
  BY <1>1, <1>3
<1>5. \A x \in rs : x.size = 1
  BY DEF Single
<1>6. Placed(rs, next, next', 8, LongAt)
  <2>1. rest \in 0..(BLOCK_SIZE - 1)
    BY <1>2, <1>3
  <2>2. QED
    BY <1>1, <1>3, <2>1, CopyPlaced
<1> HIDE DEF rs
<1>7. \A x \in rs : <<IF Short THEN 3 ELSE NUM_VARS - 1, 7>> \notin Lanes(x)
  <2>1. LongAt[11] = 88 /\ 11 \in 0..(NUM_VARS - 1)
    BY DEF LongAt, NUM_VARS
  <2>2. next' < next + LongAt[11] + 8
    BY <1>1, <1>3, <2>1
  <2>3. \A x \in rs : <<11, 7>> \notin Lanes(x)
    BY ZenonT(30), <1>3, <1>4, <1>6, <2>1, <2>2, AtTyped, LastFree
  <2>4. QED
    BY <1>1, <1>2, <2>3
<1>8. LaneWidth = 8
  BY DEF LaneWidth
<1>9. AbsorbsOnce'
  <2>1. HashTypes /\ AbsorbsOnce
    BY DEF HashInv
  <2>2. QED
    BY <1>1, <1>4, <1>5, <1>6, <1>7, <1>8, <2>1, AtTyped, Absorbed
<1>10. HashTypes'
  BY <1>1, <1>3, <1>4 DEF HashInv, HashTypes
<1>11. Position'
  BY <1>1 DEF Position, Spooky, Short
<1>12. QED
  BY <1>9, <1>10, <1>11 DEF HashInv

(* xxHash *)
LEMMA StripeInv == ASSUME HashInv, ~Spooky, Stripe PROVE HashInv'
<1> DEFINE rs == {Full(r, next + 4 * r, 4) : r \in 0..3}
<1>1. /\ stage = "blocks" /\ rest >= 16
      /\ Reading(rs) /\ next' = next + 16 /\ rest' = rest - 16 /\ stage' = stage
      /\ message' = message
  BY DEF Stripe, Reading
<1>2. /\ next \in Nat /\ rest \in Nat /\ next + rest = message.length /\ message.length \in Nat
      /\ next % 4 = 0
  BY <1>1 DEF HashInv, HashTypes, Position
<1>3. rest' \in Nat /\ next' \in Nat /\ next <= next' /\ next' <= message.length /\ next' % 4 = 0
  BY <1>1, <1>2
<1>4. \A x \in rs : x.size = 4 /\ x.from % 4 = 0
  BY <1>2 DEF Full
<1>5. Placed(rs, next, next', 4, StripeAt)
  BY <1>1, <1>2, StripePlaced
<1> HIDE DEF rs
<1>6. LaneWidth = 4
  BY DEF LaneWidth
<1>7. AbsorbsOnce'
  <2>1. HashTypes /\ AbsorbsOnce
    BY DEF HashInv
  <2>2. QED
    BY <1>1, <1>2, <1>3, <1>4, <1>5, <1>6, <2>1, AtTyped, Absorbed
<1>8. HashTypes'
  BY <1>1, <1>2, <1>3 DEF HashInv, HashTypes
<1>9. Position'
  BY <1>1, <1>3 DEF Position, Spooky, Short
<1>10. QED
  BY <1>7, <1>8, <1>9 DEF HashInv

LEMMA ProcessInv == ASSUME HashInv, ~Spooky, NEW size \in {1, 4}, Process(size) PROVE HashInv'
<1> DEFINE rs == {Full(0, next, size)}
<1>1. /\ stage = "tail" /\ rest >= size /\ (size = 1 => rest < 4)
      /\ Reading(rs) /\ next' = next + size /\ rest' = rest - size /\ stage' = stage
      /\ message' = message
  BY DEF Process, Reading
<1>2. /\ next \in Nat /\ rest \in Nat /\ next + rest = message.length /\ message.length \in Nat
      /\ next % 4 = 0 \/ rest < 4
  BY <1>1 DEF HashInv, HashTypes, Position
<1>3. /\ rest' \in Nat /\ next' \in Nat /\ next <= next' /\ next' <= message.length
      /\ next' % 4 = 0 \/ rest' < 4
      /\ size = 4 => next % 4 = 0
  BY <1>1, <1>2
<1>4. \A x \in rs : x.size = 1 \/ (x.size \in {4, 8} /\ x.from % x.size = 0)
  BY <1>2, <1>3 DEF Full
<1>5. Placed(rs, next, next', 4, StripeAt)
  BY <1>1, <1>2, ProcessPlaced
<1> HIDE DEF rs
<1>6. LaneWidth = 4
  BY DEF LaneWidth
<1>7. AbsorbsOnce'
  <2>1. HashTypes /\ AbsorbsOnce
    BY DEF HashInv
  <2>2. QED
    BY <1>1, <1>2, <1>3, <1>4, <1>5, <1>6, <2>1, AtTyped, Absorbed
<1>8. HashTypes'
  BY <1>1, <1>2, <1>3 DEF HashInv, HashTypes
<1>9. Position'
  BY <1>1, <1>3 DEF Position, Spooky, Short
<1>10. QED
  BY <1>7, <1>8, <1>9 DEF HashInv

(* The steps that read nothing *)
LEMMA NoReadInv == ASSUME HashInv, ~Spooky, Converge \/ Avalanche PROVE HashInv'
<1>1. /\ Reading({}) /\ next' = next /\ rest' = rest /\ message' = message
      /\ \/ stage = "blocks" /\ stage' = "tail"
         \/ stage = "tail" /\ rest = 0 /\ stage' = "done"
  BY DEF Converge, Avalanche, Reading
<1>2. /\ next \in Nat /\ rest \in Nat /\ next + rest = message.length /\ message.length \in Nat
      /\ stage = "blocks" => next % 4 = 0
  BY <1>1 DEF HashInv, HashTypes, Position
<1>3. /\ next' \in Nat /\ next <= next' /\ next' <= message.length
      /\ stage' = "done" => next' = message.length
  BY <1>1, <1>2
<1> DEFINE rs == {}
<1>4. Placed(rs, next, next', 4, StripeAt)
  BY <1>1, <1>2 DEF Placed
<1>5. LaneWidth = 4 /\ Reading(rs) /\ \A x \in rs : FALSE
  BY <1>1 DEF LaneWidth
<1> HIDE DEF rs
<1>6. AbsorbsOnce'
  <2>1. HashTypes /\ AbsorbsOnce
    BY DEF HashInv
  <2>2. QED
    BY <1>3, <1>4, <1>5, <2>1, AtTyped, Absorbed
<1>7. HashTypes'
  BY <1>1, <1>2 DEF HashInv, HashTypes
<1>8. Position'
  BY <1>1, <1>2 DEF Position, Spooky, Short
<1>9. QED
  BY <1>6, <1>7, <1>8 DEF HashInv

LEMMA HashSteps ==
  /\ HashInv /\ HashNext => HashInv'
  /\ HashInv /\ UNCHANGED hashvars => HashInv'
<1>1. ASSUME HashInv, HashNext PROVE HashInv'
  <2>1. CASE Spooky
    BY <1>1, <2>1, ShortBlockInv, ShortHalfInv, ShortTailInv, LongBlockInv, LongTailInv DEF HashNext
  <2>2. CASE ~Spooky
    BY <1>1, <2>2, StripeInv, ProcessInv, NoReadInv DEF HashNext
  <2>3. QED
    BY <2>1, <2>2
<1>2. ASSUME HashInv, UNCHANGED hashvars PROVE HashInv'
  BY <1>2 DEF HashInv, HashTypes, AbsorbsOnce, Position, hashvars, Spooky, Short, LaneWidth, ReadAddress,
              Copied, Lanes, BytesOf
<1>3. QED
  BY <1>1, <1>2

(* Both functions read each byte of the message once and nothing else,      *)
(* where the processor can, and never two bytes into the same place of a    *)
(* register before it is mixed, whatever the length and the address.        *)
THEOREM AbsorbsOnceHolds == HashSpec => []AbsorbsOnce
<1>1. HashInv => AbsorbsOnce
  BY DEF HashInv
<1>2. QED
  BY HashStart, HashSteps, <1>1, PTL DEF HashSpec
-----------------------------------------------------------------------------
(* Induction over a set: a least number outside it would follow one inside. *)
LEMMA Induction ==
  ASSUME NEW S, 0 \in S, \A n \in Nat : n \in S => n + 1 \in S
  PROVE  Nat \subseteq S
<1> DEFINE T == Nat \ S
<1>1. SUFFICES ASSUME T # {} PROVE FALSE
  OBVIOUS
<1>2. PICK m \in T : \A n \in T : <<n, m>> \notin OpToRel(<, Nat)
  BY <1>1, WFMin, NatLessThanWellFounded, Zenon
<1>3. \A n \in T : ~(n < m)
  BY <1>2 DEF OpToRel
<1>4. m - 1 \in Nat /\ m - 1 \in S
  <2>1. m \in Nat /\ m # 0
    OBVIOUS
  <2>2. QED
    BY <1>3, <2>1
<1>5. QED
  BY <1>4

-----------------------------------------------------------------------------
(* Folds take the elements from the greatest index down. *)
LEMMA PrefixMax == \A i \in Nat \ {0} : Max(1..i) = i /\ (1..i) \ {i} = 1..(i - 1)
<1> TAKE i \in Nat \ {0}
<1>1. i \in 1..i /\ \A y \in 1..i : i >= y
  OBVIOUS
<1>2. \A x \in 1..i : (\A y \in 1..i : x >= y) => x = i
  OBVIOUS
<1>3. Max(1..i) = i
  BY <1>1, <1>2 DEF Max
<1>4. QED
  BY <1>3

Folded(f, n, base, g) ==
  /\ f[{}] = base
  /\ \A s \in SUBSET (1..n) : s # {} => Max(s) \in 1..n /\ f[s] = g[<<Max(s), f[s \ {Max(s)}]>>]

HasFold(V, n, base, g) == \E f \in [SUBSET (1..n) -> V] : Folded(f, n, base, g)

LEMMA FoldDefined ==
  ASSUME NEW V, NEW base \in V, NEW n \in Nat, NEW g \in [(1..n) \X V -> V]
  PROVE  HasFold(V, n, base, g)
<1> DEFINE S == {m \in Nat : m <= n => HasFold(V, m, base, g)}
<1>1. 0 \in S
  <2> DEFINE f == [s \in SUBSET (1..0) |-> base]
  <2>1. f \in [SUBSET (1..0) -> V] /\ f[{}] = base /\ \A s \in SUBSET (1..0) : s = {}
    OBVIOUS
  <2> HIDE DEF f
  <2>2. Folded(f, 0, base, g)
    BY <2>1 DEF Folded
  <2>3. HasFold(V, 0, base, g)
    BY Zenon, <2>1, <2>2 DEF HasFold
  <2>4. QED
    BY <2>3
<1>2. ASSUME NEW m \in Nat, m \in S PROVE m + 1 \in S
  <2>1. CASE m + 1 > n
    BY <2>1
  <2>2. CASE m + 1 <= n
    <3>1. PICK h \in [SUBSET (1..m) -> V] : Folded(h, m, base, g)
      <4>1. HasFold(V, m, base, g)
        BY <1>2, <2>2
      <4>2. QED
        BY Zenon, <4>1 DEF HasFold
    <3>2. m + 1 \in 1..n /\ \A s \in SUBSET (1..(m + 1)) : s \ {m + 1} \in SUBSET (1..m)
      BY <2>2
    <3> DEFINE f == [s \in SUBSET (1..(m + 1)) |->
                       IF m + 1 \in s THEN g[<<m + 1, h[s \ {m + 1}]>>] ELSE h[s]]
    <3>3. ASSUME NEW s \in SUBSET (1..(m + 1)), m + 1 \notin s PROVE s \in SUBSET (1..m)
      BY <3>3
    <3>4. ASSUME NEW s \in SUBSET (1..(m + 1))
          PROVE  /\ f[s] \in V
                 /\ m + 1 \in s => f[s] = g[<<m + 1, h[s \ {m + 1}]>>]
                 /\ m + 1 \notin s => f[s] = h[s]
      <4>1. h[s \ {m + 1}] \in V
        BY <3>2
      <4>2. <<m + 1, h[s \ {m + 1}]>> \in (1..n) \X V
        BY <3>2, <4>1
      <4>3. g[<<m + 1, h[s \ {m + 1}]>>] \in V
        BY <4>2
      <4>4. m + 1 \notin s => h[s] \in V
        BY <3>3
      <4>5. QED
        BY <4>3, <4>4
    <3>5. f \in [SUBSET (1..(m + 1)) -> V]
      BY <3>4
    <3> HIDE DEF f
    <3>6. f[{}] = base
      <4>1. {} \in SUBSET (1..(m + 1)) /\ m + 1 \notin {}
        OBVIOUS
      <4>2. QED
        BY <3>1, <3>4, <4>1 DEF Folded
    <3>7. ASSUME NEW s \in SUBSET (1..(m + 1)), s # {}
          PROVE  Max(s) \in 1..(m + 1) /\ f[s] = g[<<Max(s), f[s \ {Max(s)}]>>]
      <4>1. CASE m + 1 \in s
        <5>1. \A y \in s : m + 1 >= y
          OBVIOUS
        <5>2. \A x \in s : (\A y \in s : x >= y) => x = m + 1
          BY <4>1
        <5>3. Max(s) = m + 1
          BY <4>1, <5>1, <5>2 DEF Max
        <5>4. s \ {m + 1} \in SUBSET (1..(m + 1)) /\ m + 1 \notin s \ {m + 1}
          OBVIOUS
        <5>5. f[s \ {m + 1}] = h[s \ {m + 1}]
          BY <3>4, <5>4
        <5>6. QED
          BY <3>4, <4>1, <5>3, <5>5
      <4>2. CASE m + 1 \notin s
        <5>1. s \in SUBSET (1..m)
          BY <3>3, <4>2
        <5>2. Max(s) \in 1..m /\ h[s] = g[<<Max(s), h[s \ {Max(s)}]>>]
          BY <3>1, <3>7, <5>1 DEF Folded
        <5>3. s \ {Max(s)} \in SUBSET (1..(m + 1)) /\ m + 1 \notin s \ {Max(s)}
          BY <4>2
        <5>4. f[s] = h[s] /\ f[s \ {Max(s)}] = h[s \ {Max(s)}]
          BY <3>4, <4>2, <5>3
        <5>5. QED
          BY <5>2, <5>4
      <4>3. QED
        BY <4>1, <4>2
    <3>8. Folded(f, m + 1, base, g)
      BY <3>6, <3>7 DEF Folded
    <3>9. HasFold(V, m + 1, base, g)
      BY <3>5, <3>8, Zenon DEF HasFold
    <3>10. QED
      BY <3>9
  <2>3. QED
    BY <2>1, <2>2
<1> HIDE DEF S
<1>3. n \in S
  BY <1>1, <1>2, Induction
<1>4. QED
  BY <1>3 DEF S
-----------------------------------------------------------------------------
Registers(D, T) == [D -> SUBSET T]
Operations(D) == Seq(D \X D)

(* The registers after each operation of a mix. *)
MixedBy(f, registers, ops) ==
  /\ f[0] = registers
  /\ \A i \in 1..Len(ops) : f[i] = [f[i - 1] EXCEPT ![ops[i][1]] = @ \cup f[i - 1][ops[i][2]]]

(* A mix is its operations one after the other. *)
LEMMA MixedIs ==
  ASSUME NEW D, NEW T, NEW R \in Registers(D, T), NEW ops \in Operations(D)
  PROVE  \E f \in [0..Len(ops) -> Registers(D, T)] :
           MixedBy(f, R, ops) /\ Mixed(R, ops) = f[Len(ops)]
<1> DEFINE V == Registers(D, T)
           step(v, i) == [v EXCEPT ![ops[i][1]] = @ \cup v[ops[i][2]]]
           Steps(F) == F = [s \in SUBSET DOMAIN ops |-> IF s = {} THEN R ELSE step(F[s \ {Max(s)}], Max(s))]
           F == CHOOSE k : Steps(k)
<1>1. PICK n \in Nat : n = Len(ops) /\ DOMAIN ops = 1..n
  BY LenProperties DEF Operations
<1>2. \A i \in 1..n : ops[i][1] \in D /\ ops[i][2] \in D
  BY <1>1, ElementOfSeq DEF Operations
<1>3. \A i \in 1..n, v \in V : step(v, i) \in V
  BY <1>2 DEF Registers
<1>4. Steps(F)
  <2> DEFINE g == [x \in (1..n) \X V |-> step(x[2], x[1])]
  <2>1. g \in [(1..n) \X V -> V] /\ \A i \in 1..n, v \in V : g[<<i, v>>] = step(v, i)
    BY <1>3
  <2> HIDE DEF V, step, g
  <2>2. R \in V
    BY DEF V
  <2>3. PICK k \in [SUBSET (1..n) -> V] : Folded(k, n, R, g)
    BY Zenon, <2>1, <2>2, FoldDefined DEF HasFold
  <2>4. ASSUME NEW s \in SUBSET (1..n)
        PROVE  k[s] = IF s = {} THEN R ELSE step(k[s \ {Max(s)}], Max(s))
    <3>1. CASE s = {}
      BY <2>3, <3>1 DEF Folded
    <3>2. CASE s # {}
      <4>1. Max(s) \in 1..n /\ k[s] = g[<<Max(s), k[s \ {Max(s)}]>>]
        BY <2>3, <3>2 DEF Folded
      <4>2. k[s \ {Max(s)}] \in V
        OBVIOUS
      <4>3. QED
        BY <2>1, <3>2, <4>1, <4>2
    <3>3. QED
      BY <3>1, <3>2
  <2>5. k = [s \in SUBSET (1..n) |-> IF s = {} THEN R ELSE step(k[s \ {Max(s)}], Max(s))]
    BY <2>4
  <2>6. Steps(k)
    BY <1>1, <2>5
  <2>7. QED
    BY <2>6
<1>5. Mixed(R, ops) = F[1..n]
  <2>1. Mixed(R, ops) = F[DOMAIN ops]
    BY Zenon DEF Mixed, FoldLeft, MapThenFoldSet
  <2>2. QED
    BY <1>1, <2>1
<1>6. F[{}] = R /\ \A i \in 1..n : F[1..i] = step(F[1..(i - 1)], i)
  <2> HIDE DEF step, F
  <2>1. F = [s \in SUBSET (1..n) |-> IF s = {} THEN R ELSE step(F[s \ {Max(s)}], Max(s))]
    BY <1>1, <1>4, Zenon
  <2>2. F[{}] = R
    BY <2>1
  <2>3. ASSUME NEW i \in 1..n PROVE F[1..i] = step(F[1..(i - 1)], i)
    <3>1. 1..i \in SUBSET (1..n) /\ 1..i # {} /\ i \in Nat \ {0}
      <4>1. i \in 1..i /\ (1..i) \subseteq 1..n /\ i \in Nat \ {0}
        OBVIOUS
      <4>2. QED
        BY Zenon, <4>1
    <3>2. Max(1..i) = i /\ (1..i) \ {i} = 1..(i - 1)
      BY <3>1, PrefixMax
    <3>3. F[1..i] = step(F[(1..i) \ {Max(1..i)}], Max(1..i))
      BY <2>1, <3>1
    <3>4. QED
      BY <3>2, <3>3, Zenon
  <2>4. QED
    BY <2>2, <2>3
<1> DEFINE f == [i \in 0..n |-> F[1..i]]
<1> HIDE DEF F, V, step
<1>7. f[0] = R /\ f[n] = F[1..n] /\ \A i \in 1..n : f[i] = step(f[i - 1], i)
  <2>1. 1..0 = {} /\ 0 \in 0..n /\ n \in 0..n
    OBVIOUS
  <2>2. f[0] = R
    BY <1>6, <2>1
  <2>3. \A i \in 1..n : i \in 0..n /\ i - 1 \in 0..n
    OBVIOUS
  <2>4. QED
    BY <1>6, <2>1, <2>2, <2>3
<1>8. \A i \in 0..n : f[i] \in V
  <2> DEFINE S == {i \in Nat : i <= n => f[i] \in V}
  <2> HIDE DEF f
  <2>1. 0 \in S
    BY <1>7 DEF V
  <2>2. ASSUME NEW i \in Nat, i \in S PROVE i + 1 \in S
    <3>1. CASE i + 1 <= n
      <4>1. i + 1 \in 1..n /\ f[i] \in V /\ (i + 1) - 1 = i
        BY <2>2, <3>1
      <4>2. f[i + 1] = step(f[i], i + 1)
        BY <1>7, <4>1
      <4>3. f[i + 1] \in V
        BY <1>3, <4>1, <4>2
      <4>4. QED
        BY <4>3
    <3>2. QED
      BY <3>1
  <2> HIDE DEF S
  <2>3. Nat \subseteq S
    BY <2>1, <2>2, Induction
  <2>4. QED
    BY <2>3 DEF S
<1>9. f \in [0..n -> V]
  BY <1>8
<1> HIDE DEF f
<1>10. MixedBy(f, R, ops)
  BY <1>1, <1>7 DEF MixedBy, step
<1>11. QED
  BY <1>1, <1>5, <1>7, <1>9, <1>10 DEF V
-----------------------------------------------------------------------------
(* What all the registers depend on. *)
All(registers) == UNION {registers[r] : r \in DOMAIN registers}

LEMMA FunctionIsSeq == ASSUME NEW V, NEW n \in Nat, NEW s \in [1..n -> V] PROVE s \in Seq(V) /\ Len(s) = n
<1>1. s \in Seq(V)
  BY SeqDef
<1>2. QED
  BY <1>1, LenProperties

(* No register forgets anything. *)
LEMMA Grows ==
  ASSUME NEW D, NEW T, NEW R \in Registers(D, T), NEW ops \in Operations(D),
         NEW f \in [0..Len(ops) -> Registers(D, T)], MixedBy(f, R, ops),
         NEW m \in Nat, NEW n \in 0..Len(ops), m <= n, NEW r \in D
  PROVE  f[m][r] \subseteq f[n][r]
<1> DEFINE S == {k \in Nat : m + k <= n => f[m][r] \subseteq f[m + k][r]}
<1>1. Len(ops) \in Nat /\ \A i \in 1..Len(ops) : ops[i][1] \in D /\ ops[i][2] \in D
  BY LenProperties, ElementOfSeq DEF Operations
<1>2. 0 \in S
  <2>1. m + 0 = m
    OBVIOUS
  <2>2. f[m][r] \subseteq f[m + 0][r]
    BY Zenon, <2>1
  <2>3. QED
    BY <2>2
<1>3. ASSUME NEW k \in Nat, k \in S PROVE k + 1 \in S
  <2>1. CASE m + (k + 1) <= n
    <3>1. PICK i \in 1..Len(ops) : i = m + (k + 1) /\ i - 1 = m + k
      BY <1>1, <2>1
    <3>2. f[i] = [f[i - 1] EXCEPT ![ops[i][1]] = @ \cup f[i - 1][ops[i][2]]] /\ f[i - 1] \in [D -> SUBSET T]
      <4>1. i - 1 \in 0..Len(ops)
        BY <1>1
      <4>2. QED
        BY <4>1 DEF MixedBy, Registers
    <3>3. f[i - 1][r] \subseteq f[i][r]
      BY <1>1, <3>2
    <3>4. f[m][r] \subseteq f[m + k][r]
      BY <1>3, <2>1
    <3>5. f[m][r] \subseteq f[m + (k + 1)][r]
      BY Zenon, <3>1, <3>3, <3>4
    <3>6. QED
      BY <3>5
  <2>2. QED
    BY <2>1
<1> HIDE DEF S
<1>4. n - m \in Nat /\ m + (n - m) = n
  BY <1>1
<1>5. n - m \in S
  BY <1>2, <1>3, <1>4, Induction
<1>6. f[m][r] \subseteq f[m + (n - m)][r]
  BY <1>1, <1>4, <1>5 DEF S
<1>7. QED
  BY Zenon, <1>4, <1>6

(* Nothing is lost in a mix and nothing comes from elsewhere. *)
LEMMA MixedKeeps ==
  ASSUME NEW D, NEW T, NEW R \in Registers(D, T), NEW ops \in Operations(D)
  PROVE  /\ Mixed(R, ops) \in Registers(D, T)
         /\ \A r \in D : R[r] \subseteq Mixed(R, ops)[r]
         /\ All(Mixed(R, ops)) = All(R)
<1>1. PICK f \in [0..Len(ops) -> Registers(D, T)] : MixedBy(f, R, ops) /\ Mixed(R, ops) = f[Len(ops)]
  BY MixedIs
<1>2. Len(ops) \in Nat /\ \A i \in 1..Len(ops) : ops[i][1] \in D /\ ops[i][2] \in D
  BY LenProperties, ElementOfSeq DEF Operations
<1>3. PICK M \in Registers(D, T) : M = Mixed(R, ops) /\ M = f[Len(ops)]
  BY <1>1, <1>2
<1>4. \A r \in D : R[r] \subseteq M[r]
  <2>1. f[0] = R /\ 0 \in Nat /\ 0 <= Len(ops) /\ Len(ops) \in 0..Len(ops)
    BY <1>1, <1>2 DEF MixedBy
  <2>2. \A r \in D : f[0][r] \subseteq f[Len(ops)][r]
    BY Zenon, <1>1, <2>1, Grows
  <2>3. QED
    BY Zenon, <1>3, <2>1, <2>2
<1> DEFINE S == {i \in Nat : i <= Len(ops) => \A r \in D : f[i][r] \subseteq All(R)}
<1>5. 0 \in S
  <2>1. \A r \in D : R[r] \subseteq All(R)
    BY DEF All, Registers
  <2>2. QED
    BY <1>1, <2>1 DEF MixedBy
<1>6. ASSUME NEW i \in Nat, i \in S PROVE i + 1 \in S
  <2>1. CASE i + 1 <= Len(ops)
    <3>1. /\ i + 1 \in 1..Len(ops) /\ (i + 1) - 1 = i /\ f[i] \in Registers(D, T)
          /\ \A r \in D : f[i][r] \subseteq All(R)
      BY <1>2, <1>6, <2>1
    <3>2. f[i + 1] = [f[i] EXCEPT ![ops[i + 1][1]] = @ \cup f[i][ops[i + 1][2]]]
      BY <1>1, <3>1 DEF MixedBy
    <3>3. \A r \in D : f[i + 1][r] \subseteq All(R)
      BY <1>2, <3>1, <3>2 DEF Registers
    <3>4. QED
      BY <3>3
  <2>2. QED
    BY <2>1
<1> HIDE DEF S
<1>7. \A r \in D : M[r] \subseteq All(R)
  <2>1. Len(ops) \in S
    BY <1>2, <1>5, <1>6, Induction
  <2>2. QED
    BY <1>2, <1>3, <2>1 DEF S
<1>8. All(M) = All(R)
  BY <1>4, <1>7 DEF All, Registers
<1>9. QED
  BY <1>3, <1>4, <1>8

(* An operation gives its target what its source has. *)
LEMMA Passes ==
  ASSUME NEW D, NEW T, NEW R \in Registers(D, T), NEW ops \in Operations(D),
         NEW f \in [0..Len(ops) -> Registers(D, T)], MixedBy(f, R, ops), NEW i \in 1..Len(ops)
  PROVE  /\ f[i - 1][ops[i][1]] \subseteq f[i][ops[i][1]]
         /\ f[i - 1][ops[i][2]] \subseteq f[i][ops[i][1]]
<1>1. PICK t \in D, u \in D : t = ops[i][1] /\ u = ops[i][2]
  BY ElementOfSeq DEF Operations
<1>2. f[i] = [f[i - 1] EXCEPT ![t] = @ \cup f[i - 1][u]] /\ f[i - 1] \in [D -> SUBSET T]
  <2>1. i - 1 \in 0..Len(ops)
    BY LenProperties DEF Operations
  <2>2. QED
    BY <1>1, <2>1 DEF MixedBy, Registers
<1>3. f[i - 1][t] \subseteq f[i][t] /\ f[i - 1][u] \subseteq f[i][t]
  BY <1>2
<1>4. QED
  BY Zenon, <1>1, <1>3

(* Eleven operations bring everything to a and to b: each adds to the next  *)
(* register what the one before has gathered.                               *)
LEMMA ShortEndMixes ==
  ASSUME NEW T, NEW R \in Registers(0..3, T)
  PROVE  /\ ShortEnd \in Operations(0..3)
         /\ \A r \in {0, 1} : All(R) \subseteq Mixed(R, ShortEnd)[r]
<1>0. PICK D : D = 0..3 /\ R \in Registers(D, T)
  OBVIOUS
<1>1. ShortEnd \in Operations(D) /\ Len(ShortEnd) = 11
      /\ \A i \in 1..11 : ShortEnd[i] = <<(i + 2) % 4, (i + 1) % 4>>
  <2>1. \A i \in 1..11 : <<(i + 2) % 4, (i + 1) % 4>> \in D \X D
    BY <1>0
  <2>2. ShortEnd \in [1..11 -> D \X D] /\ \A i \in 1..11 : ShortEnd[i] = <<(i + 2) % 4, (i + 1) % 4>>
    BY <2>1 DEF ShortEnd
  <2>3. ASSUME NEW V, NEW s \in [1..11 -> V] PROVE s \in Seq(V) /\ Len(s) = 11
    BY FunctionIsSeq
  <2>4. QED
    BY <2>2, <2>3, Zenon DEF Operations
<1>ops. PICK ops \in Operations(D) : ops = ShortEnd
  BY <1>1
<1>2. PICK f \in [0..Len(ops) -> Registers(D, T)] : MixedBy(f, R, ops) /\ Mixed(R, ops) = f[Len(ops)]
  BY <1>0, MixedIs
<1>3. /\ ops \in Operations(D) /\ Len(ops) = 11
      /\ \A i \in 1..11 : ops[i] = <<(i + 2) % 4, (i + 1) % 4>>
  BY Zenon, <1>1, <1>ops
<1>4. \A m, n \in 0..11, r \in D : m <= n => f[m][r] \subseteq f[n][r]
  <2> SUFFICES ASSUME NEW m \in 0..11, NEW n \in 0..11, NEW r \in D, m <= n
               PROVE  f[m][r] \subseteq f[n][r]
    OBVIOUS
  <2>1. m \in Nat /\ n \in 0..Len(ops) /\ R \in Registers(D, T)
    BY <1>0, <1>3
  <2>2. QED
    BY ZenonT(60), <1>2, <2>1, Grows
<1> DEFINE S == {i \in Nat : i <= 11 => \A j \in 0..i : R[(j + 2) % 4] \subseteq f[i][(i + 2) % 4]}
<1>5. 0 \in S
  <2>1. f[0] = R
    BY <1>2 DEF MixedBy
  <2>2. QED
    BY <2>1
<1>6. ASSUME NEW i \in Nat, i \in S PROVE i + 1 \in S
  <2>1. CASE i + 1 <= 11
    <3>1. PICK k \in 1..11, t \in D, u \in D : /\ k = i + 1 /\ k - 1 = i
                                              /\ t = (k + 2) % 4 /\ u = (i + 2) % 4 /\ u = (k + 1) % 4
      BY <1>0, <2>1
    <3>2. f[i][t] \subseteq f[k][t] /\ f[i][u] \subseteq f[k][t]
      <4>1. ops[k][1] = t /\ ops[k][2] = u
        BY <1>3, <3>1
      <4>2. k \in 1..Len(ops)
        BY <1>3
      <4>3. f[k - 1][ops[k][1]] \subseteq f[k][ops[k][1]] /\ f[k - 1][ops[k][2]] \subseteq f[k][ops[k][1]]
        BY Zenon, <1>0, <1>2, <4>2, Passes
      <4>4. QED
        BY Zenon, <3>1, <4>1, <4>3
    <3>3. \A j \in 0..i : R[(j + 2) % 4] \subseteq f[i][u]
      BY <1>6, <2>1, <3>1
    <3>4. R[t] \subseteq f[i][t]
      <4>1. f[0] = R /\ 0 \in 0..11 /\ i \in 0..11 /\ 0 <= i
        BY <1>2, <3>1 DEF MixedBy
      <4>2. QED
        BY Zenon, <1>4, <4>1
    <3>5. ASSUME NEW j \in 0..(i + 1) PROVE R[(j + 2) % 4] \subseteq f[k][t]
      <4>1. CASE j = i + 1
        <5>1. (j + 2) % 4 = t
          BY <3>1, <4>1
        <5>2. QED
          BY <3>2, <3>4, <5>1
      <4>2. CASE j \in 0..i
        BY <3>2, <3>3, <4>2
      <4>3. QED
        BY <4>1, <4>2
    <3>6. \A j \in 0..(i + 1) : R[(j + 2) % 4] \subseteq f[i + 1][((i + 1) + 2) % 4]
      BY Zenon, <3>1, <3>5
    <3>7. QED
      BY <3>6
  <2>2. QED
    BY <2>1
<1> HIDE DEF S
<1>7. 6 \in S /\ 7 \in S
  BY <1>5, <1>6, Induction
<1>8. \A j \in 0..6 : R[(j + 2) % 4] \subseteq f[6][0] /\ R[(j + 2) % 4] \subseteq f[7][1]
  <2>1. (6 + 2) % 4 = 0 /\ (7 + 2) % 4 = 1
    OBVIOUS
  <2>2. \A j \in 0..6 : R[(j + 2) % 4] \subseteq f[6][(6 + 2) % 4] /\ R[(j + 2) % 4] \subseteq f[7][(7 + 2) % 4]
    BY <1>7 DEF S
  <2>3. QED
    BY Zenon, <2>1, <2>2
<1>9. All(R) \subseteq f[6][0] /\ All(R) \subseteq f[7][1]
  <2>1. \A r \in D : \E j \in 0..6 : r = (j + 2) % 4
    <3>1. 0 = (2 + 2) % 4 /\ 1 = (3 + 2) % 4 /\ 2 = (0 + 2) % 4 /\ 3 = (1 + 2) % 4
      OBVIOUS
    <3>2. QED
      BY <1>0, <3>1
  <2>2. \A r \in D : R[r] \subseteq f[6][0] /\ R[r] \subseteq f[7][1]
    BY Zenon, <1>8, <2>1
  <2>3. QED
    BY <1>0, <2>2 DEF All, Registers
<1>10. f[6][0] \subseteq f[11][0] /\ f[7][1] \subseteq f[11][1]
  BY <1>0, <1>4
<1>11. Mixed(R, ops) = f[11]
  BY Zenon, <1>2, <1>3
<1>12. All(R) \subseteq Mixed(R, ops)[0] /\ All(R) \subseteq Mixed(R, ops)[1]
  BY Zenon, <1>9, <1>10, <1>11
<1>13. QED
  BY Zenon, <1>0, <1>1, <1>ops, <1>12

(* Around twelve registers, two operations for each. *)
LEMMA AroundIs ==
  /\ \A i \in Nat : Around(i) \in 0..11
  /\ Around(12) = 0 /\ Around(13) = 1
  /\ \A r \in 0..11 : \E j \in 0..11 : r = Around(j + 1)
<1>1. /\ \A i \in Nat : i % 12 \in 0..11
      /\ 12 % 12 = 0 /\ 13 % 12 = 1
      /\ \A r \in 1..11 : r % 12 = r
  OBVIOUS
<1>2. \A r \in 0..11 : \E j \in 0..11 : r = (j + 1) % 12
  <2> TAKE r \in 0..11
  <2>1. CASE r = 0
    <3>1. 11 \in 0..11 /\ 11 + 1 = 12
      OBVIOUS
    <3>2. QED
      BY <1>1, <2>1, <3>1
  <2>2. CASE r # 0
    <3>1. r - 1 \in 0..11 /\ (r - 1) + 1 = r /\ r \in 1..11
      BY <2>2
    <3>2. QED
      BY <1>1, <3>1
  <2>3. QED
    BY <2>1, <2>2
<1>3. QED
  BY <1>1, <1>2 DEF Around, NUM_VARS

LEMMA EndPartialIs ==
  /\ EndPartial \in Operations(0..11) /\ Len(EndPartial) = 24
  /\ \A k \in 0..11 : /\ EndPartial[2 * k + 1] = <<Around(k + 11), Around(k + 1)>>
                      /\ EndPartial[2 * k + 2] = <<Around(k + 2), Around(k + 11)>>
<1> DEFINE Op(i) == LET r == (i - 1) \div 2
                    IN  IF i % 2 = 1 THEN <<Around(r + 11), Around(r + 1)>> ELSE <<Around(r + 2), Around(r + 11)>>
<1>1. EndPartial = [i \in 1..24 |-> Op(i)]
  BY DEF EndPartial, NUM_VARS
<1>2. \A i \in 1..24 : Op(i) \in (0..11) \X (0..11)
  <2> TAKE i \in 1..24
  <2>1. PICK r \in 0..11 : r = (i - 1) \div 2
    OBVIOUS
  <2>2. Op(i) = IF i % 2 = 1 THEN <<Around(r + 11), Around(r + 1)>> ELSE <<Around(r + 2), Around(r + 11)>>
    BY <2>1
  <2>3. \A x \in {r + 1, r + 2, r + 11} : Around(x) \in 0..11
    BY AroundIs
  <2>4. QED
    BY <2>2, <2>3
<1>3. ASSUME NEW k \in 0..11
      PROVE  /\ 2 * k + 1 \in 1..24 /\ 2 * k + 2 \in 1..24
             /\ (2 * k + 1) % 2 = 1 /\ ((2 * k + 1) - 1) \div 2 = k
             /\ (2 * k + 2) % 2 # 1 /\ ((2 * k + 2) - 1) \div 2 = k
  OBVIOUS
<1>4. \A k \in 0..11 : /\ Op(2 * k + 1) = <<Around(k + 11), Around(k + 1)>>
                       /\ Op(2 * k + 2) = <<Around(k + 2), Around(k + 11)>>
  BY <1>3, Zenon
<1> HIDE DEF Op
<1>5. EndPartial \in [1..24 -> (0..11) \X (0..11)] /\ \A i \in 1..24 : EndPartial[i] = Op(i)
  BY <1>1, <1>2
<1>6. EndPartial \in Operations(0..11) /\ Len(EndPartial) = 24
  <2>1. ASSUME NEW V, NEW s \in [1..24 -> V] PROVE s \in Seq(V) /\ Len(s) = 24
    BY FunctionIsSeq
  <2>2. QED
    BY Zenon, <1>5, <2>1 DEF Operations
<1>7. QED
  BY <1>3, <1>4, <1>5, <1>6, Zenon

(* What register k + 1 has gathered when k pairs of operations are done. *)
Carried(f, R, k) == \A j \in 0..k : R[Around(j + 1)] \subseteq f[2 * k][Around(k + 1)]

OnceAround(D, ops) == D = 0..11 /\ 24 <= Len(ops) /\ \A i \in 1..24 : ops[i] = EndPartial[i]

(* Once around is enough to bring everything to the first two registers. *)
LEMMA EndPartialMixes ==
  ASSUME NEW T, NEW D, NEW R \in Registers(D, T), NEW ops \in Operations(D), OnceAround(D, ops)
  PROVE  \A r \in {0, 1} : All(R) \subseteq Mixed(R, ops)[r]
<1>0. D = 0..11
  BY DEF OnceAround
<1>1. PICK f \in [0..Len(ops) -> Registers(D, T)] : MixedBy(f, R, ops) /\ Mixed(R, ops) = f[Len(ops)]
  BY MixedIs
<1>2. PICK n \in Nat : n = Len(ops) /\ 24 <= n
  BY LenProperties DEF Operations, OnceAround
<1>3. \A m, p \in 0..n, r \in D : m <= p => f[m][r] \subseteq f[p][r]
  <2> SUFFICES ASSUME NEW m \in 0..n, NEW p \in 0..n, NEW r \in D, m <= p
               PROVE  f[m][r] \subseteq f[p][r]
    OBVIOUS
  <2>1. m \in Nat /\ p \in 0..Len(ops)
    BY <1>2
  <2>2. QED
    BY Zenon, <1>1, <2>1, Grows
<1> DEFINE S == {k \in Nat : k <= 12 => Carried(f, R, k)}
<1>4. f[0] = R
  BY <1>1 DEF MixedBy
<1>5. 0 \in S
  <2>1. ASSUME NEW j \in 0..0 PROVE R[Around(j + 1)] \subseteq f[2 * 0][Around(0 + 1)]
    <3>1. j = 0 /\ 2 * 0 = 0
      OBVIOUS
    <3>2. QED
      BY Zenon, <1>4, <3>1
  <2>2. Carried(f, R, 0)
    BY Zenon, <2>1 DEF Carried
  <2>3. QED
    BY <2>2
<1>6. ASSUME NEW k \in Nat, k \in S PROVE k + 1 \in S
  <2>1. CASE k + 1 <= 12
    <3>1. PICK a \in D, b \in D, c \in D : a = Around(k + 1) /\ b = Around(k + 11) /\ c = Around(k + 2)
      <4>1. k + 1 \in Nat /\ k + 11 \in Nat /\ k + 2 \in Nat
        OBVIOUS
      <4>2. QED
        BY Zenon, <1>0, <4>1, AroundIs
    <3>2. PICK i \in 0..n : /\ i = 2 * k /\ i + 1 \in 1..n /\ i + 2 \in 1..n
                            /\ (i + 1) - 1 = i /\ (i + 2) - 1 = i + 1 /\ 0 <= i /\ 0 \in 0..n
      BY <1>2, <2>1
    <3>3. ops[i + 1][1] = b /\ ops[i + 1][2] = a /\ ops[i + 2][1] = c /\ ops[i + 2][2] = b
      <4>1. k \in 0..11 /\ 2 * k + 1 \in 1..24 /\ 2 * k + 2 \in 1..24
        BY <2>1
      <4>2. ops[2 * k + 1] = <<b, a>> /\ ops[2 * k + 2] = <<c, b>>
        BY <3>1, <4>1, EndPartialIs DEF OnceAround
      <4>3. QED
        BY <3>2, <4>2
    <3>4. f[i][a] \subseteq f[i + 1][b]
      <4>1. f[(i + 1) - 1][ops[i + 1][2]] \subseteq f[i + 1][ops[i + 1][1]]
        BY Zenon, <1>1, <1>2, <3>2, Passes
      <4>2. QED
        BY Zenon, <3>2, <3>3, <4>1
    <3>5. f[i + 1][c] \subseteq f[i + 2][c] /\ f[i + 1][b] \subseteq f[i + 2][c]
      <4>1. /\ f[(i + 2) - 1][ops[i + 2][1]] \subseteq f[i + 2][ops[i + 2][1]]
            /\ f[(i + 2) - 1][ops[i + 2][2]] \subseteq f[i + 2][ops[i + 2][1]]
        BY Zenon, <1>1, <1>2, <3>2, Passes
      <4>2. QED
        BY Zenon, <3>2, <3>3, <4>1
    <3>6. R[c] \subseteq f[i + 2][c]
      <4>1. i + 2 \in 0..n /\ 0 <= i + 2
        BY <3>2
      <4>2. f[0][c] \subseteq f[i + 2][c]
        BY Zenon, <1>3, <3>2, <4>1
      <4>3. QED
        BY Zenon, <1>4, <4>2
    <3>7. \A j \in 0..k : R[Around(j + 1)] \subseteq f[i][a]
      <4>1. \A j \in 0..k : R[Around(j + 1)] \subseteq f[2 * k][Around(k + 1)]
        <5>1. Carried(f, R, k)
          BY <1>6, <2>1
        <5>2. QED
          BY Zenon, <5>1 DEF Carried
      <4>2. QED
        BY Zenon, <3>1, <3>2, <4>1
    <3>8. ASSUME NEW j \in 0..(k + 1) PROVE R[Around(j + 1)] \subseteq f[i + 2][c]
      <4>1. CASE j = k + 1
        <5>1. Around(j + 1) = c
          <6>1. j + 1 = k + 2
            BY <4>1
          <6>2. QED
            BY Zenon, <3>1, <6>1
        <5>2. QED
          BY Zenon, <3>6, <5>1
      <4>2. CASE j \in 0..k
        BY <3>4, <3>5, <3>7, <4>2
      <4>3. QED
        BY <4>1, <4>2
    <3>9. i + 2 = 2 * (k + 1) /\ c = Around((k + 1) + 1)
      <4>1. i + 2 = 2 * (k + 1) /\ (k + 1) + 1 = k + 2
        BY <3>2
      <4>2. QED
        BY Zenon, <3>1, <4>1
    <3>10. Carried(f, R, k + 1)
      BY Zenon, <3>8, <3>9 DEF Carried
    <3>11. QED
      BY <3>10
  <2>2. QED
    BY <2>1
<1> HIDE DEF S
<1>7. \A j \in 0..11 : R[Around(j + 1)] \subseteq f[22][0] /\ R[Around(j + 1)] \subseteq f[24][1]
  <2>1. 11 \in S /\ 12 \in S
    BY <1>5, <1>6, Induction
  <2>2. 2 * 11 = 22 /\ 2 * 12 = 24 /\ Around(11 + 1) = 0 /\ Around(12 + 1) = 1
    <3>1. 2 * 11 = 22 /\ 2 * 12 = 24 /\ 11 + 1 = 12 /\ 12 + 1 = 13
      OBVIOUS
    <3>2. QED
      BY Zenon, <3>1, AroundIs
  <2>3. \A j \in 0..11 : /\ R[Around(j + 1)] \subseteq f[2 * 11][Around(11 + 1)]
                         /\ R[Around(j + 1)] \subseteq f[2 * 12][Around(12 + 1)]
    <3>1. Carried(f, R, 11) /\ Carried(f, R, 12)
      BY <2>1 DEF S
    <3>2. \A j \in 0..11 : j \in 0..12
      OBVIOUS
    <3>3. QED
      BY Zenon, <3>1, <3>2 DEF Carried
  <2>4. QED
    BY Zenon, <2>2, <2>3
<1>8. All(R) \subseteq f[22][0] /\ All(R) \subseteq f[24][1]
  <2>1. ASSUME NEW r \in D PROVE \E j \in 0..11 : r = Around(j + 1)
    BY Zenon, <1>0, AroundIs
  <2>2. \A r \in D : R[r] \subseteq f[22][0] /\ R[r] \subseteq f[24][1]
    BY Zenon, <1>7, <2>1
  <2>3. QED
    BY <1>0, <2>2 DEF All, Registers
<1>9. f[22][0] \subseteq f[n][0] /\ f[24][1] \subseteq f[n][1]
  <2>1. 22 \in 0..n /\ 24 \in 0..n /\ n \in 0..n /\ 22 <= n /\ 0 \in D /\ 1 \in D
    BY <1>0, <1>2
  <2>2. QED
    BY Zenon, <1>2, <1>3, <2>1
<1>10. Mixed(R, ops) = f[n]
  BY Zenon, <1>1, <1>2
<1>11. All(R) \subseteq Mixed(R, ops)[0] /\ All(R) \subseteq Mixed(R, ops)[1]
  BY Zenon, <1>8, <1>9, <1>10
<1>12. QED
  BY <1>11
-----------------------------------------------------------------------------
(* The bytes that rs adds to register q. *)
Share(rs, q) == BytesOf({x \in rs : x.register = q})

Takes(x, b) == b \in {x.from + i : i \in 0..(x.size - 1)}

LEMMA Shares ==
  ASSUME NEW D, NEW rs, \A x \in rs : x.register \in D
  PROVE  BytesOf(rs) = UNION {Share(rs, q) : q \in D}
<1>1. \A s, b : b \in BytesOf(s) <=> \E x \in s : Takes(x, b)
  BY Zenon DEF BytesOf, Takes
<1>2. ASSUME NEW q, NEW b
      PROVE  b \in Share(rs, q) <=> \E x \in rs : x.register = q /\ Takes(x, b)
  <2>1. b \in Share(rs, q) <=> \E x \in {y \in rs : y.register = q} : Takes(x, b)
    BY <1>1, Zenon DEF Share
  <2>2. QED
    BY <2>1
<1>3. ASSUME NEW b PROVE b \in BytesOf(rs) <=> \E q \in D : b \in Share(rs, q)
  <2>1. b \in BytesOf(rs) <=> \E x \in rs : Takes(x, b)
    BY <1>1
  <2>2. QED
    BY <1>2, <2>1
<1>4. QED
  BY <1>3

LEMMA AddKeeps ==
  ASSUME NEW D, NEW T, NEW R \in Registers(D, T),
         NEW rs, \A x \in rs : x.register \in D, BytesOf(rs) \subseteq T
  PROVE  /\ [r \in D |-> R[r] \cup Share(rs, r)] \in Registers(D, T)
         /\ All([r \in D |-> R[r] \cup Share(rs, r)]) = All(R) \cup BytesOf(rs)
<1>1. BytesOf(rs) = UNION {Share(rs, q) : q \in D}
  BY Shares
<1>2. QED
  BY <1>1 DEF Registers, All

LEMMA PlusKeeps ==
  ASSUME NEW D, NEW T, register \in Registers(D, T),
         NEW rs, \A x \in rs : x.register \in D, BytesOf(rs) \subseteq T
  PROVE  Plus(rs) \in Registers(D, T) /\ All(Plus(rs)) = All(register) \cup BytesOf(rs)
<1>1. Plus(rs) = [q \in D |-> register[q] \cup Share(rs, q)]
  BY Zenon DEF Plus, Share, Registers
<1>2. QED
  BY <1>1, AddKeeps

(* The operations of internal_spooky_hash_mix for one register. *)
OpsOf(i) == <<<<Around(i + 2), Around(i + 10)>>, <<Around(i + 11), i>>, <<Around(i + 11), Around(i + 1)>>>>

LEMMA OpsOfTyped == \A i \in 0..11 : OpsOf(i) \in Operations(0..11)
<1> TAKE i \in 0..11
<1>1. \A k \in {1, 2, 10, 11} : Around(i + k) \in 0..11
  BY AroundIs
<1>2. PICK D : D = 0..11
  OBVIOUS
<1>3. \A a, b, c, d \in D : <<<<a, b>>, <<c, i>>, <<c, d>>>> \in Seq(D \X D)
  BY <1>2
<1>4. QED
  BY <1>1, <1>2, <1>3, Zenon DEF OpsOf, Operations

(* A mix of twelve words adds them and loses nothing. *)
LEMMA LongMixKeeps ==
  ASSUME NEW T, NEW R \in Registers(0..11, T), NEW rs, \A x \in rs : x.register \in 0..11, BytesOf(rs) \subseteq T
  PROVE  /\ LongMix(R, rs) \in Registers(0..11, T)
         /\ All(LongMix(R, rs)) = All(R) \cup BytesOf(rs)
<1> DEFINE seq == [i \in 1..NUM_VARS |-> i - 1]
           step(v, i) == Mixed([v EXCEPT ![seq[i]] = @ \cup Share(rs, seq[i])], OpsOf(seq[i]))
           Steps(F) == F = [s \in SUBSET DOMAIN seq |-> IF s = {} THEN R ELSE step(F[s \ {Max(s)}], Max(s))]
           F == CHOOSE k : Steps(k)
           V == Registers(0..11, T)
           g == [x \in (1..12) \X V |-> step(x[2], x[1])]
<1>1. LongMix(R, rs) = F[DOMAIN seq]
  BY Zenon DEF LongMix, FoldLeft, MapThenFoldSet, OpsOf, Share
<1>2. DOMAIN seq = 1..12 /\ \A i \in 1..12 : seq[i] = i - 1
  BY DEF NUM_VARS
<1>3. BytesOf(rs) = UNION {Share(rs, q) : q \in 0..11}
  BY Shares
<1> HIDE DEF seq
<1>4. ASSUME NEW v \in V, NEW i \in 1..12
      PROVE  step(v, i) \in V /\ All(step(v, i)) = All(v) \cup Share(rs, i - 1)
  <2>1. PICK q \in 0..11 : q = i - 1 /\ seq[i] = q
    BY <1>2
  <2>2. PICK w : w = [v EXCEPT ![q] = @ \cup Share(rs, q)]
    OBVIOUS
  <2>3. w \in V /\ All(w) = All(v) \cup Share(rs, q)
    BY <1>3, <2>2 DEF Registers, All
  <2>4. OpsOf(q) \in Operations(0..11)
    BY OpsOfTyped
  <2>5. Mixed(w, OpsOf(q)) \in V /\ All(Mixed(w, OpsOf(q))) = All(w)
    <3>1. PICK D : D = 0..11
      OBVIOUS
    <3>2. PICK ops \in Operations(D) : ops = OpsOf(q)
      BY Zenon, <2>4, <3>1
    <3>3. w \in Registers(D, T)
      BY Zenon, <2>3, <3>1 DEF V
    <3>4. Mixed(w, ops) \in Registers(D, T) /\ All(Mixed(w, ops)) = All(w)
      BY <3>3, MixedKeeps
    <3>5. QED
      BY Zenon, <3>1, <3>2, <3>4 DEF V
  <2>6. step(v, i) = Mixed(w, OpsOf(q))
    BY Zenon, <2>1, <2>2
  <2>7. QED
    BY Zenon, <2>1, <2>3, <2>5, <2>6
<1>5. Steps(F)
  <2>1. g \in [(1..12) \X V -> V] /\ \A i \in 1..12, v \in V : g[<<i, v>>] = step(v, i)
    BY <1>4
  <2> HIDE DEF V, step, g
  <2>2. R \in V
    BY DEF V
  <2>3. PICK k \in [SUBSET (1..12) -> V] : Folded(k, 12, R, g)
    BY Zenon, <2>1, <2>2, FoldDefined DEF HasFold
  <2>4. ASSUME NEW s \in SUBSET (1..12)
        PROVE  k[s] = IF s = {} THEN R ELSE step(k[s \ {Max(s)}], Max(s))
    <3>1. CASE s = {}
      BY <2>3, <3>1 DEF Folded
    <3>2. CASE s # {}
      <4>1. Max(s) \in 1..12 /\ k[s] = g[<<Max(s), k[s \ {Max(s)}]>>]
        BY <2>3, <3>2 DEF Folded
      <4>2. k[s \ {Max(s)}] \in V
        OBVIOUS
      <4>3. QED
        BY <2>1, <3>2, <4>1, <4>2
    <3>3. QED
      BY <3>1, <3>2
  <2>5. k = [s \in SUBSET (1..12) |-> IF s = {} THEN R ELSE step(k[s \ {Max(s)}], Max(s))]
    BY <2>4
  <2>6. Steps(k)
    BY <1>2, <2>5
  <2>7. QED
    BY <2>6
<1>6. F[{}] = R /\ \A i \in 1..12 : F[1..i] = step(F[1..(i - 1)], i)
  <2> HIDE DEF step, F
  <2>1. F = [s \in SUBSET (1..12) |-> IF s = {} THEN R ELSE step(F[s \ {Max(s)}], Max(s))]
    BY <1>2, <1>5, Zenon
  <2>2. F[{}] = R
    BY <2>1
  <2>3. ASSUME NEW i \in 1..12 PROVE F[1..i] = step(F[1..(i - 1)], i)
    <3>1. 1..i \in SUBSET (1..12) /\ 1..i # {} /\ i \in Nat \ {0}
      <4>1. i \in 1..i /\ (1..i) \subseteq 1..12 /\ i \in Nat \ {0}
        OBVIOUS
      <4>2. QED
        BY Zenon, <4>1
    <3>2. Max(1..i) = i /\ (1..i) \ {i} = 1..(i - 1)
      BY <3>1, PrefixMax
    <3>3. F[1..i] = step(F[(1..i) \ {Max(1..i)}], Max(1..i))
      BY <2>1, <3>1
    <3>4. QED
      BY <3>2, <3>3, Zenon
  <2>4. QED
    BY <2>2, <2>3
<1> HIDE DEF F, step, g
<1> DEFINE Sum(i) == All(R) \cup UNION {Share(rs, q) : q \in 0..(i - 1)}
           S == {i \in Nat : i <= 12 => F[1..i] \in V /\ All(F[1..i]) = Sum(i)}
<1>7. 0 \in S
  <2>1. 1..0 = {} /\ Sum(0) = All(R)
    OBVIOUS
  <2>2. F[1..0] \in V /\ All(F[1..0]) = Sum(0)
    BY Zenon, <1>6, <2>1
  <2>3. QED
    BY <2>2
<1>8. ASSUME NEW i \in Nat, i \in S PROVE i + 1 \in S
  <2>1. CASE i + 1 <= 12
    <3>1. PICK j \in 1..12 : j = i + 1 /\ j - 1 = i
      BY <2>1
    <3>2. F[1..i] \in V /\ All(F[1..i]) = Sum(i)
      BY <1>8, <2>1
    <3>3. F[1..j] = step(F[1..i], j)
      BY Zenon, <1>6, <3>1
    <3>4. F[1..j] \in V /\ All(F[1..j]) = Sum(i) \cup Share(rs, i)
      BY Zenon, <1>4, <3>1, <3>2, <3>3
    <3>5. Sum(j) = Sum(i) \cup Share(rs, i)
      <4>1. \A q : q \in 0..(j - 1) <=> q \in 0..(i - 1) \/ q = i
        BY <3>1
      <4>2. QED
        BY <4>1
    <3>6. F[1..(i + 1)] \in V /\ All(F[1..(i + 1)]) = Sum(i + 1)
      BY Zenon, <3>1, <3>4, <3>5
    <3>7. QED
      BY <3>6
  <2>2. QED
    BY <2>1
<1> HIDE DEF S
<1>9. 12 \in S
  BY <1>7, <1>8, Induction
<1>10. F[1..12] \in V /\ All(F[1..12]) = All(R) \cup BytesOf(rs)
  <2>1. 12 - 1 = 11
    OBVIOUS
  <2>2. F[1..12] \in V /\ All(F[1..12]) = Sum(12)
    BY <1>9 DEF S
  <2>3. QED
    BY Zenon, <1>3, <2>1, <2>2
<1>11. QED
  BY Zenon, <1>1, <1>2, <1>10
-----------------------------------------------------------------------------
(* The registers of a call. *)
Names == IF Spooky /\ ~Short THEN 0..11 ELSE 0..3

(* What the registers depend on: all together until the end of a mix brings *)
(* it to the first two, or until xxHash keeps it in one.                    *)
Contents ==
  /\ register \in Registers(Names, Int)
  /\ stage = "blocks" \/ (Spooky /\ stage = "tail") =>
       All(register) = 0..(next - 1) \cup Seeds(message.function)
  /\ ~Spooky /\ stage = "blocks" /\ message.length < 16 => next = 0
  /\ ~Spooky /\ stage = "tail" => register[0] = 0..(next - 1) \cup {Hash2, LengthToken}
  /\ HashOfAll

LEMMA BytesUnion == \A s, t : BytesOf(s \cup t) = BytesOf(s) \cup BytesOf(t)
<1> TAKE s, t
<1>1. \A u, b : b \in BytesOf(u) <=> \E x \in u : Takes(x, b)
  BY Zenon DEF BytesOf, Takes
<1>2. QED
  BY <1>1

(* A step adds to the bytes that are absorbed exactly those it reads. *)
LEMMA ReadSoFar ==
  ASSUME HashInv, HashInv', NEW rs, Reading(rs)
  PROVE  /\ 0..(next' - 1) = 0..(next - 1) \cup BytesOf(rs)
         /\ BytesOf(rs) \subseteq Int
<1>1. reads' = rs /\ taken' = taken \cup BytesOf(reads)
  BY DEF Reading
<1>2. taken \cup BytesOf(reads) = 0..(next - 1)
  BY DEF HashInv, AbsorbsOnce
<1>3. taken' \cup BytesOf(rs) = 0..(next' - 1)
  BY <1>1 DEF HashInv, AbsorbsOnce
<1>4. QED
  BY <1>1, <1>2, <1>3

(* The length goes into one register. *)
LEMMA WithLength ==
  ASSUME NEW D, NEW R \in Registers(D, Int), NEW last \in D
  PROVE  /\ [R EXCEPT ![last] = @ \cup {LengthToken}] \in Registers(D, Int)
         /\ All([R EXCEPT ![last] = @ \cup {LengthToken}]) = All(R) \cup {LengthToken}
<1>1. LengthToken \in Int
  BY DEF LengthToken
<1>2. QED
  BY <1>1 DEF Registers, All

LEMMA ShortMixTyped == ShortMix \in Operations(0..3)
<1> DEFINE V == (0..3) \X (0..3)
           Op(k) == <<<<2, 3>>, <<0, 2>>, <<3, 0>>, <<1, 3>>, <<0, 1>>, <<2, 0>>, <<1, 2>>, <<3, 1>>>>[k]
<1>1. \A k \in 1..8 : Op(k) \in V
  OBVIOUS
<1>2. \A i \in 1..24 : ((i - 1) % 8) + 1 \in 1..8
  OBVIOUS
<1>3. ShortMix = [i \in 1..24 |-> Op(((i - 1) % 8) + 1)]
  BY Zenon DEF ShortMix
<1> HIDE DEF V, Op
<1>4. ShortMix \in [1..24 -> V]
  BY <1>1, <1>2, <1>3
<1>5. ASSUME NEW W, NEW s \in [1..24 -> W] PROVE s \in Seq(W)
  BY FunctionIsSeq
<1>6. QED
  BY Zenon, <1>4, <1>5 DEF Operations, V

(* A step that adds what it reads and keeps the rest. *)
LEMMA StillAll ==
  ASSUME HashInv, HashInv', Contents, NEW rs, Reading(rs),
         stage = "blocks" \/ (Spooky /\ stage = "tail"), stage' \in {"blocks", "tail"},
         ~Spooky => stage' = "blocks" /\ message.length >= 16,
         register' \in Registers(Names, Int), All(register') = All(register) \cup BytesOf(rs)
  PROVE  Contents'
<1>1. message' = message /\ message.length \in Nat
  BY DEF Reading, HashInv, HashTypes
<1>2. /\ Names' = Names /\ Spooky' = Spooky /\ Seeds(message.function)' = Seeds(message.function)
  BY <1>1 DEF Names, Spooky, Short, Seeds
<1>3. 0..(next' - 1) = 0..(next - 1) \cup BytesOf(rs)
  BY ReadSoFar
<1>4. All(register') = 0..(next' - 1) \cup Seeds(message'.function)
  BY <1>1, <1>3 DEF Contents
<1>5. QED
  BY <1>1, <1>2, <1>4 DEF Contents, HashOfAll

(* The last step of SpookyHash. *)
LEMMA AllIn ==
  ASSUME HashInv, HashInv', Contents, NEW rs, Reading(rs), Spooky,
         stage \in {"blocks", "tail"}, stage' = "done",
         register' \in Registers(Names, Int),
         \A r \in {0, 1} : register'[r] = All(register) \cup BytesOf(rs) \cup {LengthToken}
  PROVE  Contents'
<1>1. message' = message
  BY DEF Reading
<1>2. /\ Names' = Names /\ Spooky' = Spooky /\ Seeds(message.function)' = Seeds(message.function)
      /\ Result' \subseteq {0, 1}
  BY <1>1 DEF Names, Spooky, Short, Seeds, Result
<1>3. 0..(next' - 1) = 0..(next - 1) \cup BytesOf(rs)
  BY ReadSoFar
<1>4. next' = message.length
  BY <1>1 DEF HashInv, AbsorbsOnce
<1>5. All(register) = 0..(next - 1) \cup Seeds(message.function)
  BY DEF Contents
<1>6. \A r \in {0, 1} : register'[r] = 0..(message.length - 1) \cup Seeds(message.function) \cup {LengthToken}
  BY <1>3, <1>4, <1>5
<1>7. HashOfAll'
  BY <1>1, <1>2, <1>6 DEF HashOfAll
<1>8. QED
  BY <1>1, <1>2, <1>7 DEF Contents

LEMMA ContentsStart == HashInit => Contents
<1> SUFFICES ASSUME HashInit PROVE Contents
  OBVIOUS
<1>1. /\ message.function \in Functions /\ message.length \in Nat
      /\ stage = "blocks" /\ next = 0
      /\ register = Seeded(message.function, message.length)
  BY FunctionsAssumption, MessageLengthsAssumption DEF HashInit, Functions
<1>2. 0..(next - 1) = {}
  BY <1>1
<1>3. register \in Registers(Names, Int) /\ All(register) = Seeds(message.function)
  <2>0. Hash1 \in Int /\ Hash2 \in Int /\ Seeds(message.function) \in {{Hash1, Hash2}, {Hash2}}
    BY DEF Hash1, Hash2, Seeds
  <2>1. CASE message.function = "xxhash32"
    <3>1. register = [r \in 0..3 |-> {Hash2}] /\ Names = 0..3 /\ Seeds(message.function) = {Hash2}
      <4>1. Names = 0..3
        BY <2>1 DEF Names, Spooky
      <4>2. Seeds(message.function) = {Hash2}
        BY <2>1 DEF Seeds
      <4>3. register = [r \in 0..3 |-> {Hash2}]
        BY <1>1, <2>1, Zenon DEF Seeded
      <4>4. QED
        BY <4>1, <4>2, <4>3
    <3>2. QED
      BY <2>0, <3>1 DEF Registers, All
  <2>2. CASE message.function # "xxhash32" /\ message.length < BUF_SIZE
    <3>1. Names = 0..3
      BY <2>2 DEF Names, Spooky, Short
    <3>2. /\ register \in [0..3 -> SUBSET Int]
          /\ register[0] = Seeds(message.function) \cap {Hash1}
          /\ register[1] = {Hash2} /\ register[2] = {} /\ register[3] = {}
      BY <1>1, <2>0, <2>2 DEF Seeded
    <3>3. QED
      BY <2>0, <3>1, <3>2 DEF Registers, All
  <2>3. CASE message.function # "xxhash32" /\ ~(message.length < BUF_SIZE)
    <3>1. Names = 0..11
      BY <2>3 DEF Names, Spooky, Short
    <3>2. \A r \in 0..11 : r % 3 \in {0, 1, 2} /\ 0 % 3 = 0 /\ 1 % 3 = 1
      OBVIOUS
    <3>3. register = [r \in 0..11 |-> CASE r % 3 = 0 -> Seeds(message.function) \cap {Hash1}
                                        [] r % 3 = 1 -> {Hash2}
                                        [] r % 3 = 2 -> {}]
      BY <1>1, <2>3 DEF Seeded, NUM_VARS
    <3>4. /\ register \in [0..11 -> SUBSET Int]
          /\ register[0] = Seeds(message.function) \cap {Hash1} /\ register[1] = {Hash2}
          /\ \A r \in 0..11 : register[r] \subseteq Seeds(message.function)
      BY <2>0, <3>2, <3>3
    <3>5. QED
      BY <2>0, <3>1, <3>4 DEF Registers, All
  <2>4. QED
    BY <2>1, <2>2, <2>3
<1>4. QED
  BY <1>1, <1>2, <1>3 DEF Contents, HashOfAll
-----------------------------------------------------------------------------
LEMMA ShortBlockContents == ASSUME HashInv, HashInv', Contents, Spooky, ShortBlock PROVE Contents'
<1> DEFINE first == {Full(2, next, 8), Full(3, next + 8, 8)}
           second == {Full(0, next + 16, 8), Full(1, next + 24, 8)}
           mixed == Mixed(Plus(first), ShortMix)
<1>0. PICK D : D = 0..3
  OBVIOUS
<1>1. /\ Short /\ stage = "blocks" /\ stage' = stage /\ Reading(first \cup second)
      /\ register' = [r \in D |-> mixed[r] \cup Share(second, r)]
  BY Zenon, <1>0 DEF ShortBlock, Share
<1>2. \A x \in first \cup second : x.register \in D
  BY <1>0 DEF Full
<1> HIDE DEF first, second, mixed
<1>3. Names = D /\ register \in Registers(D, Int)
  BY <1>0, <1>1 DEF Names, Contents
<1>4. BytesOf(first \cup second) = BytesOf(first) \cup BytesOf(second)
  BY BytesUnion
<1>5. BytesOf(first) \subseteq Int /\ BytesOf(second) \subseteq Int
  BY <1>1, <1>4, ReadSoFar
<1>6. Plus(first) \in Registers(D, Int) /\ All(Plus(first)) = All(register) \cup BytesOf(first)
  BY <1>2, <1>3, <1>5, PlusKeeps
<1>11. PICK ops \in Operations(D) : ops = ShortMix
  BY <1>0, ShortMixTyped
<1>7. mixed \in Registers(D, Int) /\ All(mixed) = All(Plus(first))
  BY Zenon, <1>6, <1>11, MixedKeeps DEF mixed
<1>8. register' \in Registers(D, Int) /\ All(register') = All(mixed) \cup BytesOf(second)
  BY <1>1, <1>2, <1>5, <1>7, AddKeeps
<1>9. All(register') = All(register) \cup BytesOf(first \cup second)
  BY <1>4, <1>6, <1>7, <1>8
<1>10. QED
  BY <1>1, <1>3, <1>8, <1>9, StillAll

LEMMA ShortHalfContents == ASSUME HashInv, HashInv', Contents, Spooky, ShortHalf PROVE Contents'
<1> DEFINE first == {Full(2, next, 8), Full(3, next + 8, 8)}
<1>0. PICK D : D = 0..3
  OBVIOUS
<1>1. /\ Short /\ stage = "blocks" /\ stage' = "tail" /\ Reading(first)
      /\ register' = Mixed(Plus(first), ShortMix)
  BY Zenon DEF ShortHalf
<1>2. \A x \in first : x.register \in D
  BY <1>0 DEF Full
<1> HIDE DEF first
<1>3. Names = D /\ register \in Registers(D, Int)
  BY <1>0, <1>1 DEF Names, Contents
<1>4. BytesOf(first) \subseteq Int
  BY <1>1, ReadSoFar
<1>5. Plus(first) \in Registers(D, Int) /\ All(Plus(first)) = All(register) \cup BytesOf(first)
  BY <1>2, <1>3, <1>4, PlusKeeps
<1>11. PICK ops \in Operations(D) : ops = ShortMix
  BY <1>0, ShortMixTyped
<1>6. register' \in Registers(D, Int) /\ All(register') = All(Plus(first))
  BY Zenon, <1>1, <1>5, <1>11, MixedKeeps
<1>7. QED
  BY <1>1, <1>3, <1>5, <1>6, StillAll

LEMMA ShortTailContents == ASSUME HashInv, HashInv', Contents, Spooky, ShortTail PROVE Contents'
<1> DEFINE rs == TailReads
           w == [Plus(rs) EXCEPT ![3] = @ \cup {LengthToken}]
<1>0. PICK D : D = 0..3
  OBVIOUS
<1>1. /\ Short /\ stage \in {"blocks", "tail"} /\ stage' = "done" /\ Reading(rs)
      /\ register' = Mixed(w, ShortEnd)
  BY Zenon DEF ShortTail
<1>2. \A x \in rs : x.register \in D
  <2>1. next \in Nat /\ rest \in 0..15
    BY <1>1 DEF HashInv, HashTypes, Position, ShortTail
  <2>2. Placed(TailReads, next, next + rest, 8, ShortAt)
    BY <2>1, TailPlaced
  <2>3. QED
    BY <1>0, <2>2 DEF Placed, ShortAt
<1> HIDE DEF rs, w
<1>3. Names = D /\ register \in Registers(D, Int)
  BY <1>0, <1>1 DEF Names, Contents
<1>4. BytesOf(rs) \subseteq Int
  BY <1>1, ReadSoFar
<1>5. Plus(rs) \in Registers(D, Int) /\ All(Plus(rs)) = All(register) \cup BytesOf(rs)
  BY <1>2, <1>3, <1>4, PlusKeeps
<1>6. w \in Registers(D, Int) /\ All(w) = All(Plus(rs)) \cup {LengthToken}
  <2>1. 3 \in D
    BY <1>0
  <2>2. QED
    BY Zenon, <1>5, <2>1, WithLength DEF w
<1>7. ShortEnd \in Operations(D) /\ \A r \in {0, 1} : All(w) \subseteq register'[r]
  BY Zenon, <1>0, <1>1, <1>6, ShortEndMixes
<1>8. register' \in Registers(D, Int) /\ All(register') = All(w)
  BY Zenon, <1>1, <1>6, <1>7, MixedKeeps
<1>9. \A r \in {0, 1} : register'[r] = All(register) \cup BytesOf(rs) \cup {LengthToken}
  <2>1. \A r \in {0, 1} : register'[r] \subseteq All(w)
    BY <1>0, <1>8 DEF All, Registers
  <2>2. QED
    BY <1>5, <1>6, <1>7, <2>1
<1>10. QED
  BY <1>1, <1>3, <1>8, <1>9, AllIn

LEMMA LongBlockContents == ASSUME HashInv, HashInv', Contents, Spooky, LongBlock PROVE Contents'
<1> DEFINE rs == {Full(r, next + 8 * r, 8) : r \in 0..(NUM_VARS - 1)}
<1>1. /\ ~Short /\ stage = "blocks" /\ stage' = stage /\ Reading(rs)
      /\ register' = LongMix(register, rs)
  BY Zenon DEF LongBlock
<1>2. \A x \in rs : x.register \in 0..11
  BY DEF Full, NUM_VARS
<1> HIDE DEF rs
<1>3. Names = 0..11 /\ register \in Registers(0..11, Int)
  BY <1>1 DEF Names, Contents
<1>4. BytesOf(rs) \subseteq Int
  BY <1>1, ReadSoFar
<1>5. register' \in Registers(0..11, Int) /\ All(register') = All(register) \cup BytesOf(rs)
  BY Zenon, <1>1, <1>2, <1>3, <1>4, LongMixKeeps
<1>6. QED
  BY <1>1, <1>3, <1>5, StillAll

(* A sequence of operations that begins with a round. *)
LEMMA StartsWith ==
  ASSUME NEW V, NEW s \in Seq(V), NEW t \in Seq(V), 24 <= Len(s)
  PROVE  s \o t \in Seq(V) /\ 24 <= Len(s \o t) /\ \A i \in 1..24 : (s \o t)[i] = s[i]
<1>1. PICK m \in Nat, n \in Nat : Len(s) = m /\ Len(t) = n /\ 24 <= m
  BY LenProperties
<1>2. s \o t \in Seq(V) /\ Len(s \o t) = m + n
  BY <1>1, ConcatProperties
<1>3. \A i \in 1..m : (s \o t)[i] = s[i]
  BY <1>1, ConcatProperties
<1>4. 24 <= m + n /\ \A i \in 1..24 : i \in 1..m
  BY <1>1
<1>5. QED
  BY Zenon, <1>2, <1>3, <1>4

LEMMA ThreeTimes ==
  ASSUME NEW D, D = 0..11
  PROVE  /\ EndPartial \o EndPartial \o EndPartial \in Operations(D)
         /\ OnceAround(D, EndPartial \o EndPartial \o EndPartial)
<1>1. PICK V : V = D \X D
  OBVIOUS
<1>2. PICK e \in Seq(V) : e = EndPartial /\ 24 <= Len(e)
  <2>1. EndPartial \in Operations(0..11) /\ Len(EndPartial) = 24
    BY Zenon, EndPartialIs
  <2>2. 24 <= Len(EndPartial)
    BY <2>1
  <2>3. EndPartial \in Seq(V)
    BY Zenon, <1>1, <2>1 DEF Operations
  <2>4. QED
    BY Zenon, <2>2, <2>3
<1>3. PICK d \in Seq(V) : d = e \o e /\ 24 <= Len(d) /\ \A i \in 1..24 : d[i] = e[i]
  <2>1. e \o e \in Seq(V) /\ 24 <= Len(e \o e) /\ \A i \in 1..24 : (e \o e)[i] = e[i]
    BY Zenon, <1>2, StartsWith
  <2>2. QED
    BY Zenon, <2>1
<1>4. PICK f \in Seq(V) : f = d \o e /\ 24 <= Len(f) /\ \A i \in 1..24 : f[i] = d[i]
  <2>1. d \in Seq(V) /\ e \in Seq(V) /\ 24 <= Len(d)
    BY Zenon, <1>3
  <2>2. d \o e \in Seq(V) /\ 24 <= Len(d \o e) /\ \A i \in 1..24 : (d \o e)[i] = d[i]
    BY Zenon, <2>1, StartsWith
  <2>3. QED
    BY Zenon, <2>2
<1>5. f = EndPartial \o EndPartial \o EndPartial
  BY Zenon, <1>2, <1>3, <1>4
<1>6. 24 <= Len(f) /\ \A i \in 1..24 : f[i] = EndPartial[i]
  BY Zenon, <1>2, <1>3, <1>4
<1>7. QED
  BY Zenon, <1>1, <1>5, <1>6 DEF OnceAround, Operations

LEMMA LongTailContents == ASSUME HashInv, HashInv', Contents, Spooky, LongTail PROVE Contents'
<1> DEFINE rs == {Single(i \div 8, next + i, i % 8) : i \in 0..(rest - 1)}
           w == [Plus(rs) EXCEPT ![NUM_VARS - 1] = @ \cup {LengthToken}]
<1>0. PICK D : D = 0..11
  OBVIOUS
<1>1. /\ ~Short /\ stage = "blocks" /\ stage' = "done" /\ Reading(rs)
      /\ register' = Mixed(w, EndPartial \o EndPartial \o EndPartial)
  BY Zenon DEF LongTail
<1>2. \A x \in rs : x.register \in D
  <2>1. rest \in Nat /\ rest < 96
    BY DEF HashInv, HashTypes, LongTail, BLOCK_SIZE, NUM_VARS
  <2>2. \A i \in 0..(rest - 1) : i \div 8 \in 0..11
    BY <2>1
  <2>3. QED
    BY <1>0, <2>2 DEF Single
<1> HIDE DEF rs, w
<1>3. Names = D /\ register \in Registers(D, Int)
  BY <1>0, <1>1 DEF Names, Contents
<1>4. BytesOf(rs) \subseteq Int
  BY <1>1, ReadSoFar
<1>5. Plus(rs) \in Registers(D, Int) /\ All(Plus(rs)) = All(register) \cup BytesOf(rs)
  BY <1>2, <1>3, <1>4, PlusKeeps
<1>6. w \in Registers(D, Int) /\ All(w) = All(Plus(rs)) \cup {LengthToken}
  <2>1. NUM_VARS - 1 \in D
    BY <1>0 DEF NUM_VARS
  <2>2. QED
    BY Zenon, <1>5, <2>1, WithLength DEF w
<1>7. PICK ops \in Operations(D) : ops = EndPartial \o EndPartial \o EndPartial /\ OnceAround(D, ops)
  BY Zenon, <1>0, ThreeTimes
<1>8. register' \in Registers(D, Int) /\ All(register') = All(w)
  BY Zenon, <1>1, <1>6, <1>7, MixedKeeps
<1>9. \A r \in {0, 1} : register'[r] = All(register) \cup BytesOf(rs) \cup {LengthToken}
  <2>1. \A r \in {0, 1} : All(w) \subseteq register'[r]
    BY Zenon, <1>1, <1>6, <1>7, EndPartialMixes
  <2>2. \A r \in {0, 1} : register'[r] \subseteq All(w)
    BY <1>0, <1>8 DEF All, Registers
  <2>3. QED
    BY <1>5, <1>6, <2>1, <2>2
<1>10. QED
  BY <1>1, <1>3, <1>8, <1>9, AllIn

LEMMA StripeContents == ASSUME HashInv, HashInv', Contents, ~Spooky, Stripe PROVE Contents'
<1> DEFINE rs == {Full(r, next + 4 * r, 4) : r \in 0..3}
<1>1. /\ stage = "blocks" /\ stage' = stage /\ Reading(rs)
      /\ register' = Plus(rs) /\ rest >= 16
  BY Zenon DEF Stripe
<1>2. \A x \in rs : x.register \in 0..3
  BY DEF Full
<1> HIDE DEF rs
<1>3. Names = 0..3 /\ register \in Registers(0..3, Int) /\ message.length >= 16
  BY <1>1 DEF Names, Contents, HashInv, HashTypes
<1>4. BytesOf(rs) \subseteq Int
  BY <1>1, ReadSoFar
<1>5. Plus(rs) \in Registers(0..3, Int) /\ All(Plus(rs)) = All(register) \cup BytesOf(rs)
  BY <1>2, <1>3, <1>4, PlusKeeps
<1>6. QED
  BY <1>1, <1>3, <1>5, StillAll

LEMMA ConvergeContents == ASSUME HashInv, HashInv', Contents, ~Spooky, Converge PROVE Contents'
<1>1. /\ stage = "blocks" /\ stage' = "tail" /\ next' = next /\ message' = message
      /\ register' = [register EXCEPT ![0] = {LengthToken} \cup IF message.length >= 16
                                                       THEN UNION {register[r] : r \in 0..3}
                                                       ELSE {Hash2}]
  BY DEF Converge, Reading
<1>2. /\ Names = 0..3 /\ register \in Registers(0..3, Int)
      /\ All(register) = 0..(next - 1) \cup {Hash2} /\ (message.length < 16 => next = 0)
  BY <1>1 DEF Names, Contents, Seeds, Spooky
<1>3. UNION {register[r] : r \in 0..3} = All(register)
  BY <1>2 DEF Registers, All
<1>4. LengthToken \in Int /\ Hash2 \in Int /\ message.length \in Nat
  BY DEF LengthToken, Hash2, HashInv, HashTypes
<1>5. register' \in Registers(0..3, Int)
  <2>1. All(register) \subseteq Int
    BY <1>2 DEF Registers, All
  <2>2. QED
    BY <1>1, <1>2, <1>3, <1>4, <2>1 DEF Registers
<1>6. register'[0] = 0..(next' - 1) \cup {Hash2, LengthToken}
  <2>1. CASE message.length >= 16
    BY <1>1, <1>2, <1>3, <2>1 DEF Registers
  <2>2. CASE message.length < 16
    <3>1. next' = 0 /\ 0..(0 - 1) = {}
      BY <1>1, <1>2, <2>2
    <3>2. QED
      BY <1>1, <1>2, <1>4, <2>2, <3>1 DEF Registers
  <2>3. QED
    BY <1>4, <2>1, <2>2
<1>7. Names' = 0..3 /\ Spooky' = Spooky
  BY <1>1, <1>2 DEF Names, Spooky, Short
<1>8. QED
  BY <1>1, <1>5, <1>6, <1>7 DEF Contents, HashOfAll

LEMMA ProcessContents == ASSUME HashInv, HashInv', Contents, ~Spooky, NEW size \in {1, 4}, Process(size) PROVE Contents'
<1> DEFINE rs == {Full(0, next, size)}
<1>1. /\ stage = "tail" /\ stage' = stage /\ Reading(rs) /\ register' = Plus(rs)
  BY Zenon DEF Process
<1>2. \A x \in rs : x.register \in 0..3 /\ x.register = 0
  BY DEF Full
<1> HIDE DEF rs
<1>3. /\ Names = 0..3 /\ register \in Registers(0..3, Int)
      /\ register[0] = 0..(next - 1) \cup {Hash2, LengthToken}
  BY <1>1 DEF Names, Contents
<1>4. BytesOf(rs) \subseteq Int /\ 0..(next' - 1) = 0..(next - 1) \cup BytesOf(rs)
  BY <1>1, ReadSoFar
<1>5. register' \in Registers(0..3, Int)
  BY <1>1, <1>2, <1>3, <1>4, PlusKeeps
<1>6. register'[0] = register[0] \cup BytesOf(rs)
  <2>1. register'[0] = register[0] \cup BytesOf({x \in rs : x.register = 0})
    BY <1>1, <1>3 DEF Plus, Registers
  <2>2. {x \in rs : x.register = 0} = rs
    BY <1>2
  <2>3. QED
    BY Zenon, <2>1, <2>2
<1>7. message' = message
  BY <1>1 DEF Reading
<1>8. Names' = 0..3 /\ Spooky' = Spooky
  BY <1>3, <1>7 DEF Names, Spooky, Short
<1>9. QED
  BY <1>1, <1>3, <1>4, <1>5, <1>6, <1>8 DEF Contents, HashOfAll

LEMMA AvalancheContents == ASSUME HashInv, HashInv', Contents, ~Spooky, Avalanche PROVE Contents'
<1>1. /\ stage = "tail" /\ stage' = "done" /\ message' = message /\ register' = register
      /\ next' = next
  BY DEF Avalanche, Reading
<1>2. next = message.length
  BY <1>1 DEF HashInv, AbsorbsOnce
<1>3. register[0] = 0..(message.length - 1) \cup {Hash2, LengthToken}
  BY <1>1, <1>2 DEF Contents
<1>4. Result = {0} /\ Seeds(message.function) = {Hash2}
  BY DEF Result, Seeds, Spooky
<1>5. \A r \in Result : register[r] = 0..(message.length - 1) \cup Seeds(message.function) \cup {LengthToken}
  BY <1>3, <1>4
<1>6. Names' = Names /\ Spooky' = Spooky /\ Result' = Result /\ Seeds(message.function)' = Seeds(message.function)
  BY <1>1 DEF Names, Spooky, Short, Result, Seeds
<1>7. HashOfAll'
  BY <1>1, <1>5, <1>6 DEF HashOfAll
<1>8. QED
  BY <1>1, <1>6, <1>7 DEF Contents

(* Nothing of the message, the seed or the length is without a way into the *)
(* result of either function, and nothing else has one.                     *)
THEOREM HashOfAllHolds == HashSpec => []HashOfAll
<1>1. ASSUME HashInv, HashInv', Contents, HashNext PROVE Contents'
  <2>1. CASE Spooky
    BY <1>1, <2>1, ShortBlockContents, ShortHalfContents, ShortTailContents, LongBlockContents,
       LongTailContents DEF HashNext
  <2>2. CASE ~Spooky
    BY <1>1, <2>2, StripeContents, ConvergeContents, ProcessContents, AvalancheContents DEF HashNext
  <2>3. QED
    BY <2>1, <2>2
<1>2. ASSUME Contents, UNCHANGED hashvars PROVE Contents'
  BY <1>2 DEF Contents, HashOfAll, Names, Spooky, Short, Result, hashvars
<1>3. Contents => HashOfAll
  BY DEF Contents
<1>4. QED
  BY HashStart, HashSteps, ContentsStart, <1>1, <1>2, <1>3, PTL DEF HashSpec
=============================================================================
