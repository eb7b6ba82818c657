-------------------------------- MODULE Hash --------------------------------
(***************************************************************************)
(* The two hash functions of src/math/crypto, SpookyHash for messages of   *)
(* fewer than BUF_SIZE bytes and of more, and xxHash with 32 bits: which   *)
(* bytes of the message go where.  The arithmetic is abstract: a register  *)
(* is the set of what its value depends on, the bytes of the message by    *)
(* their index, the seed and the length.  An addition and an exclusive or  *)
(* make the target depend on both operands, a rotation and a               *)
(* multiplication change nothing.                                          *)
(***************************************************************************)
EXTENDS Integers, SequencesExt

CONSTANTS HashFunctions,    \* a subset of "spooky64", "spooky128", "xxhash32"
          MessageLengths,
          Skews             \* addresses of a message, modulo 8

ASSUME FunctionsAssumption == HashFunctions \subseteq {"spooky64", "spooky128", "xxhash32"}
ASSUME MessageLengthsAssumption == MessageLengths \subseteq Nat
ASSUME SkewsAssumption == Skews \subseteq 0..7

NUM_VARS == 12
BLOCK_SIZE == NUM_VARS * 8
BUF_SIZE == 2 * BLOCK_SIZE

(* What a register may depend on besides the bytes of the message. *)
Hash1 == -1
Hash2 == -2
LengthToken == -3

VARIABLES message,      \* function, length, address modulo 8; whether the
                        \* processor reads at multiples of the size only
          stage,        \* blocks, tail or done
          next, rest,   \* the next byte, and how many remain
          register,
          reads,        \* those of the last step, between two mixes
          taken         \* the bytes read in earlier steps

hashvars == <<message, stage, next, rest, register, reads, taken>>

(* A read: size bytes of the message, added to a register from byte lane on. *)
Full(r, from, size) == [register |-> r, from |-> from, size |-> size, lane |-> 0]
Single(r, from, lane) == [register |-> r, from |-> from, size |-> 1, lane |-> lane]

BytesOf(rs) == UNION {{r.from + i : i \in 0..(r.size - 1)} : r \in rs}
Lanes(r) == {<<r.register, b>> : b \in r.lane..(r.lane + r.size - 1)}

(* The registers with rs added to them. *)
Plus(rs) ==
  [r \in DOMAIN register |-> register[r] \cup BytesOf({x \in rs : x.register = r})]

(* Operations target += source and target ^= source, in this order. *)
Mixed(registers, operations) ==
  FoldLeft(LAMBDA s, op : [s EXCEPT ![op[1]] = @ \cup s[op[2]]], registers, operations)

Reading(rs) ==
  /\ reads' = rs
  /\ taken' = taken \cup BytesOf(reads)
  /\ UNCHANGED message

Spooky == message.function # "xxhash32"
Short == message.length < BUF_SIZE

(* The registers a call begins with.  ncrypto_spooky64 has a first hash of  *)
(* 0, so that it depends on one word of seed only.                          *)
Seeds(function) == IF function = "spooky128" THEN {Hash1, Hash2} ELSE {Hash2}
Seeded(function, length) ==
  LET seed(r) == CASE r = 0 -> Seeds(function) \cap {Hash1}
                   [] r = 1 -> {Hash2}
                   [] r = 2 -> {}
  IN  IF function = "xxhash32" THEN [r \in 0..3 |-> {Hash2}]
      ELSE IF length < BUF_SIZE THEN [r \in 0..3 |-> IF r = 3 THEN {} ELSE seed(r)]
      ELSE [r \in 0..(NUM_VARS - 1) |-> seed(r % 3)]

HashInit ==
  /\ message \in [function : HashFunctions, length : MessageLengths, skew : Skews, strict : BOOLEAN]
  /\ stage = "blocks" /\ next = 0
  /\ rest = message.length
  /\ register = Seeded(message.function, message.length)
  /\ reads = {} /\ taken = {}
-----------------------------------------------------------------------------
(* internal_spooky_hash_short.  Registers 0 to 3 are a, b, c, d. *)
ShortMix == [i \in 1..24 |-> <<<<2, 3>>, <<0, 2>>, <<3, 0>>, <<1, 3>>,
                               <<0, 1>>, <<2, 0>>, <<1, 2>>, <<3, 1>>>>[((i - 1) % 8) + 1]]

(* Mutant: the last seven of eleven rounds are missing. *)
ShortEnd_FourRounds == [i \in 1..4 |-> <<(i + 2) % 4, (i + 1) % 4>>]
ShortEnd == [i \in 1..11 |-> <<(i + 2) % 4, (i + 1) % 4>>]

ShortBlock ==
  /\ Short /\ stage = "blocks" /\ next < (message.length \div 32) * 32
  /\ LET first == {Full(2, next, 8), Full(3, next + 8, 8)}
         second == {Full(0, next + 16, 8), Full(1, next + 24, 8)}
         mixed == Mixed(Plus(first), ShortMix)
     IN  /\ register' = [r \in 0..3 |-> mixed[r] \cup BytesOf({x \in second : x.register = r})]
         /\ Reading(first \cup second)
  /\ next' = next + 32 /\ rest' = rest - 32
  /\ UNCHANGED stage

(* Mutant: the remainder still counts the sixteen bytes. *)
ShortHalf_KeepsRemainder ==
  /\ Short /\ stage = "blocks" /\ next = (message.length \div 32) * 32 /\ rest >= 16
  /\ LET first == {Full(2, next, 8), Full(3, next + 8, 8)}
     IN  register' = Mixed(Plus(first), ShortMix) /\ Reading(first)
  /\ next' = next + 16 /\ rest' = rest
  /\ stage' = "tail"

ShortHalf ==
  /\ Short /\ stage = "blocks" /\ next = (message.length \div 32) * 32 /\ rest >= 16
  /\ LET first == {Full(2, next, 8), Full(3, next + 8, 8)}
     IN  register' = Mixed(Plus(first), ShortMix) /\ Reading(first)
  /\ next' = next + 16 /\ rest' = rest - 16
  /\ stage' = "tail"

(* The last 0 to 15 bytes: words as far as they go, then single bytes. *)
TailReads ==
  CASE rest >= 12 -> {Full(2, next, 8), Full(3, next + 8, 4)}
                       \cup {Single(3, next + i, i - 8) : i \in 12..(rest - 1)}
    [] rest \in 8..11 -> {Full(2, next, 8)} \cup {Single(3, next + i, i - 8) : i \in 8..(rest - 1)}
    [] rest \in 4..7 -> {Full(2, next, 4)} \cup {Single(2, next + i, i) : i \in 4..(rest - 1)}
    [] rest < 4 -> {Single(2, next + i, i) : i \in 0..(rest - 1)}

ShortTail ==
  /\ Short /\ stage \in {"blocks", "tail"}
  /\ stage = "blocks" => next = (message.length \div 32) * 32 /\ rest < 16
  /\ LET absorbed == Plus(TailReads)
     IN  register' = Mixed([absorbed EXCEPT ![3] = @ \cup {LengthToken}], ShortEnd)
  /\ Reading(TailReads)
  /\ next' = next + rest /\ rest' = 0
  /\ stage' = "done"
-----------------------------------------------------------------------------
(* internal_spooky_hash from BUF_SIZE bytes on. *)
Around(i) == i % NUM_VARS

(* internal_spooky_hash_mix: a word goes in just before its register mixes. *)
LongMix(registers, rs) ==
  LET mix(s, i) == Mixed([s EXCEPT ![i] = @ \cup BytesOf({x \in rs : x.register = i})],
                         <<<<Around(i + 2), Around(i + 10)>>,
                           <<Around(i + 11), i>>, <<Around(i + 11), Around(i + 1)>>>>)
  IN  FoldLeft(mix, registers, [i \in 1..NUM_VARS |-> i - 1])

LongBlock ==
  /\ ~Short /\ stage = "blocks" /\ rest >= BLOCK_SIZE
  /\ LET words == {Full(r, next + 8 * r, 8) : r \in 0..(NUM_VARS - 1)}
     IN  register' = LongMix(register, words) /\ Reading(words)
  /\ next' = next + BLOCK_SIZE /\ rest' = rest - BLOCK_SIZE
  /\ UNCHANGED stage

EndPartial == [i \in 1..(2 * NUM_VARS) |->
                LET r == (i - 1) \div 2
                IN  IF i % 2 = 1 THEN <<Around(r + 11), Around(r + 1)>>
                                 ELSE <<Around(r + 2), Around(r + 11)>>]

(* What is left is copied into a block of zeros whose last byte is its      *)
(* length; internal_spooky_hash_end adds the words and mixes three times.   *)
LongTail ==
  /\ ~Short /\ stage = "blocks" /\ rest < BLOCK_SIZE
  /\ LET copied == {Single(i \div 8, next + i, i % 8) : i \in 0..(rest - 1)}
         absorbed == Plus(copied)
     IN  /\ register' = Mixed([absorbed EXCEPT ![NUM_VARS - 1] = @ \cup {LengthToken}],
                              EndPartial \o EndPartial \o EndPartial)
         /\ Reading(copied)
  /\ next' = next + rest /\ rest' = 0
  /\ stage' = "done"
-----------------------------------------------------------------------------
(* internal_xxh32_endian_align.  Registers 0 to 3 are v1 to v4, then h32 is *)
(* register 0.                                                              *)
Stripe ==
  /\ stage = "blocks" /\ rest >= 16
  /\ LET words == {Full(r, next + 4 * r, 4) : r \in 0..3}
     IN  register' = Plus(words) /\ Reading(words)
  /\ next' = next + 16 /\ rest' = rest - 16
  /\ UNCHANGED stage

Converge ==
  /\ stage = "blocks" /\ rest < 16
  /\ register' = [register EXCEPT ![0] = {LengthToken} \cup IF message.length >= 16
                                                       THEN UNION {register[r] : r \in 0..3}
                                                       ELSE {Hash2}]
  /\ Reading({})
  /\ stage' = "tail"
  /\ UNCHANGED <<next, rest>>

(* internal_xxh32_finalize: PROCESS4 while it can, then PROCESS1. *)
Process(size) ==
  /\ stage = "tail" /\ rest >= size /\ (size = 1 => rest < 4)
  /\ LET word == {Full(0, next, size)} IN register' = Plus(word) /\ Reading(word)
  /\ next' = next + size /\ rest' = rest - size
  /\ UNCHANGED stage

Avalanche ==
  /\ stage = "tail" /\ rest = 0
  /\ stage' = "done"
  /\ Reading({})
  /\ UNCHANGED <<next, rest, register>>

HashNext ==
  \/ Spooky /\ (ShortBlock \/ ShortHalf \/ ShortTail \/ LongBlock \/ LongTail)
  \/ ~Spooky /\ (Stripe \/ Converge \/ Process(4) \/ Process(1) \/ Avalanche)

HashSpec == HashInit /\ [][HashNext]_hashvars
-----------------------------------------------------------------------------
(* Where the processor insists on alignment, words are read from an aligned *)
(* copy of a message that is not: all of it or a block of it for SpookyHash *)
(* (8 bytes), each word for xxHash (4 bytes).                               *)
Copied == message.strict /\ message.skew % (IF Spooky THEN 8 ELSE 4) # 0
ReadAddress(r) == (IF Copied THEN 0 ELSE message.skew) + r.from
LaneWidth == IF Spooky THEN 8 ELSE 4

(* Each byte of the message is read once and no byte outside it; two reads  *)
(* between the same two mixes never add to the same byte of a register, so  *)
(* that no two messages meet there, nor does the length, which SpookyHash   *)
(* adds to the last byte of the last register of the tail; a processor that *)
(* needs alignment gets it.                                                 *)
AbsorbsOnce ==
  /\ taken \cap BytesOf(reads) = {}
  /\ taken \cup BytesOf(reads) = 0..(next - 1)
  /\ next <= message.length /\ (stage = "done" => next = message.length)
  /\ \A r, s \in reads : r # s => /\ Lanes(r) \cap Lanes(s) = {}
                                  /\ BytesOf({r}) \cap BytesOf({s}) = {}
  /\ \A r \in reads : /\ r.lane + r.size <= LaneWidth
                      /\ message.strict => ReadAddress(r) % r.size = 0
                      /\ Spooky /\ stage = "done" =>
                           <<IF Short THEN 3 ELSE NUM_VARS - 1, 7>> \notin Lanes(r)

Result == IF message.function = "spooky128" THEN {0, 1} ELSE {0}

(* "Mix all 4 inputs together so that h0, h1 are a hash of them all"        *)
(* (HashSpooky.c, line 52, and line 228 for 12): no byte of the message, no *)
(* word of the seed and no length is without a way into the result.         *)
HashOfAll ==
  stage = "done" =>
    \A r \in Result :
      register[r] = 0..(message.length - 1) \cup Seeds(message.function) \cup {LengthToken}
=============================================================================
