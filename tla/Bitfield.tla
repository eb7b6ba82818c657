------------------------------ MODULE Bitfield ------------------------------
(***************************************************************************)
(* A block of memory as an array of bits (src/structures/Bitfield.h): the  *)
(* bits are packed into words of the size of size_t, operated on by masks, *)
(* and visited byte by byte.  A size_t is four or eight bytes; a byte has  *)
(* CHAR_BIT bits.                                                          *)
(*                                                                         *)
(* A word, a byte or a mask is the set of the positions of its bits that   *)
(* are 1, from the lowest, 0: the operators |, & and ^ of C are the union, *)
(* the intersection and the symmetric difference.                          *)
(***************************************************************************)
EXTENDS Integers, Sequences, FiniteSets, SequencesExt

CONSTANTS CHAR_BIT,
          FieldSizes,   \* the sizes asked for, in bytes
          Memory,       \* what uninitialised memory may hold, repeated in every byte
          MaxTouched    \* bound: changes of single bits since all were equal

ASSUME FieldAssumption == /\ CHAR_BIT \in Nat \ {0} /\ FieldSizes \subseteq Nat \ {0}
                          /\ Memory \subseteq SUBSET (0..(CHAR_BIT - 1)) /\ MaxTouched \in Nat

VARIABLES sizeT,      \* sizeof(size_t) of the build
          data,       \* the words, from 0
          touched     \* history: see MaxTouched

fieldvars == <<sizeT, data, touched>>

WordBits == sizeT * CHAR_BIT
SIZE_MAX == 0..(WordBits - 1)

(* bitfield_size *)
BitfieldSize(b) == IF b % sizeT = 0 THEN b ELSE b + (sizeT - (b % sizeT))

Words(b) == 0..(BitfieldSize(b) \div sizeT - 1)
Bits == 0..(Cardinality(DOMAIN data) * WordBits - 1)

(* The word that every byte of is c. *)
Filled(c) == {i \in SIZE_MAX : i % CHAR_BIT \in c}
Uninitialised == {Filled(c) : c \in Memory}

FieldInit ==
  /\ sizeT \in {4, 8}
  /\ \E b \in FieldSizes : data \in [Words(b) -> Uninitialised]
  /\ touched = MaxTouched

(* bitfield_update, after a realloc that keeps the words there were. *)
FieldUpdate(b) ==
  /\ \E new \in [Words(b) -> Uninitialised] :
       data' = [w \in Words(b) |-> IF w \in DOMAIN data THEN data[w] ELSE new[w]]
  /\ UNCHANGED <<sizeT, touched>>

(* memset of the length of the field *)
Fill(c) ==
  /\ data' = [w \in DOMAIN data |-> Filled(c)]
  /\ touched' = 0
  /\ UNCHANGED sizeT

ClearAll == Fill({})
SetAll == Fill(0..(CHAR_BIT - 1))

Mask(i) == {i % WordBits}

Changed(i, value) ==
  /\ touched < MaxTouched
  /\ data' = [data EXCEPT ![i \div WordBits] = value]
  /\ touched' = touched + 1
  /\ UNCHANGED sizeT

(* The operator ^ of C. *)
Xor(v, w) == (v \ w) \cup (w \ v)

SetBit(i) == Changed(i, data[i \div WordBits] \cup Mask(i))
(* Mutant: the bit is toggled. *)
ClearBit_Toggles(i) == Changed(i, Xor(data[i \div WordBits], Mask(i)))
ClearBit(i) == Changed(i, data[i \div WordBits] \cap (SIZE_MAX \ Mask(i)))
Toggle(i) == Changed(i, Xor(data[i \div WordBits], Mask(i)))
Assign(i, value) == IF value # 0 THEN SetBit(i) ELSE ClearBit(i)

GetBit(i) == IF data[i \div WordBits] \cap Mask(i) # {} THEN 1 ELSE 0

(* EXTRACT_BYTE *)
Byte(v, b) == {k \in 0..(CHAR_BIT - 1) : k + b * CHAR_BIT \in v}

(* __builtin_ffs(byte) - 1 *)
Lowest(byte) == CHOOSE k \in byte : \A j \in byte : k <= j

(* internal_bitfield_for_each_set: the positions of the bits of a byte. *)
SetBitsOf(byte) ==
  LET turns == Cardinality(byte)
      left[t \in 0..turns] == IF t = 0 THEN byte ELSE Xor(left[t - 1], {Lowest(left[t - 1])})
  IN  [t \in 1..turns |-> Lowest(left[t - 1])]

(* Mutant: the bits of every word are numbered from 0. *)
VisitSet_InWord(w, v, b, value) ==
  LET bits == SetBitsOf(Byte(v, b))
  IN  [k \in DOMAIN bits |-> <<bits[k] + b * CHAR_BIT, value>>]

(* The set bits of byte b of word v, w words into the field, with the value *)
(* they have in the field.                                                  *)
VisitSet(w, v, b, value) ==
  LET bits == SetBitsOf(Byte(v, b))
  IN  [k \in DOMAIN bits |-> <<bits[k] + w * WordBits + b * CHAR_BIT, value>>]

(* internal_bitfield_for_each *)
VisitEach(w, v, b) ==
  [k \in 1..CHAR_BIT |->
     <<k - 1 + w * WordBits + b * CHAR_BIT, IF k - 1 \in Byte(v, b) THEN 1 ELSE 0>>]

VisitWord(w, filter, dense) ==
  LET v == data[w]
      full == filter = 0 /\ dense /\ v = SIZE_MAX
      empty == filter = 1 /\ ~dense /\ v = {}
      visits == IF full \/ empty THEN <<>>
                ELSE [b \in 1..sizeT |-> CASE filter = 0 -> VisitSet(w, SIZE_MAX \ v, b - 1, 0)
                                           [] filter = 1 -> VisitSet(w, v, b - 1, 1)
                                           [] OTHER      -> VisitEach(w, v, b - 1)]
  IN  FlattenSeq(visits)

(* bitfield_for_each: the indexes and values the block is called with, by a *)
(* block that leaves the field alone.                                       *)
ForEach(filter, dense) ==
  FlattenSeq([k \in 1..Cardinality(DOMAIN data) |-> VisitWord(k - 1, filter, dense)])

FieldNext == \/ \E b \in FieldSizes : FieldUpdate(b)
             \/ ClearAll \/ SetAll
             \/ \E i \in Bits : SetBit(i) \/ ClearBit(i) \/ Toggle(i)
             \/ \E i \in Bits, value \in {0, 1} : Assign(i, value)

FieldSpec == FieldInit /\ [][FieldNext]_fieldvars
-----------------------------------------------------------------------------
Ones == {i \in Bits : i % WordBits \in data[i \div WordBits]}

Numbers == INSTANCE BitSet WITH
  Sizes <- {CHAR_BIT * BitfieldSize(b) : b \in FieldSizes},
  size <- Cardinality(Bits), set <- Ones

CallsOnSet ==
  /\ SetAll => Numbers!All
  /\ ClearAll => Numbers!Nothing
  /\ \A i \in Bits : /\ SetBit(i) => Numbers!Insert(i)
                     /\ ClearBit(i) => Numbers!Remove(i)
                     /\ Toggle(i) => Numbers!Flip(i)
  /\ \A b \in FieldSizes : FieldUpdate(b) => Numbers!Resize(CHAR_BIT * BitfieldSize(b))

(* The words are the set: an operation changes its own bit and no other, in *)
(* the last word of a size that was rounded up also.                        *)
ImplementsBitSet == Numbers!Spec /\ [][CallsOnSet]_fieldvars

(* A visit calls the block for exactly the bits of the filter, once each,   *)
(* in ascending order and with the value they have, over the borders of     *)
(* bytes and words: "calls code_block only for cleared bits, 1 only for set *)
(* bits" (Bitfield.h, line 168); what it is told of the density of the      *)
(* field changes nothing.                                                   *)
VisitsSelected ==
  /\ \A i \in Bits : GetBit(i) = Numbers!Value(i)
  /\ \A filter \in {-1, 0, 1}, dense \in BOOLEAN : ForEach(filter, dense) = Numbers!Visits(filter)
=============================================================================
