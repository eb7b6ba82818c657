------------------------------- MODULE BitSet -------------------------------
(***************************************************************************)
(* What a bitfield is for its user (src/structures/Bitfield.h): a set of   *)
(* the numbers below its size.                                             *)
(***************************************************************************)
EXTENDS Integers, Sequences, FiniteSets

CONSTANTS Sizes

VARIABLES size,     \* the number of bits
          set       \* those that are 1

vars == <<size, set>>

Indexes == 0..(size - 1)

(* The members of s, ascending. *)
Ascending(s) ==
  [k \in 1..Cardinality(s) |-> CHOOSE i \in s : Cardinality({j \in s : j < i}) = k - 1]

Value(i) == IF i \in set THEN 1 ELSE 0

(* "0 calls code_block only for cleared bits, 1 only for set bits.  Any     *)
(* other value disables filtering."                                         *)
Selected(filter) ==
  {i \in Indexes : filter = Value(i) \/ filter \notin {0, 1}}

(* The indexes the filter lets through, ascending, with their values. *)
Visits(filter) ==
  LET found == Ascending(Selected(filter))
  IN  [k \in DOMAIN found |-> <<found[k], Value(found[k])>>]

Become(s) == set' = s /\ UNCHANGED size

All == Become(Indexes)
Nothing == Become({})
Insert(i) == Become(set \cup {i})
Remove(i) == Become(set \ {i})
Flip(i) == Become(IF i \in set THEN set \ {i} ELSE set \cup {i})

(* The members below both sizes stay; a larger set has new indexes, of       *)
(* which nothing is known.                                                  *)
Resize(n) ==
  /\ size' = n
  /\ set' \subseteq 0..(n - 1)
  /\ \A i \in Indexes \cap 0..(n - 1) : i \in set' <=> i \in set

Init == set \subseteq Indexes

Next == \/ All \/ Nothing
        \/ \E i \in Indexes : Insert(i) \/ Remove(i) \/ Flip(i)
        \/ \E n \in Sizes : Resize(n)

Spec == Init /\ [][Next]_vars
=============================================================================
