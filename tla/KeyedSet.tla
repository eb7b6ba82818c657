------------------------------ MODULE KeyedSet ------------------------------
(***************************************************************************)
(* What src/structures/HashSet.h promises: a set of elements, at most one  *)
(* for each key.  Adding an element whose key is there replaces it; a call *)
(* that reports an error has changed nothing.                              *)
(***************************************************************************)
EXTENDS Integers, FiniteSets, Functions

CONSTANTS Keys, Payloads

VARIABLES elements,   \* the elements: a function from their keys to the rest
          result      \* what the last call returned

vars == <<elements, result>>

Init == elements = [k \in {} |-> 0] /\ result = 0

Add(k, p) ==
  /\ elements' = [j \in DOMAIN elements \cup {k} |-> IF j = k THEN p ELSE elements[j]]
  /\ result' = 0

Remove(k) ==
  /\ k \in DOMAIN elements
  /\ elements' = Restrict(elements, DOMAIN elements \ {k})
  /\ result' = 0

Get(k) ==
  /\ k \in DOMAIN elements
  /\ result' = elements[k]
  /\ UNCHANGED elements

(* What a get or a removal says of a key that is not there. *)
Missing(k) == k \notin DOMAIN elements /\ result' = 1 /\ UNCHANGED elements

Contains(k) ==
  /\ result' = IF k \in DOMAIN elements THEN 1 ELSE 0
  /\ UNCHANGED elements

Count == result' = Cardinality(DOMAIN elements) /\ UNCHANGED elements

Clear == elements' = [k \in {} |-> 0] /\ result' = 0

Fail == result' = 1 /\ UNCHANGED elements

Next == \/ \E k \in Keys : \/ \E p \in Payloads : Add(k, p)
                           \/ Remove(k) \/ Get(k) \/ Missing(k) \/ Contains(k)
        \/ Count \/ Clear \/ Fail

Spec == Init /\ [][Next]_vars
=============================================================================
