----------------------------- MODULE SortedBag ------------------------------
(***************************************************************************)
(* What src/structures/SortedArray.h promises of a set of sorted arrays:   *)
(* each call changes the elements of one array by exactly what it is       *)
(* named for, keeps them in ascending order, and reports the place it      *)
(* worked at.  An element is represented by its key.  A call that reports  *)
(* an error has changed nothing.  Two promises are left out, as the code   *)
(* does not keep them: that delete_stable removes the first of equal       *)
(* elements, and that insert_stable adds to the end of them.               *)
(***************************************************************************)
EXTENDS Integers, SequencesExt

CONSTANTS Arrays,   \* the objects
          Keys,     \* a set of integers
          Batches   \* the unsorted arrays that are merged in

VARIABLES items, result

vars == <<items, result>>

INVALID == -1      \* INVALID_SIZE_T, also the non-zero error codes

Sorted(s) == \A i, j \in DOMAIN s : i < j => s[i] <= s[j]
Occurrences(s, k) == Cardinality({i \in DOMAIN s : s[i] = k})
SameElements(s, t) == \A k \in Keys : Occurrences(s, k) = Occurrences(t, k)

Init == items = [a \in Arrays |-> <<>>] /\ result = 0

(* Anywhere among those that are equal. *)
Insert(a, k) ==
  \E i \in 0..Len(items[a]) :
    /\ items' = [items EXCEPT ![a] = InsertAt(items[a], i + 1, k)]
    /\ Sorted(items'[a])
    /\ result' = i

(* All of s is added to a. *)
Add(a, s) ==
  /\ Sorted(items'[a]) /\ SameElements(items'[a], items[a] \o s)
  /\ items' = [items EXCEPT ![a] = items'[a]]
  /\ result' = 0

Fail == result' = INVALID /\ UNCHANGED items

(* The element at the i-th place, counted from 0, is removed. *)
Without(a, i) == items' = [items EXCEPT ![a] = RemoveAt(items[a], i + 1)]

Delete(a, k) ==
  \/ \E i \in 0..(Len(items[a]) - 1) : items[a][i + 1] = k /\ Without(a, i) /\ result' = i
  \/ ~Contains(items[a], k) /\ Fail

Erase(a, i) ==
  \/ i < Len(items[a]) /\ Without(a, i) /\ result' = 0
  \/ i >= Len(items[a]) /\ Fail

(* sorted_array_pop returns the last element, which it removes. *)
Pop(a) ==
  \/ /\ items[a] # <<>>
     /\ items' = [items EXCEPT ![a] = Front(items[a])]
     /\ result' = Last(items[a])
  \/ items[a] = <<>> /\ Fail

Find(a, k) ==
  /\ IF Contains(items[a], k)
       THEN result' \in {i - 1 : i \in {j \in DOMAIN items[a] : items[a][j] = k}}
       ELSE result' = INVALID
  /\ UNCHANGED items

Clear(a) == items' = [items EXCEPT ![a] = <<>>] /\ result' = 0

Next == \E a \in Arrays :
          \/ \E k \in Keys : Insert(a, k) \/ Delete(a, k) \/ Find(a, k)
          \/ \E s \in Batches : Add(a, s)
          \/ \E b \in Arrays \ {a} : Add(a, items[b])
          \/ \E i \in 0..(Len(items[a]) - 1) : Erase(a, i)
          \/ Pop(a) \/ Clear(a) \/ Fail

Spec == Init /\ [][Next]_vars
=============================================================================
