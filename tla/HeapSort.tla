------------------------------ MODULE HeapSort ------------------------------
(***************************************************************************)
(* sort_heap (src/structures/Sort.c) and the heap it is made of            *)
(* (src/structures/Heap.c), one turn of a loop at a time.                  *)
(*                                                                         *)
(* The array is a block of words, addressed from 0.  An element is Width   *)
(* words and its key is the word Offset words into it, as an IDataType     *)
(* says.  Addresses are compared and computed as in the code: the keys'    *)
(* addresses, with the children found by doubling the parent's.            *)
(***************************************************************************)
EXTENDS Integers

CONSTANTS Keys,      \* a set of integers
          Lengths,   \* the lengths of array to sort
          Width,     \* size
          Offset     \* offset

ASSUME KeysAssumption == Keys \subseteq Nat
ASSUME LengthsAssumption == Lengths \subseteq Nat
ASSUME LayoutAssumption == Width \in Nat \ {0} /\ Offset \in 0..(Width - 1)

VARIABLES input,   \* the words of the unsorted array
          mem,     \* the words of the array
          start,   \* heap_create: the nodes from start on are roots of heaps
          end,     \* address of the last element of the heap
          root     \* address of the key heap_sift_down is at, or None

sortvars == <<input, mem, start, end, root>>

None == -1

Word(m, i, w) == m[i * Width + w]
Key(m, i) == Word(m, i, Offset)
Size(m) == (CHOOSE n \in Lengths : DOMAIN m = 0..(n * Width - 1))

(* An array of n elements with these keys, that can be told apart. *)
Block(n, keys) ==
  [a \in 0..(n * Width - 1) |->
     IF a % Width = Offset THEN keys[a \div Width] ELSE -1 - (a \div Width)]

WORD == 65536   \* SIZE_MAX + 1: indices and addresses are computed modulo it

(* heap_parent_index: the node 0 has none, and the unsigned result for it   *)
(* is half of all there are.                                                *)
Parent(i) == ((i - 1) % WORD) \div 2

(* dti_element, as a distance from the array in either direction *)
Element(i) == LET a == (i * Width) % WORD IN IF a < WORD \div 2 THEN a ELSE a - WORD

SortInit == \E n \in Lengths : \E keys \in [0..(n - 1) -> Keys] :
          /\ input = Block(n, keys) /\ mem = input
          /\ start = Parent((n - 1) % WORD) + 1
          /\ end = Element((n - 1) % WORD)
          /\ root = None

(* IDataType.swap, given the addresses of two keys. *)
Swapped(m, p, q) ==
  LET a == p - Offset
      b == q - Offset
  IN  [w \in DOMAIN m |-> CASE w \in a..(a + Width - 1) -> m[w - a + b]
                            [] w \in b..(b + Width - 1) -> m[w - b + a]
                            [] OTHER -> m[w]]

(* heap_left, with the address of the array as 0: see heap_child_cache. *)
Left(r) == 2 * r + (Offset + Width)
Right(r) == Left(r) + Width
LastKey == end + Offset

(* Mutant: there is always a right child. *)
Compared_NoBound(r) ==
  IF Left(r) <= LastKey THEN {r, Left(r), Right(r)} ELSE {r}

(* The node and those of its children that are in the heap. *)
Compared(r) == {r} \cup {a \in {Left(r), Right(r)} : a <= LastKey}

(* Of equal keys the one in front stays where it is. *)
Largest(r) ==
  CHOOSE a \in Compared(r) : \A b \in Compared(r) :
    mem[b] < mem[a] \/ (mem[b] = mem[a] /\ a <= b)

(* Mutant: the new root of the sift is the left child. *)
Descend_Left ==
  /\ root # None /\ Largest(root) # root
  /\ mem' = Swapped(mem, root, Largest(root))
  /\ root' = Left(root)
  /\ UNCHANGED <<input, start, end>>

(* heap_sift_down: one turn of the loop, *)
Descend ==
  /\ root # None /\ Largest(root) # root
  /\ mem' = Swapped(mem, root, Largest(root))
  /\ root' = Largest(root)
  /\ UNCHANGED <<input, start, end>>

(* Mutant: a node that is the largest is looked at again. *)
Settle_AtLeaf ==
  /\ root # None /\ Compared(root) = {root}
  /\ root' = None
  /\ UNCHANGED <<input, mem, start, end>>

(* and its two ends. *)
Settle ==
  /\ root # None /\ Largest(root) = root
  /\ root' = None
  /\ UNCHANGED <<input, mem, start, end>>

(* heap_create: the next node to sift down. *)
Build ==
  /\ root = None /\ start # 0
  /\ start' = start - 1
  /\ root' = Element(start') + Offset
  /\ UNCHANGED <<input, mem, end>>

(* Mutant: the element that takes the root's place is not sifted down. *)
Extract_NoSift ==
  /\ root = None /\ start = 0 /\ end > 0
  /\ mem' = Swapped(mem, end + Offset, Offset)
  /\ end' = end - Width
  /\ UNCHANGED <<input, start, root>>

(* sort_heap: the largest element changes places with the heap's last. *)
Extract ==
  /\ root = None /\ start = 0 /\ end > 0
  /\ mem' = Swapped(mem, end + Offset, Offset)
  /\ end' = end - Width
  /\ root' = Offset
  /\ UNCHANGED <<input, start>>

SortNext == Descend \/ Settle \/ Build \/ Extract
SortSpec == SortInit /\ [][SortNext]_sortvars /\ WF_sortvars(SortNext)

Done == root = None /\ start = 0 /\ end = 0
-----------------------------------------------------------------------------
(* Every key that is compared and every element that is swapped lies in the *)
(* array, down to the last leaf of every heap.                              *)
InBounds ==
  root # None => \A p \in Compared(root) :
                   (p - Offset)..(p - Offset + Width - 1) \subseteq DOMAIN mem

(* The keys of a subtree are in heap order, but for the node being sifted   *)
(* down, whose children are already below its parent.                       *)
HeapOrder ==
  LET last == end \div Width
      sifted(i) == root # None /\ i * Width + Offset = root
  IN  \A i \in 1..last :
        /\ Parent(i) >= start /\ ~sifted(Parent(i)) => Key(mem, Parent(i)) >= Key(mem, i)
        /\ sifted(Parent(i)) /\ Parent(i) > 0 /\ Parent(Parent(i)) >= start =>
             Key(mem, Parent(Parent(i))) >= Key(mem, i)

(* No element is lost, doubled or torn by the swaps. *)
Permutation ==
  LET elements(m) == {[w \in 0..(Width - 1) |-> Word(m, i, w)] : i \in 0..(Size(m) - 1)}
  IN  elements(mem) = elements(input)

Ascending == \A i, j \in 0..(Size(mem) - 1) : i <= j => Key(mem, i) <= Key(mem, j)

(* "Sort an array using the heapsort algorithm" (Sort.h, line 14), of       *)
(* elements whose key is "offset bytes" into them (Interface.h, line 43):   *)
(* at each moment they are the elements of the input, and in the end they   *)
(* are in order.                                                            *)
Sorts == Permutation /\ (Done => Ascending)

(* The sort comes to its end. *)
Terminates == <>Done
=============================================================================
