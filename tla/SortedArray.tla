---------------------------- MODULE SortedArray -----------------------------
(***************************************************************************)
(* The sorted arrays of src/structures/SortedArray.c.  An array is a block *)
(* of storage that begins with start_offset unused slots, followed by      *)
(* length elements in ascending order; an element is represented by its    *)
(* key.  Slots and indices are zero-based as in the code, slot i of a      *)
(* block being block[i + 1].  Any call of malloc or realloc may fail.      *)
(* A slot outside the elements holds Junk: bytes nobody may rely on.       *)
(***************************************************************************)
EXTENDS Integers, SequencesExt

CONSTANTS Arrays, Keys, Batches,
          NULL,
          OFFSET_THRESHOLD,   \* 128
          MaxLength,          \* bound on the elements of all arrays together
          MaxOffset           \* bound on the unused slots in front of an array's

ASSUME ArrayKeysAssumption == Keys \subseteq Nat \ {0}
ASSUME OffsetThresholdAssumption == OFFSET_THRESHOLD \in Nat \ {0}
(* sort() must not be given fewer than two elements: see module HeapSort.  *)
ASSUME BatchesAssumption == \A s \in Batches : s \in Seq(Keys) /\ Len(s) >= 2
ASSUME ArrayBoundsAssumption == MaxLength \in Nat /\ MaxOffset \in Nat
ASSUME NullBlockAssumption == NULL \notin Seq(Nat)

VARIABLES arr,      \* array -> its block (or NULL), length and start_offset
          result    \* what the last call returned

arrayvars == <<arr, result>>

INVALID == -1
Junk == 0       \* not a key

Empty == [block |-> NULL, length |-> 0, offset |-> 0]

ArrayInit == /\ arr = [a \in Arrays |-> Empty]
             /\ result = 0

Items(array) ==
  IF array.length = 0 THEN <<>>
  ELSE SubSeq(array.block, array.offset + 1, array.offset + array.length)
InUse(array) == (array.offset + 1)..(array.offset + array.length)

(* Nothing is remembered of the slots that hold no element. *)
Tidy(array) ==
  IF array.block = NULL THEN array
  ELSE [array EXCEPT !.block = [i \in DOMAIN @ |-> IF i \in InUse(array) THEN @[i] ELSE Junk]]

Realloc(block, size) == [i \in 1..size |-> IF i <= Len(block) THEN block[i] ELSE Junk]

(* memmove of count slots, and memcpy of one element. *)
Move(block, to, from, count) ==
  [i \in DOMAIN block |-> IF i \in (to + 1)..(to + count) THEN block[i - to + from] ELSE block[i]]
Store(block, slot, k) == [block EXCEPT ![slot + 1] = k]

(* The binary search: the index of a hit, or of the place k belongs at. *)
BinarySearch(s, k) ==
  LET search[span \in (0..Len(s)) \X (0..Len(s))] ==
        LET lo == span[1]
            hi == span[2]
            middle == lo + (hi - lo) \div 2
        IN  IF lo >= hi THEN [index |-> lo, hit |-> FALSE]
            ELSE IF s[middle + 1] = k THEN [index |-> middle, hit |-> TRUE]
            ELSE IF s[middle + 1] < k THEN search[<<middle + 1, hi>>]
            ELSE search[<<lo, middle>>]
  IN  search[<<0, Len(s)>>]

(* The linear search that follows a hit, one element further in a direction *)
(* for each turn.  It counts its turns into the index whichever direction   *)
(* it takes, and stops at the last index.  A slot in front of the elements  *)
(* holds anything: it may compare equal or not.                             *)
StableIndexes(array, hit, k, direction) ==
  LET last == array.length - 1
      Slot(j) == array.offset + hit + direction * j + 1
      MayEqual(j) == Slot(j) \notin InUse(array) \/ array.block[Slot(j)] = k
      MayDiffer(j) == Slot(j) \notin InUse(array) \/ array.block[Slot(j)] # k
  IN  {hit + n : n \in {m \in 0..(last - hit) :
                          /\ \A j \in 1..m : MayEqual(j)
                          /\ m = last - hit \/ MayDiffer(m + 1)}}

Forwards == 1
Backwards == -1

FindStable(array, k, direction) ==
  LET found == BinarySearch(Items(array), k)
  IN  IF found.hit
        THEN {[found EXCEPT !.index = i] : i \in StableIndexes(array, found.index, k, direction)}
        ELSE {found}
-----------------------------------------------------------------------------
(* internal_sorted_array_insert: the array afterwards, for memory granted. *)
InsertedFront(array, k, index) ==
  LET start == array.offset - 1
      moved == Move(array.block, start, array.offset, index)
  IN  [block |-> Store(moved, start + index, k), length |-> array.length + 1, offset |-> start]

(* Mutant: the new block is sized without the unused front. *)
InsertedBack_NoFront(array, k, index) ==
  LET room == Realloc(array.block, array.length + 1)
      slot == array.offset + index
      moved == Move(room, slot + 1, slot, array.length - index)
  IN  [array EXCEPT !.block = Store(moved, slot, k), !.length = @ + 1]

InsertedBack(array, k, index) ==
  LET room == Realloc(array.block, array.length + array.offset + 1)
      slot == array.offset + index
      moved == Move(room, slot + 1, slot, array.length - index)
  IN  [array EXCEPT !.block = Store(moved, slot, k), !.length = @ + 1]

Inserted(array, k, index) ==
  IF array.length = 0
    THEN [array EXCEPT !.block = <<k>>, !.length = 1]
  ELSE IF array.offset > 0 /\ index <= array.length \div 2
    THEN InsertedFront(array, k, index)
    ELSE InsertedBack(array, k, index)

(* The storage is asked for: the front path has it already. *)
NeedsMemory(array, index) ==
  ~(array.length > 0 /\ array.offset > 0 /\ index <= array.length \div 2)

InsertInto(a, k, index) ==
  \/ /\ arr' = [arr EXCEPT ![a] = Tidy(Inserted(arr[a], k, index))]
     /\ result' = index
  \/ /\ NeedsMemory(arr[a], index)
     /\ arr' = [arr EXCEPT ![a].block = IF arr[a].length = 0 THEN NULL ELSE @]
     /\ result' = INVALID

(* internal_sorted_array_remove: the arrays it may leave behind; a realloc  *)
(* that cannot shrink the block is ignored.                                 *)
RemovedFront(array, index) ==
  [block |-> Move(array.block, array.offset + 1, array.offset, index),
   length |-> array.length - 1, offset |-> array.offset + 1]

RemovedBack(array, index) ==
  LET slot == array.offset + index
      moved == Move(array.block, slot, slot + 1, array.length - index - 1)
      rest == [array EXCEPT !.block = moved, !.length = @ - 1]
  IN  IF rest.length = 0
        THEN {Empty}
        ELSE {rest, [rest EXCEPT !.block = Realloc(moved, rest.length + rest.offset)]}

RemovedItems(array, index) ==
  IF index < array.length \div 2 /\ array.length > OFFSET_THRESHOLD
    THEN {RemovedFront(array, index)}
    ELSE RemovedBack(array, index)

(* Mutant: the smaller of the two last elements goes to the end. *)
MergedItems_Smaller(dest, src) ==
  LET merge[at \in (0..Len(dest)) \X (0..Len(src))] ==
        LET i == at[1]
            j == at[2]
        IN  IF i = 0 THEN SubSeq(src, 1, j)
            ELSE IF j = 0 THEN SubSeq(dest, 1, i)
            ELSE IF src[j] < dest[i] THEN Append(merge[<<i, j - 1>>], src[j])
            ELSE Append(merge[<<i - 1, j>>], dest[i])
  IN  merge[<<Len(dest), Len(src)>>]

(* internal_sorted_array_merge, from the end: of two equal keys, the        *)
(* destination's ends up behind the other one.                              *)
MergedItems(dest, src) ==
  LET merge[at \in (0..Len(dest)) \X (0..Len(src))] ==
        LET i == at[1]
            j == at[2]
        IN  IF i = 0 THEN SubSeq(src, 1, j)
            ELSE IF j = 0 THEN SubSeq(dest, 1, i)
            ELSE IF dest[i] < src[j] THEN Append(merge[<<i, j - 1>>], src[j])
            ELSE Append(merge[<<i - 1, j>>], dest[i])
  IN  merge[<<Len(dest), Len(src)>>]

(* The array once src has been merged into its reallocated block. *)
MergedInto(array, src) ==
  LET merged == MergedItems(Items(array), src)
  IN  [array EXCEPT !.block = SubSeq(array.block, 1, array.offset) \o merged,
                    !.length = @ + Len(src)]

(* The copy of src that is sorted, by sort(): see module HeapSort. *)
SortedCopy(s) ==
  LET order == CHOOSE p \in Bijection(DOMAIN s, DOMAIN s) :
                 \A i, j \in DOMAIN s : i < j => s[p[i]] <= s[p[j]]
  IN  [i \in DOMAIN s |-> s[order[i]]]
-----------------------------------------------------------------------------
Fits(n) == MapThenSumSet(LAMBDA a : arr[a].length, Arrays) + n <= MaxLength

Insert(a, k) ==
  /\ Fits(1)
  /\ InsertInto(a, k, BinarySearch(Items(arr[a]), k).index)

InsertStable(a, k) ==
  /\ Fits(1)
  /\ \E found \in FindStable(arr[a], k, Forwards) : InsertInto(a, k, found.index)

Find(a, k) ==
  /\ LET found == BinarySearch(Items(arr[a]), k)
     IN  result' = IF found.hit THEN found.index ELSE INVALID
  /\ UNCHANGED arr

RemoveAtIndex(a, index) ==
  \E after \in RemovedItems(arr[a], index) :
    after.offset <= MaxOffset /\ arr' = [arr EXCEPT ![a] = Tidy(after)]

Delete(a, k) ==
  /\ LET found == BinarySearch(Items(arr[a]), k)
     IN  IF found.hit THEN RemoveAtIndex(a, found.index) /\ result' = found.index
                      ELSE result' = INVALID /\ UNCHANGED arr

DeleteStable(a, k) ==
  /\ \E found \in FindStable(arr[a], k, Backwards) :
       IF found.hit THEN RemoveAtIndex(a, found.index) /\ result' = found.index
                    ELSE result' = INVALID /\ UNCHANGED arr

EraseItem(a, index) ==
  /\ IF index >= arr[a].length THEN result' = INVALID /\ UNCHANGED arr
                               ELSE RemoveAtIndex(a, index) /\ result' = 0

(* The size, the value and the removal of the last element. *)
Pop(a) ==
  /\ IF arr[a].length = 0
       THEN result' = INVALID /\ UNCHANGED arr
       ELSE /\ result' = Items(arr[a])[arr[a].length]
            /\ RemoveAtIndex(a, arr[a].length - 1)

(* sorted_array_merge into a block that is not there yet, or is. *)
Merge(a, s) ==
  /\ Fits(Len(s))
  /\ \/ /\ arr' = [arr EXCEPT ![a] = IF arr[a].block = NULL
                                       THEN [@ EXCEPT !.block = SortedCopy(s), !.length = Len(s)]
                                       ELSE MergedInto(@, SortedCopy(s))]
        /\ result' = 0
     \/ result' = INVALID /\ UNCHANGED arr

MergeSorted(a, b) ==
  /\ Fits(arr[b].length)
  /\ arr[b].length = 0 \/ arr[a].length # 0
  /\ IF arr[b].length = 0
       THEN result' = 0 /\ UNCHANGED arr
       ELSE \/ /\ arr' = [arr EXCEPT ![a] = MergedInto(@, Items(arr[b]))]
               /\ result' = 0
            \/ result' = INVALID /\ UNCHANGED arr

(* Merging into an empty array: the first bytes of b's block are copied,    *)
(* the length of a is not touched.                                          *)
MergeSortedCopy(a, b) ==
  /\ Fits(arr[b].length)
  /\ arr[b].length # 0 /\ arr[a].length = 0
  /\ \/ /\ arr' = [arr EXCEPT ![a] = Tidy([@ EXCEPT !.block = SubSeq(arr[b].block, 1, arr[b].length)])]
        /\ result' = 0
     \/ /\ arr' = [arr EXCEPT ![a].block = NULL]
        /\ result' = INVALID

MergeSame(a) ==
  /\ result' = INVALID
  /\ UNCHANGED arr

ClearArray(a) ==
  /\ arr' = [arr EXCEPT ![a] = Empty]
  /\ result' = 0

(* Again the realloc that gives memory back may fail. *)
Compact(a) ==
  /\ arr[a].offset > 0
  /\ LET moved == Move(arr[a].block, 0, arr[a].offset, arr[a].length)
     IN  \E block \in {moved, Realloc(moved, arr[a].length)} :
           arr' = [arr EXCEPT ![a] = Tidy([@ EXCEPT !.block = block, !.offset = 0])]
  /\ UNCHANGED result

ArrayNext == \E a \in Arrays :
               \/ \E k \in Keys : \/ Insert(a, k) \/ InsertStable(a, k) \/ Find(a, k)
                                  \/ Delete(a, k) \/ DeleteStable(a, k)
               \/ \E index \in 0..MaxLength : EraseItem(a, index)
               \/ Pop(a) \/ ClearArray(a) \/ Compact(a)
               \/ \E s \in Batches : Merge(a, s)
               \/ \E b \in Arrays \ {a} : MergeSorted(a, b) \/ MergeSortedCopy(a, b)
               \/ MergeSame(a)

ArraySpec == ArrayInit /\ [][ArrayNext]_arrayvars
-----------------------------------------------------------------------------
ArrayTypeOK ==
  /\ \A a \in Arrays : /\ arr[a].block = NULL \/ arr[a].block \in Seq(Keys \cup {Junk})
                       /\ arr[a].length \in Nat /\ arr[a].offset \in Nat
  /\ result \in Int

(* The array lies inside its block, over all paths that move or shrink it,  *)
(* and over every failure; a block left over from a failed shrink is        *)
(* larger, never smaller.  This is about where the elements are, not about  *)
(* every access: delete_stable also looks at the slot in front of the first *)
(* element (SortedArray.c, lines 93 to 95; StableIndexes), which need not   *)
(* be one of the block.                                                     *)
InsideBlock ==
  /\ ArrayTypeOK
  /\ \A a \in Arrays : arr[a].length > 0 =>
       /\ arr[a].block # NULL
       /\ arr[a].offset + arr[a].length <= Len(arr[a].block)

(* "Removes the first element of \p value" (SortedArray.h, line 128). *)
StableDeleteIsFirst ==
  [][\A a \in Arrays, k \in Keys :
       DeleteStable(a, k) /\ result' # INVALID =>
         /\ Items(arr[a])[result' + 1] = k
         /\ \A i \in 1..result' : Items(arr[a])[i] # k]_arrayvars

Bag == INSTANCE SortedBag WITH items <- [a \in Arrays |-> Items(arr[a])]

(* No call changes another array than its own. *)
BagCallsKept ==
  \A a \in {c \in Arrays : \A d \in Arrays \ {c} : arr'[d] = arr[d]} :
    /\ \A k \in Keys :
         /\ Insert(a, k) \/ InsertStable(a, k) => Bag!Insert(a, k) \/ Bag!Fail
         /\ Find(a, k) => Bag!Find(a, k)
         /\ Delete(a, k) => Bag!Delete(a, k)
    /\ \A i \in 0..MaxLength : EraseItem(a, i) => Bag!Erase(a, i)
    /\ Pop(a) => Bag!Pop(a)
    /\ ClearArray(a) => Bag!Clear(a)
    /\ Compact(a) => UNCHANGED Bag!vars
    /\ \A s \in Batches : Merge(a, s) => Bag!Add(a, s) \/ Bag!Fail
    /\ \A b \in Arrays \ {a} :
         MergeSorted(a, b) => Bag!Add(a, Items(arr[b])) \/ Bag!Fail

(* Each call changes the elements as its name says, whatever block they are *)
(* in, reports the right place, and leaves them in order; a failed one      *)
(* leaves them alone.  Two calls are excepted: sorted_array_delete_stable,  *)
(* see StableDeleteIsFirst, and sorted_array_merge_sorted into an empty     *)
(* array, which leaves it empty and reports success.  And of                *)
(* sorted_array_insert_stable no more is asked than of sorted_array_insert, *)
(* a place in order.  "The end of the already existing elements"            *)
(* (SortedArray.h, line 79) it does not keep: FindStable is the index of    *)
(* the last of the equal elements, and the new one goes in front of that.   *)
ImplementsBag ==
  Bag!Init /\ [][\/ Bag!Next
                 \/ \E a \in Arrays, k \in Keys : DeleteStable(a, k)
                 \/ \E a, b \in Arrays : MergeSortedCopy(a, b)]_<<Bag!vars>>
  /\ [][BagCallsKept]_arrayvars
=============================================================================
