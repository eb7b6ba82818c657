------------------------------- MODULE HashSet -------------------------------
(***************************************************************************)
(* The hash set of src/structures/HashSet.c: an array of buckets, each a   *)
(* block of elements in ascending order of their keys.  The array doubles  *)
(* and halves; every element is then inserted into a new array, and the    *)
(* old one is kept if memory runs out on the way.  Any call of malloc,     *)
(* calloc or realloc may fail.                                             *)
(***************************************************************************)
EXTENDS Integers, SequencesExt

CONSTANTS HashKeys, Payloads,
          Hash,        \* [HashKeys -> Nat], the hash of the data type
          NoBuckets,
          MinSizes,    \* values of initial_size
          Shrinks,     \* values of shrink_ratio, in halves; 0 for disabled
          Expands,     \* values of expand_ratio, in halves; 0 for disabled
          MaxSize      \* bound on the number of buckets

FACTOR == 2            \* STRUCTURES_HASHSET_RESIZE_FACTOR

ASSUME HashKeysAssumption ==
  HashKeys \subseteq Nat /\ Payloads \subseteq Nat /\ Hash \in [HashKeys -> Nat]
ASSUME TableSizesAssumption == MaxSize \in Nat /\ MinSizes \subseteq 1..MaxSize
ASSUME RatiosAssumption == Shrinks \subseteq Nat /\ Expands \subseteq Nat
ASSUME NoBucketsAssumption ==
  \A n \in 1..MaxSize : NoBuckets \notin [0..(n - 1) -> Seq([key : HashKeys, payload : Payloads])]

VARIABLES array,       \* the buckets, bucket i being array[i]; or NoBuckets
          size, length,
          min_size, shrink, expand,
          answer       \* what the last call returned

config == <<min_size, shrink, expand>>
tablevars == <<array, size, length, config, answer>>

EmptyBuckets(n) == [i \in 0..(n - 1) |-> <<>>]

(* hashset_create *)
TableInit == /\ min_size \in MinSizes /\ shrink \in Shrinks /\ expand \in Expands
        /\ array = EmptyBuckets(min_size)
        /\ size = min_size /\ length = 0
        /\ answer = 0

(* internal_bucket_find *)
BucketFind(b, k) ==
  LET search[span \in (0..Len(b)) \X (0..Len(b))] ==
        LET lo == span[1]
            hi == span[2]
            middle == lo + (hi - lo) \div 2
        IN  IF lo >= hi THEN [index |-> lo, hit |-> FALSE]
            ELSE IF b[middle + 1].key = k THEN [index |-> middle, hit |-> TRUE]
            ELSE IF b[middle + 1].key < k THEN search[<<middle + 1, hi>>]
            ELSE search[<<lo, middle>>]
  IN  search[<<0, Len(b)>>]

CalcIndex(n, k) == Hash[k] % n

(* Insertion of a new element into an array of n buckets. *)
Put(buckets, n, e) ==
  [buckets EXCEPT ![CalcIndex(n, e.key)] = InsertAt(@, BucketFind(@, e.key).index + 1, e)]

(* The elements of a bucket go, in their order, to an array of m buckets. *)
PutAll(buckets, m, b) ==
  LET put[j \in 0..Len(b)] == IF j = 0 THEN buckets ELSE Put(put[j - 1], m, b[j])
  IN  put[Len(b)]

(* internal_hash_resize_reloc: so do those of an array of n buckets. *)
Relocated(buckets, n, m) ==
  LET relocate[i \in 0..n] ==
        IF i = 0 THEN EmptyBuckets(m) ELSE PutAll(relocate[i - 1], m, buckets[i - 1])
  IN  relocate[n]

(* When the array is to be halved: the ratio compared with is expand. *)
ShrinkDue(n, count) == shrink # 0 /\ n > min_size /\ 2 * count < expand * n

ExpandDue(n, count) == expand # 0 /\ 2 * count > expand * n

(* Where a resize can end: in the new size, or short of memory in the old.  *)
AfterExpand == {size} \cup {m \in {FACTOR * size} : ExpandDue(size, length)}
AfterShrink == {size} \cup {m \in {size \div FACTOR} : ShrinkDue(size, length - 1)}
-----------------------------------------------------------------------------
Bucket(k) == array[CalcIndex(size, k)]
Found(k) == BucketFind(Bucket(k), k)

ContainsKey(k) ==
  /\ array # NoBuckets
  /\ answer' = IF Found(k).hit THEN 1 ELSE 0
  /\ UNCHANGED <<array, size, length, config>>

Get(k) ==
  /\ array # NoBuckets
  /\ answer' = IF Found(k).hit THEN Bucket(k)[Found(k).index + 1].payload ELSE 1
  /\ UNCHANGED <<array, size, length, config>>

(* hash_size *)
Count ==
  /\ array # NoBuckets
  /\ answer' = length
  /\ UNCHANGED <<array, size, length, config>>

(* hashset_add of a key that is there, *)
Replace(k, p) ==
  /\ array # NoBuckets /\ Found(k).hit
  /\ array' = [array EXCEPT ![CalcIndex(size, k)][Found(k).index + 1].payload = p]
  /\ answer' = 0
  /\ UNCHANGED <<size, length, config>>

Resized(m) == IF m = size THEN array ELSE Relocated(array, size, m)

(* Mutant: the bucket found before the resize is used after it. *)
Add_OldIndex(k, p) ==
  /\ array # NoBuckets /\ ~Found(k).hit
  /\ \E m \in AfterExpand :
       /\ m <= MaxSize
       /\ size' = m
       /\ array' = Put(Resized(m), size, [key |-> k, payload |-> p])
  /\ length' = length + 1 /\ answer' = 0
  /\ UNCHANGED config

(* and of one that is not: the array may be doubled, and then there may be  *)
(* no memory for the element.                                               *)
Add(k, p) ==
  /\ array # NoBuckets /\ ~Found(k).hit
  /\ \E m \in AfterExpand :
       /\ m <= MaxSize
       /\ size' = m
       /\ \/ /\ array' = Put(Resized(m), m, [key |-> k, payload |-> p])
             /\ length' = length + 1 /\ answer' = 0
          \/ /\ array' = Resized(m)
             /\ answer' = 1 /\ UNCHANGED length
  /\ UNCHANGED config

(* internal_bucket_remove, in the bucket of k *)
Without(k) == [array EXCEPT ![CalcIndex(size, k)] = RemoveAt(@, Found(k).index + 1)]

(* Mutant: the elements move before the one to remove is gone. *)
RemoveKey_Stale(k) ==
  /\ array # NoBuckets /\ Found(k).hit
  /\ \E m \in AfterShrink :
       /\ size' = m
       /\ array' = IF m = size THEN Without(k) ELSE Relocated(array, size, m)
  /\ length' = length - 1 /\ answer' = 0
  /\ UNCHANGED config

RemoveKey(k) ==
  /\ array # NoBuckets /\ Found(k).hit
  /\ \E m \in AfterShrink :
       /\ size' = m
       /\ array' = IF m = size THEN Without(k) ELSE Relocated(Without(k), size, m)
  /\ length' = length - 1 /\ answer' = 0
  /\ UNCHANGED config

RemoveMissing(k) ==
  /\ array # NoBuckets /\ ~Found(k).hit
  /\ answer' = 1
  /\ UNCHANGED <<array, size, length, config>>

(* The old array is gone before there is memory for the new one: without    *)
(* it the set is left with no array, and with its old size and length.      *)
ClearTable ==
  /\ array # NoBuckets
  /\ \/ /\ array' = EmptyBuckets(min_size)
        /\ size' = min_size /\ length' = 0 /\ answer' = 0
     \/ /\ array' = NoBuckets
        /\ answer' = 1 /\ UNCHANGED <<size, length>>
  /\ UNCHANGED config

TableNext == \/ \E k \in HashKeys : \/ ContainsKey(k) \/ Get(k) \/ RemoveKey(k) \/ RemoveMissing(k)
                           \/ \E p \in Payloads : Add(k, p) \/ Replace(k, p)
        \/ Count \/ ClearTable

TableSpec == TableInit /\ [][TableNext]_tablevars
-----------------------------------------------------------------------------
Entries == IF array = NoBuckets THEN {} ELSE UNION {Range(array[i]) : i \in DOMAIN array}

TableTypeOK ==
  /\ array # NoBuckets => /\ DOMAIN array = 0..(size - 1)
                     /\ \A i \in DOMAIN array : array[i] \in Seq([key : HashKeys, payload : Payloads])
  /\ size \in Nat \ {0} /\ size >= min_size /\ length \in Nat
  /\ answer \in Nat

(* An element is in the one bucket a lookup with the present size goes to,  *)
(* and the buckets are in strictly ascending order for its binary search:   *)
(* through every replacement and resize, finished or rolled back.           *)
Placed ==
  /\ TableTypeOK
  /\ array # NoBuckets =>
       \A i \in DOMAIN array :
         /\ \A j \in DOMAIN array[i] : CalcIndex(size, array[i][j].key) = i
         /\ \A j \in 1..(Len(array[i]) - 1) : array[i][j].key < array[i][j + 1].key

Table == INSTANCE KeyedSet WITH Keys <- HashKeys, result <- answer,
  elements <- [k \in {e.key : e \in Entries} |-> (CHOOSE e \in Entries : e.key = k).payload]

TableCallsKept ==
  /\ \A k \in HashKeys :
       /\ \A p \in Payloads : /\ Add(k, p) => Table!Add(k, p) \/ Table!Fail
                              /\ Replace(k, p) => Table!Add(k, p)
       /\ RemoveKey(k) => Table!Remove(k)
       /\ Get(k) => Table!Get(k) \/ Table!Missing(k)
       /\ RemoveMissing(k) => Table!Missing(k)
       /\ ContainsKey(k) => Table!Contains(k)
  /\ Count => Table!Count
  /\ ClearTable => Table!Clear \/ array' = NoBuckets

(* Whatever the buckets, every call finds, replaces, adds or removes the    *)
(* element it is named for and no other, and a call that reports an error   *)
(* leaves the elements alone.  The exception is a clear that cannot get its *)
(* new array, after which no further call is defined.                       *)
ImplementsKeyedSet ==
  Table!Init /\ [][Table!Next \/ array' = NoBuckets]_<<Table!vars>>
  /\ [][TableCallsKept]_tablevars
=============================================================================
