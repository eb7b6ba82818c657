------------------------- MODULE HeapAndDequeueProofs ------------------------
(***************************************************************************)
(* Theorems about the double ended linked list, for any set of addresses   *)
(* and of values: the links are always those of the order of the elements, *)
(* no freed node is used, and every operation does what the interface      *)
(* says.                                                                   *)
(*                                                                         *)
(* Theorems about the heap sort, for every set of keys, every width of an  *)
(* element and all lengths whose addresses do not wrap: no access is       *)
(* outside the array, the heaps stay heaps, and the result is sorted.      *)
(***************************************************************************)
EXTENDS Dequeue, HeapSort, SequenceTheorems, WellFoundedInduction, TLAPS

(* What the freeing loop has left: the nodes from the cursor to the tail,   *)
(* each still linked to the one after it.                                   *)
LeftFrom(k) ==
  /\ DOMAIN node = {order[i] : i \in k..Len(order)}
  /\ cursor = IF k = Len(order) + 1 THEN NULL ELSE order[k]
  /\ \A i \in k..Len(order) :
       node[order[i]].previous = IF i = Len(order) THEN NULL ELSE order[i + 1]

Freeing ==
  state = "freeing" =>
    /\ \A i, j \in 1..Len(order) : order[i] = order[j] => i = j
    /\ \E k \in 1..(Len(order) + 1) : LeftFrom(k)

DequeInv == Linked /\ Freeing /\ (state = "none" => length = 0)

(* What Linked says outside the freeing loop.                               *)
Shape ==
  /\ length = Len(order)
  /\ DOMAIN node = {order[i] : i \in 1..length}
  /\ \A i, j \in 1..length : order[i] = order[j] => i = j
  /\ head = IF length = 0 THEN NULL ELSE order[1]
  /\ tail = IF length = 0 THEN NULL ELSE order[length]
  /\ \A i \in 1..length :
       /\ node[order[i]].previous = IF i = length THEN NULL ELSE order[i + 1]
       /\ node[order[i]].next = IF i = 1 THEN NULL ELSE order[i - 1]

Fields == [previous : Nodes \cup {NULL}, next : Nodes \cup {NULL}, data : Values]
-----------------------------------------------------------------------------
(* The heap and the order after each operation that changes them.           *)
LEMMA PushBackResult ==
  ASSUME DequeInv, NEW n \in Nodes, NEW v \in Values, PushBack(n, v)
  PROVE  /\ order' \in Seq(Nodes) /\ Len(order') = Len(order) + 1 /\ order'[Len(order) + 1] = n
         /\ \A i \in 1..Len(order) : order'[i] = order[i]
         /\ DOMAIN node' = DOMAIN node \cup {n}
         /\ node'[n] = Node(NULL, tail, v)
         /\ \A m \in DOMAIN node :
              node'[m] = IF m = tail THEN [node[m] EXCEPT !.previous = n] ELSE node[m]
<1> USE DEF DequeInv, Linked, DequeTypeOK
<1>1. /\ order' \in Seq(Nodes) /\ Len(order') = Len(order) + 1 /\ order'[Len(order) + 1] = n
      /\ \A i \in 1..Len(order) : order'[i] = order[i]
  BY AppendProperties DEF PushBack
<1>2. n \notin DOMAIN node /\ state = "ready" /\ length = Len(order)
  BY DEF PushBack
<1>3. CASE length = 0
  <2>1. DOMAIN node = {} /\ tail = NULL
    <3>1. DOMAIN node = {order[i] : i \in 1..length} /\ tail = NULL
      BY <1>2, <1>3
    <3>2. 1..length = {}
      BY <1>3
    <3>3. QED
      BY <3>1, <3>2
  <2>2. node' = With(node, n, Node(NULL, NULL, v))
    BY <1>3 DEF PushBack
  <2>3. QED
    BY <1>1, <2>1, <2>2 DEF With
<1>4. CASE length # 0
  <2>1. tail = order[length] /\ length \in 1..length /\ tail \in DOMAIN node
    BY <1>2, <1>4
  <2>2. node' = With([node EXCEPT ![tail].previous = n], n, Node(NULL, tail, v))
    BY <1>4 DEF PushBack
  <2>3. QED
    BY <1>1, <1>2, <2>1, <2>2 DEF With
<1>5. QED
  BY <1>3, <1>4

LEMMA PushFrontResult ==
  ASSUME DequeInv, NEW n \in Nodes, NEW v \in Values, PushFront(n, v)
  PROVE  /\ order' \in Seq(Nodes) /\ Len(order') = Len(order) + 1 /\ order'[1] = n
         /\ \A i \in 1..Len(order) : order'[i + 1] = order[i]
         /\ DOMAIN node' = DOMAIN node \cup {n}
         /\ node'[n] = Node(head, NULL, v)
         /\ \A m \in DOMAIN node :
              node'[m] = IF m = head THEN [node[m] EXCEPT !.next = n] ELSE node[m]
<1> USE DEF DequeInv, Linked, DequeTypeOK
<1>1. /\ order' \in Seq(Nodes) /\ Len(order') = Len(order) + 1 /\ order'[1] = n
      /\ \A i \in 1..Len(order) : order'[i + 1] = order[i]
  <2>1. order' = <<n>> \o order /\ <<n>> \in Seq(Nodes) /\ Len(<<n>>) = 1 /\ <<n>>[1] = n
    BY DEF PushFront
  <2>2. QED
    BY <2>1, ConcatProperties
<1>2. n \notin DOMAIN node /\ state = "ready" /\ length = Len(order)
  BY DEF PushFront
<1>3. CASE length = 0
  <2>1. DOMAIN node = {} /\ head = NULL
    <3>1. DOMAIN node = {order[i] : i \in 1..length} /\ head = NULL
      BY <1>2, <1>3
    <3>2. 1..length = {}
      BY <1>3
    <3>3. QED
      BY <3>1, <3>2
  <2>2. node' = With(node, n, Node(NULL, NULL, v))
    BY <1>3 DEF PushFront
  <2>3. QED
    BY <1>1, <2>1, <2>2 DEF With
<1>4. CASE length # 0
  <2>1. head = order[1] /\ 1 \in 1..length /\ head \in DOMAIN node
    BY <1>2, <1>4
  <2>2. node' = With([node EXCEPT ![head].next = n], n, Node(head, NULL, v))
    BY <1>4 DEF PushFront
  <2>3. QED
    BY <1>1, <1>2, <2>1, <2>2 DEF With
<1>5. QED
  BY <1>3, <1>4

LEMMA PopBackResult ==
  ASSUME DequeInv, PopBack
  PROVE  /\ order' \in Seq(Nodes) /\ Len(order') = Len(order) - 1 /\ length = Len(order)
         /\ length > 0 /\ tail = order[length]
         /\ \A i \in 1..Len(order') : order'[i] = order[i]
         /\ DOMAIN node' = DOMAIN node \ {tail}
         /\ \A m \in DOMAIN node' :
              node'[m] = IF m = node[tail].next THEN [node[m] EXCEPT !.previous = NULL] ELSE node[m]
         /\ head' = (IF length = 1 THEN NULL ELSE head)
         /\ tail' = (IF length = 1 THEN NULL ELSE order[length - 1])
<1> USE DEF DequeInv, Linked, DequeTypeOK
<1>1. state = "ready" /\ length = Len(order) /\ length \in Nat /\ length > 0
  BY DEF PopBack
<1>2. tail = order[length] /\ length \in 1..length /\ tail \in DOMAIN node
  BY <1>1
<1>3. order' \in Seq(Nodes) /\ Len(order') = Len(order) - 1 /\ \A i \in 1..Len(order') : order'[i] = order[i]
  <2>1. order' = SubSeq(order, 1, length - 1) /\ \A i \in 1..(length - 1) : order[i] \in Nodes
    BY <1>1, ElementOfSeq DEF PopBack
  <2>2. QED
    BY <1>1, <2>1, SubSeqProperties
<1>4. CASE length = 1
  <2>1. node' = Freed(node, tail) /\ head' = NULL /\ tail' = NULL
    BY <1>4 DEF PopBack
  <2>2. DOMAIN node = {tail}
    BY <1>1, <1>2, <1>4
  <2>3. QED
    BY <1>1, <1>2, <1>3, <1>4, <2>1, <2>2 DEF Freed
<1>5. CASE length # 1
  <2>1. length - 1 \in 1..length /\ node[tail].next = order[length - 1]
    BY <1>1, <1>2, <1>5
  <2>2. /\ node' = Freed([node EXCEPT ![order[length - 1]].previous = NULL], tail)
        /\ head' = head /\ tail' = order[length - 1]
    BY <1>1, <1>5, <2>1 DEF PopBack
  <2>3. order[length - 1] \in DOMAIN node
    BY <1>1, <2>1
  <2>4. QED
    BY <1>1, <1>2, <1>3, <1>5, <2>1, <2>2, <2>3 DEF Freed
<1>6. QED
  BY <1>4, <1>5

LEMMA PopFrontResult ==
  ASSUME DequeInv, PopFront
  PROVE  /\ order' \in Seq(Nodes) /\ Len(order') = Len(order) - 1 /\ length = Len(order)
         /\ length > 0 /\ head = order[1]
         /\ \A i \in 1..Len(order') : order'[i] = order[i + 1]
         /\ DOMAIN node' = DOMAIN node \ {head}
         /\ \A m \in DOMAIN node' :
              node'[m] = IF m = node[head].previous THEN [node[m] EXCEPT !.next = NULL] ELSE node[m]
         /\ head' = (IF length = 1 THEN NULL ELSE order[2])
         /\ tail' = (IF length = 1 THEN NULL ELSE tail)
<1> USE DEF DequeInv, Linked, DequeTypeOK
<1>1. state = "ready" /\ length = Len(order) /\ length \in Nat /\ length > 0
  BY DEF PopFront
<1>2. head = order[1] /\ 1 \in 1..length /\ head \in DOMAIN node
  BY <1>1
<1>3. order' \in Seq(Nodes) /\ Len(order') = Len(order) - 1
      /\ \A i \in 1..Len(order') : order'[i] = order[i + 1]
  <2>1. order' = SubSeq(order, 2, length) /\ \A i \in 2..length : order[i] \in Nodes
    BY <1>1, ElementOfSeq DEF PopFront
  <2>2. QED
    BY <1>1, <2>1, SubSeqProperties
<1>4. CASE length = 1
  <2>1. node' = Freed(node, head) /\ head' = NULL /\ tail' = NULL
    BY <1>4 DEF PopFront
  <2>2. DOMAIN node = {head}
    BY <1>1, <1>2, <1>4
  <2>3. QED
    BY <1>1, <1>2, <1>3, <1>4, <2>1, <2>2 DEF Freed
<1>5. CASE length # 1
  <2>1. 2 \in 1..length /\ node[head].previous = order[2]
    BY <1>1, <1>2, <1>5
  <2>2. /\ node' = Freed([node EXCEPT ![order[2]].next = NULL], head)
        /\ tail' = tail /\ head' = order[2]
    BY <1>1, <1>5, <2>1 DEF PopFront
  <2>3. order[2] \in DOMAIN node
    BY <1>1, <2>1
  <2>4. QED
    BY <1>1, <1>2, <1>3, <1>5, <2>1, <2>2, <2>3 DEF Freed
<1>6. QED
  BY <1>4, <1>5

LEMMA ShapeIsEnough ==
  ASSUME DequeTypeOK', Shape', state' = "ready"
  PROVE  DequeInv'
BY DEF DequeInv, Linked, Freeing, Shape

LEMMA InitDeque == DequeInit => DequeInv
<1> SUFFICES ASSUME DequeInit PROVE DequeInv
  OBVIOUS
<1>1. order = <<>> /\ order \in Seq(Nodes) /\ Len(order) = 0 /\ DOMAIN node = {} /\ 1..0 = {}
  BY EmptySeq DEF DequeInit
<1>2. DequeTypeOK
  BY <1>1 DEF DequeInit, DequeTypeOK, Returned
<1>3. QED
  BY <1>1, <1>2 DEF DequeInit, DequeInv, Linked, Freeing

LEMMA Pushes ==
  ASSUME DequeInv, NEW n \in Nodes, NEW v \in Values, PushBack(n, v) \/ PushFront(n, v)
  PROVE  DequeInv'
<1>0. Linked
  BY DEF DequeInv
<1> USE DEF Linked, DequeTypeOK
<1>1. CASE PushBack(n, v)
  <2>1. /\ state = "ready" /\ n \notin DOMAIN node /\ length' = length + 1
        /\ tail' = n /\ head' = (IF length = 0 THEN n ELSE head)
        /\ result' = Returned(0, NoData) /\ UNCHANGED <<state, cursor, after>>
    BY <1>1 DEF PushBack, reset
  <2>0. /\ length \in Nat /\ length = Len(order) /\ DOMAIN node = {order[i] : i \in 1..length}
        /\ \A i, j \in 1..length : order[i] = order[j] => i = j
        /\ head = IF length = 0 THEN NULL ELSE order[1]
        /\ tail = IF length = 0 THEN NULL ELSE order[length]
        /\ head \in Nodes \cup {NULL} /\ tail \in Nodes \cup {NULL}
    BY <1>0, <2>1
  <2>2. /\ order' \in Seq(Nodes) /\ Len(order') = length + 1 /\ order'[length + 1] = n
        /\ \A i \in 1..length : order'[i] = order[i]
        /\ DOMAIN node' = DOMAIN node \cup {n}
        /\ node'[n] = Node(NULL, tail, v)
        /\ \A m \in DOMAIN node :
             node'[m] = IF m = tail THEN [node[m] EXCEPT !.previous = n] ELSE node[m]
    BY <1>1, <2>0, PushBackResult
  <2>3. \A m \in DOMAIN node' : node'[m] \in Fields
    <3>1. node'[n] \in Fields
      BY <2>0, <2>2 DEF Node, Fields
    <3>2. ASSUME NEW m \in DOMAIN node PROVE node'[m] \in Fields
      <4>1. node[m] \in Fields
        BY <1>0 DEF Fields
      <4>2. [node[m] EXCEPT !.previous = n] \in Fields
        BY <4>1 DEF Fields
      <4>3. QED
        BY <2>2, <4>1, <4>2
    <3>3. QED
      BY <2>2, <3>1, <3>2
  <2>4. DequeTypeOK'
    BY <1>0, <2>1, <2>2, <2>3 DEF Returned, Fields
  <2>5. DOMAIN node' = {order'[i] : i \in 1..length'}
    <3>1. ASSUME NEW i \in 1..length' PROVE order'[i] \in DOMAIN node'
      <4>1. CASE i = length + 1
        BY <2>2, <4>1
      <4>2. CASE i # length + 1
        <5>1. i \in 1..length /\ order'[i] = order[i] /\ order[i] \in DOMAIN node
          BY <2>0, <2>1, <2>2, <4>2
        <5>2. QED
          BY <2>2, <5>1
      <4>3. QED
        BY <4>1, <4>2
    <3>2. \A m \in DOMAIN node' : \E i \in 1..length' : m = order'[i]
      BY <2>0, <2>1, <2>2
    <3>3. QED
      BY <3>1, <3>2, Zenon
  <2>6. \A i, j \in 1..length' : order'[i] = order'[j] => i = j
    <3>1. \A i \in 1..length : order'[i] # n
      BY <2>0, <2>1, <2>2
    <3>2. \A i \in 1..length' : i = length + 1 \/ i \in 1..length
      BY <2>0, <2>1
    <3>3. \A i \in 1..length' : i # length + 1 => i \in 1..length /\ order'[i] = order[i]
      BY <2>0, <2>1, <2>2
    <3>4. QED
      BY <2>0, <2>1, <2>2, <3>1, <3>2, <3>3
  <2>7. length' = Len(order') /\ length' # 0 /\ head' = order'[1] /\ tail' = order'[length']
    BY <2>0, <2>1, <2>2
  <2>8. ASSUME NEW i \in 1..length'
        PROVE  /\ node'[order'[i]].previous = IF i = length' THEN NULL ELSE order'[i + 1]
               /\ node'[order'[i]].next = IF i = 1 THEN NULL ELSE order'[i - 1]
    <3>1. CASE i = length + 1
      BY <2>0, <2>1, <2>2, <3>1 DEF Node
    <3>2. CASE i # length + 1
      <4> DEFINE k == i
      <4>1. /\ k \in 1..length /\ order'[i] = order[k] /\ order[k] \in DOMAIN node
            /\ order[k] = tail <=> k = length
        BY <2>0, <2>1, <2>2, <3>2
      <4>2. /\ node[order[k]].previous = IF k = length THEN NULL ELSE order[k + 1]
            /\ node[order[k]].next = IF k = 1 THEN NULL ELSE order[k - 1]
        BY <1>0, <2>1, <4>1
      <4>3. /\ node'[order[k]].previous = IF k = length THEN n ELSE order[k + 1]
            /\ node'[order[k]].next = IF k = 1 THEN NULL ELSE order[k - 1]
        BY <1>0, <2>2, <4>1, <4>2
      <4>4. QED
        BY <2>0, <2>1, <2>2, <3>2, <4>1, <4>3
    <3>3. QED
      BY <3>1, <3>2
  <2>9. Shape'
    BY <2>5, <2>6, <2>7, <2>8 DEF Shape
  <2>10. QED
    BY <2>1, <2>4, <2>9, ShapeIsEnough
<1>2. CASE PushFront(n, v)
  <2>1. /\ state = "ready" /\ n \notin DOMAIN node /\ length' = length + 1
        /\ head' = n /\ tail' = (IF length = 0 THEN n ELSE tail)
        /\ result' = Returned(0, NoData) /\ UNCHANGED <<state, cursor, after>>
    BY <1>2 DEF PushFront, reset
  <2>0. /\ length \in Nat /\ length = Len(order) /\ DOMAIN node = {order[i] : i \in 1..length}
        /\ \A i, j \in 1..length : order[i] = order[j] => i = j
        /\ head = IF length = 0 THEN NULL ELSE order[1]
        /\ tail = IF length = 0 THEN NULL ELSE order[length]
        /\ head \in Nodes \cup {NULL} /\ tail \in Nodes \cup {NULL}
    BY <1>0, <2>1
  <2>2. /\ order' \in Seq(Nodes) /\ Len(order') = length + 1 /\ order'[1] = n
        /\ \A i \in 1..length : order'[i + 1] = order[i]
        /\ DOMAIN node' = DOMAIN node \cup {n}
        /\ node'[n] = Node(head, NULL, v)
        /\ \A m \in DOMAIN node :
             node'[m] = IF m = head THEN [node[m] EXCEPT !.next = n] ELSE node[m]
    BY <1>2, <2>0, PushFrontResult
  <2>3. \A m \in DOMAIN node' : node'[m] \in Fields
    <3>1. node'[n] \in Fields
      BY <2>0, <2>2 DEF Node, Fields
    <3>2. ASSUME NEW m \in DOMAIN node PROVE node'[m] \in Fields
      <4>1. node[m] \in Fields
        BY <1>0 DEF Fields
      <4>2. [node[m] EXCEPT !.next = n] \in Fields
        BY <4>1 DEF Fields
      <4>3. QED
        BY <2>2, <4>1, <4>2
    <3>3. QED
      BY <2>2, <3>1, <3>2
  <2>4. DequeTypeOK'
    BY <1>0, <2>1, <2>2, <2>3 DEF Returned, Fields
  <2>5. DOMAIN node' = {order'[i] : i \in 1..length'}
    <3>1. ASSUME NEW i \in 1..length' PROVE order'[i] \in DOMAIN node'
      <4>1. CASE i = 1
        BY <2>2, <4>1
      <4>2. CASE i # 1
        <5>1. i - 1 \in 1..length /\ order'[i] = order[i - 1] /\ order[i - 1] \in DOMAIN node
          BY <2>0, <2>1, <2>2, <4>2
        <5>2. QED
          BY <2>2, <5>1
      <4>3. QED
        BY <4>1, <4>2
    <3>2. \A m \in DOMAIN node' : \E i \in 1..length' : m = order'[i]
      BY <2>0, <2>1, <2>2
    <3>3. QED
      BY <3>1, <3>2, Zenon
  <2>6. \A i, j \in 1..length' : order'[i] = order'[j] => i = j
    <3>1. \A i \in 1..length : order'[i + 1] # n
      BY <2>0, <2>1, <2>2
    <3>2. \A i \in 1..length' : i = 1 \/ i - 1 \in 1..length
      BY <2>0, <2>1
    <3>3. \A i \in 1..length' : i # 1 => i - 1 \in 1..length /\ order'[i] = order[i - 1]
      BY <2>0, <2>1, <2>2
    <3>4. QED
      BY <2>0, <2>1, <2>2, <3>1, <3>2, <3>3
  <2>7. length' = Len(order') /\ length' # 0 /\ head' = order'[1] /\ tail' = order'[length']
    BY <2>0, <2>1, <2>2
  <2>8. ASSUME NEW i \in 1..length'
        PROVE  /\ node'[order'[i]].previous = IF i = length' THEN NULL ELSE order'[i + 1]
               /\ node'[order'[i]].next = IF i = 1 THEN NULL ELSE order'[i - 1]
    <3>1. CASE i = 1
      BY <2>0, <2>1, <2>2, <3>1 DEF Node
    <3>2. CASE i # 1
      <4> DEFINE k == i - 1
      <4>1. /\ k \in 1..length /\ order'[i] = order[k] /\ order[k] \in DOMAIN node
            /\ order[k] = head <=> k = 1
        BY <2>0, <2>1, <2>2, <3>2
      <4>2. /\ node[order[k]].previous = IF k = length THEN NULL ELSE order[k + 1]
            /\ node[order[k]].next = IF k = 1 THEN NULL ELSE order[k - 1]
        BY <1>0, <2>1, <4>1
      <4>3. /\ node'[order[k]].previous = IF k = length THEN NULL ELSE order[k + 1]
            /\ node'[order[k]].next = IF k = 1 THEN n ELSE order[k - 1]
        BY <1>0, <2>2, <4>1, <4>2
      <4>4. QED
        BY SMTT(30), <2>0, <2>1, <2>2, <3>2, <4>1, <4>3
    <3>3. QED
      BY <3>1, <3>2
  <2>9. Shape'
    BY <2>5, <2>6, <2>7, <2>8 DEF Shape
  <2>10. QED
    BY <2>1, <2>4, <2>9, ShapeIsEnough
<1>3. QED
  BY <1>1, <1>2

LEMMA Pops ==
  ASSUME DequeInv, PopBack \/ PopFront
  PROVE  DequeInv'
<1>0. Linked
  BY DEF DequeInv
<1> USE DEF Linked, DequeTypeOK
<1>1. CASE PopBack
  <2>0. /\ length \in Nat /\ length = Len(order) /\ DOMAIN node = {order[i] : i \in 1..length}
        /\ \A i, j \in 1..length : order[i] = order[j] => i = j
        /\ head = IF length = 0 THEN NULL ELSE order[1]
        /\ tail = IF length = 0 THEN NULL ELSE order[length]
        /\ head \in Nodes \cup {NULL} /\ tail \in Nodes \cup {NULL}
    BY <1>0, <1>1 DEF PopBack
  <2>1. /\ order' \in Seq(Nodes) /\ Len(order') = length - 1 /\ length > 0 /\ tail = order[length]
        /\ \A i \in 1..(length - 1) : order'[i] = order[i]
        /\ DOMAIN node' = DOMAIN node \ {tail}
        /\ \A m \in DOMAIN node' :
             node'[m] = IF m = node[tail].next THEN [node[m] EXCEPT !.previous = NULL] ELSE node[m]
        /\ head' = (IF length = 1 THEN NULL ELSE head)
        /\ tail' = (IF length = 1 THEN NULL ELSE order[length - 1])
    BY <1>1, PopBackResult
  <2>2. /\ state = "ready" /\ length' = length - 1 /\ UNCHANGED <<state, cursor, after>>
        /\ result' \in {Returned(0, node[tail].data), Returned(0, NoData)}
    BY <1>1 DEF PopBack, reset, Popped
  <2>3. length \in 1..length /\ tail \in DOMAIN node
    BY <2>0, <2>1
  <2>4. ASSUME NEW m \in DOMAIN node' PROVE node'[m] \in Fields
    <3>1. node[m] \in Fields
      BY <1>0, <2>1 DEF Fields
    <3>2. [node[m] EXCEPT !.previous = NULL] \in Fields
      BY <3>1 DEF Fields
    <3>3. QED
      BY <2>1, <3>1, <3>2
  <2>5. DequeTypeOK'
    <3>1. head' \in Nodes \cup {NULL} /\ tail' \in Nodes \cup {NULL}
      <4>1. CASE length = 1
        BY <2>1, <4>1
      <4>2. CASE length # 1
        <5>1. length - 1 \in 1..length
          BY <2>0, <2>1, <4>2
        <5>2. order[length - 1] \in DOMAIN node
          BY <2>0, <5>1
        <5>3. QED
          BY <1>0, <2>0, <2>1, <4>2, <5>2
      <4>3. QED
        BY <4>1, <4>2
    <3>2. node[tail].data \in Values
      BY <1>0, <2>3
    <3>3. result' \in [code : {0, 1}, value : Values \cup {NoData}]
      BY <2>2, <3>2 DEF Returned
    <3>4. DOMAIN node' \subseteq Nodes
      BY <1>0, <2>1
    <3>5. length' \in Nat
      BY <2>0, <2>1, <2>2
    <3>6. QED
      BY <1>0, <2>1, <2>2, <2>4, <3>1, <3>3, <3>4, <3>5 DEF Fields
  <2>6. \A i \in 1..length' : /\ i \in 1..(length - 1) /\ i \in 1..length /\ order'[i] = order[i]
                              /\ i # length /\ order[i] \in DOMAIN node /\ order[i] # tail
    BY <2>0, <2>1, <2>2
  <2>7. DOMAIN node' = {order'[i] : i \in 1..length'}
    <3>1. \A i \in 1..length' : order'[i] \in DOMAIN node'
      BY <2>1, <2>6
    <3>2. ASSUME NEW m \in DOMAIN node' PROVE \E i \in 1..length' : m = order'[i]
      <4>1. PICK j \in 1..length : m = order[j] /\ j # length
        BY <2>0, <2>1
      <4>2. j \in 1..length' /\ order'[j] = order[j]
        BY <2>0, <2>1, <2>2, <4>1
      <4>3. QED
        BY <4>1, <4>2
    <3>3. QED
      BY <3>1, <3>2, Zenon
  <2>8. \A i, j \in 1..length' : order'[i] = order'[j] => i = j
    BY <2>0, <2>2, <2>6
  <2>9. /\ length' = Len(order')
        /\ head' = IF length' = 0 THEN NULL ELSE order'[1]
        /\ tail' = IF length' = 0 THEN NULL ELSE order'[length']
    <3>1. CASE length = 1
      BY <2>0, <2>1, <2>2, <3>1
    <3>2. CASE length # 1
      <4>1. 1 \in 1..(length - 1) /\ length - 1 \in 1..(length - 1)
        BY <2>0, <2>1, <3>2
      <4>2. order'[1] = order[1] /\ order'[length - 1] = order[length - 1]
        BY <2>1, <4>1
      <4>3. QED
        BY <2>0, <2>1, <2>2, <3>2, <4>2
    <3>3. QED
      BY <3>1, <3>2
  <2>10. ASSUME NEW i \in 1..length'
         PROVE  /\ node'[order'[i]].previous = IF i = length' THEN NULL ELSE order'[i + 1]
                /\ node'[order'[i]].next = IF i = 1 THEN NULL ELSE order'[i - 1]
    <3> DEFINE k == i
    <3>1. /\ k \in 1..length /\ order'[i] = order[k] /\ order[k] \in DOMAIN node'
          /\ order[k] \in DOMAIN node
      BY <2>1, <2>6
    <3>2. /\ node[order[k]].previous = IF k = length THEN NULL ELSE order[k + 1]
          /\ node[order[k]].next = IF k = 1 THEN NULL ELSE order[k - 1]
      BY <1>0, <2>2, <3>1
    <3>3. node[tail].next = order[length - 1]
      <4>1. length # 1
        BY <2>0, <2>1, <2>2
      <4>2. /\ node[order[length]].previous = IF length = length THEN NULL ELSE order[length + 1]
            /\ node[order[length]].next = IF length = 1 THEN NULL ELSE order[length - 1]
        BY <1>0, <2>2, <2>3
      <4>3. QED
        BY <2>0, <2>1, <4>1, <4>2
    <3>4. length - 1 \in 1..length /\ (order[k] = node[tail].next <=> k = length - 1)
      BY SMTT(30), <2>0, <2>1, <2>2, <3>1, <3>3
    <3>5. node[order[k]] \in Fields
      BY <1>0, <3>1 DEF Fields
    <3>6. /\ node'[order[k]].previous = IF k = length - 1 THEN NULL ELSE order[k + 1]
          /\ node'[order[k]].next = IF k = 1 THEN NULL ELSE order[k - 1]
      <4>1. CASE k = length - 1
        <5>1. node'[order[k]] = [node[order[k]] EXCEPT !.previous = NULL]
          BY <2>1, <3>1, <3>4, <4>1
        <5>2. QED
          BY <2>0, <2>1, <2>2, <3>1, <3>2, <3>5, <4>1, <5>1 DEF Fields
      <4>2. CASE k # length - 1
        <5>1. node'[order[k]] = node[order[k]]
          BY <2>1, <3>1, <3>4, <4>2
        <5>2. QED
          BY <2>0, <2>1, <2>2, <3>1, <3>2, <4>2, <5>1
      <4>3. QED
        BY <4>1, <4>2
    <3>7. /\ i # length' => order'[i + 1] = order[k + 1]
          /\ i # 1 => order'[i - 1] = order[k - 1]
      <4>1. i # length' => i + 1 \in 1..(length - 1) /\ order'[i + 1] = order[i + 1]
        BY <2>0, <2>1, <2>2
      <4>2. i # 1 => i - 1 \in 1..(length - 1) /\ order'[i - 1] = order[i - 1]
        BY <2>0, <2>1, <2>2
      <4>3. QED
        BY <4>1, <4>2
    <3>8. QED
      BY <2>0, <2>1, <2>2, <3>1, <3>6, <3>7
  <2>11. Shape'
    BY <2>7, <2>8, <2>9, <2>10 DEF Shape
  <2>12. QED
    BY <2>2, <2>5, <2>11, ShapeIsEnough
<1>2. CASE PopFront
  <2>0. /\ length \in Nat /\ length = Len(order) /\ DOMAIN node = {order[i] : i \in 1..length}
        /\ \A i, j \in 1..length : order[i] = order[j] => i = j
        /\ head = IF length = 0 THEN NULL ELSE order[1]
        /\ tail = IF length = 0 THEN NULL ELSE order[length]
        /\ head \in Nodes \cup {NULL} /\ tail \in Nodes \cup {NULL}
    BY <1>0, <1>2 DEF PopFront
  <2>1. /\ order' \in Seq(Nodes) /\ Len(order') = length - 1 /\ length > 0 /\ head = order[1]
        /\ \A i \in 1..(length - 1) : order'[i] = order[i + 1]
        /\ DOMAIN node' = DOMAIN node \ {head}
        /\ \A m \in DOMAIN node' :
             node'[m] = IF m = node[head].previous THEN [node[m] EXCEPT !.next = NULL] ELSE node[m]
        /\ head' = (IF length = 1 THEN NULL ELSE order[2])
        /\ tail' = (IF length = 1 THEN NULL ELSE tail)
    BY <1>2, PopFrontResult
  <2>2. /\ state = "ready" /\ length' = length - 1 /\ UNCHANGED <<state, cursor, after>>
        /\ result' \in {Returned(0, node[head].data), Returned(0, NoData)}
    BY <1>2 DEF PopFront, reset, Popped
  <2>3. 1 \in 1..length /\ head \in DOMAIN node
    BY <2>0, <2>1
  <2>4. ASSUME NEW m \in DOMAIN node' PROVE node'[m] \in Fields
    <3>1. node[m] \in Fields
      BY <1>0, <2>1 DEF Fields
    <3>2. [node[m] EXCEPT !.next = NULL] \in Fields
      BY <3>1 DEF Fields
    <3>3. QED
      BY <2>1, <3>1, <3>2
  <2>5. DequeTypeOK'
    <3>1. head' \in Nodes \cup {NULL} /\ tail' \in Nodes \cup {NULL}
      <4>1. CASE length = 1
        BY <2>1, <4>1
      <4>2. CASE length # 1
        <5>1. 2 \in 1..length
          BY <2>0, <2>1, <4>2
        <5>2. order[2] \in DOMAIN node
          BY <2>0, <5>1
        <5>3. QED
          BY <1>0, <2>0, <2>1, <4>2, <5>2
      <4>3. QED
        BY <4>1, <4>2
    <3>2. node[head].data \in Values
      BY <1>0, <2>3
    <3>3. result' \in [code : {0, 1}, value : Values \cup {NoData}]
      BY <2>2, <3>2 DEF Returned
    <3>4. DOMAIN node' \subseteq Nodes
      BY <1>0, <2>1
    <3>5. length' \in Nat
      BY <2>0, <2>1, <2>2
    <3>6. QED
      BY <1>0, <2>1, <2>2, <2>4, <3>1, <3>3, <3>4, <3>5 DEF Fields
  <2>6. \A i \in 1..length' : /\ i \in 1..(length - 1) /\ i + 1 \in 1..length /\ order'[i] = order[i + 1]
                              /\ order[i + 1] \in DOMAIN node /\ order[i + 1] # head
    BY <2>0, <2>1, <2>2
  <2>7. DOMAIN node' = {order'[i] : i \in 1..length'}
    <3>1. \A i \in 1..length' : order'[i] \in DOMAIN node'
      BY <2>1, <2>6
    <3>2. ASSUME NEW m \in DOMAIN node' PROVE \E i \in 1..length' : m = order'[i]
      <4>1. PICK j \in 1..length : m = order[j] /\ j # 1
        BY <2>0, <2>1
      <4>2. j - 1 \in 1..length' /\ order'[j - 1] = order[j]
        BY <2>0, <2>1, <2>2, <4>1
      <4>3. QED
        BY <4>1, <4>2
    <3>3. QED
      BY <3>1, <3>2, Zenon
  <2>8. \A i, j \in 1..length' : order'[i] = order'[j] => i = j
    BY <2>0, <2>2, <2>6
  <2>9. /\ length' = Len(order')
        /\ head' = IF length' = 0 THEN NULL ELSE order'[1]
        /\ tail' = IF length' = 0 THEN NULL ELSE order'[length']
    <3>1. CASE length = 1
      BY <2>0, <2>1, <2>2, <3>1
    <3>2. CASE length # 1
      <4>1. 1 \in 1..(length - 1) /\ length - 1 \in 1..(length - 1)
        BY <2>0, <2>1, <3>2
      <4>2. order'[1] = order[2] /\ order'[length - 1] = order[length]
        BY <2>0, <2>1, <4>1
      <4>3. QED
        BY <2>0, <2>1, <2>2, <3>2, <4>2
    <3>3. QED
      BY <3>1, <3>2
  <2>10. ASSUME NEW i \in 1..length'
         PROVE  /\ node'[order'[i]].previous = IF i = length' THEN NULL ELSE order'[i + 1]
                /\ node'[order'[i]].next = IF i = 1 THEN NULL ELSE order'[i - 1]
    <3> DEFINE k == i + 1
    <3>1. /\ k \in 1..length /\ order'[i] = order[k] /\ order[k] \in DOMAIN node'
          /\ order[k] \in DOMAIN node
      BY <2>1, <2>6
    <3>2. /\ node[order[k]].previous = IF k = length THEN NULL ELSE order[k + 1]
          /\ node[order[k]].next = IF k = 1 THEN NULL ELSE order[k - 1]
      BY <1>0, <2>2, <3>1
    <3>3. node[head].previous = order[2]
      <4>1. length # 1
        BY <2>0, <2>1, <2>2
      <4>2. /\ node[order[1]].previous = IF 1 = length THEN NULL ELSE order[2]
            /\ node[order[1]].next = IF 1 = 1 THEN NULL ELSE order[1 - 1]
        BY <1>0, <2>2, <2>3
      <4>3. QED
        BY <2>0, <2>1, <4>1, <4>2
    <3>4. 2 \in 1..length /\ (order[k] = node[head].previous <=> k = 2)
      BY <2>0, <2>1, <2>2, <3>1, <3>3
    <3>5. node[order[k]] \in Fields
      BY <1>0, <3>1 DEF Fields
    <3>6. /\ node'[order[k]].previous = IF k = length THEN NULL ELSE order[k + 1]
          /\ node'[order[k]].next = IF k = 2 THEN NULL ELSE order[k - 1]
      <4>1. CASE k = 2
        <5>1. node'[order[k]] = [node[order[k]] EXCEPT !.next = NULL]
          BY <2>1, <3>1, <3>4, <4>1
        <5>2. QED
          BY <2>0, <2>1, <2>2, <3>1, <3>2, <3>5, <4>1, <5>1 DEF Fields
      <4>2. CASE k # 2
        <5>1. node'[order[k]] = node[order[k]]
          BY <2>1, <3>1, <3>4, <4>2
        <5>2. QED
          BY <2>0, <2>1, <2>2, <3>1, <3>2, <4>2, <5>1
      <4>3. QED
        BY <4>1, <4>2
    <3>7. /\ i # length' => order'[i + 1] = order[k + 1]
          /\ i # 1 => order'[i - 1] = order[k - 1]
      <4>1. i # length' => i + 1 \in 1..(length - 1) /\ order'[i + 1] = order[i + 2]
        BY SMTT(30), <2>0, <2>1, <2>2
      <4>2. i # 1 => i - 1 \in 1..(length - 1) /\ order'[i - 1] = order[(i - 1) + 1]
        BY <2>0, <2>1, <2>2
      <4>3. QED
        BY <4>1, <4>2
    <3>8. QED
      BY <2>0, <2>1, <2>2, <3>1, <3>6, <3>7
  <2>11. Shape'
    BY <2>7, <2>8, <2>9, <2>10 DEF Shape
  <2>12. QED
    BY <2>2, <2>5, <2>11, ShapeIsEnough
<1>3. QED
  BY <1>1, <1>2

(* Create, the calls that change nothing, the reset and the freeing loop.    *)
LEMMA QuietCalls ==
  ASSUME DequeInv, Create \/ PushFail \/ PeekBack \/ PeekFront \/ Empty
  PROVE  DequeInv'
<1> USE DEF DequeInv, Linked, DequeTypeOK, Freeing
<1>1. CASE Create
  <2>1. length = 0 /\ length' = 0 /\ order' = order /\ node' = node /\ state' # "freeing"
    BY <1>1 DEF Create
  <2>2. Len(order) = 0 /\ DOMAIN node = {order[i] : i \in 1..length}
    BY <1>1, <2>1 DEF Create
  <2>3. QED
    BY <1>1, <2>1, <2>2 DEF Create, Returned
<1>2. CASE PushFail
  BY <1>2 DEF PushFail, Returned, links, reset
<1>3. CASE PeekBack
  <2>1. tail = order[length] /\ length \in 1..length /\ tail \in DOMAIN node
    BY <1>3 DEF PeekBack
  <2>2. node[tail].data \in Values
    BY <2>1
  <2>3. QED
    BY <1>3, <2>2 DEF PeekBack, Returned, links, reset
<1>4. CASE PeekFront
  <2>1. head = order[1] /\ 1 \in 1..length /\ head \in DOMAIN node
    BY <1>4 DEF PeekFront
  <2>2. node[head].data \in Values
    BY <2>1
  <2>3. QED
    BY <1>4, <2>2 DEF PeekFront, Returned, links, reset
<1>5. CASE Empty
  BY <1>5 DEF Empty, Returned, links, reset
<1>6. QED
  BY <1>1, <1>2, <1>3, <1>4, <1>5

LEMMA Resets ==
  ASSUME DequeInv, NEW then \in {"ready", "none"}, Reset(then)
  PROVE  DequeInv'
<1> USE DEF DequeInv, Linked, DequeTypeOK
<1>1. /\ state = "ready" /\ after' = then /\ result' = Returned(0, NoData)
      /\ UNCHANGED <<node, head, tail, length, order>>
  BY DEF Reset, links
<1>2. CASE length = 0
  <2>1. state' = then /\ cursor' = cursor
    BY <1>2 DEF Reset
  <2>2. QED
    BY <1>1, <1>2, <2>1 DEF Freeing, Returned
<1>3. CASE length # 0
  <2>1. state' = "freeing" /\ cursor' = head
    BY <1>3 DEF Reset
  <2>2. DequeTypeOK'
    BY <1>1, <2>1 DEF Returned
  <2>3. /\ length = Len(order) /\ 1 \in 1..(Len(order) + 1) /\ 1 # Len(order) + 1
        /\ cursor' = order[1]
    BY <1>1, <1>3, <2>1
  <2>4. LeftFrom(1)'
    BY <1>1, <2>3 DEF LeftFrom
  <2>5. \A i, j \in 1..Len(order) : order[i] = order[j] => i = j
    BY <1>1
  <2>6. Freeing'
    BY <1>1, <2>3, <2>4, <2>5 DEF Freeing
  <2>7. QED
    BY <2>1, <2>2, <2>6
<1>4. QED
  BY <1>2, <1>3

LEMMA FreeSteps ==
  ASSUME DequeInv, FreeNode \/ FreeEnd
  PROVE  DequeInv'
<1>9. Linked /\ Freeing /\ DequeTypeOK
  BY DEF DequeInv, Linked
<1> USE DEF DequeTypeOK
<1>0. state = "freeing" /\ order \in Seq(Nodes) /\ Len(order) \in Nat
  BY <1>9 DEF FreeNode, FreeEnd
<1>1. PICK k \in 1..(Len(order) + 1) : LeftFrom(k)
  BY <1>0, <1>9 DEF Freeing
<1>2. \A i, j \in 1..Len(order) : order[i] = order[j] => i = j
  BY <1>0, <1>9 DEF Freeing
<1>3. CASE FreeNode
  <2>1. /\ cursor # NULL /\ cursor' = node[cursor].previous /\ node' = Freed(node, cursor)
        /\ UNCHANGED <<head, tail, length, order, state, after, result>>
    BY <1>3 DEF FreeNode
  <2>2. k \in 1..Len(order) /\ cursor = order[k] /\ k \in k..Len(order) /\ cursor \in DOMAIN node
    BY <1>0, <1>1, <2>1 DEF LeftFrom
  <2>3. cursor' = IF k = Len(order) THEN NULL ELSE order[k + 1]
    BY <1>1, <2>1, <2>2 DEF LeftFrom
  <2>4. k + 1 \in 1..(Len(order) + 1)
        /\ \A i \in (k + 1)..Len(order) : /\ i \in k..Len(order) /\ i # k
                                          /\ i \in 1..Len(order) /\ order[i] # cursor
    BY <1>0, <1>2, <2>2
  <2>5. DOMAIN node' = {order[i] : i \in (k + 1)..Len(order)}
    <3>1. DOMAIN node' = DOMAIN node \ {cursor} /\ DOMAIN node = {order[i] : i \in k..Len(order)}
      BY <1>1, <2>1 DEF Freed, LeftFrom
    <3>2. \A i \in k..Len(order) : i = k \/ i \in (k + 1)..Len(order)
      BY <1>0, <2>2
    <3>3. \A m \in DOMAIN node' : \E i \in (k + 1)..Len(order) : m = order[i]
      BY <2>2, <3>1, <3>2
    <3>4. \A i \in (k + 1)..Len(order) : order[i] \in DOMAIN node'
      BY <2>4, <3>1
    <3>5. QED
      BY <3>3, <3>4, Zenon
  <2>6. \A m \in DOMAIN node' : m \in DOMAIN node /\ node'[m] = node[m]
    BY <2>1 DEF Freed
  <2>7. ASSUME NEW i \in (k + 1)..Len(order)
        PROVE  node'[order[i]].previous = IF i = Len(order) THEN NULL ELSE order[i + 1]
    <3>1. node[order[i]].previous = IF i = Len(order) THEN NULL ELSE order[i + 1]
      BY <1>1, <2>4 DEF LeftFrom
    <3>2. order[i] \in DOMAIN node'
      BY <2>5
    <3>3. QED
      BY <2>6, <3>1, <3>2
  <2>8. LeftFrom(k + 1)'
    BY <1>0, <2>1, <2>2, <2>3, <2>5, <2>7 DEF LeftFrom
  <2>9. Freeing'
    BY <1>2, <2>1, <2>4, <2>8 DEF Freeing
  <2>10. cursor' \in Nodes \cup {NULL}
    BY <1>9, <2>1, <2>2
  <2>11. DequeTypeOK'
    BY <1>9, <2>1, <2>6, <2>10
  <2>12. QED
    BY <1>0, <2>1, <2>9, <2>11 DEF DequeInv, Linked
<1>4. CASE FreeEnd
  <2>1. /\ cursor = NULL /\ head' = NULL /\ tail' = NULL /\ length' = 0 /\ order' = <<>>
        /\ state' = after /\ UNCHANGED <<node, cursor, after, result>>
    BY <1>4 DEF FreeEnd
  <2>2. k = Len(order) + 1
    <3>1. k \in 1..Len(order) => order[k] \in Nodes
      BY <1>0, ElementOfSeq
    <3>2. QED
      BY <1>0, <1>1, <2>1, <3>1, NullAssumption DEF LeftFrom
  <2>3. DOMAIN node = {}
    BY <1>0, <1>1, <2>2 DEF LeftFrom
  <2>4. order' \in Seq(Nodes) /\ Len(order') = 0 /\ 1..0 = {}
    BY <2>1, EmptySeq
  <2>5. DequeTypeOK'
    BY <1>9, <2>1, <2>4
  <2>6. Linked'
    BY <2>1, <2>3, <2>4, <2>5 DEF Linked
  <2>7. QED
    BY <1>9, <2>1, <2>6 DEF DequeInv, Freeing
<1>5. QED
  BY <1>3, <1>4

(* The invariant that is inductive: the list is linked as its order says,   *)
(* and inside a reset the nodes that are left run from the cursor to the    *)
(* tail.                                                                    *)
THEOREM DequeInductive == DequeSpec => []DequeInv
<1>1. DequeInit => DequeInv
  BY InitDeque
<1>2. DequeInv /\ [DequeNext]_dequevars => DequeInv'
  <2> SUFFICES ASSUME DequeInv, [DequeNext]_dequevars PROVE DequeInv'
    OBVIOUS
  <2>1. CASE Create \/ PushFail \/ PeekBack \/ PeekFront \/ Empty
    BY <2>1, QuietCalls
  <2>2. CASE \E n \in Nodes, v \in Values : PushBack(n, v) \/ PushFront(n, v)
    BY <2>2, Pushes
  <2>3. CASE PopBack \/ PopFront
    BY <2>3, Pops
  <2>4. CASE \E then \in {"ready", "none"} : Reset(then)
    BY <2>4, Resets
  <2>5. CASE FreeNode \/ FreeEnd
    BY <2>5, FreeSteps
  <2>6. CASE UNCHANGED dequevars
    <3>1. UNCHANGED <<node, head, tail, length, order, state, cursor, after, result>>
      BY <2>6 DEF dequevars, links, reset
    <3>2. Linked'
      BY <3>1 DEF DequeInv, Linked, DequeTypeOK
    <3>3. \A k : LeftFrom(k)' <=> LeftFrom(k)
      BY <3>1 DEF LeftFrom
    <3>4. Freeing'
      BY <3>1, <3>3 DEF DequeInv, Freeing
    <3>5. QED
      BY <3>1, <3>2, <3>4 DEF DequeInv
  <2>7. QED
    BY <2>1, <2>2, <2>3, <2>4, <2>5, <2>6 DEF DequeNext
<1>3. QED
  BY <1>1, <1>2, PTL DEF DequeSpec

(* Following previous from the head, or next from the tail, visits exactly  *)
(* the elements in their order, and no other node is allocated: after every *)
(* push, pop and reset of any length of list.                               *)
THEOREM LinkedHolds == DequeSpec => []Linked
<1>1. DequeInv => Linked
  BY DEF DequeInv
<1>2. QED
  BY <1>1, DequeInductive, PTL

(* internal_free_nodes reads the next node out of a node that is still      *)
(* allocated, and so frees none twice.                                      *)
THEOREM NoUseAfterFreeHolds == DequeSpec => []NoUseAfterFree
<1>1. DequeInv => NoUseAfterFree
  <2> SUFFICES ASSUME DequeInv, state = "freeing", cursor # NULL PROVE cursor \in DOMAIN node
    BY DEF NoUseAfterFree
  <2>1. order \in Seq(Nodes) /\ Len(order) \in Nat
    BY DEF DequeInv, Linked, DequeTypeOK
  <2>2. PICK k \in 1..(Len(order) + 1) : LeftFrom(k)
    BY DEF DequeInv, Freeing
  <2>3. k \in k..Len(order) /\ cursor = order[k]
    BY <2>1, <2>2 DEF LeftFrom
  <2>4. QED
    BY <2>2, <2>3 DEF LeftFrom
<1>2. QED
  BY <1>1, DequeInductive, PTL
-----------------------------------------------------------------------------
(* The refinement: the elements of the list are the abstract sequence.      *)
Elements(heap, nodes) == [i \in 1..Len(nodes) |-> heap[nodes[i]].data]

LEMMA ElementsAre ==
  ASSUME NEW heap, NEW S, NEW nodes \in Seq(S),
         \A i \in 1..Len(nodes) : heap[nodes[i]].data \in Values
  PROVE  /\ Elements(heap, nodes) \in Seq(Values)
         /\ Len(Elements(heap, nodes)) = Len(nodes)
         /\ \A i \in 1..Len(nodes) : Elements(heap, nodes)[i] = heap[nodes[i]].data
<1>1. Len(nodes) \in Nat
  OBVIOUS
<1>2. Elements(heap, nodes) \in [1..Len(nodes) -> Values]
  BY DEF Elements
<1>3. Elements(heap, nodes) \in Seq(Values) /\ Len(Elements(heap, nodes)) = Len(nodes)
  BY <1>1, <1>2, LenProperties, SeqDef
<1>4. QED
  BY <1>3 DEF Elements

LEMMA ContentsAre ==
  ASSUME DequeInv, state # "freeing"
  PROVE  /\ order \in Seq(Nodes) /\ Len(order) = length /\ length \in Nat
         /\ \A i \in 1..length : order[i] \in DOMAIN node /\ node[order[i]] \in Fields
         /\ Contents = Elements(node, order) /\ Contents \in Seq(Values)
         /\ Len(Contents) = length
         /\ \A i \in 1..length : Contents[i] = node[order[i]].data
<1>1. /\ order \in Seq(Nodes) /\ Len(order) = length /\ length \in Nat
      /\ \A i \in 1..length : order[i] \in DOMAIN node /\ node[order[i]] \in Fields
  BY DEF DequeInv, Linked, DequeTypeOK, Fields
<1>2. Contents = Elements(node, order)
  BY DEF Contents, Elements
<1>3. \A i \in 1..Len(order) : node[order[i]].data \in Values
  BY <1>1 DEF Fields
<1>4. QED
  BY <1>1, <1>2, <1>3, ElementsAre

LEMMA ContentsNext ==
  ASSUME DequeInv', state' # "freeing"
  PROVE  /\ Contents' = Elements(node', order') /\ Contents' \in Seq(Values)
         /\ Len(Contents') = Len(order')
         /\ \A i \in 1..Len(order') : Contents'[i] = node'[order'[i]].data
<1>1. /\ order' \in Seq(Nodes) /\ Len(order') = length' /\ length' \in Nat
      /\ \A i \in 1..length' : order'[i] \in DOMAIN node' /\ node'[order'[i]] \in Fields
  BY DEF DequeInv, Linked, DequeTypeOK, Fields
<1>2. Contents' = Elements(node', order')
  BY DEF Contents, Elements
<1>3. \A i \in 1..Len(order') : node'[order'[i]].data \in Values
  BY <1>1 DEF Fields
<1>4. QED
  BY <1>1, <1>2, <1>3, ElementsAre

LEMMA NoElements == ASSUME NEW heap PROVE Elements(heap, <<>>) = <<>>
<1>1. <<>> \in Seq(Values) /\ Len(<<>>) = 0 /\ <<>> \in Seq(Nodes) /\ 1..0 = {}
  BY EmptySeq
<1>2. Elements(heap, <<>>) \in Seq(Values) /\ Len(Elements(heap, <<>>)) = 0
  <2>1. \A i \in 1..Len(<<>>) : heap[<<>>[i]].data \in Values
    BY <1>1
  <2>2. QED
    BY <1>1, <2>1, ElementsAre
<1>3. QED
  BY <1>1, <1>2, SeqEqual

LEMMA PushBackKept ==
  ASSUME DequeInv, NEW n \in Nodes, NEW v \in Values, PushBack(n, v)
  PROVE  Abstract!PushBack(v)
<1>1. state = "ready" /\ state' = "ready" /\ DequeInv' /\ result' = Returned(0, NoData)
      /\ n \notin DOMAIN node
  BY Pushes DEF PushBack, reset
<1>2. /\ order' \in Seq(Nodes) /\ Len(order') = Len(order) + 1 /\ order'[Len(order) + 1] = n
      /\ \A i \in 1..Len(order) : order'[i] = order[i]
      /\ node'[n] = Node(NULL, tail, v)
      /\ \A m \in DOMAIN node :
           node'[m] = IF m = tail THEN [node[m] EXCEPT !.previous = n] ELSE node[m]
  BY PushBackResult
<1>3. ASSUME NEW i \in 1..Len(order) PROVE node'[order'[i]].data = node[order[i]].data
  <2>1. order[i] \in DOMAIN node /\ node[order[i]] \in Fields
    BY <1>1, ContentsAre
  <2>2. node'[order'[i]] = IF order[i] = tail THEN [node[order[i]] EXCEPT !.previous = n] ELSE node[order[i]]
    BY <1>2, <2>1
  <2>3. [node[order[i]] EXCEPT !.previous = n].data = node[order[i]].data
    BY <2>1 DEF Fields
  <2>4. QED
    BY <2>2, <2>3
<1>4. node'[order'[Len(order) + 1]].data = v
  BY <1>2 DEF Node
<1>5. /\ Append(Contents, v) \in Seq(Values) /\ Len(Append(Contents, v)) = Len(order')
      /\ \A i \in 1..Len(order) : Append(Contents, v)[i] = node[order[i]].data
      /\ Append(Contents, v)[Len(order) + 1] = v
  BY <1>1, <1>2, ContentsAre, AppendProperties
<1>6. Contents' = Append(Contents, v)
  <2>1. \A i \in 1..Len(order') : i \in 1..Len(order) \/ i = Len(order) + 1
    BY <1>1, <1>2, ContentsAre
  <2>2. \A i \in 1..Len(order') : Contents'[i] = Append(Contents, v)[i]
    BY <1>1, <1>3, <1>4, <1>5, <2>1, ContentsNext
  <2>3. QED
    BY <1>1, <1>5, <2>2, ContentsNext, SeqEqual
<1>7. QED
  BY <1>1, <1>6 DEF Abstract!PushBack, Abstract!Returned, Returned

LEMMA PushFrontKept ==
  ASSUME DequeInv, NEW n \in Nodes, NEW v \in Values, PushFront(n, v)
  PROVE  Abstract!PushFront(v)
<1>1. state = "ready" /\ state' = "ready" /\ DequeInv' /\ result' = Returned(0, NoData)
      /\ n \notin DOMAIN node
  BY Pushes DEF PushFront, reset
<1>2. /\ order' \in Seq(Nodes) /\ Len(order') = Len(order) + 1 /\ order'[1] = n
      /\ \A i \in 1..Len(order) : order'[i + 1] = order[i]
      /\ node'[n] = Node(head, NULL, v)
      /\ \A m \in DOMAIN node :
           node'[m] = IF m = head THEN [node[m] EXCEPT !.next = n] ELSE node[m]
  BY PushFrontResult
<1>3. ASSUME NEW i \in 1..Len(order) PROVE node'[order'[i + 1]].data = node[order[i]].data
  <2>1. order[i] \in DOMAIN node /\ node[order[i]] \in Fields
    BY <1>1, ContentsAre
  <2>2. node'[order'[i + 1]] = IF order[i] = head THEN [node[order[i]] EXCEPT !.next = n] ELSE node[order[i]]
    BY <1>2, <2>1
  <2>3. [node[order[i]] EXCEPT !.next = n].data = node[order[i]].data
    BY <2>1 DEF Fields
  <2>4. QED
    BY <2>2, <2>3
<1>4. node'[order'[1]].data = v
  BY <1>2 DEF Node
<1>5. /\ <<v>> \o Contents \in Seq(Values) /\ Len(<<v>> \o Contents) = Len(order')
      /\ \A i \in 1..Len(order) : (<<v>> \o Contents)[i + 1] = node[order[i]].data
      /\ (<<v>> \o Contents)[1] = v
  <2>1. <<v>> \in Seq(Values) /\ Len(<<v>>) = 1 /\ <<v>>[1] = v
    OBVIOUS
  <2>2. QED
    BY <1>1, <1>2, <2>1, ContentsAre, ConcatProperties
<1>6. Contents' = <<v>> \o Contents
  <2>1. \A i \in 1..Len(order') : i = 1 \/ (i - 1 \in 1..Len(order) /\ i = (i - 1) + 1)
    BY <1>1, <1>2, ContentsAre
  <2>2. \A i \in 1..Len(order') : Contents'[i] = (<<v>> \o Contents)[i]
    <3>1. \A i \in 1..Len(order') : Contents'[i] = node'[order'[i]].data
      BY <1>1, ContentsNext
    <3>2. QED
      BY <1>3, <1>4, <1>5, <2>1, <3>1
  <2>3. QED
    BY <1>1, <1>5, <2>2, ContentsNext, SeqEqual
<1>7. QED
  BY <1>1, <1>6 DEF Abstract!PushFront, Abstract!Returned, Returned

LEMMA PopBackKept ==
  ASSUME DequeInv, PopBack
  PROVE  Abstract!PopBack
<1>1. /\ state = "ready" /\ state' = "ready" /\ DequeInv'
      /\ result' \in {Returned(0, node[tail].data), Returned(0, NoData)}
  BY Pops DEF PopBack, reset, Popped
<1>2. /\ order' \in Seq(Nodes) /\ Len(order') = Len(order) - 1 /\ length = Len(order)
      /\ length > 0 /\ tail = order[length]
      /\ \A i \in 1..Len(order') : order'[i] = order[i]
      /\ \A m \in DOMAIN node' :
           node'[m] = IF m = node[tail].next THEN [node[m] EXCEPT !.previous = NULL] ELSE node[m]
  BY PopBackResult
<1>3. length \in Nat /\ Len(order') \in Nat
  BY <1>1, <1>2, ContentsAre
<1>4. \A i \in 1..Len(order') : i \in 1..length /\ order'[i] \in DOMAIN node'
  BY <1>1, <1>2, <1>3 DEF DequeInv, Linked
<1>5. ASSUME NEW i \in 1..Len(order') PROVE node'[order'[i]].data = node[order[i]].data
  <2>1. node[order[i]] \in Fields
    BY <1>1, <1>4, ContentsAre
  <2>2. QED
    BY <1>2, <1>4, <2>1 DEF Fields
<1>6. /\ Len(Contents) = length /\ Contents[length] = node[tail].data /\ Contents # <<>>
      /\ Contents \in Seq(Values) /\ \A i \in 1..length : Contents[i] = node[order[i]].data
  BY <1>1, <1>2, <1>3, ContentsAre, EmptySeq
<1>7. /\ SubSeq(Contents, 1, length - 1) \in Seq(Values)
      /\ Len(SubSeq(Contents, 1, length - 1)) = Len(order')
      /\ \A i \in 1..Len(order') : SubSeq(Contents, 1, length - 1)[i] = node[order[i]].data
  <2>1. \A i \in 1..(length - 1) : Contents[i] \in Values
    BY <1>3, <1>6, ElementOfSeq
  <2>2. /\ SubSeq(Contents, 1, length - 1) \in Seq(Values)
        /\ Len(SubSeq(Contents, 1, length - 1)) = Len(order')
        /\ \A i \in 1..Len(order') : SubSeq(Contents, 1, length - 1)[i] = Contents[i]
    BY <1>2, <1>3, <2>1, SubSeqProperties
  <2>3. QED
    BY <1>4, <1>6, <2>2
<1>8. Contents' = SubSeq(Contents, 1, length - 1)
  <2>1. /\ Contents' \in Seq(Values) /\ Len(Contents') = Len(order')
        /\ \A i \in 1..Len(order') : Contents'[i] = node'[order'[i]].data
    BY <1>1, ContentsNext
  <2>2. \A i \in 1..Len(Contents') : Contents'[i] = SubSeq(Contents, 1, length - 1)[i]
    BY <1>5, <1>7, <2>1
  <2>3. QED
    BY <1>7, <2>1, <2>2, SeqEqual
<1>9. QED
  BY <1>1, <1>6, <1>8 DEF Abstract!PopBack, Abstract!Popped, Abstract!Returned, Returned

LEMMA PopFrontKept ==
  ASSUME DequeInv, PopFront
  PROVE  Abstract!PopFront
<1>1. /\ state = "ready" /\ state' = "ready" /\ DequeInv'
      /\ result' \in {Returned(0, node[head].data), Returned(0, NoData)}
  BY Pops DEF PopFront, reset, Popped
<1>2. /\ order' \in Seq(Nodes) /\ Len(order') = Len(order) - 1 /\ length = Len(order)
      /\ length > 0 /\ head = order[1]
      /\ \A i \in 1..Len(order') : order'[i] = order[i + 1]
      /\ \A m \in DOMAIN node' :
           node'[m] = IF m = node[head].previous THEN [node[m] EXCEPT !.next = NULL] ELSE node[m]
  BY PopFrontResult
<1>3. length \in Nat /\ Len(order') \in Nat
  BY <1>1, <1>2, ContentsAre
<1>4. \A i \in 1..Len(order') : i + 1 \in 1..length /\ order'[i] \in DOMAIN node'
  BY <1>1, <1>2, <1>3 DEF DequeInv, Linked
<1>5. ASSUME NEW i \in 1..Len(order') PROVE node'[order'[i]].data = node[order[i + 1]].data
  <2>1. node[order[i + 1]] \in Fields
    BY <1>1, <1>4, ContentsAre
  <2>2. QED
    BY <1>2, <1>4, <2>1 DEF Fields
<1>6. /\ Len(Contents) = length /\ Contents[1] = node[head].data /\ Contents # <<>>
      /\ Contents \in Seq(Values) /\ \A i \in 1..length : Contents[i] = node[order[i]].data
  BY <1>1, <1>2, <1>3, ContentsAre, EmptySeq
<1>7. /\ SubSeq(Contents, 2, length) \in Seq(Values)
      /\ Len(SubSeq(Contents, 2, length)) = Len(order')
      /\ \A i \in 1..Len(order') : SubSeq(Contents, 2, length)[i] = node[order[i + 1]].data
  <2>1. \A i \in 2..length : Contents[i] \in Values
    BY <1>3, <1>6, ElementOfSeq
  <2>2. /\ SubSeq(Contents, 2, length) \in Seq(Values)
        /\ Len(SubSeq(Contents, 2, length)) = Len(order')
        /\ \A i \in 1..Len(order') : SubSeq(Contents, 2, length)[i] = Contents[i + 1]
    BY <1>2, <1>3, <2>1, SubSeqProperties
  <2>3. QED
    BY <1>4, <1>6, <2>2
<1>8. Contents' = SubSeq(Contents, 2, length)
  <2>1. /\ Contents' \in Seq(Values) /\ Len(Contents') = Len(order')
        /\ \A i \in 1..Len(order') : Contents'[i] = node'[order'[i]].data
    BY <1>1, ContentsNext
  <2>2. \A i \in 1..Len(Contents') : Contents'[i] = SubSeq(Contents, 2, length)[i]
    BY <1>5, <1>7, <2>1
  <2>3. QED
    BY <1>7, <2>1, <2>2, SeqEqual
<1>9. QED
  BY <1>1, <1>6, <1>8 DEF Abstract!PopFront, Abstract!Popped, Abstract!Returned, Returned

LEMMA OthersKept ==
  ASSUME DequeInv
  PROVE  /\ PeekBack => Abstract!PeekBack
         /\ PeekFront => Abstract!PeekFront
         /\ PushFail \/ Empty => Abstract!Fail
         /\ Create => Abstract!Clear
         /\ \A then \in {"ready", "none"} : Reset(then) => Abstract!Clear
         /\ FreeNode \/ FreeEnd => UNCHANGED <<Contents, result>>
<1>1. ASSUME state = "ready", length # 0
      PROVE  /\ Contents # <<>> /\ Contents[Len(Contents)] = node[tail].data
             /\ Contents[1] = node[head].data
  <2>1. Len(Contents) = length /\ length \in 1..length /\ 1 \in 1..length
    BY <1>1, ContentsAre
  <2>2. tail = order[length] /\ head = order[1]
    BY <1>1 DEF DequeInv, Linked
  <2>3. QED
    BY <1>1, <2>1, <2>2, ContentsAre, EmptySeq
<1>2. ASSUME UNCHANGED <<links, reset>> PROVE UNCHANGED Contents
  BY <1>2 DEF links, reset, Contents
<1>3. ASSUME order' = <<>>, state' # "freeing" PROVE Contents' = <<>>
  <2>1. Contents' = Elements(node', <<>>)
    BY <1>3 DEF Contents, Elements
  <2>2. QED
    BY <2>1, NoElements
<1>4. ASSUME state # "freeing", length = 0 PROVE order = <<>>
  BY <1>4, EmptySeq DEF DequeInv, Linked, DequeTypeOK
<1>5. PeekBack => Abstract!PeekBack
  BY <1>1, <1>2 DEF PeekBack, Abstract!PeekBack, Abstract!Returned, Returned
<1>6. PeekFront => Abstract!PeekFront
  BY <1>1, <1>2 DEF PeekFront, Abstract!PeekFront, Abstract!Returned, Returned
<1>7. PushFail \/ Empty => Abstract!Fail
  BY <1>2 DEF PushFail, Empty, Abstract!Fail, Abstract!Returned, Returned
<1>8. Create => Abstract!Clear
  <2>1. ASSUME Create PROVE order' = <<>> /\ state' # "freeing" /\ result' = Returned(0, NoData)
    BY <1>4, <2>1 DEF Create, DequeInv
  <2>2. QED
    BY <1>3, <2>1 DEF Abstract!Clear, Abstract!Returned, Returned
<1>9. ASSUME NEW then \in {"ready", "none"}, Reset(then) PROVE Abstract!Clear
  <2>1. result' = Returned(0, NoData) /\ Contents' = <<>>
    <3>1. CASE length # 0
      BY <1>9, <3>1 DEF Reset, Contents
    <3>2. CASE length = 0
      <4>1. state' = then /\ state = "ready" /\ order' = order /\ result' = Returned(0, NoData)
        BY <1>9, <3>2 DEF Reset, links
      <4>2. QED
        BY <1>3, <1>4, <3>2, <4>1
    <3>3. QED
      BY <3>1, <3>2
  <2>2. QED
    BY <2>1 DEF Abstract!Clear, Abstract!Returned, Returned
<1>10. FreeNode => UNCHANGED <<Contents, result>>
  BY DEF FreeNode, Contents
<1>11. FreeEnd => UNCHANGED <<Contents, result>>
  <2> SUFFICES ASSUME FreeEnd PROVE UNCHANGED <<Contents, result>>
    OBVIOUS
  <2>1. Contents = <<>> /\ order' = <<>> /\ result' = result
    BY DEF FreeEnd, Contents
  <2>2. state' # "freeing"
    BY DEF FreeEnd, DequeInv, Linked, DequeTypeOK
  <2>3. QED
    BY <1>3, <2>1, <2>2
<1>12. QED
  BY <1>5, <1>6, <1>7, <1>8, <1>9, <1>10, <1>11

(* The linked list does to its elements what a sequence that is extended    *)
(* and shortened at both ends does, call by call: each operation of         *)
(* Dequeue.c is the operation of Dequeue.h of the same name, returns the    *)
(* code and the value that one returns, and the turns of the freeing loop   *)
(* are invisible.                                                           *)
THEOREM DequeueImplements == DequeSpec => ImplementsDeque
<1>1. DequeInit => Abstract!Init
  <2> SUFFICES ASSUME DequeInit PROVE Abstract!Init
    OBVIOUS
  <2>1. Contents = Elements(node, <<>>) /\ result = Returned(0, NoData)
    BY DEF DequeInit, Contents, Elements
  <2>2. QED
    BY <2>1, NoElements DEF Abstract!Init, Abstract!Returned, Returned
<1>2. DequeInv => CallsKept
  BY PushBackKept, PushFrontKept, PopBackKept, PopFrontKept, OthersKept DEF CallsKept
<1>3. DequeInv /\ [DequeNext]_dequevars => [Abstract!Next]_(Abstract!vars)
  <2> SUFFICES ASSUME DequeInv, [DequeNext]_dequevars PROVE [Abstract!Next]_(Abstract!vars)
    OBVIOUS
  <2>1. CASE UNCHANGED dequevars
    BY <2>1 DEF dequevars, links, reset, Contents, Abstract!vars
  <2>2. CASE FreeNode \/ FreeEnd
    BY <2>2, OthersKept DEF Abstract!vars
  <2>3. CASE \E n \in Nodes, v \in Values : PushBack(n, v) \/ PushFront(n, v)
    BY <2>3, PushBackKept, PushFrontKept DEF Abstract!Next
  <2>4. CASE PopBack \/ PopFront \/ PeekBack \/ PeekFront \/ PushFail \/ Empty
    BY <2>4, PopBackKept, PopFrontKept, OthersKept DEF Abstract!Next
  <2>5. CASE Create \/ \E then \in {"ready", "none"} : Reset(then)
    BY <2>5, OthersKept DEF Abstract!Next
  <2>6. QED
    BY <2>1, <2>2, <2>3, <2>4, <2>5 DEF DequeNext
<1>4. QED
  BY <1>1, <1>2, <1>3, DequeInductive, PTL DEF DequeSpec, Abstract!Spec, ImplementsDeque
-----------------------------------------------------------------------------
(* What sort_heap asks of its caller, see the runs HeapOffset and           *)
(* HeapSingle: the key comes first, and there are two elements or more.     *)
KeyFirst == Offset = 0
Sortable == \A n \in Lengths : n >= 2 /\ n * Width < WORD \div 2

USE LayoutAssumption

(* Where element i begins. *)
Adr(i) == i * Width

LEMMA AdrNat == ASSUME NEW i \in Nat PROVE Adr(i) \in Nat
BY DEF Adr

LEMMA AdrLess ==
  ASSUME NEW i \in Nat, NEW j \in Nat, i < j
  PROVE  Adr(i) + Width <= Adr(j)
<1> DEFINE d == j - (i + 1)
<1>1. d \in Nat /\ j = i + 1 + d
  OBVIOUS
<1>2. d * Width \in Nat /\ j * Width = i * Width + Width + d * Width
  BY <1>1
<1> HIDE DEF d
<1>3. QED
  BY <1>2 DEF Adr

LEMMA AdrAtMost ==
  ASSUME NEW i \in Nat, NEW j \in Nat
  PROVE  (Adr(i) <= Adr(j) <=> i <= j) /\ (Adr(i) = Adr(j) <=> i = j)
<1>1. Adr(i) \in Nat /\ Adr(j) \in Nat /\ Width > 0
  BY AdrNat
<1>2. (i < j => Adr(i) + Width <= Adr(j)) /\ (j < i => Adr(j) + Width <= Adr(i))
  BY AdrLess
<1>3. QED
  BY <1>1, <1>2

LEMMA AdrSteps ==
  ASSUME NEW i \in Nat
  PROVE  /\ Adr(0) = 0 /\ Adr(i + 1) = Adr(i) + Width
         /\ Adr(2 * i + 1) = 2 * Adr(i) + Width
         /\ Adr(2 * i + 2) = 2 * Adr(i) + Width + Width
<1>1. \A w \in Nat : /\ 0 * w = 0 /\ (i + 1) * w = i * w + w
                     /\ (2 * i + 1) * w = 2 * (i * w) + w
                     /\ (2 * i + 2) * w = 2 * (i * w) + w + w
  OBVIOUS
<1>2. QED
  BY <1>1 DEF Adr

LEMMA AdrDiv == ASSUME NEW i \in Nat PROVE Adr(i) \div Width = i
BY DEF Adr

(* Which word of which element an address is. *)
LEMMA AdrWord ==
  ASSUME NEW i \in Nat, NEW j \in Nat, NEW w \in 0..(Width - 1)
  PROVE  Adr(i) + w \in Adr(j)..(Adr(j) + Width - 1) <=> i = j
<1>1. Adr(i) \in Nat /\ Adr(j) \in Nat
  BY AdrNat
<1>2. (i < j => Adr(i) + Width <= Adr(j)) /\ (j < i => Adr(j) + Width <= Adr(i))
  BY AdrLess
<1>3. CASE i = j
  BY <1>1, <1>3
<1>4. CASE i < j
  BY <1>1, <1>2, <1>4
<1>5. CASE j < i
  BY <1>1, <1>2, <1>5
<1>6. QED
  BY <1>3, <1>4, <1>5
-----------------------------------------------------------------------------
(* Heaps of keys, k[i] being the key of node i. *)
Par(i) == (i - 1) \div 2

LEMMA ParIs ==
  ASSUME NEW i \in Nat \ {0}
  PROVE  /\ Par(i) \in Nat /\ Par(i) < i
         /\ i = 2 * Par(i) + 1 \/ i = 2 * Par(i) + 2
         /\ \A j \in Nat : i = 2 * j + 1 \/ i = 2 * j + 2 => Par(i) = j
BY DEF Par

(* The heap of the nodes up to l, of which those before s have not been     *)
(* looked at and r, if it is a node, is being sifted down.                  *)
Heap(k, s, l, r) ==
  \A i \in 1..l :
    /\ Par(i) >= s /\ Par(i) # r => k[Par(i)] >= k[i]
    /\ Par(i) = r /\ r > 0 /\ Par(r) >= s => k[Par(r)] >= k[i]

(* Every node behind l has the largest key of those up to itself. *)
SortedBehind(k, l, n) == \A j \in (l + 1)..(n - 1) : \A i \in 0..j : k[i] <= k[j]

Turned(x, i, j) == IF x = i THEN j ELSE IF x = j THEN i ELSE x
Transposed(k, i, j) == [x \in DOMAIN k |-> k[Turned(x, i, j)]]

LEMMA HeapDescend ==
  ASSUME NEW n \in Nat, NEW k \in [0..(n - 1) -> Int], NEW l \in 0..(n - 1), NEW s \in Nat,
         NEW r \in s..l, NEW c \in 1..l, Par(c) = r, Heap(k, s, l, r),
         k[c] > k[r], \A i \in 1..l : Par(i) = r => k[c] >= k[i]
  PROVE  Heap(Transposed(k, r, c), s, l, c)
<1> DEFINE q == Transposed(k, r, c)
<1>1. /\ r \in Nat /\ r < c /\ r \in 0..(n - 1) /\ c \in 0..(n - 1) /\ c # r
      /\ \A x \in 0..(n - 1) : k[x] \in Int
  BY ParIs
<1>2. /\ q[r] = k[c] /\ q[c] = k[r]
      /\ \A x \in 0..(n - 1) : x # r /\ x # c => q[x] = k[x]
  BY <1>1 DEF Transposed, Turned
<1> HIDE DEF q
<1>3. ASSUME NEW i \in 1..l
      PROVE  /\ Par(i) >= s /\ Par(i) # c => q[Par(i)] >= q[i]
             /\ Par(i) = c /\ c > 0 /\ Par(c) >= s => q[Par(c)] >= q[i]
  <2>1. i \in 0..(n - 1) /\ Par(i) \in 0..(n - 1) /\ Par(i) < i
    BY ParIs
  <2>2. r > 0 => Par(r) \in 0..(n - 1) /\ Par(r) < r
    BY <1>1, ParIs
  <2>3. /\ Par(i) >= s /\ Par(i) # r => k[Par(i)] >= k[i]
        /\ r > 0 /\ Par(r) >= s => k[Par(r)] >= k[c]
    BY DEF Heap
  <2>4. CASE i = c
    BY <1>1, <1>2, <2>4
  <2>5. CASE i = r
    BY <1>1, <1>2, <2>1, <2>2, <2>3, <2>5
  <2>6. CASE i # c /\ i # r
    BY <1>1, <1>2, <2>1, <2>3, <2>6
  <2>7. QED
    BY <2>4, <2>5, <2>6
<1>4. QED
  BY <1>3 DEF Heap, q

LEMMA HeapSettle ==
  ASSUME NEW k, NEW s \in Nat, NEW l \in Nat, NEW r \in Nat, Heap(k, s, l, r),
         \A i \in 1..l : Par(i) = r => k[r] >= k[i]
  PROVE  Heap(k, s, l, -1)
<1>1. \A i \in 1..l : Par(i) \in Nat
  BY ParIs
<1>2. QED
  BY <1>1 DEF Heap

LEMMA HeapBuild ==
  ASSUME NEW k, NEW s \in Nat \ {0}, NEW l \in Nat, Heap(k, s, l, -1)
  PROVE  Heap(k, s - 1, l, s - 1)
<1>1. \A i \in 1..l : Par(i) \in Nat
  BY ParIs
<1>2. s - 1 \in Nat /\ (s - 1 > 0 => Par(s - 1) < s - 1)
  BY ParIs
<1>3. \A i \in 1..l : Par(i) >= s => k[Par(i)] >= k[i]
  BY <1>1 DEF Heap
<1>4. \A i \in 1..l : Par(i) >= s - 1 /\ Par(i) # s - 1 => Par(i) >= s
  BY <1>1
<1>5. ~(s - 1 > 0 /\ Par(s - 1) >= s - 1)
  <2>1. CASE s - 1 > 0
    <3>1. Par(s - 1) \in Nat /\ Par(s - 1) < s - 1
      BY <2>1, ParIs
    <3>2. QED
      BY <3>1
  <2>2. QED
    BY <2>1
<1>6. QED
  BY <1>3, <1>4, <1>5 DEF Heap

LEMMA HeapExtract ==
  ASSUME NEW n \in Nat, NEW k \in [0..(n - 1) -> Int], NEW l \in 1..(n - 1), Heap(k, 0, l, -1)
  PROVE  Heap(Transposed(k, l, 0), 0, l - 1, 0)
<1> DEFINE q == Transposed(k, l, 0)
<1>1. \A x \in 0..(n - 1) : x # 0 /\ x # l => q[x] = k[x]
  BY DEF Transposed, Turned
<1> HIDE DEF q
<1>2. ASSUME NEW i \in 1..(l - 1), Par(i) # 0 PROVE q[Par(i)] >= q[i]
  <2>1. Par(i) \in 1..(n - 1) /\ Par(i) < l /\ i \in 1..(n - 1)
    BY <1>2, ParIs
  <2>2. k[Par(i)] >= k[i]
    BY <2>1 DEF Heap
  <2>3. QED
    BY <1>1, <2>1, <2>2
<1>3. QED
  BY <1>2 DEF Heap, q

(* The root of a whole heap is the largest. *)
LEMMA RootLargest ==
  ASSUME NEW n \in Nat, NEW k \in [0..(n - 1) -> Int], NEW l \in 0..(n - 1), Heap(k, 0, l, -1)
  PROVE  \A i \in 0..l : k[0] >= k[i]
<1> DEFINE T == {i \in Nat : i <= l /\ ~(k[0] >= k[i])}
<1>1. SUFFICES ASSUME T # {} PROVE FALSE
  OBVIOUS
<1>2. PICK i \in T : \A j \in T : <<j, i>> \notin OpToRel(<, Nat)
  BY <1>1, NatLessThanWellFounded, WFMin, Zenon
<1>3. i \in 1..l /\ ~(k[0] >= k[i]) /\ i \in 0..(n - 1) /\ 0 \in 0..(n - 1)
  <2>1. i \in Nat /\ i <= l /\ ~(k[0] >= k[i]) /\ k[0] \in Int
    OBVIOUS
  <2>2. i # 0
    BY <2>1
  <2>3. QED
    BY <2>1, <2>2
<1>4. Par(i) \in 0..l /\ Par(i) < i /\ Par(i) \in 0..(n - 1)
  BY <1>3, ParIs
<1>5. k[Par(i)] >= k[i]
  BY <1>3, <1>4 DEF Heap
<1>6. k[0] >= k[Par(i)]
  <2>1. \A j \in T : ~(j < i)
    BY <1>2 DEF OpToRel
  <2>2. QED
    BY <1>4, <2>1
<1>7. QED
  BY <1>3, <1>4, <1>5, <1>6

(* Exchanging two nodes up to l changes nothing behind l. *)
LEMMA BehindTransposed ==
  ASSUME NEW n \in Nat, NEW k \in [0..(n - 1) -> Int], NEW l \in 0..(n - 1),
         NEW a \in 0..l, NEW b \in 0..l, SortedBehind(k, l, n)
  PROVE  SortedBehind(Transposed(k, a, b), l, n)
<1>1. ASSUME NEW j \in (l + 1)..(n - 1), NEW i \in 0..j
      PROVE  Transposed(k, a, b)[i] <= Transposed(k, a, b)[j]
  <2>1. Turned(i, a, b) \in 0..j /\ Turned(j, a, b) = j
    BY DEF Turned
  <2>2. QED
    BY <2>1 DEF SortedBehind, Transposed
<1>2. QED
  BY <1>1 DEF SortedBehind

LEMMA BehindExtract ==
  ASSUME NEW n \in Nat, NEW k \in [0..(n - 1) -> Int], NEW l \in 1..(n - 1), Heap(k, 0, l, -1),
         SortedBehind(k, l, n)
  PROVE  SortedBehind(Transposed(k, l, 0), l - 1, n)
<1> DEFINE q == Transposed(k, l, 0)
<1>1. SortedBehind(q, l, n)
  BY BehindTransposed
<1>2. ASSUME NEW i \in 0..l PROVE q[i] <= q[l]
  <2>1. Turned(i, l, 0) \in 0..l /\ Turned(l, l, 0) = 0
    BY DEF Turned
  <2>2. k[0] >= k[Turned(i, l, 0)] /\ k[0] \in Int /\ k[Turned(i, l, 0)] \in Int
    BY <2>1, RootLargest
  <2>3. QED
    BY <2>1, <2>2 DEF Transposed
<1> HIDE DEF q
<1>3. QED
  BY <1>1, <1>2 DEF SortedBehind, q
-----------------------------------------------------------------------------
(* The array as its elements and as their keys. *)
KeysOf(m, n) == [i \in 0..(n - 1) |-> m[Adr(i)]]
ElementOf(m, i) == [w \in 0..(Width - 1) |-> m[Adr(i) + w]]
ElementsOf(m, n) == {ElementOf(m, i) : i \in 0..(n - 1)}
Arrays(n) == [0..(Adr(n) - 1) -> Int]

LEMMA WordIn ==
  ASSUME NEW n \in Nat, NEW i \in 0..(n - 1), NEW w \in 0..(Width - 1)
  PROVE  Adr(i) + w \in 0..(Adr(n) - 1)
<1>1. Adr(i) \in Nat /\ Adr(n) \in Nat /\ Adr(i) + Width <= Adr(n)
  BY AdrNat, AdrLess
<1>2. QED
  BY <1>1

LEMMA KeysTyped == ASSUME NEW n \in Nat, NEW m \in Arrays(n) PROVE KeysOf(m, n) \in [0..(n - 1) -> Int]
<1>1. ASSUME NEW i \in 0..(n - 1) PROVE m[Adr(i)] \in Int
  <2>1. Adr(i) + 0 \in 0..(Adr(n) - 1) /\ Adr(i) \in Nat
    BY WordIn, AdrNat
  <2>2. Adr(i) \in 0..(Adr(n) - 1)
    BY <2>1
  <2>3. QED
    BY <2>2 DEF Arrays
<1>2. QED
  BY <1>1 DEF KeysOf

(* A swap exchanges two elements, word by word, and tears none. *)
LEMMA SwapWords ==
  ASSUME KeyFirst, NEW n \in Nat, NEW m \in Arrays(n),
         NEW i \in 0..(n - 1), NEW j \in 0..(n - 1), i # j
  PROVE  /\ Swapped(m, Adr(i), Adr(j)) \in Arrays(n)
         /\ \A x \in 0..(n - 1), w \in 0..(Width - 1) :
              Swapped(m, Adr(i), Adr(j))[Adr(x) + w] = m[Adr(Turned(x, i, j)) + w]
<1> DEFINE a == Adr(i)
           b == Adr(j)
           q == Swapped(m, a, b)
<1>1. /\ DOMAIN q = 0..(Adr(n) - 1) /\ DOMAIN m = 0..(Adr(n) - 1)
      /\ \A w \in 0..(Adr(n) - 1) : q[w] = CASE w \in a..(a + Width - 1) -> m[w - a + b]
                                          [] w \in b..(b + Width - 1) -> m[w - b + a]
                                          [] OTHER -> m[w]
  <2>1. a - Offset = a /\ b - Offset = b
    BY AdrNat DEF KeyFirst
  <2>2. QED
    BY <2>1 DEF Swapped, Arrays
<1>2. \A w \in 0..(Adr(n) - 1) :
        /\ w \in a..(a + Width - 1) => q[w] = m[w - a + b]
        /\ w \notin a..(a + Width - 1) /\ w \in b..(b + Width - 1) => q[w] = m[w - b + a]
        /\ w \notin a..(a + Width - 1) /\ w \notin b..(b + Width - 1) => q[w] = m[w]
  <2> DEFINE A == a..(a + Width - 1)
             B == b..(b + Width - 1)
  <2>1. ASSUME NEW w \in 0..(Adr(n) - 1)
        PROVE  q[w] = CASE w \in A -> m[w - a + b]
                        [] w \in B -> m[w - b + a]
                        [] OTHER -> m[w]
    BY <1>1
  <2>0. A \cap B = {}
    <3>1. a \in Nat /\ b \in Nat /\ (a + Width <= b \/ b + Width <= a)
      BY AdrNat, AdrLess
    <3> HIDE DEF a, b
    <3>2. QED
      BY <3>1
  <2> HIDE DEF q, a, b, A, B
  <2>2. ASSUME NEW w \in 0..(Adr(n) - 1)
        PROVE  /\ w \in A => q[w] = m[w - a + b]
               /\ w \notin A /\ w \in B => q[w] = m[w - b + a]
               /\ w \notin A /\ w \notin B => q[w] = m[w]
    BY <2>0, <2>1
  <2>3. QED
    BY <2>2 DEF A, B
<1>3. ASSUME NEW x \in 0..(n - 1), NEW w \in 0..(Width - 1)
      PROVE  q[Adr(x) + w] = m[Adr(Turned(x, i, j)) + w]
  <2>1. Adr(x) + w \in 0..(Adr(n) - 1) /\ Adr(x) \in Nat /\ a \in Nat /\ b \in Nat
    BY WordIn, AdrNat
  <2>2. /\ Adr(x) + w \in a..(a + Width - 1) <=> x = i
        /\ Adr(x) + w \in b..(b + Width - 1) <=> x = j
    BY AdrWord
  <2> HIDE DEF q
  <2>3. CASE x = i
    <3>1. q[Adr(x) + w] = m[Adr(x) + w - a + b]
      BY <1>2, <2>1, <2>2, <2>3
    <3>2. Adr(x) + w - a + b = b + w
      BY <2>1, <2>3
    <3>3. QED
      BY <2>3, <3>1, <3>2 DEF Turned
  <2>4. CASE x = j
    <3>1. q[Adr(x) + w] = m[Adr(x) + w - b + a]
      BY <1>2, <2>1, <2>2, <2>4
    <3>2. Adr(x) + w - b + a = a + w
      BY <2>1, <2>4
    <3>3. QED
      BY <2>4, <3>1, <3>2 DEF Turned
  <2>5. CASE x # i /\ x # j
    BY <1>2, <2>1, <2>2, <2>5 DEF Turned
  <2>6. QED
    BY <2>3, <2>4, <2>5
<1>4. ASSUME NEW w \in 0..(Adr(n) - 1) PROVE q[w] \in Int
  <2>1. a \in Nat /\ b \in Nat /\ a + Width <= Adr(n) /\ b + Width <= Adr(n) /\ Adr(n) \in Nat
    BY AdrNat, AdrLess
  <2>2. \A v \in 0..(Adr(n) - 1) : m[v] \in Int
    BY DEF Arrays
  <2> HIDE DEF q, a, b
  <2>3. CASE w \in a..(a + Width - 1)
    BY <1>2, <2>1, <2>2, <2>3
  <2>4. CASE w \notin a..(a + Width - 1) /\ w \in b..(b + Width - 1)
    BY <1>2, <2>1, <2>2, <2>4
  <2>5. CASE w \notin a..(a + Width - 1) /\ w \notin b..(b + Width - 1)
    BY <1>2, <2>2, <2>5
  <2>6. QED
    BY <2>3, <2>4, <2>5
<1>5. q \in [0..(Adr(n) - 1) -> Int]
  <2>1. q = [w \in DOMAIN q |-> q[w]]
    BY DEF Swapped
  <2> HIDE DEF q
  <2>2. QED
    BY <1>1, <1>4, <2>1
<1>6. QED
  BY <1>3, <1>5 DEF Arrays

LEMMA SwapKeys ==
  ASSUME KeyFirst, NEW n \in Nat, NEW m \in Arrays(n),
         NEW i \in 0..(n - 1), NEW j \in 0..(n - 1), i # j
  PROVE  /\ KeysOf(Swapped(m, Adr(i), Adr(j)), n) = Transposed(KeysOf(m, n), i, j)
         /\ ElementsOf(Swapped(m, Adr(i), Adr(j)), n) = ElementsOf(m, n)
<1> DEFINE q == Swapped(m, Adr(i), Adr(j))
<1>1. \A x \in 0..(n - 1), w \in 0..(Width - 1) : q[Adr(x) + w] = m[Adr(Turned(x, i, j)) + w]
  BY SwapWords
<1> HIDE DEF q
<1>2. \A x \in 0..(n - 1) : /\ Turned(x, i, j) \in 0..(n - 1)
                            /\ Turned(Turned(x, i, j), i, j) = x
  BY DEF Turned
<1>3. KeysOf(q, n) = Transposed(KeysOf(m, n), i, j)
  <2>1. ASSUME NEW x \in 0..(n - 1) PROVE q[Adr(x)] = KeysOf(m, n)[Turned(x, i, j)]
    <3>1. q[Adr(x) + 0] = m[Adr(Turned(x, i, j)) + 0]
      BY <1>1
    <3>2. Adr(x) + 0 = Adr(x) /\ Adr(Turned(x, i, j)) + 0 = Adr(Turned(x, i, j))
      BY <1>2, AdrNat
    <3>3. QED
      BY <1>2, <3>1, <3>2 DEF KeysOf
  <2>2. DOMAIN KeysOf(m, n) = 0..(n - 1)
    BY DEF KeysOf
  <2>3. KeysOf(q, n) = [x \in 0..(n - 1) |-> KeysOf(m, n)[Turned(x, i, j)]]
    BY <2>1 DEF KeysOf
  <2>4. QED
    BY <2>2, <2>3 DEF Transposed
<1>4. \A x \in 0..(n - 1) : ElementOf(q, x) = ElementOf(m, Turned(x, i, j))
  BY <1>1 DEF ElementOf
<1>5. ElementsOf(q, n) \subseteq ElementsOf(m, n)
  BY <1>2, <1>4 DEF ElementsOf
<1>6. \A x \in 0..(n - 1) : ElementOf(m, x) = ElementOf(q, Turned(x, i, j))
  BY <1>2, <1>4
<1>7. ElementsOf(m, n) \subseteq ElementsOf(q, n)
  BY <1>2, <1>6 DEF ElementsOf
<1>8. QED
  BY <1>3, <1>5, <1>7 DEF q
-----------------------------------------------------------------------------
(* With n elements, the heap reaches to node l, and node r is being sifted  *)
(* down, or none is and r is -1.                                            *)
SortState(n, l, r) ==
  /\ n \in Lengths /\ l \in 0..(n - 1) /\ r \in Int
  /\ input \in Arrays(n) /\ mem \in Arrays(n)
  /\ end = Adr(l) /\ start \in 0..(n - 1) /\ (start # 0 => l = n - 1)
  /\ \/ r = -1 /\ root = None
     \/ r \in start..l /\ root = Adr(r)
  /\ Heap(KeysOf(mem, n), start, l, r)
  /\ SortedBehind(KeysOf(mem, n), l, n)
  /\ ElementsOf(mem, n) = ElementsOf(input, n)

SortInv == \E n, l, r : SortState(n, l, r)

(* The nodes heap_sift_down looks at. *)
HeapNodes(r, l) == {r} \cup {i \in 1..l : Par(i) = r}

LEMMA ComparedNodes ==
  ASSUME KeyFirst, NEW l \in Nat, NEW r \in 0..l, end = Adr(l)
  PROVE  /\ Compared(Adr(r)) = {Adr(i) : i \in HeapNodes(r, l)}
         /\ \A i \in HeapNodes(r, l) : i \in r..l
<1>1. /\ Left(Adr(r)) = Adr(2 * r + 1) /\ Right(Adr(r)) = Adr(2 * r + 2) /\ LastKey = Adr(l)
  <2>1. /\ Adr(2 * r + 1) = 2 * Adr(r) + Width
        /\ Adr(2 * r + 2) = 2 * Adr(r) + Width + Width /\ Adr(r) \in Nat /\ Adr(l) \in Nat
    <3>1. r \in Nat
      OBVIOUS
    <3>2. QED
      BY <3>1, AdrSteps, AdrNat
  <2>2. QED
    BY <2>1 DEF Left, Right, LastKey, KeyFirst
<1>2. /\ Adr(2 * r + 1) <= Adr(l) <=> 2 * r + 1 <= l
      /\ Adr(2 * r + 2) <= Adr(l) <=> 2 * r + 2 <= l
  BY AdrAtMost
<1>3. /\ 2 * r + 1 \in Nat \ {0} /\ Par(2 * r + 1) = r
      /\ 2 * r + 2 \in Nat \ {0} /\ Par(2 * r + 2) = r
  BY ParIs
<1>4. \A i \in HeapNodes(r, l) : i = r \/ (i = 2 * r + 1 /\ i <= l) \/ (i = 2 * r + 2 /\ i <= l)
  BY ParIs DEF HeapNodes
<1>5. /\ r \in HeapNodes(r, l)
      /\ 2 * r + 1 <= l => 2 * r + 1 \in HeapNodes(r, l)
      /\ 2 * r + 2 <= l => 2 * r + 2 \in HeapNodes(r, l)
  BY <1>3 DEF HeapNodes
<1>6. Compared(Adr(r)) = {Adr(r)} \cup {a \in {Adr(2 * r + 1), Adr(2 * r + 2)} : a <= Adr(l)}
  BY <1>1 DEF Compared
<1>7. Compared(Adr(r)) \subseteq {Adr(i) : i \in HeapNodes(r, l)}
  BY <1>2, <1>5, <1>6
<1>8. {Adr(i) : i \in HeapNodes(r, l)} \subseteq Compared(Adr(r))
  BY <1>2, <1>4, <1>6
<1>9. \A i \in HeapNodes(r, l) : i \in r..l
  BY <1>4
<1>10. QED
  BY <1>7, <1>8, <1>9

(* One of the nodes looked at is the largest, and the first of those. *)
LEMMA LargestNode ==
  ASSUME KeyFirst, NEW n, NEW l, NEW r \in Nat, SortState(n, l, r), n \in Nat
  PROVE  \E c \in HeapNodes(r, l) :
           /\ Largest(root) = Adr(c)
           /\ \A i \in HeapNodes(r, l) : mem[Adr(c)] > mem[Adr(i)] \/ (mem[Adr(c)] = mem[Adr(i)] /\ c <= i)
<1>1. r \in 0..l /\ l \in 0..(n - 1) /\ end = Adr(l) /\ root = Adr(r) /\ mem \in Arrays(n)
  BY DEF SortState
<1>2. /\ Compared(root) = {Adr(i) : i \in HeapNodes(r, l)}
      /\ \A i \in HeapNodes(r, l) : i \in r..l
  BY <1>1, ComparedNodes
<1>3. \A i \in 0..(n - 1) : mem[Adr(i)] \in Int
  BY <1>1, KeysTyped DEF KeysOf
<1> DEFINE Better(a, b) == mem[b] < mem[a] \/ (mem[b] = mem[a] /\ a <= b)
<1>4. \E c \in HeapNodes(r, l) : \A i \in HeapNodes(r, l) : Better(Adr(c), Adr(i))
  <2> DEFINE k == [i \in 0..(n - 1) |-> mem[Adr(i)]]
             Best(c, i) == k[i] < k[c] \/ (k[i] = k[c] /\ c <= i)
             x == 2 * r + 1
             y == 2 * r + 2
  <2>1. \A i \in HeapNodes(r, l) : i = r \/ i = x \/ i = y
    BY ParIs DEF HeapNodes
  <2>2. \A i \in HeapNodes(r, l) : i \in 0..(n - 1) /\ k[i] = mem[Adr(i)] /\ k[i] \in Int
    BY <1>1, <1>2, <1>3
  <2>3. r \in HeapNodes(r, l)
    BY DEF HeapNodes
  <2>4. r \in Nat /\ x \in Nat /\ y \in Nat
    OBVIOUS
  <2> HIDE DEF k, x, y
  <2>5. \E c \in HeapNodes(r, l) : \A i \in HeapNodes(r, l) : Best(c, i)
    <3>1. CASE x \notin HeapNodes(r, l) /\ y \notin HeapNodes(r, l)
      BY <2>1, <2>2, <2>3, <3>1
    <3>2. CASE x \in HeapNodes(r, l) /\ y \notin HeapNodes(r, l)
      BY <2>1, <2>2, <2>3, <2>4, <3>2
    <3>3. CASE x \notin HeapNodes(r, l) /\ y \in HeapNodes(r, l)
      BY <2>1, <2>2, <2>3, <2>4, <3>3
    <3>4. CASE x \in HeapNodes(r, l) /\ y \in HeapNodes(r, l)
      <4>1. /\ k[r] \in Int /\ k[x] \in Int /\ k[y] \in Int
        BY <2>2, <2>3, <3>4
      <4>2. \/ Best(r, r) /\ Best(r, x) /\ Best(r, y)
            \/ Best(x, r) /\ Best(x, x) /\ Best(x, y)
            \/ Best(y, r) /\ Best(y, x) /\ Best(y, y)
        BY <2>4, <4>1
      <4>3. QED
        BY <2>1, <2>3, <3>4, <4>2
    <3>5. QED
      BY <3>1, <3>2, <3>3, <3>4
  <2>6. PICK c \in HeapNodes(r, l) : \A i \in HeapNodes(r, l) : Best(c, i)
    BY <2>5
  <2>7. \A i \in HeapNodes(r, l) : Adr(c) <= Adr(i) <=> c <= i
    BY <1>1, <1>2, AdrAtMost
  <2>8. QED
    BY <2>2, <2>6, <2>7
<1>5. \E a \in Compared(root) : \A b \in Compared(root) : Better(a, b)
  BY <1>2, <1>4
<1>6. /\ Largest(root) \in Compared(root)
      /\ \A b \in Compared(root) : Better(Largest(root), b)
  BY <1>5 DEF Largest
<1>7. PICK c \in HeapNodes(r, l) : Largest(root) = Adr(c)
  BY <1>2, <1>6
<1>8. ASSUME NEW i \in HeapNodes(r, l)
      PROVE  mem[Adr(c)] > mem[Adr(i)] \/ (mem[Adr(c)] = mem[Adr(i)] /\ c <= i)
  <2>1. Better(Adr(c), Adr(i))
    BY <1>2, <1>6, <1>7
  <2>2. Adr(c) <= Adr(i) <=> c <= i
    BY <1>1, <1>2, AdrAtMost
  <2>3. mem[Adr(c)] \in Int /\ mem[Adr(i)] \in Int
    BY <1>1, <1>2, <1>3
  <2>4. QED
    BY <2>1, <2>2, <2>3
<1>9. QED
  BY <1>7, <1>8

(* Below half of what SIZE_MAX counts, an address does not wrap. *)
LEMMA Unwrapped ==
  ASSUME Sortable, Lengths \subseteq Nat, NEW n \in Lengths
  PROVE  /\ n \in Nat /\ n >= 2 /\ n < WORD /\ Adr(n) < WORD \div 2
         /\ \A i \in 0..(n - 1) : i % WORD = i /\ Element(i) = Adr(i)
<1>1. n \in Nat /\ n >= 2 /\ Adr(n) < WORD \div 2
  BY DEF Sortable, Adr
<1>2. n <= Adr(n)
  <2>1. \A w \in Nat \ {0} : n <= n * w
    <3>1. ASSUME NEW w \in Nat \ {0} PROVE n <= n * w
      <4>1. n * w = n + n * (w - 1) /\ w - 1 \in Nat
        BY <1>1
      <4>2. n * (w - 1) \in Nat
        BY <1>1, <4>1
      <4>3. QED
        BY <1>1, <4>1, <4>2
    <3>2. QED
      BY <3>1
  <2>2. QED
    BY <2>1 DEF Adr
<1>3. n < WORD
  BY <1>1, <1>2, AdrNat DEF WORD
<1>4. ASSUME NEW i \in 0..(n - 1) PROVE i % WORD = i /\ Element(i) = Adr(i)
  <2>1. Adr(i) \in Nat /\ Adr(i) + Width <= Adr(n) /\ Adr(n) \in Nat
    BY <1>1, AdrNat, AdrLess
  <2>2. Adr(i) < WORD \div 2
    BY <1>1, <2>1 DEF WORD
  <2>3. Adr(i) % WORD = Adr(i)
    BY <2>1, <2>2 DEF WORD
  <2>4. Element(i) = Adr(i)
    BY <2>2, <2>3 DEF Element, Adr
  <2>5. i % WORD = i
    BY <1>1, <1>3 DEF WORD
  <2>6. QED
    BY <2>4, <2>5
<1>5. QED
  BY <1>1, <1>3, <1>4

(* Each step leads from such a state to another. *)
LEMMA DescendSort ==
  ASSUME KeyFirst, Lengths \subseteq Nat, NEW n, NEW l, NEW r \in Nat, SortState(n, l, r), Descend
  PROVE  SortInv'
<1>1. /\ n \in Nat /\ l \in 0..(n - 1) /\ r \in start..l /\ start \in 0..(n - 1)
      /\ mem \in Arrays(n) /\ root = Adr(r)
      /\ Heap(KeysOf(mem, n), start, l, r) /\ SortedBehind(KeysOf(mem, n), l, n)
  BY DEF SortState
<1>2. PICK c \in HeapNodes(r, l) :
        /\ Largest(root) = Adr(c)
        /\ \A i \in HeapNodes(r, l) : mem[Adr(c)] > mem[Adr(i)] \/ (mem[Adr(c)] = mem[Adr(i)] /\ c <= i)
  BY <1>1, LargestNode
<1>3. /\ mem' = Swapped(mem, Adr(r), Adr(c)) /\ root' = Adr(c) /\ c # r
      /\ UNCHANGED <<input, start, end>>
  BY <1>1, <1>2 DEF Descend
<1>4. c \in 1..l /\ Par(c) = r /\ c \in 0..(n - 1) /\ r \in 0..(n - 1) /\ r < c
  BY <1>1, <1>3, ParIs DEF HeapNodes
<1>5. /\ mem' \in Arrays(n)
      /\ KeysOf(mem', n) = Transposed(KeysOf(mem, n), r, c)
      /\ ElementsOf(mem', n) = ElementsOf(mem, n)
  BY <1>1, <1>3, <1>4, SwapWords, SwapKeys
<1> DEFINE k == KeysOf(mem, n)
<1>6. k \in [0..(n - 1) -> Int] /\ \A i \in 0..(n - 1) : k[i] = mem[Adr(i)]
  BY <1>1, KeysTyped DEF KeysOf
<1>7. k[c] > k[r]
  <2>1. r \in HeapNodes(r, l)
    BY DEF HeapNodes
  <2>2. k[c] \in Int /\ k[r] \in Int /\ k[c] = mem[Adr(c)] /\ k[r] = mem[Adr(r)]
    BY <1>4, <1>6
  <2>3. QED
    BY <1>2, <1>4, <2>1, <2>2
<1>8. ASSUME NEW i \in 1..l, Par(i) = r PROVE k[c] >= k[i]
  <2>1. i \in HeapNodes(r, l) /\ i \in 0..(n - 1)
    BY <1>1, <1>8 DEF HeapNodes
  <2>2. k[c] \in Int /\ k[i] \in Int /\ k[c] = mem[Adr(c)] /\ k[i] = mem[Adr(i)]
    BY <1>4, <1>6, <2>1
  <2>3. QED
    BY <1>2, <2>1, <2>2
<1>9. Heap(KeysOf(mem', n), start, l, c)
  <2>1. start \in Nat
    BY <1>1
  <2> HIDE DEF k
  <2>2. Heap(Transposed(k, r, c), start, l, c)
    BY <1>1, <1>4, <1>6, <1>7, <1>8, <2>1, HeapDescend DEF k
  <2>3. QED
    BY <1>5, <2>2 DEF k
<1>10. SortedBehind(KeysOf(mem', n), l, n)
  BY SMTT(30), <1>1, <1>4, <1>5, <1>6, BehindTransposed
<1>11. c \in start..l /\ c \in Int
  BY <1>1, <1>4
<1>12. SortState(n, l, c)'
  BY <1>3, <1>5, <1>9, <1>10, <1>11 DEF SortState
<1>13. QED
  BY <1>12 DEF SortInv

LEMMA SettleSort ==
  ASSUME KeyFirst, Lengths \subseteq Nat, NEW n, NEW l, NEW r \in Nat, SortState(n, l, r), Settle
  PROVE  SortInv'
<1>1. /\ n \in Nat /\ l \in 0..(n - 1) /\ l \in Nat /\ r \in start..l /\ start \in Nat
      /\ mem \in Arrays(n) /\ root = Adr(r)
      /\ Heap(KeysOf(mem, n), start, l, r)
  BY DEF SortState
<1>2. PICK c \in HeapNodes(r, l) :
        /\ Largest(root) = Adr(c)
        /\ \A i \in HeapNodes(r, l) : mem[Adr(c)] > mem[Adr(i)] \/ (mem[Adr(c)] = mem[Adr(i)] /\ c <= i)
  BY <1>1, LargestNode
<1>3. c = r
  <2>1. c \in 0..l /\ r \in 0..l
    BY <1>1 DEF HeapNodes
  <2>2. Adr(c) = Adr(r) <=> c = r
    BY <2>1, AdrAtMost
  <2>3. QED
    BY <1>1, <1>2, <2>2 DEF Settle
<1> DEFINE k == KeysOf(mem, n)
<1>4. k \in [0..(n - 1) -> Int] /\ \A i \in 0..(n - 1) : k[i] = mem[Adr(i)]
  BY <1>1, KeysTyped DEF KeysOf
<1>5. ASSUME NEW i \in 1..l, Par(i) = r PROVE k[r] >= k[i]
  <2>1. i \in HeapNodes(r, l) /\ i \in 0..(n - 1) /\ r \in 0..(n - 1)
    BY <1>1, <1>5 DEF HeapNodes
  <2>2. k[r] \in Int /\ k[i] \in Int /\ k[r] = mem[Adr(r)] /\ k[i] = mem[Adr(i)]
    BY <1>4, <2>1
  <2>3. QED
    BY <1>2, <1>3, <2>1, <2>2
<1>6. Heap(KeysOf(mem, n), start, l, -1)
  BY <1>1, <1>5, HeapSettle
<1>7. root' = None /\ UNCHANGED <<input, mem, start, end>>
  BY DEF Settle
<1>8. SortState(n, l, -1)'
  BY <1>6, <1>7 DEF SortState
<1>9. QED
  BY <1>8 DEF SortInv

LEMMA BuildSort ==
  ASSUME KeyFirst, Lengths \subseteq Nat, Sortable, NEW n, NEW l, SortState(n, l, -1), Build
  PROVE  SortInv'
<1>0. PICK s \in Int : s = start - 1
  BY DEF SortState
<1>1. /\ n \in Nat /\ l = n - 1 /\ s \in 0..l /\ start \in Nat \ {0} /\ s \in Nat
      /\ Heap(KeysOf(mem, n), start, l, -1)
      /\ start' = s /\ root' = Element(s) + Offset /\ UNCHANGED <<input, mem, end>>
  BY <1>0 DEF SortState, Build
<1>2. Element(s) = Adr(s)
  <2>1. n \in Lengths
    BY DEF SortState
  <2>2. QED
    BY <1>1, <2>1, Unwrapped
<1>3. root' = Adr(s)
  <2>1. Adr(s) \in Nat
    BY <1>1, AdrNat
  <2>2. QED
    BY <1>1, <1>2, <2>1 DEF KeyFirst
<1>4. Heap(KeysOf(mem, n), s, l, s)
  <2>1. l \in Nat /\ Heap(KeysOf(mem, n), start - 1, l, start - 1)
    BY <1>1, HeapBuild
  <2>2. QED
    BY <1>0, <2>1
<1>5. s \in s..l /\ s \in Int /\ s \in 0..(n - 1)
  BY <1>1
<1>6. /\ n \in Lengths /\ l \in 0..(n - 1) /\ input' \in Arrays(n) /\ mem' \in Arrays(n)
      /\ end' = Adr(l) /\ SortedBehind(KeysOf(mem', n), l, n)
      /\ ElementsOf(mem', n) = ElementsOf(input', n)
  BY <1>1 DEF SortState
<1>7. Heap(KeysOf(mem', n), start', l, s) /\ start' = s
  BY <1>1, <1>4
<1>8. s \in start'..l /\ root' = Adr(s) /\ start' \in 0..(n - 1) /\ s \in Int /\ l = n - 1
  BY <1>1, <1>3, <1>5
<1>9. SortState(n, l, s)'
  BY <1>6, <1>7, <1>8 DEF SortState
<1>10. QED
  BY <1>9 DEF SortInv

LEMMA ExtractSort ==
  ASSUME KeyFirst, Lengths \subseteq Nat, NEW n, NEW l, SortState(n, l, -1), Extract
  PROVE  SortInv'
<1>1. /\ n \in Nat /\ l \in 0..(n - 1) /\ mem \in Arrays(n) /\ start = 0 /\ end = Adr(l)
      /\ Heap(KeysOf(mem, n), 0, l, -1) /\ SortedBehind(KeysOf(mem, n), l, n)
  BY DEF SortState, Extract
<1>2. l \in 1..(n - 1) /\ l \in Nat /\ l - 1 \in Nat
  <2>1. Adr(0) = 0 /\ end > 0
    BY AdrSteps DEF Extract
  <2>2. QED
    BY <1>1, <2>1
<1>3. Adr(l - 1) = Adr(l) - Width /\ Adr(0) = 0
  <2> DEFINE j == l - 1
  <2>1. j \in Nat /\ j + 1 = l
    BY <1>2
  <2> HIDE DEF j
  <2>2. Adr(j + 1) = Adr(j) + Width /\ Adr(j) \in Nat /\ Adr(0) = 0
    BY <2>1, AdrSteps, AdrNat
  <2>3. Adr(j) = Adr(l) - Width
    BY <2>1, <2>2
  <2>4. QED
    BY <2>2, <2>3 DEF j
<1>4. /\ mem' = Swapped(mem, Adr(l), Adr(0)) /\ end' = Adr(l - 1) /\ root' = Adr(0)
      /\ UNCHANGED <<input, start>>
  <2>1. Adr(l) \in Nat
    BY <1>2, AdrNat
  <2>2. QED
    BY <1>1, <1>3, <2>1 DEF Extract, KeyFirst
<1>5. /\ mem' \in Arrays(n)
      /\ KeysOf(mem', n) = Transposed(KeysOf(mem, n), l, 0)
      /\ ElementsOf(mem', n) = ElementsOf(mem, n)
  <2>1. 0 \in 0..(n - 1) /\ l \in 0..(n - 1) /\ l # 0
    BY <1>1, <1>2
  <2>2. QED
    BY <1>1, <1>4, <2>1, SwapWords, SwapKeys
<1>6. KeysOf(mem, n) \in [0..(n - 1) -> Int]
  BY <1>1, KeysTyped
<1>7. Heap(KeysOf(mem', n), 0, l - 1, 0)
  BY <1>1, <1>2, <1>5, <1>6, HeapExtract
<1>8. SortedBehind(KeysOf(mem', n), l - 1, n)
  BY <1>1, <1>2, <1>5, <1>6, BehindExtract
<1>9. l - 1 \in 0..(n - 1) /\ 0 \in 0..(l - 1) /\ 0 \in Int
  BY <1>1, <1>2
<1>10. SortState(n, l - 1, 0)'
  BY <1>1, <1>4, <1>5, <1>7, <1>8, <1>9 DEF SortState
<1>11. QED
  BY <1>10 DEF SortInv

LEMMA SortStep ==
  ASSUME KeyFirst, Lengths \subseteq Nat, Sortable, SortInv, [SortNext]_sortvars
  PROVE  SortInv'
<1>1. PICK n, l, r : SortState(n, l, r)
  BY DEF SortInv
<1>2. r \in Nat \/ r = -1
  BY <1>1 DEF SortState
<1>3. /\ root # None => r \in Nat
      /\ root = None => r = -1
  <2>1. r \in Nat => Adr(r) \in Nat
    BY AdrNat
  <2>2. QED
    BY <1>1, <1>2, <2>1 DEF SortState, None
<1>4. CASE Descend
  BY <1>1, <1>3, <1>4, DescendSort DEF Descend
<1>5. CASE Settle
  BY <1>1, <1>3, <1>5, SettleSort DEF Settle
<1>6. CASE Build
  BY <1>1, <1>3, <1>6, BuildSort DEF Build
<1>7. CASE Extract
  BY <1>1, <1>3, <1>7, ExtractSort DEF Extract
<1>8. CASE UNCHANGED sortvars
  <2>1. SortState(n, l, r)'
    BY <1>1, <1>8 DEF sortvars, SortState
  <2>2. QED
    BY <2>1 DEF SortInv
<1>9. QED
  BY <1>4, <1>5, <1>6, <1>7, <1>8 DEF SortNext

LEMMA SortStart ==
  ASSUME KeyFirst, Lengths \subseteq Nat, Sortable, SortInit
  PROVE  SortInv
<1>0. PICK n \in Lengths : \E keys \in [0..(n - 1) -> Keys] :
        /\ input = Block(n, keys) /\ mem = input
        /\ start = Parent((n - 1) % WORD) + 1
        /\ end = Element((n - 1) % WORD)
        /\ root = None
  BY DEF SortInit
<1>1. PICK keys \in [0..(n - 1) -> Keys] :
        /\ input = Block(n, keys) /\ mem = input
        /\ start = Parent((n - 1) % WORD) + 1
        /\ end = Element((n - 1) % WORD)
        /\ root = None
  BY <1>0
<1>2. /\ n \in Nat /\ n >= 2 /\ n < WORD
      /\ \A i \in 0..(n - 1) : i % WORD = i /\ Element(i) = Adr(i)
  BY Unwrapped
<1> DEFINE l == n - 1
<1>3. l \in 1..(n - 1) /\ l \in 0..(n - 1) /\ l - 1 \in 0..(n - 1) /\ l \in Nat \ {0}
  BY <1>2
<1>4. end = Adr(l) /\ start = Par(l) + 1
  <2>1. l % WORD = l /\ Element(l) = Adr(l) /\ (l - 1) % WORD = l - 1
    BY <1>2, <1>3
  <2>2. QED
    BY <1>1, <2>1 DEF Parent, Par
<1>5. start \in 0..(n - 1) /\ start # 0
  BY <1>2, <1>3, <1>4, ParIs
<1>6. input \in Arrays(n)
  <2>1. ASSUME NEW a \in 0..(Adr(n) - 1) PROVE a \div Width \in 0..(n - 1)
    <3> DEFINE q == a \div Width
    <3>1. Adr(n) \in Nat /\ a \in Nat
      BY <1>2, AdrNat
    <3>2. q \in Nat /\ q * Width <= a
      BY <3>1
    <3> HIDE DEF q
    <3>3. ~(n <= q)
      <4>1. n <= q => Adr(n) <= Adr(q)
        BY <1>2, <3>2, AdrAtMost
      <4>2. Adr(q) \in Nat /\ Adr(q) <= a
        BY <3>2, AdrNat DEF Adr
      <4>3. QED
        BY <3>1, <4>1, <4>2
    <3>4. QED
      BY <1>2, <3>2, <3>3 DEF q
  <2>2. ASSUME NEW a \in 0..(Adr(n) - 1)
        PROVE  (IF a % Width = Offset THEN keys[a \div Width] ELSE -1 - (a \div Width)) \in Int
    <3>1. keys[a \div Width] \in Int
      <4> DEFINE q == a \div Width
      <4>1. q \in 0..(n - 1)
        BY <2>1
      <4> HIDE DEF q
      <4>2. keys[q] \in Keys
        BY <4>1
      <4>3. \A v \in Keys : v \in Int
        BY KeysAssumption
      <4>4. QED
        BY <4>2, <4>3 DEF q
    <3>2. -1 - (a \div Width) \in Int
      BY <1>2, <2>1
    <3>3. QED
      BY <3>1, <3>2
  <2>3. Block(n, keys) = [a \in 0..(Adr(n) - 1) |->
          IF a % Width = Offset THEN keys[a \div Width] ELSE -1 - (a \div Width)]
    BY DEF Block, Adr
  <2>4. QED
    BY <1>1, <2>2, <2>3 DEF Arrays
<1>7. Heap(KeysOf(mem, n), start, l, -1)
  <2>1. ASSUME NEW i \in 1..l PROVE Par(i) < start /\ Par(i) \in Nat
    BY <1>2, <1>3, <1>4, ParIs DEF Par
  <2>2. start \in Nat
    BY <1>5
  <2>3. QED
    BY <2>1, <2>2 DEF Heap
<1>8. SortedBehind(KeysOf(mem, n), l, n)
  BY <1>2 DEF SortedBehind
<1>9. SortState(n, l, -1)
  BY <1>1, <1>3, <1>4, <1>5, <1>6, <1>7, <1>8 DEF SortState
<1>10. QED
  BY <1>9 DEF SortInv

(* From a start to a finished sort: the array is made of whole elements     *)
(* which are those of the input, a heap as far as it has been built, and    *)
(* sorted behind the heap.                                                  *)
THEOREM SortInductive == ASSUME KeyFirst, Sortable PROVE SortSpec => []SortInv
<1>1. SortInit => SortInv
  BY SortStart, LengthsAssumption
<1>2. SortInv /\ [SortNext]_sortvars => SortInv'
  BY SortStep, LengthsAssumption
<1>3. QED
  BY <1>1, <1>2, PTL DEF SortSpec
-----------------------------------------------------------------------------
(* heap_sift_down compares and swaps within the array only, whatever the    *)
(* number of elements and their width.                                      *)
THEOREM InBoundsHolds == ASSUME KeyFirst, Sortable PROVE SortSpec => []InBounds
<1>1. ASSUME SortInv PROVE InBounds
  <2> SUFFICES ASSUME root # None, NEW p \in Compared(root)
               PROVE  (p - Offset)..(p - Offset + Width - 1) \subseteq DOMAIN mem
    BY DEF InBounds
  <2>1. PICK n, l, r : SortState(n, l, r)
    BY <1>1 DEF SortInv
  <2>2. n \in Nat /\ l \in 0..(n - 1) /\ l \in Nat /\ r \in 0..l /\ root = Adr(r) /\ end = Adr(l)
    BY <2>1, LengthsAssumption DEF SortState
  <2>3. PICK i \in HeapNodes(r, l) : p = Adr(i)
    BY <2>2, ComparedNodes
  <2>4. i \in 0..(n - 1)
    BY <2>2, ComparedNodes
  <2>5. Adr(i) \in Nat /\ Adr(n) \in Nat /\ Adr(i) + Width <= Adr(n)
    BY <2>2, <2>4, AdrNat, AdrLess
  <2>6. DOMAIN mem = 0..(Adr(n) - 1)
    BY <2>1 DEF SortState, Arrays
  <2>7. p - Offset = Adr(i)
    BY <2>3, <2>5 DEF KeyFirst
  <2>8. QED
    BY <2>5, <2>6, <2>7
<1>2. QED
  BY <1>1, SortInductive, PTL

(* What SortState says of nodes, said of addresses. *)
LEMMA InNodes ==
  ASSUME KeyFirst, Sortable, NEW n, NEW l, NEW r, SortState(n, l, r)
  PROVE  /\ n \in Nat /\ n >= 2 /\ l \in 0..(n - 1) /\ end \div Width = l
         /\ \A i \in 0..(n - 1) :
              /\ Key(mem, i) = KeysOf(mem, n)[i] /\ Key(mem, i) \in Int
              /\ root # None /\ i * Width + Offset = root <=> i = r
         /\ \A i \in 1..(n - 1) : Parent(i) = Par(i)
<1>1. n \in Lengths /\ l \in 0..(n - 1) /\ end = Adr(l) /\ mem \in Arrays(n)
  BY DEF SortState
<1>2. n \in Nat /\ n >= 2 /\ \A i \in 0..(n - 1) : i % WORD = i
  BY <1>1, Unwrapped, LengthsAssumption
<1>3. end \div Width = l
  BY <1>1, AdrDiv
<1>4. ASSUME NEW i \in 0..(n - 1)
      PROVE  /\ Key(mem, i) = KeysOf(mem, n)[i] /\ Key(mem, i) \in Int
             /\ root # None /\ i * Width + Offset = root <=> i = r
  <2>1. i * Width + Offset = Adr(i) /\ Adr(i) \in Nat
    <3>1. Adr(i) \in Nat /\ Adr(i) = i * Width
      BY AdrNat DEF Adr
    <3>2. QED
      BY <3>1 DEF KeyFirst
  <2>2. Key(mem, i) = KeysOf(mem, n)[i]
    BY <2>1 DEF Key, Word, KeysOf
  <2>3. KeysOf(mem, n)[i] \in Int
    BY <1>1, <1>2, KeysTyped
  <2>4. root # None /\ Adr(i) = root <=> i = r
    <3>1. CASE r = -1 /\ root = None
      BY <3>1
    <3>2. CASE r \in Nat /\ root = Adr(r)
      <4>1. Adr(r) \in Nat /\ (Adr(i) = Adr(r) <=> i = r)
        BY <3>2, AdrNat, AdrAtMost
      <4>2. QED
        BY <3>2, <4>1 DEF None
    <3>3. QED
      BY <3>1, <3>2 DEF SortState
  <2>5. QED
    BY <2>1, <2>2, <2>3, <2>4
<1>5. ASSUME NEW i \in 1..(n - 1) PROVE Parent(i) = Par(i)
  <2>1. (i - 1) % WORD = i - 1
    BY <1>2
  <2>2. QED
    BY <2>1 DEF Parent, Par
<1>6. QED
  BY <1>1, <1>2, <1>3, <1>4, <1>5

(* The heap is in order wherever it has been built, but for the node being  *)
(* sifted down.                                                             *)
THEOREM HeapOrderHolds == ASSUME KeyFirst, Sortable PROVE SortSpec => []HeapOrder
<1>1. ASSUME SortInv PROVE HeapOrder
  <2>1. PICK n, l, r : SortState(n, l, r)
    BY <1>1 DEF SortInv
  <2>2. /\ n \in Nat /\ n >= 2 /\ l \in 0..(n - 1) /\ end \div Width = l
        /\ \A i \in 0..(n - 1) :
             /\ Key(mem, i) = KeysOf(mem, n)[i]
             /\ root # None /\ i * Width + Offset = root <=> i = r
        /\ \A i \in 1..(n - 1) : Parent(i) = Par(i)
    BY <2>1, InNodes
  <2> DEFINE Sifted(i) == root # None /\ i * Width + Offset = root
  <2>3. ASSUME NEW i \in 1..l
        PROVE  /\ Parent(i) >= start /\ ~Sifted(Parent(i)) => Key(mem, Parent(i)) >= Key(mem, i)
               /\ Sifted(Parent(i)) /\ Parent(i) > 0 /\ Parent(Parent(i)) >= start =>
                    Key(mem, Parent(Parent(i))) >= Key(mem, i)
    <3> DEFINE p == Par(i)
               k == KeysOf(mem, n)
    <3>1. i \in 1..(n - 1) /\ i \in 0..(n - 1) /\ p \in 0..(n - 1) /\ Parent(i) = p
      BY <2>2, ParIs
    <3>2. /\ p >= start /\ p # r => k[p] >= k[i]
          /\ p = r /\ r > 0 /\ Par(r) >= start => k[Par(r)] >= k[i]
      BY <2>1 DEF SortState, Heap
    <3>3. Sifted(p) <=> p = r
      BY <2>2, <3>1
    <3>4. p > 0 => Par(p) \in 0..(n - 1) /\ Parent(p) = Par(p)
      BY <2>2, <3>1, ParIs
    <3> HIDE DEF Sifted, p, k
    <3>5. k[i] = Key(mem, i) /\ k[p] = Key(mem, p) /\ (p > 0 => k[Par(p)] = Key(mem, Par(p)))
      BY <2>2, <3>1, <3>4 DEF k
    <3>6. QED
      BY <3>1, <3>2, <3>3, <3>4, <3>5
  <2>4. QED
    BY <2>2, <2>3 DEF HeapOrder
<1>2. QED
  BY <1>1, SortInductive, PTL

(* sort_heap returns the elements of its input, none of them lost, torn or  *)
(* made up, in ascending order of their keys.                               *)
THEOREM SortsHolds == ASSUME KeyFirst, Sortable PROVE SortSpec => []Sorts
<1>1. ASSUME SortInv PROVE Sorts
  <2>1. PICK n, l, r : SortState(n, l, r)
    BY <1>1 DEF SortInv
  <2>2. /\ n \in Nat /\ l \in 0..(n - 1) /\ end = Adr(l) /\ n \in Lengths
        /\ mem \in Arrays(n) /\ input \in Arrays(n)
        /\ \A i \in 0..(n - 1) : Key(mem, i) = KeysOf(mem, n)[i]
    BY <2>1, InNodes DEF SortState
  <2>3. ASSUME NEW m \in Arrays(n) PROVE Size(m) = n
    <3>1. DOMAIN m = 0..(n * Width - 1)
      BY DEF Arrays, Adr
    <3>2. ASSUME NEW o \in Lengths, DOMAIN m = 0..(o * Width - 1) PROVE o = n
      <4>1. o \in Nat /\ Adr(o) \in Nat /\ Adr(n) \in Nat
        BY <2>2, AdrNat, LengthsAssumption
      <4>2. 0..(Adr(o) - 1) = 0..(Adr(n) - 1)
        BY <3>1, <3>2 DEF Adr
      <4>3. Adr(o) = Adr(n)
        BY <4>1, <4>2
      <4>4. QED
        BY <2>2, <4>1, <4>3, AdrAtMost
    <3>3. QED
      BY <2>2, <3>1, <3>2 DEF Size
  <2>4. Permutation
    <3>1. \A m \in Arrays(n) :
            {[w \in 0..(Width - 1) |-> Word(m, i, w)] : i \in 0..(Size(m) - 1)} = ElementsOf(m, n)
      BY <2>3 DEF Word, ElementsOf, ElementOf, Adr
    <3>2. ElementsOf(mem, n) = ElementsOf(input, n)
      BY <2>1 DEF SortState
    <3>3. QED
      BY <2>2, <3>1, <3>2 DEF Permutation
  <2>5. ASSUME Done PROVE Ascending
    <3>1. l = 0
      <4>1. l \in Nat
        BY <2>2
      <4>2. Adr(0) = 0 /\ (Adr(l) = Adr(0) <=> l = 0)
        BY <4>1, AdrSteps, AdrAtMost
      <4>3. QED
        BY <2>2, <2>5, <4>2 DEF Done
    <3>2. KeysOf(mem, n) \in [0..(n - 1) -> Int]
      BY <2>2, KeysTyped
    <3>3. ASSUME NEW i \in 0..(n - 1), NEW j \in 0..(n - 1), i <= j
          PROVE  KeysOf(mem, n)[i] <= KeysOf(mem, n)[j]
      <4>1. CASE j = 0
        BY <3>2, <3>3, <4>1
      <4>2. CASE j # 0
        BY <2>1, <3>1, <3>3, <4>2 DEF SortState, SortedBehind
      <4>3. QED
        BY <4>1, <4>2
    <3>4. QED
      BY <2>2, <2>3, <3>3 DEF Ascending
  <2>6. QED
    BY <2>4, <2>5 DEF Sorts
<1>2. QED
  BY <1>1, SortInductive, PTL
=============================================================================
