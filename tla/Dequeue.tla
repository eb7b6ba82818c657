------------------------------ MODULE Dequeue -------------------------------
(***************************************************************************)
(* The double ended linked list of src/structures/Dequeue.c: nodes on the  *)
(* heap, each linked to the one before it (towards the head, next) and the *)
(* one after it (towards the tail, previous).                              *)
(*                                                                         *)
(* The heap is a function from the nodes that are allocated to their       *)
(* fields: a node that was freed is outside its domain.                    *)
(***************************************************************************)
EXTENDS Integers, Sequences

CONSTANTS Nodes,    \* the addresses malloc can return for a node
          Values,   \* the data of an element
          NULL, NoData

ASSUME NullAssumption == NULL \notin Nodes
ASSUME NoDataAssumption == NoData \notin Values

VARIABLES
  node,     \* the allocated nodes: address -> [previous, next, data]
  head, tail, length,
  state,    \* the Dequeue object: "none", "ready", or inside a call: "freeing"
  cursor,   \* the node internal_free_nodes frees next
  after,    \* the object's state once that loop is done
  result,   \* what the last call returned
  order     \* history: the nodes from head to tail, as the calls arranged them

links == <<node, head, tail, length, order>>
reset == <<state, cursor, after>>
dequevars == <<links, reset, result>>

Returned(code, value) == [code |-> code, value |-> value]

DequeInit ==
  /\ node = <<>>
  /\ head = NULL /\ tail = NULL /\ length = 0
  /\ state = "none" /\ cursor = NULL /\ after = "none"
  /\ result = Returned(0, NoData)
  /\ order = <<>>

Node(previous, next, data) == [previous |-> previous, next |-> next, data |-> data]

(* internal_free_node *)
Freed(heap, n) == [m \in DOMAIN heap \ {n} |-> heap[m]]
(* A newly allocated node among the others. *)
With(heap, n, fields) == [m \in DOMAIN heap \cup {n} |-> IF m = n THEN fields ELSE heap[m]]

Create ==
  /\ state = "none"
  /\ state' \in {"ready", "none"}     \* malloc of the object may fail
  /\ head' = NULL /\ tail' = NULL /\ length' = 0
  /\ result' = Returned(0, NoData)
  /\ UNCHANGED <<node, order, cursor, after>>

(* internal_prepare_node returns NULL. *)
PushFail ==
  /\ state = "ready"
  /\ result' = Returned(1, NoData)
  /\ UNCHANGED <<links, reset>>

PushBack(n, v) ==
  /\ state = "ready" /\ n \notin DOMAIN node
  /\ IF length = 0
       THEN /\ node' = With(node, n, Node(NULL, NULL, v))
            /\ head' = n
       ELSE /\ node' = With([node EXCEPT ![tail].previous = n], n, Node(NULL, tail, v))
            /\ UNCHANGED head
  /\ tail' = n
  /\ length' = length + 1
  /\ order' = Append(order, n)
  /\ result' = Returned(0, NoData)
  /\ UNCHANGED reset

PushFront(n, v) ==
  /\ state = "ready" /\ n \notin DOMAIN node
  /\ IF length = 0
       THEN /\ node' = With(node, n, Node(NULL, NULL, v))
            /\ tail' = n
       ELSE /\ node' = With([node EXCEPT ![head].next = n], n, Node(head, NULL, v))
            /\ UNCHANGED tail
  /\ head' = n
  /\ length' = length + 1
  /\ order' = <<n>> \o order
  /\ result' = Returned(0, NoData)
  /\ UNCHANGED reset

(* The caller may pass NULL for the place of the data. *)
Popped(value) == result' \in {Returned(0, value), Returned(0, NoData)}

(* Mutant: the new tail keeps its link to the node that is freed. *)
PopBack_KeepsLink ==
  /\ state = "ready" /\ length # 0
  /\ Popped(node[tail].data)
  /\ IF length - 1 = 0 THEN head' = NULL /\ tail' = NULL
                       ELSE tail' = node[tail].next /\ UNCHANGED head
  /\ node' = Freed(node, tail)
  /\ length' = length - 1
  /\ order' = SubSeq(order, 1, Len(order) - 1)
  /\ UNCHANGED reset

PopBack ==
  /\ state = "ready" /\ length # 0
  /\ Popped(node[tail].data)
  /\ IF length - 1 = 0
       THEN /\ node' = Freed(node, tail)
            /\ head' = NULL /\ tail' = NULL
       ELSE LET newTail == node[tail].next
            IN  /\ tail' = newTail
                /\ node' = Freed([node EXCEPT ![newTail].previous = NULL], tail)
                /\ UNCHANGED head
  /\ length' = length - 1
  /\ order' = SubSeq(order, 1, Len(order) - 1)
  /\ UNCHANGED reset

(* Mutant: the last element's removal leaves the tail behind. *)
PopFront_KeepsTail ==
  /\ state = "ready" /\ length # 0
  /\ Popped(node[head].data)
  /\ IF length - 1 = 0
       THEN node' = Freed(node, head) /\ head' = NULL
       ELSE LET newHead == node[head].previous
            IN  /\ head' = newHead
                /\ node' = Freed([node EXCEPT ![newHead].next = NULL], head)
  /\ length' = length - 1
  /\ order' = SubSeq(order, 2, Len(order))
  /\ UNCHANGED <<tail, reset>>

PopFront ==
  /\ state = "ready" /\ length # 0
  /\ Popped(node[head].data)
  /\ IF length - 1 = 0
       THEN /\ node' = Freed(node, head)
            /\ head' = NULL /\ tail' = NULL
       ELSE LET newHead == node[head].previous
            IN  /\ head' = newHead
                /\ node' = Freed([node EXCEPT ![newHead].next = NULL], head)
                /\ UNCHANGED tail
  /\ length' = length - 1
  /\ order' = SubSeq(order, 2, Len(order))
  /\ UNCHANGED reset

PeekBack ==
  /\ state = "ready" /\ length # 0
  /\ result' = Returned(0, node[tail].data)
  /\ UNCHANGED <<links, reset>>

(* Mutant: the value comes from the other end. *)
PeekFront_Back ==
  /\ state = "ready" /\ length # 0
  /\ result' = Returned(0, node[tail].data)
  /\ UNCHANGED <<links, reset>>

PeekFront ==
  /\ state = "ready" /\ length # 0
  /\ result' = Returned(0, node[head].data)
  /\ UNCHANGED <<links, reset>>

(* Every pop and peek of an empty dequeue returns 1. *)
Empty ==
  /\ state = "ready" /\ length = 0
  /\ result' = Returned(1, NoData)
  /\ UNCHANGED <<links, reset>>

(* dequeue_reset and dequeue_destroy; the nodes are freed one by one. *)
Reset(then) ==
  /\ state = "ready"
  /\ IF length # 0 THEN state' = "freeing" /\ cursor' = head
                   ELSE state' = then /\ UNCHANGED cursor
  /\ after' = then
  /\ result' = Returned(0, NoData)
  /\ UNCHANGED links

(* One turn of internal_free_nodes, then the fields of the object. *)
FreeNode ==
  /\ state = "freeing" /\ cursor # NULL
  /\ cursor' = node[cursor].previous
  /\ node' = Freed(node, cursor)
  /\ UNCHANGED <<head, tail, length, order, state, after, result>>

FreeEnd ==
  /\ state = "freeing" /\ cursor = NULL
  /\ head' = NULL /\ tail' = NULL /\ length' = 0
  /\ order' = <<>>
  /\ state' = after
  /\ UNCHANGED <<node, cursor, after, result>>

DequeNext ==
  \/ Create \/ PushFail
  \/ \E n \in Nodes, v \in Values : PushBack(n, v) \/ PushFront(n, v)
  \/ PopBack \/ PopFront \/ PeekBack \/ PeekFront \/ Empty
  \/ \E then \in {"ready", "none"} : Reset(then)
  \/ FreeNode \/ FreeEnd

DequeSpec == DequeInit /\ [][DequeNext]_dequevars
-----------------------------------------------------------------------------
DequeTypeOK ==
  /\ DOMAIN node \subseteq Nodes
  /\ \A n \in DOMAIN node : node[n] \in [previous : Nodes \cup {NULL},
                                         next : Nodes \cup {NULL}, data : Values]
  /\ head \in Nodes \cup {NULL} /\ tail \in Nodes \cup {NULL}
  /\ length \in Nat
  /\ state \in {"none", "ready", "freeing"} /\ after \in {"none", "ready"}
  /\ cursor \in Nodes \cup {NULL}
  /\ result \in [code : {0, 1}, value : Values \cup {NoData}]
  /\ order \in Seq(Nodes)

(* The implementation note of the source (lines 22-27): following previous  *)
(* from the head, or next from the tail, visits exactly the nodes in order; *)
(* and no other node is allocated.                                          *)
Linked ==
  /\ DequeTypeOK
  /\ state # "freeing" =>
      /\ length = Len(order)
      /\ DOMAIN node = {order[i] : i \in 1..length}
      /\ \A i, j \in 1..length : order[i] = order[j] => i = j
      /\ head = IF length = 0 THEN NULL ELSE order[1]
      /\ tail = IF length = 0 THEN NULL ELSE order[length]
      /\ \A i \in 1..length :
           /\ node[order[i]].previous = IF i = length THEN NULL ELSE order[i + 1]
           /\ node[order[i]].next = IF i = 1 THEN NULL ELSE order[i - 1]

(* The freeing loop only dereferences nodes that are still allocated, and   *)
(* frees each of them once.                                                 *)
NoUseAfterFree ==
  state = "freeing" => cursor = NULL \/ cursor \in DOMAIN node

(* The elements from head to tail.  A reset empties them when it is called. *)
Contents == IF state = "freeing" THEN <<>>
            ELSE [i \in 1..Len(order) |-> node[order[i]].data]

Abstract == INSTANCE BoundedDeque WITH seq <- Contents, None <- NoData

CallsKept ==
  /\ \A n \in Nodes, v \in Values : /\ PushBack(n, v) => Abstract!PushBack(v)
                                   /\ PushFront(n, v) => Abstract!PushFront(v)
  /\ PopBack => Abstract!PopBack
  /\ PopFront => Abstract!PopFront
  /\ PeekBack => Abstract!PeekBack
  /\ PeekFront => Abstract!PeekFront
  /\ PushFail \/ Empty => Abstract!Fail
  /\ \A then \in {"ready", "none"} : Reset(then) => Abstract!Clear

(* Every operation of the linked list does to its elements what the         *)
(* interface says, and returns what it says; the turns of the freeing loop  *)
(* do nothing to them.                                                      *)
ImplementsDeque == Abstract!Spec /\ [][CallsKept]_dequevars
=============================================================================
