---------------------------- MODULE BoundedDeque ----------------------------
(***************************************************************************)
(* What src/structures/Dequeue.h promises: a sequence that is extended and *)
(* shortened at both ends.  A push may fail for lack of memory; a failed   *)
(* operation leaves the sequence as it was.  result is what the last call  *)
(* returned: its error code and the value it stored for the caller.        *)
(***************************************************************************)
EXTENDS Integers, Sequences

CONSTANTS Values, None

VARIABLES seq, result

vars == <<seq, result>>

Returned(code, value) == [code |-> code, value |-> value]

Init == seq = <<>> /\ result = Returned(0, None)

Fail == result' = Returned(1, None) /\ UNCHANGED seq

PushBack(v)  == seq' = Append(seq, v) /\ result' = Returned(0, None)
PushFront(v) == seq' = <<v>> \o seq /\ result' = Returned(0, None)

(* A pop or a peek of an empty sequence fails; a pop may drop its value. *)
Popped(value) == result' \in {Returned(0, value), Returned(0, None)}

PopBack  == /\ seq # <<>>
            /\ seq' = SubSeq(seq, 1, Len(seq) - 1)
            /\ Popped(seq[Len(seq)])
PopFront == /\ seq # <<>>
            /\ seq' = SubSeq(seq, 2, Len(seq))
            /\ Popped(seq[1])

PeekBack  == seq # <<>> /\ result' = Returned(0, seq[Len(seq)]) /\ UNCHANGED seq
PeekFront == seq # <<>> /\ result' = Returned(0, seq[1]) /\ UNCHANGED seq

Clear == seq' = <<>> /\ result' = Returned(0, None)

Next == \/ Fail \/ Clear
        \/ \E v \in Values : PushBack(v) \/ PushFront(v)
        \/ PopBack \/ PopFront \/ PeekBack \/ PeekFront

Spec == Init /\ [][Next]_vars
=============================================================================
