---------------------------- MODULE MCStructures -----------------------------
(* An instance of module Structures for TLC. *)
EXTENDS Structures

TwoBatches == {<<2, 1>>, <<1, 2, 1>>}

(* 0, 2 and 6 meet in one bucket while there are two, 2 and 6 also while     *)
(* there are four.                                                           *)
KeyItself == [k \in HashKeys |-> k]

(* Cyclic and acyclic graphs over four states, with a state listed twice,    *)
(* states nobody reaches and self-loops.                                     *)
FourStates == 1..4

(* The order goes by the heuristic; goals are least, but for ties the order *)
(* decides; a heuristic below zero, which the order puts before the goal;   *)
(* no goal, and keys that do not begin their element.                       *)
Measures ==
  {[heuristic |-> <<2, 1, 3, 0>>, rank |-> <<3, 2, 4, 1>>, offset |-> 0],
   [heuristic |-> <<2, 0, 1, 0>>, rank |-> <<4, 2, 3, 1>>, offset |-> 0],
   [heuristic |-> <<-1, 2, -2, 0>>, rank |-> <<-1, 2, -2, 0>>, offset |-> 0],
   [heuristic |-> <<1, 2, 1, 3>>, rank |-> <<2, 3, 1, 4>>, offset |-> 1]}

FourStateProblems ==
  {[children |-> <<first, second, third, fourth>>,
    heuristic |-> m.heuristic, rank |-> m.rank, offset |-> m.offset] :
     first \in {<<2, 3>>, <<3, 4>>},
     second \in {<<>>, <<4>>, <<3, 4>>, <<2, 1>>},
     third \in {<<>>, <<2>>, <<2, 2>>, <<4, 1>>},
     fourth \in {<<>>, <<2, 3>>},
     m \in Measures}
=============================================================================
