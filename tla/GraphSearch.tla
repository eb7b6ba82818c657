---------------------------- MODULE GraphSearch -----------------------------
(***************************************************************************)
(* What src/ai/search promises of a step, whichever strategy takes it: it  *)
(* deals with one open state, in no particular order.  A goal is handed    *)
(* out; any other state is closed and its children are open from then on,  *)
(* unless they are closed already.  A state is never dealt with once it is *)
(* closed, and only a step that reports an error may lose one.             *)
(***************************************************************************)
EXTENDS Sequences

CONSTANTS States, Problems

VARIABLES problem, open, closed, code, goal

vars == <<problem, open, closed, code, goal>>

IsGoal(s) == problem.heuristic[s] = 0
Children(s) == {problem.children[s][i] : i \in DOMAIN problem.children[s]}

Init == problem \in Problems /\ open = {} /\ closed = {} /\ code = "none" /\ goal \in States

Create(start) ==
  /\ code = "none" /\ code' = "continue"
  /\ open' = {start}
  /\ UNCHANGED <<problem, closed, goal>>

(* The object without a start state, see Search!CreateWithout. *)
CreateNothing ==
  /\ code = "none" /\ code' = "continue"
  /\ UNCHANGED <<problem, open, closed, goal>>

Exhaust == open = {} /\ code' = "exhausted" /\ UNCHANGED <<problem, open, closed, goal>>

(* A state may have been found more than once: the others are passed over.  *)
PassOver == code' = "continue" /\ UNCHANGED <<problem, open, closed, goal>>

HandOut(s) ==
  /\ s \in open /\ IsGoal(s)
  /\ goal' = s /\ code' = "goal"
  /\ open' \in {open, open \ {s}}
  /\ UNCHANGED <<problem, closed>>

Expand(s) ==
  /\ s \in open /\ ~IsGoal(s)
  /\ closed' = closed \cup {s}
  /\ open' = (open \cup Children(s)) \ closed'
  /\ code' = "continue"
  /\ UNCHANGED <<problem, goal>>

Fail(s) ==
  /\ s \in open
  /\ open \ {s} \subseteq open' /\ open' \subseteq (open \cup Children(s)) \ closed
  /\ code' = "error"
  /\ UNCHANGED <<problem, closed, goal>>

FailEarly == code' = "error" /\ UNCHANGED <<problem, open, closed, goal>>

Next == \/ \E s \in States : Create(s) \/ HandOut(s) \/ Expand(s) \/ Fail(s)
        \/ CreateNothing \/ Exhaust \/ PassOver \/ FailEarly

Spec == Init /\ [][Next]_vars
=============================================================================
