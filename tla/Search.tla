------------------------------- MODULE Search -------------------------------
(***************************************************************************)
(* The searches of src/ai/search: breadth first (BFS.c), depth first       *)
(* (DFS.c) and best first (BestFirst.c).  One step of the program is one   *)
(* call of *_step; the caller gives the problem and calls as long as it    *)
(* likes.  Any allocation inside a call may fail.                          *)
(*                                                                         *)
(* The frontier is the sequence of module BoundedDeque for the first two   *)
(* and of module SortedBag for the third, the closed set the set of module *)
(* KeyedSet: what those components are shown to keep is used here.         *)
(***************************************************************************)
EXTENDS Integers, SequencesExt

CONSTANTS States, Start,
          Problems,      \* records, see ProblemsAssumption
          MaxFailures    \* bound: allocations that fail

Strategies == {"breadth", "depth", "best"}

(* What the caller hands over: the children and the heuristic of each       *)
(* state, a signed number; where the state type's cmp_l puts the state; and *)
(* the offset of the key in an element.  A state is represented by its key. *)
ASSUME ProblemsAssumption ==
  /\ Start \in States
  /\ \A p \in Problems : /\ p.children \in [States -> Seq(States)]
                         /\ p.heuristic \in [States -> Int]
                         /\ p.rank \in [States -> Int]
                         /\ p.offset \in Nat

(* cmp_l is a total order of the keys: a bucket of the closed set is        *)
(* searched by it, and a state that ties with another one would be missed.  *)
ASSUME OrderAssumption ==
  \A p \in Problems : \A s, t \in States : p.rank[s] = p.rank[t] => s = t

(* What best first can be used for.  sorted_array_merge sorts the children, *)
(* and sort() fails for a single element and for keys that do not begin     *)
(* their element: see module HeapSort.                                      *)
Fit(p, s) ==
  s = "best" => p.offset = 0 /\ \A state \in States : Len(p.children[state]) # 1

ASSUME StatesAssumption == IsFiniteSet(States)
ASSUME FailuresAssumption == MaxFailures \in Nat

VARIABLES problem, strategy,
          life,       \* of the search object: "none", "live", "gone"
          frontier,   \* in the order of its storage
          closed,     \* closed_set
          code,       \* what the last call returned
          goal,       \* *goal_state, written by the caller before
          found,      \* history: the goals handed out
          lost,       \* history: a state was taken off and its children were not stored
          failures    \* counts the failed allocations

searchvars == <<problem, strategy, life, frontier, closed, code, goal, found, lost, failures>>

Children(s) == problem.children[s]
IsGoal(s) == problem.heuristic[s] = 0

SearchInit == /\ problem \in Problems /\ strategy \in Strategies /\ Fit(problem, strategy)
        /\ life = "none" /\ frontier = <<>> /\ closed = {}
        /\ code = "none" /\ goal = Start
        /\ found = {} /\ lost = FALSE /\ failures = 0

MayFail == failures < MaxFailures /\ failures' = failures + 1
-----------------------------------------------------------------------------
(* bfs_create, dfs_create, bestfs_create *)

CreateWith ==
  /\ frontier' = <<Start>>
  /\ UNCHANGED <<lost, failures>>

(* bestfs_create does not look at what sorted_array_insert returns. *)
CreateWithout ==
  /\ strategy = "best" /\ MayFail
  /\ lost' = TRUE
  /\ UNCHANGED frontier

Create ==
  /\ life = "none"
  /\ CreateWith \/ CreateWithout
  /\ life' = "live" /\ code' = "continue"
  /\ UNCHANGED <<problem, strategy, closed, goal, found>>

Destroy ==
  /\ life = "live"
  /\ life' = "gone"
  /\ UNCHANGED <<problem, strategy, frontier, closed, code, goal, found, lost, failures>>
-----------------------------------------------------------------------------
(* The state a step takes off, and what is left: dequeue_pop_front, or      *)
(* sorted_array_pop, which takes the last.                                  *)
Current == IF strategy = "best" THEN Last(frontier) ELSE Head(frontier)
Remaining == IF strategy = "best" THEN Front(frontier) ELSE Tail(frontier)

(* The items of s that are in S, in their order. *)
Kept(s, S) ==
  LET kept[i \in 0..Len(s)] ==
        IF i = 0 THEN <<>>
        ELSE IF s[i] \in S THEN Append(kept[i - 1], s[i]) ELSE kept[i - 1]
  IN  kept[Len(s)]

(* Mutant: the loop over the children starts at the second. *)
Fresh_SkipsFirst(children) == Kept(SubSeq(children, 2, Len(children)), States \ closed)

(* The children that are pushed, in the order of the loop. *)
Fresh(children) == Kept(children, States \ closed)

(* Mutant: breadth first pushes to the front as well. *)
Pushed_Front(rest, children) == Reverse(children) \o rest

(* dequeue_push_back or dequeue_push_front of each. *)
Pushed(rest, children) ==
  IF strategy = "breadth" THEN rest \o children ELSE Reverse(children) \o rest

(* Mutant: the comparison of the state type, not the reversed one. *)
Queued_NotReversed(rest, s) ==
  LET r == problem.rank
  IN  Kept(rest, {t \in States : r[t] < r[s]}) \o <<s>> \o Kept(rest, {t \in States : r[t] >= r[s]})

(* Where the merge puts a child: the array descends, as the comparison is   *)
(* reversed, and those that compare equal to the child are behind it.       *)
Queued(rest, s) ==
  LET r == problem.rank
  IN  Kept(rest, {t \in States : r[t] > r[s]}) \o <<s>> \o Kept(rest, {t \in States : r[t] <= r[s]})

QueuedEach(rest, s) ==
  LET queued[i \in 0..Len(s)] == IF i = 0 THEN rest ELSE Queued(queued[i - 1], s[i])
  IN  queued[Len(s)]

(* sorted_array_merge; the sort it starts with is not stable, so that equal *)
(* children may come in any order.                                          *)
QueuedAll(rest, children) ==
  {QueuedEach(rest, [i \in DOMAIN children |-> children[sorting[i]]]) :
     sorting \in Bijection(DOMAIN children, DOMAIN children)}

(* The frontiers after all children are stored, and after a call failed:    *)
(* the pushes before it stay, a merge stores all or none.                   *)
Stored(rest, children) ==
  IF strategy = "best" THEN QueuedAll(rest, children) ELSE {Pushed(rest, Fresh(children))}
Broken(rest, children) ==
  IF strategy = "best" THEN {rest}
  ELSE LET fresh == Fresh(children)
       IN  {Pushed(rest, SubSeq(fresh, 1, n)) : n \in 0..(Len(fresh) - 1)}
-----------------------------------------------------------------------------
(* bfs_step, dfs_step, bestfs_step *)

StepEmpty ==
  /\ frontier = <<>>
  /\ code' = "exhausted"
  /\ UNCHANGED <<frontier, closed, goal, found, lost, failures>>

StepNoBuffer ==
  /\ frontier # <<>> /\ MayFail
  /\ code' = "error"
  /\ UNCHANGED <<frontier, closed, goal, found, lost>>

(* Mutant: no test of the closed set. *)
AlreadySearched_Never == FALSE
AlreadySearched == Current \in closed

StepAgain ==
  /\ frontier # <<>> /\ AlreadySearched
  /\ frontier' = Remaining
  /\ code' = "continue"
  /\ UNCHANGED <<closed, goal, found, lost, failures>>

Unsearched == frontier # <<>> /\ ~AlreadySearched

StepGoal ==
  /\ Unsearched /\ IsGoal(Current)
  /\ frontier' = Remaining
  /\ goal' = Current /\ code' = "goal" /\ found' = found \cup {Current}
  /\ UNCHANGED <<closed, lost, failures>>

(* Mutant: the state is not added to the closed set. *)
StepExpand_NotClosed ==
  /\ Unsearched /\ ~IsGoal(Current)
  /\ frontier' \in Stored(Remaining, Children(Current))
  /\ code' = "continue"
  /\ UNCHANGED <<closed, goal, found, lost, failures>>

StepExpand ==
  /\ Unsearched /\ ~IsGoal(Current)
  /\ frontier' \in Stored(Remaining, Children(Current))
  /\ closed' = closed \cup {Current}
  /\ code' = "continue"
  /\ UNCHANGED <<goal, found, lost, failures>>

(* A child cannot be stored: the state is taken off and not closed. *)
StepBroken ==
  /\ Unsearched /\ ~IsGoal(Current) /\ Children(Current) # <<>> /\ MayFail
  /\ frontier' \in Broken(Remaining, Children(Current))
  /\ lost' = TRUE
  /\ code' = "error"
  /\ UNCHANGED <<closed, goal, found>>

(* hashset_add fails once the children are stored. *)
StepNotClosed ==
  /\ Unsearched /\ ~IsGoal(Current) /\ MayFail
  /\ frontier' \in Stored(Remaining, Children(Current))
  /\ code' = "error"
  /\ UNCHANGED <<closed, goal, found, lost>>

SearchStep ==
  /\ life = "live"
  /\ \/ StepEmpty \/ StepNoBuffer \/ StepAgain \/ StepGoal
     \/ StepExpand \/ StepBroken \/ StepNotClosed
  /\ UNCHANGED <<problem, strategy, life>>

SearchNext == Create \/ SearchStep \/ Destroy

SearchSpec == SearchInit /\ [][SearchNext]_searchvars

(* The caller's loop: it calls again as long as it is told to continue.     *)
SearchFairness == WF_searchvars(code = "continue" /\ SearchStep)

FairSearchSpec == SearchSpec /\ SearchFairness
-----------------------------------------------------------------------------
SearchTypeOK ==
  /\ problem \in Problems /\ strategy \in Strategies
  /\ life \in {"none", "live", "gone"}
  /\ frontier \in Seq(States) /\ closed \subseteq States /\ found \subseteq States
  /\ code \in {"none", "continue", "goal", "error", "exhausted"}
  /\ goal \in States /\ (code = "goal" => IsGoal(goal))
  /\ lost \in BOOLEAN /\ failures \in 0..MaxFailures

(* The states within n steps of the start, none of them behind a goal: a    *)
(* goal is handed out and not expanded.                                     *)
Within(n) ==
  LET level[i \in 0..n] ==
        IF i = 0 THEN {Start}
        ELSE level[i - 1] \cup UNION {ToSet(Children(s)) : s \in {t \in level[i - 1] : ~IsGoal(t)}}
  IN  level[n]

Reachable == Within(Cardinality(States))
Distance(s) == CHOOSE n \in 0..Cardinality(States) :
                 s \in Within(n) /\ \A m \in 0..(n - 1) : s \notin Within(m)

(* "If all the nodes have been searched, then it returns -1": unless a step *)
(* or the creation has lost a state, -1 means that every reachable goal has *)
(* been handed out, whichever other calls have failed.                      *)
Exhausted ==
  /\ SearchTypeOK
  /\ code = "exhausted" /\ ~lost => \A s \in Reachable : IsGoal(s) => s \in found

(* Breadth first hands out the goals in the order of their distance, so the *)
(* first one is a nearest one.                                              *)
NearestFirst ==
  strategy = "breadth" /\ code = "goal" /\ ~lost =>
    \A s \in Reachable \ found : IsGoal(s) => Distance(s) >= Distance(goal)

(* Whatever the state type's order has to do with the heuristic, the state  *)
(* best first takes off is one that no other in the frontier is less than:  *)
(* through the reversed comparison, the merge of children in any order and  *)
(* the pop from the far end.                                                *)
LeastNext ==
  strategy = "best" /\ frontier # <<>> =>
    \A s \in ToSet(frontier) : problem.rank[Current] <= problem.rank[s]

(* The order and the heuristic agree about the goals: a goal is less than   *)
(* any other state.  The code takes this for granted: the frontier is       *)
(* sorted by cmp_l alone ("sorting based on the heuristic", BestFirst.c,    *)
(* line 47) and the heuristic only tells a goal.                            *)
GoalsLeast(p) ==
  \A s, t \in States : p.heuristic[s] = 0 /\ p.heuristic[t] # 0 => p.rank[s] < p.rank[t]

(* For such a problem, best first hands out a goal with the very next call  *)
(* that does not fail once one is in the frontier.                          *)
EagerGoal ==
  [][(/\ strategy = "best" /\ GoalsLeast(problem)
      /\ SearchStep /\ code' # "error"
      /\ \E i \in DOMAIN frontier : IsGoal(frontier[i])) => code' = "goal"]_searchvars

(* The calls come to an end: on a finite problem, cycles or not, the caller *)
(* is not told to continue for ever.                                        *)
SearchEnds == life = "live" ~> (life = "gone" \/ code # "continue")

Graph == INSTANCE GraphSearch WITH open <- ToSet(frontier) \ closed

(* Each step does to the open and closed states what a search promises,     *)
(* whatever the order and the duplicates in the frontier.                   *)
ImplementsSearch == Graph!Spec
=============================================================================
