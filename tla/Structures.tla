----------------------------- MODULE Structures -----------------------------
(***************************************************************************)
(* The data structures that need the longest runs, for TLC: the sorted     *)
(* arrays, the hash set and the searches.  A behaviour uses one of them;   *)
(* the others stay as they were created.                                   *)
(***************************************************************************)
EXTENDS SortedArray, HashSet, Search

CONSTANTS Structure     \* those to use: "arrays", "table", "search"

ASSUME StructureAssumption == Structure \subseteq {"arrays", "table", "search"}

VARIABLE used

structurevars == <<used, arrayvars, tablevars, searchvars>>

(* Any value of what a structure is configured with will do while it is     *)
(* not used.                                                                *)
AnyTable == /\ min_size = (CHOOSE m \in MinSizes : TRUE)
            /\ shrink = (CHOOSE s \in Shrinks : TRUE)
            /\ expand = (CHOOSE e \in Expands : TRUE)
AnyProblem == /\ problem = (CHOOSE p \in Problems : TRUE)
              /\ strategy = "breadth"

StructureInit ==
  /\ used \in Structure
  /\ used # "table" => AnyTable
  /\ used # "search" => AnyProblem
  /\ ArrayInit /\ TableInit /\ SearchInit

Using(s) ==
  /\ used = s /\ UNCHANGED used
  /\ s # "arrays" => UNCHANGED arrayvars
  /\ s # "table" => UNCHANGED tablevars
  /\ s # "search" => UNCHANGED searchvars

StructureNext == \/ Using("arrays") /\ ArrayNext
                 \/ Using("table") /\ TableNext
                 \/ Using("search") /\ SearchNext

StructureSpec == StructureInit /\ [][StructureNext]_structurevars /\ SearchFairness
=============================================================================
