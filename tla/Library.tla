------------------------------- MODULE Library ------------------------------
(***************************************************************************)
(* The parts that depend on the system the library runs on, for TLC: the   *)
(* life cycle with the runtime, and the clock.  A behaviour is one of them.*)
(***************************************************************************)
EXTENDS Lifecycle, Clock

VARIABLE part       \* the one a behaviour is about: "lifecycle" or "clock"

libraryvars == <<part, lifevars, runtimevars, clockvars>>

(* Any system will do for the clock, either source for the life cycle. *)
AnySystem ==
  /\ platform = "linux" /\ link = "elf"
  /\ [cpu |-> cpu, reported |-> reported] = CHOOSE s \in Systems : TRUE

LibraryInit ==
  /\ part \in {"lifecycle", "clock"}
  /\ ClockInit /\ LifeInit
  /\ part = "lifecycle" => source = "timespec"
  /\ part = "clock" => AnySystem

LibraryNext ==
  \/ part = "lifecycle" /\ LifeNext /\ UNCHANGED <<part, clockvars>>
  \/ part = "clock" /\ ClockNext /\ UNCHANGED <<part, lifevars, runtimevars>>

LibrarySpec == LibraryInit /\ [][LibraryNext]_libraryvars /\ LifeFairness
=============================================================================
