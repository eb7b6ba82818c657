----------------------------- MODULE Algorithms -----------------------------
(***************************************************************************)
(* The machines that share nothing with each other, for TLC: the heap      *)
(* sort, the sieve, a thread's fast allocator, memswap, the bitfield, the  *)
(* dequeue, the logger and the hashes.  A behaviour runs one of them; the  *)
(* variables of the others keep the values of a finished or unused one.    *)
(***************************************************************************)
EXTENDS HeapSort, PrimeSieveJobs, FAlloc, MemSwap, Bitfield, Dequeue, Logger, Hash

CONSTANT Machines     \* those to run

VARIABLE machine

(* An array of equal keys is what sorting it gives. *)
NoSort == /\ LET size == CHOOSE l \in Lengths : TRUE
                 key == CHOOSE k \in Keys : TRUE
             IN  input = Block(size, [i \in 0..(size - 1) |-> key])
          /\ mem = input
          /\ start = 0 /\ end = 0 /\ root = None

NoSieve == /\ n = (CHOOSE m \in JobSizes : TRUE)
           /\ covered = STATIC_END /\ list = StaticPrimes /\ cleared = {}

NoAllocator == platform = "none" /\ tls = NoStack /\ blocks = <<>>

NoSwap == /\ bytes = <<>> /\ dst = 0 /\ src = 0 /\ len = 0
          /\ bulk = Generic32.bulk /\ singles = <<>>
          /\ call = [dst |-> 0, src |-> 0, len |-> 0]

NoField == sizeT = 4 /\ data = <<>> /\ touched = 0

NoLog == /\ setup = [color |-> FALSE, console |-> FALSE]
         /\ level = LOGGER_ALL /\ file = "none"
         /\ Quiet

NoHash == /\ message = [function |-> "none", length |-> 0, skew |-> 0, strict |-> FALSE]
          /\ stage = "none" /\ next = 0 /\ rest = 0
          /\ register = <<>> /\ reads = {} /\ taken = {}

OneInit == /\ machine \in Machines
           /\ IF machine = "sort" THEN SortInit ELSE NoSort
           /\ IF machine = "sieve" THEN SieveInit ELSE NoSieve
           /\ IF machine = "allocator" THEN StackInit ELSE NoAllocator
           /\ IF machine = "swap" THEN SwapInit ELSE NoSwap
           /\ IF machine = "bitfield" THEN FieldInit ELSE NoField
           /\ IF machine = "logger" THEN LogInit ELSE NoLog
           /\ IF machine = "hash" THEN HashInit ELSE NoHash
           /\ DequeInit

(* The variables of machine m are the ones that may change. *)
Only(m) ==
  /\ machine = m /\ UNCHANGED machine
  /\ m # "sort" => UNCHANGED sortvars
  /\ m # "sieve" => UNCHANGED sievevars
  /\ m # "allocator" => UNCHANGED stackvars
  /\ m # "swap" => UNCHANGED swapvars
  /\ m # "bitfield" => UNCHANGED fieldvars
  /\ m # "dequeue" => UNCHANGED dequevars
  /\ m # "logger" => UNCHANGED logvars
  /\ m # "hash" => UNCHANGED hashvars

OneNext == \/ Only("sort") /\ SortNext
           \/ Only("sieve") /\ Job
           \/ Only("allocator") /\ StackNext
           \/ Only("swap") /\ SwapNext
           \/ Only("bitfield") /\ FieldNext
           \/ Only("dequeue") /\ DequeNext
           \/ Only("logger") /\ LogNext
           \/ Only("hash") /\ HashNext

onevars == <<machine, sortvars, sievevars, stackvars, swapvars, fieldvars, dequevars, logvars,
             hashvars>>

OneSpec == OneInit /\ [][OneNext]_onevars /\ WF_sortvars(SortNext)
=============================================================================
