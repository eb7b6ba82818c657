--------------------------- MODULE PrimeGenerator ---------------------------
(***************************************************************************)
(* The prime generator (src/math/PrimeGenerator.c): a thread that extends  *)
(* a shared list on request, the clients that read it, and the thread that *)
(* initialises and shuts it down.                                          *)
(*                                                                         *)
(* Threads share the list under a mutex (held by the generator's thread    *)
(* for a whole job), a spin lock (held while the list is reallocated and   *)
(* extended) and, in several places, under no lock at all.  A step of the  *)
(* model is the code between two accesses another thread can observe.      *)
(*                                                                         *)
(* The bits a job leaves set are an element of JobResults: the locking     *)
(* depends on their number only.  What the sieve computes is in module     *)
(* PrimeSieveJobs.                                                         *)
(***************************************************************************)
EXTENDS PrimeSieve

CONSTANTS Clients,      \* threads that call primegen_get_next
          JobBits,      \* job_size: bits of the bitfield
          JobResults,   \* the sets of bits a job may leave set
          LowWater,     \* 32: entries left when a client asks for more
          Slack,        \* 8: least growth of the list's storage
          Estimates,    \* values of end / log(end) * 1.2
          Creation,     \* outcomes of pthread_create
          Spurious,     \* phases with spurious wake-ups: "init", "run"
          MaxIndex,     \* bound: index of the last entry a client asks for
          MaxEnd        \* bound: no spurious wake-up beyond this number

Free == "free"
Worker == "worker"

ASSUME ClientsAssumption == Free \notin Clients /\ Worker \notin Clients
ASSUME JobAssumption ==
  /\ JobBits \in Nat
  /\ JobResults \subseteq (SUBSET (0..(JobBits - 1))) \ {{}}
ASSUME SizesAssumption == LowWater \in Nat /\ Slack \in Nat \ {0} /\ Estimates \subseteq Nat
ASSUME CreationAssumption == Creation \subseteq BOOLEAN
ASSUME BoundsAssumption == MaxIndex \in Int /\ MaxEnd \in Int

VARIABLES
  mutex,      \* holder of primegen_mutex, or Free
  spin,       \* holder of primegen_list_lock, or Free
  ready,      \* primegen_thr_ready
  exit,       \* primegen_thr_exit
  list,       \* the storage primegen_list points to; <<>> for NULL
  len,        \* primegen_list_len
  mpc,        \* where the initialising and exiting thread is
  created,    \* ret = 0 in internal_primegen_init
  wpc,        \* where the generator's thread is; "wait": inside pthread_cond_wait
  end,        \* its local variable
  bits,       \* the bits of its bitfield that are still to be extracted
  new,        \* its local new_primes
  cpc,        \* where each client is
  idx,        \* its state.last_prime_index; -1 stands for SIZE_MAX
  val,        \* its state.last_prime
  ptr         \* the list pointer it has read: "none", "live" or "freed"

shared == <<mutex, spin, ready, exit, list, len>>
main   == <<mpc, created>>
worker == <<wpc, end, bits, new>>
client == <<cpc, idx, val, ptr>>
vars   == <<shared, main, worker, client>>

AllBits == 0..(JobBits - 1)

Init == /\ mutex = Free /\ spin = Free
        /\ ready = FALSE /\ exit = FALSE
        /\ list = <<>> /\ len = 0
        /\ mpc = "create" /\ created = FALSE
        /\ wpc = "none" /\ end = STATIC_END /\ bits = {} /\ new = 0
        /\ cpc = [c \in Clients |-> "idle"]
        /\ idx = [c \in Clients |-> -1]
        /\ val = [c \in Clients |-> 0]
        /\ ptr = [c \in Clients |-> "none"]

(* The library is initialised, and not yet unloaded. *)
Initialised == mpc \in {"up", "exiting", "join"}

(* abort() and a crash end the process, every thread with it. *)
Die == /\ mpc' = "dead" /\ wpc' = "dead"
       /\ cpc' = [c \in Clients |-> "dead"]

(* pthread_cond_broadcast: only the generator's thread ever waits. *)
Broadcast == wpc' = IF wpc = "wait" THEN "wake" ELSE wpc
-----------------------------------------------------------------------------
(* internal_primegen_init and internal_primegen_exit *)

InitCreate ==
  /\ mpc = "create"
  /\ \E ok \in Creation :
       /\ created' = ok
       /\ wpc' = IF ok THEN "boot" ELSE "none"
  /\ mpc' = "await"
  /\ UNCHANGED <<shared, end, bits, new, client>>

(* Mutant: init does not wait for the thread. *)
InitAwait_NoWait ==
  /\ mpc = "await"
  /\ mpc' = "length"
  /\ UNCHANGED <<shared, created, worker, client>>

(* The loop leaves only once the thread has set the flag. *)
InitAwait ==
  /\ mpc = "await" /\ ready
  /\ mpc' = "length"
  /\ UNCHANGED <<shared, created, worker, client>>

InitLength ==
  /\ mpc = "length"
  /\ len' = Len(StaticPrimes)
  /\ mpc' = "alloc"
  /\ UNCHANGED <<mutex, spin, ready, exit, list, created, worker, client>>

InitAlloc ==
  /\ mpc = "alloc"
  /\ list' = Realloc(<<>>, len)
  /\ mpc' = "fill"
  /\ UNCHANGED <<mutex, spin, ready, exit, len, created, worker, client>>

InitFill ==
  /\ mpc = "fill"
  /\ list' = [i \in DOMAIN list |-> IF i <= Len(StaticPrimes) THEN StaticPrimes[i] ELSE list[i]]
  /\ IF created THEN mpc' = "up" /\ UNCHANGED <<wpc, cpc>> ELSE Die
  /\ UNCHANGED <<mutex, spin, ready, exit, len, created, end, bits, new, idx, val, ptr>>

(* The library is unloaded when no client is inside it. *)
ExitCall ==
  /\ mpc = "up" /\ \A c \in Clients : cpc[c] = "idle"
  /\ mpc' = "exiting"
  /\ UNCHANGED <<shared, created, worker, client>>

(* Mutant: the flag is set, but the waiting thread is not woken. *)
ExitSignal_Silent ==
  /\ mpc = "exiting" /\ mutex = Free
  /\ exit' = TRUE
  /\ mpc' = "join"
  /\ UNCHANGED <<mutex, spin, ready, list, len, created, worker, client>>

(* Lock, set the flag, broadcast, unlock: nothing observes the steps between. *)
ExitSignal ==
  /\ mpc = "exiting" /\ mutex = Free
  /\ exit' = TRUE
  /\ Broadcast
  /\ mpc' = "join"
  /\ UNCHANGED <<mutex, spin, ready, list, len, created, end, bits, new, client>>

ExitJoin ==
  /\ mpc = "join" /\ wpc = "done"
  /\ mpc' = "down"
  /\ UNCHANGED <<shared, created, worker, client>>
-----------------------------------------------------------------------------
(* internal_primegen_main *)

WorkerBoot ==
  /\ wpc = "boot" /\ mutex = Free
  /\ mutex' = Worker
  /\ ready' = TRUE
  /\ wpc' = "loop"
  /\ UNCHANGED <<spin, exit, list, len, main, end, bits, new, client>>

(* The loop's test, then pthread_cond_wait, which releases the mutex. *)
WorkerLoop ==
  /\ wpc = "loop"
  /\ IF exit THEN wpc' = "leave" /\ UNCHANGED mutex
             ELSE wpc' = "wait" /\ mutex' = Free
  /\ UNCHANGED <<spin, ready, exit, list, len, main, end, bits, new, client>>

SpuriousWakeup ==
  /\ wpc = "wait" /\ end < MaxEnd
  /\ IF Initialised THEN "run" \in Spurious ELSE "init" \in Spurious
  /\ wpc' = "wake"
  /\ UNCHANGED <<shared, main, end, bits, new, client>>

(* Mutant: a job that does not wait for the mutex. *)
WorkerWake_NoMutex ==
  /\ wpc = "wake"
  /\ wpc' = IF exit THEN "leave" ELSE "sieve"
  /\ UNCHANGED <<shared, main, end, bits, new, client>>

(* pthread_cond_wait takes the mutex again before it returns. *)
WorkerWake ==
  /\ wpc = "wake" /\ mutex = Free
  /\ mutex' = Worker
  /\ wpc' = IF exit THEN "leave" ELSE "sieve"
  /\ UNCHANGED <<spin, ready, exit, list, len, main, end, bits, new, client>>

(* Both passes.  The first one reads the list from its third entry on. *)
WorkerSieve ==
  /\ wpc = "sieve"
  /\ end' = JobEnd(end, JobBits)
  /\ \E found \in JobResults : bits' = found
  /\ IF len > 2 /\ list = <<>>
       THEN Die
       ELSE wpc' = (IF exit THEN "leave" ELSE "store") /\ UNCHANGED <<mpc, cpc>>
  /\ UNCHANGED <<shared, created, new, idx, val, ptr>>

(* realloc may move the list: a pointer read before it is no longer valid. *)
Moved == [c \in Clients |-> IF ptr[c] = "live" THEN "freed" ELSE ptr[c]]

MaxOf(a, b) == IF a > b THEN a ELSE b

(* Mutant: the estimate alone decides the size. *)
WorkerStore_NoMax ==
  /\ wpc = "store" /\ spin = Free
  /\ spin' = Worker
  /\ new' = len
  /\ \E estimate \in Estimates : list' = Realloc(list, estimate)
  /\ ptr' = Moved
  /\ wpc' = "extract"
  /\ UNCHANGED <<mutex, ready, exit, len, main, end, bits, cpc, idx, val>>

(* Mutant: the new length is published before the entries are written. *)
WorkerStore_PublishEarly ==
  /\ wpc = "store" /\ spin = Free
  /\ spin' = Worker
  /\ new' = len
  /\ len' = len + Cardinality(bits)
  /\ \E estimate \in Estimates : list' = Realloc(list, MaxOf(estimate, len + Slack))
  /\ ptr' = Moved
  /\ wpc' = "extract"
  /\ UNCHANGED <<mutex, ready, exit, main, end, bits, cpc, idx, val>>

WorkerStore ==
  /\ wpc = "store" /\ spin = Free
  /\ spin' = Worker
  /\ new' = len
  /\ \E estimate \in Estimates : list' = Realloc(list, MaxOf(estimate, len + Slack))
  /\ ptr' = Moved
  /\ wpc' = "extract"
  /\ UNCHANGED <<mutex, ready, exit, len, main, end, bits, cpc, idx, val>>

(* The least element of a set of numbers, if it has one. *)
Least(set) == {m \in set : \A n \in set : m <= n}

(* Mutant: no growth when the storage is full. *)
WorkerExtract_NoGrowth ==
  /\ wpc = "extract" /\ bits # {}
  /\ \E bit \in Least(bits) :
         /\ list' = [list EXCEPT ![new + 1] = BitValue(JobStart(end - 2 * JobBits), bit)]
         /\ bits' = bits \ {bit}
  /\ new' = new + 1
  /\ UNCHANGED <<mutex, spin, ready, exit, len, main, wpc, end, client>>

(* One turn of bitfield_for_each, which takes the set bits in ascending     *)
(* order: grow the storage if it is full, append the bit's number.          *)
WorkerExtract ==
  /\ wpc = "extract" /\ bits # {}
  /\ \E bit \in Least(bits) :
       /\ LET full == new = Len(list)
              room == IF full THEN Realloc(list, new + Slack) ELSE list
          IN  /\ list' = [room EXCEPT ![new + 1] = BitValue(JobStart(end - 2 * JobBits), bit)]
              /\ ptr' = IF full THEN Moved ELSE ptr
       /\ bits' = bits \ {bit}
  /\ new' = new + 1
  /\ UNCHANGED <<mutex, spin, ready, exit, len, main, wpc, end, cpc, idx, val>>

WorkerPublish ==
  /\ wpc = "extract" /\ bits = {}
  /\ len' = new
  /\ spin' = Free
  /\ wpc' = "loop"
  /\ UNCHANGED <<mutex, ready, exit, list, main, end, bits, new, client>>

WorkerLeave ==
  /\ wpc = "leave"
  /\ mutex' = Free
  /\ wpc' = "done"
  /\ UNCHANGED <<spin, ready, exit, list, len, main, end, bits, new, client>>
-----------------------------------------------------------------------------
(* primegen_get_next, for client c *)

Goto(c, pc) == cpc' = [cpc EXCEPT ![c] = pc]
Listed(c) == idx[c] < len
Read(c) == val' = [val EXCEPT ![c] = list[idx[c] + 1]]

(* Mutant: the index is counted down. *)
Call_Backward(c) ==
  /\ cpc[c] = "idle" /\ mpc = "up"
  /\ idx[c] < MaxIndex
  /\ idx' = [idx EXCEPT ![c] = @ - 1]
  /\ Goto(c, "look")
  /\ UNCHANGED <<shared, main, worker, val, ptr>>

Call(c) ==
  /\ cpc[c] = "idle" /\ mpc = "up"
  /\ idx[c] < MaxIndex
  /\ idx' = [idx EXCEPT ![c] = @ + 1]
  /\ Goto(c, "look")
  /\ UNCHANGED <<shared, main, worker, val, ptr>>

(* Mutant: the list is read without the spin lock. *)
Look_NoLock(c) ==
  /\ cpc[c] = "look"
  /\ IF Listed(c)
       THEN /\ ptr' = [ptr EXCEPT ![c] = "live"]
            /\ Goto(c, "take")
       ELSE /\ Goto(c, "slow")
            /\ UNCHANGED ptr
  /\ UNCHANGED <<shared, main, worker, idx, val>>

(* Under the spin lock: the length, and the list pointer if it is needed. *)
Look(c) ==
  /\ cpc[c] = "look" /\ spin = Free
  /\ IF Listed(c)
       THEN /\ spin' = c
            /\ ptr' = [ptr EXCEPT ![c] = "live"]
            /\ Goto(c, "take")
       ELSE /\ Goto(c, "slow")
            /\ UNCHANGED <<spin, ptr>>
  /\ UNCHANGED <<mutex, ready, exit, list, len, main, worker, idx, val>>

Take(c) ==
  /\ cpc[c] = "take"
  /\ Read(c)
  /\ ptr' = [ptr EXCEPT ![c] = "none"]
  /\ spin' = Free
  /\ Goto(c, "low")
  /\ UNCHANGED <<mutex, ready, exit, list, len, main, worker, idx>>

(* The length is read again, without a lock. *)
Low(c) ==
  /\ cpc[c] = "low"
  /\ Goto(c, IF len - idx[c] <= LowWater THEN "request" ELSE "idle")
  /\ UNCHANGED <<shared, main, worker, idx, val, ptr>>

RequestTry(c) ==
  /\ cpc[c] = "request"
  /\ IF mutex = Free THEN mutex' = c /\ Goto(c, "signal")
                     ELSE Goto(c, "idle") /\ UNCHANGED mutex
  /\ UNCHANGED <<spin, ready, exit, list, len, main, worker, idx, val, ptr>>

RequestSignal(c) ==
  /\ cpc[c] = "signal"
  /\ Broadcast
  /\ mutex' = Free
  /\ Goto(c, "idle")
  /\ UNCHANGED <<spin, ready, exit, list, len, main, end, bits, new, idx, val, ptr>>

SlowLock(c) ==
  /\ cpc[c] = "slow" /\ mutex = Free
  /\ mutex' = c
  /\ Goto(c, "recheck")
  /\ UNCHANGED <<spin, ready, exit, list, len, main, worker, idx, val, ptr>>

(* "Got it" returns with the mutex still locked. *)
GotIt(c) ==
  /\ cpc[c] = "recheck" /\ Listed(c)
  /\ Read(c)
  /\ Goto(c, "idle")
  /\ UNCHANGED <<shared, main, worker, idx, ptr>>

(* Mutant: the thread is not woken. *)
SlowSignal_Silent(c) ==
  /\ cpc[c] = "recheck" /\ ~Listed(c)
  /\ mutex' = Free
  /\ Goto(c, "try")
  /\ UNCHANGED <<spin, ready, exit, list, len, main, worker, idx, val, ptr>>

SlowSignal(c) ==
  /\ cpc[c] = "recheck" /\ ~Listed(c)
  /\ Broadcast
  /\ mutex' = Free
  /\ Goto(c, "try")
  /\ UNCHANGED <<spin, ready, exit, list, len, main, end, bits, new, idx, val, ptr>>

(* pthread_mutex_trylock; EBUSY is taken to mean that the thread is at work. *)
Try(c) ==
  /\ cpc[c] = "try"
  /\ IF mutex = Free THEN mutex' = c /\ Goto(c, "release")
                     ELSE Goto(c, "block") /\ UNCHANGED mutex
  /\ UNCHANGED <<spin, ready, exit, list, len, main, worker, idx, val, ptr>>

Block(c) ==
  /\ cpc[c] = "block" /\ mutex = Free
  /\ mutex' = c
  /\ Goto(c, "verify")
  /\ UNCHANGED <<spin, ready, exit, list, len, main, worker, idx, val, ptr>>

Verify(c) ==
  /\ cpc[c] = "verify"
  /\ IF Listed(c)
       THEN Read(c) /\ mutex' = Free /\ Goto(c, "idle") /\ UNCHANGED <<mpc, wpc>>
       ELSE Die /\ UNCHANGED <<mutex, val>>
  /\ UNCHANGED <<spin, ready, exit, list, len, created, end, bits, new, idx, ptr>>

Release(c) ==
  /\ cpc[c] = "release"
  /\ mutex' = Free
  /\ Goto(c, "peek")
  /\ UNCHANGED <<spin, ready, exit, list, len, main, worker, idx, val, ptr>>

(* Neither lock is held here: the length, the pointer, then the entry. *)
Peek(c) ==
  /\ cpc[c] = "peek"
  /\ IF Listed(c) THEN ptr' = [ptr EXCEPT ![c] = "live"] /\ Goto(c, "fetch")
                  ELSE Goto(c, "try") /\ UNCHANGED ptr
  /\ UNCHANGED <<shared, main, worker, idx, val>>

Fetch(c) ==
  /\ cpc[c] = "fetch"
  /\ \/ Read(c)
     \/ ptr[c] = "freed" /\ val' = [val EXCEPT ![c] = Garbage]
  /\ ptr' = [ptr EXCEPT ![c] = "none"]
  /\ Goto(c, "idle")
  /\ UNCHANGED <<shared, main, worker, idx>>
-----------------------------------------------------------------------------
MainStep == \/ InitCreate \/ InitAwait \/ InitLength \/ InitAlloc \/ InitFill
            \/ ExitSignal \/ ExitJoin

WorkerStep == \/ WorkerBoot \/ WorkerLoop \/ WorkerWake \/ WorkerSieve
              \/ WorkerStore \/ WorkerExtract \/ WorkerPublish \/ WorkerLeave

(* The steps of a call, once it is made. *)
CallStep(c) == \/ Look(c) \/ Take(c) \/ Low(c) \/ RequestTry(c) \/ RequestSignal(c)
               \/ SlowLock(c) \/ GotIt(c) \/ SlowSignal(c) \/ Try(c) \/ Block(c)
               \/ Verify(c) \/ Release(c) \/ Peek(c) \/ Fetch(c)

Next == \/ MainStep \/ ExitCall
        \/ WorkerStep \/ SpuriousWakeup
        \/ \E c \in Clients : Call(c) \/ CallStep(c)

Spec == Init /\ [][Next]_vars

(* Every thread keeps running.  A thread that waits for the mutex or the    *)
(* spin lock gets it if it is free again and again: the clients' polling    *)
(* loop yields the processor each time it has released the mutex.           *)
Fairness ==
  /\ WF_vars(MainStep) /\ SF_vars(ExitSignal)
  /\ WF_vars(WorkerStep)
  /\ SF_vars(WorkerBoot \/ WorkerWake \/ WorkerStore)
  /\ \A c \in Clients : /\ WF_vars(CallStep(c))
                        /\ SF_vars(Look(c) \/ SlowLock(c) \/ Block(c))

FairSpec == Spec /\ Fairness
-----------------------------------------------------------------------------
MainStates   == {"create", "await", "length", "alloc", "fill", "up", "exiting",
                 "join", "down", "dead"}
WorkerStates == {"none", "boot", "loop", "wait", "wake", "sieve", "store",
                 "extract", "leave", "done", "dead"}
ClientStates == {"idle", "look", "take", "low", "request", "signal", "slow",
                 "recheck", "try", "block", "verify", "release", "peek",
                 "fetch", "dead"}

TypeOK ==
  /\ mutex \in Clients \cup {Free, Worker}
  /\ spin \in Clients \cup {Free, Worker}
  /\ ready \in BOOLEAN /\ exit \in BOOLEAN
  /\ list \in Seq(Nat) /\ len \in Nat
  /\ mpc \in MainStates /\ created \in BOOLEAN
  /\ wpc \in WorkerStates /\ end \in Nat /\ bits \subseteq AllBits /\ new \in Nat
  /\ cpc \in [Clients -> ClientStates]
  /\ idx \in [Clients -> Nat \cup {-1}]
  /\ val \in [Clients -> Nat]
  /\ ptr \in [Clients -> {"none", "live", "freed"}]

(* Where the generator's thread has the mutex: everywhere but inside        *)
(* pthread_cond_wait and before and after its life.                         *)
WorkerHolds == {"loop", "sieve", "store", "extract", "leave"}
(* Where a client has it by the code it is in. *)
ClientHolds == {"signal", "recheck", "verify", "release"}

(* Each thread that believes to hold a lock holds it, whatever the other    *)
(* threads do: the generator's thread through the wait and every break of   *)
(* its loop (lines 159-199), the clients on each of the four paths that     *)
(* lock, and the spin lock while the list is extended or read.              *)
LockDiscipline ==
  /\ wpc \in WorkerHolds => mutex = Worker
  /\ \A c \in Clients : cpc[c] \in ClientHolds => mutex = c
  /\ wpc = "extract" => spin = Worker
  /\ \A c \in Clients : cpc[c] = "take" => spin = c

(* A client dereferences only the list's current storage, and inside it.    *)
(* Lines 40 and 78: the second read is made under no lock.                  *)
CleanRead ==
  \A c \in Clients : cpc[c] \in {"take", "fetch"} =>
    ptr[c] = "live" /\ idx[c] + 1 \in DOMAIN list

(* The extraction loop never writes behind the storage it reallocated.      *)
WriteInCapacity == wpc = "extract" => new <= Len(list)

(* What is published stays: a job never shortens the list nor changes an    *)
(* entry a client may already have taken.                                   *)
PublishedStable ==
  [][Initialised =>
       /\ len' >= len
       /\ \A i \in 1..len : /\ i \in DOMAIN list /\ i \in DOMAIN list'
                            /\ list'[i] = list[i]]_<<list, len>>

(* When a call has returned, its number is the list's entry at its index,   *)
(* on all four paths that return one.                                       *)
ResultIsEntry ==
  \A c \in Clients : cpc[c] = "idle" /\ idx[c] >= 0 => val[c] = list[idx[c] + 1]

(* Line 72: the client never finds that a whole job has given it nothing.   *)
NoAbort == \A c \in Clients : cpc[c] # "dead"

(* A client gives up (lines 70-72, "primegen's thread did not generate      *)
(* primes!") only over a thread that had a turn since it was asked.         *)
AbortMeansNoPrimes ==
  \A c \in Clients : cpc[c] = "verify" /\ ~Listed(c) => wpc # "wake"

(* A client that has returned still holds the mutex: the "Got it" path. *)
Leaked == \E c \in Clients : mutex = c /\ cpc[c] \notin ClientHolds

(* Every call of primegen_get_next returns. *)
CallReturns == \A c \in Clients : cpc[c] = "look" ~> cpc[c] = "idle"

(* The leaked mutex is the only thing a call can wait for in vain. *)
CallReturnsOrLeak == \A c \in Clients : cpc[c] = "look" ~> (cpc[c] = "idle" \/ Leaked)

(* internal_primegen_exit returns, unless it waits for that mutex: the      *)
(* thread notices the flag wherever it is (lines 161 to 176) and is joined. *)
ExitJoinsOrLeak == mpc = "exiting" ~> (mpc = "down" \/ Leaked)
=============================================================================
