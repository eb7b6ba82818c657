------------------------------ MODULE Lifecycle -----------------------------
(***************************************************************************)
(* Loading and unloading the library (src/core/Lifecycle_*.c) while the    *)
(* generator's thread and threads of the application use its parts.  A     *)
(* part is live from its init call to its exit call, the code as long as   *)
(* the library is mapped; what a part does is in the part's own module,    *)
(* here it is only what it uses.                                           *)
(***************************************************************************)
EXTENDS Runtime, SequencesExt

CONSTANTS OperatingSystems,     \* a subset of "linux", "mac", "windows"
          Apps                  \* threads of the application

ASSUME OperatingSystemsAssumption == OperatingSystems \subseteq {"linux", "mac", "windows"}

VARIABLES
  platform,
  loaderlock,   \* Windows: whether a thread cannot start or end while the
                \* library's entry point runs
  phase,        \* new, loading, loaded, unloading, unmapped, or gone: the
                \* process is
  way,          \* how it ends: "close" of the library, or "exit" of the process
  todo,         \* the calls left of the phase
  live,         \* the parts
  gen,          \* the generator's thread
  thr_exit,     \* primegen_thr_exit
  inside,       \* the call an application thread is in
  stacks,       \* the threads that have a fast allocator's stack
  dead          \* history: the uses of parts that were not live

system == <<platform, loaderlock>>
lifevars == <<system, phase, way, todo, live, gen, thr_exit, inside, stacks, dead>>

(* ssce_init and ssce_exit, internal_primegen_init and _exit cut in two.    *)
(* The clock's calls on Linux and internal_falloc_exit do nothing.          *)
InitCalls ==
  [linux |-> <<"falloc", "runtime", "logger", "create", "await">>,
   mac |-> <<"falloc", "runtime", "clock", "logger", "create", "await">>,
   windows |-> <<"ntdll", "falloc", "runtime", "clock", "logger", "create", "await">>]

(* Mutant: the generator is left running on Linux as well. *)
ExitCalls_NoJoin == [linux |-> <<"logger">>,
                     mac |-> <<"logger", "clock">>,
                     windows |-> <<"logger", "clock", "signal", "join">>]

ExitCalls == [linux |-> <<"logger", "signal", "join">>,
              mac |-> <<"logger", "clock">>,
              windows |-> <<"logger", "clock", "signal", "join">>]

LifeInit ==
  /\ RuntimeInit
  /\ platform \in OperatingSystems
  /\ platform = "windows" => link = "other"
  /\ platform = "mac" => link = "other" /\ cpu.arch = "x86_64"
  /\ loaderlock \in BOOLEAN /\ (loaderlock => platform = "windows")
  /\ phase = "new" /\ way = "none" /\ todo = <<>>
  /\ live = {} /\ gen = "none" /\ thr_exit = FALSE
  /\ inside = [t \in Apps |-> "out"]
  /\ stacks = {} /\ dead = {}

Uses(who, parts) ==
  dead' = dead \cup {[who |-> who, part |-> p, phase |-> phase] : p \in parts \ live}

(* A thread that is about to use its fast allocator has a stack. *)
Stacked(who) == stacks' = stacks \cup {who}
-----------------------------------------------------------------------------
(* The thread that loads and unloads. *)
Load ==
  /\ phase = "new"
  /\ phase' = "loading" /\ todo' = InitCalls[platform]
  /\ live' = live \cup {"code"}
  /\ UNCHANGED <<system, way, gen, thr_exit, inside, stacks, dead, runtimevars>>

Do(call) == todo # <<>> /\ Head(todo) = call /\ todo' = Tail(todo)

(* link_ntdll aborts the process if a function is missing. *)
LinkNtdll ==
  /\ Do("ntdll")
  /\ \/ live' = live \cup {"ntdll"} /\ UNCHANGED phase
     \/ phase' = "gone" /\ UNCHANGED live
  /\ UNCHANGED <<system, way, gen, thr_exit, inside, stacks, dead, runtimevars>>

InitFalloc ==
  /\ Do("falloc")
  /\ live' = live \cup {"falloc"}
  /\ UNCHANGED <<system, phase, way, gen, thr_exit, inside, stacks, dead, runtimevars>>

(* Windows collects its answers in a block of the fast allocator. *)
InitRuntimePart ==
  /\ Do("runtime")
  /\ InitRuntime(platform)
  /\ IF platform = "windows" THEN Uses("loader", {"falloc"}) /\ Stacked("loader")
                             ELSE UNCHANGED <<dead, stacks>>
  /\ live' = live \cup {"runtime"}
  /\ UNCHANGED <<system, phase, way, gen, thr_exit, inside>>

InitClock ==
  /\ phase = "loading" /\ Do("clock")
  /\ Uses("loader", IF platform = "windows" THEN {"ntdll"} ELSE {})
  /\ live' = live \cup {"clock"}
  /\ UNCHANGED <<system, phase, way, gen, thr_exit, inside, stacks, runtimevars>>

InitLogger ==
  /\ phase = "loading" /\ Do("logger")
  /\ live' = live \cup {"logger"}
  /\ UNCHANGED <<system, phase, way, gen, thr_exit, inside, stacks, dead, runtimevars>>

(* pthread_create may fail; init looks at that after the thread is ready. *)
CreateGenerator ==
  /\ Do("create")
  /\ gen' \in {"created", "failed"}
  /\ UNCHANGED <<system, phase, way, live, thr_exit, inside, stacks, dead, runtimevars>>

AwaitGenerator ==
  /\ gen \notin {"created", "failed"} /\ Do("await")
  /\ live' = live \cup {"primegen"}
  /\ UNCHANGED <<system, phase, way, gen, thr_exit, inside, stacks, dead, runtimevars>>

Loaded ==
  /\ phase = "loading" /\ todo = <<>>
  /\ phase' = "loaded"
  /\ UNCHANGED <<system, way, todo, live, gen, thr_exit, inside, stacks, dead, runtimevars>>

(* Who closes the library has no thread in it; an exit of the process does  *)
(* not wait for the other threads.  (On Windows it kills them first: their  *)
(* part of an exit there is not modelled.)                                  *)
Unload(w) ==
  /\ phase = "loaded"
  /\ w = "close" => \A t \in Apps : inside[t] \in {"out", "ended"}
  /\ w = "exit" => platform # "windows"
  /\ phase' = "unloading" /\ way' = w /\ todo' = ExitCalls[platform]
  /\ UNCHANGED <<system, live, gen, thr_exit, inside, stacks, dead, runtimevars>>

ExitPart(part) ==
  /\ phase = "unloading" /\ Do(part)
  /\ Uses("loader", IF part = "clock" /\ platform = "windows" THEN {"ntdll"} ELSE {})
  /\ live' = live \ {part}
  /\ UNCHANGED <<system, phase, way, gen, thr_exit, inside, stacks, runtimevars>>

(* Mutant: the thread is not told. *)
SignalGenerator_Silent ==
  /\ Do("signal")
  /\ UNCHANGED thr_exit
  /\ UNCHANGED <<system, phase, way, live, gen, inside, stacks, dead, runtimevars>>

SignalGenerator ==
  /\ Do("signal")
  /\ thr_exit' = TRUE
  /\ UNCHANGED <<system, phase, way, live, gen, inside, stacks, dead, runtimevars>>

JoinGenerator ==
  /\ gen = "ended" /\ Do("join")
  /\ live' = live \ {"primegen"}
  /\ UNCHANGED <<system, phase, way, gen, thr_exit, inside, stacks, dead, runtimevars>>

Unloaded ==
  /\ phase = "unloading" /\ todo = <<>>
  /\ phase' = IF way = "close" THEN "unmapped" ELSE "gone"
  /\ live' = {}
  /\ UNCHANGED <<system, way, todo, gen, thr_exit, inside, stacks, dead, runtimevars>>

LoaderStep ==
  /\ phase # "gone"
  /\ \/ LinkNtdll \/ InitFalloc \/ InitRuntimePart \/ InitClock \/ InitLogger
     \/ CreateGenerator \/ AwaitGenerator \/ Loaded
     \/ ExitPart("logger") \/ ExitPart("clock") \/ SignalGenerator \/ JoinGenerator \/ Unloaded
-----------------------------------------------------------------------------
(* The generator's thread, internal_primegen_main, as far as it uses other  *)
(* parts and the code; module PrimeGenerator has the rest of it.            *)
MayStartOrEnd == loaderlock => phase \notin {"loading", "unloading"}

(* falloc_malloc_aligned finds no memory for an alignment that is no power  *)
(* of two: its mask is wrong and its length huge.  The result goes to       *)
(* memset as it is.                                                         *)
NoStore == line \notin {2 ^ n : n \in 0..15}

GeneratorBegin ==
  /\ gen = "created" /\ MayStartOrEnd
  /\ Uses("generator", {"code", "runtime", "falloc"})
  /\ Stacked("generator")
  /\ IF NoStore THEN gen' = "crashed" /\ phase' = "gone"
                ELSE gen' = "waiting" /\ UNCHANGED phase
  /\ UNCHANGED <<system, way, todo, live, thr_exit, inside, runtimevars>>

(* A request, or a spurious wake-up. *)
GeneratorWork ==
  /\ gen = "waiting" /\ ~thr_exit
  /\ gen' = "busy"
  /\ Uses("generator", {"code"})
  /\ UNCHANGED <<system, phase, way, todo, live, thr_exit, inside, stacks, runtimevars>>

GeneratorDone ==
  /\ gen = "busy"
  /\ gen' = "waiting"
  /\ Uses("generator", {"code"})
  /\ UNCHANGED <<system, phase, way, todo, live, thr_exit, inside, stacks, runtimevars>>

GeneratorLeave ==
  /\ gen \in {"waiting", "busy"} /\ thr_exit
  /\ gen' = "leaving"
  /\ Uses("generator", {"code"})
  /\ UNCHANGED <<system, phase, way, todo, live, thr_exit, inside, stacks, runtimevars>>

(* The buffer goes back to the fast allocator, then the thread ends and     *)
(* thread_local_stack_destructor runs.                                      *)
GeneratorEnd ==
  /\ gen = "leaving" /\ MayStartOrEnd
  /\ gen' = "ended"
  /\ Uses("generator", {"code", "falloc"})
  /\ stacks' = stacks \ {"generator"}
  /\ UNCHANGED <<system, phase, way, todo, live, thr_exit, inside, runtimevars>>

GeneratorStep ==
  /\ phase # "gone"
  /\ GeneratorBegin \/ GeneratorWork \/ GeneratorDone \/ GeneratorLeave \/ GeneratorEnd
-----------------------------------------------------------------------------
(* Threads of the application. *)
Kinds == {"allocate", "log", "measure", "prime", "swap"}
Needs(kind) ==
  {"code"} \cup CASE kind = "allocate" -> {"falloc"}
                  [] kind = "log" -> {"logger", "falloc"}
                  [] kind = "measure" -> IF platform = "linux" THEN {} ELSE {"clock"}
                  [] kind = "prime" -> {"primegen"}
                  [] kind = "swap" -> {"runtime"}

Running == phase = "loaded" \/ (phase = "unloading" /\ way = "exit")

Enter(t, kind) ==
  /\ Running /\ inside[t] = "out"
  /\ inside' = [inside EXCEPT ![t] = kind]
  /\ Uses(t, Needs(kind))
  /\ IF kind \in {"allocate", "log"} THEN Stacked(t) ELSE UNCHANGED stacks
  /\ IF kind = "swap" /\ resolved = "none" THEN Resolve ELSE UNCHANGED runtimevars
  /\ UNCHANGED <<system, phase, way, todo, live, gen, thr_exit>>

Leave(t) ==
  /\ Running /\ inside[t] \in Kinds
  /\ inside' = [inside EXCEPT ![t] = "out"]
  /\ Uses(t, Needs(inside[t]))
  /\ UNCHANGED <<system, phase, way, todo, live, gen, thr_exit, stacks, runtimevars>>

(* The end of a thread that has a stack calls the library's destructor,     *)
(* whose key nothing deletes.                                               *)
End(t) ==
  /\ phase \notin {"new", "gone"} /\ inside[t] = "out"
  /\ inside' = [inside EXCEPT ![t] = "ended"]
  /\ Uses(t, IF t \in stacks THEN {"code"} ELSE {})
  /\ stacks' = stacks \ {t}
  /\ UNCHANGED <<system, phase, way, todo, live, gen, thr_exit, runtimevars>>

(* The ELF linker asks for memswap's variant as soon as the code is there. *)
Relocate ==
  /\ link = "elf" /\ phase \in {"loading", "loaded"}
  /\ Resolve
  /\ UNCHANGED lifevars

LifeNext ==
  \/ Load \/ LoaderStep \/ GeneratorStep \/ Relocate
  \/ \E w \in {"close", "exit"} : Unload(w)
  \/ \E t \in Apps : \/ \E kind \in Kinds : Enter(t, kind)
                     \/ Leave(t) \/ End(t)

LifeFairness == WF_<<lifevars, runtimevars>>(LoaderStep) /\ WF_<<lifevars, runtimevars>>(GeneratorStep)

LifeSpec == LifeInit /\ [][LifeNext]_<<lifevars, runtimevars>> /\ LifeFairness
-----------------------------------------------------------------------------
(* The uses the code does not exclude: a thread of the application that     *)
(* runs on through an exit of the process; the generator on macOS, which    *)
(* nothing stops; the destructor of a stack that outlives the library.      *)
Known(use) ==
  \/ use.who \in Apps /\ use.phase = "unloading" /\ way = "exit"
  \/ use.who = "generator" /\ use.phase = "unmapped" /\ platform = "mac"
  \/ use.who \in Apps /\ use.phase = "unmapped" /\ use.part = "code"

(* But for those, every part is used between its init and its exit only,    *)
(* over all orders in which the threads run: what the order of the calls in *)
(* ssce_init and ssce_exit is for.  And the generator finds no store only   *)
(* where the system has given no cache line.                                *)
UsesLive ==
  /\ \A use \in dead : Known(use)
  /\ gen = "crashed" => CacheLine(platform) \cap {0, SIZE_MAX} # {}

(* Loading and unloading come to an end, unless the thread could not be     *)
(* created (src/math/PrimeGenerator.c, lines 210 to 212, waits for it all   *)
(* the same) or Windows keeps it from starting.                             *)
LoadsAndUnloads ==
  /\ phase = "loading" ~> phase # "loading" \/ gen = "failed" \/ loaderlock
  /\ phase = "unloading" ~> phase # "unloading"
=============================================================================
