--------------------------- MODULE LibraryProofs ----------------------------
(***************************************************************************)
(* Theorems about loading and unloading the library, for any set of        *)
(* application threads, every processor there is and every answer of the   *)
(* system; and about the clock, for any length of a second and any number  *)
(* of samples.                                                             *)
(***************************************************************************)
EXTENDS Lifecycle, Clock, WellFoundedInduction, TLAPS

(* Cache lines are powers of two, and fit the buffer's allocator. *)
PowersOfTwo == CacheLines \subseteq {2 ^ n : n \in 0..15}

Calls == {"ntdll", "falloc", "runtime", "clock", "logger", "create", "await", "signal", "join"}

(* The calls left, as a set. *)
Ahead == {todo[i] : i \in 1..Len(todo)}

(* The order of the calls of ssce_init. *)
Rank == [call \in {"ntdll", "falloc", "runtime", "clock", "logger", "create", "await"} |->
           CASE call = "ntdll" -> 1 [] call = "falloc" -> 2 [] call = "runtime" -> 3
             [] call = "clock" -> 4 [] call = "logger" -> 5 [] call = "create" -> 6
             [] call = "await" -> 7]

(* The parts a platform has, and the call that brings each. *)
Parts == {"falloc", "runtime", "logger", "primegen"}
           \cup (IF platform = "linux" THEN {} ELSE {"clock"})
           \cup (IF platform = "windows" THEN {"ntdll"} ELSE {})
CallOf(part) == IF part = "primegen" THEN "await" ELSE part

LifeTypes ==
  /\ platform \in {"linux", "mac", "windows"}
  /\ phase \in {"new", "loading", "loaded", "unloading", "unmapped", "gone"}
  /\ way \in {"none", "close", "exit"}
  /\ todo \in Seq(Calls)
  /\ gen \in {"none", "created", "failed", "waiting", "busy", "leaving", "ended", "crashed"}
  /\ inside \in [Apps -> Kinds \cup {"out", "ended"}]

(* While loading, what is not live yet is still ahead, in the order of the  *)
(* ranks; nothing is ahead outside of the two phases that have calls.       *)
Loading ==
  /\ phase = "new" => live = {} /\ gen = "none"
  /\ phase = "loading" =>
       /\ "code" \in live
       /\ Ahead \subseteq DOMAIN Rank
       /\ \A i, j \in 1..Len(todo) : i < j => Rank[todo[i]] < Rank[todo[j]]
       /\ \A part \in Parts : part \in live \/ CallOf(part) \in Ahead
       /\ "create" \in Ahead => gen = "none"
  /\ phase \in {"new", "loaded", "unmapped"} => todo = <<>>
  /\ phase = "loaded" => {"code"} \cup Parts \subseteq live

(* While unloading, the parts the generator needs stay, and the library     *)
(* goes away from under it on macOS only.                                   *)
Unloading ==
  /\ phase = "unloading" =>
       /\ Ahead \subseteq {"logger", "clock", "signal", "join"}
       /\ {"code", "falloc", "runtime"} \subseteq live
       /\ platform = "windows" => "ntdll" \in live
       /\ platform # "mac" => "join" \in Ahead \/ gen = "ended"
       /\ way = "close" => \A t \in Apps : inside[t] \in {"out", "ended"}
       /\ way \in {"close", "exit"}
  /\ phase = "unmapped" /\ platform # "mac" => gen = "ended"
  /\ gen \in {"created", "waiting", "busy", "leaving"} /\ phase \in {"loading", "loaded"} =>
       {"code", "falloc", "runtime"} \subseteq live

UsesKnown == \A use \in dead : Known(use)

(* What has been used too early or too late, and how the thread crashes.    *)
Uncaught ==
  /\ phase \in {"new", "loading", "loaded"} => dead = {}
  /\ UsesKnown
  /\ gen # "none" => line \in CacheLine(platform)
  /\ gen = "crashed" => phase = "gone" /\ NoStore

LifeInv == LifeTypes /\ Loading /\ Unloading /\ Uncaught

(* What is known of the machine, and what is chosen by it. *)
Machine ==
  /\ cpu \in Processors /\ reported \in Answers
  /\ features \in {{}, Detected}
  /\ phase \in {"loaded", "unloading", "unmapped"} \/ (phase = "loading" /\ "runtime" \notin Ahead) =>
       features = Detected /\ line \in CacheLine(platform)
Chosen ==
  /\ resolved \notin {"none", "generic32"} => Works(resolved)
  /\ link = "other" /\ resolved # "none" => resolved = Widest /\ phase \notin {"new", "loading"}

AllInv == LifeInv /\ Machine /\ Chosen
-----------------------------------------------------------------------------
(* A set of natural numbers has a least element, a bounded one a greatest.  *)
LEMMA LeastNat ==
  ASSUME NEW T \in SUBSET Nat, T # {}
  PROVE  \E m \in T : \A n \in T : m <= n
<1>1. PICK m \in T : \A n \in T : <<n, m>> \notin OpToRel(<, Nat)
  BY WFMin, NatLessThanWellFounded, Zenon
<1>2. \A n \in T : ~(n < m)
  BY <1>1 DEF OpToRel
<1>3. QED
  BY <1>2

LEMMA MaxOfBounded ==
  ASSUME NEW bound \in Nat, NEW S \in SUBSET (0..bound), S # {}
  PROVE  Max(S) \in S
<1> DEFINE T == {bound - n : n \in S}
<1>1. PICK m \in T : \A n \in T : m <= n
  <2>1. T \in SUBSET Nat
    OBVIOUS
  <2>2. T # {}
    <3>1. PICK x \in S : TRUE
      OBVIOUS
    <3>2. bound - x \in T
      OBVIOUS
    <3> HIDE DEF T
    <3>3. QED
      BY <3>2
  <2> HIDE DEF T
  <2>3. QED
    BY <2>1, <2>2, LeastNat
<1>2. PICK x \in S : m = bound - x
  BY <1>1
<1>3. \A y \in S : x >= y
  <2> SUFFICES ASSUME NEW y \in S PROVE x >= y
    OBVIOUS
  <2>1. bound - y \in T
    OBVIOUS
  <2>2. bound - x <= bound - y
    BY <1>1, <1>2, <2>1
  <2>3. QED
    BY <2>2
<1>4. QED
  BY <1>3, Zenon DEF Max

(* What the next call leaves of those ahead. *)
LEMMA DoStep ==
  ASSUME todo \in Seq(Calls), NEW call, Do(call)
  PROVE  /\ todo' \in Seq(Calls) /\ call \in Ahead
         /\ Ahead' \subseteq Ahead /\ Ahead \subseteq Ahead' \cup {call}
         /\ (\A i, j \in 1..Len(todo) : i < j => Rank[todo[i]] < Rank[todo[j]]) =>
              /\ \A c \in Ahead' : Rank[call] < Rank[c]
              /\ \A i, j \in 1..Len(todo') : i < j => Rank[todo'[i]] < Rank[todo'[j]]
<1>1. /\ Len(todo) >= 1 /\ call = todo[1] /\ todo' \in Seq(Calls) /\ Len(todo') = Len(todo) - 1
      /\ \A i \in 1..Len(todo') : todo'[i] = todo[i + 1]
  BY DEF Do
<1>2. call \in Ahead
  BY <1>1 DEF Ahead
<1>3. Ahead' \subseteq Ahead
  BY <1>1 DEF Ahead
<1>4. Ahead \subseteq Ahead' \cup {call}
  <2> SUFFICES ASSUME NEW i \in 1..Len(todo), i # 1 PROVE todo[i] \in Ahead'
    BY <1>1 DEF Ahead
  <2>1. i - 1 \in 1..Len(todo') /\ todo[i] = todo'[i - 1]
    BY <1>1
  <2>2. QED
    BY <2>1 DEF Ahead
<1>5. ASSUME \A i, j \in 1..Len(todo) : i < j => Rank[todo[i]] < Rank[todo[j]]
      PROVE  /\ \A c \in Ahead' : Rank[call] < Rank[c]
             /\ \A i, j \in 1..Len(todo') : i < j => Rank[todo'[i]] < Rank[todo'[j]]
  <2>1. \A i \in 1..Len(todo') : Rank[call] < Rank[todo'[i]]
    BY <1>1, <1>5
  <2>2. \A i, j \in 1..Len(todo') : i < j => Rank[todo'[i]] < Rank[todo'[j]]
    BY <1>1, <1>5
  <2>3. QED
    BY <2>1, <2>2 DEF Ahead
<1>6. QED
  BY <1>1, <1>2, <1>3, <1>4, <1>5

LEMMA Ranks ==
  /\ DOMAIN Rank = {"ntdll", "falloc", "runtime", "clock", "logger", "create", "await"}
  /\ Rank["ntdll"] = 1 /\ Rank["falloc"] = 2 /\ Rank["runtime"] = 3 /\ Rank["clock"] = 4
  /\ Rank["logger"] = 5 /\ Rank["create"] = 6 /\ Rank["await"] = 7
  BY DEF Rank

(* The calls of ssce_init are in the order of the ranks, one for every part *)
(* the platform has.                                                        *)
LEMMA InitOrder ==
  ASSUME LifeTypes, todo' = InitCalls[platform]
  PROVE  /\ todo' \in Seq(Calls)
         /\ Ahead' \subseteq DOMAIN Rank /\ "runtime" \in Ahead'
         /\ \A i, j \in 1..Len(todo') : i < j => Rank[todo'[i]] < Rank[todo'[j]]
         /\ \A part \in Parts : CallOf(part) \in Ahead'
<1>1. CASE platform = "linux"
  <2>1. todo' = <<"falloc", "runtime", "logger", "create", "await">>
    BY <1>1 DEF InitCalls
  <2>2. todo' \in Seq(Calls) /\ Len(todo') = 5
    BY <2>1 DEF Calls
  <2>3. \A k \in 1..5 : k = 1 \/ k = 2 \/ k = 3 \/ k = 4 \/ k = 5
    OBVIOUS
  <2>4. Ahead' = {"falloc", "runtime", "logger", "create", "await"}
    <3>1. Ahead' \subseteq {"falloc", "runtime", "logger", "create", "await"}
      BY <2>1, <2>2, <2>3 DEF Ahead
    <3>2. \A k \in 1..5 : todo'[k] \in Ahead'
      BY <2>2 DEF Ahead
    <3>3. {"falloc", "runtime", "logger", "create", "await"} \subseteq Ahead'
      BY <2>1, <3>2
    <3>4. QED
      BY <3>1, <3>3
  <2>5. \A i, j \in 1..5 : i < j => Rank[todo'[i]] < Rank[todo'[j]]
    BY <2>1, <2>3, Ranks
  <2>6. QED
    BY <1>1, <2>2, <2>4, <2>5, Ranks DEF Parts, CallOf
<1>2. CASE platform = "mac"
  <2>1. todo' = <<"falloc", "runtime", "clock", "logger", "create", "await">>
    BY <1>2 DEF InitCalls
  <2>2. todo' \in Seq(Calls) /\ Len(todo') = 6
    BY <2>1 DEF Calls
  <2>3. \A k \in 1..6 : k = 1 \/ k = 2 \/ k = 3 \/ k = 4 \/ k = 5 \/ k = 6
    OBVIOUS
  <2>4. Ahead' = {"falloc", "runtime", "clock", "logger", "create", "await"}
    <3>1. Ahead' \subseteq {"falloc", "runtime", "clock", "logger", "create", "await"}
      BY <2>1, <2>2, <2>3 DEF Ahead
    <3>2. \A k \in 1..6 : todo'[k] \in Ahead'
      BY <2>2 DEF Ahead
    <3>3. {"falloc", "runtime", "clock", "logger", "create", "await"} \subseteq Ahead'
      BY <2>1, <3>2
    <3>4. QED
      BY <3>1, <3>3
  <2>5. \A i, j \in 1..6 : i < j => Rank[todo'[i]] < Rank[todo'[j]]
    BY <2>1, <2>3, Ranks
  <2>6. QED
    BY <1>2, <2>2, <2>4, <2>5, Ranks DEF Parts, CallOf
<1>3. CASE platform = "windows"
  <2>1. todo' = <<"ntdll", "falloc", "runtime", "clock", "logger", "create", "await">>
    BY <1>3 DEF InitCalls
  <2>2. todo' \in Seq(Calls) /\ Len(todo') = 7
    BY <2>1 DEF Calls
  <2>3. \A k \in 1..7 : k = 1 \/ k = 2 \/ k = 3 \/ k = 4 \/ k = 5 \/ k = 6 \/ k = 7
    OBVIOUS
  <2>4. Ahead' = {"ntdll", "falloc", "runtime", "clock", "logger", "create", "await"}
    <3>1. Ahead' \subseteq {"ntdll", "falloc", "runtime", "clock", "logger", "create", "await"}
      BY <2>1, <2>2, <2>3 DEF Ahead
    <3>2. \A k \in 1..7 : todo'[k] \in Ahead'
      BY <2>2 DEF Ahead
    <3>3. {"ntdll", "falloc", "runtime", "clock", "logger", "create", "await"} \subseteq Ahead'
      BY <2>1, <3>2
    <3>4. QED
      BY <3>1, <3>3
  <2>5. \A i, j \in 1..7 : i < j => Rank[todo'[i]] < Rank[todo'[j]]
    BY <2>1, <2>3, Ranks
  <2>6. QED
    BY <1>3, <2>2, <2>4, <2>5, Ranks DEF Parts, CallOf
<1>4. QED
  BY <1>1, <1>2, <1>3 DEF LifeTypes

LEMMA ExitOrder ==
  ASSUME LifeTypes, todo' = ExitCalls[platform]
  PROVE  /\ todo' \in Seq(Calls) /\ Ahead' \subseteq {"logger", "clock", "signal", "join"}
         /\ platform # "mac" => "join" \in Ahead'
<1>1. CASE platform = "linux"
  <2>1. todo' = <<"logger", "signal", "join">>
    BY <1>1 DEF ExitCalls
  <2>2. \A k \in 1..3 : k = 1 \/ k = 2 \/ k = 3
    OBVIOUS
  <2>3. todo' \in Seq(Calls) /\ Len(todo') = 3
    BY <2>1 DEF Calls
  <2>4. \A k \in 1..3 : todo'[k] \in {"logger", "clock", "signal", "join"}
    BY <2>1, <2>2
  <2>5. todo'[3] = "join"
    BY <2>1
  <2>6. QED
    BY <1>1, <2>3, <2>4, <2>5 DEF Ahead
<1>2. CASE platform = "mac"
  <2>1. todo' = <<"logger", "clock">>
    BY <1>2 DEF ExitCalls
  <2>2. \A k \in 1..2 : k = 1 \/ k = 2
    OBVIOUS
  <2>3. todo' \in Seq(Calls) /\ Len(todo') = 2
    BY <2>1 DEF Calls
  <2>4. \A k \in 1..2 : todo'[k] \in {"logger", "clock", "signal", "join"}
    BY <2>1, <2>2
  <2>5. QED
    BY <1>2, <2>3, <2>4 DEF Ahead
<1>3. CASE platform = "windows"
  <2>1. todo' = <<"logger", "clock", "signal", "join">>
    BY <1>3 DEF ExitCalls
  <2>2. \A k \in 1..4 : k = 1 \/ k = 2 \/ k = 3 \/ k = 4
    OBVIOUS
  <2>3. todo' \in Seq(Calls) /\ Len(todo') = 4
    BY <2>1 DEF Calls
  <2>4. \A k \in 1..4 : todo'[k] \in {"logger", "clock", "signal", "join"}
    BY <2>1, <2>2
  <2>5. todo'[4] = "join"
    BY <2>1
  <2>6. QED
    BY <1>3, <2>3, <2>4, <2>5 DEF Ahead
<1>4. QED
  BY <1>1, <1>2, <1>3 DEF LifeTypes

(* What depends on the machine alone. *)
LEMMA SameMachine ==
  ASSUME UNCHANGED <<platform, cpu, reported>>
  PROVE  /\ Detected' = Detected /\ CacheLine(platform)' = CacheLine(platform)
         /\ Widest' = Widest /\ \A e : Works(e)' <=> Works(e)
<1>1. \A e : Works(e)' <=> Works(e)
  BY DEF Works
<1>2. Detected' = Detected
  BY DEF Detected, AvxEnabled, Avx512Enabled
<1>3. CacheLine(platform)' = CacheLine(platform)
  BY DEF CacheLine, LinuxLine, OtherLine
<1>4. Widest' = Widest
  BY DEF Widest, Works
<1>5. QED
  BY <1>1, <1>2, <1>3, <1>4

(* A step in which nothing dead is used and the end is not chosen. *)
LEMMA Quiet ==
  ASSUME UsesKnown, UNCHANGED <<platform, way, dead>>
  PROVE  UsesKnown'
  BY DEF UsesKnown, Known

LEMMA InitLife == LifeInit => AllInv
<1> SUFFICES ASSUME LifeInit PROVE AllInv
  OBVIOUS
<1>1. todo = <<>> /\ todo \in Seq(Calls) /\ Ahead = {}
  BY DEF LifeInit, Ahead
<1>2. LifeTypes
  BY <1>1, OperatingSystemsAssumption DEF LifeInit, LifeTypes
<1>3. Loading /\ Unloading /\ Uncaught
  BY <1>1 DEF LifeInit, Loading, Unloading, Uncaught, UsesKnown
<1>4. Machine /\ Chosen
  BY SystemsAssumption DEF LifeInit, RuntimeInit, Machine, Chosen
<1>5. QED
  BY <1>2, <1>3, <1>4 DEF AllInv, LifeInv

(* A call of ssce_init that ssce_exit does not have is made while loading.  *)
LEMMA LoadingCall ==
  ASSUME AllInv, phase # "gone", NEW call \in {"ntdll", "falloc", "runtime", "create", "await"},
         Do(call)
  PROVE  phase = "loading"
<1>1. call \in Ahead
  BY DoStep DEF AllInv, LifeInv, LifeTypes
<1>2. todo # <<>>
  BY DEF Do
<1>3. QED
  BY <1>1, <1>2 DEF AllInv, LifeInv, LifeTypes, Loading, Unloading

(* A call of ssce_init that brings a part and changes nothing else.         *)
LEMMA Brings ==
  ASSUME AllInv, phase = "loading", NEW part \in {"ntdll", "falloc", "clock", "logger", "primegen"},
         Do(CallOf(part)), live' = live \cup {part},
         UNCHANGED <<platform, phase, way, gen, inside, dead, runtimevars>>
  PROVE  AllInv'
<1> USE DEF AllInv, LifeInv, LifeTypes, Loading, Unloading, Uncaught, Machine, Chosen, runtimevars
<1> DEFINE call == CallOf(part)
<1>1. /\ todo' \in Seq(Calls) /\ Ahead' \subseteq Ahead /\ Ahead \subseteq Ahead' \cup {call}
      /\ \A i, j \in 1..Len(todo') : i < j => Rank[todo'[i]] < Rank[todo'[j]]
  BY DoStep
<1>2. Loading'
  <2>1. \A p \in Parts : p \in live' \/ CallOf(p) \in Ahead'
    <3> SUFFICES ASSUME NEW p \in Parts, p \notin live' PROVE CallOf(p) \in Ahead'
      OBVIOUS
    <3>1. p # part /\ CallOf(p) \in Ahead
      OBVIOUS
    <3>2. CallOf(p) # call
      BY <3>1 DEF CallOf, Parts
    <3>3. QED
      BY <1>1, <3>1, <3>2
  <2>2. Parts' = Parts
    BY DEF Parts
  <2>3. QED
    BY <1>1, <2>1, <2>2 DEF CallOf
<1>3. Unloading' /\ LifeTypes'
  BY <1>1
<1>4. Uncaught'
  BY SameMachine, Quiet
<1>5. Machine' /\ Chosen'
  <2>1. call # "runtime"
    BY DEF CallOf
  <2>2. QED
    BY <1>1, <2>1, SameMachine
<1>6. QED
  BY <1>2, <1>3, <1>4, <1>5

(* The steps of the thread that loads.                                      *)
LEMMA LoadSteps ==
  ASSUME AllInv, phase # "gone",
         \/ Load \/ LinkNtdll \/ InitFalloc \/ InitRuntimePart \/ InitClock \/ InitLogger
         \/ CreateGenerator \/ AwaitGenerator \/ Loaded
  PROVE  AllInv'
<1> USE DEF AllInv, LifeInv, LifeTypes, Loading, Unloading, Uncaught, Machine, Chosen, system,
            runtimevars
<1>1. CASE Load
  <2>1. /\ phase = "new" /\ phase' = "loading" /\ todo' = InitCalls[platform]
        /\ live' = live \cup {"code"}
        /\ UNCHANGED <<platform, way, gen, inside, dead, runtimevars>>
    BY <1>1 DEF Load
  <2>2. /\ todo' \in Seq(Calls) /\ Ahead' \subseteq DOMAIN Rank /\ "runtime" \in Ahead'
        /\ \A i, j \in 1..Len(todo') : i < j => Rank[todo'[i]] < Rank[todo'[j]]
        /\ \A p \in Parts' : CallOf(p) \in Ahead'
    BY <2>1, InitOrder DEF Parts
  <2>3. QED
    BY <2>1, <2>2, SameMachine, Quiet DEF CallOf
<1>2. CASE LinkNtdll
  <2>1. Do("ntdll") /\ UNCHANGED <<platform, way, gen, inside, dead, runtimevars>>
    BY <1>2 DEF LinkNtdll
  <2>2. phase = "loading"
    BY <2>1, LoadingCall
  <2>3. CASE live' = live \cup {"ntdll"} /\ phase' = phase
    BY <2>1, <2>2, <2>3, Brings DEF CallOf
  <2>4. CASE phase' = "gone"
    BY <2>1, <2>2, <2>4, DoStep, SameMachine, Quiet
  <2>5. QED
    BY <1>2, <2>3, <2>4 DEF LinkNtdll
<1>3. CASE InitFalloc
  BY <1>3, LoadingCall, Brings DEF InitFalloc, CallOf
<1>4. CASE InitRuntimePart
  <2>1. /\ Do("runtime") /\ live' = live \cup {"runtime"} /\ phase = "loading"
        /\ UNCHANGED <<platform, phase, way, gen, inside, cpu, reported, link, resolved>>
        /\ features' = Detected /\ line' \in CacheLine(platform)
    BY <1>4, LoadingCall DEF InitRuntimePart, InitRuntime
  <2>2. /\ todo' \in Seq(Calls) /\ Ahead' \subseteq Ahead /\ Ahead \subseteq Ahead' \cup {"runtime"}
        /\ \A i, j \in 1..Len(todo') : i < j => Rank[todo'[i]] < Rank[todo'[j]]
    BY <2>1, DoStep
  <2>3. platform = "windows" => "falloc" \in live
    BY <2>1, DoStep, Ranks DEF Parts, CallOf
  <2>4. dead' = dead
    BY <1>4, <2>3 DEF InitRuntimePart, Uses
  <2>5. Parts' = Parts
    BY <2>1 DEF Parts
  <2>6. QED
    BY <2>1, <2>2, <2>4, <2>5, SameMachine, Quiet DEF CallOf
<1>5. CASE InitClock
  <2>1. /\ Do("clock") /\ live' = live \cup {"clock"} /\ phase = "loading"
        /\ UNCHANGED <<platform, phase, way, gen, inside, runtimevars>>
    BY <1>5 DEF InitClock
  <2>2. platform = "windows" => "ntdll" \in live
    BY <2>1, DoStep, Ranks DEF Parts, CallOf
  <2>3. dead' = dead
    BY <1>5, <2>2 DEF InitClock, Uses
  <2>4. QED
    BY <2>1, <2>3, Brings DEF CallOf
<1>6. CASE InitLogger
  BY <1>6, Brings DEF InitLogger, CallOf
<1>7. CASE CreateGenerator
  <2>1. /\ Do("create") /\ phase = "loading" /\ gen' \in {"created", "failed"}
        /\ UNCHANGED <<platform, phase, way, live, inside, dead, runtimevars>>
    BY <1>7, LoadingCall DEF CreateGenerator
  <2>2. /\ todo' \in Seq(Calls) /\ Ahead' \subseteq Ahead /\ Ahead \subseteq Ahead' \cup {"create"}
        /\ \A i, j \in 1..Len(todo') : i < j => Rank[todo'[i]] < Rank[todo'[j]]
        /\ \A c \in Ahead' : Rank["create"] < Rank[c]
    BY <2>1, DoStep
  <2>3. "create" \notin Ahead' /\ "falloc" \notin Ahead /\ "runtime" \notin Ahead
    BY <2>2, Ranks
  <2>4. {"falloc", "runtime"} \subseteq live
    BY <2>1, <2>3 DEF Parts, CallOf
  <2>5. Parts' = Parts
    BY <2>1 DEF Parts
  <2>6. LifeTypes' /\ Unloading'
    BY <2>1, <2>2, <2>4
  <2>7. features = Detected /\ line \in CacheLine(platform)
    BY <2>1, <2>3
  <2>8. Machine' /\ Chosen'
    BY <2>1, <2>7, SameMachine
  <2>9. Loading'
    <3>1. \A p \in Parts : CallOf(p) # "create"
      BY DEF Parts, CallOf
    <3>2. \A p \in Parts : p \in live' \/ CallOf(p) \in Ahead'
      BY <2>1, <2>2, <3>1
    <3>3. QED
      BY <2>1, <2>2, <2>3, <2>5, <3>2 DEF CallOf
  <2>10. Uncaught'
    BY <2>1, <2>7, SameMachine, Quiet
  <2>11. QED
    BY <2>6, <2>8, <2>9, <2>10
<1>8. CASE AwaitGenerator
  BY <1>8, LoadingCall, Brings DEF AwaitGenerator, CallOf
<1>9. CASE Loaded
  <2>1. /\ phase = "loading" /\ todo = <<>> /\ phase' = "loaded"
        /\ UNCHANGED <<platform, way, todo, live, gen, inside, dead, runtimevars>>
    BY <1>9 DEF Loaded
  <2>2. Ahead = {} /\ Ahead' = {} /\ Parts' = Parts
    BY <2>1 DEF Ahead, Parts
  <2>3. QED
    BY <2>1, <2>2, SameMachine, Quiet
<1>10. QED
  BY <1>1, <1>2, <1>3, <1>4, <1>5, <1>6, <1>7, <1>8, <1>9

LEMMA UnloadSteps ==
  ASSUME AllInv, phase # "gone",
         \/ \E w \in {"close", "exit"} : Unload(w)
         \/ ExitPart("logger") \/ ExitPart("clock") \/ SignalGenerator \/ JoinGenerator \/ Unloaded
  PROVE  AllInv'
<1> USE DEF AllInv, LifeInv, LifeTypes, Loading, Unloading, Uncaught, Machine, Chosen, system,
            runtimevars
<1>1. ASSUME NEW w \in {"close", "exit"}, Unload(w) PROVE AllInv'
  <2>1. /\ phase = "loaded" /\ phase' = "unloading" /\ way' = w /\ todo' = ExitCalls[platform]
        /\ w = "close" => \A t \in Apps : inside[t] \in {"out", "ended"}
        /\ UNCHANGED <<platform, live, gen, inside, dead, runtimevars>>
    BY <1>1 DEF Unload
  <2>2. /\ todo' \in Seq(Calls) /\ Ahead' \subseteq {"logger", "clock", "signal", "join"}
        /\ platform # "mac" => "join" \in Ahead'
    BY <2>1, ExitOrder
  <2>3. /\ {"code", "falloc", "runtime"} \subseteq live
        /\ platform = "windows" => "ntdll" \in live
    BY <2>1 DEF Parts
  <2>4. UsesKnown'
    BY <2>1 DEF UsesKnown
  <2>5. LifeTypes' /\ Loading' /\ Unloading'
    BY <2>1, <2>2, <2>3
  <2>6. Uncaught'
    BY <2>1, <2>4, SameMachine
  <2>7. Machine'
    BY <2>1, SameMachine
  <2>8. Chosen'
    BY <2>1, SameMachine
  <2>9. QED
    BY <2>5, <2>6, <2>7, <2>8
<1>2. ASSUME NEW part \in {"logger", "clock"}, ExitPart(part) PROVE AllInv'
  <2>1. /\ phase = "unloading" /\ Do(part) /\ live' = live \ {part}
        /\ UNCHANGED <<platform, phase, way, gen, inside, runtimevars>>
    BY <1>2 DEF ExitPart
  <2>2. dead' = dead
    BY <1>2, <2>1 DEF ExitPart, Uses
  <2>3. todo' \in Seq(Calls) /\ Ahead' \subseteq Ahead /\ Ahead \subseteq Ahead' \cup {part}
    BY <2>1, DoStep
  <2>4. QED
    BY <2>1, <2>2, <2>3, SameMachine, Quiet
<1>3. CASE SignalGenerator
  <2>1. Do("signal") /\ UNCHANGED <<platform, phase, way, live, gen, inside, dead, runtimevars>>
    BY <1>3 DEF SignalGenerator
  <2>2. /\ todo' \in Seq(Calls) /\ Ahead' \subseteq Ahead /\ Ahead \subseteq Ahead' \cup {"signal"}
        /\ "signal" \in Ahead /\ todo # <<>>
    BY <2>1, DoStep DEF Do
  <2>3. phase = "unloading"
    BY <2>2, Ranks
  <2>4. QED
    BY <2>1, <2>2, <2>3, SameMachine, Quiet
<1>4. CASE JoinGenerator
  <2>1. /\ gen = "ended" /\ Do("join") /\ live' = live \ {"primegen"}
        /\ UNCHANGED <<platform, phase, way, gen, inside, dead, runtimevars>>
    BY <1>4 DEF JoinGenerator
  <2>2. /\ todo' \in Seq(Calls) /\ Ahead' \subseteq Ahead /\ Ahead \subseteq Ahead' \cup {"join"}
        /\ "join" \in Ahead /\ todo # <<>>
    BY <2>1, DoStep DEF Do
  <2>3. phase = "unloading"
    BY <2>2, Ranks
  <2>4. QED
    BY <2>1, <2>2, <2>3, SameMachine, Quiet
<1>5. CASE Unloaded
  <2>1. /\ phase = "unloading" /\ todo = <<>> /\ phase' \in {"unmapped", "gone"} /\ live' = {}
        /\ UNCHANGED <<platform, way, todo, gen, inside, dead, runtimevars>>
    BY <1>5 DEF Unloaded
  <2>2. Ahead = {} /\ Ahead' = {}
    BY <2>1 DEF Ahead
  <2>3. QED
    BY <2>1, <2>2, SameMachine, Quiet
<1>6. QED
  BY <1>1, <1>2, <1>3, <1>4, <1>5

(* A generator that is at work finds the parts it uses, or the library has  *)
(* been unmapped on macOS.                                                  *)
LEMMA GeneratorUses ==
  ASSUME AllInv, phase # "gone", gen \in {"created", "waiting", "busy", "leaving"},
         NEW parts \in SUBSET {"code", "runtime", "falloc"}, Uses("generator", parts),
         UNCHANGED <<platform, way>>
  PROVE  /\ \A use \in dead' : Known(use)'
         /\ phase \in {"loading", "loaded"} => dead' = dead
<1> USE DEF AllInv, LifeInv, LifeTypes, Loading, Unloading, Uncaught
<1>1. CASE phase = "unmapped"
  <2>1. platform = "mac"
    BY <1>1
  <2>2. \A use \in dead' : use \in dead \/ (use.who = "generator" /\ use.phase = "unmapped")
    BY <1>1 DEF Uses
  <2>3. QED
    BY <1>1, <2>1, <2>2 DEF Known, UsesKnown
<1>2. CASE phase # "unmapped"
  <2>1. phase \in {"loading", "loaded", "unloading"}
    BY <1>2
  <2>2. {"code", "falloc", "runtime"} \subseteq live
    BY <2>1
  <2>3. dead' = dead
    BY <2>2 DEF Uses
  <2>4. QED
    BY <2>3 DEF Known, UsesKnown
<1>3. QED
  BY <1>1, <1>2

(* Where the line is no power of two, the system has given none.            *)
LEMMA NoStoreMeansNoLine ==
  ASSUME PowersOfTwo, Machine, LifeTypes, line \in CacheLine(platform), NoStore
  PROVE  CacheLine(platform) \cap {0, SIZE_MAX} # {}
<1>1. CASE platform = "linux"
  <2>1. reported \in SUBSET (0..SIZE_MAX) /\ reported # {} /\ SIZE_MAX \in Nat
    <3>1. SIZE_MAX = 65535
      BY DEF SIZE_MAX
    <3>2. reported \subseteq CacheLines \cup {0, SIZE_MAX} /\ reported # {}
      BY DEF Machine, Answers
    <3>3. CacheLines \subseteq 0..SIZE_MAX
      BY CacheLinesAssumption, Zenon
    <3>4. {0, SIZE_MAX} \subseteq 0..SIZE_MAX /\ SIZE_MAX \in Nat
      BY <3>1
    <3>5. QED
      BY <3>2, <3>3, <3>4
  <2>2. Max(reported) \in reported
    BY <2>1, MaxOfBounded
  <2>3. line = Max(reported) /\ CacheLine(platform) = {line}
    BY <1>1 DEF CacheLine, LinuxLine
  <2>4. line \in CacheLines \cup {0, SIZE_MAX}
    BY <2>2, <2>3 DEF Machine, Answers
  <2>5. line \notin CacheLines
    BY PowersOfTwo DEF PowersOfTwo, NoStore
  <2>6. QED
    BY <2>3, <2>4, <2>5
<1>2. CASE platform # "linux"
  <2>1. 0 \in CacheLine(platform)
    BY <1>2 DEF CacheLine, OtherLine
  <2>2. QED
    BY <2>1
<1>3. QED
  BY <1>1, <1>2

(* The steps of the generator's thread. *)
LEMMA GeneratorSteps ==
  ASSUME AllInv, GeneratorStep
  PROVE  AllInv'
<1> USE DEF AllInv, LifeInv, LifeTypes, Loading, Unloading, Uncaught, Machine, Chosen, system,
            runtimevars, GeneratorStep
<1>1. CASE GeneratorBegin
  <2>1. /\ gen = "created" /\ gen' \in {"crashed", "waiting"} /\ line \in CacheLine(platform)
        /\ gen' = "crashed" => NoStore /\ phase' = "gone"
        /\ gen' = "waiting" => phase' = phase
        /\ UNCHANGED <<platform, way, todo, live, inside, runtimevars>>
    BY <1>1 DEF GeneratorBegin
  <2>2. /\ \A use \in dead' : Known(use)'
        /\ phase \in {"loading", "loaded"} => dead' = dead
    BY <1>1, <2>1, GeneratorUses DEF GeneratorBegin
  <2>3. NoStore' = NoStore
    BY <2>1 DEF NoStore, runtimevars
  <2>4. Uncaught'
    BY <2>1, <2>2, <2>3, SameMachine DEF UsesKnown
  <2>5. LifeTypes' /\ Loading' /\ Unloading'
    <3>1. LifeTypes' /\ Ahead' = Ahead /\ Parts' = Parts /\ phase \notin {"new", "gone"}
      BY <2>1 DEF Ahead, Parts
    <3>2. Loading'
      BY <2>1, <3>1 DEF CallOf
    <3>3. Unloading'
      BY <2>1, <3>1
    <3>4. QED
      BY <3>1, <3>2, <3>3
  <2>6. Machine' /\ Chosen'
    BY <2>1, SameMachine DEF Ahead
  <2>7. QED
    BY <2>4, <2>5, <2>6
<1>2. CASE GeneratorWork \/ GeneratorDone \/ GeneratorLeave \/ GeneratorEnd
  <2>1. /\ gen \in {"waiting", "busy", "leaving"} /\ gen' \in {"waiting", "busy", "leaving", "ended"}
        /\ UNCHANGED <<platform, phase, way, todo, live, inside, runtimevars>>
    BY <1>2 DEF GeneratorWork, GeneratorDone, GeneratorLeave, GeneratorEnd
  <2>2. /\ \A use \in dead' : Known(use)'
        /\ phase \in {"loading", "loaded"} => dead' = dead
    BY <1>2, <2>1, GeneratorUses
       DEF GeneratorWork, GeneratorDone, GeneratorLeave, GeneratorEnd
  <2>3. Uncaught'
    BY <2>1, <2>2, SameMachine DEF UsesKnown
  <2>4. LifeTypes' /\ Loading' /\ Unloading'
    <3>1. Ahead' = Ahead /\ Parts' = Parts
      BY <2>1 DEF Ahead, Parts
    <3>2. QED
      BY <2>1, <3>1 DEF CallOf
  <2>5. Machine' /\ Chosen'
    BY <2>1, SameMachine DEF Ahead
  <2>6. QED
    BY <2>3, <2>4, <2>5
<1>3. QED
  BY <1>1, <1>2

-----------------------------------------------------------------------------
(* What the library detects is what works, and the variant chosen from it   *)
(* the widest that works; chosen before anything is detected, it is one     *)
(* that every processor of the architecture has.                            *)
LEMMA DetectedWorks ==
  ASSUME cpu \in Processors
  PROVE  \A f \in Detected : Works(f)
  BY DEF Processors, Detected, Works, AvxEnabled, Avx512Enabled

LEMMA EarlyChoice ==
  ASSUME cpu \in Processors, features = {}
  PROVE  Selected # "none" /\ (Selected # "generic32" => Works(Selected))
  BY DEF Processors, Selected, Works

LEMMA LateChoice ==
  ASSUME cpu \in Processors, features = Detected
  PROVE  Selected = Widest /\ Selected # "none" /\ (Selected # "generic32" => Works(Selected))
<1> USE DEF Processors, Detected, AvxEnabled, Avx512Enabled, Works
<1>1. CASE cpu.arch = "i386"
  <2>1. "sse2" \in features <=> Works("sse2")
    BY <1>1
  <2>2. Selected = (IF Works("sse2") THEN "sse2" ELSE "generic32")
    BY <1>1, <2>1 DEF Selected
  <2>3. Widest = (IF Works("sse2") THEN "sse2" ELSE "generic32")
    BY <1>1 DEF Widest
  <2>4. QED
    BY <2>2, <2>3
<1>2. CASE cpu.arch = "x86_64"
  <2>1. ("avx512f" \in features <=> Works("avx512f")) /\ ("avx" \in features <=> Works("avx"))
    BY <1>2
  <2>2. Works("sse2") /\ (Works("avx512f") => Works("avx"))
    BY <1>2
  <2>3. Selected = (IF Works("avx512f") THEN "avx512f" ELSE IF Works("avx") THEN "avx" ELSE "sse2")
    BY <1>2, <2>1 DEF Selected
  <2>4. Widest = (IF Works("avx512f") THEN "avx512f" ELSE IF Works("avx") THEN "avx" ELSE "sse2")
    BY <1>2, <2>2 DEF Widest
  <2> HIDE DEF Works
  <2>5. QED
    BY <2>2, <2>3, <2>4
<1>3. QED
  BY <1>1, <1>2 DEF Processors

(* Resolving keeps what is known of the choice, at any time for an ELF      *)
(* linker, and otherwise once the library is loaded.                        *)
LEMMA ResolveChosen ==
  ASSUME AllInv, Resolve, phase \in {"loaded", "unloading"} \/ (phase = "loading" /\ link = "elf"),
         UNCHANGED phase
  PROVE  Chosen'
<1> USE DEF AllInv, Machine
<1>1. resolved' = Selected /\ UNCHANGED <<cpu, features, link>>
  BY DEF Resolve
<1>2. resolved' # "generic32" => Works(resolved')
  BY <1>1, EarlyChoice, LateChoice
<1>3. link = "other" => resolved' = Widest
  BY <1>1, LateChoice
<1>4. Works(resolved)' <=> Works(resolved')
  BY <1>1 DEF Works
<1>5. Widest' = Widest
  BY <1>1 DEF Widest, Works
<1>6. QED
  BY <1>1, <1>2, <1>3, <1>4, <1>5 DEF Chosen

(* The steps of the application's threads, and of an ELF linker.            *)
LEMMA AppSteps ==
  ASSUME AllInv,
         \/ \E t \in Apps : (\E kind \in Kinds : Enter(t, kind)) \/ Leave(t) \/ End(t)
         \/ Relocate
  PROVE  AllInv'
<1> USE DEF AllInv, LifeInv, LifeTypes, Loading, Unloading, Uncaught, Machine, system
<1>1. ASSUME NEW t \in Apps, NEW kind \in Kinds, Enter(t, kind) PROVE AllInv'
  <2>1. /\ Running /\ inside' = [inside EXCEPT ![t] = kind] /\ Uses(t, Needs(kind))
        /\ resolved' = resolved \/ Resolve
        /\ UNCHANGED <<platform, phase, way, todo, live, gen, cpu, reported, features, line, link>>
    BY <1>1 DEF Enter, Resolve, runtimevars
  <2>2. phase = "loaded" => Needs(kind) \subseteq live
    BY DEF Parts, Needs, Kinds
  <2>3. phase = "loaded" => dead' = dead
    BY <2>1, <2>2 DEF Uses
  <2>4. \A use \in dead' : Known(use)'
    <3>1. phase = "unloading" => \A use \in dead' : use \in dead \/ (use.who \in Apps /\ use.phase = phase)
      BY <2>1 DEF Uses
    <3>2. QED
      BY <2>1, <2>3, <3>1 DEF Running, Known, UsesKnown
  <2>5. LifeTypes' /\ Loading' /\ Unloading'
    <3>1. Ahead' = Ahead /\ Parts' = Parts
      BY <2>1 DEF Ahead, Parts
    <3>2. QED
      BY <2>1, <3>1 DEF Running, CallOf
  <2>6. Uncaught' /\ Machine'
    BY <2>1, <2>3, <2>4, SameMachine DEF UsesKnown, Ahead, Running
  <2>7. Chosen'
    BY <2>1, ResolveChosen, SameMachine DEF Chosen, Running
  <2>8. QED
    BY <2>5, <2>6, <2>7
<1>2. ASSUME NEW t \in Apps, Leave(t) PROVE AllInv'
  <2>1. /\ Running /\ inside[t] \in Kinds /\ inside' = [inside EXCEPT ![t] = "out"]
        /\ Uses(t, Needs(inside[t]))
        /\ UNCHANGED <<platform, phase, way, todo, live, gen, runtimevars>>
    BY <1>2 DEF Leave
  <2>2. phase = "loaded" => Needs(inside[t]) \subseteq live
    BY <2>1 DEF Parts, Needs, Kinds
  <2>3. phase = "loaded" => dead' = dead
    BY <2>1, <2>2 DEF Uses
  <2>4. \A use \in dead' : Known(use)'
    <3>1. phase = "unloading" => \A use \in dead' : use \in dead \/ (use.who \in Apps /\ use.phase = phase)
      BY <2>1 DEF Uses
    <3>2. QED
      BY <2>1, <2>3, <3>1 DEF Running, Known, UsesKnown
  <2>5. LifeTypes' /\ Loading' /\ Unloading'
    <3>1. Ahead' = Ahead /\ Parts' = Parts
      BY <2>1 DEF Ahead, Parts
    <3>2. QED
      BY <2>1, <3>1 DEF Running, CallOf
  <2>6. Uncaught' /\ Machine' /\ Chosen'
    BY <2>1, <2>3, <2>4, SameMachine DEF UsesKnown, Ahead, Running, Chosen, runtimevars
  <2>7. QED
    BY <2>5, <2>6
<1>3. ASSUME NEW t \in Apps, End(t) PROVE AllInv'
  <2>1. /\ phase \in {"loading", "loaded", "unloading", "unmapped"}
        /\ inside' = [inside EXCEPT ![t] = "ended"]
        /\ Uses(t, IF t \in stacks THEN {"code"} ELSE {})
        /\ UNCHANGED <<platform, phase, way, todo, live, gen, runtimevars>>
    BY <1>3 DEF End
  <2>2. phase # "unmapped" => dead' = dead
    BY <2>1 DEF Uses
  <2>3. \A use \in dead' : Known(use)'
    <3>1. phase = "unmapped" =>
            \A use \in dead' : use \in dead \/ (use.who \in Apps /\ use.phase = phase /\ use.part = "code")
      BY <2>1 DEF Uses
    <3>2. QED
      BY <2>1, <2>2, <3>1 DEF Known, UsesKnown
  <2>4. LifeTypes' /\ Loading' /\ Unloading'
    <3>1. Ahead' = Ahead /\ Parts' = Parts
      BY <2>1 DEF Ahead, Parts
    <3>2. QED
      BY <2>1, <3>1 DEF CallOf
  <2>5. Uncaught' /\ Machine' /\ Chosen'
    BY <2>1, <2>2, <2>3, SameMachine DEF UsesKnown, Ahead, Chosen, runtimevars
  <2>6. QED
    BY <2>4, <2>5
<1>4. CASE Relocate
  <2>1. /\ link = "elf" /\ phase \in {"loading", "loaded"} /\ Resolve /\ UNCHANGED lifevars
        /\ UNCHANGED <<cpu, reported, features, line, link>>
    BY <1>4 DEF Relocate, Resolve
  <2>2. LifeInv' /\ Machine'
    BY <2>1, SameMachine, Quiet DEF lifevars, Ahead, Parts, CallOf
  <2>3. QED
    BY <2>1, <2>2, ResolveChosen DEF lifevars
<1>5. QED
  BY <1>1, <1>2, <1>3, <1>4

THEOREM LifecycleInductive == LifeSpec => []AllInv
<1>1. AllInv /\ [LifeNext]_<<lifevars, runtimevars>> => AllInv'
  <2> SUFFICES ASSUME AllInv, [LifeNext]_<<lifevars, runtimevars>> PROVE AllInv'
    OBVIOUS
  <2>1. CASE LifeNext
    <3>1. Load => phase # "gone"
      BY DEF Load
    <3>2. (\E w \in {"close", "exit"} : Unload(w)) => phase # "gone"
      BY DEF Unload
    <3>3. QED
      BY <2>1, <3>1, <3>2, LoadSteps, UnloadSteps, GeneratorSteps, AppSteps
         DEF LifeNext, LoaderStep
  <2>2. CASE UNCHANGED <<lifevars, runtimevars>>
    <3>1. Ahead' = Ahead /\ Parts' = Parts
      BY <2>2 DEF lifevars, system, Ahead, Parts
    <3>2. Uncaught' /\ Machine' /\ Chosen'
      BY <2>2, <3>1, SameMachine, Quiet
         DEF AllInv, LifeInv, Uncaught, NoStore, Machine, Chosen, lifevars, system, runtimevars
    <3>3. LifeTypes' /\ Loading' /\ Unloading'
      BY <2>2, <3>1
         DEF AllInv, LifeInv, LifeTypes, Loading, Unloading, lifevars, system, CallOf
    <3>4. QED
      BY <3>2, <3>3 DEF AllInv, LifeInv
  <2>3. QED
    BY <2>1, <2>2
<1>2. QED
  BY InitLife, <1>1, PTL DEF LifeSpec

(* No part is used before its init call or after its exit call, but for the *)
(* three uses named in Known, by any number of application threads in any   *)
(* order; and the generator finds no store only where the system has given  *)
(* no cache line.                                                           *)
THEOREM UsesLiveHolds == ASSUME PowersOfTwo PROVE LifeSpec => []UsesLive
<1>1. AllInv => UsesLive
  BY NoStoreMeansNoLine, PowersOfTwo DEF AllInv, LifeInv, Uncaught, UsesKnown, UsesLive
<1>2. QED
  BY <1>1, LifecycleInductive, PowersOfTwo, PTL

(* On every processor, what memswap executes works, and where its first     *)
(* call chooses the variant it is the widest that works.                    *)
THEOREM SupportedHolds == LifeSpec => []Supported
<1>1. AllInv => Supported
  BY DetectedWorks DEF AllInv, Machine, Chosen, Supported
<1>2. QED
  BY <1>1, LifecycleInductive, PTL
-----------------------------------------------------------------------------
(* Induction over a set: a least number outside it would follow one inside. *)
LEMMA Induction ==
  ASSUME NEW S, 0 \in S, \A n \in Nat : n \in S => n + 1 \in S
  PROVE  Nat \subseteq S
<1> DEFINE T == Nat \ S
<1>1. SUFFICES ASSUME T # {} PROVE FALSE
  OBVIOUS
<1>2. PICK m \in T : \A n \in T : <<n, m>> \notin OpToRel(<, Nat)
  BY <1>1, WFMin, NatLessThanWellFounded, Zenon
<1>3. \A n \in T : ~(n < m)
  BY <1>2 DEF OpToRel
<1>4. m - 1 \in Nat /\ m - 1 \in S
  <2>1. m \in Nat /\ m # 0
    OBVIOUS
  <2>2. QED
    BY <1>3, <2>1
<1>5. QED
  BY <1>4

(* The partial sums behind Total. *)
SumsTo(h, s, n) == \A i \in 0..n : h[i] = IF i = 0 THEN 0 ELSE h[i - 1] + s[i]
Sums(h, s) == h = [i \in 0..Len(s) |-> IF i = 0 THEN 0 ELSE h[i - 1] + s[i]]

LEMMA TotalIs == ASSUME NEW s PROVE Total(s) = (CHOOSE h : Sums(h, s))[Len(s)]
BY DEF Total, Sums

(* The sums of the beginnings of a sequence, one by one. *)
LEMMA SumsDefined ==
  ASSUME NEW s \in Seq(Nat)
  PROVE  \E h \in [0..Len(s) -> Nat] : Sums(h, s)
<1> DEFINE S == {n \in Nat : n <= Len(s) => \E h \in [0..n -> Nat] : SumsTo(h, s, n)}
<1>1. 0 \in S
  <2>1. SumsTo([i \in 0..0 |-> 0], s, 0) /\ [i \in 0..0 |-> 0] \in [0..0 -> Nat]
    BY DEF SumsTo
  <2>2. QED
    BY <2>1
<1>2. ASSUME NEW n \in Nat, n \in S PROVE n + 1 \in S
  <2>1. CASE n + 1 > Len(s)
    BY <2>1
  <2>2. CASE n + 1 <= Len(s)
    <3>1. PICK h \in [0..n -> Nat] : SumsTo(h, s, n)
      BY <1>2, <2>2
    <3> DEFINE g == [i \in 0..(n + 1) |-> IF i = n + 1 THEN h[n] + s[n + 1] ELSE h[i]]
    <3>2. s[n + 1] \in Nat /\ h[n] \in Nat
      BY <2>2
    <3>3. g \in [0..(n + 1) -> Nat]
      BY <3>2
    <3>4. SumsTo(g, s, n + 1)
      <4>1. ASSUME NEW i \in 0..(n + 1) PROVE g[i] = IF i = 0 THEN 0 ELSE g[i - 1] + s[i]
        <5>1. CASE i = n + 1
          BY <5>1
        <5>2. CASE i \in 0..n
          <6>1. h[i] = IF i = 0 THEN 0 ELSE h[i - 1] + s[i]
            BY <3>1, <5>2 DEF SumsTo
          <6>2. g[i] = h[i] /\ (i # 0 => g[i - 1] = h[i - 1])
            BY <5>2
          <6>3. QED
            BY <6>1, <6>2
        <5>3. QED
          BY <5>1, <5>2
      <4>2. QED
        BY <4>1 DEF SumsTo
    <3> HIDE DEF g
    <3>5. \E f \in [0..(n + 1) -> Nat] : SumsTo(f, s, n + 1)
      BY <3>3, <3>4, Zenon
    <3>6. n + 1 \in Nat
      OBVIOUS
    <3>7. QED
      BY <3>5, <3>6, Zenon
  <2>3. QED
    BY <2>1, <2>2
<1> HIDE DEF S
<1>3. Len(s) \in S
  BY <1>1, <1>2, Induction
<1>4. PICK h \in [0..Len(s) -> Nat] : SumsTo(h, s, Len(s))
  BY <1>3 DEF S
<1>5. Sums(h, s)
  BY <1>4 DEF Sums, SumsTo
<1>6. QED
  BY <1>5

(* Two sums of sequences that begin alike agree on what they share. *)
LEMMA SumsAgree ==
  ASSUME NEW s \in Seq(Nat), NEW t \in Seq(Nat), Len(s) <= Len(t), \A i \in 1..Len(s) : s[i] = t[i],
         NEW g, Sums(g, s), NEW h, Sums(h, t)
  PROVE  g[Len(s)] = h[Len(s)]
<1> DEFINE S == {n \in Nat : n <= Len(s) => g[n] = h[n]}
<1>1. 0 \in S
  BY DEF Sums
<1>2. ASSUME NEW n \in Nat, n \in S PROVE n + 1 \in S
  <2>1. CASE n + 1 <= Len(s)
    <3>1. g[n] = h[n]
      BY <1>2, <2>1
    <3>2. g[n + 1] = g[n] + s[n + 1] /\ h[n + 1] = h[n] + t[n + 1]
      BY <2>1 DEF Sums
    <3>3. QED
      BY <2>1, <3>1, <3>2
  <2>2. CASE n + 1 > Len(s)
    BY <2>2
  <2>3. QED
    BY <2>1, <2>2
<1> HIDE DEF S
<1>3. Nat \subseteq S
  BY <1>1, <1>2, Induction
<1>4. Len(s) \in S
  BY <1>3
<1>5. QED
  BY <1>4 DEF S

(* What Total makes of one more sample. *)
LEMMA TotalGrows ==
  /\ Total(<<>>) = 0
  /\ \A s \in Seq(Nat), x \in Nat : Total(Append(s, x)) = Total(s) + x /\ Total(s) \in Nat
<1>1. ASSUME NEW s \in Seq(Nat)
      PROVE  \E h \in [0..Len(s) -> Nat] : Sums(h, s) /\ Total(s) = h[Len(s)]
  <2> DEFINE h == CHOOSE f : Sums(f, s)
  <2>1. Sums(h, s)
    BY SumsDefined
  <2>2. PICK g \in [0..Len(s) -> Nat] : Sums(g, s)
    BY SumsDefined
  <2> HIDE DEF h
  <2>3. h[Len(s)] = g[Len(s)]
    BY <2>1, <2>2, SumsAgree
  <2>4. Total(s) = h[Len(s)]
    BY TotalIs DEF h
  <2>5. QED
    BY <2>2, <2>3, <2>4
<1>2. Total(<<>>) = 0
  <2>1. PICK h \in [0..Len(<<>>) -> Nat] : Sums(h, <<>>) /\ Total(<<>>) = h[Len(<<>>)]
    <3>1. <<>> \in Seq(Nat)
      OBVIOUS
    <3>2. QED
      BY <1>1, <3>1
  <2>2. QED
    BY <2>1 DEF Sums
<1>3. ASSUME NEW s \in Seq(Nat), NEW x \in Nat
      PROVE  Total(Append(s, x)) = Total(s) + x /\ Total(s) \in Nat
  <2> DEFINE t == Append(s, x)
  <2>1. t \in Seq(Nat) /\ Len(t) = Len(s) + 1 /\ t[Len(s) + 1] = x /\ \A i \in 1..Len(s) : s[i] = t[i]
    OBVIOUS
  <2> HIDE DEF t
  <2>2. PICK g \in [0..Len(s) -> Nat] : Sums(g, s) /\ Total(s) = g[Len(s)]
    BY <1>1
  <2>3. PICK h \in [0..Len(t) -> Nat] : Sums(h, t) /\ Total(t) = h[Len(t)]
    BY <1>1, <2>1
  <2>4. g[Len(s)] = h[Len(s)]
    BY <2>1, <2>2, <2>3, SumsAgree
  <2>5. h[Len(s) + 1] = h[Len(s)] + t[Len(s) + 1]
    BY <2>1, <2>3 DEF Sums
  <2>6. QED
    BY <2>1, <2>2, <2>3, <2>4, <2>5 DEF t
<1>4. QED
  BY <1>2, <1>3
-----------------------------------------------------------------------------
(* A reading tells the time it was taken at.                                *)
LEMMA PassedIs ==
  ASSUME source \in {"timespec", "counter"}, NEW t \in Nat, NEW u \in Nat
  PROVE  Passed(Reading(t), Reading(u)) = u - t
<1>1. CASE source = "timespec"
  <2> DEFINE a == t \div SEC2NANO
             b == u \div SEC2NANO
             c == t % SEC2NANO
             d == u % SEC2NANO
  <2>1. SEC2NANO \in Nat \ {0}
    BY UnitsAssumption
  <2>2. a \in Int /\ b \in Int /\ c \in Int /\ d \in Int /\ t = SEC2NANO * a + c /\ u = SEC2NANO * b + d
    BY <2>1
  <2>3. Reading(t) = <<c, a>> /\ Reading(u) = <<d, b>>
    BY <1>1 DEF Reading
  <2> HIDE DEF a, b, c, d
  <2>4. Passed(<<c, a>>, <<d, b>>) = (d - c) + SEC2NANO * (b - a)
    BY <1>1 DEF Passed
  <2>5. SEC2NANO * (b - a) = SEC2NANO * b - SEC2NANO * a
    BY <2>1, <2>2
  <2>6. SEC2NANO * b \in Int /\ SEC2NANO * a \in Int
    BY <2>1, <2>2
  <2>7. (d - c) + (SEC2NANO * b - SEC2NANO * a) = u - t
    BY <2>2, <2>6
  <2>8. QED
    BY <2>3, <2>4, <2>5, <2>7
<1>2. CASE source = "counter"
  BY <1>2 DEF Passed, Reading
<1>3. QED
  BY <1>1, <1>2

(* The samples, and what the fields of the clock are while there are none.  *)
Timing ==
  /\ source \in {"timespec", "counter"} /\ now \in Nat
  /\ begun \in Int /\ begun <= now
  /\ begun >= 0 => internal = Reading(begun)
  /\ samples \in Seq(Nat)
Sleeping ==
  /\ sleep \in [asked : Int, since : Int, towait : Nat]
  /\ (now - sleep.since) + sleep.towait >= sleep.asked
Extremes ==
  IF samples = <<>> THEN min = FLT_MAX /\ max = FLT_MIN
  ELSE /\ \E i \in 1..Len(samples) : min = 2 * samples[i]
       /\ \A i \in 1..Len(samples) : min <= 2 * samples[i] /\ max >= 2 * samples[i]
       /\ max = FLT_MIN \/ \E i \in 1..Len(samples) : max = 2 * samples[i]
       /\ max >= FLT_MIN
Statistics ==
  /\ count_query = Len(samples) /\ delta_sum = 2 * Total(samples)
  /\ samples # <<>> => delta = 2 * samples[Len(samples)] /\ avg = <<delta_sum, count_query>>

ClockInv == Timing /\ Sleeping /\ Extremes /\ Statistics

LEMMA ClockStarts == ClockInit => ClockInv
<1> SUFFICES ASSUME ClockInit PROVE ClockInv
  OBVIOUS
<1>1. Timing
  BY DEF ClockInit, Timing
<1>2. Sleeping
  BY DEF ClockInit, Sleeping
<1>3. Extremes
  BY DEF ClockInit, Extremes
<1>4. Statistics
  BY TotalGrows DEF ClockInit, Statistics
<1>5. QED
  BY <1>1, <1>2, <1>3, <1>4 DEF ClockInv

(* The least and the greatest so far are compared with the new sample. *)
LEMMA StopInv == ASSUME ClockInv, ClockStop, now < MaxTime PROVE ClockInv'
<1> DEFINE x == now - begun
           n == Len(samples)
<1>1. /\ Timing /\ Sleeping /\ Extremes /\ Statistics
      /\ begun >= 0 /\ samples' = Append(samples, x)
      /\ now' = now /\ begun' = begun /\ internal' = internal /\ source' = source /\ sleep' = sleep
  BY DEF ClockInv, ClockStop
<1>2. x \in Nat /\ n \in Nat /\ 2 * x < FLT_MAX
  BY <1>1, ClockBoundsAssumption DEF Timing, FLT_MAX
<1>3. Passed(internal, Reading(now)) = x
  BY <1>1, PassedIs DEF Timing
<1>4. /\ count_query' = count_query + 1 /\ delta_sum' = delta_sum + 2 * x
      /\ avg' = <<delta_sum', count_query'>> /\ delta' = 2 * x
      /\ max' = (IF 2 * x > max THEN 2 * x ELSE max)
      /\ min' = (IF 2 * x < min THEN 2 * x ELSE min)
  BY <1>3 DEF ClockStop
<1>5. /\ samples \in Seq(Nat) /\ samples' \in Seq(Nat) /\ Len(samples') = n + 1 /\ samples' # <<>>
      /\ samples'[n + 1] = x /\ \A i \in 1..n : samples'[i] = samples[i] /\ samples[i] \in Nat
  BY <1>1, <1>2 DEF Timing
<1>6. Total(samples') = Total(samples) + x /\ Total(samples) \in Nat
  BY <1>1, <1>2, <1>5, TotalGrows
<1> HIDE DEF x, n
<1>7. Timing'
  BY <1>1, <1>5 DEF Timing, Reading
<1>8. Sleeping'
  BY <1>1 DEF Sleeping
<1>9. Statistics'
  BY <1>1, <1>2, <1>4, <1>5, <1>6 DEF Statistics, n
<1>10. Extremes'
  <2>1. CASE samples = <<>>
    <3>1. n = 0
      BY <2>1 DEF n
    <3>2. min' = 2 * x /\ max' \in {2 * x, FLT_MIN} /\ max' >= 2 * x /\ max' >= FLT_MIN
      BY <1>1, <1>2, <1>4, <2>1, ClockBoundsAssumption DEF Extremes, FLT_MIN, FLT_MAX
    <3>3. QED
      BY SMTT(30), <1>2, <1>5, <3>1, <3>2 DEF Extremes
  <2>2. CASE samples # <<>>
    <3>1. /\ \E i \in 1..n : min = 2 * samples[i]
          /\ \A i \in 1..n : min <= 2 * samples[i] /\ max >= 2 * samples[i]
          /\ max = FLT_MIN \/ \E i \in 1..n : max = 2 * samples[i]
          /\ max >= FLT_MIN
      BY <1>1, <2>2 DEF Extremes, n
    <3>2. min \in Int /\ max \in Int /\ FLT_MIN \in Int
      BY <1>5, <3>1 DEF FLT_MIN
    <3>3. \A i \in 1..(n + 1) : samples'[i] = IF i = n + 1 THEN x ELSE samples[i]
      BY <1>2, <1>5
    <3>4. \E i \in 1..(n + 1) : min' = 2 * samples'[i]
      BY <1>2, <1>4, <1>5, <3>1
    <3>5. max' = FLT_MIN \/ \E i \in 1..(n + 1) : max' = 2 * samples'[i]
      BY SMTT(30), <1>2, <1>4, <1>5, <3>1
    <3>6. \A i \in 1..(n + 1) : min' <= 2 * samples'[i] /\ max' >= 2 * samples'[i]
      <4>1. ASSUME NEW i \in 1..n PROVE min' <= 2 * samples[i] /\ max' >= 2 * samples[i]
        <5>1. min <= 2 * samples[i] /\ max >= 2 * samples[i] /\ 2 * samples[i] \in Int /\ 2 * x \in Int
          BY SMTT(30), <1>2, <1>5, <3>1
        <5>2. QED
          BY <1>4, <3>2, <5>1
      <4>2. min' <= 2 * x /\ max' >= 2 * x
        BY <1>2, <1>4, <3>2
      <4>3. QED
        BY <1>2, <3>3, <4>1, <4>2
    <3>7. max' >= FLT_MIN
      BY <1>2, <1>4, <3>1, <3>2
    <3>8. QED
      BY <1>5, <3>4, <3>5, <3>6, <3>7 DEF Extremes
  <2>3. QED
    BY <2>1, <2>2
<1>11. QED
  BY <1>7, <1>8, <1>9, <1>10 DEF ClockInv

LEMMA ClockStep == ASSUME ClockInv, [ClockNext]_clockvars PROVE ClockInv'
<1>0. Timing /\ Sleeping /\ Extremes /\ Statistics
  BY DEF ClockInv
<1>1. CASE ClockStart
  <2>1. Timing'
    BY <1>0, <1>1 DEF ClockStart, Timing, Reading
  <2>2. Sleeping' /\ Extremes' /\ Statistics'
    BY <1>0, <1>1 DEF ClockStart, statistics, Sleeping, Extremes, Statistics
  <2>3. QED
    BY <2>1, <2>2 DEF ClockInv
<1>2. CASE now < MaxTime /\ ClockStop
  BY <1>2, StopInv
<1>3. CASE ClockReset
  <2>1. Timing' /\ Sleeping' /\ Extremes'
    BY <1>0, <1>3 DEF ClockReset, Timing, Reading, Sleeping, Extremes, FLT_MAX, FLT_MIN
  <2>2. Statistics'
    BY <1>0, <1>3, TotalGrows DEF ClockReset, Statistics
  <2>3. QED
    BY <2>1, <2>2 DEF ClockInv
<1>4. ASSUME NEW usecs \in Delays, ClockDelay(usecs) PROVE ClockInv'
  <2>1. Timing' /\ Extremes' /\ Statistics'
    BY <1>0, <1>4 DEF ClockDelay, Timing, Reading, statistics, Extremes, Statistics
  <2>2. Sleeping'
    <3>1. now' = now /\ now \in Nat
      BY <1>0, <1>4 DEF ClockDelay, Timing
    <3>2. CASE usecs <= 0 \/ usecs >= SEC2NANO \div MICRO2NANO
      BY <1>0, <1>4, <3>1, <3>2 DEF ClockDelay, Sleeping
    <3>3. CASE ~(usecs <= 0 \/ usecs >= SEC2NANO \div MICRO2NANO)
      <4> DEFINE wait == usecs * MICRO2NANO
      <4>1. wait \in Nat
        BY <3>3, DelaysAssumption, UnitsAssumption
      <4>2. sleep' = [asked |-> wait, since |-> now, towait |-> wait]
        BY <1>4, <3>3 DEF ClockDelay
      <4> HIDE DEF wait
      <4>3. QED
        BY <3>1, <4>1, <4>2 DEF Sleeping
    <3>4. QED
      BY <3>2, <3>3
  <2>3. QED
    BY <2>1, <2>2 DEF ClockInv
<1>5. CASE SleepEnds
  <2>1. PICK late \in {0, 1} : now' = now + sleep.towait + late
    BY <1>5 DEF SleepEnds
  <2>2. Sleeping' /\ now' \in Nat /\ now' >= now
    BY SMTT(30), <1>0, <1>5, <2>1 DEF SleepEnds, Sleeping, Timing
  <2>3. Timing' /\ Extremes' /\ Statistics'
    BY <1>0, <1>5, <2>2 DEF SleepEnds, Timing, Reading, statistics, Extremes, Statistics
  <2>4. QED
    BY <2>2, <2>3 DEF ClockInv
<1>6. CASE SleepInterrupted
  <2>1. PICK remain \in 1..sleep.towait : /\ now' = now + (sleep.towait - remain)
                                          /\ sleep' = [sleep EXCEPT !.towait = remain]
    BY <1>6 DEF SleepInterrupted
  <2> DEFINE slept == sleep.towait - remain
  <2>2. slept \in Nat /\ now' = now + slept /\ now' \in Nat /\ now' >= now
    BY <1>0, <2>1 DEF Sleeping, Timing
  <2>3. /\ sleep' \in [asked : Int, since : Int, towait : Nat] /\ sleep'.asked = sleep.asked
        /\ sleep'.since = sleep.since /\ sleep'.towait = remain
    BY <1>0, <2>1 DEF Sleeping
  <2>4. Sleeping'
    BY SMTT(30), <1>0, <2>1, <2>2, <2>3 DEF Sleeping, Timing
  <2>5. Timing' /\ Extremes' /\ Statistics'
    BY <1>0, <1>6, <2>2 DEF SleepInterrupted, Timing, Reading, statistics, Extremes, Statistics
  <2>6. QED
    BY <2>4, <2>5 DEF ClockInv
<1>7. CASE Pass
  <2>1. Timing' /\ Sleeping' /\ Extremes' /\ Statistics'
    BY <1>0, <1>7 DEF Pass, Timing, Reading, statistics, Sleeping, Extremes, Statistics
  <2>2. QED
    BY <2>1 DEF ClockInv
<1>8. CASE UNCHANGED clockvars
  BY <1>0, <1>8 DEF clockvars, statistics, ClockInv, Timing, Reading, Sleeping, Extremes, Statistics
<1>9. QED
  BY <1>1, <1>2, <1>3, <1>4, <1>5, <1>6, <1>7, <1>8 DEF ClockNext

LEMMA LeastIs ==
  ASSUME NEW S \in SUBSET Int, NEW m \in S, \A n \in S : m <= n
  PROVE  m = Min(S)
<1>1. Min(S) \in S /\ \A n \in S : Min(S) <= n
  BY DEF Min
<1> DEFINE least == Min(S)
<1> HIDE DEF least
<1>2. least \in Int /\ m \in Int /\ m <= least /\ least <= m
  BY <1>1 DEF least
<1>3. least = m
  BY <1>2
<1>4. QED
  BY <1>3 DEF least

LEMMA GreatestIs ==
  ASSUME NEW S \in SUBSET Int, NEW m \in S, \A n \in S : m >= n
  PROVE  m = Max(S)
<1>1. Max(S) \in S /\ \A n \in S : Max(S) >= n
  BY DEF Max
<1> DEFINE greatest == Max(S)
<1> HIDE DEF greatest
<1>2. greatest \in Int /\ m \in Int /\ m >= greatest /\ greatest >= m
  BY <1>1 DEF greatest
<1>3. greatest = m
  BY <1>2
<1>4. QED
  BY <1>3 DEF greatest

(* What a PerfClock says is about the samples since its last reset, in      *)
(* whatever order it is started, stopped and reset, and clock_delay does    *)
(* not return early, however often a signal interrupts its sleep.           *)
THEOREM MeasuredHolds == ClockSpec => []Measured
<1>1. ASSUME ClockInv PROVE Measured
  <2> DEFINE taken == {2 * s : s \in ToSet(samples)}
  <2>1. Timing /\ Sleeping /\ Extremes /\ Statistics
    BY <1>1 DEF ClockInv
  <2>2. samples \in Seq(Nat) /\ taken = {2 * samples[i] : i \in 1..Len(samples)}
    BY <2>1 DEF Timing, ToSet
  <2>3. Awake => now - sleep.since >= sleep.asked
    BY <2>1 DEF Timing, Sleeping, Awake
  <2>4. ASSUME samples # <<>> PROVE min = Min(taken) /\ max = Max(taken \cup {FLT_MIN})
    <3>1. \A i \in 1..Len(samples) : 2 * samples[i] \in Int
      BY <2>2
    <3> HIDE DEF taken
    <3>2. taken \subseteq Int /\ min \in taken /\ \A t \in taken : min <= t
      BY <2>1, <2>2, <2>4, <3>1 DEF Extremes
    <3>3. min = Min(taken)
      BY <3>2, LeastIs
    <3> DEFINE all == taken \cup {FLT_MIN}
    <3>4. all \subseteq Int
      BY <3>2 DEF FLT_MIN
    <3>5. \A t \in taken : max >= t
      BY <2>1, <2>2, <2>4 DEF Extremes
    <3>6. max \in all
      BY <2>1, <2>2, <2>4 DEF Extremes
    <3>7. \A t \in all : max >= t
      BY <2>1, <2>4, <3>5 DEF Extremes
    <3> HIDE DEF all
    <3>8. max = Max(all)
      BY <3>4, <3>6, <3>7, GreatestIs
    <3>9. QED
      BY <3>3, <3>8 DEF all
  <2>5. samples # <<>> => delta = 2 * Last(samples) /\ avg = <<delta_sum, count_query>>
    BY <2>1, <2>2 DEF Statistics, Last
  <2>6. QED
    BY <2>1, <2>3, <2>4, <2>5 DEF Measured, Statistics
<1>2. QED
  BY <1>1, ClockStarts, ClockStep, PTL DEF ClockSpec
=============================================================================
