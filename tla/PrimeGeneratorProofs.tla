------------------------ MODULE PrimeGeneratorProofs ------------------------
(***************************************************************************)
(* Theorems about the prime generator, for any number of clients, any size *)
(* of the bitfield and any growth of the list.                             *)
(***************************************************************************)
EXTENDS PrimeGenerator, SequenceTheorems, TLAPS

(* The library is being initialised. *)
Starting == mpc \in {"create", "await", "length", "alloc", "fill"}

(* No wake-up before internal_primegen_init has filled the list: with one,  *)
(* the thread extends a list that is not there yet.                         *)
NoEarlyWakeup == "init" \notin Spurious
-----------------------------------------------------------------------------
(* What realloc returns: the size asked for, with the old entries in front. *)
LEMMA ReallocResult ==
  ASSUME NEW old \in Seq(Nat), NEW size \in Nat
  PROVE  /\ Realloc(old, size) \in Seq(Nat)
         /\ Len(Realloc(old, size)) = size
         /\ \A n \in Nat : n <= size /\ n <= Len(old) =>
              \A i \in 1..n : Realloc(old, size)[i] = old[i]
<1> DEFINE entry(i) == IF i <= Len(old) THEN old[i] ELSE Garbage
<1>1. \A i \in 1..size : entry(i) \in Nat
  BY ElementOfSeq DEF Garbage
<1>2. [i \in 1..size |-> entry(i)] \in Seq(Nat)
  BY <1>1
<1>3. Realloc(old, size) = [i \in 1..size |-> entry(i)]
  BY DEF Realloc
<1>4. QED
  BY <1>2, <1>3
-----------------------------------------------------------------------------
(* The locks need no more than the places the clients can be in. *)
LockInv == cpc \in [Clients -> ClientStates] /\ LockDiscipline

LEMMA LockInit == Init => LockInv
  BY ClientsAssumption DEF Init, LockInv, LockDiscipline, WorkerHolds, ClientHolds, ClientStates

(* The steps of the initialising and exiting thread, and of the             *)
(* generator's thread.                                                      *)
LEMMA LockThreads ==
  ASSUME LockInv, MainStep \/ ExitCall \/ WorkerStep \/ SpuriousWakeup
  PROVE  LockInv'
<1> USE ClientsAssumption
    DEF LockInv, LockDiscipline, WorkerHolds, ClientHolds, ClientStates, shared, main, worker, client
<1>1. CASE MainStep
  BY <1>1 DEF MainStep, InitCreate, InitAwait, InitLength, InitAlloc, InitFill, ExitSignal,
              ExitJoin, Broadcast, Die
<1>2. CASE ExitCall
  BY <1>2 DEF ExitCall
<1>3. CASE WorkerBoot \/ WorkerLoop \/ WorkerWake \/ WorkerSieve
  BY <1>3 DEF WorkerBoot, WorkerLoop, WorkerWake, WorkerSieve, Die
<1>4. CASE WorkerStore \/ WorkerExtract
  BY <1>4 DEF WorkerStore, WorkerExtract
<1>5. CASE WorkerPublish \/ WorkerLeave
  BY <1>5 DEF WorkerPublish, WorkerLeave
<1>6. CASE SpuriousWakeup
  BY <1>6 DEF SpuriousWakeup
<1>7. QED
  BY <1>1, <1>2, <1>3, <1>4, <1>5, <1>6 DEF WorkerStep

(* The steps of a client. *)
LEMMA LockClient ==
  ASSUME LockInv, NEW c \in Clients, Call(c) \/ CallStep(c)
  PROVE  LockInv'
<1> USE ClientsAssumption
    DEF LockInv, LockDiscipline, WorkerHolds, ClientHolds, ClientStates, shared, main, worker,
        client, Goto, Free, Worker
<1>1. CASE Call(c)
  BY <1>1 DEF Call
<1>2. CASE Look(c) \/ Take(c) \/ Low(c)
  BY <1>2 DEF Look, Take, Low
<1>3. CASE RequestTry(c) \/ RequestSignal(c)
  BY <1>3 DEF RequestTry, RequestSignal, Broadcast
<1>4. CASE SlowLock(c) \/ GotIt(c) \/ SlowSignal(c)
  BY <1>4 DEF SlowLock, GotIt, SlowSignal, Broadcast
<1>5. CASE Try(c) \/ Block(c) \/ Release(c)
  BY <1>5 DEF Try, Block, Release
<1>6. CASE Verify(c)
  BY <1>6 DEF Verify, Die
<1>7. CASE Peek(c) \/ Fetch(c)
  BY <1>7 DEF Peek, Fetch
<1>8. QED
  BY <1>1, <1>2, <1>3, <1>4, <1>5, <1>6, <1>7 DEF CallStep

(* Mutual exclusion: whatever the clients do, and however the thread is     *)
(* woken, a thread in code that needs the mutex or the spin lock holds it.  *)
THEOREM LockDisciplineHolds == Spec => []LockDiscipline
<1>1. LockInv /\ [Next]_vars => LockInv'
  <2> SUFFICES ASSUME LockInv, [Next]_vars PROVE LockInv'
    OBVIOUS
  <2>1. CASE UNCHANGED vars
    BY <2>1 DEF LockInv, LockDiscipline, vars, shared, main, worker, client
  <2>2. CASE Next
    BY <2>2, LockThreads, LockClient DEF Next
  <2>3. QED
    BY <2>1, <2>2
<1>2. LockInv => LockDiscipline
  BY DEF LockInv
<1>3. QED
  BY LockInit, <1>1, <1>2, PTL DEF Spec
-----------------------------------------------------------------------------
(* Until the library is initialised nobody but the initialising thread      *)
(* touches the list; afterwards a call is made only while it is up.         *)
Phases ==
  /\ Starting => /\ wpc \in {"none", "boot", "loop", "wait"} /\ ~exit
                 /\ \A c \in Clients : cpc[c] = "idle"
  /\ \A c \in Clients : cpc[c] \notin {"idle", "dead"} => mpc = "up" /\ idx[c] >= 0

(* The published length is covered by the storage, and the storage by what  *)
(* the thread has written so far; a client about to read has its index      *)
(* below the length.                                                        *)
Storage ==
  /\ mpc \in {"alloc", "fill"} => len = Len(StaticPrimes)
  /\ mpc = "fill" => Len(list) = len
  /\ ~Starting => len <= Len(list)
  /\ wpc = "extract" => len <= new /\ new <= Len(list)
  /\ end >= STATIC_END
  /\ wpc \in {"store", "extract"} => end - 2 * JobBits >= STATIC_END
  /\ \A c \in Clients : cpc[c] \in {"take", "fetch"} => idx[c] < len

(* A pointer read under the spin lock is used before the lock is released.  *)
Pinned == \A c \in Clients : cpc[c] = "take" => ptr[c] = "live"

IInv == TypeOK /\ LockDiscipline /\ Phases /\ Storage /\ Pinned

LEMMA StaticList ==
  /\ StaticPrimes \in Seq(Nat) /\ Len(StaticPrimes) = 4
  /\ \A i \in 1..Len(StaticPrimes) : StaticPrimes[i] \in Nat
<1>1. StaticPrimes \in Seq(Nat) /\ Len(StaticPrimes) = 4
  BY DEF StaticPrimes
<1>2. QED
  BY <1>1, ElementOfSeq

LEMMA InitIInv == Init => IInv
<1> SUFFICES ASSUME Init PROVE IInv
  OBVIOUS
<1>1. TypeOK
  BY ClientsAssumption, EmptySeq
     DEF Init, TypeOK, MainStates, WorkerStates, ClientStates, STATIC_END, AllBits
<1>2. LockDiscipline
  BY LockInit DEF LockInv
<1>3. Phases /\ Storage /\ Pinned
  BY DEF Init, Phases, Storage, Pinned, Starting, STATIC_END
<1>4. QED
  BY <1>1, <1>2, <1>3 DEF IInv

(* The list after each step that changes it. *)
LEMMA NewList ==
  ASSUME IInv, InitAlloc \/ InitFill \/ WorkerStore \/ WorkerExtract
  PROVE  /\ list' \in Seq(Nat)
         /\ InitAlloc => Len(list') = len
         /\ InitFill => Len(list') = Len(list)
         /\ WorkerStore => Len(list') > len
         /\ WorkerExtract => Len(list') > new
         /\ ~Starting => /\ Len(list') >= len
                         /\ \A i \in 1..len : list'[i] = list[i]
<1>1. list \in Seq(Nat) /\ len \in Nat /\ new \in Nat /\ end \in Nat /\ bits \subseteq AllBits
  BY DEF IInv, TypeOK
<1>2. CASE InitAlloc
  <2>1. list' = Realloc(<<>>, len) /\ mpc = "alloc" /\ wpc \notin {"store", "extract"}
    BY <1>2 DEF InitAlloc, IInv, Phases, Starting
  <2>2. <<>> \in Seq(Nat)
    BY EmptySeq
  <2>3. list' \in Seq(Nat) /\ Len(list') = len
    BY <1>1, <2>1, <2>2, ReallocResult
  <2>4. QED
    BY <2>1, <2>3 DEF InitFill, WorkerStore, WorkerExtract, Starting
<1>3. CASE InitFill
  <2> DEFINE entry(i) == IF i <= Len(StaticPrimes) THEN StaticPrimes[i] ELSE list[i]
  <2>1. \A i \in 1..Len(list) : entry(i) \in Nat
    <3> SUFFICES ASSUME NEW i \in 1..Len(list) PROVE entry(i) \in Nat
      OBVIOUS
    <3>1. list[i] \in Nat
      BY <1>1, ElementOfSeq
    <3>2. i <= Len(StaticPrimes) => StaticPrimes[i] \in Nat
      BY StaticList
    <3>3. QED
      BY <3>1, <3>2
  <2>2. list' = [i \in 1..Len(list) |-> entry(i)] /\ mpc = "fill" /\ wpc \notin {"store", "extract"}
    BY <1>1, <1>3 DEF InitFill, IInv, Phases, Starting
  <2> HIDE DEF entry
  <2>3. list' \in Seq(Nat) /\ Len(list') = Len(list)
    BY <1>1, <2>1, <2>2
  <2>4. QED
    BY <2>2, <2>3 DEF InitAlloc, WorkerStore, WorkerExtract, Starting
<1>4. CASE WorkerStore
  <2>1. PICK estimate \in Estimates : list' = Realloc(list, MaxOf(estimate, len + Slack))
    BY <1>4 DEF WorkerStore
  <2>2. PICK size \in Nat : size > len /\ list' = Realloc(list, size)
    BY <1>1, <2>1, SizesAssumption DEF MaxOf
  <2>3. wpc = "store" /\ ~Starting /\ len <= Len(list)
    BY <1>4 DEF WorkerStore, IInv, Phases, Storage
  <2>4. list' \in Seq(Nat) /\ Len(list') > len
    BY <1>1, <2>2, ReallocResult
  <2>5. \A i \in 1..len : list'[i] = list[i]
    <3>1. \A i \in 1..len : Realloc(list, size)[i] = list[i]
      <4>1. len <= size /\ len <= Len(list)
        BY <1>1, <2>2, <2>3
      <4>2. QED
        BY <1>1, <4>1, ReallocResult
    <3>2. QED
      BY <2>2, <3>1
  <2>6. QED
    BY <1>1, <2>3, <2>4, <2>5 DEF WorkerExtract, InitAlloc, InitFill, Starting
<1>5. CASE WorkerExtract
  <2> DEFINE room == IF new = Len(list) THEN Realloc(list, new + Slack) ELSE list
             value(bit) == BitValue(JobStart(end - 2 * JobBits), bit)
  <2>1. PICK bit \in Least(bits) : list' = [room EXCEPT ![new + 1] = value(bit)]
    BY <1>5 DEF WorkerExtract
  <2>2. /\ wpc = "extract" /\ len <= new /\ new <= Len(list) /\ ~Starting
        /\ end - 2 * JobBits >= STATIC_END
    BY <1>5 DEF WorkerExtract, IInv, Storage, Phases
  <2>3. value(bit) \in Nat
    BY <1>1, <2>2, JobAssumption DEF Least, AllBits, BitValue, JobStart, STATIC_END
  <2>4. room \in Seq(Nat) /\ Len(room) > new /\ \A i \in 1..len : room[i] = list[i]
    <3>1. CASE new = Len(list)
      <4>1. PICK size \in Nat : size > new /\ room = Realloc(list, size)
        BY <3>1, <1>1, SizesAssumption
      <4>2. len <= size /\ len <= Len(list)
        BY <4>1, <1>1, <2>2
      <4>3. \A i \in 1..len : Realloc(list, size)[i] = list[i]
        BY <1>1, <4>2, ReallocResult
      <4>4. Realloc(list, size) \in Seq(Nat) /\ Len(Realloc(list, size)) = size
        BY <1>1, ReallocResult
      <4> HIDE DEF room
      <4>5. QED
        BY <4>1, <4>3, <4>4, <1>1, <2>2
    <3>2. CASE new # Len(list)
      BY <3>2, <1>1, <2>2
    <3>3. QED
      BY <3>1, <3>2
  <2> HIDE DEF room, value
  <2>5. new + 1 \in 1..Len(room)
    BY <1>1, <2>4
  <2>6. list' \in Seq(Nat) /\ Len(list') = Len(room) /\ \A i \in 1..len : list'[i] = room[i]
    BY <1>1, <2>1, <2>2, <2>3, <2>4, <2>5, ExceptSeq
  <2>7. QED
    BY <1>1, <2>2, <2>4, <2>6 DEF WorkerStore, InitAlloc, InitFill, Starting
<1>6. QED
  BY <1>2, <1>3, <1>4, <1>5

(* A client with a listed index reads an entry.                             *)
LEMMA Entry ==
  ASSUME IInv, NEW c \in Clients, cpc[c] \notin {"idle", "dead"}, idx[c] < len
  PROVE  list[idx[c] + 1] \in Nat
<1>1. idx[c] \in Nat /\ len \in Nat /\ len <= Len(list) /\ list \in Seq(Nat)
  BY DEF IInv, TypeOK, Phases, Storage, Starting
<1>2. idx[c] + 1 \in 1..Len(list)
  BY <1>1
<1>3. QED
  BY <1>1, <1>2, ElementOfSeq

Rest == TypeOK /\ Phases /\ Storage /\ Pinned

(* The steps of the initialising and exiting thread, and of the             *)
(* generator's thread.                                                      *)
LEMMA RestThreads ==
  ASSUME IInv, NoEarlyWakeup, MainStep \/ ExitCall \/ WorkerStep \/ SpuriousWakeup
  PROVE  Rest'
<1> USE DEF IInv, Rest, TypeOK, Phases, Storage, Pinned, Starting, LockDiscipline, MainStates,
            WorkerStates, ClientStates, shared, main, worker, client
<1>1. CASE InitCreate
  BY <1>1, CreationAssumption DEF InitCreate
<1>2. CASE InitAwait
  BY <1>2 DEF InitAwait
<1>3. CASE InitLength
  BY <1>3, StaticList DEF InitLength
<1>4. CASE InitAlloc
  BY <1>4, NewList DEF InitAlloc
<1>5. CASE InitFill
  <2>1. TypeOK'
    BY <1>5, NewList, StaticList DEF InitFill, Die
  <2>2. Phases'
    BY <1>5, NewList, StaticList DEF InitFill, Die
  <2>3. Storage'
    BY <1>5, NewList, StaticList DEF InitFill, Die
  <2>4. Pinned'
    BY <1>5, NewList, StaticList DEF InitFill, Die
  <2>5. QED
    BY <2>1, <2>2, <2>3, <2>4
<1>6. CASE ExitSignal
  BY <1>6 DEF ExitSignal, Broadcast
<1>7. CASE ExitJoin
  BY <1>7 DEF ExitJoin
<1>8. CASE ExitCall
  BY <1>8 DEF ExitCall
<1>9. CASE WorkerBoot
  BY <1>9 DEF WorkerBoot
<1>10. CASE WorkerLoop
  BY <1>10 DEF WorkerLoop
<1>11. CASE WorkerWake
  BY <1>11 DEF WorkerWake
<1>12. CASE WorkerSieve
  BY <1>12, JobAssumption DEF WorkerSieve, Die, JobEnd, STATIC_END, AllBits
<1>13. CASE WorkerStore
  <2>1. TypeOK'
    BY <1>13, NewList DEF WorkerStore, Moved
  <2>2. Phases'
    BY <1>13, NewList DEF WorkerStore, Moved
  <2>3. Storage'
    BY <1>13, NewList DEF WorkerStore, Moved
  <2>4. Pinned'
    BY <1>13, ClientsAssumption DEF WorkerStore
  <2>5. QED
    BY <2>1, <2>2, <2>3, <2>4
<1>14. CASE WorkerExtract
  <2>1. /\ wpc = "extract" /\ bits' \subseteq bits /\ new' = new + 1 /\ (ptr' = ptr \/ ptr' = Moved)
        /\ UNCHANGED <<mutex, spin, ready, exit, len, mpc, created, wpc, end, cpc, idx, val>>
    BY <1>14 DEF WorkerExtract
  <2>2. list' \in Seq(Nat) /\ Len(list') > new
    BY <1>14, NewList
  <2>3. TypeOK'
    BY <2>1, <2>2 DEF Moved
  <2>4. Phases'
    BY <2>1
  <2>5. Storage'
    BY <2>1, <2>2
  <2>6. Pinned'
    BY <2>1, ClientsAssumption
  <2>7. QED
    BY <2>3, <2>4, <2>5, <2>6
<1>15. CASE WorkerPublish
  BY <1>15 DEF WorkerPublish
<1>16. CASE WorkerLeave
  BY <1>16 DEF WorkerLeave
<1>17. CASE SpuriousWakeup
  BY <1>17, NoEarlyWakeup DEF SpuriousWakeup, Initialised, NoEarlyWakeup
<1>18. QED
  BY <1>1, <1>2, <1>3, <1>4, <1>5, <1>6, <1>7, <1>8, <1>9, <1>10, <1>11, <1>12, <1>13,
     <1>14, <1>15, <1>16, <1>17
  DEF MainStep, WorkerStep

(* The steps of a client. *)
LEMMA RestClient ==
  ASSUME IInv, NEW c \in Clients, Call(c) \/ CallStep(c)
  PROVE  Rest'
<1> USE DEF IInv, Rest, TypeOK, Phases, Storage, Pinned, Starting, LockDiscipline, MainStates,
            WorkerStates, ClientStates, shared, main, worker, client, Goto
<1>1. CASE Call(c)
  BY <1>1 DEF Call
<1>2. CASE Look(c)
  <2>1. TypeOK'
    BY <1>2, ClientsAssumption DEF Look, Listed
  <2>2. Phases'
    BY <1>2, ClientsAssumption DEF Look, Listed
  <2>3. Storage'
    BY <1>2, ClientsAssumption DEF Look, Listed
  <2>4. Pinned'
    BY <1>2, ClientsAssumption DEF Look, Listed
  <2>5. QED
    BY <2>1, <2>2, <2>3, <2>4
<1>3. CASE Take(c)
  <2>0. list[idx[c] + 1] \in Nat
    BY <1>3, Entry DEF Take
  <2>1. TypeOK'
    BY <1>3, <2>0 DEF Take, Read
  <2>2. Phases'
    BY <1>3, <2>0 DEF Take, Read
  <2>3. Storage'
    BY <1>3, <2>0 DEF Take, Read
  <2>4. Pinned'
    BY <1>3, <2>0 DEF Take, Read
  <2>5. QED
    BY <2>1, <2>2, <2>3, <2>4
<1>4. CASE Low(c)
  BY <1>4 DEF Low
<1>5. CASE RequestTry(c)
  BY SMTT(30), <1>5 DEF RequestTry
<1>6. CASE RequestSignal(c)
  BY <1>6 DEF RequestSignal, Broadcast
<1>7. CASE SlowLock(c)
  BY <1>7 DEF SlowLock
<1>8. CASE GotIt(c)
  <2>0. list[idx[c] + 1] \in Nat
    BY <1>8, Entry DEF GotIt, Listed
  <2>1. TypeOK'
    BY <1>8, <2>0 DEF GotIt, Read
  <2>2. Phases'
    BY <1>8 DEF GotIt, Read
  <2>3. Storage'
    BY <1>8 DEF GotIt, Read
  <2>4. Pinned'
    BY <1>8 DEF GotIt, Read
  <2>5. QED
    BY <2>1, <2>2, <2>3, <2>4
<1>9. CASE SlowSignal(c)
  BY <1>9 DEF SlowSignal, Broadcast
<1>10. CASE Try(c)
  <2>1. TypeOK'
    BY ZenonT(30), <1>10 DEF Try
  <2>2. Phases'
    BY <1>10 DEF Try
  <2>3. Storage'
    BY <1>10 DEF Try
  <2>4. Pinned'
    BY <1>10 DEF Try
  <2>5. QED
    BY <2>1, <2>2, <2>3, <2>4
<1>11. CASE Block(c)
  BY <1>11 DEF Block
<1>12. CASE Verify(c)
  <2>0. Listed(c) => list[idx[c] + 1] \in Nat
    BY <1>12, Entry DEF Verify, Listed
  <2>1. TypeOK'
    BY ZenonT(30), <1>12, <2>0 DEF Verify, Read, Listed, Die
  <2>2. Phases'
    BY <1>12, <2>0 DEF Verify, Read, Listed, Die
  <2>3. Storage'
    BY <1>12, <2>0 DEF Verify, Read, Listed, Die
  <2>4. Pinned'
    BY <1>12, <2>0 DEF Verify, Read, Listed, Die
  <2>5. QED
    BY <2>1, <2>2, <2>3, <2>4
<1>13. CASE Release(c)
  BY <1>13 DEF Release
<1>14. CASE Peek(c)
  <2>1. TypeOK'
    BY ZenonT(30), <1>14 DEF Peek, Listed
  <2>2. Phases'
    BY <1>14 DEF Peek, Listed
  <2>3. Storage'
    BY <1>14 DEF Peek, Listed
  <2>4. Pinned'
    BY <1>14 DEF Peek, Listed
  <2>5. QED
    BY <2>1, <2>2, <2>3, <2>4
<1>15. CASE Fetch(c)
  <2>0. list[idx[c] + 1] \in Nat
    BY <1>15, Entry DEF Fetch
  <2>1. TypeOK'
    <3>1. val' \in [Clients -> Nat]
      BY <1>15, <2>0 DEF Fetch, Read, Garbage
    <3>2. /\ cpc' = [cpc EXCEPT ![c] = "idle"] /\ ptr' = [ptr EXCEPT ![c] = "none"]
          /\ UNCHANGED <<shared, main, worker, idx>>
      BY <1>15 DEF Fetch
    <3>3. QED
      BY <3>1, <3>2
  <2>2. Phases'
    BY <1>15, <2>0 DEF Fetch, Read, Garbage
  <2>3. Storage'
    BY <1>15, <2>0 DEF Fetch, Read, Garbage
  <2>4. Pinned'
    BY <1>15, <2>0 DEF Fetch, Read, Garbage
  <2>5. QED
    BY <2>1, <2>2, <2>3, <2>4
<1>16. QED
  BY <1>1, <1>2, <1>3, <1>4, <1>5, <1>6, <1>7, <1>8, <1>9, <1>10, <1>11, <1>12, <1>13,
     <1>14, <1>15
  DEF CallStep

LEMMA StepIInv ==
  ASSUME IInv, NoEarlyWakeup, [Next]_vars
  PROVE  IInv'
<1>1. CASE UNCHANGED vars
  BY <1>1 DEF IInv, TypeOK, LockDiscipline, Phases, Storage, Pinned, Starting, vars, shared,
              main, worker, client
<1>2. CASE Next
  <2>1. LockInv
    BY DEF IInv, TypeOK, LockInv
  <2>2. LockInv' /\ Rest'
    BY <1>2, <2>1, NoEarlyWakeup, LockThreads, LockClient, RestThreads, RestClient DEF Next
  <2>3. QED
    BY <2>2 DEF IInv, LockInv, Rest
<1>3. QED
  BY <1>1, <1>2

(* IInv is inductive: the locking and the rest by the lemmas above. *)
THEOREM Inductive == ASSUME NoEarlyWakeup PROVE Spec => []IInv
<1>1. IInv /\ [Next]_vars => IInv'
  BY StepIInv, NoEarlyWakeup
<1>2. QED
  BY InitIInv, <1>1, PTL DEF Spec

(* Every variable keeps to its type.                                        *)
THEOREM TypeCorrect == ASSUME NoEarlyWakeup PROVE Spec => []TypeOK
<1>1. IInv => TypeOK
  BY DEF IInv
<1>2. QED
  BY <1>1, Inductive, NoEarlyWakeup, PTL

(* The extraction loop never writes behind the storage it reallocated, for  *)
(* any number of bits left set and any estimate of their number.            *)
THEOREM WriteInCapacityHolds == ASSUME NoEarlyWakeup PROVE Spec => []WriteInCapacity
<1>1. IInv => WriteInCapacity
  BY DEF IInv, Storage, WriteInCapacity
<1>2. QED
  BY <1>1, Inductive, NoEarlyWakeup, PTL

(* A read under the spin lock is of the list's current storage and inside   *)
(* it, whatever the other clients and the thread do.                        *)
LockedReadClean ==
  \A c \in Clients : cpc[c] = "take" => ptr[c] = "live" /\ idx[c] + 1 \in DOMAIN list

THEOREM LockedReads == ASSUME NoEarlyWakeup PROVE Spec => []LockedReadClean
<1>1. IInv => LockedReadClean
  <2> SUFFICES ASSUME IInv, NEW c \in Clients, cpc[c] = "take"
               PROVE  ptr[c] = "live" /\ idx[c] + 1 \in DOMAIN list
    BY DEF LockedReadClean
  <2>1. idx[c] \in Nat /\ idx[c] < len /\ len <= Len(list) /\ list \in Seq(Nat) /\ len \in Nat
    BY DEF IInv, TypeOK, Phases, Storage, Starting
  <2>2. idx[c] + 1 \in DOMAIN list
    BY <2>1, LenProperties
  <2>3. QED
    BY <2>2 DEF IInv, Pinned
<1>2. QED
  BY <1>1, Inductive, NoEarlyWakeup, PTL

(* What is published stays: no step of any thread shortens the list or      *)
(* changes an entry below its length.                                       *)
THEOREM PublishedStableHolds == ASSUME NoEarlyWakeup PROVE Spec => PublishedStable
<1> DEFINE Stable == /\ len' >= len
                     /\ \A i \in 1..len : /\ i \in DOMAIN list /\ i \in DOMAIN list'
                                          /\ list'[i] = list[i]
<1>1. IInv /\ IInv' /\ [Next]_vars => [Initialised => Stable]_<<list, len>>
  <2> SUFFICES ASSUME IInv, IInv', Next, Initialised PROVE Stable
    BY DEF vars, shared
  <2>1. /\ ~Starting /\ len \in Nat /\ list \in Seq(Nat) /\ len <= Len(list)
        /\ len' \in Nat /\ list' \in Seq(Nat)
    BY DEF IInv, TypeOK, Storage, Initialised, Starting
  <2>2. CASE WorkerStore \/ WorkerExtract
    <3>1. len' = len
      BY <2>2 DEF WorkerStore, WorkerExtract
    <3>2. Len(list') >= len /\ \A i \in 1..len : list'[i] = list[i]
      BY <2>1, <2>2, NewList
    <3>3. QED
      BY <2>1, <3>1, <3>2, LenProperties
  <2>3. CASE WorkerPublish
    BY <2>1, <2>3, LenProperties DEF WorkerPublish, IInv, Storage, TypeOK
  <2>4. CASE UNCHANGED <<list, len>>
    BY <2>1, <2>4, LenProperties
  <2>5. QED
    <3>1. \/ WorkerStore \/ WorkerExtract \/ WorkerPublish \/ UNCHANGED <<list, len>>
      BY <2>1 DEF Next, MainStep, WorkerStep, CallStep, Starting, shared, InitCreate, InitAwait,
           InitLength, InitAlloc, InitFill, ExitSignal, ExitJoin, ExitCall, SpuriousWakeup,
           WorkerBoot, WorkerLoop, WorkerWake, WorkerSieve, WorkerLeave, Call, Look, Take, Low,
           RequestTry, RequestSignal, SlowLock, GotIt, SlowSignal, Try, Block, Verify, Release,
           Peek, Fetch
    <3>2. QED
      BY <2>2, <2>3, <2>4, <3>1
<1>2. QED
  BY Inductive, NoEarlyWakeup, <1>1, PTL DEF Spec, PublishedStable
-----------------------------------------------------------------------------
(***************************************************************************)
(* One client, and wake-ups that are never spurious: then the reads under  *)
(* no lock (lines 40 and 78) are safe as well, because the client and the  *)
(* thread take turns.  With a second client or a spurious wake-up TLC      *)
(* finds the reads dangling.                                               *)
(***************************************************************************)
OneClient == (\A c, d \in Clients : c = d) /\ Spurious = {}

(* Where a client waits for the thread it has woken. *)
Asking == {"try", "block", "verify", "release", "peek"}
(* Where a client has its number. *)
Served == {"idle", "take", "low", "request", "signal", "fetch"}

(* The thread is there from the moment the initialising thread has seen the *)
(* flag, and leaves only when told to; nothing ends the process.            *)
Alive ==
  /\ mpc = "create" => ~ready /\ wpc = "none"
  /\ mpc \notin {"create", "await"} => ready
  /\ wpc # "none" => created
  /\ ready => wpc \notin {"none", "boot"}
  /\ mpc # "dead" /\ wpc # "dead" /\ \A c \in Clients : cpc[c] # "dead"
  /\ exit => mpc \in {"join", "down"}
  /\ wpc \in {"leave", "done"} => exit
  /\ mutex = Worker => wpc \in WorkerHolds

(* A job extends the list by one entry at least. *)
Fruitful ==
  /\ wpc = "store" => bits # {}
  /\ wpc = "extract" => bits # {} \/ new > len

(* A client is never more than one entry ahead of the list. *)
NextIndex ==
  \A c \in Clients : /\ idx[c] <= len
                     /\ cpc[c] \in Served => idx[c] < len
                     /\ Starting => idx[c] = -1

(* From its request to its result, a client finds the list extended exactly *)
(* when the thread's turn is over.                                          *)
Turns ==
  \A c \in Clients :
    /\ cpc[c] \in {"try", "block", "peek"} => mutex # c
    /\ cpc[c] \in Asking /\ idx[c] >= len => wpc \in {"wake", "sieve", "store", "extract"}
    /\ cpc[c] \in {"block", "verify"} => wpc # "wake"
    /\ cpc[c] \in Asking \cup {"fetch"} /\ idx[c] < len => wpc \in {"loop", "wait"}

(* What a client has read is what the list holds. *)
Result ==
  \A c \in Clients :
    /\ cpc[c] = "fetch" => ptr[c] = "live"
    /\ cpc[c] \in {"idle", "low", "request", "signal"} /\ idx[c] >= 0 => val[c] = list[idx[c] + 1]

OneInv == IInv /\ Alive /\ Fruitful /\ NextIndex /\ Turns /\ Result

LEMMA InitOneInv == Init => OneInv
<1> SUFFICES ASSUME Init PROVE OneInv
  OBVIOUS
<1>1. IInv
  BY InitIInv
<1>2. Alive /\ Fruitful /\ NextIndex /\ Turns /\ Result
  BY ClientsAssumption
     DEF Init, Alive, Fruitful, NextIndex, Turns, Result, Starting, Served, Asking, Free, Worker
<1>3. QED
  BY <1>1, <1>2 DEF OneInv

OneRest == Alive /\ Fruitful /\ NextIndex /\ Turns /\ Result

(* The steps of the initialising and exiting thread. *)
LEMMA OneMain ==
  ASSUME OneInv, OneClient, MainStep \/ ExitCall \/ SpuriousWakeup
  PROVE  OneRest'
<1> USE ClientsAssumption DEF OneInv, IInv, TypeOK, Phases, OneRest, Alive, Fruitful, NextIndex,
        Turns, Result, Starting, Served, Asking, WorkerHolds, MainStates, WorkerStates,
        ClientStates, LockDiscipline, Free, Worker, shared, main, worker, client
<1>1. CASE InitCreate
  BY <1>1 DEF InitCreate
<1>2. CASE InitAwait
  BY <1>2 DEF InitAwait
<1>3. CASE InitLength
  BY <1>3, StaticList DEF InitLength
<1>4. CASE InitAlloc \/ InitFill
  <2>1. /\ mpc \in {"alloc", "fill"} /\ mpc' \in {"fill", "up"}
        /\ UNCHANGED <<mutex, spin, ready, exit, len, created, wpc, bits, new, cpc, idx, val, ptr>>
    BY <1>4 DEF InitAlloc, InitFill
  <2>2. QED
    BY <2>1
<1>5. CASE ExitCall
  BY <1>5 DEF ExitCall
<1>6. CASE ExitSignal
  BY <1>6 DEF ExitSignal, Broadcast
<1>7. CASE ExitJoin
  BY <1>7 DEF ExitJoin
<1>8. CASE SpuriousWakeup
  BY <1>8 DEF SpuriousWakeup, OneClient
<1>9. QED
  BY <1>1, <1>2, <1>3, <1>4, <1>5, <1>6, <1>7, <1>8 DEF MainStep

(* The steps of the generator's thread. *)
LEMMA OneWorker ==
  ASSUME OneInv, OneClient, WorkerStep
  PROVE  OneRest'
<1> USE ClientsAssumption DEF OneInv, IInv, TypeOK, Phases, OneRest, Alive, Fruitful, NextIndex,
        Turns, Result, Starting, Served, Asking, WorkerHolds, MainStates, WorkerStates,
        ClientStates, LockDiscipline, Free, Worker, shared, main, worker, client
<1>1. CASE WorkerBoot
  BY <1>1 DEF WorkerBoot
<1>2. CASE WorkerLoop
  BY <1>2 DEF WorkerLoop
<1>3. CASE WorkerWake
  BY <1>3 DEF WorkerWake
<1>4. CASE WorkerSieve
  <2>1. ~(len > 2 /\ list = <<>>)
    BY <1>4, EmptySeq DEF WorkerSieve, Storage
  <2>2. /\ wpc = "sieve" /\ wpc' \in {"leave", "store"} /\ (wpc' = "leave") = exit
        /\ bits' \in JobResults
        /\ UNCHANGED <<shared, main, new, client>>
    BY <1>4, <2>1 DEF WorkerSieve
  <2>3. QED
    BY <2>2, JobAssumption
<1>5. CASE WorkerStore \/ WorkerExtract
  <2>1. ~Starting /\ wpc \in {"store", "extract"} /\ wpc' = "extract"
    BY <1>5 DEF WorkerStore, WorkerExtract
  <2>2. \A i \in 1..len : list'[i] = list[i]
    BY <1>5, <2>1, NewList
  <2>3. \A c \in Clients : ptr[c] = "live" => cpc[c] # "fetch"
    BY <2>1
  <2>4. (WorkerStore => bits # {} /\ bits' = bits) /\ (WorkerExtract => new' > len)
    BY <2>1 DEF WorkerStore, WorkerExtract, Storage
  <2>5. UNCHANGED <<mutex, ready, exit, len, mpc, created, cpc, idx, val>>
    BY <1>5 DEF WorkerStore, WorkerExtract
  <2>6. Alive' /\ Fruitful' /\ NextIndex' /\ Turns'
    BY <1>5, <2>1, <2>4, <2>5
  <2>7. Result'
    BY SMTT(30), <2>1, <2>2, <2>3, <2>5
  <2>8. QED
    BY <2>6, <2>7
<1>6. CASE WorkerPublish
  <2>1. /\ wpc = "extract" /\ wpc' = "loop" /\ len' = new /\ new > len
        /\ UNCHANGED <<mutex, ready, exit, list, main, end, bits, new, client>>
    BY <1>6 DEF WorkerPublish
  <2>2. \A c \in Clients : cpc[c] # "fetch" /\ (cpc[c] \in Asking => idx[c] = len)
    BY <2>1
  <2>3. Alive' /\ Fruitful' /\ NextIndex'
    BY <2>1
  <2>4. Turns' /\ Result'
    BY <2>1, <2>2
  <2>5. QED
    BY <2>3, <2>4
<1>7. CASE WorkerLeave
  BY <1>7 DEF WorkerLeave
<1>8. QED
  BY <1>1, <1>2, <1>3, <1>4, <1>5, <1>6, <1>7 DEF WorkerStep

(* The steps of the client. *)
LEMMA OneCall ==
  ASSUME OneInv, OneClient, NEW c \in Clients, Call(c) \/ CallStep(c)
  PROVE  OneRest'
<1> USE ClientsAssumption DEF OneInv, IInv, TypeOK, Phases, OneRest, Alive, Fruitful, NextIndex,
        Turns, Result, Starting, Served, Asking, WorkerHolds, ClientHolds, MainStates, WorkerStates,
        ClientStates, LockDiscipline, Free, Worker, shared, main, worker, client, Goto, Listed
<1>0. \A d \in Clients : d = c
  BY DEF OneClient
<1>1. CASE Call(c)
  BY <1>0, <1>1 DEF Call
<1>2. CASE Look(c)
  BY <1>0, <1>2 DEF Look
<1>3. CASE Take(c)
  BY <1>0, <1>3 DEF Take, Read
<1>4. CASE Low(c)
  BY <1>0, <1>4 DEF Low
<1>5. CASE RequestTry(c)
  BY <1>0, <1>5 DEF RequestTry
<1>6. CASE RequestSignal(c)
  BY <1>0, <1>6 DEF RequestSignal, Broadcast
<1>7. CASE SlowLock(c)
  BY <1>0, <1>7 DEF SlowLock
<1>8. CASE GotIt(c)
  BY <1>0, <1>8 DEF GotIt, Read
<1>9. CASE SlowSignal(c)
  <2>0. cpc[c] = "recheck" /\ mutex = c /\ idx[c] = len
    <3>1. cpc[c] = "recheck" /\ ~(idx[c] < len) /\ idx[c] \in Int /\ len \in Int
      BY <1>9 DEF SlowSignal
    <3>2. mutex = c /\ idx[c] <= len
      BY <3>1
    <3>3. QED
      BY <3>1, <3>2
  <2>1. /\ mutex' = Free
        /\ cpc' = [cpc EXCEPT ![c] = "try"]
        /\ UNCHANGED <<spin, ready, exit, list, len, main, end, bits, new, idx, val, ptr>>
    BY <1>9 DEF SlowSignal
  <2>2. wpc \in {"wait", "wake"} /\ wpc' = "wake"
    BY <1>9, <2>0 DEF SlowSignal, Broadcast
  <2>3. Alive' /\ Fruitful' /\ NextIndex'
    BY <2>0, <2>1, <2>2
  <2>4. Turns' /\ Result'
    BY <1>0, <2>0, <2>1, <2>2
  <2>5. QED
    BY <2>3, <2>4
<1>10. CASE Try(c)
  BY <1>0, <1>10 DEF Try
<1>11. CASE Block(c)
  BY <1>0, <1>11 DEF Block
<1>12. CASE Verify(c)
  <2>0. cpc[c] = "verify" /\ mutex = c /\ idx[c] \in Int /\ len \in Int /\ c # Worker
    BY <1>12 DEF Verify
  <2>1. idx[c] < len
    <3>1. wpc \notin {"wake", "sieve", "store", "extract"}
      BY <2>0
    <3>2. QED
      BY <2>0, <3>1
  <2>2. /\ mutex' = Free /\ val' = [val EXCEPT ![c] = list[idx[c] + 1]]
        /\ cpc' = [cpc EXCEPT ![c] = "idle"]
        /\ UNCHANGED <<spin, ready, exit, list, len, main, worker, idx, ptr>>
    BY <1>12, <2>0, <2>1 DEF Verify, Read
  <2>3. QED
    BY <1>0, <2>0, <2>1, <2>2
<1>13. CASE Release(c)
  BY <1>0, <1>13 DEF Release
<1>14. CASE Peek(c)
  BY <1>0, <1>14 DEF Peek
<1>15. CASE Fetch(c)
  BY <1>0, <1>15 DEF Fetch, Read
<1>16. QED
  BY <1>1, <1>2, <1>3, <1>4, <1>5, <1>6, <1>7, <1>8, <1>9, <1>10, <1>11, <1>12, <1>13,
     <1>14, <1>15
  DEF CallStep

THEOREM OneInductive == ASSUME OneClient PROVE Spec => []OneInv
<1>1. NoEarlyWakeup
  BY DEF OneClient, NoEarlyWakeup
<1>2. OneInv /\ [Next]_vars => OneInv'
  <2> SUFFICES ASSUME OneInv, [Next]_vars PROVE OneInv'
    OBVIOUS
  <2>1. IInv'
    BY <1>1, StepIInv DEF OneInv
  <2>2. CASE UNCHANGED vars
    BY <2>1, <2>2 DEF OneInv, Alive, Fruitful, NextIndex, Turns, Result, Starting, vars, shared,
                      main, worker, client
  <2>3. CASE Next
    <3>1. OneRest'
      BY <2>3, OneClient, OneMain, OneWorker, OneCall DEF Next
    <3>2. QED
      BY <2>1, <3>1 DEF OneInv, OneRest
  <2>4. QED
    BY <2>2, <2>3
<1>3. QED
  BY InitOneInv, <1>2, PTL DEF Spec

(* Every read of the list, those under no lock (lines 40 and 78) too, is of *)
(* the current storage and inside it.                                       *)
THEOREM CleanReadHolds == ASSUME OneClient PROVE Spec => []CleanRead
<1>1. OneInv => CleanRead
  <2> SUFFICES ASSUME OneInv, NEW c \in Clients, cpc[c] \in {"take", "fetch"}
               PROVE  ptr[c] = "live" /\ idx[c] + 1 \in DOMAIN list
    BY DEF CleanRead
  <2>1. ptr[c] = "live"
    BY DEF OneInv, IInv, Pinned, Result
  <2>2. idx[c] \in Nat /\ idx[c] < len /\ len <= Len(list) /\ list \in Seq(Nat) /\ len \in Nat
    BY DEF OneInv, IInv, TypeOK, Phases, Storage, Starting
  <2>3. QED
    BY <2>1, <2>2, LenProperties
<1>2. QED
  BY <1>1, OneInductive, OneClient, PTL

(* What a call has returned is the list's entry at the client's index, on   *)
(* each of the four paths that return one.                                  *)
THEOREM ResultIsEntryHolds == ASSUME OneClient PROVE Spec => []ResultIsEntry
<1>1. OneInv => ResultIsEntry
  BY DEF OneInv, Result, ResultIsEntry
<1>2. QED
  BY <1>1, OneInductive, OneClient, PTL

(* The client never gives up over a thread that has given it nothing        *)
(* (line 72): the thread has had its turn when the client finds the mutex.  *)
THEOREM NoAbortHolds == ASSUME OneClient PROVE Spec => []NoAbort
<1>1. OneInv => NoAbort
  BY DEF OneInv, Alive, NoAbort
<1>2. QED
  BY <1>1, OneInductive, OneClient, PTL
=============================================================================
