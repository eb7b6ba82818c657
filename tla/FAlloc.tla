------------------------------- MODULE FAlloc -------------------------------
(***************************************************************************)
(* The fast allocator of one thread (src/memory/FAlloc.c): a region of     *)
(* memory used as a stack.  No two threads share one, so that one thread   *)
(* is all there is to see.                                                 *)
(*                                                                         *)
(* Addresses are relative to the start of the region, which the system     *)
(* puts on a page boundary; alignments go up to a page.  A system that     *)
(* refuses the first region ends the process and is left out.              *)
(***************************************************************************)
EXTENDS Integers, Sequences

CONSTANTS Platforms,    \* which of the three builds: "linux", "mac", "windows"
          StackSize,    \* MEMORY_FALLOC_STACK_SIZE
          PageSize,     \* what Windows commits at a time
          Requests,     \* the lengths asked for
          Alignments,   \* powers of two
          MaxStack,     \* bound: the region cannot grow in place beyond it
          MaxBlocks     \* bound: blocks held at once

ASSUME PlatformsAssumption == Platforms \subseteq {"linux", "mac", "windows"}
(* A region of one byte would never grow: 1 + 1 / 2 is 1. *)
ASSUME StackSizeAssumption == StackSize \in Nat \ {0, 1} /\ PageSize \in Nat \ {0}
ASSUME RequestsAssumption == Requests \subseteq Nat /\ Alignments \subseteq Nat \ {0}
ASSUME BoundsAssumption == MaxStack \in Nat /\ MaxBlocks \in Nat

VARIABLES platform,
          tls,      \* the ThreadLocalStack, or NoStack before its first use;
                    \* reserved is a field of the Windows build only
          blocks    \* what the caller holds, oldest first

stackvars == <<platform, tls, blocks>>

NoStack == [usage |-> 0, allocated |-> 0, reserved |-> 0]

StackInit == platform \in Platforms /\ tls = NoStack /\ blocks = <<>>

(* falloc_get_tls: the stack, made on first use.  Windows reserves the      *)
(* addresses and commits memory later.                                      *)
Stack ==
  IF tls # NoStack THEN tls
  ELSE [usage     |-> 0,
        allocated |-> IF platform = "windows" THEN 0 ELSE StackSize,
        reserved  |-> StackSize]

(* Half as much again, at least once, until there is enough. *)
Grown(size, needed) ==
  LET grow[a \in Nat] == IF a >= needed THEN a ELSE grow[a + a \div 2]
  IN  grow[size + size \div 2]

Committed(size, needed) ==
  size + PageSize * ((needed - size + PageSize - 1) \div PageSize)

(* Each outcome of falloc_ensure_space: whether there is enough space, and  *)
(* the stack afterwards.                                                    *)
Failed(s) == [ok |-> FALSE, stack |-> s]
Granted(s) == [ok |-> TRUE, stack |-> s]

(* mremap, told not to move the region. *)
Remapped(s, needed) ==
  LET size == Grown(s.allocated, needed)
  IN  {Failed(s)} \cup {Granted([s EXCEPT !.allocated = m]) : m \in {size} \cap 0..MaxStack}

(* Windows: first the addresses, then the memory; what the first of the two *)
(* has gained is kept when the second one fails.                            *)
Reserved(s, needed) ==
  IF needed <= s.reserved THEN {Granted(s)}
  ELSE LET size == Grown(s.reserved, needed)
       IN  {Failed(s)} \cup {Granted([s EXCEPT !.reserved = m]) : m \in {size} \cap 0..MaxStack}
CommittedIn(s, needed) ==
  IF needed <= s.allocated THEN {Granted(s)}
  ELSE {Failed(s), Granted([s EXCEPT !.allocated = Committed(@, needed)])}

EnsureSpace(s, needed) ==
  IF platform = "windows"
    THEN UNION {IF r.ok THEN CommittedIn(r.stack, needed) ELSE {r} : r \in Reserved(s, needed)}
  ELSE IF needed <= s.allocated THEN {Granted(s)}
  ELSE IF platform = "mac" THEN {Failed(s)}
  ELSE Remapped(s, needed)

Padding(address, align) == (align - (address % align)) % align

(* Mutant: the padding is not asked for. *)
Needed_NoPadding(s, l, align) == s.usage + l
Needed(s, l, align) == s.usage + Padding(s.usage, align) + l

(* falloc_malloc_aligned; falloc_malloc is it with the alignment of an int. *)
Malloc(l, align) ==
  /\ Len(blocks) < MaxBlocks
  /\ \E outcome \in EnsureSpace(Stack, Needed(Stack, l, align)) :
       IF outcome.ok
         THEN /\ tls' = [outcome.stack EXCEPT !.usage = @ + Padding(@, align) + l]
              /\ blocks' = Append(blocks, [at     |-> Stack.usage + Padding(Stack.usage, align),
                                           length |-> l,
                                           align  |-> align])
         ELSE /\ tls' = outcome.stack
              /\ UNCHANGED blocks

(* Mutant: the stack goes down by the length of the block. *)
Free_OwnLength(i) ==
  /\ tls' = [tls EXCEPT !.usage = @ - blocks[i].length]
  /\ blocks' = SubSeq(blocks, 1, i - 1)

(* falloc_free of one block.  The stack goes back to where the block begins *)
(* and the younger blocks lie above its end: the caller has to be done with *)
(* those (bestfs_step after a merge that failed), and here it is.  A caller *)
(* that goes on with a younger block is outside this module.  A block of no *)
(* length that is the last one is taken for a foreign pointer.              *)
Free(i) ==
  /\ tls' = [tls EXCEPT !.usage = IF blocks[i].at < @ THEN blocks[i].at ELSE @]
  /\ blocks' = SubSeq(blocks, 1, i - 1)

(* A pointer that is not of this thread's stack is ignored. *)
FreeForeign ==
  /\ tls' = Stack
  /\ UNCHANGED blocks

(* thread_local_stack_destructor, when the thread ends. *)
ThreadExit ==
  /\ tls # NoStack
  /\ tls' = NoStack /\ blocks' = <<>>

StackNext ==
  /\ \/ \E l \in Requests, align \in Alignments : Malloc(l, align)
     \/ \E i \in DOMAIN blocks : Free(i)
     \/ FreeForeign
     \/ ThreadExit
  /\ UNCHANGED platform

StackSpec == StackInit /\ [][StackNext]_stackvars
-----------------------------------------------------------------------------
(* The blocks the caller holds are carved out of committed memory, aligned  *)
(* as asked, and no two share a byte, across every growth, every failed     *)
(* growth, and every release, which takes the younger blocks with it.       *)
Carved ==
  /\ tls.usage <= tls.allocated
  /\ \A i \in DOMAIN blocks :
       LET top == IF i = Len(blocks) THEN tls.usage ELSE blocks[i + 1].at
       IN  /\ blocks[i].at + blocks[i].length <= top
           /\ blocks[i].at % blocks[i].align = 0

(* A caller that has given everything back, one block at a time from the    *)
(* youngest or several at once, finds the stack as empty as it was: no      *)
(* padding stays behind, also that of blocks of no length, whose release is *)
(* ignored.                                                                 *)
Drained == blocks = <<>> => tls.usage = 0
=============================================================================
