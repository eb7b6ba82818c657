# A verification of SS-CE

SS-CE is a C library: data structures, search, a background prime generator, a
per-thread stack allocator, a logger and platform glue. This directory holds
TLA+ modules of its stateful parts, the configurations that check them with
TLC, and theorems about them that TLAPS checks. `PROJECT.json` names, for each
definition, the source lines it models; for each property, a plausible defect
of the code that it detects; and the hazards that the properties are for.

Paths below are relative to the repository's `src/`.

## The system

| Component | State | Operations | Interacts with |
|---|---|---|---|
| Prime generator, `math/PrimeGenerator.c` | a shared list and its length, a mutex, a spin lock, a condition variable, two flags | `primegen_get_next` by any thread; the generator's own thread; `internal_primegen_init` and `_exit` | reads under three different locking regimes; uses the bitfield; started and stopped by the life cycle |
| Sieve, same file | a bitfield, the list so far | one job: two passes and the extraction | called by the generator's thread |
| Bitfield, `structures/Bitfield.h` | words of bits | set, clear, assign, toggle, get, fill, visit | used by the sieve |
| Heap and sort, `structures/Heap.c`, `Sort.c` | an array | `heap_create`, `heap_sift_down`, `sort_heap` | element layout given by `IDataType`; used by the sorted array |
| Sorted array, `structures/SortedArray.c` | a block, a length, unused items in front | insert, find, delete, pop, merge, compact... | `realloc`, sort, fast allocator |
| Hash set, `structures/HashSet.c` | buckets, counts, ratios | add, get, remove, clear; resizes itself | hash of the data type, `realloc` |
| Deque, `structures/Dequeue.c` | a doubly linked list | push, pop, peek at both ends, reset | `malloc` |
| Searches, `ai/search/*` | a frontier and a closed set | create, step, destroy | deque or sorted array, hash set, fast allocator, callbacks of the problem |
| Fast allocator, `memory/FAlloc.c` | one stack for each thread | malloc, free, thread exit | `mremap`, `VirtualAlloc` |
| Logger, `logger/Logger.c` | a level, a file | log by any thread, set level, init, exit | strings, life cycle |
| Strings, `string/SStrings*.c` | none between calls | `string_concat`, `native_puts` | `malloc`, fast allocator, the console |
| Swapping, `memory/Swap*` | the function chosen for the processor | `memswap` | the data types' exchange of elements |
| Runtime, `core/Runtime*.c` | features of the processor, sizes | filled once, at load | read by `memswap`'s choice and by the generator |
| Clock, `clock/Clock_*.c` | a `PerfClock` of the caller; the timer of the system | start, stop, reset, delay | the life cycle |
| Hashes, `math/crypto/*` | registers, during a call | SpookyHash, xxHash | data types' hash |
| Life cycle, `core/Lifecycle_*.c` | none of its own | constructor and destructor of the library | every module's init and exit, in an order |
| Global allocation, C++ wrappers, macros | none | forward to others | |

What is hard here: the prime generator mixes a mutex, a spin lock, polling
without a lock and a thread that may be told to stop at any point. The logger is
called by any thread and takes no lock at all. The library is loaded and
unloaded by calls in a fixed order, while its own thread and those of the
application run, on three systems that do it differently. The rest is sequential;
its difficulties are allocations that fail in the middle of an operation,
pointers and offsets that must stay consistent over many calls, and address and
bit arithmetic. What makes each component correct is
stated with its module below.

## Modules

State variables keep the names of the fields and variables they stand for
where the language allows. A definition whose name has a suffix after an
underscore (`Look_NoLock`) is a mutant, a plausible defect used to test the
properties; no specification uses it.

**PrimeGenerator** (with the constants and helpers of **PrimeSieve**).
Three kinds of processes with a program counter each: the thread that loads and
unloads the library (`mpc`), the generator's thread (`wpc`) and the clients
(`cpc`). A step is the code between two accesses that another thread can
observe. `mutex` and `spin` name their holder; `wpc = "wait"` is inside
`pthread_cond_wait`, "wake" is woken and waiting for the mutex. `ptr` remembers
whether the list pointer a client has read is still the current one, so that a
`realloc` under its feet is visible. The bits that a job leaves are a member of
the constant `JobResults`: the locking depends only on how many there are.
Sequential consistency is assumed between accesses: the unlocked reads are data
races in C, and the model gives them every interleaving, not torn or stale
values beyond a freed pointer.

**PrimeSieveJobs** (over **PrimeSieve**). The jobs of the generator's thread one
after another, with the two passes, the square root and the extraction as they
are in the code. A bitfield is the set of its set bits.

**HeapSort**. `sort_heap` and `heap_create`, one turn of a loop at a time, on an
array of words: an element is `Width` words and its key is at `Offset`, so that
the address arithmetic of `heap_child_cache` is computed and not assumed.

**FAlloc**. The stack of one thread; stacks are not shared, so that one thread
is all there is. `EnsureSpace` is the function of the same name with its three
platform variants and each place where the system may refuse. `falloc_free` puts the
end of the stack back to the block it is given, so that the younger blocks lie above
it: in the model the caller is done with those (`Free`), as the library's own callers
are. Owners that release an older block while a younger one is in use are not covered.

**MemSwap**. `memswap` one exchange at a time, on bytes that remember where they
came from. A function is the width and the step of its loop and the widths of
the exchanges after it; which functions a processor may choose is `Variants`.

**Bitfield** models the words with their masks and the visit of bits byte by
byte, and is shown to implement **BitSet**, a set of indexes. A byte has `CHAR_BIT`
bits and a `size_t` four or eight bytes, as in the code. A word, a byte or a mask is
the set of the positions of its bits that are 1, so that `|`, `&`, `~` and `^` are
operators on sets that can be reasoned about.

**Logger**. `logger_log` by several threads, a step for each access to the level
or the file and for each call of the system, with `string_concat` and
`native_puts` and what each leaves on the heap and on the thread's stack when it
fails. A message is the number of its call; text is not modelled, only what
`vsnprintf` makes of it (`Formats`): some, none, or a failure.

**Dequeue** models nodes, links, allocation and release one by one, and is shown
to implement **BoundedDeque**, a sequence with a limit on its memory.

**Hash** models both SpookyHash variants (64 and 128 bits of result, short and
long) and xxHash by what depends on what: a register is the set of the bytes, the
words of the seed and the length that went into it, and `reads` are the bytes taken
between two mixes, with the place in the register where each is added. Constants,
rotations and multiplications are left out, so a wrong constant is not seen.

**Algorithms** is the union of PrimeSieveJobs, HeapSort, FAlloc, MemSwap, Bitfield,
Logger, Dequeue and Hash for model checking. They share no state: a behaviour runs
one of these machines while the variables of the others keep their values.

**SortedArray** models two objects: block, length, offset, and the capacity of
the block. It is shown to implement **SortedBag**, which says what a call does to
the elements and what it reports. An element is its key, so that equal elements are told
apart by the index a call reports only. Of the header's promises it leaves out those
of the two stable calls that the code does not keep (see below).

**HashSet** models buckets as sequences of entries, the resizes with their
roll-back, and is shown to implement **KeyedSet**, a function from keys to
payloads. `calloc` may fail at each place.

**Search** models the three searches with one set of actions: they differ in the
end of the frontier they use (`Current`, `Remaining`, `Pushed`, `QueuedAll`) and in
what a failure leaves behind (`Broken`). What a loop over the children does is a
recursive function on their numbers (`Kept`, `QueuedEach`). It uses the abstract sequences and sets
of the components above, and is shown to implement **GraphSearch**, which speaks
of open and closed states only. Best first has its frontier sorted by the state type's
`cmp_l` and tells goals by the heuristic, a signed number; a problem gives both apart
(`rank`, `heuristic`). Three things are assumed of a problem. `cmp_l` is a total order of
the keys (`OrderAssumption`), since the closed set is searched by it. For best first the
key begins the element and no state has a single child (`Fit`), since the merge of the
children is a sort that fails otherwise (`heap_offset`, `heap_single`). The one
problem of the repository that best first is used on, the puzzle of
`test/ai_search.h`, keeps neither the first nor the second: its `cmp_l` (line 224) compares
heuristics and its key has an offset (line 260). What the runs and theorems say of best
first they do not say of that one.

**Structures** puts SortedArray, HashSet and Search side by side in the same way.

**Runtime** models what is detected of the machine as far as other code relies on
it: the instruction sets with what the processor and the system say, the size of a
cache line, and the choice of the variant of `memswap`, which an ELF linker may ask
for before anything has been detected.

**Lifecycle** composes the parts: `todo` holds the init or exit calls that are left
(`InitCalls`, `ExitCalls`), `live` the parts between their init and their exit, and
each step of the loader, of the generator's thread and of a thread of the
application says which parts it uses. `dead` records the uses of a part that is
not live. What a part does inside is in its own module.

**Clock** models one `PerfClock` and `clock_delay`, with time as seconds and a rest
(Linux, macOS) or as a counter (Windows). Measurements are exact.

**Library** puts the life cycle and the clock side by side.

**MCStructures** and **MCLibrary** give TLC the constants a configuration file
cannot express. The theorems are in **PrimeGeneratorProofs**, **MemoryProofs** (FAlloc,
MemSwap and Logger), **LibraryProofs** (Lifecycle with Runtime, and Clock),
**HeapAndDequeueProofs**, **StructuresProofs** (SortedArray and HashSet), **SearchProofs**,
**HashProofs** and **BitfieldAndSieveProofs** (PrimeSieveJobs and Bitfield).

## Runs

Five runs pass and seven show a disagreement between the code and what a
comment or header says of it.

| Run | Configuration | What it shows |
|---|---|---|
| `primegen_one` | `PrimegenOne` | one client: no read of freed or missing entries, each call returns its own entry, no abort; calls and the shut-down end, or the mutex was leaked |
| `primegen_two` | `PrimegenTwo` | two clients, failing thread creation, spurious wake-ups: locks are held where the code relies on them, the extraction stays in its storage, published entries stay |
| `algorithms` | `Algorithms` | the sieve misses no prime and its jobs join; the sort sorts, in bounds, and ends; the allocator's blocks are disjoint and aligned, and its stack drains, for a caller that gives the younger blocks up with an older one; `memswap` exchanges blocks of any length and nothing else; an operation on a bit changes that bit and a visit sees the right ones in order; the linked list is well formed, uses no freed node, and each call is the call on a sequence; each thread's messages come out once, in order, and a finished call holds no memory; the hashes read each byte once and every byte reaches the result |
| `structures` | `Structures` | arrays: each lies in its block, each call is the call on a bag (with named exceptions); hash set: every entry is where its hash says, each call is the call on a keyed set; searches: exhaustive, breadth first by levels, best first a least state of the frontier (and a goal at once, where the order puts goals first), they end, and each step is a step of a graph search |
| `library` | `Library` | parts are used while they are live (with named exceptions), loading and unloading end, the variant of `memswap` works on the machine, the clock's statistics are those of its samples and delays are not cut short |
| `primegen_leak` | `PrimegenLeak` | `primegen_get_next` can return with the mutex locked (`PrimeGenerator.c:50-53`), and a later call never returns |
| `primegen_abort` | `PrimegenAbort` | with two clients, the process can abort although the generator's thread was not given a turn (`:62-72`) |
| `sieve_primes` | `SievePrimes` | composites are handed out: the tests against the square root are inverted (`:112`, `:131`) |
| `heap_offset` | `HeapOffset` | a key that is not at the start of the element makes the sort wrong (`Heap.c:18`) |
| `heap_single` | `HeapSingle` | sorting one element reads outside the array: the first index underflows (`Heap.c:54`) |
| `swap_arm64` | `SwapArm64` | on 64-bit ARM, blocks longer than 16 bytes do not change places: the pointers move by half the width (`Swap.h:55`, `Swap_arm64.c:9`) |
| `sorted_array_delete` | `SortedArrayDelete` | the first of equal elements is not the one removed (`SortedArray.c:80-113`) |

The passing runs state what holds of the code as it is. So `CallReturnsOrLeak`
and `ExitJoinsOrLeak` name the leaked mutex as the one thing that can go wrong,
and `EachPrimeOnce` holds of a sieve that clears nothing (`ClearsNothing`): both
inverted tests leave their loops at the first prime that is not
above the square root, and a prime above it has no multiple left to clear. It
is what a repaired sieve has to keep, and its mutant is of that kind. `ImplementsBag` excepts `sorted_array_delete_stable` and the copy into
an empty array by `sorted_array_merge_sorted`, which forgets the length. Of
`sorted_array_insert_stable` it asks a place in order and no more: the header wants the
new element at the end of its equals (`SortedArray.h:78-79`), and the code, whose search
answers the index of the last one, puts it in front of that (`SortedArray.c:86-107`,
`:322`). `InsideBlock` says that the elements of an array lie in its block, and not that
every access does: the linear search of `delete_stable`, having hit the first element,
looks at the slot in front of it, which is not one of the block when there is no free
space in front (`SortedArray.c:93-95`). `StableIndexes` models this look as one at anything.
`LeastNext` holds for every order of the states.
`EagerGoal` is about problems whose order puts the goals before all other states
(`GoalsLeast`), which the code takes for granted and no line states or checks.
`Exchanged` is checked for x86 and 32-bit ARM in the passing run. `MessagesOut`
speaks of each thread's output by itself, since lines of different threads may
mix, excepts threads that ran out of memory, and asks nothing of a message whose
formatting failed: the code prints it (`Logger.c:202-206`; the negative result is a
length once it is unsigned), and its comment (`Logger.c:208`) wants it dropped. `NothingHeld` excepts
those too, and a Windows console, for which an array stays on the stack.
`UsesLive` names the uses of dead parts that the code does allow (`Known`): a thread
of the application that runs on while the process exits, which may write to the
closed log file; the generator on macOS, which is never stopped; and the destructor
of a thread's stack, which is called after the library was unmapped.
`LoadsAndUnloads` excepts a thread that could not be created, whose flag
`internal_primegen_init` awaits before it looks at the error, and a Windows that
does not start a thread inside `DllMain`. Of what a property excepts no run says
that it cannot happen: those hazards are listed in `PROJECT.json` with a note that says so.

### Bounds, and why they are enough

* Generator: with one client, jobs of 3 bits and a list asked up to entry 9,
  the client overtakes the thread several times, the storage is too small for
  some estimates and is exact for others, and exit meets every point of the
  loop. With two clients, jobs of 2 bits and entries up to 5. Two clients are
  enough for a lock to be found busy by another client; what a third could add
  is covered by the theorems, which hold for any number. `LowWater` and `Slack`
  (32 and 8 in the code) are 2 or 1 so that both sides of the tests occur.
* Sieve: job sizes from 1 to 40 bits up to the number 130. The first job of a
  size already reaches squares of the primes of earlier jobs.
* Sort: all arrays of 2 to 6 elements with three keys, up to two full levels
  and a half-filled third, with and without a right child at the end. An array of
  one element is in the run `heap_single` only; an empty one in none.
* Allocator: a first region of 4 bytes that may grow to 13, requests of 0 to 6
  bytes with alignments up to 4, three blocks: every growth and its failure
  happens on each platform, and blocks of no length are included.
* Swapping: lengths from 0 to 200 bytes on both sides of every power of two that
  a function exchanges, so that the loop makes no, one and several turns and each
  narrower exchange is made or not; 8 bytes on either side belong to others.
* Bitfield: bytes of 2 bits, words of 4 or 8 bytes, fields of 3, 4 or 5 bytes
  (one or two words, rounded up or not), and two changes of single bits since all
  bits were last equal; every value of `filter` and `dense` in every state.
* Logger: two threads with two calls each, a message level, a level set below it (at
  first), to it or above it or to no valid one, every failure of memory and of the console.
  Two threads are enough for one to change the level or close the file between
  two steps of another; nothing else is shared.
* Deque: four nodes, two values. Sorted array: two objects of at most four
  items together, two keys and a merge of two batches, an offset threshold of 2 (128 in
  the code) so that both removals happen. Hash set: four keys with
  collisions before and after resizes, sizes 1 to 8.
* Hash: 37 lengths on both sides of each limit in the code (4, 8, 12, 16 and 32
  bytes, a block of 96, the buffer of 192, three blocks), aligned, at an odd
  address and at a multiple of 4, on processors that insist on alignment or not.
* Life cycle: every processor (two architectures, four instruction sets, what the
  system saves) on a system that knows its cache line, and one processor with every
  set of answers; two threads of the application that call, run and end at any time.
  Clock: seconds of 4 units until the time 8, so that a second begins during and
  between measurements; two samples between two resets; delays below, in and above
  the bounds, interrupted any number of times.
* Search: 256 problems (64 graphs of four states, four choices of heuristic, order and
  offset: `Measures`) with cycles, self-loops, duplicates, unreachable states and none,
  one or two goals, and two failed allocations in a behaviour. In one choice the
  order goes by a heuristic below zero and does not put the goal first, so that
  `LeastNext` is checked of it and `EagerGoal` is not; in one the key has an offset, which
  best first leaves out, as it does graphs with an only child.

`CHECK_DEADLOCK FALSE` stands where the system may stop: the library is unloaded
or the process has ended, an algorithm has finished, an object is destroyed.

### Fairness

Only `primegen_one`, `algorithms`, `structures` and `library` need it. Generator: every thread
keeps running (weak fairness of each step), and a thread that waits for a lock
gets it if it is free again and again (strong fairness of the lock steps). The
second is what a usual implementation of a mutex gives here: each holder releases
it after a bounded section and a polling client yields after each release. A call
of `primegen_get_next` is made or not, and the library is unloaded or not: no
fairness is assumed of those decisions. Sort: the loop runs. Search: a caller that
was told to continue calls again. Life cycle: the thread that loads or unloads and
the generator's thread keep running; no fairness is assumed of the application, nor
of the decision to unload.

## Proofs

Checked by TLAPS for all values of the constants that satisfy the assumptions in
the modules (which TLC evaluates on every run). A further hypothesis of a theorem is
an operator of its module, named below; for each, what happens without it is shown
by a run or listed as a hazard.

### The generator

* `LockDisciplineHolds`: any number of clients, any spurious wake-ups. The invariant
  adds only the range of `cpc`: each action that enters a locked section takes the
  lock first, each one that leaves it releases what it held, and no other thread can
  release it.
* `Inductive` and from it `TypeCorrect`, `WriteInCapacityHolds`, `LockedReads` and
  `PublishedStableHolds`, for any number of clients. The invariant is
  `IInv == TypeOK /\ LockDiscipline /\ Phases /\ Storage /\ Pinned`. `TypeOK` alone
  is not inductive: a read is typed only if its index is inside the list. That
  needs `Storage` (the published length is covered by the storage, what has been
  extracted also, and a client that is about to read has an index below the
  length), which needs `Phases` (until the list is filled the thread has run no
  job and no client has called), and `LockDiscipline` (nobody reallocates under a
  reader that has the spin lock, which `Pinned` says of its pointer).
  These have the hypothesis `NoEarlyWakeup`: no spurious wake-up before the list
  is filled. Without it they are false: the thread would run a job while
  `internal_primegen_init` is still building the list. POSIX allows such a
  wake-up; it is listed as a hazard.
* `OneInductive` and from it `CleanReadHolds`, `ResultIsEntryHolds` and `NoAbortHolds`,
  under `OneClient`: one client and no spurious wake-up. With two clients they are
  false (`primegen_abort` shows the abort). `OneInv` adds to `IInv` what makes the
  polling protocol work for one: `Turns` (while the client waits for its number, the
  list is extended exactly when the thread's turn is over), `Fruitful` (a job extends
  the list), `NextIndex` (the client is never more than one entry ahead of the list),
  `Result` (what it has read is the entry of its index) and `Alive` (the thread is
  there until it is told to leave).

* `ClearsNothing`, `EachPrimeOnceHolds`: any number of jobs of any size
  (`JobSizesAssumption`: a bitfield has a bit). The invariant `JobsInv` says what the inverted
  tests come to: the list is that of the odd numbers (`OddsUpTo`). `SievesNothing`
  shows that no pass clears a bit: a number that a pass uses is above the square root
  of the end of the range, and has no multiple from its square on. `AllExtracted` and
  `OddsContinue` show that a range follows the last one without a gap.

### The bitfield

* `ImplementsBitSetHolds`: blocks of any length, words of four or eight bytes, bytes of
  any number of bits, any memory after a `realloc`. The invariant `FieldInv` only says
  that the words are words; what carries the refinement is that a bit has one place
  (`PlacesIn`, `SamePlace`), so that a mask changes one number of the set (`OneBit`), and
  that a size that was rounded up is one of whole words (`SizeIs`).
* `VisitsSelectedHolds`: `Lists` says of a sequence of calls that it is for exactly the
  numbers of a set, ascending, each with its value. It holds of a byte by `SetBitsAscend` (the
  loop takes the lowest bit that is left until none is: `LeavesLess`), of a word and of the field
  because the lists of ranges that follow each other are the list of the whole (`ListsAll`), and
  of a skipped word because nothing in it is selected (`Skipped`). `AscendingIs` makes the
  list the one the abstract set names.

### Memory

* `DrainedHolds`: a caller that gave everything back, block by block from the youngest
  or several at once, finds its stack empty, for every platform, size and request. It is
  part of the model that a caller who releases a block is done with the younger ones; the
  same holds of `CarvedHolds`. The strengthening is
  `FromStart`: the oldest block begins where the region does, since an empty stack
  needs no padding.
* `CarvedHolds`: the blocks do not overlap, are aligned and end in memory that is
  committed. `CInv` adds `Apart` (each block ends before any later one begins),
  `Used` (each ends below the usage) and `Backed` (the usage is allocated, the
  allocated reserved). On Linux it rests on `GrowthDefined` and `GrownEnough`: the
  growth by half of what is there ends, and at enough.
* `ExchangedHolds`: blocks of every length, either order, every function of
  x86 and 32-bit ARM. `SwapInv == Places /\ Widths`: what lies behind the pointers is
  exchanged and the rest is as it was; the widths left are halving, and what is left
  to move is less than twice the widest of them. The hypothesis `WholeSteps` leaves
  64-bit ARM out, where the pointers move by half a width (`swap_arm64`).

### Algorithms and containers

* `SortInductive`, `InBoundsHolds`, `HeapOrderHolds`, `SortsHolds`: every length from
  two elements, every width of an element, all keys. `SortInv` says that for some
  number of elements, limit and node: in front of the limit is a heap but for that
  node, behind it are the sorted elements, none less than one in front, and the
  whole is a permutation of the input by whole elements. The hypotheses are
  `KeyFirst` (the key is at the start of the element; `heap_offset`) and `Sortable`
  (at least two elements, and fewer than half the bytes a word can count, since the
  child's index would wrap; `heap_single`).
* `DequeInductive`, `LinkedHolds`, `NoUseAfterFreeHolds`, `DequeueImplements`: lists of
  any length. `DequeInv == Linked /\ Freeing /\ ...`: outside the loop that frees the
  list its links are those of a sequence; inside it, the nodes from the cursor on
  still are, and are those that are allocated. The refinement maps the list to the
  elements along its links (`ElementsAre`), call by call.
* `ArrayInsideBlock`, `ArrayImplementsBag`: arrays of any number and length, all keys,
  any failure of `malloc` and `realloc`. `ArrayInv` says that each array is `Ordered`:
  its items lie inside its block, are ascending and are keys (the free space around
  them may hold anything), and an empty array starts at the front. Four lemmas carry
  it: the binary search is a recursive function whose span narrows, so what it
  returns is in or next to the run of equal keys (`SearchLocates`, `FoundIs`); the
  merge from behind, which keeps every item as often as it was and leaves them in
  order (`MergeMerges`); that the copy of a batch can be sorted (`SortedCopyIs`;
  `sort` itself is `SortsHolds`); and what `memmove`, a store and `realloc` leave
  where (`MoveIs`, `StoreIs`, `ReallocIs`). The second leaves out of the refinement what
  `ImplementsBag` does: `delete_stable`, which `sorted_array_delete` shows to remove the
  wrong element, and `merge_sorted` into an empty array, which forgets the length; the
  invariant holds through both. It also leaves open where among equal elements
  `insert_stable` puts a new one. It is assumed that `NULL` is no block.
* `TablePlaced`, `TableImplementsKeyedSet`: any keys, hash function, ratios and sizes,
  memory running out anywhere. `TableInv` says that while there is an array the
  buckets are ascending, each key is in the bucket `CalcIndex` names for the present
  size, `length` is the number of keys, and the size is the least one doubled some
  number of times (`Doublings`, without which a halved table could be too small for
  `min_size`). `RelocatedIs` is the resize: a loop over the buckets and one over the
  elements of each, neither of which loses an element or puts two of one key into
  the new array, since a key is in no other bucket of the old one. `TableFinds` is why
  a search in one bucket speaks for the table. It is assumed that the missing array
  (`NoBuckets`, a NULL) is not an array.
* `NothingHeldHolds`: any threads, calls and failures. `LogInv` says where a thread has
  its base string and why a stack may not be empty.
* `MessagesOutHolds`: any threads, calls, levels and failures of memory. `OutInv` says
  how far the output of a thread is (`Progress`): between calls each stream has the outputs of
  all messages that passed the level so far (of those that could not be formatted too:
  so the code has it, and the property leaves it open), inside a call also those parts of the present
  one that are behind its place in the code. What a thread puts out is a set of calls
  in the order of their numbers (`Complete`), and what the call adds comes after it.
* `AbsorbsOnceHolds`: messages of every length, address and alignment. `HashInv` adds
  `Position`: how much of the message the registers have taken, and what is left for
  each function when it leaves a loop. `PlacedOnce` reduces "read once, each to its
  own byte of a register" to a layout of the reads, which each step's lemma gives.
* `HashOfAllHolds`: messages of every length. `Contents` says what has a way into which
  register: before the last mix, the registers together have the bytes taken so far and
  the seeds, and the one xxHash goes on with has the length too. Registers only grow (`MixedKeeps`), what a mix says holds for its recursion
  (`FoldDefined`, `MixedIs`), and the mix at the end of each function takes every register
  into those of the result (`ShortEndMixes`, `EndPartialMixes`).

### Searches

* `SearchInductive`: every finite set of states, every graph on it, every signed heuristic,
  every order of the states (ties included: `OrderAssumption` is not used) and any failures. That the states are finitely many (`StatesAssumption`) is what a state
  is in the code: a block of as many bytes as the data type says.
  `SearchInv == SearchTypeOK /\ Ends /\ GoalsApart /\ Ordered /\ Progress`.
  `Exhausted` is not inductive: it says nothing of a search that goes on. `Progress`
  does. While no state has been lost there is a set of states that were searched
  through (`Explored`): each closed state is in it, none is a goal, and the start and all
  their children are in it, in the frontier or handed out. This set is not
  the closed set: when `hashset_add` fails, a state has left its children behind and
  is not closed, so that `closed` alone would not be inductive.
* `ExhaustedHolds`: with an empty frontier the set has no way out, so that by induction
  on the distance each state that can be reached is in it or handed out.
* `NearestFirstHolds`: for breadth first `Progress` adds `ByLevels`. The queue is cut in two: in front
  states within some distance `d` of the start (`LevelsAt`), behind them states one step
  further; all those within `d - 1` are done with, those within `d` are done with or in
  front. `LevelsTaken` and `NextLevel` are the two moves: a state leaves, and when the
  front is empty, the cut moves to the end of the queue.
* `LeastNextHolds`: `Ordered` says that the array of best first is falling in the order of
  the states, which each insertion keeps (`QueuedIs`), whichever order the unstable sort gives
  equal children; its end, which the next call takes off, is a least state.
* `EagerGoalHolds`: with a goal in the frontier that least state is a goal, under the
  hypothesis `GoalsLeast` that a goal is less than every other state. Without it this is
  false: the heuristic only tells goals and has no part in the order.
* `ImplementsSearchHolds`: the refinement of `GraphSearch`, call by call. What is open
  is what is in the frontier and not closed; `StoredIs` and `BrokenIs` say what
  a step puts into the frontier, whatever the strategy.

### The library

* `LifecycleInductive`, `UsesLiveHolds`, `SupportedHolds`: any number of threads of the
  application, three systems, every answer of the system. `AllInv` says what is
  live from what is left of `todo`: while loading, a part is live or its call is still
  ahead, in the order of `ssce_init` (`Loading`); while unloading, the parts the
  generator's thread uses stay until it has been joined (`Unloading`). `UsesLiveHolds` has the hypothesis `PowersOfTwo` of the
  sizes of cache lines, which the allocation at load relies on.
* `MeasuredHolds`: every length of a second, number of samples and order of calls.
  `ClockInv == Timing /\ Sleeping /\ Extremes /\ Statistics`.

Induction over data is done through sets: `Induction` states it for a subset of the
naturals, and a recursive function is shown to exist, by induction on its argument,
before its equation is used (`GrowthDefined`, `SumsDefined`, `SearchDefined`, `MergeDefined`,
`PutDefined`, `MoveDefined`, `RecursionDefined`, `LeftDefined`, `FoldDefined`).

### Only model-checked

* Liveness, which is out of TLAPS's reach: `CallReturnsOrLeak`, `ExitJoinsOrLeak`,
  `Terminates`, `SearchEnds`, `LoadsAndUnloads`. Every other property of the passing runs
  is a theorem, under the hypotheses named above.

## Not modelled

* What the logger's file holds in its buffer when the process aborts, and the
  text of messages.
* Memory ordering weaker than sequential consistency. Word sizes, but for the
  index of a one-element sort and the answers of the system to the runtime:
  numbers are integers. The rounding of the clock's floats, and that its Windows
  frequency is cut to whole kilohertz.
* The values of the hash functions: their constants and rotations.
* In the life cycle: the end of a process on Windows, which kills the threads
  before the library is told; a failed `pthread_key_create`; two threads that race
  to choose `memswap`'s variant, which both choose the same.
* In the runtime: numbers of processors, sizes of caches and pages, and the features
  nothing in the library reads. The detection on ARM is empty.
* `clock_msleep`, the resolution of the Windows timer (its reset is a hazard in
  `PROJECT.json`), global allocation and `Comp_*.c`: calls passed on to the system.
* The data type interface beyond the layout of an element, and strings beyond
  the memory `string_concat` and `native_puts` take: no state, or text.
* C++ wrappers forward calls; macros and numeric helpers are inside the definitions
  that use them.

## Plan

Done in this order: the generator's protocol and its theorems, since it is the
concurrent core; the sieve; the containers with their abstract specifications;
the searches that are built from them; the allocator they all use; swapping, the
bitfield and the logger; the hashes; the life cycle with the runtime; the clock;
then the proofs above, from the generator to the searches.
