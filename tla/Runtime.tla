------------------------------- MODULE Runtime ------------------------------
(***************************************************************************)
(* What the library finds out about the machine when it is loaded          *)
(* (src/core/Runtime*.c) as far as other parts rely on it: the instruction *)
(* sets, by which memswap chooses its variant (src/memory/Swap_*.c), and   *)
(* the size of a cache line.  The numbers of processors and the sizes of   *)
(* the caches are left out.                                                *)
(***************************************************************************)
EXTENDS Integers, FiniteSetsExt

CONSTANTS CacheLines,     \* sizes a system may report, in bytes
          Systems         \* those considered: processors and answers

SIZE_MAX == (2 ^ 16) - 1        \* (size_t)-1, in words of 16 bits
ASSUME CacheLinesAssumption == CacheLines \subseteq 0..SIZE_MAX /\ CacheLines # {}

VARIABLES cpu,          \* the machine: what cpuid and xgetbv say of it
          reported,     \* the cache lines of the system's answers, 0 for none
          features,     \* the cpu_x86_* fields of the Runtime that are set
          line,         \* its cpu_cache_alignment
          link,         \* whether an ELF linker resolves memswap, or "other"
          resolved      \* the variant of memswap, "none" until it is chosen

runtimevars == <<cpu, reported, features, line, link, resolved>>

Extensions == {"sse2", "avx", "avx2", "avx512f"}

(* The processors there are: leaf1 and leaf7 tell whether cpuid answers,    *)
(* saved which registers the system saves for a thread.                     *)
Processors ==
  {c \in [arch : {"x86_64", "i386"}, leaf1 : BOOLEAN, leaf7 : BOOLEAN, has : SUBSET Extensions,
          osxsave : BOOLEAN, saved : {"none", "avx", "avx512"}] :
     /\ c.arch = "x86_64" => c.leaf1 /\ "sse2" \in c.has
     /\ ~c.leaf1 => c.has = {} /\ ~c.osxsave
     /\ "avx512f" \in c.has => "avx2" \in c.has
     /\ "avx2" \in c.has => "avx" \in c.has /\ c.leaf7
     /\ "avx" \in c.has => "sse2" \in c.has
     /\ c.osxsave = (c.saved # "none")
     /\ c.saved = "avx" => "avx" \in c.has
     /\ c.saved = "avx512" => "avx512f" \in c.has}

(* An instruction set works if the processor has it and the system saves    *)
(* its registers.                                                           *)
Works(extension) ==
  /\ extension \in cpu.has
  /\ extension \in {"avx", "avx2"} => cpu.saved \in {"avx", "avx512"}
  /\ extension = "avx512f" => cpu.saved = "avx512"

Answers == {r \in SUBSET (CacheLines \cup {0, SIZE_MAX}) : r # {}}
ASSUME SystemsAssumption == Systems \subseteq [cpu : Processors, reported : Answers]

RuntimeInit ==
  /\ \E s \in Systems : cpu = s.cpu /\ reported = s.reported
  /\ features = {} /\ line = 0
  /\ link \in {"elf", "other"}
  /\ resolved = "none"
-----------------------------------------------------------------------------
AvxEnabled == cpu.osxsave /\ cpu.saved \in {"avx", "avx512"}

(* Mutant: the mask is the one for AVX. *)
Avx512Enabled_AvxMask == cpu.saved \in {"avx", "avx512"}
Avx512Enabled == cpu.saved = "avx512"

(* internal_runtime_init_cpu; the build for i386 asks for SSE only. *)
Detected ==
  {f \in cpu.has :
     /\ cpu.leaf1
     /\ f # "sse2" => cpu.arch = "x86_64" /\ AvxEnabled
     /\ f \in {"avx2", "avx512f"} => cpu.leaf7
     /\ f = "avx512f" => Avx512Enabled}

(* On Linux the greatest answer as an unsigned number, by which -1 is       *)
(* SIZE_MAX; elsewhere the greatest, or nothing when the call fails.        *)
LinuxLine == {Max(reported)}
OtherLine == {Max((reported \ {SIZE_MAX}) \cup {0}), 0}
CacheLine(platform) == IF platform = "linux" THEN LinuxLine ELSE OtherLine

InitRuntime(platform) ==
  /\ features' = Detected
  /\ line' \in CacheLine(platform)
  /\ UNCHANGED <<cpu, reported, link, resolved>>

(* resolve_memswap. *)
Selected ==
  IF cpu.arch = "i386"
    THEN IF "sse2" \in features THEN "sse2" ELSE "generic32"
  ELSE IF "avx512f" \in features THEN "avx512f"
  ELSE IF "avx" \in features THEN "avx"
  ELSE "sse2"

(* The variant is chosen once, by the first call, or, where an ELF linker   *)
(* does it, at any time from the relocation of the library on.              *)
Resolve ==
  /\ resolved = "none"
  /\ resolved' = Selected
  /\ UNCHANGED <<cpu, reported, features, line, link>>
-----------------------------------------------------------------------------
Widest == CASE cpu.arch = "x86_64" /\ Works("avx512f") -> "avx512f"
            [] cpu.arch = "x86_64" /\ Works("avx") /\ ~Works("avx512f") -> "avx"
            [] cpu.arch = "x86_64" /\ ~Works("avx") -> "sse2"
            [] cpu.arch = "i386" -> IF Works("sse2") THEN "sse2" ELSE "generic32"

(* What memswap executes works on this machine, however early it was        *)
(* chosen; and where the first call chooses it, which comes after the       *)
(* library is loaded, it is the widest that works.                          *)
Supported ==
  /\ \A f \in features : Works(f)
  /\ resolved \notin {"none", "generic32"} => Works(resolved)
  /\ link = "other" /\ resolved # "none" => resolved = Widest
=============================================================================
