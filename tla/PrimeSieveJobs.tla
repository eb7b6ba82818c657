--------------------------- MODULE PrimeSieveJobs ---------------------------
(***************************************************************************)
(* The prime generator's thread on its own: one job after another, each    *)
(* sieving the next range and appending what is left of it to the list.    *)
(* The locks and the clients are in module PrimeGenerator.                 *)
(***************************************************************************)
EXTENDS PrimeSieve

CONSTANTS JobSizes,   \* the numbers of bits of a bitfield to try, all positive
          MaxEnd      \* bound on the numbers to cover

ASSUME JobSizesAssumption == JobSizes \subseteq Nat \ {0}
ASSUME MaxEndAssumption == MaxEnd \in Nat

VARIABLES n,         \* job_size, in bits: fixed when the thread starts
          covered,   \* end: last number covered by a finished job
          list,      \* the published numbers
          cleared    \* the indices the last job gave to bitfield_clear

sievevars == <<n, covered, list, cleared>>

SieveInit == /\ n \in JobSizes
             /\ covered = STATIC_END
             /\ list = StaticPrimes
             /\ cleared = {}

(* The numbers of the bits in the order of bitfield_for_each. *)
Extracted(start, bits) ==
  [i \in 1..Cardinality(bits) |-> BitValue(start, NthBit(bits, i))]

Job == /\ covered < MaxEnd
       /\ LET start == JobStart(covered)
              end == JobEnd(covered, n)
              found == Sieve(list, Len(list), start, end, n)
          IN  /\ covered' = end
              /\ list' = list \o Extracted(start, found.bits)
              /\ cleared' = found.cleared
       /\ UNCHANGED n

SieveSpec == SieveInit /\ [][Job]_sievevars
-----------------------------------------------------------------------------
IsPrime(p) == p > 1 /\ \A d \in 2..(p - 1) : p % d # 0

(* No job clears the bit of a prime, and no range leaves a gap to the one    *)
(* before it, *)
NoPrimeMissed == \A p \in 2..covered : IsPrime(p) => \E i \in 1..Len(list) : list[i] = p

(* or overlaps it. *)
StrictlyAscending == \A i \in 1..(Len(list) - 1) : list[i] < list[i + 1]

(* Over all jobs, a client's index enumerates every prime of the ranges     *)
(* already sieved, in order and none twice.                                 *)
EachPrimeOnce == NoPrimeMissed /\ StrictlyAscending

(* What the interface promises of every number handed out ("the last prime  *)
(* number generated"); entry 0 is the seed 1 of the static list.            *)
OnlyPrimes == \A i \in 2..Len(list) : IsPrime(list[i])
=============================================================================
