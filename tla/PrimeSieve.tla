----------------------------- MODULE PrimeSieve -----------------------------
(***************************************************************************)
(* The arithmetic of one job of the prime generator's thread               *)
(* (src/math/PrimeGenerator.c): which bits of the odd-only bitfield the    *)
(* two sieve passes clear, and which numbers the remaining bits stand for. *)
(*                                                                         *)
(* A job covers the numbers start .. end, start odd; bit i stands for      *)
(* start + 2 * i.  The list of the C code is zero-based, a sequence here   *)
(* is one-based: primegen_list[i] is list[i + 1].                          *)
(***************************************************************************)
EXTENDS Integers, Sequences, FiniteSets

STATIC_END == 6                     \* PRIMEGEN_STATIC_END
StaticPrimes == <<1, 2, 3, 5>>      \* what internal_primegen_init stores

JobStart(end) == end + 1
JobEnd(end, n) == end + 2 * n

(* ssce_sqrt of an unsigned integer: the square root rounded to the nearest *)
(* integer, r - 1/2 <= sqrt(a) < r + 1/2.                                   *)
SqrtRounded(a) == CHOOSE r \in 0..a : r * r - r < a /\ a <= r * r + r

(* The indices given to bitfield_clear for one prime: p * p, p * p + p, ... *)
(* up to end.  A multiple below start gives a negative value here, which in *)
(* the unsigned arithmetic of the code is an index far beyond the bitfield; *)
(* an even one gives the index of the odd number before it.                 *)
ClearedBy(p, start, end) == {(m * p - start) \div 2 : m \in p..(end \div p)}

(* First pass: from the third listed number on, up to the first one that    *)
(* passes the test  current_prime <= fast_bound.                            *)
PreCleared(list, len, start, end, fast) ==
  LET used == {i \in 3..len : \A j \in 3..i : list[j] > fast}
  IN  UNION {ClearedBy(list[i], start, end) : i \in used}

(* Mutant: no bound on the numbers whose multiples are cleared. *)
MainPass_NoBound(bits, start, end, fast, n) ==
  LET pass[i \in 0..n] ==
        IF i = 0 THEN [set |-> bits, cleared |-> {}, stop |-> FALSE]
        ELSE LET prev == pass[i - 1]
                 hits == ClearedBy(start + 2 * (i - 1), start, end)
             IN  IF (i - 1) \notin prev.set THEN prev
                 ELSE [prev EXCEPT !.set = @ \ hits, !.cleared = @ \cup hits]
  IN  pass[n]

(* Second pass: the bits in ascending order; a bit that is still set is a   *)
(* prime, and either ends the pass or has its multiples cleared.            *)
MainPass(bits, start, end, fast, n) ==
  LET pass[i \in 0..n] ==
        IF i = 0 THEN [set |-> bits, cleared |-> {}, stop |-> FALSE]
        ELSE LET prev == pass[i - 1]
                 p    == start + 2 * (i - 1)
                 hits == ClearedBy(p, start, end)
             IN  IF prev.stop \/ (i - 1) \notin prev.set THEN prev
                 ELSE IF p <= fast THEN [prev EXCEPT !.stop = TRUE]
                 ELSE [prev EXCEPT !.set = @ \ hits, !.cleared = @ \cup hits]
  IN  pass[n]

(* Both passes over a bitfield of n bits that starts with every bit set.    *)
Sieve(list, len, start, end, n) ==
  LET fast == SqrtRounded(end)
      pre  == PreCleared(list, len, start, end, fast)
      main == MainPass((0..(n - 1)) \ pre, start, end, fast, n)
  IN  [bits |-> main.set, cleared |-> pre \cup main.cleared]

(* bitfield_for_each visits the set bits in ascending order. *)
NthBit(bits, i) == CHOOSE b \in bits : Cardinality({c \in bits : c < b}) = i - 1

BitValue(start, bit) == start + 2 * bit

(* realloc: the first entries survive, the rest is uninitialised storage.   *)
Garbage == 0
Realloc(list, size) == [i \in 1..size |-> IF i <= Len(list) THEN list[i] ELSE Garbage]
=============================================================================
