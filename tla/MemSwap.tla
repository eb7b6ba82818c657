------------------------------ MODULE MemSwap ------------------------------
(***************************************************************************)
(* memswap (src/memory/Swap.h and Swap_<processor>.c): two blocks of bytes *)
(* change places, by wide loads and stores while they fit and by narrower  *)
(* ones for the rest.  Each processor has its list of widths; on x86 the   *)
(* list is chosen by the processor's features when the first call is made. *)
(*                                                                         *)
(* The two blocks lie next to each other, as two elements of an array do,  *)
(* with Margin bytes that belong to others on both sides.                  *)
(***************************************************************************)
EXTENDS Integers, Sequences

CONSTANTS Processors,   \* which builds
          SwapLengths,  \* the lengths of block to try
          Margin

ASSUME ProcessorsAssumption == Processors \subseteq {"x86_64", "i386", "arm", "arm64"}
ASSUME SwapAssumption == SwapLengths \subseteq Nat /\ Margin \in Nat

VARIABLES bytes,    \* the memory: address -> the address its byte came from
          dst, src, \* the parameters of the call, which move with the loops
          len,
          bulk,     \* [type |-> width of the wide loop, step |-> what dst and src move by]
          singles,  \* the widths still to be tried once, in this order
          call      \* the call's original parameters

swapvars == <<bytes, dst, src, len, bulk, singles, call>>

(* sizeof of the type of bulk_swap, the distance its pointers move, and the *)
(* types of the single_swaps after it.                                      *)
Function(type, step, rest) == [bulk |-> [type |-> type, step |-> step], singles |-> rest]

Generic32 == Function(4, 4, <<2, 1>>)
Neon32    == Function(8, 8, <<4, 2, 1>>)
Sse2      == Function(16, 16, <<8, 4, 2, 1>>)
Avx       == Function(32, 32, <<16, 8, 4, 2, 1>>)
Avx512    == Function(64, 64, <<32, 16, 8, 4, 2, 1>>)
(* bulk_swap2: 16 bytes at a time through pointers to 8 bytes. *)
Neon64    == Function(16, 8, <<8, 4, 2, 1>>)

(* x86 resolves memswap by the features of the processor, ARM when it is    *)
(* compiled.                                                                *)
X86_64 == {Sse2, Avx, Avx512}
I386   == {Generic32, Sse2}
Arm    == {Generic32, Neon32}

Variants == [x86_64 |-> X86_64, i386 |-> I386, arm |-> Arm, arm64 |-> {Neon64}]

Addresses(l) == -Margin..(2 * l + Margin - 1)

SwapInit ==
  \E p \in Processors, l \in SwapLengths, first \in BOOLEAN : \E f \in Variants[p] :
    /\ bytes = [a \in Addresses(l) |-> a]
    /\ dst = (IF first THEN 0 ELSE l) /\ src = (IF first THEN l ELSE 0)
    /\ len = l
    /\ bulk = f.bulk /\ singles = f.singles
    /\ call = [dst |-> dst, src |-> src, len |-> len]

(* Both are loaded; then src is stored to, and dst after it. *)
Exchange(width) ==
  bytes' = [a \in DOMAIN bytes |->
              IF a - dst \in 0..(width - 1) THEN bytes[a - dst + src]
              ELSE IF a - src \in 0..(width - 1) THEN bytes[a - src + dst]
              ELSE bytes[a]]

(* block_swap *)
BlockSwap(width, step) ==
  /\ Exchange(width)
  /\ len' = len - width
  /\ dst' = dst + step /\ src' = src + step

(* Mutant: a last full block is left to the narrower types. *)
Fits_Strictly == len > bulk.type
(* The condition of the loop of bulk_swap *)
Fits == len >= bulk.type

(* and a turn of it. *)
BulkSwap ==
  /\ Fits
  /\ BlockSwap(bulk.type, bulk.step)
  /\ UNCHANGED <<bulk, singles, call>>

(* single_swap *)
SingleSwap ==
  /\ ~Fits /\ singles # <<>>
  /\ LET width == Head(singles)
     IN  IF len \div width = 1 THEN BlockSwap(width, width)
                               ELSE UNCHANGED <<bytes, dst, src, len>>
  /\ singles' = Tail(singles)
  /\ UNCHANGED <<bulk, call>>

SwapNext == BulkSwap \/ SingleSwap
SwapSpec == SwapInit /\ [][SwapNext]_swapvars

SwapDone == singles = <<>>
-----------------------------------------------------------------------------
(* "Swaps len bytes from the two input memory location." (Memory.h, line    *)
(* 13): the blocks have changed places, byte by byte, whatever the widths   *)
(* they were moved by, and no byte outside of them was written.             *)
Exchanged ==
  SwapDone =>
    \A a \in DOMAIN bytes :
      bytes[a] = IF a - call.dst \in 0..(call.len - 1) THEN a - call.dst + call.src
                 ELSE IF a - call.src \in 0..(call.len - 1) THEN a - call.src + call.dst
                 ELSE a
=============================================================================
