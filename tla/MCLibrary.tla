------------------------------ MODULE MCLibrary ------------------------------
(* An instance of module Library for TLC. *)
EXTENDS Library

(* Every processor, on a system that reports a cache line; and one of them   *)
(* with every set of answers.                                                *)
SomeSystems ==
  LET plain == [arch |-> "x86_64", leaf1 |-> TRUE, leaf7 |-> FALSE, has |-> {"sse2"},
                osxsave |-> FALSE, saved |-> "none"]
  IN  [cpu : Processors, reported : {{64}}] \cup [cpu : {plain}, reported : Answers]
=============================================================================
