------------------------------ MODULE MCDeferred ------------------------------
(* Instances of Deferred for TLC. *)
EXTENDS Deferred, TLC

AllCmds == {"SET", "CANCEL", "ALLOC", "MON"}
RearmingCmds == {"SET", "ALLOC", "MON"}

Symmetry ==
  Permutations(Callers) \cup Permutations(Tasks) \cup Permutations(MonProcs)
===============================================================================
