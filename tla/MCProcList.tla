------------------------------ MODULE MCProcList ------------------------------
(* Three entries, so that one can be deleted between two others; which       *)
(* memory kmalloc gives does not matter.                                     *)
EXTENDS ProcList, ListExample

ASSUME ListExampleAssumption == InitLeavesTheRest

Symmetry == Permutations(Entries)
===============================================================================
