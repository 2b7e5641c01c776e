---------------------------- MODULE MCProcTable ----------------------------
(* ProcTable on a table of a few slots, with as many pages as slots.       *)
EXTENDS ProcTable, TLC

(* The pages are interchangeable: no definition orders them.               *)
PageSymmetry == Permutations(Proc)
=============================================================================
