----------------------------- MODULE MCRunQueue -----------------------------
(* RunQueue with three processes and a few priorities and nice values.     *)
EXTENDS RunQueue, TLC

(* Processes are interchangeable.                                          *)
ProcSymmetry == Permutations(Proc)

(* A real-time level, the default level and an idle level.                 *)
MCPrios == {1, 3, 6}

(* Past the lower limit of nice, and a value that costs two levels.        *)
MCNices == {-128, 8}
=============================================================================
