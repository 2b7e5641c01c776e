------------------------------ MODULE MCFiles ------------------------------
(* Files with two processes, two names and two inodes.                     *)
EXTENDS Files, TLC

(* Processes are interchangeable, and so are dnodes.                       *)
FilesSymmetry == Permutations(Proc) \cup Permutations(Dnode)
=============================================================================
