------------------------------- MODULE MCNvme -------------------------------
(* Nvme with a ring of three slots, two blocks and pages of two blocks, so *)
(* that a request of three is too large.                                   *)
EXTENDS Nvme

MCBlocks == 0 .. 1
=============================================================================
