----------------------------- MODULE MCPs2Input -----------------------------
(* Ps2Input with the packets of a mouse.                                   *)
EXTENDS Ps2Input

MCMoves == {<<\h08, \h00, \h09>>}
MCBeyond == {\h00, \h2A, \h1D, \h3A}
=============================================================================
