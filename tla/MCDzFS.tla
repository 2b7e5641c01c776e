------------------------------- MODULE MCDzFS -------------------------------
(* DzFS on a disk of a few blocks of two bytes.                            *)
EXTENDS DzFS
=============================================================================
