------------------------------ MODULE MCClock ------------------------------
(* Clock around the moments at which many registers change at once.        *)
EXTENDS Clock

At(y, mo, d, h, mi, s) ==
  [seconds |-> s, minutes |-> mi, hours |-> h, year |-> y, dayofmonth |-> d, month |-> mo]

MCStarts ==
  {At(23, 12, 31, 23, 59, 58), At(24, 2, 28, 23, 59, 59), At(24, 2, 29, 23, 59, 58),
   At(25, 2, 28, 23, 59, 59), At(27, 9, 30, 23, 59, 58), At(24, 12, 31, 23, 59, 59),
   At(30, 10, 19, 9, 29, 59), At(30, 6, 15, 19, 59, 59)}
=============================================================================
