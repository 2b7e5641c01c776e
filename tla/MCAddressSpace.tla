--------------------------- MODULE MCAddressSpace ---------------------------
(* AddressSpace with pages of two bytes.  An unsigned int holds 32 bytes'  *)
(* worth of addresses, user space is twice as large, its first page is     *)
(* page 2, and a table maps eight pages.                                   *)
EXTENDS AddressSpace, TLC

Seg(vaddr, filesz, memsz, writable) ==
  [load |-> TRUE, vaddr |-> vaddr, filesz |-> filesz, memsz |-> memsz,
   writable |-> writable, short |-> FALSE]

Code == Seg(4, 2, 2, FALSE)

(* Code and data with uninitialised data at an odd address; the same as a  *)
(* position independent program whose data reaches into the next table; a  *)
(* file that ends early; segments that share a page; a program of another  *)
(* type; uninitialised data that is not writable.                          *)
Plain    == [type |-> "EXEC", entry |-> 4, segs |-> <<Code, Seg(7, 1, 3, TRUE)>>]
Pie      == [type |-> "DYN", entry |-> 0,
             segs |-> <<Seg(0, 1, 1, FALSE), Seg(9, 1, 3, TRUE)>>]
Truncated == [Plain EXCEPT !.segs[2].short = TRUE]
Overlap  == [Plain EXCEPT !.segs[2].vaddr = 5]
Object   == [Plain EXCEPT !.type = "OTHER"]
ReadOnlyBss == [Plain EXCEPT !.segs[2].writable = FALSE]

MCPrograms == {Plain, Pie, Truncated, Overlap, Object, ReadOnlyBss}
MCFrames == 1 .. 25
MCGrants == (0 .. 10) \cup {24}
MCSbrkDeltas == {1, 3, -1, -3, -20}

(* Processes are interchangeable.                                          *)
ProcSymmetry == Permutations(Procs)
=============================================================================
