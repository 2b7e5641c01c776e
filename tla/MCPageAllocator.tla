-------------------------- MODULE MCPageAllocator ---------------------------
(* PageAllocator with pages of two bytes.                                  *)
EXTENDS PageAllocator

Memory(base, length) == [base |-> base, length |-> length, usable |-> TRUE]
Reserved(base, length) == [base |-> base, length |-> length, usable |-> FALSE]

(* One region; two regions with a hole between them, at odd addresses and  *)
(* beside an entry of less than a page; more regions than the pool has.    *)
MCMemMaps == {
  <<Memory(0, 10)>>,
  <<Reserved(0, 1), Memory(1, 4), Memory(5, 1), Memory(6, 4)>>,
  <<Memory(0, 2), Memory(3, 3), Memory(6, 2)>> }
=============================================================================
