----------------------------- MODULE BlockStore -----------------------------
(***************************************************************************)
(* What the file system takes a disk for: nvme_read and nvme_write as      *)
(* fs/fs.c uses them.  One request at a time; every block of a request is  *)
(* moved once, in any order, before the request returns, and no other      *)
(* block changes.                                                          *)
(***************************************************************************)
EXTENDS Integers

CONSTANTS Blocks, Val, MaxBlocks, NoReq

VARIABLES
  store,      \* the value of every block
  req,        \* the request in progress: op, lba, n and the values to write
  todo,       \* its blocks that were not moved yet
  answer      \* what the last read returned

storeVars == <<store, req, todo, answer>>

Request ==
  UNION {[op : {"write"}, lba : Blocks, n : {n}, data : [0 .. n - 1 -> Val]]
           \cup [op : {"read"}, lba : Blocks, n : {n}, data : {<<>>}] : n \in 1 .. MaxBlocks}

InRange(r) == r.lba + r.n - 1 \in Blocks

StoreInit ==
  /\ store \in [Blocks -> Val]
  /\ req = NoReq /\ todo = {} /\ answer = <<>>

Begin(r) ==
  /\ req = NoReq /\ InRange(r)
  /\ req' = r /\ todo' = 0 .. r.n - 1
  /\ UNCHANGED <<store, answer>>

Move(b) ==
  /\ req # NoReq /\ b \in todo
  /\ todo' = todo \ {b}
  /\ store' = IF req.op = "write" THEN [store EXCEPT ![req.lba + b] = req.data[b]] ELSE store
  /\ UNCHANGED <<req, answer>>

Return ==
  /\ req # NoReq /\ todo = {}
  /\ req' = NoReq
  /\ answer' = IF req.op = "read" THEN [b \in 0 .. req.n - 1 |-> store[req.lba + b]] ELSE answer
  /\ UNCHANGED <<store, todo>>

StoreNext ==
  \/ \E r \in Request : Begin(r)
  \/ \E b \in todo : Move(b)
  \/ Return

StoreSpec == StoreInit /\ [][StoreNext]_storeVars
=============================================================================
