-------------------------------- MODULE Nvme --------------------------------
(***************************************************************************)
(* The NVMe driver, drivers/drv_nvme.c, and a controller.  They share the  *)
(* submission and completion queues, rings in memory, and data buffers;    *)
(* the driver writes doorbells, the controller takes commands, moves the   *)
(* blocks in its own time and order and posts completions, which the       *)
(* driver polls for by their phase bit.                                    *)
(*                                                                         *)
(* The kernel is not preempted: there is one driver thread, and it has one *)
(* command under way.  The driver does not look at the status of a         *)
(* completion nor at the result of kalloc for its buffers: the controller  *)
(* of this model succeeds, and so does kalloc.                             *)
(***************************************************************************)
EXTENDS Integers, FiniteSets, Sequences

CONSTANTS
  NVME_ADMIN_QUEUE_SIZE, NVME_IO_QUEUE_SIZE,
  CID_MOD,                \* 2^16, the command identifiers, scaled down
  Blocks, Val,            \* blocks of the namespace, their values
  PAGE_BLOCKS,            \* blocks that fit into a page
  MaxBlocks,              \* bound on the blocks of a request
  Pages,                  \* pages that kalloc returns
  NoReq, NULL

Request ==
  UNION {[op : {"write"}, lba : Blocks, n : {n}, data : [0 .. n - 1 -> Val]]
           \cup [op : {"read"}, lba : Blocks, n : {n}, data : {<<>>}] : n \in 1 .. MaxBlocks}

ASSUME NvmeAssumption ==
  /\ NVME_ADMIN_QUEUE_SIZE \in Nat \ {0, 1} /\ NVME_IO_QUEUE_SIZE \in Nat \ {0, 1}
  /\ CID_MOD \in Nat \ {0}
  /\ PAGE_BLOCKS \in Nat \ {0} /\ MaxBlocks \in Nat \ {0}
  /\ Blocks \subseteq Nat /\ \A a, b \in Blocks : a .. b \subseteq Blocks
  /\ NULL \notin Pages /\ NoReq \notin Request

VARIABLES
  pc,         \* where the driver is
  current,    \* the queue it has its command in
  step,       \* the administrative command of nvme_init that is next
  q,          \* its nvme_queue_t of both queues
  sqe, cqe,   \* the entries of the rings
  next_command_id,
  aligned_buffer, page,        \* the buffer of the command, and all pages
  left_commands,
  req, answer,                 \* the call of nvme_read or nvme_write
  en, configured,              \* registers: CC.EN, AQA and the addresses
  sqtdbl, cqhdbl,              \* registers: the doorbells
  ready, created, dq, inflight,  \* the controller: CSTS.RDY, its queues, their
                                 \* pointers, and the commands it works on
  disk

driver == <<pc, current, step, q, sqe, next_command_id, aligned_buffer,
            left_commands, req, answer, en, configured, sqtdbl, cqhdbl>>
controller == <<cqe, ready, created, dq, inflight, disk>>
vars == <<driver, controller, page>>

Queues == {"admin", "io"}
Size == [admin |-> NVME_ADMIN_QUEUE_SIZE, io |-> NVME_IO_QUEUE_SIZE]
Slots(k) == 0 .. Size[k] - 1

FreshQueue == [tail |-> 0, head |-> 0, phase |-> 0]

-----------------------------------------------------------------------------
(* The driver: nvme_init.                                                  *)

(* Memory for the device data or the queues is missing.                    *)
InitFails ==
  /\ pc = "off"
  /\ pc' = "failed"
  /\ UNCHANGED <<current, step, q, sqe, next_command_id, aligned_buffer, left_commands,
                 req, answer, en, configured, sqtdbl, cqhdbl, controller, page>>

(* The queues are set up and nvme_disable_device clears CC.EN.             *)
InitQueues ==
  /\ pc = "off"
  /\ q' = [k \in Queues |-> FreshQueue]
  /\ cqe' = [k \in Queues |-> [s \in Slots(k) |-> [phase |-> 0, cid |-> 0]]]
  /\ next_command_id' = 0
  /\ en' = FALSE
  /\ pc' = "disabling"
  /\ UNCHANGED <<current, step, sqe, aligned_buffer, left_commands, req, answer,
                 configured, sqtdbl, cqhdbl, ready, created, dq, inflight, disk, page>>

(* Slip: the controller is configured while it still shuts down.           *)
DisabledAtOnce == pc = "disabling"

Disabled == pc = "disabling" /\ ~ready

(* It is off: the addresses are written, and nvme_enable_device.           *)
Configure ==
  /\ Disabled
  /\ configured' = TRUE /\ en' = TRUE
  /\ pc' = "enabling"
  /\ UNCHANGED <<current, step, q, sqe, next_command_id, aligned_buffer, left_commands,
                 req, answer, sqtdbl, cqhdbl, controller, page>>

Enabled ==
  /\ pc = "enabling" /\ ready
  /\ pc' = "admin" /\ step' = 1
  /\ UNCHANGED <<current, q, sqe, next_command_id, aligned_buffer, left_commands, req,
                 answer, en, configured, sqtdbl, cqhdbl, controller, page>>

(* The commands of nvme_create_io_queue and nvme_identify_namespace.       *)
AdminCommands == <<"SETFEATURES", "CREATE IO CQ", "CREATE IO SQ", "IDENTIFY">>

(* A command at the tail of the submission queue k.                        *)
PutCommand(k, opc, r, buf) ==
  /\ sqe' = [sqe EXCEPT ![k][q[k].tail] =
                [opc |-> opc, cid |-> next_command_id, r |-> r, prp |-> buf]]
  /\ next_command_id' = (next_command_id + 1) % CID_MOD
  /\ aligned_buffer' = buf
  /\ current' = k

AdminCommand ==
  /\ pc = "admin" /\ step <= Len(AdminCommands)
  /\ \E buf \in IF AdminCommands[step] = "IDENTIFY" THEN Pages ELSE {NULL} :
       PutCommand("admin", AdminCommands[step], NoReq, buf)
  /\ pc' = "filled"
  /\ UNCHANGED <<step, q, left_commands, req, answer, en, configured, sqtdbl, cqhdbl,
                 controller, page>>

(* nvme_set_global: the disk is in service.                                *)
InService ==
  /\ pc = "admin" /\ step > Len(AdminCommands)
  /\ pc' = "idle"
  /\ UNCHANGED <<current, step, q, sqe, next_command_id, aligned_buffer, left_commands,
                 req, answer, en, configured, sqtdbl, cqhdbl, controller, page>>

-----------------------------------------------------------------------------
(* The driver: nvme_write and nvme_read.                                   *)

(* Without a disk, and for more than a page, the functions return at once. *)
(* The code compares block_count * block_size in 32 bits; fs.c asks for    *)
(* the blocks of one dzFS block, so the product never wraps and is not 0.  *)
TooLarge(r) == r.n > PAGE_BLOCKS

Ignored ==
  /\ \/ pc = "failed"
     \/ pc = "idle" /\ \E r \in Request : TooLarge(r)
  /\ UNCHANGED vars

(* A page is taken, for a write the data is copied into it, and the        *)
(* command goes to the tail of the queue.                                  *)
StartIo ==
  /\ pc = "idle"
  /\ \E r \in Request, buf \in Pages :
       /\ ~TooLarge(r) /\ r.lba + r.n - 1 \in Blocks
       /\ req' = r
       /\ PutCommand("io", r.op, r, buf)
       /\ page' = IF r.op = "write"
                  THEN [page EXCEPT ![buf] = [b \in 0 .. PAGE_BLOCKS - 1 |->
                                                IF b < r.n THEN r.data[b] ELSE page[buf][b]]]
                  ELSE page
  /\ pc' = "filled"
  /\ UNCHANGED <<step, q, left_commands, answer, en, configured, sqtdbl, cqhdbl, controller>>

-----------------------------------------------------------------------------
(* The driver: nvme_do_one_cmd_synchronous.                                *)

(* The position behind i in queue k.                                       *)
Advance(k, i) == IF i + 1 > Size[k] - 1 THEN 0 ELSE i + 1

(* Slip: no command is left when the tail has wrapped around.              *)
LeftNoWrap(k, head, tail) == IF head < tail THEN tail - head ELSE 0

LeftCommands(k, head, tail) ==
  IF head < tail THEN tail - head ELSE (Size[k] - head) + tail

(* The tail moves on and the doorbell rings.                               *)
RingDoorbell ==
  /\ pc = "filled"
  /\ LET tail == Advance(current, q[current].tail)
     IN  /\ q' = [q EXCEPT ![current].tail = tail]
         /\ sqtdbl' = [sqtdbl EXCEPT ![current] = tail]
         /\ left_commands' = LeftCommands(current, q[current].head, tail)
  /\ pc' = "polling"
  /\ UNCHANGED <<current, step, sqe, next_command_id, aligned_buffer, req, answer, en,
                 configured, cqhdbl, controller, page>>

(* Slip: the phase is not turned at the end of the ring.                   *)
PhaseKept(phase, head) == phase

PhaseAfter(phase, head) == IF head = 0 THEN 1 - phase ELSE phase

(* The entry at the head has a new phase bit: it is taken.                 *)
Poll ==
  /\ pc = "polling" /\ left_commands > 0
  /\ cqe[current][q[current].head].phase # q[current].phase
  /\ LET head == Advance(current, q[current].head)
     IN  q' = [q EXCEPT ![current] =
                 [tail |-> @.tail, head |-> head, phase |-> PhaseAfter(@.phase, head)]]
  /\ left_commands' = left_commands - 1
  /\ UNCHANGED <<pc, current, step, sqe, next_command_id, aligned_buffer, req, answer, en,
                 configured, sqtdbl, cqhdbl, controller, page>>

(* The head goes to its doorbell; a read copies the page to its caller;    *)
(* the page is given back.                                                 *)
Finish ==
  /\ pc = "polling" /\ left_commands = 0
  /\ cqhdbl' = [cqhdbl EXCEPT ![current] = q[current].head]
  /\ IF current = "io"
     THEN /\ pc' = "idle" /\ UNCHANGED step
          /\ answer' = IF req.op = "read"
                       THEN [b \in 0 .. req.n - 1 |-> page[aligned_buffer][b]] ELSE answer
          /\ req' = NoReq
     ELSE pc' = "admin" /\ step' = step + 1 /\ UNCHANGED <<answer, req>>
  /\ aligned_buffer' = NULL
  /\ UNCHANGED <<current, q, sqe, next_command_id, left_commands, en, configured,
                 sqtdbl, controller, page>>

Driver ==
  \/ InitFails \/ InitQueues \/ Configure \/ Enabled \/ AdminCommand \/ InService
  \/ StartIo \/ RingDoorbell \/ Poll \/ Finish

-----------------------------------------------------------------------------
(* The controller, an external device: what the driver may expect of one.  *)

(* CC.EN is cleared: it stops and forgets its queues.                      *)
Reset ==
  /\ ~en /\ ready
  /\ ready' = FALSE
  /\ dq' = [k \in Queues |-> [sqhd |-> 0, cqtl |-> 0, phase |-> 1]]
  /\ created' = {} /\ inflight' = {}
  /\ UNCHANGED <<driver, cqe, disk, page>>

(* CC.EN is set: it starts with the administrative queue.                  *)
Start ==
  /\ en /\ ~ready /\ configured
  /\ ready' = TRUE
  /\ created' = {"admin"}
  /\ UNCHANGED <<driver, cqe, dq, inflight, disk, page>>

(* The next entry of a submission queue up to its doorbell.                *)
Fetch(k) ==
  /\ ready /\ k \in created /\ dq[k].sqhd # sqtdbl[k]
  /\ LET c == sqe[k][dq[k].sqhd]
     IN  inflight' = inflight \cup
           {[k |-> k, c |-> c, todo |-> IF k = "io" THEN 0 .. c.r.n - 1 ELSE {}]}
  /\ dq' = [dq EXCEPT ![k].sqhd = Advance(k, @)]
  /\ UNCHANGED <<driver, cqe, ready, created, disk, page>>

(* A block goes from the page to the disk or back.                         *)
Transfer(f, b) ==
  LET c == f.c
  IN  /\ inflight' = (inflight \ {f}) \cup {[f EXCEPT !.todo = @ \ {b}]}
      /\ IF c.opc = "write"
         THEN disk' = [disk EXCEPT ![c.r.lba + b] = page[c.prp][b]] /\ UNCHANGED page
         ELSE page' = [page EXCEPT ![c.prp][b] = disk[c.r.lba + b]] /\ UNCHANGED disk
      /\ UNCHANGED <<driver, cqe, ready, created, dq>>

(* The completion is posted, if there is room.                             *)
Complete(f) ==
  LET k == f.k
      tl == Advance(k, dq[k].cqtl)
  IN  /\ f.todo = {} /\ tl # cqhdbl[k]
      /\ inflight' = inflight \ {f}
      /\ cqe' = [cqe EXCEPT ![k][dq[k].cqtl] = [phase |-> dq[k].phase, cid |-> f.c.cid]]
      /\ dq' = [dq EXCEPT ![k] = [sqhd |-> @.sqhd, cqtl |-> tl,
                                  phase |-> IF tl = 0 THEN 1 - @.phase ELSE @.phase]]
      /\ created' = IF f.c.opc = "CREATE IO SQ" THEN created \cup {"io"} ELSE created
      /\ UNCHANGED <<driver, ready, disk, page>>

Controller ==
  \/ Reset \/ Start
  \/ \E k \in Queues : Fetch(k)
  \/ \E f \in inflight : Complete(f) \/ \E b \in f.todo : Transfer(f, b)

-----------------------------------------------------------------------------
NoCommand == [opc |-> "none", cid |-> 0, r |-> NoReq, prp |-> NULL]

(* The firmware may have used the controller.                              *)
Init ==
  /\ pc = "off" /\ current = "admin" /\ step = 1
  /\ q = [k \in Queues |-> FreshQueue]
  /\ sqe = [k \in Queues |-> [s \in Slots(k) |-> NoCommand]]
  /\ cqe = [k \in Queues |-> [s \in Slots(k) |-> [phase |-> 1, cid |-> 0]]]
  /\ next_command_id = 0 /\ aligned_buffer = NULL /\ left_commands = 0
  /\ page \in [Pages -> {[b \in 0 .. PAGE_BLOCKS - 1 |-> v] : v \in Val}]
  /\ req = NoReq /\ answer = <<>>
  /\ configured = FALSE
  /\ sqtdbl = [k \in Queues |-> 0] /\ cqhdbl = [k \in Queues |-> 0]
  /\ inflight = {} /\ created = {}
  /\ \/ /\ en = FALSE /\ ready = FALSE /\ dq = [k \in Queues |-> [sqhd |-> 0, cqtl |-> 0, phase |-> 1]]
     \/ /\ en = TRUE /\ ready = TRUE /\ dq = [k \in Queues |-> [sqhd |-> 1, cqtl |-> 1, phase |-> 0]]
  /\ disk \in [Blocks -> Val]

(* The driver waits in one of its loops: it reads again.                   *)
Spin ==
  /\ \/ pc = "disabling" /\ ready
     \/ pc = "enabling" /\ ~ready
     \/ pc = "polling" /\ left_commands > 0
          /\ cqe[current][q[current].head].phase = q[current].phase
  /\ UNCHANGED vars

Next == Driver \/ Controller \/ Ignored \/ Spin

Spec == Init /\ [][Next]_vars

(* The driver is the only thing that runs while it polls, and a controller *)
(* answers; nobody has to call, and nvme_init may fail.                    *)
Fairness ==
  /\ WF_vars(Configure \/ Enabled \/ AdminCommand \/ InService \/ RingDoorbell
               \/ Poll \/ Finish)
  /\ WF_vars(Controller)

FairSpec == Spec /\ Fairness

-----------------------------------------------------------------------------
(* Properties.                                                             *)

(* Indices and doorbells of both rings stay inside them as they wrap       *)
(* (nvme_do_one_cmd_synchronous), and one command at most is outstanding.  *)
TypeOK ==
  /\ pc \in {"off", "failed", "disabling", "enabling", "admin", "filled", "polling", "idle"}
  /\ current \in Queues /\ step \in 1 .. Len(AdminCommands) + 1
  /\ \A k \in Queues :
       /\ q[k].tail \in Slots(k) /\ q[k].head \in Slots(k) /\ q[k].phase \in {0, 1}
       /\ sqtdbl[k] \in Slots(k) /\ cqhdbl[k] \in Slots(k)
  /\ left_commands \in 0 .. 1
  /\ aligned_buffer \in Pages \cup {NULL}
  /\ req \in Request \cup {NoReq}
  /\ Cardinality(inflight) <= 1

(* The driver goes on exactly when its own command is done: a completion   *)
(* of an earlier lap, or of the firmware's time, is not taken for it.      *)
CompletionIsOurs ==
  pc = "polling" /\ left_commands = 0 =>
    /\ inflight = {}
    /\ dq[current].sqhd = q[current].tail
    /\ \E s \in Slots(current) :
         /\ Advance(current, s) = q[current].head
         /\ (cqe[current][s].cid + 1) % CID_MOD = next_command_id

(* The controller moves data only in a page that the driver holds: none of *)
(* its commands outlives the call that gave it the page.                   *)
DmaIntoHeldPage ==
  \A f \in inflight : f.c.prp # NULL => f.c.prp = aligned_buffer /\ pc = "polling"

(* Driver and controller are in step: indices in range, completions and    *)
(* buffers matched to the one command under way                            *)
(* (nvme_do_one_cmd_synchronous).                                          *)
InStep == TypeOK /\ CompletionIsOurs /\ DmaIntoHeldPage

(* The blocks of the call that were not moved yet.                         *)
Todo ==
  IF req = NoReq THEN {}
  ELSE IF pc = "filled" \/ dq["io"].sqhd # sqtdbl["io"] THEN 0 .. req.n - 1
  ELSE UNION {f.todo : f \in inflight}

Store == INSTANCE BlockStore WITH store <- disk, todo <- Todo

(* nvme_read and nvme_write are the reads and writes of a block store:     *)
(* what dzFS relies on.                                                    *)
ImplementsStore == Store!StoreSpec

(* Every command is answered and every call returns; nvme_init comes to an *)
(* end.                                                                    *)
CallsReturn == pc \in {"disabling", "filled"} ~> pc = "idle"
=============================================================================
