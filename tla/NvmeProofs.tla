----------------------------- MODULE NvmeProofs -----------------------------
(***************************************************************************)
(* Proofs about Nvme, for rings of any size, any disk, any pages and any   *)
(* modulus of the command identifiers.  The invariant says where driver    *)
(* and controller stand to each other: both rings are at rest (all         *)
(* pointers are equal and the phase bits show no news) but for the one in  *)
(* which the driver polls, and there the command is waiting, worked on,    *)
(* posted or taken.                                                        *)
(***************************************************************************)
EXTENDS Nvme, FiniteSetTheorems, TLAPS

Flip(b) == 1 - b

(* A lap of the completion queue: the entries before h have the new phase. *)
Lap(k, h) ==
  \A s \in Slots(k) :
    cqe[k][s].phase = IF s < h THEN Flip(q[k].phase) ELSE q[k].phase

AtRest(k) ==
  /\ q[k].head = q[k].tail /\ sqtdbl[k] = q[k].tail /\ cqhdbl[k] = q[k].tail
  /\ dq[k].sqhd = q[k].tail /\ dq[k].cqtl = q[k].tail
  /\ dq[k].phase = Flip(q[k].phase)
  /\ Lap(k, q[k].tail)

(* The pointers of queue k with a command under way in slot s.             *)
UnderWay(k, s) ==
  /\ q[k].tail = Advance(k, s) /\ sqtdbl[k] = q[k].tail /\ cqhdbl[k] = s

(* The command was not fetched yet.                                        *)
Waiting(k, s) ==
  /\ UnderWay(k, s) /\ q[k].head = s /\ left_commands = 1
  /\ dq[k].sqhd = s /\ dq[k].cqtl = s /\ dq[k].phase = Flip(q[k].phase)
  /\ Lap(k, s)
  /\ inflight = {}

(* The controller works on it.                                             *)
WorkedOn(k, s) ==
  /\ UnderWay(k, s) /\ q[k].head = s /\ left_commands = 1
  /\ dq[k].sqhd = q[k].tail /\ dq[k].cqtl = s /\ dq[k].phase = Flip(q[k].phase)
  /\ Lap(k, s)
  /\ \E todo \in SUBSET (0 .. PAGE_BLOCKS - 1) :
       /\ inflight = {[k |-> k, c |-> sqe[k][s], todo |-> todo]}
       /\ todo \subseteq IF k = "io" THEN 0 .. req.n - 1 ELSE {}

(* Its completion is posted, and not taken yet.                            *)
Posted(k, s) ==
  /\ UnderWay(k, s) /\ q[k].head = s /\ left_commands = 1
  /\ dq[k].sqhd = q[k].tail /\ dq[k].cqtl = q[k].tail
  /\ dq[k].phase = IF q[k].tail = 0 THEN q[k].phase ELSE Flip(q[k].phase)
  /\ Lap(k, s + 1)
  /\ (cqe[k][s].cid + 1) % CID_MOD = next_command_id
  /\ inflight = {}

(* It is taken, and the doorbell of the completion queue is to be rung.    *)
Taken(k, s) ==
  /\ UnderWay(k, s) /\ q[k].head = q[k].tail /\ left_commands = 0
  /\ dq[k].sqhd = q[k].tail /\ dq[k].cqtl = q[k].tail
  /\ dq[k].phase = Flip(q[k].phase)
  /\ Lap(k, q[k].tail)
  /\ (cqe[k][s].cid + 1) % CID_MOD = next_command_id
  /\ inflight = {}

-----------------------------------------------------------------------------
Types ==
  /\ pc \in {"off", "failed", "disabling", "enabling", "admin", "filled", "polling", "idle"}
  /\ current \in Queues /\ step \in 1 .. Len(AdminCommands) + 1
  /\ q \in [Queues -> [tail : Nat, head : Nat, phase : {0, 1}]]
  /\ dq \in [Queues -> [sqhd : Nat, cqtl : Nat, phase : {0, 1}]]
  /\ sqtdbl \in [Queues -> Nat] /\ cqhdbl \in [Queues -> Nat]
  /\ \A k \in Queues : q[k].tail \in Slots(k) /\ q[k].head \in Slots(k)
                       /\ sqtdbl[k] \in Slots(k) /\ cqhdbl[k] \in Slots(k)
  /\ DOMAIN sqe = Queues /\ \A k \in Queues : DOMAIN sqe[k] = Slots(k)
  /\ DOMAIN cqe = Queues /\ \A k \in Queues : DOMAIN cqe[k] = Slots(k)
  /\ left_commands \in 0 .. 1
  /\ aligned_buffer \in Pages \cup {NULL}
  /\ req \in Request \cup {NoReq}
  /\ page \in [Pages -> [0 .. PAGE_BLOCKS - 1 -> Val]]
  /\ disk \in [Blocks -> Val]
  /\ en \in BOOLEAN /\ ready \in BOOLEAN /\ configured \in BOOLEAN
  /\ created \subseteq Queues

(* nvme_init up to its first command.                                      *)
SetUp ==
  /\ inflight = {} /\ req = NoReq /\ aligned_buffer = NULL
  /\ \A k \in Queues : q[k] = FreshQueue /\ sqtdbl[k] = 0 /\ cqhdbl[k] = 0
  /\ pc \in {"off", "failed"} => created = {} /\ (ready => en) /\ ~configured
  /\ pc = "disabling" => ~en /\ created = {}
  /\ pc = "enabling" => en /\ configured
  /\ pc \in {"disabling", "enabling"} => \A k \in Queues : Lap(k, 0)
  /\ pc = "enabling" \/ ~ready =>
       \A k \in Queues : dq[k] = [sqhd |-> 0, cqtl |-> 0, phase |-> 1]

(* The command in slot s of the current queue is the one of this call.     *)
Ours(s) ==
  LET c == sqe[current][s]
  IN  /\ c.prp = aligned_buffer
      /\ (c.cid + 1) % CID_MOD = next_command_id
      /\ current = "io" => /\ req \in Request /\ req.n <= PAGE_BLOCKS
                           /\ req.lba + req.n - 1 \in Blocks
                           /\ c.r = req /\ c.opc = req.op
                           /\ aligned_buffer \in Pages
      /\ current = "admin" => req = NoReq /\ step <= Len(AdminCommands)

AtWork ==
  /\ en /\ ready
  /\ \A k \in Queues : (pc = "polling" /\ current = k) \/ AtRest(k)
  /\ pc \in {"admin", "idle"} => inflight = {} /\ req = NoReq /\ aligned_buffer = NULL
  /\ pc = "filled" => inflight = {} /\ Ours(q[current].tail)
  /\ pc = "polling" =>
       \E s \in Slots(current) :
         /\ Ours(s)
         /\ \/ Waiting(current, s) \/ WorkedOn(current, s)
            \/ Posted(current, s) \/ Taken(current, s)

NvmeInv ==
  /\ Types
  /\ pc \in {"off", "failed", "disabling", "enabling"} => SetUp
  /\ pc \in {"admin", "filled", "polling", "idle"} => AtWork

(* The page holds what the call writes, or what it has read so far.        *)
DataInv ==
  pc \in {"filled", "polling"} /\ current = "io" =>
    \A b \in 0 .. req.n - 1 :
      /\ req.op = "write" => page[aligned_buffer][b] = req.data[b]
      /\ req.op = "read" /\ b \notin Todo => page[aligned_buffer][b] = disk[req.lba + b]

-----------------------------------------------------------------------------
(* Facts about the rings and the requests.                                 *)

(* Both rings have at least two slots.                                     *)
LEMMA SizeOK == \A k \in Queues : Size[k] \in Nat /\ Size[k] > 1
BY NvmeAssumption DEF Queues, Size

(* nvme_init has four administrative commands.                             *)
LEMMA FourCommands == Len(AdminCommands) = 4
BY DEF AdminCommands

(* The position behind i is another one in the ring, the next or the first.*)
LEMMA AdvanceOK ==
  ASSUME NEW k \in Queues, NEW i \in Slots(k)
  PROVE  /\ Advance(k, i) \in Slots(k)
         /\ \/ Advance(k, i) = i + 1 /\ i + 1 < Size[k]
            \/ Advance(k, i) = 0 /\ i = Size[k] - 1
BY SizeOK DEF Advance, Slots

(* What a request consists of.                                             *)
LEMMA RequestOK ==
  ASSUME NEW r \in Request
  PROVE  /\ r.n \in 1 .. MaxBlocks /\ r.lba \in Blocks /\ r.op \in {"read", "write"}
         /\ r.op = "write" => r.data \in [0 .. r.n - 1 -> Val]
<1>1. PICK n \in 1 .. MaxBlocks :
        r \in [op : {"write"}, lba : Blocks, n : {n}, data : [0 .. n - 1 -> Val]]
                \cup [op : {"read"}, lba : Blocks, n : {n}, data : {<<>>}]
  BY DEF Request
<1> QED BY <1>1

-----------------------------------------------------------------------------
(* nvme_init.                                                              *)

(* The state the firmware leaves satisfies the invariant.                  *)
LEMMA InitInv == Init => NvmeInv /\ DataInv
<1> SUFFICES ASSUME Init PROVE NvmeInv /\ DataInv
  OBVIOUS
<1>1. \A k \in Queues : 0 \in Slots(k) /\ 1 \in Slots(k)
  BY SizeOK DEF Slots
<1>3. page \in [Pages -> [0 .. PAGE_BLOCKS - 1 -> Val]]
  BY DEF Init
<1>4. Types
  <2>1. DOMAIN sqe = Queues /\ \A k \in Queues : DOMAIN sqe[k] = Slots(k)
    BY DEF Init
  <2>2. DOMAIN cqe = Queues /\ \A k \in Queues : DOMAIN cqe[k] = Slots(k)
    BY DEF Init
  <2>3. /\ q \in [Queues -> [tail : Nat, head : Nat, phase : {0, 1}]]
        /\ \A k \in Queues : q[k].tail = 0 /\ q[k].head = 0
    BY DEF Init, FreshQueue
  <2>4. dq \in [Queues -> [sqhd : Nat, cqtl : Nat, phase : {0, 1}]]
    BY DEF Init
  <2>5. en \in BOOLEAN /\ ready \in BOOLEAN /\ configured \in BOOLEAN
    BY DEF Init
  <2>6. /\ sqtdbl \in [Queues -> Nat] /\ cqhdbl \in [Queues -> Nat]
        /\ \A k \in Queues : sqtdbl[k] = 0 /\ cqhdbl[k] = 0
    BY DEF Init
  <2>7. current \in Queues /\ step \in 1 .. Len(AdminCommands) + 1
    BY FourCommands DEF Init, Queues
  <2>8. /\ left_commands \in 0 .. 1 /\ aligned_buffer \in Pages \cup {NULL}
        /\ req \in Request \cup {NoReq} /\ disk \in [Blocks -> Val]
        /\ created \subseteq Queues
        /\ pc \in {"off", "failed", "disabling", "enabling", "admin", "filled", "polling", "idle"}
    BY DEF Init
  <2> QED BY <1>1, <1>3, <2>1, <2>2, <2>3, <2>4, <2>5, <2>6, <2>7, <2>8 DEF Types
<1>5. SetUp
  BY DEF Init, SetUp
<1> QED BY <1>4, <1>5 DEF Init, NvmeInv, DataInv

(* nvme_init fails or sets its queues up.                                  *)
LEMMA InitQueuesKeeps ==
  ASSUME NvmeInv, InitFails \/ InitQueues
  PROVE  NvmeInv'
<1>1. CASE InitFails
  BY <1>1 DEF NvmeInv, InitFails, Types, SetUp, controller, Lap
<1>2. CASE InitQueues
  <2>1. \A k \in Queues : 0 \in Slots(k)
    BY SizeOK DEF Slots
  <2>2. Types'
    <3>1. \A k \in Queues : DOMAIN cqe'[k] = Slots(k)
      BY <1>2 DEF InitQueues
    <3>2. DOMAIN cqe' = Queues
      BY <1>2 DEF InitQueues
    <3>3. q' \in [Queues -> [tail : Nat, head : Nat, phase : {0, 1}]]
      BY <1>2 DEF InitQueues, FreshQueue
    <3> QED BY <1>2, <2>1, <3>1, <3>2, <3>3 DEF NvmeInv, InitQueues, Types, FreshQueue
  <2>3. SetUp'
    <3>1. \A k \in Queues : Lap(k, 0)'
      BY <1>2 DEF InitQueues, Lap, FreshQueue, Slots
    <3> QED BY <1>2, <3>1 DEF NvmeInv, InitQueues, SetUp, FreshQueue
  <2> QED BY <1>2, <2>2, <2>3 DEF NvmeInv, InitQueues
<1> QED BY <1>1, <1>2

(* It configures the controller, and finds it ready.                       *)
LEMMA EnableKeeps ==
  ASSUME NvmeInv, Configure \/ Enabled
  PROVE  NvmeInv'
<1>1. CASE Configure
  BY <1>1 DEF NvmeInv, Configure, Disabled, Types, SetUp, controller, Lap
<1>2. CASE Enabled
  <2>1. Types'
    BY <1>2, FourCommands DEF NvmeInv, Enabled, Types, controller
  <2>2. SetUp /\ pc = "enabling" /\ ready
    BY <1>2 DEF NvmeInv, Enabled
  <2>3. \A k \in Queues : AtRest(k)'
    BY <1>2, <2>2 DEF Enabled, SetUp, AtRest, Lap, controller, FreshQueue, Flip
  <2>4. AtWork'
    BY <1>2, <2>2, <2>3 DEF Enabled, SetUp, AtWork, controller
  <2> QED BY <1>2, <2>1, <2>4 DEF NvmeInv, Enabled
<1> QED BY <1>1, <1>2

(* The disk goes into service.                                             *)
LEMMA InServiceKeeps ==
  ASSUME NvmeInv, InService
  PROVE  NvmeInv'
<1>1. Types'
  BY DEF NvmeInv, InService, Types, controller
<1>2. AtWork'
  BY DEF NvmeInv, InService, AtWork, AtRest, Lap, controller
<1> QED BY <1>1, <1>2 DEF NvmeInv, InService

-----------------------------------------------------------------------------
(* The driver.                                                             *)

(* A command is put into a slot that is at rest.                           *)
LEMMA PutKeeps ==
  ASSUME NvmeInv, pc \in {"admin", "idle"},
         NEW k \in Queues, NEW opc, NEW r, NEW buf \in Pages \cup {NULL},
         PutCommand(k, opc, r, buf),
         UNCHANGED <<q, sqtdbl, cqhdbl, left_commands, en, configured, step, controller>>,
         pc' = "filled",
         k = "admin" => UNCHANGED <<req, page>> /\ step <= Len(AdminCommands),
         k = "io" => /\ r \in Request /\ opc = r.op /\ r.n <= PAGE_BLOCKS
                     /\ r.lba + r.n - 1 \in Blocks
                     /\ buf \in Pages /\ req' = r,
         page' \in [Pages -> [0 .. PAGE_BLOCKS - 1 -> Val]]
  PROVE  NvmeInv'
<1>1. Types /\ AtWork
  BY DEF NvmeInv
<1>2. current' = k /\ aligned_buffer' = buf
  BY DEF PutCommand
<1>3. req' \in Request \cup {NoReq} /\ (k = "admin" => req' = NoReq)
  BY <1>1 DEF AtWork, Queues
<1>4. /\ DOMAIN sqe' = Queues /\ \A j \in Queues : DOMAIN sqe'[j] = Slots(j)
      /\ sqe'[k][q[k].tail] = [opc |-> opc, cid |-> next_command_id, r |-> r, prp |-> buf]
  BY <1>1 DEF PutCommand, Types
<1>5. Types'
  BY <1>1, <1>2, <1>3, <1>4 DEF Types, controller
<1>6. \A j \in Queues : AtRest(j)'
  BY <1>1 DEF AtWork, AtRest, Lap, controller
<1>7. Ours(q[current].tail)'
  BY <1>2, <1>3, <1>4 DEF Ours, PutCommand, Queues
<1>8. AtWork'
  BY <1>1, <1>6, <1>7 DEF AtWork, controller
<1> QED BY <1>5, <1>8 DEF NvmeInv

(* nvme_init gives the next of its commands.                               *)
LEMMA AdminCommandKeeps ==
  ASSUME NvmeInv, AdminCommand
  PROVE  NvmeInv'
<1>1. PICK buf \in Pages \cup {NULL} : PutCommand("admin", AdminCommands[step], NoReq, buf)
  BY DEF AdminCommand
<1>2. PICK opc : opc = AdminCommands[step]
  OBVIOUS
<1>3. PutCommand("admin", opc, NoReq, buf)
  BY <1>1, <1>2 DEF PutCommand
<1>4. page' \in [Pages -> [0 .. PAGE_BLOCKS - 1 -> Val]]
  BY DEF AdminCommand, NvmeInv, Types
<1> QED BY <1>3, <1>4, PutKeeps DEF AdminCommand, Queues

(* nvme_read and nvme_write fill a page and give their command; the page   *)
(* of a write holds the data.                                              *)
LEMMA StartIoKeeps ==
  ASSUME NvmeInv, StartIo
  PROVE  NvmeInv' /\ DataInv'
<1>1. PICK r \in Request, buf \in Pages :
        /\ ~TooLarge(r) /\ r.lba + r.n - 1 \in Blocks
        /\ req' = r
        /\ PutCommand("io", r.op, r, buf)
        /\ page' = IF r.op = "write"
                   THEN [page EXCEPT ![buf] = [b \in 0 .. PAGE_BLOCKS - 1 |->
                           IF b < r.n THEN r.data[b] ELSE page[buf][b]]]
                   ELSE page
  BY DEF StartIo
<1>2. /\ r.n \in Nat /\ r.n <= PAGE_BLOCKS /\ PAGE_BLOCKS \in Nat
      /\ r.op \in {"read", "write"}
      /\ r.op = "write" => r.data \in [0 .. r.n - 1 -> Val]
  BY <1>1, RequestOK, NvmeAssumption DEF TooLarge
<1>3. page \in [Pages -> [0 .. PAGE_BLOCKS - 1 -> Val]]
  BY DEF NvmeInv, Types
<1>4. page' \in [Pages -> [0 .. PAGE_BLOCKS - 1 -> Val]]
  <2>1. CASE r.op = "write"
    <3> DEFINE new == [b \in 0 .. PAGE_BLOCKS - 1 |->
                         IF b < r.n THEN r.data[b] ELSE page[buf][b]]
    <3>1. \A b \in 0 .. PAGE_BLOCKS - 1 :
             (IF b < r.n THEN r.data[b] ELSE page[buf][b]) \in Val
      BY <1>2, <1>3, <2>1
    <3>2. new \in [0 .. PAGE_BLOCKS - 1 -> Val]
      BY <3>1
    <3>3. page' = [page EXCEPT ![buf] = new]
      BY <1>1, <2>1
    <3> HIDE DEF new
    <3> QED BY <1>3, <3>2, <3>3
  <2>2. CASE r.op # "write"
    BY <1>1, <1>3, <2>2
  <2> QED BY <2>1, <2>2
<1>5. NvmeInv'
  BY <1>1, <1>2, <1>4, PutKeeps DEF StartIo, Queues
<1>6. ASSUME r.op = "write", NEW b \in 0 .. r.n - 1
      PROVE  page'[buf][b] = r.data[b]
  BY <1>1, <1>2, <1>3, <1>6
<1>7. Todo' = 0 .. r.n - 1
  BY <1>1, NvmeAssumption DEF StartIo, Todo
<1>8. DataInv'
  BY <1>1, <1>2, <1>6, <1>7 DEF DataInv, PutCommand
<1> QED BY <1>5, <1>8

(* The doorbell rings: the command waits for the controller.               *)
LEMMA RingDoorbellKeeps ==
  ASSUME NvmeInv, RingDoorbell
  PROVE  NvmeInv'
<1>0. PICK k, s, tail : k = current /\ s = q[k].tail /\ tail = Advance(k, s)
  OBVIOUS
<1>1. pc = "filled" /\ Types /\ AtWork /\ AtRest(k) /\ Ours(s) /\ inflight = {}
  BY <1>0 DEF NvmeInv, RingDoorbell, AtWork, Types
<1>2. k \in Queues /\ s \in Slots(k) /\ q[k].head = s
  BY <1>0, <1>1 DEF Types, AtRest
<1>3. /\ q' = [q EXCEPT ![k].tail = tail] /\ sqtdbl' = [sqtdbl EXCEPT ![k] = tail]
      /\ left_commands' = LeftCommands(k, s, tail) /\ pc' = "polling"
      /\ UNCHANGED <<current, step, sqe, next_command_id, aligned_buffer, req, answer, en,
                     configured, cqhdbl, controller, page>>
  BY <1>0, <1>2 DEF RingDoorbell
<1>4. /\ tail \in Slots(k)
      /\ \/ tail = s + 1 /\ s + 1 < Size[k]
         \/ tail = 0 /\ s = Size[k] - 1
  BY <1>0, <1>2, AdvanceOK
<1>5. left_commands' = 1
  BY <1>2, <1>3, <1>4, SizeOK DEF LeftCommands, Slots
<1>6. \A j \in Queues : /\ q'[j].head = q[j].head /\ q'[j].phase = q[j].phase
                        /\ j # k => q'[j].tail = q[j].tail /\ sqtdbl'[j] = sqtdbl[j]
                        /\ j = k => q'[j].tail = tail /\ sqtdbl'[j] = tail
  BY <1>1, <1>3 DEF Types
<1>7. Types'
  <2>1. tail \in Nat
    BY <1>2, <1>4, SizeOK DEF Slots
  <2>2. /\ q' \in [Queues -> [tail : Nat, head : Nat, phase : {0, 1}]]
        /\ sqtdbl' \in [Queues -> Nat]
    BY <1>1, <1>3, <2>1 DEF Types
  <2>3. \A j \in Queues : /\ q'[j].tail \in Slots(j) /\ q'[j].head \in Slots(j)
                          /\ sqtdbl'[j] \in Slots(j) /\ cqhdbl'[j] \in Slots(j)
    BY <1>1, <1>3, <1>4, <1>6 DEF Types
  <2> QED BY <1>1, <1>3, <1>5, <2>2, <2>3, SMTT(30) DEF Types, controller
<1>8. \A j \in Queues : j # k => AtRest(j)'
  BY <1>1, <1>3, <1>6 DEF AtWork, AtRest, Lap, controller
<1>9. Waiting(k, s)'
  BY <1>0, <1>1, <1>2, <1>3, <1>5, <1>6 DEF AtRest, Waiting, UnderWay, Lap, controller
<1>10. Ours(s)'
  BY <1>0, <1>1, <1>3 DEF Ours
<1>11. AtWork'
  BY <1>0, <1>1, <1>2, <1>3, <1>8, <1>9, <1>10 DEF AtWork, controller
<1> QED BY <1>3, <1>7, <1>11 DEF NvmeInv

(* The driver takes the completion, and only its own is there to take.     *)
LEMMA PollKeeps ==
  ASSUME NvmeInv, Poll
  PROVE  NvmeInv'
<1>1. pc = "polling" /\ Types /\ AtWork /\ left_commands > 0
  BY DEF NvmeInv, Poll
<1>2. PICK k \in Queues : k = current
  BY <1>1 DEF Types
<1>3. PICK s \in Slots(k) : /\ Ours(s)
                            /\ \/ Waiting(k, s) \/ WorkedOn(k, s)
                               \/ Posted(k, s) \/ Taken(k, s)
  BY <1>1, <1>2 DEF AtWork
<1>4. s \in Nat /\ q[k].phase \in {0, 1} /\ q[k].head \in Nat
  BY <1>1, SizeOK DEF Types, Slots
<1>5. Posted(k, s)
  <2>1. ~Taken(k, s)
    BY <1>1 DEF Taken
  <2>2. ASSUME Waiting(k, s) \/ WorkedOn(k, s) PROVE FALSE
    <3>1. q[k].head = s /\ cqe[k][s].phase = q[k].phase
      BY <2>2, <1>4 DEF Waiting, WorkedOn, Lap
    <3> QED BY <1>2, <3>1 DEF Poll
  <2> QED BY <1>3, <2>1, <2>2
<1>6. PICK head : head = Advance(k, s)
  OBVIOUS
<1>7. /\ head \in Slots(k) /\ head \in Nat
      /\ \/ head = s + 1 /\ s + 1 < Size[k]
         \/ head = 0 /\ s = Size[k] - 1
  BY <1>6, AdvanceOK, SizeOK DEF Slots
<1>8. /\ q' = [q EXCEPT ![k] = [tail |-> q[k].tail, head |-> head,
                              phase |-> PhaseAfter(q[k].phase, head)]]
      /\ left_commands' = 0
      /\ UNCHANGED <<pc, current, step, sqe, next_command_id, aligned_buffer, req, answer, en,
                     configured, sqtdbl, cqhdbl, controller, page>>
  BY <1>1, <1>2, <1>5, <1>6 DEF Poll, Posted, Types
<1>9. \A j \in Queues :
        /\ q'[j].tail = q[j].tail
        /\ j # k => q'[j].head = q[j].head /\ q'[j].phase = q[j].phase
        /\ j = k => q'[j].head = head /\ q'[j].phase = IF head = 0 THEN Flip(q[j].phase) ELSE q[j].phase
  <2>1. /\ q'[k] = [tail |-> q[k].tail, head |-> head, phase |-> PhaseAfter(q[k].phase, head)]
        /\ \A j \in Queues : j # k => q'[j] = q[j]
    BY <1>1, <1>8 DEF Types
  <2> QED BY <2>1 DEF PhaseAfter, Flip
<1>10. q' \in [Queues -> [tail : Nat, head : Nat, phase : {0, 1}]]
  <2>1. PhaseAfter(q[k].phase, head) \in {0, 1}
    BY <1>4 DEF PhaseAfter
  <2> QED BY <1>1, <1>7, <1>8, <2>1 DEF Types
<1>11. Types'
  <2>1. \A j \in Queues : /\ q'[j].tail \in Slots(j) /\ q'[j].head \in Slots(j)
                          /\ sqtdbl'[j] \in Slots(j) /\ cqhdbl'[j] \in Slots(j)
    BY <1>1, <1>7, <1>8, <1>9 DEF Types
  <2> QED BY <1>1, <1>8, <1>10, <2>1, SMTT(30) DEF Types, controller
<1>12. \A j \in Queues : j # k => AtRest(j)'
  BY <1>1, <1>2, <1>8, <1>9 DEF AtWork, AtRest, Lap, controller
<1>13. Lap(k, head)'
  <2> SUFFICES ASSUME NEW t \in Slots(k)
               PROVE  cqe[k][t].phase = IF t < head THEN Flip(q'[k].phase) ELSE q'[k].phase
    BY <1>8 DEF Lap, controller
  <2>1. cqe[k][t].phase = IF t < s + 1 THEN Flip(q[k].phase) ELSE q[k].phase
    BY <1>5 DEF Posted, Lap
  <2> QED BY <1>4, <1>7, <1>9, <2>1, SizeOK DEF Slots, Flip
<1>14. Taken(k, s)'
  BY <1>4, <1>5, <1>6, <1>8, <1>9, <1>13 DEF Posted, Taken, UnderWay, controller, Flip
<1>15. AtWork'
  BY <1>1, <1>2, <1>3, <1>8, <1>12, <1>14 DEF AtWork, Ours, controller
<1> QED BY <1>1, <1>8, <1>11, <1>15 DEF NvmeInv

(* The call returns: its ring is at rest again.                            *)
LEMMA FinishKeeps ==
  ASSUME NvmeInv, Finish
  PROVE  NvmeInv'
<1>1. pc = "polling" /\ Types /\ AtWork /\ left_commands = 0
  BY DEF NvmeInv, Finish
<1>2. PICK k \in Queues : k = current
  BY <1>1 DEF Types
<1>3. PICK s \in Slots(k) : Ours(s) /\ Taken(k, s)
  BY <1>1, <1>2 DEF AtWork, Waiting, WorkedOn, Posted
<1>4. /\ cqhdbl' = [cqhdbl EXCEPT ![k] = q[k].head]
      /\ pc' \in {"admin", "idle"} /\ req' = NoReq /\ aligned_buffer' = NULL
      /\ UNCHANGED <<current, q, sqe, next_command_id, left_commands, en, configured,
                     sqtdbl, controller, page>>
  BY <1>2, <1>3 DEF Finish, Ours, Queues
<1>5. step' \in 1 .. Len(AdminCommands) + 1
  BY <1>1, <1>2, <1>3, FourCommands, SMTT(30) DEF Finish, Ours, Types, Queues
<1>6. cqhdbl' \in [Queues -> Nat] /\ \A j \in Queues : cqhdbl'[j] \in Slots(j)
  BY <1>1, <1>4, SizeOK DEF Types, Slots
<1>7. Types'
  BY <1>1, <1>4, <1>5, <1>6 DEF Types, controller
<1>8. \A j \in Queues : AtRest(j)'
  <2>1. \A j \in Queues : j # k => cqhdbl'[j] = cqhdbl[j]
    BY <1>1, <1>4 DEF Types
  <2>2. cqhdbl'[k] = q[k].head
    BY <1>1, <1>4 DEF Types
  <2>3. \A j \in Queues : j # k => AtRest(j)'
    BY <1>1, <1>2, <1>4, <2>1 DEF AtWork, AtRest, Lap, controller
  <2>4. AtRest(k)'
    BY <1>3, <1>4, <2>2 DEF Taken, UnderWay, AtRest, Lap, controller
  <2> QED BY <2>3, <2>4
<1>9. AtWork'
  BY <1>1, <1>3, <1>4, <1>8 DEF AtWork, Taken, controller
<1> QED BY <1>4, <1>7, <1>9 DEF NvmeInv

-----------------------------------------------------------------------------
(* The controller.                                                         *)

(* It stops, which it does only before the driver works, and starts.       *)
LEMMA ResetStartKeeps ==
  ASSUME NvmeInv, Reset \/ Start
  PROVE  NvmeInv'
<1>1. pc \notin {"admin", "filled", "polling", "idle"}
  BY DEF NvmeInv, AtWork, Reset, Start
<1>2. Types /\ SetUp /\ pc \in {"off", "failed", "disabling", "enabling"}
  BY <1>1 DEF NvmeInv, Types
<1>3. CASE Reset
  <2>1. pc = "disabling"
    BY <1>2, <1>3 DEF SetUp, Reset
  <2>2. Types'
    <3>1. dq' \in [Queues -> [sqhd : Nat, cqtl : Nat, phase : {0, 1}]]
      BY <1>3 DEF Reset
    <3> QED BY <1>2, <1>3, <3>1 DEF Types, Reset, driver
  <2>3. SetUp'
    BY <1>2, <1>3, <2>1 DEF SetUp, Reset, driver, Lap
  <2> QED BY <1>1, <1>3, <2>2, <2>3 DEF NvmeInv, Reset, driver
<1>4. CASE Start
  <2>1. pc = "enabling"
    BY <1>2, <1>4 DEF SetUp, Start
  <2>2. Types'
    BY <1>2, <1>4 DEF Types, Start, driver, Queues
  <2>3. SetUp'
    BY <1>2, <1>4, <2>1 DEF SetUp, Start, driver, Lap
  <2> QED BY <1>1, <1>4, <2>2, <2>3 DEF NvmeInv, Start, driver
<1> QED BY <1>3, <1>4

(* It fetches the command of the driver, and nothing else.                 *)
LEMMA FetchKeeps ==
  ASSUME NvmeInv, DataInv, NEW k \in Queues, Fetch(k)
  PROVE  /\ NvmeInv' /\ DataInv'
         /\ Todo' = Todo
<1>1. Types
  BY DEF NvmeInv
<1>2. AtWork
  <2>1. ~SetUp \/ pc \notin {"off", "failed", "disabling", "enabling"}
    BY DEF SetUp, Fetch
  <2> QED BY <1>1, <2>1 DEF NvmeInv, Types
<1>3. pc = "polling" /\ current = k
  BY <1>2 DEF AtWork, AtRest, Fetch
<1>4. PICK s \in Slots(k) : /\ Ours(s)
                            /\ \/ Waiting(k, s) \/ WorkedOn(k, s)
                               \/ Posted(k, s) \/ Taken(k, s)
  BY <1>2, <1>3 DEF AtWork
<1>5. Waiting(k, s)
  BY <1>4 DEF Fetch, WorkedOn, Posted, Taken, UnderWay
<1>6. PICK todo : todo = IF k = "io" THEN 0 .. req.n - 1 ELSE {}
  OBVIOUS
<1>7. inflight' = {[k |-> k, c |-> sqe[k][s], todo |-> todo]}
  <2>1. dq[k].sqhd = s /\ inflight = {}
    BY <1>5 DEF Waiting
  <2>2. k = "io" => sqe[k][s].r = req
    BY <1>3, <1>4 DEF Ours
  <2> QED BY <1>6, <2>1, <2>2 DEF Fetch
<1>8. /\ dq' = [dq EXCEPT ![k].sqhd = Advance(k, s)]
      /\ UNCHANGED <<driver, cqe, ready, created, disk, page>>
  BY <1>5 DEF Fetch, Waiting
<1>9. Advance(k, s) \in Nat
  BY AdvanceOK, SizeOK DEF Slots
<1>10. \A j \in Queues : /\ dq'[j].cqtl = dq[j].cqtl /\ dq'[j].phase = dq[j].phase
                         /\ j # k => dq'[j].sqhd = dq[j].sqhd
                         /\ j = k => dq'[j].sqhd = Advance(k, s)
  <2> DEFINE head == Advance(k, s)
  <2>1. dq' = [dq EXCEPT ![k].sqhd = head] /\ head \in Nat
    BY <1>8, <1>9
  <2> HIDE DEF head
  <2>2. /\ dq'[k].sqhd = head /\ dq'[k].cqtl = dq[k].cqtl /\ dq'[k].phase = dq[k].phase
        /\ \A j \in Queues : j # k => dq'[j] = dq[j]
    BY <1>1, <2>1 DEF Types
  <2> QED BY <2>2 DEF head
<1>11. Types'
  <2>1. dq' \in [Queues -> [sqhd : Nat, cqtl : Nat, phase : {0, 1}]]
    BY <1>1, <1>8, <1>9, ZenonT(40) DEF Types
  <2> QED BY <1>1, <1>8, <2>1 DEF Types, driver
<1>12. \A j \in Queues : j # k => AtRest(j)'
  BY <1>2, <1>3, <1>8, <1>10 DEF AtWork, AtRest, Lap, driver
<1>13. todo \subseteq 0 .. PAGE_BLOCKS - 1
  <2>1. CASE k = "io"
    <3>1. req.n \in Nat /\ req.n <= PAGE_BLOCKS
      BY <1>3, <1>4, <2>1, RequestOK, NvmeAssumption DEF Ours
    <3> QED BY <1>6, <2>1, <3>1, NvmeAssumption
  <2> QED BY <1>6, <2>1
<1>14. WorkedOn(k, s)'
  <2>1. /\ UnderWay(k, s)' /\ Lap(k, s)' /\ q'[k].head = s /\ left_commands' = 1
        /\ dq'[k].sqhd = q'[k].tail /\ dq'[k].cqtl = s /\ dq'[k].phase = Flip(q'[k].phase)
    BY <1>5, <1>8, <1>10 DEF Waiting, UnderWay, Lap, driver
  <2>2. todo \subseteq IF k = "io" THEN 0 .. req'.n - 1 ELSE {}
    BY <1>6, <1>8 DEF driver
  <2>3. inflight' = {[k |-> k, c |-> sqe'[k][s], todo |-> todo]}
    BY <1>7, <1>8 DEF driver
  <2> QED BY <1>13, <2>1, <2>2, <2>3 DEF WorkedOn
<1>15. AtWork'
  <2>1. Ours(s)'
    BY <1>4, <1>8 DEF Ours, driver
  <2> QED BY <1>2, <1>3, <1>8, <1>12, <1>14, <2>1 DEF AtWork, driver
<1>16. NvmeInv'
  BY <1>3, <1>8, <1>11, <1>15 DEF NvmeInv, driver
<1>17. Todo' = Todo
  <2>1. CASE k = "io"
    <3>1. dq[k].sqhd # sqtdbl[k]
      BY DEF Fetch
    <3>2. dq'[k].sqhd = sqtdbl'[k]
      BY <1>5, <1>8, <1>10 DEF Waiting, UnderWay, driver
    <3>3. UNION {f.todo : f \in inflight'} = todo
      BY <1>7
    <3>4. req # NoReq
      BY <1>3, <1>4, <2>1, NvmeAssumption DEF Ours
    <3> QED BY <1>3, <1>6, <1>8, <2>1, <3>1, <3>2, <3>3, <3>4 DEF Todo, driver
  <2>2. CASE k = "admin"
    BY <1>3, <1>4, <1>8, <2>2 DEF Todo, Ours, driver
  <2> QED BY <2>1, <2>2 DEF Queues
<1>18. DataInv'
  BY <1>8, <1>17 DEF DataInv, driver
<1> QED BY <1>16, <1>17, <1>18

(* A command in the controller is the one the driver polls for.            *)
LEMMA InflightIsOurs ==
  ASSUME NvmeInv, NEW f \in inflight
  PROVE  /\ Types /\ AtWork /\ pc = "polling"
         /\ \E s \in Slots(current) :
              /\ Ours(s) /\ WorkedOn(current, s)
              /\ inflight = {f} /\ f.k = current /\ f.c = sqe[current][s]
              /\ f = [k |-> f.k, c |-> f.c, todo |-> f.todo]
              /\ f.todo \subseteq 0 .. PAGE_BLOCKS - 1
              /\ f.todo \subseteq IF current = "io" THEN 0 .. req.n - 1 ELSE {}
<1>1. Types /\ ~SetUp
  BY DEF NvmeInv, SetUp
<1>2. AtWork /\ pc = "polling"
  BY <1>1 DEF NvmeInv, Types, AtWork
<1>3. PICK s \in Slots(current) : Ours(s) /\ WorkedOn(current, s)
  BY <1>2 DEF AtWork, Waiting, Posted, Taken
<1>4. PICK todo \in SUBSET (0 .. PAGE_BLOCKS - 1) :
        /\ inflight = {[k |-> current, c |-> sqe[current][s], todo |-> todo]}
        /\ todo \subseteq IF current = "io" THEN 0 .. req.n - 1 ELSE {}
  BY <1>3 DEF WorkedOn
<1>5. f = [k |-> current, c |-> sqe[current][s], todo |-> todo]
  BY <1>4
<1>6. /\ f.k = current /\ f.c = sqe[current][s] /\ f.todo = todo /\ inflight = {f}
      /\ f = [k |-> f.k, c |-> f.c, todo |-> f.todo]
  BY <1>4, <1>5
<1> QED BY <1>1, <1>2, <1>3, <1>4, <1>6

(* The request of a data transfer lies inside the disk.                    *)
LEMMA InsideDisk ==
  ASSUME req \in Request, req.lba + req.n - 1 \in Blocks, NEW b \in 0 .. req.n - 1
  PROVE  req.lba + b \in Blocks
<1>1. req.lba \in Blocks /\ req.lba \in Nat /\ req.n \in Nat /\ b \in Nat /\ b <= req.n - 1
  <2>1. req.lba \in Blocks /\ req.n \in 1 .. MaxBlocks
    BY RequestOK
  <2>2. MaxBlocks \in Nat /\ Blocks \subseteq Nat
    BY NvmeAssumption
  <2>3. req.lba \in Nat /\ req.n \in Nat
    <3>1. \A n \in 1 .. MaxBlocks : n \in Nat
      BY <2>2
    <3>2. \A x \in Blocks : x \in Nat
      BY <2>2
    <3> QED BY <2>1, <3>1, <3>2
  <2>4. b \in Nat /\ b <= req.n - 1
    BY <2>3
  <2> QED BY <2>1, <2>3, <2>4
<1>2. req.lba .. req.lba + req.n - 1 \subseteq Blocks
  BY <1>1, NvmeAssumption
<1>3. req.lba + b \in req.lba .. req.lba + req.n - 1
  <2>1. PICK l \in Nat, n \in Nat : l = req.lba /\ n = req.n
    BY <1>1
  <2>2. l + b \in l .. l + n - 1
    BY <1>1, <2>1
  <2> QED BY <2>1, <2>2
<1> QED BY <1>2, <1>3

(* A block is moved as the call asks for it.                               *)
LEMMA TransferKeeps ==
  ASSUME NvmeInv, DataInv, NEW f \in inflight, NEW b \in f.todo, Transfer(f, b)
  PROVE  /\ NvmeInv' /\ DataInv'
         /\ req \in Request /\ b \in Todo /\ Todo' = Todo \ {b}
         /\ disk' = IF req.op = "write" THEN [disk EXCEPT ![req.lba + b] = req.data[b]] ELSE disk
<1>1. Types /\ AtWork /\ pc = "polling" /\ current \in Queues
  BY InflightIsOurs DEF Types
<1>2. PICK s \in Slots(current) :
        /\ Ours(s) /\ WorkedOn(current, s)
        /\ inflight = {f} /\ f.k = current /\ f.c = sqe[current][s]
        /\ f = [k |-> f.k, c |-> f.c, todo |-> f.todo]
        /\ f.todo \subseteq 0 .. PAGE_BLOCKS - 1
        /\ f.todo \subseteq IF current = "io" THEN 0 .. req.n - 1 ELSE {}
  BY InflightIsOurs
<1>3. /\ current = "io" /\ b \in 0 .. req.n - 1 /\ b \in 0 .. PAGE_BLOCKS - 1
      /\ f.todo \subseteq 0 .. req.n - 1
  BY <1>1, <1>2 DEF Queues
<1>4. /\ req \in Request /\ req.lba + req.n - 1 \in Blocks
      /\ f.c.r = req /\ f.c.opc = req.op /\ f.c.prp = aligned_buffer
      /\ aligned_buffer \in Pages
  BY <1>2, <1>3 DEF Ours
<1>5. req.op \in {"read", "write"} /\ req.lba + b \in Blocks
  <2>1. req.lba + b \in Blocks
    BY <1>3, <1>4, InsideDisk
  <2>2. req.op \in {"read", "write"}
    BY <1>4, RequestOK
  <2> QED BY <2>1, <2>2
<1>6. /\ UNCHANGED <<driver, cqe, ready, created, dq>>
      /\ inflight' = {[k |-> f.k, c |-> f.c, todo |-> f.todo \ {b}]}
  <2>1. inflight' = (inflight \ {f}) \cup {[f EXCEPT !.todo = @ \ {b}]}
    BY DEF Transfer
  <2>2. [f EXCEPT !.todo = @ \ {b}] = [k |-> f.k, c |-> f.c, todo |-> f.todo \ {b}]
    <3>1. PICK k, c, todo : f = [k |-> k, c |-> c, todo |-> todo]
      BY <1>2
    <3> QED BY <3>1
  <2>3. UNCHANGED <<driver, cqe, ready, created, dq>>
    BY DEF Transfer
  <2> QED BY <1>2, <2>1, <2>2, <2>3
<1>7. /\ req.op = "write" => disk' = [disk EXCEPT ![req.lba + b] = page[aligned_buffer][b]]
                             /\ page' = page
      /\ req.op = "read" => page' = [page EXCEPT ![aligned_buffer][b] = disk[req.lba + b]]
                            /\ disk' = disk
  BY <1>4 DEF Transfer
<1>8. page' \in [Pages -> [0 .. PAGE_BLOCKS - 1 -> Val]] /\ disk' \in [Blocks -> Val]
  <2>1. page[aligned_buffer][b] \in Val /\ disk[req.lba + b] \in Val
    BY <1>1, <1>3, <1>4, <1>5 DEF Types
  <2>2. CASE req.op = "write"
    BY <1>1, <1>7, <2>1, <2>2 DEF Types
  <2>3. CASE req.op = "read"
    <3> DEFINE new == [page[aligned_buffer] EXCEPT ![b] = disk[req.lba + b]]
    <3>1. new \in [0 .. PAGE_BLOCKS - 1 -> Val]
      BY <1>1, <1>3, <1>4, <2>1 DEF Types
    <3>2. page' = [page EXCEPT ![aligned_buffer] = new]
      BY <1>7, <2>3
    <3> HIDE DEF new
    <3> QED BY <1>1, <1>7, <2>3, <3>1, <3>2 DEF Types
  <2> QED BY <1>5, <2>2, <2>3
<1>9. Types'
  BY <1>1, <1>6, <1>8 DEF Types, driver
<1>10. WorkedOn(current, s)'
  <2>1. PICK todo : todo = f.todo \ {b}
    OBVIOUS
  <2>2. /\ todo \in SUBSET (0 .. PAGE_BLOCKS - 1)
        /\ todo \subseteq IF current' = "io" THEN 0 .. req'.n - 1 ELSE {}
    BY <1>2, <1>3, <1>6, <2>1 DEF driver
  <2>3. inflight' = {[k |-> current', c |-> sqe'[current'][s], todo |-> todo]}
    BY <1>2, <1>6, <2>1 DEF driver
  <2>4. current' = current
    BY <1>6 DEF driver
  <2> QED BY <1>2, <1>6, <2>2, <2>3, <2>4 DEF WorkedOn, UnderWay, Lap, driver
<1>11. AtWork'
  <2>1. Ours(s)'
    BY <1>2, <1>6 DEF Ours, driver
  <2>2. \A k \in Queues : k # current => AtRest(k)'
    BY <1>1, <1>6 DEF AtWork, AtRest, Lap, driver
  <2> QED BY <1>1, <1>6, <1>10, <2>1, <2>2 DEF AtWork, driver
<1>12. NvmeInv'
  BY <1>1, <1>6, <1>9, <1>11 DEF NvmeInv, driver
<1>13. /\ Todo = f.todo /\ Todo' = f.todo \ {b}
  <2>1. dq["io"].sqhd = sqtdbl["io"] /\ dq'["io"].sqhd = sqtdbl'["io"]
    BY <1>2, <1>3, <1>6 DEF WorkedOn, UnderWay, driver
  <2>2. req # NoReq /\ req' # NoReq /\ pc = "polling" /\ pc' = "polling"
    BY <1>1, <1>4, <1>6, NvmeAssumption DEF driver
  <2>3. UNION {g.todo : g \in inflight} = f.todo
    BY <1>2
  <2>4. UNION {g.todo : g \in inflight'} = f.todo \ {b}
    BY <1>6
  <2> QED BY <2>1, <2>2, <2>3, <2>4 DEF Todo
<1>14. req.op = "write" => page[aligned_buffer][b] = req.data[b]
  BY <1>1, <1>3 DEF DataInv
<1>15. DataInv'
  <2> SUFFICES ASSUME NEW c \in 0 .. req.n - 1
               PROVE  /\ req.op = "write" => page'[aligned_buffer][c] = req.data[c]
                      /\ req.op = "read" /\ c \notin Todo' =>
                           page'[aligned_buffer][c] = disk'[req.lba + c]
    BY <1>6 DEF DataInv, driver
  <2>1. /\ req.op = "write" => page[aligned_buffer][c] = req.data[c]
        /\ req.op = "read" /\ c \notin Todo => page[aligned_buffer][c] = disk[req.lba + c]
    BY <1>1, <1>3 DEF DataInv
  <2>2. CASE req.op = "write"
    BY <1>7, <2>1, <2>2
  <2>3. CASE req.op = "read"
    <3>1. page'[aligned_buffer] = [page[aligned_buffer] EXCEPT ![b] = disk[req.lba + b]]
      BY <1>1, <1>4, <1>7, <2>3 DEF Types
    <3>2. page[aligned_buffer] \in [0 .. PAGE_BLOCKS - 1 -> Val]
      BY <1>1, <1>4 DEF Types
    <3>3. CASE c = b
      BY <1>3, <1>7, <2>3, <3>1, <3>2, <3>3
    <3>4. CASE c # b
      <4>1. page'[aligned_buffer][c] = page[aligned_buffer][c]
        BY <3>1, <3>4
      <4> QED BY <1>7, <1>13, <2>1, <2>3, <3>4, <4>1
    <3> QED BY <3>3, <3>4
  <2> QED BY <1>5, <2>2, <2>3
<1> QED BY <1>4, <1>5, <1>7, <1>12, <1>13, <1>14, <1>15

(* The completion is posted where the driver looks for it.                 *)
LEMMA CompleteKeeps ==
  ASSUME NvmeInv, DataInv, NEW f \in inflight, Complete(f)
  PROVE  /\ NvmeInv' /\ DataInv'
         /\ Todo' = Todo
<1>1. Types /\ AtWork /\ pc = "polling" /\ current \in Queues
  BY InflightIsOurs DEF Types
<1>2. PICK s \in Slots(current) :
        /\ Ours(s) /\ WorkedOn(current, s)
        /\ inflight = {f} /\ f.k = current /\ f.c = sqe[current][s]
  BY InflightIsOurs
<1>3. PICK k, tl, ph : k = current /\ tl = Advance(k, s) /\ ph = q[k].phase
  OBVIOUS
<1> k \in Queues
  BY <1>1, <1>3
<1>4. s \in Slots(k) /\ s \in Nat /\ ph \in {0, 1}
  BY <1>1, <1>2, <1>3, SizeOK DEF Types, Slots
<1>5. /\ tl \in Slots(k) /\ tl \in Nat
      /\ \/ tl = s + 1 /\ s + 1 < Size[k]
         \/ tl = 0 /\ s = Size[k] - 1
  BY <1>3, <1>4, AdvanceOK, SizeOK DEF Slots
<1>6. /\ dq[k].cqtl = s /\ dq[k].sqhd = tl /\ dq[k].phase = Flip(ph)
      /\ q[k].tail = tl /\ sqtdbl[k] = tl /\ cqhdbl[k] = s /\ q[k].head = s
      /\ left_commands = 1 /\ Lap(k, s)
  BY <1>2, <1>3 DEF WorkedOn, UnderWay
<1>7. /\ f.todo = {} /\ inflight' = {}
      /\ cqe' = [cqe EXCEPT ![k][s] = [phase |-> Flip(ph), cid |-> sqe[k][s].cid]]
      /\ dq' = [dq EXCEPT ![k] = [sqhd |-> tl, cqtl |-> tl,
                                  phase |-> IF tl = 0 THEN 1 - Flip(ph) ELSE Flip(ph)]]
      /\ created' \subseteq created \cup {"io"}
      /\ UNCHANGED <<driver, ready, disk, page>>
  BY <1>2, <1>3, <1>6 DEF Complete
<1>8. 1 - Flip(ph) = ph /\ Flip(ph) \in {0, 1}
  BY <1>4 DEF Flip
<1>9. /\ dq'[k] = [sqhd |-> tl, cqtl |-> tl, phase |-> IF tl = 0 THEN ph ELSE Flip(ph)]
      /\ \A j \in Queues : j # k => dq'[j] = dq[j]
      /\ dq' \in [Queues -> [sqhd : Nat, cqtl : Nat, phase : {0, 1}]]
  BY <1>1, <1>4, <1>5, <1>7, <1>8 DEF Types
<1>10. /\ DOMAIN cqe' = Queues /\ \A j \in Queues : DOMAIN cqe'[j] = Slots(j)
       /\ \A j \in Queues : j # k => cqe'[j] = cqe[j]
       /\ \A t \in Slots(k) : t # s => cqe'[k][t] = cqe[k][t]
       /\ cqe'[k][s] = [phase |-> Flip(ph), cid |-> sqe[k][s].cid]
  BY <1>1, <1>4, <1>7 DEF Types
<1>11. Types'
  <2>1. created' \subseteq Queues
    BY <1>1, <1>7 DEF Types, Queues
  <2> QED BY <1>1, <1>7, <1>9, <1>10, <2>1 DEF Types, driver
<1>12. Lap(k, s + 1)'
  <2> SUFFICES ASSUME NEW t \in Slots(k)
               PROVE  cqe'[k][t].phase = IF t < s + 1 THEN Flip(ph) ELSE ph
    BY <1>3, <1>7 DEF Lap, driver
  <2>1. cqe[k][t].phase = IF t < s THEN Flip(ph) ELSE ph
    BY <1>3, <1>6 DEF Lap
  <2>2. CASE t = s
    BY <1>4, <1>10, <2>2
  <2>3. CASE t # s
    <3>1. t \in Nat /\ (t < s + 1 <=> t < s)
      BY <1>4, <2>3, SizeOK DEF Slots
    <3> QED BY <1>10, <2>1, <2>3, <3>1
  <2> QED BY <2>2, <2>3
<1>13. Posted(k, s)'
  <2>1. (cqe'[k][s].cid + 1) % CID_MOD = next_command_id'
    BY <1>2, <1>3, <1>7, <1>10 DEF Ours, driver
  <2> QED BY <1>3, <1>6, <1>7, <1>9, <1>12, <2>1 DEF Posted, UnderWay, driver
<1>14. AtWork'
  <2>1. Ours(s)'
    BY <1>2, <1>7 DEF Ours, driver
  <2>2. \A j \in Queues : j # k => AtRest(j)'
    BY <1>1, <1>3, <1>7, <1>9, <1>10 DEF AtWork, AtRest, Lap, driver
  <2> QED BY <1>1, <1>3, <1>4, <1>7, <1>13, <2>1, <2>2 DEF AtWork, driver
<1>15. NvmeInv'
  BY <1>1, <1>7, <1>11, <1>14 DEF NvmeInv, driver
<1>16. Todo' = Todo
  <2>1. UNION {g.todo : g \in inflight} = {} /\ UNION {g.todo : g \in inflight'} = {}
    BY <1>2, <1>7
  <2>2. CASE k = "io"
    BY <1>1, <1>6, <1>7, <1>9, <2>1, <2>2 DEF Todo, driver
  <2>3. CASE k = "admin"
    BY <1>2, <1>3, <1>7, <2>3 DEF Todo, Ours, driver
  <2> QED BY <2>2, <2>3 DEF Queues
<1>17. DataInv'
  BY <1>7, <1>16 DEF DataInv, driver
<1> QED BY <1>15, <1>16, <1>17

-----------------------------------------------------------------------------
(* The invariant, and what follows from it.                                *)

(* While no call is under way, nothing is left to move.                    *)
LEMMA NothingToDo == req = NoReq => Todo = {}
BY DEF Todo

(* The doorbell and the poll move no data.                                 *)
LEMMA DriverMovesNoData ==
  ASSUME NvmeInv, DataInv, RingDoorbell \/ Poll
  PROVE  DataInv' /\ Todo' = Todo /\ UNCHANGED <<disk, req, answer>>
<1>1. CASE Poll
  <2>1. Todo' = Todo
    BY <1>1 DEF Poll, Todo, controller
  <2> QED BY <1>1, <2>1 DEF Poll, DataInv, controller
<1>2. CASE RingDoorbell
  <2>1. pc = "filled" /\ Types /\ AtRest(current) /\ Ours(q[current].tail) /\ AtWork
    BY <1>2 DEF NvmeInv, RingDoorbell, AtWork, Types
  <2>2. Todo' = Todo
    <3>1. CASE current = "admin"
      BY <1>2, <2>1, <3>1 DEF Ours, RingDoorbell, Todo
    <3>2. CASE current = "io"
      <4>1. PICK s, tail : s = q["io"].tail /\ tail = Advance("io", s)
        OBVIOUS
      <4>2. s \in Slots("io") /\ tail # s
        <5>1. "io" \in Queues /\ s \in Slots("io")
          BY <2>1, <3>2, <4>1 DEF Types
        <5>2. s \in Nat
          BY <5>1, SizeOK DEF Slots
        <5> QED BY <4>1, <5>1, <5>2, AdvanceOK, SizeOK
      <4>3. sqtdbl'["io"] = tail /\ dq'["io"].sqhd = s /\ req' = req
        BY <1>2, <2>1, <3>2, <4>1 DEF RingDoorbell, Types, AtRest, controller
      <4> QED BY <1>2, <2>1, <4>2, <4>3 DEF Todo
    <3> QED BY <2>1, <3>1, <3>2 DEF Types, Queues
  <2> QED BY <1>2, <2>1, <2>2 DEF RingDoorbell, DataInv, controller
<1> QED BY <1>1, <1>2

(* Where nvme_init is, and between two calls, there is no request.         *)
LEMMA OutsideCalls ==
  ASSUME NvmeInv,
         InitFails \/ InitQueues \/ Configure \/ Enabled \/ AdminCommand \/ InService
           \/ Reset \/ Start
  PROVE  /\ req = NoReq /\ DataInv'
         /\ UNCHANGED <<disk, req, answer>> /\ Todo' = Todo
<1>1. req = NoReq
  <2>1. CASE InitFails \/ InitQueues \/ Configure \/ Enabled
    BY <2>1 DEF InitFails, InitQueues, Configure, Disabled, Enabled, NvmeInv, SetUp
  <2>2. CASE AdminCommand \/ InService
    BY <2>2 DEF AdminCommand, InService, NvmeInv, AtWork
  <2>3. CASE Reset \/ Start
    <3>1. ~AtWork
      BY <2>3 DEF Reset, Start, AtWork
    <3> QED BY <3>1 DEF NvmeInv, Types, SetUp
  <2> QED BY <2>1, <2>2, <2>3
<1>2. UNCHANGED <<disk, req, answer>>
  BY DEF InitFails, InitQueues, Configure, Enabled, AdminCommand, InService, Reset, Start,
         controller, driver
<1>3. DataInv'
  <2>1. CASE InitFails \/ InitQueues \/ Configure \/ Enabled \/ AdminCommand \/ InService
    BY <2>1 DEF InitFails, InitQueues, Configure, Enabled, AdminCommand, InService,
                PutCommand, DataInv
  <2>2. CASE Reset \/ Start
    <3>1. ~AtWork
      BY <2>2 DEF Reset, Start, AtWork
    <3> QED BY <2>2, <3>1 DEF NvmeInv, Reset, Start, DataInv, driver
  <2> QED BY <2>1, <2>2
<1>4. Todo' = Todo
  <2>1. Todo = {}
    BY <1>1, NothingToDo
  <2>2. Todo' = {}
    BY <1>1, <1>2 DEF Todo
  <2> QED BY <2>1, <2>2
<1> QED BY <1>1, <1>2, <1>3, <1>4

(* Every step of driver and controller keeps them in step.                 *)
LEMMA NextKeeps == NvmeInv /\ DataInv /\ [Next]_vars => NvmeInv' /\ DataInv'
<1> SUFFICES ASSUME NvmeInv, DataInv, [Next]_vars PROVE NvmeInv' /\ DataInv'
  OBVIOUS
<1>1. CASE InitFails \/ InitQueues \/ Configure \/ Enabled \/ AdminCommand \/ InService
             \/ Reset \/ Start
  BY <1>1, OutsideCalls, InitQueuesKeeps, EnableKeeps, AdminCommandKeeps, InServiceKeeps,
     ResetStartKeeps
<1>2. CASE StartIo
  BY <1>2, StartIoKeeps
<1>3. CASE RingDoorbell \/ Poll
  BY <1>3, RingDoorbellKeeps, PollKeeps, DriverMovesNoData
<1>4. CASE Finish
  BY <1>4, FinishKeeps DEF Finish, DataInv
<1>5. ASSUME NEW k \in Queues, Fetch(k) PROVE NvmeInv' /\ DataInv'
  BY <1>5, FetchKeeps
<1>6. ASSUME NEW f \in inflight, NEW b \in f.todo, Transfer(f, b) PROVE NvmeInv' /\ DataInv'
  BY <1>6, TransferKeeps
<1>7. ASSUME NEW f \in inflight, Complete(f) PROVE NvmeInv' /\ DataInv'
  BY <1>7, CompleteKeeps
<1>8. CASE UNCHANGED vars
  <2>1. UNCHANGED driver /\ UNCHANGED controller /\ UNCHANGED page
    BY <1>8 DEF vars
  <2>2. Types'
    BY <2>1 DEF NvmeInv, Types, driver, controller
  <2>3. SetUp => SetUp'
    BY <2>1 DEF SetUp, Lap, driver, controller
  <2>4. AtWork => AtWork'
    <3>1. \A k \in Queues : AtRest(k) => AtRest(k)'
      BY <2>1 DEF AtRest, Lap, driver, controller
    <3>2. \A s : Ours(s) => Ours(s)'
      BY <2>1 DEF Ours, driver
    <3>4. \A k, s : /\ UnderWay(k, s) => UnderWay(k, s)'
                    /\ Lap(k, s) => Lap(k, s)'
      BY <2>1 DEF UnderWay, Lap, driver, controller
    <3>5. \A k, s : /\ Waiting(k, s) => Waiting(k, s)'
                    /\ WorkedOn(k, s) => WorkedOn(k, s)'
      BY <2>1, <3>4 DEF Waiting, WorkedOn, driver, controller
    <3>6. \A k, s : /\ Posted(k, s) => Posted(k, s)'
                    /\ Taken(k, s) => Taken(k, s)'
      <4> TAKE k, s
      <4>1. Lap(k, s + 1) => Lap(k, s + 1)'
        BY <2>1 DEF Lap, driver, controller
      <4>2. Lap(k, q[k].tail) => Lap(k, q[k].tail)'
        BY <2>1 DEF Lap, driver, controller
      <4> QED BY <2>1, <3>4, <4>1, <4>2 DEF Posted, Taken, driver, controller
    <3>7. UNCHANGED <<pc, en, ready, inflight, req, aligned_buffer, current, q>>
      BY <2>1 DEF driver, controller
    <3> QED BY <3>1, <3>2, <3>5, <3>6, <3>7 DEF AtWork
  <2>5. DataInv'
    BY <2>1 DEF DataInv, Todo, driver, controller
  <2> QED BY <2>1, <2>2, <2>3, <2>4, <2>5 DEF NvmeInv, driver
<1> QED BY <1>1, <1>2, <1>3, <1>4, <1>5, <1>6, <1>7, <1>8
        DEF Next, Driver, Controller, Ignored, Spin

(* Driver and controller stand to each other as NvmeInv says, always.      *)
THEOREM NvmeInvariance == Spec => [](NvmeInv /\ DataInv)
BY InitInv, NextKeeps, PTL DEF Spec

(* Indices stay in the rings, the driver takes its own completion and no   *)
(* other, and the controller moves data in held pages only: for rings of   *)
(* any size, and however the identifiers wrap                              *)
(* (nvme_do_one_cmd_synchronous).                                          *)
THEOREM DriverInStep == Spec => []InStep
<1>1. NvmeInv => TypeOK
  <2> SUFFICES ASSUME NvmeInv PROVE TypeOK
    OBVIOUS
  <2>1. Types
    BY DEF NvmeInv
  <2>2. inflight = {} \/ \E f : inflight = {f}
    BY <2>1, InflightIsOurs
  <2>3. Cardinality(inflight) \in Nat /\ Cardinality(inflight) <= 1
    BY <2>2, FS_EmptySet, FS_Singleton
  <2> QED BY <2>1, <2>3 DEF Types, TypeOK
<1>2. NvmeInv => CompletionIsOurs
  <2> SUFFICES ASSUME NvmeInv, pc = "polling", left_commands = 0 PROVE CompletionIsOurs
    BY DEF CompletionIsOurs
  <2>1. PICK s \in Slots(current) : Taken(current, s)
    BY DEF NvmeInv, AtWork, Waiting, WorkedOn, Posted
  <2> QED BY <2>1 DEF Taken, UnderWay, CompletionIsOurs
<1>3. NvmeInv => DmaIntoHeldPage
  <2> SUFFICES ASSUME NvmeInv, NEW f \in inflight
               PROVE  f.c.prp = aligned_buffer /\ pc = "polling"
    BY DEF DmaIntoHeldPage
  <2> QED BY InflightIsOurs DEF Ours
<1> QED BY <1>1, <1>2, <1>3, NvmeInvariance, PTL DEF InStep

(* nvme_read and nvme_write implement the block store that dzFS is written *)
(* against: each call moves its blocks once, changes no other block, and a *)
(* read returns what the disk held.                                        *)
THEOREM DriverImplementsStore == Spec => ImplementsStore
<1>1. Init => Store!StoreInit
  BY NothingToDo DEF Init, Store!StoreInit
<1>2. NvmeInv /\ DataInv /\ [Next]_vars => [Store!StoreNext]_(Store!storeVars)
  <2> SUFFICES ASSUME NvmeInv, DataInv, [Next]_vars
               PROVE  Store!StoreNext \/ UNCHANGED <<disk, req, Todo, answer>>
    BY DEF Store!storeVars
  <2>1. CASE InitFails \/ InitQueues \/ Configure \/ Enabled \/ AdminCommand \/ InService
               \/ Reset \/ Start
    BY <2>1, OutsideCalls
  <2>2. CASE StartIo
    <3>1. req = NoReq
      BY <2>2 DEF StartIo, NvmeInv, AtWork
    <3>2. PICK r \in Request : req' = r /\ r.lba + r.n - 1 \in Blocks
      BY <2>2 DEF StartIo
    <3>3. Todo' = 0 .. r.n - 1
      BY <2>2, <3>2, NvmeAssumption DEF StartIo, Todo
    <3>4. Store!Begin(r) /\ r \in Store!Request
      BY <2>2, <3>1, <3>2, <3>3 DEF StartIo, controller, Store!Begin, Store!InRange,
                                    Request, Store!Request
    <3> QED BY <3>4 DEF Store!StoreNext
  <2>3. CASE RingDoorbell \/ Poll
    BY <2>3, DriverMovesNoData
  <2>4. CASE Finish
    <3>1. pc = "polling" /\ left_commands = 0 /\ Types
      BY <2>4 DEF Finish, NvmeInv
    <3>2. PICK s \in Slots(current) : Ours(s) /\ Taken(current, s)
      BY <3>1 DEF NvmeInv, AtWork, Waiting, WorkedOn, Posted
    <3>3. CASE current = "admin"
      <4>1. req = NoReq /\ UNCHANGED <<disk, req, answer>>
        BY <2>4, <3>2, <3>3 DEF Finish, Ours, controller
      <4>2. Todo = {} /\ Todo' = {}
        BY <4>1 DEF Todo
      <4> QED BY <4>1, <4>2
    <3>4. CASE current = "io"
      <4>1. req # NoReq /\ req' = NoReq /\ disk' = disk
        BY <2>4, <3>2, <3>4, NvmeAssumption DEF Finish, Ours, controller
      <4>2. Todo = {}
        <5>1. dq["io"].sqhd = sqtdbl["io"] /\ inflight = {}
          BY <3>2, <3>4 DEF Taken, UnderWay
        <5>2. UNION {f.todo : f \in inflight} = {}
          BY <5>1
        <5> QED BY <3>1, <5>1, <5>2 DEF Todo
      <4>3. Todo' = {}
        BY <4>1 DEF Todo
      <4>4. answer' = IF req.op = "read"
                      THEN [b \in 0 .. req.n - 1 |-> disk[req.lba + b]] ELSE answer
        <5>1. answer' = IF req.op = "read"
                        THEN [b \in 0 .. req.n - 1 |-> page[aligned_buffer][b]] ELSE answer
          BY <2>4, <3>4 DEF Finish
        <5>2. \A b \in 0 .. req.n - 1 :
                req.op = "read" => page[aligned_buffer][b] = disk[req.lba + b]
          BY <3>1, <3>4, <4>2 DEF DataInv
        <5> QED BY <5>1, <5>2
      <4> QED BY <4>1, <4>2, <4>3, <4>4 DEF Store!Return, Store!StoreNext
    <3> QED BY <3>1, <3>3, <3>4 DEF Types, Queues
  <2>5. ASSUME NEW k \in Queues, Fetch(k) PROVE UNCHANGED <<disk, req, Todo, answer>>
    BY <2>5, FetchKeeps DEF Fetch, driver
  <2>6. ASSUME NEW f \in inflight, NEW b \in f.todo, Transfer(f, b) PROVE Store!StoreNext
    <3>1. Store!Move(b) /\ b \in Todo
      BY <2>6, TransferKeeps, NvmeAssumption DEF Transfer, driver, Store!Move
    <3> QED BY <3>1 DEF Store!StoreNext
  <2>7. ASSUME NEW f \in inflight, Complete(f) PROVE UNCHANGED <<disk, req, Todo, answer>>
    BY <2>7, CompleteKeeps DEF Complete, driver
  <2>8. CASE UNCHANGED vars
    BY <2>8 DEF vars, driver, controller, Todo
  <2> QED BY <2>1, <2>2, <2>3, <2>4, <2>5, <2>6, <2>7, <2>8
          DEF Next, Driver, Controller, Ignored, Spin
<1> QED BY <1>1, <1>2, NvmeInvariance, PTL DEF Spec, ImplementsStore, Store!StoreSpec
=============================================================================
