-------------------------- MODULE ProcTableProofs --------------------------
(***************************************************************************)
(* Proofs about the process table, for every number of slots, of pages and *)
(* of pids.  The invariants of ProcTable are not inductive one by one:     *)
(* proc_allocate keeps the table packed only because process_min_index     *)
(* never passes a free slot, coelesce_processes only because every struct  *)
(* knows its slot, and a freed kernel stack is the right one only because  *)
(* no two processes were born in the same slot.  Inv is their conjunction. *)
(***************************************************************************)
EXTENDS ProcTable, TLAPS

Inv ==
  /\ TypeOK
  /\ Packed
  /\ IndexIsSlot
  /\ NoFreeSlotBelowMin
  /\ StacksOwned

(* A step leaves q as it is, but that it may move towards slot 0.          *)
OnlyMoves(q) ==
  /\ proc'[q].orig_i = proc[q].orig_i
  /\ proc'[q].pid = proc[q].pid
  /\ proc'[q].state = proc[q].state
  /\ proc'[q].i <= proc[q].i

(* The search of proc_allocate ends at the end of the packed table, so the *)
(* test orig_i == process_count (proc.c:104) always succeeds.              *)
LEMMA AllocatesAtCount ==
  ASSUME Inv, NEW s \in Slots, FirstFree(s)
  PROVE  s = process_count
<1> USE TableAssumption DEF Slots
<1>1. process_count \in Nat /\ process_count <= s
  BY DEF Inv, TypeOK, Packed, FirstFree
<1>2. CASE s = 0
  BY <1>1, <1>2
<1>3. CASE s # 0
  <2>1. \A t \in Slots : t < s => processes[t] # NULL
    BY <1>3 DEF FirstFree, Inv, NoFreeSlotBelowMin, TypeOK
  <2>2. ~(process_count < s)
    BY <1>1, <2>1 DEF Inv, Packed
  <2> QED BY <1>1, <2>2
<1> QED BY <1>2, <1>3

(* A struct that is in the table is in the slot it says, and nowhere else. *)
LEMMA SlotOfProcess ==
  ASSUME Inv, NEW p \in Proc, InTable(p)
  PROVE  /\ proc[p].i \in Slots
         /\ processes[proc[p].i] = p
         /\ proc[p].i < process_count
         /\ \A s \in Slots : processes[s] = p => s = proc[p].i
<1> USE TableAssumption
<1>1. PICK s \in Slots : processes[s] = p
  BY DEF InTable
<1>2. processes[s] # NULL
  BY <1>1
<1>3. proc[p].i = s
  BY <1>1, <1>2 DEF Inv, IndexIsSlot
<1>4. \A t \in Slots : processes[t] = p => t = proc[p].i
  BY DEF Inv, IndexIsSlot
<1> QED BY <1>1, <1>2, <1>3, <1>4 DEF Inv, Packed

-----------------------------------------------------------------------------
(* What coelesce_processes computes on a packed table: everything above    *)
(* the hole moves down by one and the last occupied slot becomes free.     *)
LEMMA CoalesceShifts ==
  ASSUME Inv, NEW i \in Slots, i < process_count
  PROVE  /\ \A s \in Slots : MovesInto(i, s) <=> (i <= s /\ s + 1 < process_count)
         /\ \A s \in Slots :
              CoalescedTable(i)[s] = IF s < i THEN processes[s]
                                     ELSE IF s + 1 < process_count THEN processes[s + 1]
                                     ELSE NULL
<1> USE TableAssumption DEF Slots
<1>0. process_count \in Nat /\ process_count <= MAX_PROCESSES
  BY DEF Inv, TypeOK
<1>1. \A s \in Int : MovesInto(i, s) <=> (i <= s /\ s + 1 < process_count)
  BY <1>0 DEF MovesInto, Inv, Packed
<1>2. ASSUME NEW s \in Slots
      PROVE  CoalescedTable(i)[s] = IF s < i THEN processes[s]
                                    ELSE IF s + 1 < process_count THEN processes[s + 1]
                                    ELSE NULL
  <2>1. MovesInto(i, s) <=> (i <= s /\ s + 1 < process_count)
    BY <1>1
  <2>2. MovesInto(i, s - 1) <=> (i <= s - 1 /\ s < process_count)
    <3>1. s - 1 \in Int /\ (s - 1) + 1 = s
      OBVIOUS
    <3> QED BY <1>1, <3>1
  <2>3. CoalescedTable(i)[s] = IF MovesInto(i, s) THEN processes[s + 1]
                               ELSE IF s = i \/ MovesInto(i, s - 1) THEN NULL
                               ELSE processes[s]
    BY DEF CoalescedTable
  <2>4. s >= process_count => processes[s] = NULL
    BY <1>0 DEF Inv, Packed
  <2> QED BY <2>1, <2>2, <2>3, <2>4, <1>0
<1>3. \A s \in Slots : s \in Int
  OBVIOUS
<1> QED BY <1>1, <1>2, <1>3

(* What the move does to the structs: those above the hole get their new   *)
(* index, the others keep their fields.                                    *)
LEMMA CoalesceRelocates ==
  ASSUME Inv, NEW p \in Proc, InTable(p), NEW q \in Proc, q # p
  PROVE  CoalescedProc(proc[p].i, p)[q] =
           IF InTable(q) /\ proc[q].i > proc[p].i
           THEN [proc[q] EXCEPT !.i = proc[q].i - 1]
           ELSE proc[q]
<1> USE TableAssumption DEF Slots
<1> DEFINE i == proc[p].i
           Src(s) == MovesInto(i, s) /\ processes[s + 1] = q
<1>0. process_count \in Nat /\ process_count <= MAX_PROCESSES
  BY DEF Inv, TypeOK
<1>1. i \in Slots /\ i < process_count /\ processes[i] = p
  BY SlotOfProcess
<1>2. \A s \in Slots : MovesInto(i, s) <=> (i <= s /\ s + 1 < process_count)
  BY <1>1, CoalesceShifts
<1>3. CoalescedProc(i, p)[q] = IF \E s \in Slots : Src(s)
                               THEN Relocated(proc[q], CHOOSE s \in Slots : Src(s))
                               ELSE proc[q]
  BY DEF CoalescedProc
<1>4. CASE InTable(q) /\ proc[q].i > i
  <2>1. /\ proc[q].i \in Slots /\ processes[proc[q].i] = q /\ proc[q].i < process_count
        /\ \A s \in Slots : processes[s] = q => s = proc[q].i
    BY <1>4, SlotOfProcess
  <2>2. proc[q].i - 1 \in Slots /\ Src(proc[q].i - 1)
    <3>1. proc[q].i - 1 \in Slots /\ i <= proc[q].i - 1 /\ (proc[q].i - 1) + 1 = proc[q].i
      BY <1>1, <1>4, <2>1
    <3> QED BY <1>2, <2>1, <3>1
  <2>3. \A s \in Slots : Src(s) => s = proc[q].i - 1
    <3> SUFFICES ASSUME NEW s \in Slots, Src(s) PROVE s = proc[q].i - 1
      OBVIOUS
    <3>1. s + 1 \in Slots
      BY <1>0, <1>2
    <3> QED BY <2>1, <3>1
  <2>4. (CHOOSE s \in Slots : Src(s)) = proc[q].i - 1
    BY <2>2, <2>3
  <2> HIDE DEF Src
  <2>5. CoalescedProc(i, p)[q] = Relocated(proc[q], proc[q].i - 1)
    BY <1>3, <2>2, <2>4
  <2> QED BY <1>4, <2>5 DEF Relocated
<1>5. CASE ~(InTable(q) /\ proc[q].i > i)
  <2>1. ~ \E s \in Slots : Src(s)
    <3> SUFFICES ASSUME NEW s \in Slots, Src(s) PROVE FALSE
      OBVIOUS
    <3>1. s + 1 \in Slots /\ i <= s
      BY <1>0, <1>2
    <3>2. InTable(q)
      BY <3>1 DEF InTable
    <3>3. proc[q].i = s + 1
      BY <3>1, <3>2, SlotOfProcess
    <3> QED BY <1>1, <1>5, <3>1, <3>2, <3>3
  <2> QED BY <1>3, <1>5, <2>1
<1> QED BY <1>4, <1>5

-----------------------------------------------------------------------------
(* Every way proc_allocate fills a slot keeps the table packed, whatever   *)
(* becomes of the new process afterwards.                                  *)
LEMMA FillKeepsTable ==
  ASSUME Inv, NEW p \in Proc, NEW s \in Slots, MayAllocate(p, s), FillSlot(p, s),
         NEW r \in ProcRecord, r.i = s,
         proc' = [proc EXCEPT ![p] = r],
         \/ \E m \in Slots : NextFreeAbove(s, m) /\ process_min_index' = m
         \/ UNCHANGED process_min_index
  PROVE  /\ processes' \in [Slots -> Proc \cup {NULL}]
         /\ process_count' \in 0 .. MAX_PROCESSES
         /\ process_min_index' \in Slots
         /\ next_pid' \in 1 .. MaxPid + 1
         /\ proc' \in [Proc -> ProcRecord]
         /\ Packed'
         /\ IndexIsSlot'
         /\ NoFreeSlotBelowMin'
         /\ \A q \in Proc : q # p => proc'[q] = proc[q] /\ (InTable(q)' <=> InTable(q))
         /\ InTable(p)' /\ ~InTable(p)
<1> USE TableAssumption
<1>1. s = process_count /\ processes[s] = NULL
  BY AllocatesAtCount DEF MayAllocate, FirstFree
<1>2. process_count \in Nat /\ s < MAX_PROCESSES /\ s \in Nat
  BY <1>1 DEF Inv, TypeOK, Slots
<1>3. /\ processes' = [processes EXCEPT ![s] = p]
      /\ process_count' = process_count + 1
      /\ next_pid' = next_pid + 1
      /\ next_pid <= MaxPid
  BY <1>1 DEF FillSlot, MayAllocate
<1>4. /\ processes' \in [Slots -> Proc \cup {NULL}]
      /\ process_count' \in 0 .. MAX_PROCESSES
      /\ process_min_index' \in Slots
      /\ next_pid' \in 1 .. MaxPid + 1
      /\ proc' \in [Proc -> ProcRecord]
  BY <1>1, <1>2, <1>3 DEF Inv, TypeOK
<1>5. Packed'
  BY <1>1, <1>2, <1>3 DEF Inv, TypeOK, Packed, Slots
<1>6. ~InTable(p) /\ InTable(p)'
  BY <1>3 DEF MayAllocate, InTable, Inv, TypeOK
<1>7. IndexIsSlot'
  <2> SUFFICES ASSUME NEW t \in Slots, processes'[t] # NULL
               PROVE  proc'[processes'[t]].i = t
    BY DEF IndexIsSlot
  <2>1. CASE t = s
    BY <2>1, <1>3 DEF Inv, TypeOK
  <2>2. CASE t # s
    <3>1. processes'[t] = processes[t] /\ processes[t] \in Proc
      BY <2>2, <1>3 DEF Inv, TypeOK
    <3>2. processes[t] # p
      BY <1>6 DEF InTable
    <3> QED BY <3>1, <3>2 DEF Inv, TypeOK, IndexIsSlot
  <2> QED BY <2>1, <2>2
<1>8. NoFreeSlotBelowMin'
  <2> SUFFICES ASSUME NEW t \in Slots, t < process_min_index' PROVE processes'[t] # NULL
    BY DEF NoFreeSlotBelowMin
  <2>1. CASE t = s
    BY <2>1, <1>3 DEF Inv, TypeOK
  <2>2. CASE t < s
    <3>1. processes[t] # NULL
      BY <2>2, <1>1 DEF Inv, Packed
    <3> QED BY <3>1, <1>3, <2>2, <1>2 DEF Inv, TypeOK
  <2>3. CASE t > s
    <3>1. processes[t] # NULL
      BY <2>3 DEF NextFreeAbove, Inv, NoFreeSlotBelowMin
    <3> QED BY <3>1, <1>3, <2>3, <1>2 DEF Inv, TypeOK
  <2> QED BY <2>1, <2>2, <2>3, <1>2 DEF Slots
<1>9. ASSUME NEW q \in Proc, q # p
      PROVE  proc'[q] = proc[q] /\ (InTable(q)' <=> InTable(q))
  <2>1. proc'[q] = proc[q]
    BY <1>9 DEF Inv, TypeOK
  <2>2. \A t \in Slots : processes'[t] = q <=> processes[t] = q
    BY <1>1, <1>3, <1>9 DEF Inv, TypeOK
  <2> QED BY <2>1, <2>2 DEF InTable
<1> QED BY <1>4, <1>5, <1>6, <1>7, <1>8, <1>9

(* A step that changes no slot and no kernel stack, and that changes       *)
(* neither the index nor the ownership of any process, keeps Inv.          *)
LEMMA StateChangeKeepsInv ==
  ASSUME Inv, NEW p \in Proc, NEW from \in ProcState \ {"UNUSED", "USED"},
         NEW to \in ProcState \ {"UNUSED", "USED"}, SetState(p, from, to)
  PROVE  Inv'
<1> USE TableAssumption DEF SetState
<1>1. TypeOK'
  BY DEF Inv, TypeOK, ProcRecord
<1>2. \A q \in Proc : proc'[q].i = proc[q].i /\ proc'[q].orig_i = proc[q].orig_i
  BY DEF Inv, TypeOK, ProcRecord
<1>3. \A q \in Proc : proc'[q].state \notin {"UNUSED", "USED"}
                       <=> proc[q].state \notin {"UNUSED", "USED"}
  BY DEF Inv, TypeOK, ProcRecord
<1>4. Owners' = Owners
  BY <1>3 DEF Owners, InTable
<1>5. \A q \in Owners : proc'[q].orig_i = proc[q].orig_i
  BY <1>2 DEF Owners
<1>6. StacksOwned'
  BY <1>4, <1>5 DEF Inv, StacksOwned
<1>7. IndexIsSlot'
  BY <1>2 DEF Inv, TypeOK, IndexIsSlot
<1> QED BY <1>1, <1>6, <1>7 DEF Inv, Packed, NoFreeSlotBelowMin

-----------------------------------------------------------------------------
(* The four outcomes of proc_exec.  A process becomes an owner only in the *)
(* first, with a stack that nobody owned; the others are not touched.      *)
LEMMA ExecStep ==
  ASSUME Inv, NEW p \in Proc, NEW s \in Slots,
         \/ ExecSucceeds(p, s) \/ ExecFails(p, s)
         \/ ExecHitsLimit(p, s) \/ ExecRemaps(p, s)
  PROVE  /\ Inv'
         /\ s = process_count
         /\ InTable(p)' /\ ~InTable(p)
         /\ \A q \in Proc : q # p => proc'[q] = proc[q] /\ (InTable(q)' <=> InTable(q))
<1> USE TableAssumption
<1>0. MayAllocate(p, s) /\ FillSlot(p, s) /\ next_pid \in 0 .. MaxPid
  <2>1. MayAllocate(p, s) /\ FillSlot(p, s)
    BY Zenon DEF ExecSucceeds, ExecFails, ExecHitsLimit, ExecRemaps
  <2>2. next_pid \in 0 .. MaxPid
    BY <2>1 DEF MayAllocate, Inv, TypeOK
  <2> QED BY <2>1, <2>2
<1>1. PICK r \in ProcRecord :
        /\ r.i = s /\ r.orig_i = s
        /\ proc' = [proc EXCEPT ![p] = r]
        /\ r.state \in {"UNUSED", "USED"} \/ (ExecSucceeds(p, s) /\ r.state = "RUNNABLE")
        /\ ExecSucceeds(p, s) => r.state = "RUNNABLE"
  <2>1. /\ Born(s, "RUNNABLE") \in ProcRecord
        /\ Born(s, "USED") \in ProcRecord
        /\ [Born(s, "UNUSED") EXCEPT !.pid = 0] \in ProcRecord
    BY <1>0 DEF Born, ProcRecord, ProcState
  <2>2. CASE ExecSucceeds(p, s)
    BY <2>1, <2>2 DEF ExecSucceeds, Born
  <2>3. CASE ~ExecSucceeds(p, s) /\ ExecFails(p, s)
    BY <2>1, <2>3 DEF ExecFails, Born
  <2>4. CASE ~ExecSucceeds(p, s) /\ (ExecHitsLimit(p, s) \/ ExecRemaps(p, s))
    BY <2>1, <2>4 DEF ExecHitsLimit, ExecRemaps, Born
  <2> QED BY <2>2, <2>3, <2>4
<1>2. \/ \E m \in Slots : NextFreeAbove(s, m) /\ process_min_index' = m
      \/ UNCHANGED process_min_index
  BY DEF ExecSucceeds, ExecFails, ExecHitsLimit, ExecRemaps
<1>3. /\ processes' \in [Slots -> Proc \cup {NULL}]
      /\ process_count' \in 0 .. MAX_PROCESSES
      /\ process_min_index' \in Slots
      /\ next_pid' \in 1 .. MaxPid + 1
      /\ proc' \in [Proc -> ProcRecord]
      /\ Packed' /\ IndexIsSlot' /\ NoFreeSlotBelowMin'
      /\ \A q \in Proc : q # p => proc'[q] = proc[q] /\ (InTable(q)' <=> InTable(q))
      /\ InTable(p)' /\ ~InTable(p)
  BY <1>0, <1>1, <1>2, FillKeepsTable
<1>4. proc'[p] = r
  BY <1>1 DEF Inv, TypeOK
<1>5. panic' \in PanicReason /\ panic' # "missing PTE"
  BY DEF ExecSucceeds, ExecFails, ExecHitsLimit, ExecRemaps, MayAllocate,
         PanicReason, Inv, TypeOK, Booting
<1>8. s = process_count
  BY <1>0, AllocatesAtCount DEF MayAllocate
<1>6. CASE ExecSucceeds(p, s)
  <2>1. s \notin kstacks /\ kstacks' = kstacks \cup {s}
    BY <1>6 DEF ExecSucceeds
  <2>2. Owners' = Owners \cup {p} /\ p \notin Owners
    BY <1>1, <1>3, <1>4, <1>6 DEF Owners
  <2>3. \A q \in Owners : proc'[q].orig_i = proc[q].orig_i
    BY <1>3, <2>2 DEF Owners
  <2>4. proc'[p].orig_i = s /\ \A q \in Owners : proc[q].orig_i \in Slots
    BY <1>1, <1>4 DEF Inv, TypeOK, ProcRecord, Owners
  <2>5. \A q \in Owners : proc[q].orig_i # s
    BY <2>1 DEF Inv, StacksOwned
  <2>6. StacksOwned'
    <3>1. /\ \A k \in Slots : k \in kstacks <=> \E q \in Owners : proc[q].orig_i = k
          /\ \A q, u \in Owners : proc[q].orig_i = proc[u].orig_i => q = u
      BY DEF Inv, StacksOwned
    <3>2. \A k \in Slots : k \in kstacks' <=> \E q \in Owners' : proc'[q].orig_i = k
      BY <2>1, <2>2, <2>3, <2>4, <3>1
    <3>3. \A q, u \in Owners' : proc'[q].orig_i = proc'[u].orig_i => q = u
      <4> SUFFICES ASSUME NEW q \in Owners', NEW u \in Owners', proc'[q].orig_i = proc'[u].orig_i
                   PROVE  q = u
        OBVIOUS
      <4> QED BY <2>2, <2>3, <2>4, <2>5, <3>1
    <3> QED BY <1>5, <3>2, <3>3 DEF StacksOwned
  <2>7. kstacks' \subseteq Slots
    BY <2>1 DEF Inv, TypeOK
  <2>8. Inv'
    BY <1>3, <1>5, <2>6, <2>7 DEF Inv, TypeOK
  <2> QED BY <1>3, <1>8, <2>8
<1>7. CASE ~ExecSucceeds(p, s)
  <2>1. kstacks' = kstacks
    BY <1>7 DEF ExecFails, ExecHitsLimit, ExecRemaps
  <2>2. Owners' = Owners
    BY <1>1, <1>3, <1>4, <1>7 DEF Owners
  <2>3. \A q \in Owners : proc'[q].orig_i = proc[q].orig_i
    BY <1>3 DEF Owners
  <2>4. StacksOwned'
    <3>1. /\ \A k \in Slots : k \in kstacks <=> \E q \in Owners : proc[q].orig_i = k
          /\ \A q, u \in Owners : proc[q].orig_i = proc[u].orig_i => q = u
      BY DEF Inv, StacksOwned
    <3>2. \A k \in Slots : k \in kstacks' <=> \E q \in Owners' : proc'[q].orig_i = k
      BY <2>1, <2>2, <2>3, <3>1
    <3>3. \A q, u \in Owners' : proc'[q].orig_i = proc'[u].orig_i => q = u
      <4> SUFFICES ASSUME NEW q \in Owners', NEW u \in Owners', proc'[q].orig_i = proc'[u].orig_i
                   PROVE  q = u
        OBVIOUS
      <4> QED BY <2>2, <2>3, <3>1
    <3> QED BY <1>5, <3>2, <3>3 DEF StacksOwned
  <2>5. Inv'
    BY <1>3, <1>5, <2>1, <2>4 DEF Inv, TypeOK
  <2> QED BY <1>3, <1>8, <2>5
<1> QED BY <1>6, <1>7

(* The end of a process.  vmm_free_proc_kernel_stack cannot panic: the     *)
(* stack of the dead process is mapped and is its own.  The dead process   *)
(* is the only one that leaves the table.                                  *)
LEMMA ReclaimStep ==
  ASSUME Inv, NEW p \in Proc, Reclaim(p)
  PROVE  /\ Inv'
         /\ UNCHANGED <<next_pid, panic>>
         /\ \A q \in Proc : InTable(q)' <=> (InTable(q) /\ q # p)
         /\ \A q \in Proc : q # p => OnlyMoves(q)
<1> USE TableAssumption
<1> DEFINE i == proc[p].i
<1>1. InTable(p) /\ proc[p].state = "EXITED" /\ p \in Owners
  BY DEF Reclaim, Owners
<1>2. StackOf(p) \in kstacks
  <2>1. proc[p].orig_i \in Slots
    BY DEF Inv, TypeOK, ProcRecord
  <2> QED BY <1>1, <2>1 DEF StackOf, Inv, StacksOwned
<1>3. /\ kstacks' = kstacks \ {proc[p].orig_i}
      /\ processes' = CoalescedTable(i)
      /\ proc' = CoalescedProc(i, p)
      /\ process_min_index' = MinIndexAfter(i)
      /\ process_count' = process_count - 1
      /\ UNCHANGED <<next_pid, panic>>
  BY <1>2 DEF Reclaim, StackOf, CountAfter
<1>4. /\ i \in Slots /\ i < process_count /\ processes[i] = p
      /\ \A s \in Slots : processes[s] = p => s = i
  BY <1>1, SlotOfProcess
<1>5. \A s \in Slots : processes'[s] = IF s < i THEN processes[s]
                                       ELSE IF s + 1 < process_count THEN processes[s + 1]
                                       ELSE NULL
  BY <1>3, <1>4, CoalesceShifts
<1>6. process_count \in Nat /\ process_count <= MAX_PROCESSES /\ process_count # 0
  BY <1>4 DEF Inv, TypeOK, Slots
<1>7. processes' \in [Slots -> Proc \cup {NULL}]
  <2>1. \A s \in Slots : processes'[s] \in Proc \cup {NULL}
    BY <1>5, <1>6 DEF Inv, TypeOK, Slots
  <2>2. processes' = [s \in Slots |-> processes'[s]]
    BY <1>3 DEF CoalescedTable
  <2> QED BY <2>1, <2>2
<1>8. \A q \in Proc : q # p =>
        proc'[q] = IF InTable(q) /\ proc[q].i > i
                   THEN [proc[q] EXCEPT !.i = proc[q].i - 1] ELSE proc[q]
  BY <1>1, <1>3, CoalesceRelocates
<1>9. proc'[p] = Blank
  BY <1>3 DEF CoalescedProc
<1>10. \A q \in Proc : q # p =>
         /\ proc'[q] \in ProcRecord
         /\ OnlyMoves(q)
  <2> SUFFICES ASSUME NEW q \in Proc, q # p
               PROVE  proc'[q] \in ProcRecord /\ OnlyMoves(q)
    OBVIOUS
  <2>1. proc[q] \in ProcRecord
    BY DEF Inv, TypeOK
  <2>2. CASE InTable(q) /\ proc[q].i > i
    <3>1. proc[q].i - 1 \in Slots
      BY <1>4, <2>1, <2>2 DEF Slots, ProcRecord
    <3>2. proc'[q] = [proc[q] EXCEPT !.i = proc[q].i - 1]
      BY <1>8, <2>2
    <3> QED BY <2>1, <3>1, <3>2 DEF ProcRecord, OnlyMoves, Slots
  <2>3. CASE ~(InTable(q) /\ proc[q].i > i)
    <3>1. proc'[q] = proc[q]
      BY <1>8, <2>3
    <3>2. proc[q].i <= proc[q].i
      BY <2>1 DEF ProcRecord, Slots
    <3> QED BY <2>1, <3>1, <3>2 DEF OnlyMoves
  <2> QED BY <2>2, <2>3
<1>11. proc' \in [Proc -> ProcRecord]
  <2>1. Blank \in ProcRecord
    BY DEF Blank, ProcRecord, ProcState, Slots
  <2>2. proc' = [q \in Proc |-> proc'[q]]
    BY <1>3 DEF CoalescedProc
  <2> QED BY <1>9, <1>10, <2>1, <2>2
<1>12. Packed'
  BY <1>3, <1>4, <1>5, <1>6 DEF Packed, Inv, TypeOK, Slots
<1>13. IndexIsSlot'
  <2> SUFFICES ASSUME NEW s \in Slots, processes'[s] # NULL
               PROVE  proc'[processes'[s]].i = s
    BY DEF IndexIsSlot
  <2>1. CASE s < i
    <3> DEFINE q == processes[s]
    <3>1. processes'[s] = q /\ q \in Proc /\ q # p
      BY <1>4, <1>5, <2>1 DEF Inv, TypeOK, Slots
    <3>2. proc[q].i = s
      BY <3>1 DEF Inv, IndexIsSlot
    <3>3. ~(proc[q].i > i)
      BY <1>4, <2>1, <3>2 DEF Slots
    <3> QED BY <1>8, <3>1, <3>2, <3>3
  <2>2. CASE ~(s < i)
    <3> DEFINE q == processes[s + 1]
    <3>1. s + 1 \in Slots /\ s + 1 < process_count /\ processes'[s] = q
      BY <1>5, <1>6, <2>2 DEF Slots
    <3>2. q \in Proc /\ InTable(q)
      BY <3>1 DEF Inv, TypeOK, InTable
    <3>3. proc[q].i = s + 1 /\ q # p
      BY <1>4, <2>2, <3>1, <3>2, SlotOfProcess DEF Slots
    <3>4. proc[q].i > i /\ proc[q].i - 1 = s
      BY <1>4, <2>2, <3>3 DEF Slots
    <3>5. proc'[q] = [proc[q] EXCEPT !.i = s]
      BY <1>8, <3>2, <3>3, <3>4
    <3>6. proc[q] \in ProcRecord
      BY <3>2 DEF Inv, TypeOK
    <3> HIDE DEF q
    <3> QED BY <3>1, <3>5, <3>6 DEF ProcRecord
  <2> QED BY <2>1, <2>2
<1>14. process_min_index' \in Slots /\ NoFreeSlotBelowMin'
  <2>1. process_min_index' \in Slots
    BY <1>3, <1>4 DEF MinIndexAfter, Inv, TypeOK
  <2>2. ASSUME NEW s \in Slots, s < process_min_index' PROVE processes'[s] # NULL
    <3>1. s < i /\ s < process_min_index
      BY <1>3, <1>4, <2>2 DEF MinIndexAfter, Inv, TypeOK, Slots
    <3> QED BY <1>5, <3>1 DEF Inv, NoFreeSlotBelowMin
  <2> QED BY <2>1, <2>2 DEF NoFreeSlotBelowMin
<1>15. \A q \in Proc : InTable(q)' <=> (InTable(q) /\ q # p)
  <2> SUFFICES ASSUME NEW q \in Proc PROVE InTable(q)' <=> (InTable(q) /\ q # p)
    OBVIOUS
  <2>1. ASSUME NEW s \in Slots, processes'[s] = q PROVE InTable(q) /\ q # p
    BY <1>4, <1>5, <1>6, <2>1 DEF InTable, Slots
  <2>2. ASSUME InTable(q), q # p PROVE \E s \in Slots : processes'[s] = q
    <3>1. proc[q].i \in Slots /\ processes[proc[q].i] = q /\ proc[q].i < process_count
      BY <2>2, SlotOfProcess
    <3>2. CASE proc[q].i < i
      BY <1>5, <3>1, <3>2
    <3>3. CASE ~(proc[q].i < i)
      <4>1. proc[q].i # i
        BY <1>4, <2>2, <3>1
      <4>2. /\ proc[q].i - 1 \in Slots /\ ~(proc[q].i - 1 < i)
            /\ (proc[q].i - 1) + 1 = proc[q].i
        BY <1>4, <3>1, <3>3, <4>1 DEF Slots
      <4>3. processes'[proc[q].i - 1] = q
        BY <1>5, <3>1, <4>2
      <4> QED BY <4>2, <4>3
    <3> QED BY <3>2, <3>3
  <2> QED BY <2>1, <2>2 DEF InTable
<1>16. StacksOwned'
  <2>1. Owners' = Owners \ {p}
    BY <1>10, <1>15 DEF Owners, OnlyMoves
  <2>2. \A q \in Owners' : proc'[q].orig_i = proc[q].orig_i
    BY <1>10, <2>1 DEF Owners, OnlyMoves
  <2>3. \A q \in Owners : q # p => proc[q].orig_i # proc[p].orig_i
    BY <1>1 DEF Inv, StacksOwned
  <2>4. \A k \in Slots : k \in kstacks' <=> \E q \in Owners' : proc'[q].orig_i = k
    <3> SUFFICES ASSUME NEW k \in Slots
                 PROVE  k \in kstacks' <=> \E q \in Owners' : proc'[q].orig_i = k
      OBVIOUS
    <3>1. k \in kstacks <=> \E q \in Owners : proc[q].orig_i = k
      BY DEF Inv, StacksOwned
    <3> QED BY <1>1, <1>3, <2>1, <2>2, <2>3, <3>1
  <2>5. \A q, u \in Owners' : proc'[q].orig_i = proc'[u].orig_i => q = u
    <3>1. \A q, u \in Owners : proc[q].orig_i = proc[u].orig_i => q = u
      BY DEF Inv, StacksOwned
    <3> SUFFICES ASSUME NEW q \in Owners', NEW u \in Owners', proc'[q].orig_i = proc'[u].orig_i
                 PROVE  q = u
      OBVIOUS
    <3> QED BY <2>1, <2>2, <3>1
  <2> QED BY <1>3, <2>4, <2>5 DEF Inv, StacksOwned
<1>17. Inv'
  BY <1>3, <1>6, <1>7, <1>11, <1>12, <1>13, <1>14, <1>16 DEF Inv, TypeOK
<1> QED BY <1>3, <1>10, <1>15, <1>17

-----------------------------------------------------------------------------
(* Every step of the kernel keeps Inv.                                     *)
LEMMA NextKeepsInv == Inv /\ [Next]_vars => Inv'
<1> SUFFICES ASSUME Inv, [Next]_vars PROVE Inv'
  OBVIOUS
<1>1. ASSUME NEW p \in Proc, NEW s \in Slots,
             \/ ExecSucceeds(p, s) \/ ExecFails(p, s)
             \/ ExecHitsLimit(p, s) \/ ExecRemaps(p, s)
      PROVE  Inv'
  BY <1>1, ExecStep
<1>2. ASSUME NEW p \in Proc, Dispatch(p) \/ Preempt(p) \/ Exit(p)
      PROVE  Inv'
  BY <1>2, StateChangeKeepsInv DEF Dispatch, Preempt, Exit, ProcState
<1>3. ASSUME NEW p \in Proc, Reclaim(p)
      PROVE  Inv'
  BY <1>3, ReclaimStep
<1>4. ASSUME \/ InitRefused
             \/ \E why \in {"out of memory", "page fault"} : ExecDies(why)
             \/ \E why \in {"deadlock in sleep", "deadlock in wait"} : SelfDeadlock(why)
      PROVE  Inv'
  <2>1. /\ panic' \in PanicReason /\ panic' # "missing PTE"
        /\ UNCHANGED <<processes, process_count, process_min_index, next_pid, proc, kstacks>>
    BY <1>4 DEF InitRefused, ExecDies, SelfDeadlock, PanicReason
  <2> QED BY <2>1, ZenonT(40) DEF Inv, TypeOK, Packed, IndexIsSlot, NoFreeSlotBelowMin,
                      StacksOwned, Owners, InTable
<1>5. CASE UNCHANGED vars
  BY <1>5, ZenonT(40) DEF vars, Inv, TypeOK, Packed, IndexIsSlot, NoFreeSlotBelowMin,
             StacksOwned, Owners, InTable
<1> QED BY <1>1, <1>2, <1>3, <1>4, <1>5 DEF Next, Halted

(* The empty table of the boot satisfies Inv.                              *)
LEMMA InitInv == Init => Inv
<1> SUFFICES ASSUME Init PROVE Inv
  OBVIOUS
<1> USE TableAssumption DEF Init
<1>1. Blank \in ProcRecord
  BY DEF Blank, ProcRecord, ProcState, Slots
<1>2. TypeOK
  BY <1>1 DEF TypeOK, Slots, PanicReason
<1>3. \A p \in Proc : ~InTable(p)
  BY DEF InTable
<1>4. StacksOwned
  BY <1>3 DEF StacksOwned, Owners
<1> QED BY <1>2, <1>4 DEF Inv, Packed, IndexIsSlot, NoFreeSlotBelowMin, Slots

(* The conjunction of the invariants is one of the process table.          *)
THEOREM Invariance == Spec => []Inv
BY InitInv, NextKeepsInv, PTL DEF Spec

(* Types, for tables of any size: no index and no pid leaves its range,    *)
(* process_count never wraps below zero.                                   *)
THEOREM TypeCorrect == Spec => []TypeOK
<1>1. Inv => TypeOK
  BY DEF Inv
<1> QED BY <1>1, Invariance, PTL

(* coelesce_processes and proc_allocate keep processes[] packed.           *)
THEOREM TablePacked == Spec => []Packed
<1>1. Inv => Packed
  BY DEF Inv
<1> QED BY <1>1, Invariance, PTL

(* The field i of a struct is its slot, so the end of a process clears the *)
(* slot of that process (scheduler.c:617).                                 *)
THEOREM IndexCorrect == Spec => []IndexIsSlot
<1>1. Inv => IndexIsSlot
  BY DEF Inv
<1> QED BY <1>1, Invariance, PTL

(* proc_allocate never passes over a free slot.                            *)
THEOREM MinIndexCorrect == Spec => []NoFreeSlotBelowMin
<1>1. Inv => NoFreeSlotBelowMin
  BY DEF Inv
<1> QED BY <1>1, Invariance, PTL

(* The kernel stacks that are mapped are those of the living processes,    *)
(* one each, and freeing one never meets an unmapped page.                 *)
THEOREM StackOwnership == Spec => []StacksOwned
<1>1. Inv => StacksOwned
  BY DEF Inv
<1> QED BY <1>1, Invariance, PTL

-----------------------------------------------------------------------------
(* When the kernel has stopped, no step changes anything.                  *)
LEMMA PanicIsFinal ==
  ASSUME [Next]_vars, panic # "none"
  PROVE  UNCHANGED vars
BY DEF Next, ExecSucceeds, ExecFails, ExecHitsLimit, ExecRemaps, MayAllocate,
       Dispatch, Preempt, Exit, SetState, Reclaim, ExecDies, InitRefused, SelfDeadlock, Halted

(* proc_exec finds the stack of slot process_count mapped: its owner lives *)
(* in the packed table, so in a lower slot than the one it was born in.    *)
LEMMA RemapMeetsMoved ==
  ASSUME Inv, NEW p \in Proc, NEW s \in Slots, ExecRemaps(p, s)
  PROVE  RemapNeedsMove'
<1> USE TableAssumption
<1>1. /\ s = process_count
      /\ ~InTable(p)
      /\ \A q \in Proc : q # p => proc'[q] = proc[q] /\ (InTable(q)' <=> InTable(q))
  BY ExecStep
<1>2. PICK q \in Owners : proc[q].orig_i = s
  BY DEF ExecRemaps, Inv, StacksOwned
<1>3. q \in Proc /\ InTable(q) /\ q # p
  BY <1>1 DEF Owners
<1>4. proc[q].i \in Slots /\ proc[q].i < process_count
  BY <1>3, SlotOfProcess
<1>5. proc[q].i # proc[q].orig_i
  BY <1>1, <1>2, <1>4 DEF Slots
<1> QED BY <1>1, <1>3, <1>5 DEF RemapNeedsMove

(* The remap panic of vmm.c:175 needs a process that coelesce_processes    *)
(* has moved, in tables of any size.                                       *)
THEOREM RemapOnlyAfterMove == Spec => []RemapNeedsMove
<1>1. Init => RemapNeedsMove
  BY DEF Init, RemapNeedsMove
<1>2. Inv /\ RemapNeedsMove /\ [Next]_vars => RemapNeedsMove'
  <2> SUFFICES ASSUME Inv, RemapNeedsMove, [Next]_vars PROVE RemapNeedsMove'
    OBVIOUS
  <2>1. CASE panic # "none"
    <3>1. UNCHANGED vars
      BY <2>1, PanicIsFinal
    <3> QED BY <3>1 DEF vars, RemapNeedsMove, InTable
  <2>2. CASE panic = "none"
    <3>1. CASE \E p \in Proc, s \in Slots : ExecRemaps(p, s)
      BY <3>1, RemapMeetsMoved
    <3>2. ASSUME NEW p \in Proc, Reclaim(p)
          PROVE  panic' = panic
      BY <3>2, ReclaimStep
    <3>3. CASE ~ \E p \in Proc, s \in Slots : ExecRemaps(p, s)
      <4>1. panic' # "remap"
        BY <2>2, <3>2, <3>3
           DEF Next, vars, ExecSucceeds, ExecFails, ExecHitsLimit, Dispatch, Preempt, Exit,
               SetState, ExecDies, InitRefused, SelfDeadlock, Halted
      <4> QED BY <4>1 DEF RemapNeedsMove
    <3> QED BY <3>1, <3>3
  <2> QED BY <2>1, <2>2
<1> QED BY <1>1, <1>2, Invariance, PTL DEF Spec

(* Whatever ends, is created or moves, a process that stays in the table   *)
(* keeps its pid and its kernel stack and never moves up: coelesce_processes*)
(* writes the index and nothing else (scheduler.c:414).                    *)
THEOREM IdentityIsKept == Spec => IdentityKept
<1> DEFINE Same(p) == InTable(p) /\ InTable(p)' =>
                        /\ proc'[p].orig_i = proc[p].orig_i
                        /\ proc'[p].pid = proc[p].pid
                        /\ proc'[p].i <= proc[p].i
<1>1. Inv /\ [Next]_vars => [\A p \in Proc : Same(p)]_vars
  <2> SUFFICES ASSUME Inv, Next, NEW q \in Proc, InTable(q), InTable(q)'
               PROVE  Same(q)
    BY DEF vars
  <2>0. proc \in [Proc -> ProcRecord] /\ proc[q].i \in Int
    BY TableAssumption DEF Inv, TypeOK, ProcRecord, Slots
  <2>1. ASSUME NEW p \in Proc, NEW s \in Slots,
               \/ ExecSucceeds(p, s) \/ ExecFails(p, s)
               \/ ExecHitsLimit(p, s) \/ ExecRemaps(p, s)
        PROVE  Same(q)
    <3>1. ~InTable(p) /\ \A u \in Proc : u # p => proc'[u] = proc[u]
      BY <2>1, ExecStep
    <3> QED BY <2>0, <3>1
  <2>2. ASSUME NEW p \in Proc, Dispatch(p) \/ Preempt(p) \/ Exit(p)
        PROVE  Same(q)
    BY <2>0, <2>2 DEF Dispatch, Preempt, Exit, SetState, ProcRecord
  <2>3. ASSUME NEW p \in Proc, Reclaim(p)
        PROVE  Same(q)
    <3>1. q # p => OnlyMoves(q)
      BY <2>3, ReclaimStep
    <3>2. q # p
      BY <2>3, ReclaimStep
    <3> QED BY <3>1, <3>2 DEF OnlyMoves
  <2>4. ASSUME UNCHANGED proc PROVE Same(q)
    BY <2>0, <2>4
  <2>5. CASE \/ InitRefused
             \/ \E why \in {"out of memory", "page fault"} : ExecDies(why)
             \/ \E why \in {"deadlock in sleep", "deadlock in wait"} : SelfDeadlock(why)
             \/ Halted
    BY <2>4, <2>5 DEF InitRefused, ExecDies, SelfDeadlock, Halted, vars
  <2> HIDE DEF Same
  <2> QED BY <2>1, <2>2, <2>3, <2>5 DEF Next
<1> QED BY <1>1, Invariance, PTL DEF Spec, IdentityKept
=============================================================================
