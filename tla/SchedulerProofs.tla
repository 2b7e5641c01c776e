-------------------------- MODULE SchedulerProofs --------------------------
(***************************************************************************)
(* Proofs about the scheduling loop, for any number of processes, slots    *)
(* and pids.  The loop is shown to drive the process table as ProcTable    *)
(* says, so the invariant of ProcTableProofs holds in every state of it;   *)
(* on top of that SchedInv ties the CPU, the locks, the states of the      *)
(* processes and the line of the ready ones together.  Its parts need each *)
(* other: that a freed struct is nowhere in line follows from its state    *)
(* (ReadyAreQueued), that nothing EXITED is left when the CPU is given     *)
(* away from OneOnCpu, and that curr is in the table from both.            *)
(***************************************************************************)
EXTENDS Scheduler, TLAPS, WellFoundedInduction

(* The process table with what is proved of it.                            *)
TP == INSTANCE ProcTableProofs

SchedTypes ==
  /\ pc \in {"boot", "loop", "user", "back", "off"}
  /\ runq \in Seq(Proc)
  /\ vruntime \in [Proc -> Nat]
  /\ curr \in Proc \cup {NULL}
  /\ last_running \in Proc \cup {NULL}
  /\ locked \subseteq Proc
  /\ intr_depth \in 0 .. 1

SchedInv ==
  /\ TP!Inv
  /\ SchedTypes
  /\ OneOnCpu
  /\ ReadyAreQueued
  /\ NoStalePointer

InLine == {runq[k] : k \in DOMAIN runq}

OncePerLine == \A j, k \in DOMAIN runq : runq[j] = runq[k] => j = k

-----------------------------------------------------------------------------
(* What the lemmas of ProcTableProofs say in the names of this module.     *)

(* The table starts in the invariant that ProcTableProofs proves of it.    *)
LEMMA TableInit == Table!Init => TP!Inv
<1>1. Table!Init => TP!Init
  BY DEF Table!Init, TP!Init, Table!Slots, TP!Slots, Table!Blank, TP!Blank
<1> QED BY <1>1, TP!InitInv, SchedulerAssumption

(* What that invariant says of the types of the table.                     *)
LEMMA TableTypes == TP!Inv => Table!TypeOK /\ processes \in [Slots -> Proc \cup {NULL}]
BY DEF TP!Inv, TP!TypeOK, Table!TypeOK, TP!Slots, Table!Slots, Slots, TP!ProcRecord,
       Table!ProcRecord, TP!ProcState, Table!ProcState, TP!PanicReason, Table!PanicReason

(* proc_exec adds p to the table and touches no other process.             *)
LEMMA TableExec ==
  ASSUME TP!Inv, NEW p \in Proc, NEW s \in Slots,
         \/ Table!ExecSucceeds(p, s) \/ Table!ExecFails(p, s)
         \/ Table!ExecHitsLimit(p, s) \/ Table!ExecRemaps(p, s)
  PROVE  /\ TP!Inv'
         /\ Table!InTable(p)' /\ ~Table!InTable(p)
         /\ \A q \in Proc : q # p => /\ proc'[q] = proc[q]
                                     /\ Table!InTable(q)' <=> Table!InTable(q)
         /\ Table!ExecSucceeds(p, s) => proc'[p].state = "RUNNABLE" /\ panic' = panic
         /\ ~Table!ExecSucceeds(p, s) => proc'[p].state \in {"UNUSED", "USED"}
         /\ panic = "none"
<1> USE SchedulerAssumption
<1>1. /\ Table!ExecSucceeds(p, s) <=> TP!ExecSucceeds(p, s)
      /\ Table!ExecFails(p, s) <=> TP!ExecFails(p, s)
      /\ Table!ExecHitsLimit(p, s) <=> TP!ExecHitsLimit(p, s)
      /\ Table!ExecRemaps(p, s) <=> TP!ExecRemaps(p, s)
  <2> USE DEF Table!MayAllocate, TP!MayAllocate, Table!FillSlot, TP!FillSlot,
              Table!FirstFree, TP!FirstFree, Table!NextFreeAbove, TP!NextFreeAbove,
              Table!FullAbove, TP!FullAbove, Table!Born, TP!Born,
              Table!Booting, TP!Booting, Table!Holding, TP!Holding,
              Table!InTable, TP!InTable, Table!Slots, TP!Slots
  <2>1. Table!ExecSucceeds(p, s) <=> TP!ExecSucceeds(p, s)
    BY DEF Table!ExecSucceeds, TP!ExecSucceeds
  <2>2. Table!ExecFails(p, s) <=> TP!ExecFails(p, s)
    BY DEF Table!ExecFails, TP!ExecFails
  <2>3. Table!ExecHitsLimit(p, s) <=> TP!ExecHitsLimit(p, s)
    BY DEF Table!ExecHitsLimit, TP!ExecHitsLimit
  <2>4. Table!ExecRemaps(p, s) <=> TP!ExecRemaps(p, s)
    BY DEF Table!ExecRemaps, TP!ExecRemaps
  <2> QED BY <2>1, <2>2, <2>3, <2>4
<1>2. s \in TP!Slots
  BY DEF Slots, Table!Slots, TP!Slots
<1>3. /\ TP!Inv'
      /\ TP!InTable(p)' /\ ~TP!InTable(p)
      /\ \A q \in Proc : q # p => proc'[q] = proc[q] /\ (TP!InTable(q)' <=> TP!InTable(q))
  BY <1>1, <1>2, TP!ExecStep
<1>4. /\ Table!InTable(p)' /\ ~Table!InTable(p)
      /\ \A q \in Proc : q # p => /\ proc'[q] = proc[q]
                                  /\ Table!InTable(q)' <=> Table!InTable(q)
  BY <1>3 DEF Table!InTable, TP!InTable, Table!Slots, TP!Slots
<1>5. proc \in [Proc -> TP!ProcRecord]
  BY DEF TP!Inv, TP!TypeOK
<1>6. /\ Table!ExecSucceeds(p, s) => proc'[p].state = "RUNNABLE" /\ panic' = panic
      /\ ~Table!ExecSucceeds(p, s) => proc'[p].state \in {"UNUSED", "USED"}
      /\ panic = "none"
  <2>1. CASE Table!ExecSucceeds(p, s)
    BY <1>5, <2>1 DEF Table!ExecSucceeds, Table!Born, Table!MayAllocate
  <2>2. CASE ~Table!ExecSucceeds(p, s) /\ Table!ExecFails(p, s)
    BY <1>5, <2>2 DEF Table!ExecFails, Table!Born, Table!MayAllocate
  <2>3. CASE ~Table!ExecSucceeds(p, s) /\ Table!ExecHitsLimit(p, s)
    BY <1>5, <2>3 DEF Table!ExecHitsLimit, Table!Born, Table!MayAllocate
  <2>4. CASE ~Table!ExecSucceeds(p, s) /\ Table!ExecRemaps(p, s)
    BY <1>5, <2>4 DEF Table!ExecRemaps, Table!Born, Table!MayAllocate
  <2> QED BY <2>1, <2>2, <2>3, <2>4
<1> QED BY <1>3, <1>4, <1>6

(* The end of a process takes it, and nothing else, out of the table.      *)
LEMMA TableReclaim ==
  ASSUME TP!Inv, NEW p \in Proc, Table!Reclaim(p)
  PROVE  /\ TP!Inv'
         /\ panic' = panic
         /\ \A q \in Proc : Table!InTable(q)' <=> (Table!InTable(q) /\ q # p)
         /\ \A q \in Proc : q # p => proc'[q].state = proc[q].state
<1> USE SchedulerAssumption
<1>1. TP!Reclaim(p)
  BY DEF Table!Reclaim, TP!Reclaim, Table!InTable, TP!InTable, Table!Slots, TP!Slots,
         Table!StackOf, TP!StackOf, Table!CoalescedTable, TP!CoalescedTable,
         Table!CoalescedProc, TP!CoalescedProc, Table!MovesInto, TP!MovesInto,
         Table!Relocated, TP!Relocated, Table!Blank, TP!Blank,
         Table!MinIndexAfter, TP!MinIndexAfter, Table!CountAfter, TP!CountAfter
<1>2. /\ TP!Inv'
      /\ UNCHANGED <<next_pid, panic>>
      /\ \A q \in Proc : TP!InTable(q)' <=> (TP!InTable(q) /\ q # p)
      /\ \A q \in Proc : q # p => TP!OnlyMoves(q)
  BY <1>1, TP!ReclaimStep
<1> QED BY <1>2 DEF Table!InTable, TP!InTable, Table!Slots, TP!Slots, TP!OnlyMoves

(* A step of the life of a process changes its state only.                 *)
LEMMA TableState ==
  ASSUME TP!Inv, NEW p \in Proc, Table!Dispatch(p) \/ Table!Preempt(p) \/ Table!Exit(p)
  PROVE  /\ TP!Inv'
         /\ panic' = panic
         /\ Table!InTable(p)
         /\ \A q \in Proc : Table!InTable(q)' <=> Table!InTable(q)
         /\ \A q \in Proc : q # p => proc'[q] = proc[q]
         /\ Table!Dispatch(p) => proc[p].state = "RUNNABLE" /\ proc'[p].state = "RUNNING"
         /\ Table!Preempt(p) => proc[p].state = "RUNNING" /\ proc'[p].state = "RUNNABLE"
         /\ Table!Exit(p) => proc[p].state = "RUNNING" /\ proc'[p].state = "EXITED"
<1> USE SchedulerAssumption
<1>1. TP!Dispatch(p) \/ TP!Preempt(p) \/ TP!Exit(p)
  BY DEF Table!Dispatch, TP!Dispatch, Table!Preempt, TP!Preempt, Table!Exit, TP!Exit,
         Table!SetState, TP!SetState, Table!Booting, TP!Booting, Table!Holding, TP!Holding,
         Table!InTable, TP!InTable, Table!Slots, TP!Slots
<1>2. TP!Next
  BY <1>1 DEF TP!Next
<1>3. TP!Inv'
  BY <1>2, TP!NextKeepsInv
<1>4. proc \in [Proc -> TP!ProcRecord]
  BY DEF TP!Inv, TP!TypeOK
<1>5. /\ UNCHANGED <<processes, panic>> /\ Table!InTable(p)
      /\ \A q \in Proc : q # p => proc'[q] = proc[q]
  BY <1>4 DEF Table!Dispatch, Table!Preempt, Table!Exit, Table!SetState
<1>6. /\ Table!Dispatch(p) => proc[p].state = "RUNNABLE" /\ proc'[p].state = "RUNNING"
      /\ Table!Preempt(p) => proc[p].state = "RUNNING" /\ proc'[p].state = "RUNNABLE"
      /\ Table!Exit(p) => proc[p].state = "RUNNING" /\ proc'[p].state = "EXITED"
  BY <1>4 DEF Table!Dispatch, Table!Preempt, Table!Exit, Table!SetState, TP!ProcRecord
<1> QED BY <1>3, <1>5, <1>6 DEF Table!InTable

(* A panic keeps the table as it is.                                       *)
LEMMA TablePanics ==
  ASSUME TP!Inv,
         \/ Table!InitRefused
         \/ \E why \in {"out of memory", "page fault"} : Table!ExecDies(why)
         \/ \E why \in {"deadlock in sleep", "deadlock in wait"} : Table!SelfDeadlock(why)
  PROVE  /\ TP!Inv'
         /\ panic' # "none"
         /\ UNCHANGED <<processes, process_count, process_min_index, next_pid, proc, kstacks>>
<1> USE SchedulerAssumption
<1>1. TP!Next
  <2> USE DEF TP!Next, Table!Holding, TP!Holding, Table!Booting, TP!Booting,
              Table!InTable, TP!InTable, Table!Slots, TP!Slots
  <2>1. CASE Table!InitRefused
    BY <2>1 DEF Table!InitRefused, TP!InitRefused
  <2>2. ASSUME NEW why \in {"out of memory", "page fault"}, Table!ExecDies(why) PROVE TP!Next
    <3>1. TP!ExecDies(why)
      BY <2>2 DEF Table!ExecDies, TP!ExecDies, Table!MayAllocate, TP!MayAllocate,
                  Table!FirstFree, TP!FirstFree
    <3> QED BY <3>1
  <2>3. CASE \E why \in {"deadlock in sleep", "deadlock in wait"} : Table!SelfDeadlock(why)
    BY <2>3 DEF Table!SelfDeadlock, TP!SelfDeadlock
  <2> QED BY <2>1, <2>2, <2>3
<1>2. TP!Inv'
  BY <1>1, TP!NextKeepsInv
<1> QED BY <1>2 DEF Table!InitRefused, Table!ExecDies, Table!SelfDeadlock

(* A step that leaves the table alone keeps its invariant.                 *)
LEMMA TableKept == TP!Inv /\ UNCHANGED tableVars => TP!Inv'
BY SchedulerAssumption, TP!NextKeepsInv DEF tableVars, TP!vars

-----------------------------------------------------------------------------
(* The line of the ready processes.                                        *)

(* A set of natural numbers that is not empty has a least member.          *)
LEMMA LeastExists ==
  ASSUME NEW T \in SUBSET Nat, T # {}
  PROVE  \E m \in T : \A x \in T : m <= x
<1> DEFINE R == OpToRel(<, Nat)
<1>1. PICK m \in T : \A x \in T : ~(<<x, m>> \in R)
  <2>1. IsWellFoundedOn(R, Nat)
    BY NatLessThanWellFounded
  <2> HIDE DEF R
  <2> QED BY <2>1, WFMin
<1>2. \A x \in T : ~(x < m)
  BY <1>1 DEF OpToRel
<1> QED BY <1>2

(* sched_enqueue puts a process that is not in line behind the others.     *)
LEMMA AppendToLine ==
  ASSUME runq \in Seq(Proc), OncePerLine, NEW p \in Proc, p \notin InLine,
         runq' = Append(runq, p)
  PROVE  runq' \in Seq(Proc) /\ OncePerLine' /\ InLine' = InLine \cup {p}
<1>1. /\ runq' \in Seq(Proc) /\ Len(runq') = Len(runq) + 1
      /\ DOMAIN runq = 1 .. Len(runq) /\ DOMAIN runq' = 1 .. Len(runq) + 1
      /\ Len(runq) \in Nat
      /\ \A k \in 1 .. Len(runq) : runq'[k] = runq[k]
      /\ runq'[Len(runq) + 1] = p
  OBVIOUS
<1>2. \A k \in 1 .. Len(runq) : runq[k] # p
  BY <1>1 DEF InLine
<1>3. OncePerLine'
  BY <1>1, <1>2 DEF OncePerLine
<1>4. InLine' = InLine \cup {p}
  <2>1. ASSUME NEW x \in InLine' PROVE x \in InLine \cup {p}
    BY <1>1, <2>1 DEF InLine
  <2>2. ASSUME NEW x \in InLine PROVE x \in InLine'
    BY <1>1, <2>2 DEF InLine
  <2>3. p \in InLine'
    BY <1>1 DEF InLine
  <2> QED BY <2>1, <2>2, <2>3
<1> QED BY <1>1, <1>3, <1>4

(* sched_dequeue takes one process out of line and leaves the others in.   *)
LEMMA DequeueFromLine ==
  ASSUME runq \in Seq(Proc), OncePerLine, NEW k \in DOMAIN runq, runq' = Dequeued(k)
  PROVE  runq' \in Seq(Proc) /\ OncePerLine' /\ InLine' = InLine \ {runq[k]}
<1> DEFINE n == Len(runq)
<1>1. n \in Nat /\ DOMAIN runq = 1 .. n /\ k \in 1 .. n /\ n - 1 \in Nat
  OBVIOUS
<1>2. runq' = [j \in 1 .. n - 1 |-> IF j < k THEN runq[j] ELSE runq[j + 1]]
  BY DEF Dequeued
<1>3. \A j \in 1 .. n - 1 : runq'[j] \in Proc
  BY <1>1, <1>2
<1> HIDE DEF n
<1>4. runq' \in Seq(Proc) /\ DOMAIN runq' = 1 .. n - 1
  BY <1>1, <1>2, <1>3
<1>5. OncePerLine'
  <2> SUFFICES ASSUME NEW i \in 1 .. n - 1, NEW j \in 1 .. n - 1, runq'[i] = runq'[j]
               PROVE  i = j
    BY <1>4 DEF OncePerLine
  <2>1. \A x, y \in 1 .. n : runq[x] = runq[y] => x = y
    BY <1>1 DEF OncePerLine
  <2> DEFINE From(x) == IF x < k THEN x ELSE x + 1
  <2>2. \A x \in 1 .. n - 1 : From(x) \in 1 .. n /\ runq'[x] = runq[From(x)]
    BY <1>1, <1>2
  <2>3. From(i) = From(j)
    <3> HIDE DEF From
    <3> QED BY <2>1, <2>2
  <2> QED BY <1>1, <2>3
<1>6. InLine' = InLine \ {runq[k]}
  <2>1. ASSUME NEW x \in InLine' PROVE x \in InLine /\ x # runq[k]
    <3>1. PICK j \in 1 .. n - 1 : x = runq'[j]
      BY <1>4 DEF InLine
    <3>2. CASE j < k
      BY <1>1, <1>2, <3>1, <3>2 DEF InLine, OncePerLine
    <3>3. CASE ~(j < k)
      <4>1. j + 1 \in 1 .. n /\ j + 1 # k /\ x = runq[j + 1]
        BY <1>1, <1>2, <3>1, <3>3
      <4> QED BY <1>1, <4>1 DEF InLine, OncePerLine
    <3> QED BY <3>2, <3>3
  <2>2. ASSUME NEW x \in InLine, x # runq[k] PROVE x \in InLine'
    <3>1. PICK j \in 1 .. n : x = runq[j]
      BY <1>1 DEF InLine
    <3>2. CASE j < k
      BY <1>1, <1>2, <1>4, <3>1, <3>2 DEF InLine
    <3>3. CASE ~(j < k)
      <4>1. j - 1 \in 1 .. n - 1 /\ ~(j - 1 < k) /\ (j - 1) + 1 = j
        BY <1>1, <2>2, <3>1, <3>3
      <4>2. runq'[j - 1] = x
        BY <1>2, <3>1, <4>1
      <4> QED BY <1>4, <4>1, <4>2 DEF InLine
    <3> QED BY <3>2, <3>3
  <2> QED BY <2>1, <2>2
<1> QED BY <1>4, <1>5, <1>6

(* sched_pick_next finds a process whenever the line is not empty.         *)
LEMMA PickFindsPlace ==
  ASSUME runq \in Seq(Proc), runq # << >>, vruntime \in [Proc -> Nat]
  PROVE  PickPlace \in DOMAIN runq
<1> DEFINE n == Len(runq)
           V(k) == vruntime[runq[k]]
           Values == {V(k) : k \in 1 .. n}
           First(k) == \A j \in DOMAIN runq : IF j < k THEN V(k) < V(j) ELSE V(k) <= V(j)
<1>1. n \in Nat \ {0} /\ DOMAIN runq = 1 .. n /\ \A k \in 1 .. n : V(k) \in Nat
  OBVIOUS
<1>2. PICK m \in Values : \A x \in Values : m <= x
  <2>1. Values \in SUBSET Nat /\ Values # {}
    BY <1>1
  <2> HIDE DEF Values
  <2> QED BY <2>1, LeastExists
<1> DEFINE Places == {k \in 1 .. n : V(k) = m}
<1>3. PICK k \in Places : \A j \in Places : k <= j
  <2>1. Places \in SUBSET Nat /\ Places # {}
    BY <1>1, <1>2
  <2> HIDE DEF Places
  <2> QED BY <2>1, LeastExists
<1>4. k \in DOMAIN runq /\ First(k)
  BY <1>1, <1>2, <1>3
<1> HIDE DEF First
<1>5. (CHOOSE x \in DOMAIN runq : First(x)) \in DOMAIN runq
  BY <1>4
<1> QED BY <1>5 DEF PickPlace, First

(* Charging the process on the CPU keeps the virtual times natural, also   *)
(* when they are shifted down.                                             *)
LEMMA ChargeTypes ==
  ASSUME vruntime \in [Proc -> Nat], NEW d \in VDelta, curr \in Proc, Charge(d)
  PROVE  vruntime' \in [Proc -> Nat]
<1> DEFINE v == [vruntime EXCEPT ![curr] = @ + d]
           live == {p \in Proc : Table!InTable(p) /\ proc[p].state # "UNUSED"}
           Excesses == {v[p] - 1 : p \in live}
           Least(e) == \A p \in live : v[p] - 1 >= e
           excess == CHOOSE e \in Excesses : Least(e)
<1>1. v \in [Proc -> Nat]
  BY SchedulerAssumption
<1>2. vruntime' = IF \A p \in live : v[p] > 1
                  THEN [p \in Proc |-> IF p \in live THEN v[p] - excess ELSE v[p]]
                  ELSE v
  BY DEF Charge, Shifted
<1> HIDE DEF v, live
<1>3. CASE ~ \A p \in live : v[p] > 1
  BY <1>1, <1>2, <1>3
<1>4. CASE live = {}
  BY <1>1, <1>2, <1>4
<1>5. CASE live # {} /\ \A p \in live : v[p] > 1
  <2>0. live \subseteq Proc
    BY DEF live
  <2>1. Excesses \in SUBSET Nat /\ Excesses # {}
    BY <1>1, <1>5, <2>0
  <2>2. PICK e \in Excesses : \A x \in Excesses : e <= x
    <3> HIDE DEF Excesses
    <3> QED BY <2>1, LeastExists
  <2>3. e \in Excesses /\ Least(e)
    BY <1>1, <2>0, <2>1, <2>2
  <2>4. excess \in Excesses /\ Least(excess)
    <3> HIDE DEF Least, Excesses
    <3> QED BY <2>3
  <2>5. excess \in Nat /\ \A p \in live : v[p] - excess \in Nat
    <3> HIDE DEF excess
    <3> QED BY <1>1, <2>0, <2>1, <2>4
  <2> HIDE DEF excess
  <2> QED BY <1>1, <1>2, <1>5, <2>5
<1> QED BY <1>3, <1>4, <1>5

-----------------------------------------------------------------------------
(* The steps, one by one.                                                  *)

(* While p has the CPU or comes back from it, it is in the table.          *)
LEMMA CurrOnCpu ==
  ASSUME SchedInv, panic = "none", pc \in {"user", "back"}
  PROVE  curr \in Proc /\ Table!InTable(curr)
BY SchedulerAssumption DEF SchedInv, SchedTypes, OneOnCpu, NoStalePointer

(* A step that leaves the table, the line and the CPU alone, or one that   *)
(* stops the kernel and leaves them alone.                                 *)
LEMMA StandstillKeeps ==
  ASSUME SchedInv, TP!Inv', vruntime' \in [Proc -> Nat],
         UNCHANGED <<processes, proc, pc, runq, cpuVars>>,
         panic' = panic \/ panic' # "none"
  PROVE  SchedInv'
<1>1. \A q \in Proc : Table!InTable(q)' <=> Table!InTable(q)
  BY DEF Table!InTable
<1>2. /\ Table!Holding("RUNNABLE")' = Table!Holding("RUNNABLE")
      /\ Table!Holding("RUNNING")' = Table!Holding("RUNNING")
      /\ Table!Holding("EXITED")' = Table!Holding("EXITED")
  BY <1>1 DEF Table!Holding
<1>3. SchedTypes' /\ OneOnCpu'
  BY <1>2 DEF SchedInv, SchedTypes, OneOnCpu, cpuVars
<1>4. ReadyAreQueued'
  BY <1>2 DEF SchedInv, ReadyAreQueued, cpuVars
<1>5. NoStalePointer'
  BY DEF SchedInv, NoStalePointer, cpuVars, Table!InTable
<1> QED BY <1>3, <1>4, <1>5 DEF SchedInv

(* proc_exec succeeds: the new process is queued behind the others.        *)
LEMMA ExecOkKeeps ==
  ASSUME SchedInv, NEW p \in Proc, NEW s \in Slots, ExecOk(p, s)
  PROVE  SchedInv'
<1>1. /\ TP!Inv'
      /\ Table!InTable(p)' /\ ~Table!InTable(p)
      /\ \A q \in Proc : q # p => /\ proc'[q] = proc[q]
                                  /\ Table!InTable(q)' <=> Table!InTable(q)
      /\ proc'[p].state = "RUNNABLE" /\ panic' = panic /\ panic = "none"
  BY TableExec DEF ExecOk, SchedInv
<1>2. /\ Table!Holding("RUNNABLE")' = Table!Holding("RUNNABLE") \cup {p}
      /\ p \notin Table!Holding("RUNNABLE")
      /\ Table!Holding("RUNNING")' = Table!Holding("RUNNING")
      /\ Table!Holding("EXITED")' = Table!Holding("EXITED")
  BY <1>1 DEF Table!Holding
<1>3. OncePerLine /\ InLine = Table!Holding("RUNNABLE") /\ pc \in {"boot", "user"}
  BY DEF SchedInv, ReadyAreQueued, OncePerLine, InLine, ExecOk
<1>4. runq' \in Seq(Proc) /\ OncePerLine' /\ InLine' = InLine \cup {p}
  BY <1>2, <1>3, AppendToLine DEF ExecOk, SchedInv, SchedTypes
<1>5. IF pc = "user" THEN pc' = "user" ELSE pc' \in {"boot", "loop"}
  BY <1>3 DEF ExecOk, ExecPc
<1>6. SchedTypes'
  BY <1>3, <1>4, <1>5 DEF SchedInv, SchedTypes, ExecOk, cpuVars
<1>7. OneOnCpu'
  BY <1>1, <1>2, <1>3, <1>5 DEF SchedInv, OneOnCpu, ExecOk, cpuVars
<1>8. ReadyAreQueued'
  BY <1>2, <1>3, <1>4, <1>5 DEF ReadyAreQueued, OncePerLine, InLine
<1>9. NoStalePointer'
  <2>1. \A k \in DOMAIN runq' : runq'[k] \in Table!Holding("RUNNABLE")'
    BY <1>2, <1>3, <1>4 DEF InLine
  <2>2. \A k \in DOMAIN runq' : \E t \in Table!Slots : processes'[t] = runq'[k]
    BY <2>1 DEF Table!Holding, Table!InTable
  <2>3. \A q \in Proc : Table!InTable(q) => Table!InTable(q)'
    BY <1>1
  <2> QED BY <2>2, <2>3 DEF SchedInv, SchedTypes, NoStalePointer, ExecOk, cpuVars, Table!InTable
<1> QED BY <1>1, <1>6, <1>7, <1>8, <1>9 DEF SchedInv

(* proc_exec fails: the struct stays in its slot, in no queue.             *)
LEMMA ExecBadKeeps ==
  ASSUME SchedInv, NEW p \in Proc, NEW s \in Slots, ExecBad(p, s)
  PROVE  SchedInv'
<1>1. /\ TP!Inv'
      /\ Table!InTable(p)' /\ ~Table!InTable(p)
      /\ \A q \in Proc : q # p => /\ proc'[q] = proc[q]
                                  /\ Table!InTable(q)' <=> Table!InTable(q)
      /\ proc'[p].state # "RUNNABLE" \/ panic' = panic
      /\ panic = "none"
  BY TableExec DEF ExecBad, SchedInv
<1>2. proc'[p].state \in {"UNUSED", "USED"}
  <2>1. proc \in [Proc -> TP!ProcRecord]
    BY DEF SchedInv, TP!Inv, TP!TypeOK
  <2>2. CASE Table!ExecFails(p, s)
    BY <2>1, <2>2 DEF Table!ExecFails, Table!Born
  <2>3. CASE Table!ExecHitsLimit(p, s)
    BY <2>1, <2>3 DEF Table!ExecHitsLimit, Table!Born
  <2>4. CASE Table!ExecRemaps(p, s)
    BY <2>1, <2>4 DEF Table!ExecRemaps, Table!Born
  <2> QED BY <2>2, <2>3, <2>4 DEF ExecBad
<1>3. /\ Table!Holding("RUNNABLE")' = Table!Holding("RUNNABLE")
      /\ Table!Holding("RUNNING")' = Table!Holding("RUNNING")
      /\ Table!Holding("EXITED")' = Table!Holding("EXITED")
  BY <1>1, <1>2 DEF Table!Holding
<1>4. UNCHANGED <<pc, runq, vruntime, curr, last_running, locked, intr_depth>>
  BY DEF ExecBad, cpuVars
<1>5. SchedTypes' /\ OneOnCpu' /\ ReadyAreQueued'
  <2>1. SchedTypes'
    BY <1>4 DEF SchedInv, SchedTypes
  <2>2. OneOnCpu'
    BY <1>1, <1>3, <1>4 DEF SchedInv, OneOnCpu
  <2>3. ReadyAreQueued'
    BY <1>3, <1>4 DEF SchedInv, ReadyAreQueued
  <2> QED BY <2>1, <2>2, <2>3
<1>6. NoStalePointer'
  <2>1. \A q \in Proc : Table!InTable(q) => Table!InTable(q)'
    BY <1>1
  <2> QED BY <1>4, <2>1 DEF SchedInv, SchedTypes, NoStalePointer
<1> QED BY <1>1, <1>5, <1>6 DEF SchedInv

(* scheduler_start takes a process off the queue and gives it the CPU.     *)
LEMMA DispatchKeeps ==
  ASSUME SchedInv, Dispatch
  PROVE  SchedInv'
<1> DEFINE k == PickPlace
           p == runq[k]
<1>1. k \in DOMAIN runq /\ p \in Proc
  BY PickFindsPlace DEF SchedInv, SchedTypes, Dispatch
<1>2. /\ panic = "none" /\ pc = "loop" /\ pc' = "user"
      /\ Table!Dispatch(p) /\ Lock(p)
      /\ runq' = Dequeued(k) /\ curr' = p /\ last_running' = p
      /\ UNCHANGED vruntime
  BY DEF Dispatch, PickNext
<1> HIDE DEF k, p
<1>3. /\ TP!Inv' /\ panic' = panic /\ Table!InTable(p)
      /\ \A q \in Proc : Table!InTable(q)' <=> Table!InTable(q)
      /\ \A q \in Proc : q # p => proc'[q] = proc[q]
      /\ proc[p].state = "RUNNABLE" /\ proc'[p].state = "RUNNING"
  BY <1>1, <1>2, TableState DEF SchedInv
<1>4. /\ locked = {} /\ intr_depth = 0
      /\ Table!Holding("RUNNING") = {} /\ Table!Holding("EXITED") = {}
  BY <1>2 DEF SchedInv, OneOnCpu
<1>5. /\ Table!Holding("RUNNABLE")' = Table!Holding("RUNNABLE") \ {p}
      /\ Table!Holding("RUNNING")' = {p}
      /\ Table!Holding("EXITED")' = {}
  BY <1>1, <1>3, <1>4 DEF Table!Holding
<1>6. OncePerLine /\ InLine = Table!Holding("RUNNABLE")
  BY <1>2 DEF SchedInv, ReadyAreQueued, OncePerLine, InLine
<1>7. runq' \in Seq(Proc) /\ OncePerLine' /\ InLine' = InLine \ {p}
  BY <1>1, <1>2, <1>6, DequeueFromLine DEF SchedInv, SchedTypes, p
<1>8. SchedTypes' /\ OneOnCpu'
  BY <1>1, <1>2, <1>4, <1>5, <1>7 DEF SchedInv, SchedTypes, OneOnCpu, Lock
<1>9. ReadyAreQueued'
  BY <1>2, <1>5, <1>6, <1>7 DEF ReadyAreQueued, OncePerLine, InLine
<1>10. NoStalePointer'
  <2>1. \A j \in DOMAIN runq' : runq'[j] \in Table!Holding("RUNNABLE")'
    BY <1>5, <1>6, <1>7 DEF InLine
  <2>2. \A j \in DOMAIN runq' : \E s \in Table!Slots : processes'[s] = runq'[j]
    BY <2>1 DEF Table!Holding, Table!InTable
  <2> QED BY <1>1, <1>2, <1>3, <2>2 DEF NoStalePointer, Table!InTable
<1> QED BY <1>3, <1>8, <1>9, <1>10 DEF SchedInv

(* The idle loop finds nothing to recover and nothing to reclaim.          *)
LEMMA IdleKeeps ==
  ASSUME SchedInv, Idle
  PROVE  SchedInv'
<1>1. panic = "none" /\ pc = "loop" /\ runq = << >>
  BY DEF Idle
<1>2. Table!Holding("RUNNABLE") = {} /\ Table!Holding("EXITED") = {}
  BY <1>1 DEF SchedInv, OneOnCpu, ReadyAreQueued
<1>3. ~ \E s \in 0 .. process_count - 1 : IsStray(s)
  <2> SUFFICES ASSUME NEW s \in 0 .. process_count - 1, IsStray(s) PROVE FALSE
    OBVIOUS
  <2>1. s \in Table!Slots /\ processes[s] \in Proc
    BY SchedulerAssumption DEF SchedInv, TP!Inv, TP!TypeOK, TP!Slots, Table!Slots, IsStray
  <2>2. processes[s] \in Table!Holding("RUNNABLE")
    BY <2>1 DEF Table!Holding, Table!InTable, IsStray
  <2> QED BY <1>2, <2>2
<1>4. /\ pc' \in {"off", "loop"}
      /\ UNCHANGED <<tableVars, runq, last_running, vruntime, curr, locked, intr_depth>>
  BY <1>2, <1>3 DEF Idle
<1>5. TP!Inv' /\ UNCHANGED <<processes, proc, panic>>
  BY <1>4, TableKept DEF SchedInv, tableVars
<1>6. /\ Table!Holding("RUNNABLE")' = {} /\ Table!Holding("EXITED")' = {}
      /\ Table!Holding("RUNNING")' = Table!Holding("RUNNING")
  BY <1>2, <1>5 DEF Table!Holding, Table!InTable
<1>7. SchedTypes' /\ OneOnCpu'
  BY <1>1, <1>4, <1>5, <1>6 DEF SchedInv, SchedTypes, OneOnCpu
<1>8. ReadyAreQueued'
  BY <1>1, <1>4, <1>6 DEF ReadyAreQueued
<1>9. NoStalePointer'
  BY <1>4, <1>5 DEF SchedInv, NoStalePointer, Table!InTable
<1> QED BY <1>5, <1>7, <1>8, <1>9 DEF SchedInv

(* A process that was preempted goes back into the queue.                  *)
LEMMA ResumeRunnableKeeps ==
  ASSUME SchedInv, NEW d \in VDelta, ResumeRunnable(d)
  PROVE  SchedInv'
<1>1. /\ panic = "none" /\ pc = "back" /\ pc' = "loop"
      /\ proc[curr].state = "RUNNABLE"
      /\ Unlock(curr) /\ Charge(d)
      /\ runq' = Append(runq, curr) /\ curr' = NULL
      /\ UNCHANGED <<tableVars, last_running>>
  BY DEF ResumeRunnable
<1>2. curr \in Proc /\ Table!InTable(curr)
  BY <1>1, CurrOnCpu
<1>3. TP!Inv' /\ UNCHANGED <<processes, proc, panic>>
  BY <1>1, TableKept DEF SchedInv, tableVars
<1>4. /\ curr \in Table!Holding("RUNNABLE") /\ curr \notin Table!Holding("EXITED")
      /\ Table!Holding("RUNNABLE")' = Table!Holding("RUNNABLE")
      /\ Table!Holding("RUNNING")' = Table!Holding("RUNNING")
      /\ Table!Holding("EXITED")' = Table!Holding("EXITED")
  BY <1>1, <1>2, <1>3 DEF Table!Holding, Table!InTable
<1>5. OncePerLine /\ InLine = Table!Holding("RUNNABLE") \ {curr}
  BY <1>1 DEF SchedInv, ReadyAreQueued, OncePerLine, InLine
<1>6. runq' \in Seq(Proc) /\ OncePerLine' /\ InLine' = InLine \cup {curr}
  BY <1>1, <1>2, <1>5, AppendToLine DEF SchedInv, SchedTypes
<1>7. vruntime' \in [Proc -> Nat]
  BY <1>1, <1>2, ChargeTypes DEF SchedInv, SchedTypes
<1>8. locked' = {} /\ intr_depth' = 0
  BY <1>1 DEF SchedInv, OneOnCpu, Unlock
<1>9. SchedTypes' /\ OneOnCpu'
  BY <1>1, <1>3, <1>4, <1>6, <1>7, <1>8 DEF SchedInv, SchedTypes, OneOnCpu
<1>10. ReadyAreQueued'
  BY <1>1, <1>4, <1>5, <1>6 DEF ReadyAreQueued, OncePerLine, InLine
<1>11. NoStalePointer'
  <2>1. \A k \in DOMAIN runq' : runq'[k] \in Table!Holding("RUNNABLE")'
    BY <1>4, <1>5, <1>6 DEF InLine
  <2>2. \A k \in DOMAIN runq' : \E s \in Table!Slots : processes'[s] = runq'[k]
    BY <2>1 DEF Table!Holding, Table!InTable
  <2> QED BY <1>1, <1>3, <2>2 DEF SchedInv, NoStalePointer, Table!InTable
<1> QED BY <1>3, <1>9, <1>10, <1>11 DEF SchedInv

(* The process that ended leaves the table, and nothing keeps its address. *)
LEMMA ResumeExitedKeeps ==
  ASSUME SchedInv, ResumeExited
  PROVE  SchedInv'
<1>1. /\ panic = "none" /\ pc = "back" /\ pc' = "loop"
      /\ proc[curr].state = "EXITED"
      /\ Unlock(curr) /\ Table!Reclaim(curr) /\ ForgetLastRunning(curr)
      /\ vruntime' = [vruntime EXCEPT ![curr] = 0] /\ curr' = NULL /\ UNCHANGED runq
  BY DEF ResumeExited
<1>2. curr \in Proc /\ Table!InTable(curr)
  BY <1>1, CurrOnCpu
<1>3. /\ TP!Inv' /\ panic' = panic
      /\ \A q \in Proc : Table!InTable(q)' <=> (Table!InTable(q) /\ q # curr)
      /\ \A q \in Proc : q # curr => proc'[q].state = proc[q].state
  BY <1>1, <1>2, TableReclaim DEF SchedInv
<1>4. Table!Holding("EXITED") \subseteq {curr} /\ Table!Holding("RUNNING") = {}
  BY <1>1 DEF SchedInv, OneOnCpu
<1>5. /\ curr \notin Table!Holding("RUNNABLE")
      /\ Table!Holding("RUNNABLE")' = Table!Holding("RUNNABLE")
      /\ Table!Holding("RUNNING")' = {} /\ Table!Holding("EXITED")' = {}
  BY <1>1, <1>2, <1>3, <1>4 DEF Table!Holding
<1>6. OncePerLine /\ InLine = Table!Holding("RUNNABLE")
  BY <1>1, <1>5 DEF SchedInv, ReadyAreQueued, OncePerLine, InLine
<1>7. locked' = {} /\ intr_depth' = 0
  BY <1>1 DEF SchedInv, OneOnCpu, Unlock
<1>8. SchedTypes' /\ OneOnCpu'
  BY <1>1, <1>2, <1>3, <1>5, <1>7 DEF SchedInv, SchedTypes, OneOnCpu, ForgetLastRunning
<1>9. ReadyAreQueued'
  BY <1>1, <1>5, <1>6 DEF ReadyAreQueued, OncePerLine, InLine
<1>10. NoStalePointer'
  <2>1. \A k \in DOMAIN runq' : runq'[k] \in Table!Holding("RUNNABLE")'
    BY <1>1, <1>5, <1>6 DEF InLine
  <2>2. \A k \in DOMAIN runq' : \E s \in Table!Slots : processes'[s] = runq'[k]
    BY <2>1 DEF Table!Holding, Table!InTable
  <2>3. last_running' # NULL => last_running' = last_running /\ last_running \in Proc
                                /\ last_running # curr /\ Table!InTable(last_running)
    BY <1>1 DEF SchedInv, SchedTypes, NoStalePointer, ForgetLastRunning
  <2>4. last_running' # NULL => \E s \in Table!Slots : processes'[s] = last_running'
    BY <1>3, <2>3 DEF Table!InTable
  <2> QED BY <1>1, <2>2, <2>4 DEF NoStalePointer, Table!InTable
<1> QED BY <1>3, <1>8, <1>9, <1>10 DEF SchedInv

(* scheduler_preempt and proc_exit take the process on the CPU to "back".  *)
LEMMA LeaveUserKeeps ==
  ASSUME SchedInv, \/ \E d \in VDelta : PreemptTick(d)
                   \/ \E p \in Proc : SysExit(p)
  PROVE  SchedInv'
<1>1. /\ panic = "none" /\ pc = "user" /\ pc' = "back"
      /\ Table!Preempt(curr) \/ Table!Exit(curr)
      /\ UNCHANGED <<runq, curr, last_running, locked, intr_depth>>
  BY DEF PreemptTick, SysExit, Running, cpuVars
<1>2. curr \in Proc /\ Table!InTable(curr)
  BY <1>1, CurrOnCpu
<1>3. vruntime' \in [Proc -> Nat]
  BY <1>2, ChargeTypes DEF SchedInv, SchedTypes, PreemptTick, SysExit
<1>4. /\ TP!Inv' /\ panic' = panic
      /\ \A q \in Proc : Table!InTable(q)' <=> Table!InTable(q)
      /\ \A q \in Proc : q # curr => proc'[q] = proc[q]
      /\ proc[curr].state = "RUNNING" /\ proc'[curr].state \in {"RUNNABLE", "EXITED"}
  BY <1>1, <1>2, TableState DEF SchedInv
<1>5. /\ Table!Holding("RUNNING") = {curr} /\ Table!Holding("EXITED") \subseteq {curr}
      /\ locked = {curr} /\ intr_depth = 1
  BY <1>1 DEF SchedInv, OneOnCpu
<1>6. /\ Table!Holding("RUNNABLE")' \ {curr} = Table!Holding("RUNNABLE")
      /\ Table!Holding("RUNNING")' = {} /\ Table!Holding("EXITED")' \subseteq {curr}
  BY <1>2, <1>4, <1>5 DEF Table!Holding
<1>7. SchedTypes' /\ OneOnCpu'
  BY <1>1, <1>3, <1>4, <1>5, <1>6 DEF SchedInv, SchedTypes, OneOnCpu
<1>8. ReadyAreQueued'
  BY <1>1, <1>6 DEF SchedInv, ReadyAreQueued
<1>9. NoStalePointer'
  <2>1. \A q \in Proc : Table!InTable(q) => \E s \in Table!Slots : processes'[s] = q
    BY <1>4 DEF Table!InTable
  <2>2. \A k \in DOMAIN runq : runq[k] \in Proc
    BY DEF SchedInv, SchedTypes
  <2>3. \A k \in DOMAIN runq : \E s \in Table!Slots : processes'[s] = runq[k]
    BY <2>1, <2>2 DEF SchedInv, NoStalePointer
  <2>4. last_running # NULL => \E s \in Table!Slots : processes'[s] = last_running
    BY <2>1 DEF SchedInv, SchedTypes, NoStalePointer
  <2> QED BY <1>1, <1>2, <2>1, <2>3, <2>4 DEF NoStalePointer, Table!InTable
<1> QED BY <1>4, <1>7, <1>8, <1>9 DEF SchedInv

(* Every step of the loop, the timer and the system calls keeps SchedInv.  *)
LEMMA NextKeepsSchedInv == SchedInv /\ [Next]_vars => SchedInv'
<1> SUFFICES ASSUME SchedInv, [Next]_vars PROVE SchedInv'
  OBVIOUS
<1>1. ASSUME NEW p \in Proc, NEW s \in Slots, ExecOk(p, s) PROVE SchedInv'
  BY <1>1, ExecOkKeeps
<1>2. ASSUME NEW p \in Proc, NEW s \in Slots, ExecBad(p, s) PROVE SchedInv'
  BY <1>2, ExecBadKeeps
<1>3. CASE Dispatch
  BY <1>3, DispatchKeeps
<1>4. CASE Idle
  BY <1>4, IdleKeeps
<1>5. CASE \E d \in VDelta : ResumeRunnable(d)
  BY <1>5, ResumeRunnableKeeps
<1>6. CASE ResumeExited
  BY <1>6, ResumeExitedKeeps
<1>7. ASSUME NEW d \in VDelta, Tick(d) PROVE SchedInv'
  <2>1. curr \in Proc
    BY <1>7, CurrOnCpu DEF Tick, Running
  <2>2. vruntime' \in [Proc -> Nat]
    BY <1>7, <2>1, ChargeTypes DEF SchedInv, SchedTypes, Tick
  <2>3. TP!Inv' /\ UNCHANGED <<processes, proc, panic, pc, runq, cpuVars>>
    BY <1>7, TableKept DEF SchedInv, Tick, tableVars
  <2> QED BY <2>2, <2>3, StandstillKeeps
<1>8. CASE (\E d \in VDelta : PreemptTick(d)) \/ (\E p \in Proc : SysExit(p))
  BY <1>8, LeaveUserKeeps
<1>9. CASE NoInit \/ ExecDead \/ SysSleep \/ \E pid \in 0 .. MaxPid : SysWait(pid)
  <2>1. \/ Table!InitRefused
        \/ \E why \in {"out of memory", "page fault"} : Table!ExecDies(why)
        \/ \E why \in {"deadlock in sleep", "deadlock in wait"} : Table!SelfDeadlock(why)
    BY <1>9 DEF NoInit, ExecDead, SysSleep, SysWait
  <2>2. /\ TP!Inv' /\ panic' # "none"
        /\ UNCHANGED <<processes, proc, pc, runq, vruntime, cpuVars>>
    BY <1>9, <2>1, TablePanics DEF SchedInv, NoInit, ExecDead, SysSleep, SysWait
  <2> QED BY <2>2, StandstillKeeps DEF SchedInv, SchedTypes
<1>10. CASE UNCHANGED vars
  <2>1. TP!Inv' /\ UNCHANGED <<processes, proc, panic, pc, runq, vruntime, cpuVars>>
    BY <1>10, TableKept DEF SchedInv, vars, tableVars
  <2> QED BY <2>1, StandstillKeeps DEF SchedInv, SchedTypes
<1> QED BY <1>1, <1>2, <1>3, <1>4, <1>5, <1>6, <1>7, <1>8, <1>9, <1>10 DEF Next, Halted

(* At the start nobody runs, and nobody is queued.                         *)
LEMMA InitSchedInv == Init => SchedInv
<1> SUFFICES ASSUME Init PROVE SchedInv
  OBVIOUS
<1>1. TP!Inv
  BY TableInit DEF Init
<1>2. \A p \in Proc : ~Table!InTable(p)
  BY SchedulerAssumption DEF Init, Table!Init, Table!InTable
<1>3. \A st : Table!Holding(st) = {}
  BY <1>2 DEF Table!Holding
<1>4. SchedTypes
  BY DEF Init, SchedTypes
<1> QED BY <1>1, <1>3, <1>4 DEF Init, SchedInv, OneOnCpu, ReadyAreQueued, NoStalePointer

(* Table, CPU, locks and line agree in every reachable state.              *)
THEOREM SchedInvariance == Spec => []SchedInv
BY InitSchedInv, NextKeepsSchedInv, PTL DEF Spec

(* One process has the CPU and its own lock, and no lock, RUNNING or       *)
(* EXITED process is left behind in the loop (scheduler.c:562-637).        *)
THEOREM OneProcessOnCpu == Spec => []CpuExclusive
<1>1. SchedInv => TypeOK
  <2> SUFFICES ASSUME SchedInv PROVE TypeOK
    OBVIOUS
  <2>1. Table!TypeOK
    BY TableTypes DEF SchedInv
  <2>2. \A k \in DOMAIN runq : runq[k] \in Proc
    BY DEF SchedInv, SchedTypes
  <2> QED BY <2>1, <2>2 DEF SchedInv, SchedTypes, TypeOK
<1>2. SchedInv => CpuExclusive
  BY <1>1 DEF SchedInv, CpuExclusive
<1> QED BY <1>2, SchedInvariance, PTL

(* No ready process is lost to the scheduler, and none is in line twice.   *)
THEOREM NoReadyProcessLost == Spec => []ReadyAreQueued
<1>1. SchedInv => ReadyAreQueued
  BY DEF SchedInv
<1> QED BY <1>1, SchedInvariance, PTL

(* No global of the scheduler points to a freed struct process             *)
(* (scheduler.c:611).                                                      *)
THEOREM NoDanglingProcess == Spec => []NoStalePointer
<1>1. SchedInv => NoStalePointer
  BY DEF SchedInv
<1> QED BY <1>1, SchedInvariance, PTL
=============================================================================
