----------------------------- MODULE Scheduler -----------------------------
(***************************************************************************)
(* The kernel as a whole, as it schedules: the loop of scheduler_start,    *)
(* the timer interrupt, the system calls that create, end and suspend      *)
(* processes (userspace/scheduler.c, proc.c, exec.c, common/spinlock.c,    *)
(* common/condvar.c), over the process table of ProcTable.                 *)
(*                                                                         *)
(* One CPU.  The kernel runs with interrupts off, user code with them on,  *)
(* so the CPU changes hands only between the program counters below:       *)
(*   "boot"  userspace_init starts the first programs                      *)
(*   "loop"  the head of the scheduling loop                               *)
(*   "user"  curr runs in user mode, interruptible, between system calls   *)
(*   "back"  curr gave the CPU back, the loop continues behind             *)
(*           context_switch_to_user                                        *)
(*   "off"   system_shutdown                                               *)
(*                                                                         *)
(* proc_exec gives every process priority PRIO_NORMAL_MIN and nice 1 and   *)
(* nothing changes them later, so that of the levels of RunQueue one is in *)
(* use; its list is the sequence runq, as RunQueue is shown to implement.  *)
(***************************************************************************)
EXTENDS Integers, Sequences, FiniteSets

CONSTANTS
  Proc, NULL, MAX_PROCESSES, BOOT_PROCESSES, MaxPid,
  VDelta,     \* virtual time between two readings of the clock
  MaxSlice    \* bound: no charge in mid-slice lifts a vruntime above it

ASSUME SchedulerAssumption ==
  /\ NULL \notin Proc
  /\ MAX_PROCESSES \in Nat \ {0}
  /\ BOOT_PROCESSES \in Nat
  /\ MaxPid \in Nat
  /\ VDelta \subseteq Nat
  /\ MaxSlice \in Nat

VARIABLES
  processes, process_count, process_min_index, next_pid, proc, kstacks, panic,
  pc,
  runq,           \* g_runqueue: the RUNNABLE processes, in line
  vruntime,       \* virtual runtime, see Charge
  curr,           \* g_runqueue.curr and cpu_local()->running_process
  last_running,   \* cpu_local()->last_running_process
  locked,         \* the processes whose lock is taken
  intr_depth      \* nesting of save_and_disable_interrupts

tableVars == <<processes, process_count, process_min_index, next_pid, proc,
               kstacks, panic>>
cpuVars == <<curr, last_running, locked, intr_depth>>
vars == <<tableVars, pc, runq, vruntime, cpuVars>>

Table == INSTANCE ProcTable

Slots == Table!Slots

Running == panic = "none" /\ pc = "user"

-----------------------------------------------------------------------------
(* Locks.  With one CPU a lock that is taken is taken by the caller, and   *)
(* spinlock_lock answers that with the "deadlock" panic.                   *)

Lock(p) ==
  /\ p \notin locked
  /\ locked' = locked \cup {p}
  /\ intr_depth' = intr_depth + 1

(* Slip: the return to the loop forgets the lock of a process.             *)
KeepLocked(p) == UNCHANGED <<locked, intr_depth>>

Unlock(p) ==
  /\ p \in locked
  /\ locked' = locked \ {p}
  /\ intr_depth' = intr_depth - 1

-----------------------------------------------------------------------------
(* Virtual time.  sched_pick_next compares the vruntimes of processes of   *)
(* equal weight, and min_vruntime, the start of a new process, stays 0:    *)
(* only differences count, and that every old process is past the start.   *)
(* When the vruntimes of all processes in the table exceed 1 they are      *)
(* shifted down together, which keeps both and makes them finite in        *)
(* number; it shortens the head start of a new process to a few slices.    *)

Shifted(v) ==
  LET live == {p \in Proc : Table!InTable(p) /\ proc[p].state # "UNUSED"}
      excess == CHOOSE e \in {v[p] - 1 : p \in live} : \A p \in live : v[p] - 1 >= e
  IN  IF \A p \in live : v[p] > 1
      THEN [p \in Proc |-> IF p \in live THEN v[p] - excess ELSE v[p]]
      ELSE v

(* sched_update_vruntime for the process on the CPU.                       *)
Charge(d) == vruntime' = Shifted([vruntime EXCEPT ![curr] = @ + d])

-----------------------------------------------------------------------------
(* proc_exec, by userspace_init or by sys_exec of the running process.  A  *)
(* call that fails before proc_allocate returns -1 and changes nothing.    *)
ExecPc == pc' = IF pc = "boot" /\ next_pid' > BOOT_PROCESSES THEN "loop" ELSE pc

ExecOk(p, s) ==
  /\ pc \in {"boot", "user"}
  /\ Table!ExecSucceeds(p, s)
  /\ runq' = Append(runq, p)
  /\ vruntime' = [vruntime EXCEPT ![p] = 0]
  /\ ExecPc
  /\ UNCHANGED cpuVars

ExecBad(p, s) ==
  /\ pc \in {"boot", "user"}
  /\ \/ Table!ExecFails(p, s)
     \/ Table!ExecHitsLimit(p, s)
     \/ Table!ExecRemaps(p, s)
  /\ UNCHANGED <<pc, runq, vruntime, cpuVars>>

ExecDead ==
  /\ pc \in {"boot", "user"}
  /\ \E why \in {"out of memory", "page fault"} : Table!ExecDies(why)
  /\ UNCHANGED <<pc, runq, vruntime, cpuVars>>

NoInit == Table!InitRefused /\ pc = "boot" /\ UNCHANGED <<pc, runq, vruntime, cpuVars>>

-----------------------------------------------------------------------------
(* The scheduling loop.                                                    *)

(* sched_pick_next: the place of the first of the least vruntimes.         *)
PickPlace ==
  CHOOSE k \in DOMAIN runq :
    \A j \in DOMAIN runq :
      IF j < k THEN vruntime[runq[k]] < vruntime[runq[j]]
      ELSE vruntime[runq[k]] <= vruntime[runq[j]]

PickNext == runq[PickPlace]

(* sched_dequeue: the line without its place k.                            *)
Dequeued(k) == [j \in 1 .. Len(runq) - 1 |-> IF j < k THEN runq[j] ELSE runq[j + 1]]

(* scheduler_start, 524-567.                                               *)
Dispatch ==
  /\ panic = "none" /\ pc = "loop" /\ runq # << >>
  /\ Table!Dispatch(PickNext)
  /\ Lock(PickNext)
  /\ runq' = Dequeued(PickPlace)
  /\ curr' = PickNext
  /\ last_running' = PickNext
  /\ pc' = "user"
  /\ UNCHANGED vruntime

(* The RUNNABLE processes of the table that are in no queue, by slot: what *)
(* the loop at 454 puts back.                                              *)
IsStray(s) == processes[s] # NULL /\ proc[processes[s]].state = "RUNNABLE"

Strays ==
  LET slots == [s \in 1 .. process_count |-> s - 1]
      found == SelectSeq(slots, IsStray)
  IN  [k \in DOMAIN found |-> processes[found[k]]]

(* Slip: the struct is freed and last_running_process still points to it.  *)
KeepLastRunning(p) == UNCHANGED last_running

(* A freed struct is forgotten as the owner of the FPU registers.          *)
ForgetLastRunning(p) == last_running' = IF last_running = p THEN NULL ELSE last_running

(* Slip: a slot that a failed proc_exec left behind counts as a process.   *)
AllDoneStrict == \A s \in 0 .. process_count - 1 : processes[s] = NULL

(* all_done: only UNUSED entries are left (504-511).                       *)
AllDone ==
  \A s \in 0 .. process_count - 1 :
    processes[s] = NULL \/ proc[processes[s]].state = "UNUSED"

(* The loop finds the queue empty: it rebuilds it from the table, else     *)
(* reclaims an EXITED process, else shuts the machine down when only       *)
(* UNUSED entries are left, else waits for an interrupt (453-521).         *)
Idle ==
  /\ panic = "none" /\ pc = "loop" /\ runq = << >>
  /\ UNCHANGED <<vruntime, curr, locked, intr_depth>>
  /\ IF \E s \in 0 .. process_count - 1 : IsStray(s)
     THEN runq' = Strays /\ UNCHANGED <<tableVars, pc, last_running>>
     ELSE IF Table!Holding("EXITED") # {}
     THEN /\ \E p \in Proc :
               /\ Table!Reclaim(p)
               /\ ForgetLastRunning(p)
          /\ UNCHANGED <<pc, runq>>
     ELSE /\ pc' = IF AllDone THEN "off" ELSE "loop"
          /\ UNCHANGED <<tableVars, runq, last_running>>

(* Slip: the preempted process is not put back in line.                    *)
ResumeForgets(d) ==
  /\ panic = "none" /\ pc = "back"
  /\ proc[curr].state = "RUNNABLE"
  /\ Unlock(curr)
  /\ Charge(d)
  /\ curr' = NULL
  /\ pc' = "loop"
  /\ UNCHANGED <<tableVars, runq, last_running>>

(* resume_scheduler after a preemption: the lock is given up, the process  *)
(* goes to the end of the line.                                            *)
ResumeRunnable(d) ==
  /\ panic = "none" /\ pc = "back"
  /\ proc[curr].state = "RUNNABLE"
  /\ Unlock(curr)
  /\ Charge(d)
  /\ runq' = Append(runq, curr)
  /\ curr' = NULL
  /\ pc' = "loop"
  /\ UNCHANGED <<tableVars, last_running>>

(* resume_scheduler after an exit: the process is reclaimed at once.       *)
ResumeExited ==
  /\ panic = "none" /\ pc = "back"
  /\ proc[curr].state = "EXITED"
  /\ Unlock(curr)
  /\ Table!Reclaim(curr)
  /\ ForgetLastRunning(curr)
  /\ vruntime' = [vruntime EXCEPT ![curr] = 0]
  /\ curr' = NULL
  /\ pc' = "loop"
  /\ UNCHANGED runq

-----------------------------------------------------------------------------
(* What happens while a process runs.                                      *)

(* The timer interrupt, in the middle of a slice: time is charged.         *)
Tick(d) ==
  /\ Running
  /\ d > 0
  /\ vruntime[curr] + d <= MaxSlice
  /\ Charge(d)
  /\ UNCHANGED <<tableVars, pc, runq, cpuVars>>

(* Slip: the end of a slice is not noticed, time is charged and no more.   *)
SliceNeverEnds(d) == Tick(d)

(* The timer interrupt at the end of a slice: scheduler_tick charges the   *)
(* process, which is at least one unit by now, and preempts it.            *)
PreemptTick(d) ==
  /\ Running
  /\ d > 0
  /\ Table!Preempt(curr)
  /\ Charge(d)
  /\ pc' = "back"
  /\ UNCHANGED <<runq, cpuVars>>

(* proc_exit.  condvar_notify_all takes the lock of every other process in *)
(* turn; nobody is SLEEPING, so it wakes no one up.                        *)
SysExit(p) ==
  /\ Running /\ curr = p
  /\ \A q \in Proc : Table!InTable(q) /\ q # p => q \notin locked
  /\ Table!Exit(p)
  /\ pc' = "back"
  /\ UNCHANGED <<runq, vruntime, cpuVars>>

(* sys_sleep takes the lock of the running process, which Dispatch holds.  *)
SysSleep ==
  /\ Running
  /\ curr \in locked
  /\ Table!SelfDeadlock("deadlock in sleep")
  /\ UNCHANGED <<pc, runq, vruntime, cpuVars>>

(* proc_wait scans the table up to the slot of the target or to a lock     *)
(* that is taken; a target that has not exited is waited for with          *)
(* condvar_wait, which takes the lock of the caller.                       *)
StopsScan(s, pid) ==
  LET stops(t) == processes[t] # NULL /\ (processes[t] \in locked \/ proc[processes[t]].pid = pid)
  IN  stops(s) /\ \A t \in Slots : t < s => ~stops(t)

SysWait(pid) ==
  /\ Running
  /\ \E s \in Slots :
       /\ StopsScan(s, pid)
       /\ \/ processes[s] \in locked
          \/ proc[processes[s]].state # "EXITED" /\ curr \in locked
  /\ Table!SelfDeadlock("deadlock in wait")
  /\ UNCHANGED <<pc, runq, vruntime, cpuVars>>

(* The machine has stopped.                                                *)
Halted == (panic # "none" \/ pc = "off") /\ UNCHANGED vars

-----------------------------------------------------------------------------
Init ==
  /\ Table!Init
  /\ pc = IF BOOT_PROCESSES = 0 THEN "loop" ELSE "boot"
  /\ runq = << >>
  /\ vruntime = [p \in Proc |-> 0]
  /\ curr = NULL
  /\ last_running = NULL
  /\ locked = {}
  /\ intr_depth = 0

Next ==
  \/ \E p \in Proc, s \in Slots : ExecOk(p, s)
  \/ \E p \in Proc, s \in Slots : ExecBad(p, s)
  \/ ExecDead
  \/ NoInit
  \/ Dispatch
  \/ Idle
  \/ \E d \in VDelta : ResumeRunnable(d)
  \/ ResumeExited
  \/ \E d \in VDelta : Tick(d)
  \/ \E d \in VDelta : PreemptTick(d)
  \/ \E p \in Proc : SysExit(p)
  \/ SysSleep
  \/ \E pid \in 0 .. MaxPid : SysWait(pid)
  \/ Halted

Spec == Init /\ [][Next]_vars

(* The kernel's own steps happen, and the periodic timer interrupts user   *)
(* code again and again until the slice is over.                           *)
KernelFairness ==
  /\ WF_vars(\E p \in Proc, s \in Slots : pc = "boot" /\ ExecOk(p, s))
  /\ WF_vars(Dispatch)
  /\ WF_vars(Idle)
  /\ WF_vars(\E d \in VDelta : ResumeRunnable(d))
  /\ WF_vars(ResumeExited)
  /\ WF_vars(\E d \in VDelta : PreemptTick(d))

FairSpec == Spec /\ KernelFairness

(* Every program ends if it gets the CPU often enough: an assumption about *)
(* the programs, not about the kernel.                                     *)
EndingPrograms == \A p \in Proc : SF_vars(SysExit(p))

-----------------------------------------------------------------------------
(* The state is well-typed; save_and_disable_interrupts nests to depth 1   *)
(* between the loop and user mode and never below 0 (spinlock.c).          *)
TypeOK ==
  /\ Table!TypeOK
  /\ pc \in {"boot", "loop", "user", "back", "off"}
  /\ \A k \in DOMAIN runq : runq[k] \in Proc
  /\ vruntime \in [Proc -> Nat]
  /\ curr \in Proc \cup {NULL}
  /\ last_running \in Proc \cup {NULL}
  /\ locked \subseteq Proc
  /\ intr_depth \in 0 .. 1

(* One process has the CPU: it is curr, it is the RUNNING one, and its     *)
(* lock and no other is taken from the switch to user mode to the return   *)
(* (scheduler.c:562-573), as scheduler_switch_back demands (proc.c:317).   *)
(* Back in the loop no lock is left behind and no process is RUNNING or    *)
(* EXITED: nothing that ended waits for the idle loop to reclaim it.       *)
OneOnCpu ==
  panic = "none" =>
    IF pc \in {"user", "back"}
    THEN /\ locked = {curr} /\ intr_depth = 1
         /\ Table!Holding("RUNNING") = IF pc = "user" THEN {curr} ELSE {}
         /\ Table!Holding("EXITED") \subseteq {curr}
    ELSE /\ locked = {} /\ intr_depth = 0 /\ curr = NULL
         /\ Table!Holding("RUNNING") = {} /\ Table!Holding("EXITED") = {}

(* As OneOnCpu says, the CPU, the states and the locks agree through every *)
(* dispatch, preemption, exit and failed exec; no variable leaves its type.*)
CpuExclusive == TypeOK /\ OneOnCpu

(* The processes in line are the RUNNABLE ones, each once, but for the one *)
(* that was just preempted: no process is lost to the scheduler whatever   *)
(* exits, fails or is created meanwhile, so that the loop at 454 never has *)
(* one to recover, and the machine is never shut down (514) with work      *)
(* left.                                                                   *)
ReadyAreQueued ==
  /\ \A j, k \in DOMAIN runq : runq[j] = runq[k] => j = k
  /\ {runq[k] : k \in DOMAIN runq}
       = Table!Holding("RUNNABLE") \ (IF pc = "back" THEN {curr} ELSE {})
  /\ pc = "off" => Table!Holding("RUNNABLE") = {}

(* No global holds the address of a freed struct: curr, the process whose  *)
(* FPU registers are loaded (410 saves them into it), the line.            *)
NoStalePointer ==
  /\ curr # NULL => Table!InTable(curr)
  /\ last_running # NULL => Table!InTable(last_running)
  /\ \A k \in DOMAIN runq : Table!InTable(runq[k])

(* Once no more processes are created, every process that is ready gets    *)
(* the CPU, whatever its competitors do, unless the kernel panics          *)
(* (sched_pick_next, 86-115).  The condition is the code's, not the        *)
(* model's: a new process starts at vruntime 0 and goes before every older *)
(* one, so that programs which create others without end starve them.      *)
ReadyRuns ==
  <>[][next_pid' = next_pid]_vars =>
    \A p \in Proc :
      (Table!InTable(p) /\ proc[p].state = "RUNNABLE") ~>
        (proc[p].state = "RUNNING" \/ panic # "none")

(* When all programs end, the machine is switched off (514) or has         *)
(* panicked; slots that a failed proc_exec leaves in the table (exec.c:371)*)
(* do not keep it on.                                                      *)
Ends == EndingPrograms => <>(pc = "off" \/ panic # "none")
=============================================================================
