----------------------------- MODULE ProcTable -----------------------------
(***************************************************************************)
(* The process table of dzOS (userspace/proc.c, and the parts of exec.c    *)
(* and scheduler.c that fill and drain it) and the kernel stacks that      *)
(* mem/vmm.c maps for the processes in it.                                 *)
(*                                                                         *)
(* processes[] is kept packed: proc_allocate fills the first free slot and *)
(* coelesce_processes closes the hole a dead process leaves, which moves   *)
(* the processes above it down by one.  A process remembers the slot it    *)
(* was born in (orig_i, which names its kernel stack) and the slot it is   *)
(* in now (i).                                                             *)
(*                                                                         *)
(* The kernel runs with interrupts off on one CPU, so every operation      *)
(* below is one step.  panic() stops the machine: `panic` records the      *)
(* reason and no step follows.                                             *)
(***************************************************************************)
EXTENDS Integers

CONSTANTS
  Proc,            \* the pages that struct process can be kalloc()ed in
  NULL,            \* the null pointer
  MAX_PROCESSES,   \* slots of the table (64 in proc.h)
  BOOT_PROCESSES,  \* programs userspace_init starts (2)
  MaxPid           \* bound: the last pid that is handed out

ASSUME TableAssumption ==
  /\ NULL \notin Proc
  /\ MAX_PROCESSES \in Nat \ {0}
  /\ BOOT_PROCESSES \in Nat
  /\ MaxPid \in Nat

VARIABLES
  processes,          \* processes[s]: the struct in slot s, or NULL
  process_count,
  process_min_index,
  next_pid,
  proc,               \* proc[p]: the fields of the struct in page p
  kstacks,            \* indices whose kernel stack is mapped
  panic               \* "none", or why the kernel stopped

vars == <<processes, process_count, process_min_index, next_pid, proc,
          kstacks, panic>>

Slots == 0 .. MAX_PROCESSES - 1

ProcState == {"UNUSED", "USED", "RUNNABLE", "RUNNING", "EXITED"}

PanicReason == {"none", "process limit", "remap", "missing PTE", "no init",
                "out of memory", "page fault", "deadlock in sleep", "deadlock in wait"}

ProcRecord == [i : Slots, orig_i : Slots, pid : 0 .. MaxPid, state : ProcState]

(* The content of a page that holds no process: nothing reads it.          *)
Blank == [i |-> 0, orig_i |-> 0, pid |-> 0, state |-> "UNUSED"]

InTable(p) == \E s \in Slots : processes[s] = p

Holding(st) == {p \in Proc : InTable(p) /\ proc[p].state = st}

Booting == next_pid <= BOOT_PROCESSES

-----------------------------------------------------------------------------
(* proc_allocate.                                                          *)

(* INIT_PROCESS_RANGE: slot 0 if it is free, else the first free slot from *)
(* process_min_index up.                                                   *)
FirstFree(s) ==
  /\ processes[s] = NULL
  /\ \/ s = 0
     \/ /\ processes[0] # NULL
        /\ process_min_index <= s
        /\ \A t \in Slots : process_min_index <= t /\ t < s => processes[t] # NULL

(* The first free slot above s, the next process_min_index.                *)
NextFreeAbove(s, m) ==
  /\ s < m
  /\ processes[m] = NULL
  /\ \A t \in Slots : s < t /\ t < m => processes[t] # NULL

FullAbove(s) == \A t \in Slots : s < t => processes[t] # NULL

(* is_valid_process_init(s) and the bookkeeping of proc_allocate, up to    *)
(* the search for the next process_min_index.  The search looks above s,   *)
(* where the new entry changes nothing.                                    *)
FillSlot(p, s) ==
  /\ processes' = [processes EXCEPT ![s] = p]
  /\ process_count' = IF s = process_count THEN process_count + 1 ELSE process_count
  /\ next_pid' = next_pid + 1

Born(s, st) == [i |-> s, orig_i |-> s, pid |-> next_pid, state |-> st]

(* The caller is userspace_init or the process on the CPU; a free page and *)
(* a pid below the bound are at hand.                                      *)
MayAllocate(p, s) ==
  /\ panic = "none"
  /\ Booting \/ Holding("RUNNING") # {}
  /\ ~InTable(p)
  /\ next_pid <= MaxPid
  /\ FirstFree(s)

-----------------------------------------------------------------------------
(* proc_exec: its outcomes after the ELF header was read.                  *)

(* The whole of proc_exec succeeds: the process has a kernel stack, its    *)
(* scheduling entity is set up and sched_wakeup made it RUNNABLE.  For a   *)
(* caller in user mode that takes a page table which maps the new stack;   *)
(* ExecDies is what happens otherwise.                                     *)
ExecSucceeds(p, s) ==
  /\ MayAllocate(p, s)
  /\ s \notin kstacks
  /\ FillSlot(p, s)
  /\ \E m \in Slots : NextFreeAbove(s, m) /\ process_min_index' = m
  /\ proc' = [proc EXCEPT ![p] = Born(s, "RUNNABLE")]
  /\ kstacks' = kstacks \cup {s}
  /\ UNCHANGED panic

(* A segment cannot be loaded after proc_allocate: the `bad:' path frees   *)
(* the page table and marks the struct UNUSED, but leaves it in its slot.  *)
(* userspace_init answers the -1 with a panic.                             *)
ExecFails(p, s) ==
  /\ MayAllocate(p, s)
  /\ FillSlot(p, s)
  /\ \E m \in Slots : NextFreeAbove(s, m) /\ process_min_index' = m
  /\ proc' = [proc EXCEPT ![p] = [Born(s, "UNUSED") EXCEPT !.pid = 0]]
  /\ panic' = IF Booting THEN "no init" ELSE panic
  /\ UNCHANGED kstacks

(* proc_exec takes the kernel with it: kalloc has no page for the struct   *)
(* (used all the same), the page table or the kernel stack, or the canary  *)
(* is written to a stack that the page table in use does not map           *)
(* (proc.c:333).  That is the table of the process that calls, a copy of   *)
(* the kernel's from before the new stack was mapped.  What processes[]    *)
(* holds by then is not read any more, and is left as it was.              *)
ExecDies(why) ==
  /\ \E p \in Proc, s \in Slots : MayAllocate(p, s)
  /\ panic' = why
  /\ UNCHANGED <<processes, process_count, process_min_index, next_pid, proc,
                 kstacks>>

(* userspace_init cannot open /init, or its header is no ELF header.       *)
InitRefused ==
  /\ panic = "none"
  /\ Booting
  /\ panic' = "no init"
  /\ UNCHANGED <<processes, process_count, process_min_index, next_pid, proc,
                 kstacks>>

(* Slip: the search for the next free slot runs off the end of the table.  *)
ExecRunsOff(p, s) ==
  /\ MayAllocate(p, s)
  /\ FullAbove(s)
  /\ FillSlot(p, s)
  /\ proc' = [proc EXCEPT ![p] = Born(s, "RUNNABLE")]
  /\ process_min_index' = MAX_PROCESSES
  /\ kstacks' = kstacks \cup {s}
  /\ UNCHANGED panic

(* proc_allocate took the last slot.                                       *)
ExecHitsLimit(p, s) ==
  /\ MayAllocate(p, s)
  /\ FullAbove(s)
  /\ FillSlot(p, s)
  /\ proc' = [proc EXCEPT ![p] = Born(s, "USED")]
  /\ panic' = "process limit"
  /\ UNCHANGED <<process_min_index, kstacks>>

(* vmm_allocate_proc_kernel_stack(proc->i) meets the stack of a process    *)
(* that was born in slot s and has moved since.                            *)
ExecRemaps(p, s) ==
  /\ MayAllocate(p, s)
  /\ s \in kstacks
  /\ FillSlot(p, s)
  /\ \E m \in Slots : NextFreeAbove(s, m) /\ process_min_index' = m
  /\ proc' = [proc EXCEPT ![p] = Born(s, "USED")]
  /\ panic' = "remap"
  /\ UNCHANGED kstacks

-----------------------------------------------------------------------------
(* The life of a process between its birth and its end.                    *)

SetState(p, from, to) ==
  /\ panic = "none"
  /\ InTable(p)
  /\ proc[p].state = from
  /\ proc' = [proc EXCEPT ![p].state = to]
  /\ UNCHANGED <<processes, process_count, process_min_index, next_pid,
                 kstacks, panic>>

(* scheduler_start gives the CPU to p.  The process that had it before has *)
(* been put away: re-enqueued or reclaimed.                                *)
Dispatch(p) ==
  /\ ~Booting
  /\ Holding("RUNNING") = {} /\ Holding("EXITED") = {}
  /\ SetState(p, "RUNNABLE", "RUNNING")

(* scheduler_preempt.                                                      *)
Preempt(p) == SetState(p, "RUNNING", "RUNNABLE")

(* proc_exit.                                                              *)
Exit(p) == SetState(p, "RUNNING", "EXITED")

-----------------------------------------------------------------------------
(* coelesce_processes(i), after slot i was cleared.                        *)

(* The loop moves the struct of slot s + 1 into slot s: it stops at the    *)
(* first hole above i and at process_count.                                *)
MovesInto(i, s) ==
  /\ i <= s
  /\ s + 1 < process_count
  /\ \A t \in Slots : i < t /\ t <= s + 1 => processes[t] # NULL

CoalescedTable(i) ==
  [s \in Slots |->
     IF MovesInto(i, s) THEN processes[s + 1]
     ELSE IF s = i \/ MovesInto(i, s - 1) THEN NULL
     ELSE processes[s]]

(* Slip: the process is moved and its index is not.                        *)
RelocatedKeepsIndex(r, s) == r

(* Slip: the birth index moves along with the current one.                 *)
RelocatedRenames(r, s) == [r EXCEPT !.i = s, !.orig_i = s]

(* What a move writes into the struct: its new index i, nothing else.      *)
Relocated(r, s) == [r EXCEPT !.i = s]

CoalescedProc(i, dead) ==
  [p \in Proc |->
     IF p = dead THEN Blank
     ELSE IF \E s \in Slots : MovesInto(i, s) /\ processes[s + 1] = p
     THEN Relocated(proc[p],
                    CHOOSE s \in Slots : MovesInto(i, s) /\ processes[s + 1] = p)
     ELSE proc[p]]

(* Slip: a hole below process_min_index does not lower it.                 *)
MinIndexKept(i) == process_min_index

MinIndexAfter(i) == IF process_min_index > i THEN i ELSE process_min_index

(* Slip: process_count is not decremented.                                 *)
CountKept(i) == process_count

CountAfter(i) == process_count - 1

(* Slip: the stack is looked up under the current index.                   *)
StackOfCurrentIndex(p) == proc[p].i

(* The kernel stack that belongs to p: vmm_free_proc_kernel_stack(orig_i). *)
StackOf(p) == proc[p].orig_i

(* The scheduler puts the dead process away: its kernel stack and its page *)
(* table are freed, its struct is freed and its slot is closed.            *)
Reclaim(p) ==
  /\ panic = "none"
  /\ InTable(p)
  /\ proc[p].state = "EXITED"
  /\ IF StackOf(p) \notin kstacks
     THEN /\ panic' = "missing PTE"
          /\ UNCHANGED <<processes, process_count, process_min_index,
                         next_pid, proc, kstacks>>
     ELSE /\ kstacks' = kstacks \ {StackOf(p)}
          /\ processes' = CoalescedTable(proc[p].i)
          /\ proc' = CoalescedProc(proc[p].i, p)
          /\ process_min_index' = MinIndexAfter(proc[p].i)
          /\ process_count' = CountAfter(proc[p].i)
          /\ UNCHANGED <<next_pid, panic>>

(* The process on the CPU makes a system call that takes its own process   *)
(* lock, which the scheduler holds for it; Scheduler says which.           *)
SelfDeadlock(why) ==
  /\ panic = "none"
  /\ Holding("RUNNING") # {}
  /\ panic' = why
  /\ UNCHANGED <<processes, process_count, process_min_index, next_pid, proc,
                 kstacks>>

(* panic() spins for ever with interrupts off.                             *)
Halted == panic # "none" /\ UNCHANGED vars

-----------------------------------------------------------------------------
Init ==
  /\ processes = [s \in Slots |-> NULL]
  /\ process_count = 0
  /\ process_min_index = 0
  /\ next_pid = 1
  /\ proc = [p \in Proc |-> Blank]
  /\ kstacks = {}
  /\ panic = "none"

Next ==
  \/ \E p \in Proc, s \in Slots : ExecSucceeds(p, s)
  \/ \E p \in Proc, s \in Slots : ExecFails(p, s)
  \/ \E p \in Proc, s \in Slots : ExecHitsLimit(p, s)
  \/ \E p \in Proc, s \in Slots : ExecRemaps(p, s)
  \/ \E p \in Proc : Dispatch(p)
  \/ \E p \in Proc : Preempt(p)
  \/ \E p \in Proc : Exit(p)
  \/ \E p \in Proc : Reclaim(p)
  \/ \E why \in {"out of memory", "page fault"} : ExecDies(why)
  \/ InitRefused
  \/ \E why \in {"deadlock in sleep", "deadlock in wait"} : SelfDeadlock(why)
  \/ Halted

Spec == Init /\ [][Next]_vars

-----------------------------------------------------------------------------
(* The state is well-typed: indices stay inside the table, pids inside the *)
(* bound, and the table points at structs (proc.c, struct process).        *)
TypeOK ==
  /\ processes \in [Slots -> Proc \cup {NULL}]
  /\ process_count \in 0 .. MAX_PROCESSES
  /\ process_min_index \in Slots
  /\ next_pid \in 1 .. MaxPid + 1
  /\ proc \in [Proc -> ProcRecord]
  /\ kstacks \subseteq Slots
  /\ panic \in PanicReason

(* The processes occupy exactly the slots below process_count, whatever    *)
(* the order in which they exit: the loops of scheduler_start that stop at *)
(* process_count (453-510) see every process, and the shift of             *)
(* coelesce_processes leaves no hole behind.                               *)
Packed == \A s \in Slots : processes[s] # NULL <=> s < process_count

(* Each process knows the slot it is in, so that the index that the end of *)
(* a process clears (scheduler.c:617) is its own after any number of       *)
(* moves; in particular no process is in two slots.                        *)
IndexIsSlot == \A s \in Slots : processes[s] # NULL => proc[processes[s]].i = s

(* No slot below process_min_index is free: the search of proc_allocate,   *)
(* which starts there, never passes over a free slot.                      *)
NoFreeSlotBelowMin == \A s \in Slots : s < process_min_index => processes[s] # NULL

(* A process that finished proc_exec and is not yet reclaimed owns the     *)
(* kernel stack of its birth slot alone, and no other stack is mapped:     *)
(* none is leaked, none is freed under a living process, and               *)
(* vmm_free_proc_kernel_stack finds its pages (vmm.c:756).                 *)
Owners == {p \in Proc : InTable(p) /\ proc[p].state \notin {"UNUSED", "USED"}}

StacksOwned ==
  /\ \A k \in Slots : k \in kstacks <=> \E p \in Owners : proc[p].orig_i = k
  /\ \A p, q \in Owners : proc[p].orig_i = proc[q].orig_i => p = q
  /\ panic # "missing PTE"

(* While a process stays in the table, it keeps its pid and the index of   *)
(* its kernel stack, and it only ever moves towards slot 0.                *)
IdentityKept ==
  [][\A p \in Proc :
       InTable(p) /\ InTable(p)' =>
         /\ proc'[p].orig_i = proc[p].orig_i
         /\ proc'[p].pid = proc[p].pid
         /\ proc'[p].i <= proc[p].i]_vars

(* A new process can find its kernel stack mapped, which panics            *)
(* (vmm.c:174), only if coelesce_processes has moved a living process away *)
(* from the slot it was born in: no stack outlives its process.            *)
RemapNeedsMove ==
  panic = "remap" => \E p \in Proc : InTable(p) /\ proc[p].i # proc[p].orig_i
=============================================================================
