------------------------------ MODULE RunQueue ------------------------------
(***************************************************************************)
(* The run queue of userspace/scheduler.c at the level of its pointers:    *)
(* one doubly linked list of scheduling entities per priority level, with  *)
(* head, tail and size, and the counters of the whole queue.  The actions  *)
(* are the operations of scheduler.h, each with all it does under          *)
(* g_runqueue.lock.  The lists implement the sequences of ReadyQueues.     *)
(*                                                                         *)
(* Time is abstract: a slice adds a member of VDelta to vruntime.          *)
(***************************************************************************)
EXTENDS Integers, FiniteSets, Sequences

CONSTANTS
  Proc, NULL,
  SetPrios,      \* arguments sched_set_priority is called with
  SetNices,      \* arguments sched_nice is called with
  VDelta,        \* virtual time a slice may add
  MaxVruntime,   \* bound on vruntime
  MaxCalls,      \* bound on the calls that change a priority
  CounterMod,    \* 2^32: width of queue_sizes and total_runnable, scaled down
  WeightMod      \* 2^64: width of total_weight, scaled down

SCHED_PRIORITY_LEVELS == 8
PRIO_RT_MAX == 2
PRIO_NORMAL_MIN == 3
PRIO_IDLE_MAX == 7
Levels == 0 .. SCHED_PRIORITY_LEVELS - 1

ASSUME RunQueueAssumption ==
  /\ NULL \notin Proc /\ IsFiniteSet(Proc)
  /\ SetPrios \subseteq 0 .. 255
  /\ SetNices \subseteq -128 .. 127
  /\ VDelta \subseteq Nat
  /\ MaxVruntime \in Nat /\ MaxCalls \in Nat
  /\ CounterMod \in Nat /\ CounterMod > Cardinality(Proc)
  /\ WeightMod \in Nat /\ WeightMod > 88761 * (Cardinality(Proc) + 1)

VARIABLES
  queue_heads, queue_tails, queue_sizes,   \* by level
  total_runnable, total_weight, min_vruntime,
  curr,
  se,          \* se[p]: the scheduling entity of p
  vruntime,    \* se[p].vruntime, kept apart for the refinement
  state,       \* state[p]: process state
  calls        \* calls of sched_set_priority and sched_nice so far

rqVars == <<queue_heads, queue_tails, queue_sizes, total_runnable, total_weight>>
vars == <<rqVars, min_vruntime, curr, se, vruntime, state, calls>>

(* sched_fork: memset to zero, then the defaults.                          *)
FreshEntity ==
  [next |-> NULL, prev |-> NULL, runqueue_prio |-> 0, in_runqueue |-> FALSE,
   static_priority |-> PRIO_NORMAL_MIN, dynamic_priority |-> PRIO_NORMAL_MIN,
   nice |-> 0, rt |-> FALSE, interactive |-> FALSE, cpu_bound |-> FALSE]

weights == <<88761, 71755, 56483, 46273, 36291, 29154, 23254, 15000>>

(* sched_entity_weight                                                     *)
Weight(e) == weights[e.dynamic_priority + 1]

-----------------------------------------------------------------------------
(* sched_enqueue and sched_dequeue, on a run queue held in a record.       *)

Rq == [heads |-> queue_heads, tails |-> queue_tails, sizes |-> queue_sizes,
       runnable |-> total_runnable, weight |-> total_weight, se |-> se]

Install(r) ==
  /\ queue_heads' = r.heads
  /\ queue_tails' = r.tails
  /\ queue_sizes' = r.sizes
  /\ total_runnable' = r.runnable
  /\ total_weight' = r.weight
  /\ se' = r.se

(* The run queue r in which e is the entity of p.                          *)
WithEntity(r, p, e) == [r EXCEPT !.se[p] = e]

Lesser(a, b) == IF a < b THEN a ELSE b

(* p becomes the entity behind last, NULL in an empty list.                *)
LinkLast(ent, p, prio, last) ==
  LET linked == [ent EXCEPT ![p] = [@ EXCEPT !.next = NULL, !.prev = last,
                                             !.runqueue_prio = prio,
                                             !.in_runqueue = TRUE]]
  IN  IF last = NULL THEN linked ELSE [linked EXCEPT ![last].next = p]

Enqueue(r, p) ==
  LET prio == Lesser(r.se[p].dynamic_priority, SCHED_PRIORITY_LEVELS - 1)
      last == r.tails[prio]
  IN  [heads |-> IF last = NULL THEN [r.heads EXCEPT ![prio] = p] ELSE r.heads,
       tails |-> [r.tails EXCEPT ![prio] = p],
       sizes |-> [r.sizes EXCEPT ![prio] = (@ + 1) % CounterMod],
       runnable |-> (r.runnable + 1) % CounterMod,
       weight |-> (r.weight + Weight(r.se[p])) % WeightMod,
       se |-> LinkLast(r.se, p, prio, last)]

(* The neighbours of p are joined.                                         *)
Unlink(ent, p) ==
  LET e == ent[p]
      before == IF e.prev = NULL THEN ent ELSE [ent EXCEPT ![e.prev].next = e.next]
      joined == IF e.next = NULL THEN before ELSE [before EXCEPT ![e.next].prev = e.prev]
  IN  [joined EXCEPT ![p] = [@ EXCEPT !.next = NULL, !.prev = NULL, !.in_runqueue = FALSE]]

(* Dequeueing trusts its caller that p is in the list.                     *)
Dequeue(r, p) ==
  LET e == r.se[p]
      prio == e.runqueue_prio
  IN  [heads |-> IF e.prev = NULL THEN [r.heads EXCEPT ![prio] = e.next] ELSE r.heads,
       tails |-> IF e.next = NULL THEN [r.tails EXCEPT ![prio] = e.prev] ELSE r.tails,
       sizes |-> [r.sizes EXCEPT ![prio] = (@ - 1) % CounterMod],
       runnable |-> (r.runnable - 1) % CounterMod,
       weight |-> (r.weight - Weight(e)) % WeightMod,
       se |-> Unlink(r.se, p)]

-----------------------------------------------------------------------------
(* Following the next pointers.                                            *)

(* The n-th entity from head on, NULL past the end.                        *)
Nth(head, ent) ==
  LET nth[n \in 0 .. Cardinality(Proc)] ==
        IF n = 0 THEN head
        ELSE IF nth[n - 1] = NULL THEN NULL ELSE ent[nth[n - 1]].next
  IN  nth

ListFrom(head, ent) ==
  LET nth == Nth(head, ent)
  IN  [k \in 1 .. Cardinality({n \in DOMAIN nth : nth[n] # NULL}) |-> nth[k - 1]]

(* The list of level l; longer than there are processes if it has a cycle. *)
List(l) == ListFrom(queue_heads[l], se)

(* Slip: the last of the least vruntimes wins.                             *)
PickBestLast(l) ==
  LET q == List(l)
      k == CHOOSE k \in DOMAIN q :
             \A j \in DOMAIN q :
               IF j <= k THEN vruntime[q[k]] <= vruntime[q[j]]
               ELSE vruntime[q[k]] < vruntime[q[j]]
  IN  IF l <= PRIO_RT_MAX THEN queue_heads[l] ELSE q[k]

(* The entity a non-empty level offers.                                    *)
PickBest(l) ==
  LET q == List(l)
      k == CHOOSE k \in DOMAIN q :
             \A j \in DOMAIN q :
               IF j < k THEN vruntime[q[k]] < vruntime[q[j]]
               ELSE vruntime[q[k]] <= vruntime[q[j]]
  IN  IF l <= PRIO_RT_MAX THEN queue_heads[l] ELSE q[k]

(* sched_pick_next                                                         *)
PickNext ==
  IF \A l \in Levels : queue_heads[l] = NULL
  THEN NULL
  ELSE PickBest(CHOOSE l \in Levels :
                  /\ queue_heads[l] # NULL
                  /\ \A h \in Levels : h < l => queue_heads[h] = NULL)

-----------------------------------------------------------------------------
(* Priorities.                                                             *)

(* C division by 4, towards zero.                                          *)
NiceAdjustment(n) == IF n < 0 THEN -((-n) \div 4) ELSE n \div 4

Clamp(n, lo, hi) == IF n < lo THEN lo ELSE IF n > hi THEN hi ELSE n

(* The range check at the entry of sched_nice.                             *)
NiceInRange(n) == Clamp(n, -20, 19)

(* sched_update_priority                                                   *)
UpdatePriority(e) ==
  LET boost == IF e.cpu_bound THEN 1 ELSE IF e.interactive THEN -1 ELSE 0
  IN  IF e.rt THEN e
      ELSE [e EXCEPT !.dynamic_priority =
              Clamp(e.static_priority + boost + NiceAdjustment(e.nice),
                    PRIO_NORMAL_MIN, PRIO_IDLE_MAX)]

(* sched_check_interactive: which of the three verdicts is reached depends *)
(* on the times slept and run, which are left open.                        *)
CheckInteractive(e) ==
  {e, [e EXCEPT !.interactive = TRUE],
      [e EXCEPT !.cpu_bound = TRUE, !.interactive = FALSE]}

(* Slip: a queued process keeps its place when its priority changes.       *)
NoRequeue(r, p) == r

(* The end of sched_set_priority and of sched_nice: the new priority is    *)
(* already in the entity when it is taken out and put back.                *)
Requeue(r, p) ==
  IF state[p] = "RUNNABLE" /\ r.se[p].in_runqueue
  THEN Enqueue(Dequeue(r, p), p)
  ELSE r

(* sched_update_vruntime on the vruntime of p.                             *)
ChargeFor(p, d) ==
  /\ vruntime[p] + d <= MaxVruntime
  /\ vruntime' = [vruntime EXCEPT ![p] = @ + d]
  /\ min_vruntime' = Lesser(min_vruntime, vruntime[p] + d)

-----------------------------------------------------------------------------
(* sched_wakeup of a process that is in no list.                           *)
Wakeup(r, p) ==
  LET e == UpdatePriority([r.se[p] EXCEPT !.next = NULL, !.prev = NULL])
  IN  Enqueue(WithEntity(r, p, e), p)

(* The end of proc_exec: sched_fork, sched_set_priority(PRIO_NORMAL_MIN),  *)
(* sched_nice(1), and sched_wakeup of the USED process.                    *)
Exec(p) ==
  /\ state[p] = "UNUSED"
  /\ vruntime' = [vruntime EXCEPT ![p] = min_vruntime]
  /\ LET e == UpdatePriority([FreshEntity EXCEPT !.nice = 1])
     IN  Install(Wakeup(WithEntity(Rq, p, e), p))
  /\ state' = [state EXCEPT ![p] = "RUNNABLE"]
  /\ UNCHANGED <<min_vruntime, curr, calls>>

(* The scheduler picks a process, takes it out of its queue and runs it.   *)
Schedule ==
  /\ curr = NULL
  /\ total_runnable # 0
  /\ PickNext # NULL
  /\ Install(Dequeue(Rq, PickNext))
  /\ curr' = PickNext
  /\ state' = [state EXCEPT ![PickNext] = "RUNNING"]
  /\ UNCHANGED <<min_vruntime, vruntime, calls>>

(* scheduler_tick before the slice is over.                                *)
Tick(d) ==
  /\ curr # NULL
  /\ ChargeFor(curr, d)
  /\ UNCHANGED <<rqVars, curr, se, state, calls>>

(* scheduler_tick at the end of the slice, scheduler_preempt, and the      *)
(* return to scheduler_start with a RUNNABLE process.                      *)
Preempt(d) ==
  /\ curr # NULL
  /\ ChargeFor(curr, d)
  /\ \E e \in CheckInteractive(se[curr]) :
       Install(Enqueue(WithEntity(Rq, curr, UpdatePriority(e)), curr))
  /\ state' = [state EXCEPT ![curr] = "RUNNABLE"]
  /\ curr' = NULL
  /\ UNCHANGED calls

(* The return to scheduler_start with an EXITED process, whose struct is   *)
(* freed: nothing of it is read again.                                     *)
Exit ==
  /\ curr # NULL
  /\ se' = [se EXCEPT ![curr] = FreshEntity]
  /\ vruntime' = [vruntime EXCEPT ![curr] = 0]
  /\ state' = [state EXCEPT ![curr] = "UNUSED"]
  /\ curr' = NULL
  /\ UNCHANGED <<rqVars, min_vruntime, calls>>

SetPriority(p, prio) ==
  /\ state[p] # "UNUSED"
  /\ prio < SCHED_PRIORITY_LEVELS
  /\ calls < MaxCalls
  /\ calls' = calls + 1
  /\ LET e == [se[p] EXCEPT !.rt = prio <= PRIO_RT_MAX,
                            !.static_priority = prio, !.dynamic_priority = prio]
     IN  Install(Requeue(WithEntity(Rq, p, e), p))
  /\ UNCHANGED <<min_vruntime, curr, vruntime, state>>

Nice(p, nice) ==
  /\ state[p] # "UNUSED"
  /\ calls < MaxCalls
  /\ calls' = calls + 1
  /\ LET e == UpdatePriority([se[p] EXCEPT !.nice = NiceInRange(nice)])
     IN  Install(Requeue(WithEntity(Rq, p, e), p))
  /\ UNCHANGED <<min_vruntime, curr, vruntime, state>>

-----------------------------------------------------------------------------
Init ==
  /\ queue_heads = [l \in Levels |-> NULL]
  /\ queue_tails = [l \in Levels |-> NULL]
  /\ queue_sizes = [l \in Levels |-> 0]
  /\ total_runnable = 0
  /\ total_weight = 0
  /\ min_vruntime = 0
  /\ curr = NULL
  /\ se = [p \in Proc |-> FreshEntity]
  /\ vruntime = [p \in Proc |-> 0]
  /\ state = [p \in Proc |-> "UNUSED"]
  /\ calls = 0

Next ==
  \/ \E p \in Proc : Exec(p)
  \/ Schedule
  \/ \E d \in VDelta : Tick(d)
  \/ \E d \in VDelta : Preempt(d)
  \/ Exit
  \/ \E p \in Proc, prio \in SetPrios : SetPriority(p, prio)
  \/ \E p \in Proc, nice \in SetNices : Nice(p, nice)

Spec == Init /\ [][Next]_vars

-----------------------------------------------------------------------------
(* The fields of the run queue and of its entities have their C types.     *)
TypeOK ==
  /\ queue_heads \in [Levels -> Proc \cup {NULL}]
  /\ queue_tails \in [Levels -> Proc \cup {NULL}]
  /\ queue_sizes \in [Levels -> 0 .. CounterMod - 1]
  /\ total_runnable \in 0 .. CounterMod - 1
  /\ total_weight \in 0 .. WeightMod - 1
  /\ min_vruntime \in 0 .. MaxVruntime
  /\ curr \in Proc \cup {NULL}
  /\ vruntime \in [Proc -> 0 .. MaxVruntime]
  /\ \A p \in Proc : /\ se[p].next \in Proc \cup {NULL}
                     /\ se[p].prev \in Proc \cup {NULL}
                     /\ se[p].dynamic_priority \in Levels
                     /\ se[p].runqueue_prio \in Levels
                     /\ se[p].nice \in -20 .. 19

(* The lists and their counters agree: the list of a level ends, its back  *)
(* pointers mirror its next pointers, head, tail and size are its own,     *)
(* every RUNNABLE process is in exactly the list its runqueue_prio says,   *)
(* and total_runnable counts them - what sched_dequeue relies on when it   *)
(* unlinks an entity without looking for it (scheduler.c:59-84).           *)
Members(q) == {q[k] : k \in DOMAIN q}

InSomeList == UNION {Members(List(l)) : l \in Levels}

QueueIntact ==
  /\ \A l \in Levels :
       LET q == List(l)
       IN  /\ Len(q) <= Cardinality(Proc)
           /\ queue_sizes[l] = Len(q)
           /\ queue_tails[l] = IF q = << >> THEN NULL ELSE q[Len(q)]
           /\ \A k \in DOMAIN q :
                /\ se[q[k]].prev = IF k = 1 THEN NULL ELSE q[k - 1]
                /\ se[q[k]].runqueue_prio = l
                /\ se[q[k]].in_runqueue
  /\ InSomeList = {p \in Proc : state[p] = "RUNNABLE"}
  /\ total_runnable = Cardinality(InSomeList)
  /\ \A p \in Proc : se[p].in_runqueue <=> state[p] = "RUNNABLE"

(* A queued process waits at the level of its current priority: no change  *)
(* of priority leaves it behind in the list of the old one                 *)
(* (scheduler.c:662 "Re-enqueue ... to update position").                  *)
QueuedAtPriority ==
  \A p \in Proc : state[p] = "RUNNABLE" => se[p].runqueue_prio = se[p].dynamic_priority

(* The flag and the level agree on who is real-time: the timeslice reads   *)
(* SCHED_FLAG_RT, sched_pick_next the level; no boost and no nice value    *)
(* lifts a normal process into the FIFO levels.                            *)
RealTimeAgrees ==
  \A p \in Proc : state[p] # "UNUSED" => (se[p].rt <=> se[p].dynamic_priority <= PRIO_RT_MAX)

(* Through any order of creation, dispatch, preemption, exit and changes   *)
(* of priority the run queue is consistent: lists, counters, levels and    *)
(* flags agree (sched_enqueue, sched_dequeue, sched_set_priority).         *)
RunQueueInv == TypeOK /\ QueueIntact /\ QueuedAtPriority /\ RealTimeAgrees

(* The pointer lists implement the sequences of ReadyQueues, step by step. *)
Abstract == INSTANCE ReadyQueues WITH queue <- [l \in Levels |-> List(l)]

Implements == Abstract!ReadySpec
=============================================================================
