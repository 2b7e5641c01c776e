---------------------------- MODULE ReadyQueues ----------------------------
(***************************************************************************)
(* What the run queue of the scheduler promises, without its pointers: the *)
(* ready processes stand in one first-come sequence per priority level,    *)
(* and the process that gets the CPU next is taken from the highest        *)
(* non-empty level - the first in line among the real-time levels, the     *)
(* first of those with the least virtual runtime in the others.            *)
(* RunQueue implements it.                                                 *)
(***************************************************************************)
EXTENDS Integers, Sequences

CONSTANTS Proc, NULL, Levels, PRIO_RT_MAX

VARIABLES
  queue,      \* queue[l]: the ready processes of level l, in line
  curr,       \* the process on the CPU, or NULL
  vruntime    \* virtual runtime of each process

readyVars == <<queue, curr, vruntime>>

Queued(l) == {queue[l][k] : k \in DOMAIN queue[l]}

Ready == UNION {Queued(l) : l \in Levels}

Without(q, k) == [i \in 1 .. Len(q) - 1 |-> IF i < k THEN q[i] ELSE q[i + 1]]

(* The place of level l whose process is to run next.                      *)
Best(l, k) ==
  IF l <= PRIO_RT_MAX
  THEN k = 1
  ELSE /\ \A j \in DOMAIN queue[l] : vruntime[queue[l][k]] <= vruntime[queue[l][j]]
       /\ \A j \in 1 .. k - 1 : vruntime[queue[l][k]] < vruntime[queue[l][j]]

ReadyInit ==
  /\ queue = [l \in Levels |-> << >>]
  /\ curr = NULL
  /\ vruntime \in [Proc -> Nat]

(* A process becomes ready, behind those of its level.                     *)
Arrive(p, l) ==
  /\ p # curr /\ curr' = curr
  /\ p \notin Ready
  /\ queue' = [queue EXCEPT ![l] = Append(@, p)]
  /\ \A q \in Proc \ {p} : vruntime'[q] = vruntime[q]

(* A ready process is given a level, and goes to the end of its line.      *)
Move(from, k) ==
  /\ UNCHANGED <<curr, vruntime>>
  /\ \E to \in Levels :
       queue' = LET out == [queue EXCEPT ![from] = Without(@, k)]
                IN  [out EXCEPT ![to] = Append(@, queue[from][k])]

(* The process at place k of level l gets the CPU.                         *)
Take(l, k) ==
  /\ curr = NULL /\ curr' = queue[l][k]
  /\ UNCHANGED vruntime
  /\ \A h \in Levels : h < l => queue[h] = << >>
  /\ Best(l, k)
  /\ queue' = [queue EXCEPT ![l] = Without(@, k)]

(* The running process is charged for the time it used.                    *)
Charge ==
  /\ curr # NULL
  /\ vruntime'[curr] >= vruntime[curr]
  /\ \A q \in Proc \ {curr} : vruntime'[q] = vruntime[q]

Run == Charge /\ UNCHANGED <<queue, curr>>

PutBack(l) ==
  /\ curr' = NULL
  /\ Charge
  /\ queue' = [queue EXCEPT ![l] = Append(@, curr)]

(* The running process ends or waits for something.                        *)
Leave ==
  /\ curr # NULL
  /\ curr' = NULL
  /\ \A q \in Proc \ {curr} : vruntime'[q] = vruntime[q]
  /\ UNCHANGED queue

ReadyNext ==
  \/ \E p \in Proc, l \in Levels : Arrive(p, l)
  \/ \E from \in Levels : \E k \in DOMAIN queue[from] : Move(from, k)
  \/ \E l \in Levels : \E k \in DOMAIN queue[l] : Take(l, k)
  \/ Run
  \/ \E l \in Levels : PutBack(l)
  \/ Leave

ReadySpec == ReadyInit /\ [][ReadyNext]_readyVars
=============================================================================
