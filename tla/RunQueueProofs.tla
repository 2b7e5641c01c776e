-------------------------- MODULE RunQueueProofs ---------------------------
(***************************************************************************)
(* Theorems about RunQueue, for any number of processes and any calls.     *)
(*                                                                         *)
(* The invariant says that there is a sequence of processes for every      *)
(* level, threaded both ways through the entities (Links), and that the    *)
(* entities marked as queued are the members of these sequences (Shape).   *)
(* Such sequences are what the next pointers lead to (LinksAreList), so    *)
(* they are the queues of ReadyQueues: sched_enqueue appends to one of     *)
(* them and sched_dequeue cuts a place out.                                *)
(***************************************************************************)
EXTENDS RunQueue, FiniteSetTheorems, NaturalsInduction, WellFoundedInduction, TLAPS

(* The k-th member of L, NULL outside.                                     *)
At(L, k) == IF k \in 1 .. Len(L) THEN L[k] ELSE NULL

(* L is the list of level l from head to tail, in the entities ent.        *)
Links(L, l, head, tail, ent) ==
  /\ L \in Seq(Proc)
  /\ \A i, j \in 1 .. Len(L) : L[i] = L[j] => i = j
  /\ head = At(L, 1) /\ tail = At(L, Len(L))
  /\ \A i \in 1 .. Len(L) : /\ ent[L[i]].next = At(L, i + 1)
                            /\ ent[L[i]].prev = At(L, i - 1)
                            /\ ent[L[i]].runqueue_prio = l
                            /\ ent[L[i]].in_runqueue

(* L without its k-th member.                                              *)
Cut(L, k) == [i \in 1 .. Len(L) - 1 |-> IF i < k THEN L[i] ELSE L[i + 1]]

(* What sched_enqueue at level l behind last does to the links.            *)
PutLast(ent, ent2, p, last, l) ==
  \A x \in Proc :
    /\ ent2[x].next = IF x = p THEN NULL ELSE IF x = last THEN p ELSE ent[x].next
    /\ ent2[x].prev = IF x = p THEN last ELSE ent[x].prev
    /\ ent2[x].runqueue_prio = IF x = p THEN l ELSE ent[x].runqueue_prio
    /\ ent2[x].in_runqueue <=> (x = p \/ ent[x].in_runqueue)

(* What sched_dequeue does to the links.                                   *)
TakenOut(ent, ent2, p) ==
  \A x \in Proc :
    /\ ent2[x].next = IF x = p THEN NULL
                      ELSE IF x = ent[p].prev THEN ent[p].next ELSE ent[x].next
    /\ ent2[x].prev = IF x = p THEN NULL
                      ELSE IF x = ent[p].next THEN ent[p].prev ELSE ent[x].prev
    /\ ent2[x].runqueue_prio = ent[x].runqueue_prio
    /\ ent2[x].in_runqueue <=> (x # p /\ ent[x].in_runqueue)

-----------------------------------------------------------------------------
(* Lists.                                                                  *)

(* A set of natural numbers that is not empty has a least member.          *)
LEMMA LeastExists ==
  ASSUME NEW T \in SUBSET Nat, T # {}
  PROVE  \E m \in T : \A x \in T : m <= x
<1> DEFINE R == OpToRel(<, Nat)
<1>1. PICK m \in T : \A x \in T : ~(<<x, m>> \in R)
  <2>1. IsWellFoundedOn(R, Nat)
    BY NatLessThanWellFounded
  <2> HIDE DEF R
  <2> QED BY <2>1, WFMin
<1>2. \A x \in T : ~(x < m)
  BY <1>1 DEF OpToRel
<1> QED BY <1>2

(* A list is no longer than there are processes.                           *)
LEMMA LinksShort ==
  ASSUME NEW L, NEW l, NEW head, NEW tail, NEW ent, Links(L, l, head, tail, ent)
  PROVE  Len(L) \in Nat /\ Len(L) <= Cardinality(Proc)
<1>1. L \in Seq(Proc) /\ Len(L) \in Nat /\ L \in [1 .. Len(L) -> Proc]
  BY DEF Links
<1>2. IsFiniteSet(Proc)
  BY RunQueueAssumption
<1>3. IsFiniteSet(1 .. Len(L)) /\ Cardinality(1 .. Len(L)) = Len(L)
  BY <1>1, FS_Interval, SMTT(40)
<1>4. L \in Injection(1 .. Len(L), Proc)
  BY <1>1 DEF Links, Injection, IsInjective
<1>5. Len(L) <= Cardinality(Proc)
  BY <1>2, <1>3, <1>4, FS_Injection
<1> QED BY <1>1, <1>5

(* Following the next pointers from the head gives the list.               *)
LEMMA LinksAreList ==
  ASSUME NEW L, NEW l, NEW head, NEW tail, NEW ent, Links(L, l, head, tail, ent)
  PROVE  ListFrom(head, ent) = L
<1> DEFINE n == Len(L)
           N == Cardinality(Proc)
           Step(f, k) == IF k = 0 THEN head
                         ELSE IF f[k - 1] = NULL THEN NULL ELSE ent[f[k - 1]].next
           g == [k \in 0 .. N |-> At(L, k + 1)]
           h == Nth(head, ent)
<1>1. L \in Seq(Proc) /\ n \in Nat /\ n <= N /\ N \in Nat
  <2>1. L \in Seq(Proc)
    BY DEF Links
  <2>2. n \in Nat /\ n <= N
    BY LinksShort
  <2>3. N \in Nat
    BY RunQueueAssumption, FS_CardinalityType
  <2> QED BY <2>1, <2>2, <2>3
<1>2. NULL \notin Proc /\ \A i \in 1 .. n : L[i] \in Proc
  BY <1>1, RunQueueAssumption
<1>3. g = [k \in 0 .. N |-> Step(g, k)]
  <2> SUFFICES ASSUME NEW k \in 0 .. N PROVE g[k] = Step(g, k)
    OBVIOUS
  <2> HIDE DEF n, N
  <2>1. CASE k = 0
    BY <1>1, <2>1 DEF Links
  <2>2. CASE k # 0 /\ k <= n
    <3>1. k \in 1 .. n /\ k - 1 \in 0 .. N /\ g[k - 1] = L[k] /\ g[k] = At(L, k + 1)
      BY <1>1, <2>2 DEF At, n
    <3>2. ent[L[k]].next = At(L, k + 1)
      BY <3>1 DEF Links, n
    <3> QED BY <1>2, <2>2, <3>1, <3>2
  <2>3. CASE k # 0 /\ ~(k <= n)
    <3>1. k - 1 \in 0 .. N /\ g[k - 1] = NULL /\ g[k] = NULL
      BY <1>1, <2>3 DEF At, n
    <3> QED BY <2>3, <3>1
  <2> QED BY <2>1, <2>2, <2>3
<1>4. h = [k \in 0 .. N |-> Step(h, k)]
  <2> HIDE DEF g
  <2>1. h = CHOOSE f : f = [k \in 0 .. N |-> Step(f, k)]
    BY Zenon DEF Nth
  <2> HIDE DEF Step, N, h
  <2> QED BY <1>3, <2>1, Zenon
<1>5. \A k \in 0 .. N : h[k] = At(L, k + 1)
  <2> SUFFICES ASSUME NEW bad \in 0 .. N, h[bad] # At(L, bad + 1) PROVE FALSE
    OBVIOUS
  <2> DEFINE T == {k \in 0 .. N : h[k] # At(L, k + 1)}
  <2>1. PICK m \in T : \A x \in T : m <= x
    <3>1. T \in SUBSET Nat /\ T # {}
      OBVIOUS
    <3> HIDE DEF T
    <3> QED BY <3>1, LeastExists
  <2> HIDE DEF h, N
  <2>2. m \in 0 .. N /\ h[m] # At(L, m + 1)
    BY <2>1
  <2>3. m = 0 \/ (m - 1 \in 0 .. N /\ h[m - 1] = g[m - 1])
    BY <1>1, <2>1, <2>2
  <2>4. h[m] = Step(h, m) /\ g[m] = Step(g, m)
    BY <1>3, <1>4, <2>2, Zenon
  <2>5. Step(h, m) = Step(g, m)
    <3> HIDE DEF g
    <3> QED BY <2>3
  <2>6. g[m] = At(L, m + 1)
    BY <2>2
  <2> HIDE DEF g, Step
  <2> QED BY <2>2, <2>4, <2>5, <2>6
<1>6. DOMAIN h = 0 .. N
  <2> HIDE DEF Step, N, h
  <2> QED BY <1>4
<1> HIDE DEF h
<1>7. ListFrom(head, ent) = [k \in 1 .. Cardinality({i \in 0 .. N : h[i] # NULL}) |-> h[k - 1]]
  BY <1>6 DEF ListFrom, h
<1> HIDE DEF N, n, g, Step
<1>8. {i \in 0 .. N : h[i] # NULL} = 0 .. n - 1
  <2>1. ASSUME NEW i \in 0 .. N PROVE h[i] # NULL <=> i \in 0 .. n - 1
    BY <1>1, <1>2, <1>5 DEF At, n
  <2>2. 0 .. n - 1 \subseteq 0 .. N
    BY <1>1
  <2> QED BY <2>1, <2>2
<1>9. Cardinality(0 .. n - 1) = n
  BY <1>1, FS_Interval
<1>10. \A k \in 1 .. n : h[k - 1] = L[k]
  BY <1>1, <1>5 DEF At, n
<1>11. L = [k \in 1 .. n |-> L[k]]
  BY <1>1 DEF n
<1> QED BY <1>7, <1>8, <1>9, <1>10, <1>11

(* A list none of whose entities changes its links stays one.              *)
LEMMA LinksKept ==
  ASSUME NEW L, NEW l, NEW head, NEW tail, NEW ent, NEW ent2, Links(L, l, head, tail, ent),
         \A i \in 1 .. Len(L) : /\ ent2[L[i]].next = ent[L[i]].next
                                /\ ent2[L[i]].prev = ent[L[i]].prev
                                /\ ent2[L[i]].runqueue_prio = ent[L[i]].runqueue_prio
                                /\ ent2[L[i]].in_runqueue <=> ent[L[i]].in_runqueue
  PROVE  Links(L, l, head, tail, ent2)
BY DEF Links

(* sched_enqueue puts p behind the others.                                 *)
LEMMA LinksAppended ==
  ASSUME NEW L, NEW l, NEW head, NEW tail, NEW ent, NEW ent2, Links(L, l, head, tail, ent),
         NEW p \in Proc, \A i \in 1 .. Len(L) : L[i] # p,
         PutLast(ent, ent2, p, tail, l)
  PROVE  Links(Append(L, p), l, IF tail = NULL THEN p ELSE head, p, ent2)
<1> DEFINE n == Len(L)
           K == Append(L, p)
<1>1. L \in Seq(Proc) /\ n \in Nat /\ NULL \notin Proc /\ \A i \in 1 .. n : L[i] \in Proc
  BY RunQueueAssumption DEF Links
<1>2. /\ K \in Seq(Proc) /\ Len(K) = n + 1 /\ K[n + 1] = p
      /\ \A i \in 1 .. n : K[i] = L[i]
  BY <1>1
<1>3. \A i, j \in 1 .. n : L[i] = L[j] => i = j
  BY DEF Links
<1>4. head = At(L, 1) /\ tail = At(L, n)
  BY DEF Links
<1>5. \A i \in 1 .. n : /\ ent[L[i]].next = At(L, i + 1) /\ ent[L[i]].prev = At(L, i - 1)
                        /\ ent[L[i]].runqueue_prio = l /\ ent[L[i]].in_runqueue
  BY DEF Links
<1>6. \A i \in 1 .. n : L[i] # p
  OBVIOUS
<1> HIDE DEF n, K
<1>7. /\ \A i \in 0 .. n : At(K, i) = At(L, i)
      /\ At(K, n + 1) = p /\ At(K, n + 2) = NULL
  BY <1>1, <1>2 DEF At, n
<1>8. \A i, j \in 1 .. Len(K) : K[i] = K[j] => i = j
  BY <1>1, <1>2, <1>3, <1>6
<1>9. (IF tail = NULL THEN p ELSE head) = At(K, 1)
  <2>1. CASE n = 0
    BY <1>1, <1>4, <1>7, <2>1 DEF At, n
  <2>2. CASE n > 0
    <3>1. tail = L[n] /\ tail # NULL
      BY <1>1, <1>4, <2>2 DEF At, n
    <3> QED BY <1>1, <1>4, <1>7, <2>2, <3>1
  <2> QED BY <1>1, <2>1, <2>2
<1>10. ASSUME NEW i \in 1 .. Len(K)
       PROVE  /\ ent2[K[i]].next = At(K, i + 1) /\ ent2[K[i]].prev = At(K, i - 1)
              /\ ent2[K[i]].runqueue_prio = l /\ ent2[K[i]].in_runqueue
  <2>1. CASE i = n + 1
    <3>1. /\ ent2[p].next = NULL /\ ent2[p].prev = tail
          /\ ent2[p].runqueue_prio = l /\ ent2[p].in_runqueue
      BY DEF PutLast
    <3>2. At(K, i - 1) = At(L, n) /\ At(K, i + 1) = NULL
      BY <1>1, <1>7, <2>1
    <3> QED BY <1>2, <1>4, <2>1, <3>1, <3>2
  <2>2. CASE i \in 1 .. n
    <3>1. K[i] = L[i] /\ L[i] \in Proc /\ L[i] # p
      BY <1>1, <1>2, <1>6, <2>2
    <3>2. /\ ent2[L[i]].next = IF L[i] = tail THEN p ELSE ent[L[i]].next
          /\ ent2[L[i]].prev = ent[L[i]].prev
          /\ ent2[L[i]].runqueue_prio = ent[L[i]].runqueue_prio
          /\ ent2[L[i]].in_runqueue <=> ent[L[i]].in_runqueue
      BY <3>1 DEF PutLast
    <3>3. L[i] = tail <=> i = n
      BY <1>1, <1>3, <1>4, <2>2 DEF At, n
    <3>4. i # n => At(K, i + 1) = At(L, i + 1)
      BY <1>1, <1>7, <2>2
    <3>5. At(K, i - 1) = At(L, i - 1)
      BY <1>1, <1>7, <2>2
    <3> QED BY <1>5, <1>7, <2>2, <3>1, <3>2, <3>3, <3>4, <3>5
  <2> QED BY <1>1, <1>2, <2>1, <2>2
<1>11. p = At(K, Len(K))
  BY <1>2, <1>7
<1>12. Links(K, l, IF tail = NULL THEN p ELSE head, p, ent2)
  BY <1>2, <1>8, <1>9, <1>10, <1>11 DEF Links
<1> QED BY <1>12 DEF K

(* A list without one of its places.                                       *)
LEMMA CutMeans ==
  ASSUME NEW L \in Seq(Proc), NEW k \in 1 .. Len(L)
  PROVE  /\ Cut(L, k) \in Seq(Proc) /\ Len(Cut(L, k)) = Len(L) - 1
         /\ \A i \in 1 .. k - 1 : Cut(L, k)[i] = L[i]
         /\ \A i \in k .. Len(L) - 1 : Cut(L, k)[i] = L[i + 1]
         /\ \A i \in 0 .. k - 1 : At(Cut(L, k), i) = At(L, i)
         /\ \A i \in k .. Len(L) : At(Cut(L, k), i) = At(L, i + 1)
<1> DEFINE n == Len(L)
           K == Cut(L, k)
<1>1. n \in Nat /\ k \in 1 .. n /\ \A i \in 1 .. n : L[i] \in Proc
  OBVIOUS
<1>2. K = [i \in 1 .. n - 1 |-> IF i < k THEN L[i] ELSE L[i + 1]]
  BY DEF Cut
<1> HIDE DEF n, K
<1>3. /\ K \in Seq(Proc) /\ Len(K) = n - 1
      /\ \A i \in 1 .. k - 1 : K[i] = L[i]
      /\ \A i \in k .. n - 1 : K[i] = L[i + 1]
  <2>1. \A i \in 1 .. n - 1 : (IF i < k THEN L[i] ELSE L[i + 1]) \in Proc
    BY <1>1
  <2>2. K \in Seq(Proc) /\ Len(K) = n - 1
    BY <1>1, <1>2, <2>1
  <2> QED BY <1>1, <1>2, <2>2
<1>4. \A i \in 0 .. k - 1 : At(K, i) = At(L, i)
  BY <1>1, <1>3 DEF At, n
<1>5. \A i \in k .. n : At(K, i) = At(L, i + 1)
  BY <1>1, <1>3 DEF At, n
<1> QED BY <1>3, <1>4, <1>5 DEF n, K

(* sched_dequeue cuts p out.                                               *)
LEMMA LinksCut ==
  ASSUME NEW L, NEW l, NEW head, NEW tail, NEW ent, NEW ent2, Links(L, l, head, tail, ent),
         NEW k \in 1 .. Len(L), TakenOut(ent, ent2, L[k])
  PROVE  Links(Cut(L, k), l, IF ent[L[k]].prev = NULL THEN ent[L[k]].next ELSE head,
               IF ent[L[k]].next = NULL THEN ent[L[k]].prev ELSE tail, ent2)
<1> DEFINE n == Len(L)
           K == Cut(L, k)
           p == L[k]
<1>1. /\ L \in Seq(Proc) /\ n \in Nat /\ NULL \notin Proc /\ k \in 1 .. n
      /\ \A i \in 1 .. n : L[i] \in Proc
  BY RunQueueAssumption DEF Links
<1>2. /\ K \in Seq(Proc) /\ Len(K) = n - 1
      /\ \A i \in 1 .. k - 1 : K[i] = L[i]
      /\ \A i \in k .. n - 1 : K[i] = L[i + 1]
      /\ \A i \in 0 .. k - 1 : At(K, i) = At(L, i)
      /\ \A i \in k .. n : At(K, i) = At(L, i + 1)
  BY <1>1, CutMeans
<1>3. \A i, j \in 1 .. n : L[i] = L[j] => i = j
  BY DEF Links
<1>4. head = At(L, 1) /\ tail = At(L, n)
  BY DEF Links
<1>5. \A i \in 1 .. n : /\ ent[L[i]].next = At(L, i + 1) /\ ent[L[i]].prev = At(L, i - 1)
                        /\ ent[L[i]].runqueue_prio = l /\ ent[L[i]].in_runqueue
  BY DEF Links
<1>6. ent[p].next = At(L, k + 1) /\ ent[p].prev = At(L, k - 1)
  BY <1>5
<1>7. \A i \in 1 .. n : At(L, i) = L[i] /\ At(L, i) # NULL
  BY <1>1 DEF At
<1>8. At(L, 0) = NULL /\ At(L, n + 1) = NULL
  BY <1>1 DEF At
<1>9. \A x \in Proc :
        /\ ent2[x].next = IF x = p THEN NULL
                          ELSE IF x = ent[p].prev THEN ent[p].next ELSE ent[x].next
        /\ ent2[x].prev = IF x = p THEN NULL
                          ELSE IF x = ent[p].next THEN ent[p].prev ELSE ent[x].prev
        /\ ent2[x].runqueue_prio = ent[x].runqueue_prio
        /\ ent2[x].in_runqueue <=> (x # p /\ ent[x].in_runqueue)
  BY DEF TakenOut
<1>10. p = L[k]
  OBVIOUS
<1> HIDE DEF n, K, p
<1>11. \A i, j \in 1 .. Len(K) : K[i] = K[j] => i = j
  <2> SUFFICES ASSUME NEW i \in 1 .. n - 1, NEW j \in 1 .. n - 1, K[i] = K[j] PROVE i = j
    BY <1>2
  <2>1. CASE i < k /\ j < k
    BY <1>1, <1>2, <1>3, <2>1
  <2>2. CASE i < k /\ ~(j < k)
    BY <1>1, <1>2, <1>3, <2>2
  <2>3. CASE ~(i < k) /\ j < k
    BY <1>1, <1>2, <1>3, <2>3
  <2>4. CASE ~(i < k) /\ ~(j < k)
    BY <1>1, <1>2, <1>3, <2>4
  <2> QED BY <2>1, <2>2, <2>3, <2>4
<1>12. (IF ent[p].prev = NULL THEN ent[p].next ELSE head) = At(K, 1)
  <2>1. CASE k = 1
    BY <1>1, <1>2, <1>6, <1>8, <2>1
  <2>2. CASE k # 1
    <3>1. At(L, k - 1) # NULL /\ At(K, 1) = At(L, 1)
      BY <1>1, <1>2, <1>7, <2>2
    <3> QED BY <1>4, <1>6, <3>1
  <2> QED BY <2>1, <2>2
<1>13. (IF ent[p].next = NULL THEN ent[p].prev ELSE tail) = At(K, Len(K))
  <2>1. CASE k = n
    BY <1>1, <1>2, <1>6, <1>8, <2>1
  <2>2. CASE k # n
    <3>1. At(L, k + 1) # NULL /\ At(K, n - 1) = At(L, n)
      BY <1>1, <1>2, <1>7, <2>2
    <3> QED BY <1>2, <1>4, <1>6, <3>1
  <2> QED BY <2>1, <2>2
<1>14. ASSUME NEW i \in 1 .. n, i # k
       PROVE  /\ L[i] \in Proc /\ L[i] # p
              /\ L[i] = ent[p].prev <=> i = k - 1
              /\ L[i] = ent[p].next <=> i = k + 1
  <2>1. L[i] \in Proc /\ L[i] # p /\ L[i] # NULL
    BY <1>1, <1>3, <1>10, <1>14
  <2>2. L[i] = At(L, k - 1) <=> i = k - 1
    BY <1>1, <1>3, <1>7, <1>8, <2>1
  <2>3. L[i] = At(L, k + 1) <=> i = k + 1
    BY <1>1, <1>3, <1>7, <1>8, <2>1
  <2> QED BY <1>6, <2>1, <2>2, <2>3
<1>15. ASSUME NEW i \in 1 .. Len(K)
       PROVE  /\ ent2[K[i]].next = At(K, i + 1) /\ ent2[K[i]].prev = At(K, i - 1)
              /\ ent2[K[i]].runqueue_prio = l /\ ent2[K[i]].in_runqueue
  <2>1. i \in 1 .. n - 1
    BY <1>2
  <2>2. CASE i < k
    <3>1. i \in 1 .. n /\ i # k /\ K[i] = L[i] /\ (i = k - 1 <=> i + 1 = k) /\ i # k + 1
      BY <1>1, <1>2, <2>1, <2>2
    <3>2. /\ ent2[L[i]].next = IF i = k - 1 THEN At(L, k + 1) ELSE At(L, i + 1)
          /\ ent2[L[i]].prev = At(L, i - 1)
          /\ ent2[L[i]].runqueue_prio = l /\ ent2[L[i]].in_runqueue
      BY <1>5, <1>6, <1>9, <1>14, <3>1, SMTT(40)
    <3>3. At(K, i - 1) = At(L, i - 1)
      BY <1>1, <1>2, <2>1, <2>2
    <3>4. At(K, i + 1) = IF i = k - 1 THEN At(L, k + 1) ELSE At(L, i + 1)
      BY <1>1, <1>2, <2>1, <2>2
    <3> QED BY <3>1, <3>2, <3>3, <3>4
  <2>3. CASE ~(i < k)
    <3>1. /\ i + 1 \in 1 .. n /\ i + 1 # k /\ K[i] = L[i + 1]
          /\ (i = k <=> i + 1 = k + 1) /\ i + 1 # k - 1
      BY <1>1, <1>2, <2>1, <2>3
    <3>2. /\ ent2[L[i + 1]].next = At(L, (i + 1) + 1)
          /\ ent2[L[i + 1]].prev = IF i = k THEN At(L, k - 1) ELSE At(L, (i + 1) - 1)
          /\ ent2[L[i + 1]].runqueue_prio = l /\ ent2[L[i + 1]].in_runqueue
      BY <1>5, <1>6, <1>9, <1>14, <3>1, SMTT(40)
    <3>3. At(K, i + 1) = At(L, (i + 1) + 1)
      BY <1>1, <1>2, <2>1, <2>3
    <3>4. At(K, i - 1) = IF i = k THEN At(L, k - 1) ELSE At(L, (i + 1) - 1)
      BY <1>1, <1>2, <2>1, <2>3
    <3> QED BY <3>1, <3>2, <3>3, <3>4
  <2> QED BY <2>1, <2>2, <2>3
<1>16. Links(K, l, IF ent[p].prev = NULL THEN ent[p].next ELSE head,
             IF ent[p].next = NULL THEN ent[p].prev ELSE tail, ent2)
  BY <1>2, <1>11, <1>12, <1>13, <1>15 DEF Links
<1> QED BY <1>16 DEF K, p

-----------------------------------------------------------------------------
(* The run queue as a record.                                              *)
Ref == Proc \cup {NULL}

Entity ==
  [next : Ref, prev : Ref, runqueue_prio : Levels, in_runqueue : BOOLEAN,
   static_priority : Levels, dynamic_priority : Levels, nice : -20 .. 19,
   rt : BOOLEAN, interactive : BOOLEAN, cpu_bound : BOOLEAN]

RqTypes(r) ==
  /\ r.heads \in [Levels -> Ref] /\ r.tails \in [Levels -> Ref]
  /\ r.sizes \in [Levels -> 0 .. CounterMod - 1]
  /\ r.runnable \in 0 .. CounterMod - 1 /\ r.weight \in 0 .. WeightMod - 1
  /\ r.se \in [Proc -> Entity]

Marked(ent) == {p \in Proc : ent[p].in_runqueue}

(* The sequences Q are the lists of r, and nobody else is marked.          *)
Shape(Q, r) ==
  /\ Q \in [Levels -> Seq(Proc)]
  /\ \A l \in Levels : Links(Q[l], l, r.heads[l], r.tails[l], r.se)
  /\ \A l \in Levels : r.sizes[l] = Len(Q[l])
  /\ \A p \in Marked(r.se) :
       \E k \in 1 .. Len(Q[r.se[p].runqueue_prio]) : Q[r.se[p].runqueue_prio][k] = p
  /\ r.runnable = Cardinality(Marked(r.se))

(* ent2 gives x the priorities and flags that it has in ent.               *)
SameRank(ent, ent2, x) ==
  /\ ent2[x].static_priority = ent[x].static_priority
  /\ ent2[x].dynamic_priority = ent[x].dynamic_priority
  /\ ent2[x].nice = ent[x].nice
  /\ ent2[x].rt <=> ent[x].rt

(* The constants of the levels.                                            *)
LEMMA LevelsAre == Levels = 0 .. 7
BY DEF Levels, SCHED_PRIORITY_LEVELS

(* The weights of the levels.                                              *)
LEMMA WeightsOK == \A e \in Entity : Weight(e) \in Nat
<1>1. \A k \in 1 .. 8 : weights[k] \in Nat
  BY DEF weights
<1>2. \A e \in Entity : e.dynamic_priority + 1 \in 1 .. 8
  BY LevelsAre DEF Entity
<1> QED BY <1>1, <1>2 DEF Weight

(* Counting one more or one less.                                          *)
LEMMA Counting ==
  ASSUME NEW S \in SUBSET Proc, NEW p \in Proc
  PROVE  /\ Cardinality(S) \in 0 .. CounterMod - 1
         /\ p \notin S => /\ Cardinality(S \cup {p}) = (Cardinality(S) + 1) % CounterMod
                          /\ Cardinality(S \cup {p}) \in 0 .. CounterMod - 1
         /\ p \in S => Cardinality(S \ {p}) = (Cardinality(S) - 1) % CounterMod
<1>1. IsFiniteSet(Proc) /\ CounterMod \in Nat /\ Cardinality(Proc) < CounterMod
  BY RunQueueAssumption, FS_CardinalityType
<1>2. /\ IsFiniteSet(S) /\ Cardinality(S) <= Cardinality(Proc)
      /\ Cardinality(S \cup {p}) <= Cardinality(Proc)
  <2>1. S \cup {p} \subseteq Proc
    OBVIOUS
  <2> QED BY <1>1, <2>1, FS_Subset
<1>3. /\ Cardinality(S \cup {p}) = IF p \in S THEN Cardinality(S) ELSE Cardinality(S) + 1
      /\ Cardinality(S \ {p}) = IF p \in S THEN Cardinality(S) - 1 ELSE Cardinality(S)
  BY <1>2, FS_AddElement, FS_RemoveElement
<1>4. /\ Cardinality(Proc) \in Nat /\ Cardinality(S) \in Nat /\ Cardinality(S \ {p}) \in Nat
  <2>1. IsFiniteSet(S \ {p})
    BY <1>2, FS_RemoveElement
  <2> QED BY <1>1, <1>2, <2>1, FS_CardinalityType
<1>5. \A a \in 0 .. CounterMod - 1 : a % CounterMod = a
  BY <1>1
<1>6. ASSUME p \notin S
      PROVE  /\ Cardinality(S \cup {p}) = (Cardinality(S) + 1) % CounterMod
             /\ Cardinality(S \cup {p}) \in 0 .. CounterMod - 1
  <2>1. Cardinality(S) + 1 \in 0 .. CounterMod - 1 /\ Cardinality(S \cup {p}) = Cardinality(S) + 1
    BY <1>1, <1>2, <1>3, <1>4, <1>6
  <2> QED BY <1>5, <2>1
<1>7. ASSUME p \in S PROVE Cardinality(S \ {p}) = (Cardinality(S) - 1) % CounterMod
  <2>1. Cardinality(S) - 1 \in 0 .. CounterMod - 1 /\ Cardinality(S \ {p}) = Cardinality(S) - 1
    BY <1>1, <1>2, <1>3, <1>4, <1>7
  <2> QED BY <1>5, <2>1
<1> QED BY <1>1, <1>2, <1>4, <1>6, <1>7

(* A place in a list leads to an entity of that level, marked as queued.   *)
LEMMA Placed ==
  ASSUME NEW Q, NEW r, Shape(Q, r), NEW l \in Levels, NEW k \in 1 .. Len(Q[l])
  PROVE  /\ Q[l] \in Seq(Proc) /\ Q[l][k] \in Proc
         /\ r.se[Q[l][k]].runqueue_prio = l /\ r.se[Q[l][k]].in_runqueue
<1>1. Links(Q[l], l, r.heads[l], r.tails[l], r.se)
  BY DEF Shape
<1> QED BY <1>1 DEF Links

(* What linking p behind last does, field by field.                        *)
LEMMA LinkLastMeans ==
  ASSUME NEW ent \in [Proc -> Entity], NEW p \in Proc, NEW l \in Levels, NEW last \in Ref,
         last # p
  PROVE  /\ LinkLast(ent, p, l, last) \in [Proc -> Entity]
         /\ PutLast(ent, LinkLast(ent, p, l, last), p, last, l)
         /\ \A x \in Proc : SameRank(ent, LinkLast(ent, p, l, last), x)
<1> DEFINE linked == [ent EXCEPT ![p] = [@ EXCEPT !.next = NULL, !.prev = last,
                                                  !.runqueue_prio = l,
                                                  !.in_runqueue = TRUE]]
           e2 == LinkLast(ent, p, l, last)
<1>1. ent[p] \in Entity /\ NULL \notin Proc
  BY RunQueueAssumption
<1>2. linked \in [Proc -> Entity]
  BY <1>1 DEF Entity, Ref
<1>3. \A x \in Proc : x # p => linked[x] = ent[x]
  BY <1>1
<1>4. /\ linked[p].next = NULL /\ linked[p].prev = last
      /\ linked[p].runqueue_prio = l /\ linked[p].in_runqueue
      /\ SameRank(ent, linked, p)
  <2>1. linked[p] = [ent[p] EXCEPT !.next = NULL, !.prev = last,
                                   !.runqueue_prio = l, !.in_runqueue = TRUE]
    BY <1>1 DEF Entity
  <2> QED BY <1>1, <2>1 DEF Entity, SameRank
<1>5. e2 = IF last = NULL THEN linked ELSE [linked EXCEPT ![last] = [linked[last] EXCEPT !.next = p]]
  BY Zenon DEF LinkLast
<1> HIDE DEF linked
<1>6. ASSUME last # NULL
      PROVE  /\ e2 \in [Proc -> Entity]
             /\ e2[last].next = p /\ e2[last].prev = linked[last].prev
             /\ e2[last].runqueue_prio = linked[last].runqueue_prio
             /\ e2[last].in_runqueue <=> linked[last].in_runqueue
             /\ SameRank(linked, e2, last)
             /\ \A x \in Proc : x # last => e2[x] = linked[x]
  <2> HIDE DEF e2
  <2>1. last \in Proc /\ linked[last] \in Entity
    BY <1>2, <1>6 DEF Ref
  <2>2. [linked[last] EXCEPT !.next = p] \in Entity
    BY <2>1 DEF Entity, Ref
  <2>3. e2 \in [Proc -> Entity] /\ e2[last] = [linked[last] EXCEPT !.next = p]
    BY <1>2, <1>5, <1>6, <2>1, <2>2
  <2>4. \A x \in Proc : x # last => e2[x] = linked[x]
    BY <1>2, <1>5, <1>6, <2>1
  <2> QED BY <2>1, <2>3, <2>4 DEF SameRank, Entity
<1>7. last = NULL => e2 = linked
  BY <1>5, Zenon
<1> HIDE DEF e2
<1>8. e2 \in [Proc -> Entity]
  BY <1>2, <1>6, <1>7
<1>9. \A x \in Proc : SameRank(ent, e2, x)
  BY <1>3, <1>4, <1>6, <1>7 DEF SameRank
<1>10. PutLast(ent, e2, p, last, l)
  <2> SUFFICES ASSUME NEW x \in Proc
               PROVE  /\ e2[x].next = IF x = p THEN NULL ELSE IF x = last THEN p ELSE ent[x].next
                      /\ e2[x].prev = IF x = p THEN last ELSE ent[x].prev
                      /\ e2[x].runqueue_prio = IF x = p THEN l ELSE ent[x].runqueue_prio
                      /\ e2[x].in_runqueue <=> (x = p \/ ent[x].in_runqueue)
    BY DEF PutLast
  <2>1. CASE x = p
    BY <1>4, <1>6, <1>7, <2>1
  <2>2. CASE x # p
    BY <1>1, <1>3, <1>6, <1>7, <2>2
  <2> QED BY <2>1, <2>2
<1> QED BY <1>8, <1>9, <1>10 DEF e2

(* What sched_enqueue does, field by field.                                *)
LEMMA EnqueueMeans ==
  ASSUME NEW r, RqTypes(r), NEW p \in Proc,
         NEW last, NEW l, l = r.se[p].dynamic_priority, last = r.tails[l], last # p
  PROVE  /\ l \in Levels /\ last \in Ref
         /\ Enqueue(r, p).heads = IF last = NULL THEN [r.heads EXCEPT ![l] = p] ELSE r.heads
         /\ Enqueue(r, p).tails = [r.tails EXCEPT ![l] = p]
         /\ Enqueue(r, p).sizes = [r.sizes EXCEPT ![l] = (@ + 1) % CounterMod]
         /\ Enqueue(r, p).runnable = (r.runnable + 1) % CounterMod
         /\ Enqueue(r, p).weight \in 0 .. WeightMod - 1
         /\ Enqueue(r, p).se \in [Proc -> Entity]
         /\ PutLast(r.se, Enqueue(r, p).se, p, last, l)
         /\ \A x \in Proc : SameRank(r.se, Enqueue(r, p).se, x)
<1>1. /\ r.se \in [Proc -> Entity] /\ r.se[p] \in Entity /\ l \in Levels /\ last \in Ref
      /\ r.weight \in Nat
  <2>1. r.se \in [Proc -> Entity] /\ r.tails \in [Levels -> Ref] /\ r.weight \in 0 .. WeightMod - 1
    BY DEF RqTypes
  <2>2. l \in Levels
    BY <2>1 DEF Entity
  <2> QED BY <2>1, <2>2
<1>2. Lesser(r.se[p].dynamic_priority, SCHED_PRIORITY_LEVELS - 1) = l
  BY <1>1, LevelsAre DEF Lesser, SCHED_PRIORITY_LEVELS
<1>3. (r.weight + Weight(r.se[p])) % WeightMod \in 0 .. WeightMod - 1
  <2>1. Weight(r.se[p]) \in Nat /\ WeightMod \in Nat \ {0}
    <3>1. Cardinality(Proc) \in Nat
      BY RunQueueAssumption, FS_CardinalityType
    <3> QED BY <1>1, <3>1, WeightsOK, RunQueueAssumption
  <2> QED BY <1>1, <2>1
<1>4. LET L2 == LinkLast(r.se, p, l, last)
      IN  /\ L2 \in [Proc -> Entity]
          /\ PutLast(r.se, L2, p, last, l) /\ \A x \in Proc : SameRank(r.se, L2, x)
  BY <1>1, LinkLastMeans
<1>5. /\ Enqueue(r, p).heads = IF last = NULL THEN [r.heads EXCEPT ![l] = p] ELSE r.heads
      /\ Enqueue(r, p).tails = [r.tails EXCEPT ![l] = p]
      /\ Enqueue(r, p).sizes = [r.sizes EXCEPT ![l] = (@ + 1) % CounterMod]
      /\ Enqueue(r, p).runnable = (r.runnable + 1) % CounterMod
      /\ Enqueue(r, p).weight = (r.weight + Weight(r.se[p])) % WeightMod
      /\ Enqueue(r, p).se = LinkLast(r.se, p, l, last)
  BY <1>2 DEF Enqueue
<1> QED BY <1>1, <1>3, <1>4, <1>5

(* What joining the neighbours of p does, field by field.                  *)
LEMMA UnlinkMeans ==
  ASSUME NEW ent \in [Proc -> Entity], NEW p \in Proc, ent[p].prev # p, ent[p].next # p
  PROVE  /\ Unlink(ent, p) \in [Proc -> Entity]
         /\ TakenOut(ent, Unlink(ent, p), p)
         /\ \A x \in Proc : SameRank(ent, Unlink(ent, p), x)
<1> DEFINE a == ent[p].prev
           b == ent[p].next
           before == IF a = NULL THEN ent
                     ELSE [ent EXCEPT ![a] = [ent[a] EXCEPT !.next = b]]
           joined == IF b = NULL THEN before
                     ELSE [before EXCEPT ![b] = [before[b] EXCEPT !.prev = a]]
           e2 == [joined EXCEPT ![p] = [joined[p] EXCEPT !.next = NULL, !.prev = NULL,
                                                         !.in_runqueue = FALSE]]
<1>1. Unlink(ent, p) = e2
  BY Zenon DEF Unlink
<1>2. a \in Ref /\ b \in Ref /\ a # p /\ b # p /\ NULL \notin Proc
  BY RunQueueAssumption DEF Entity
<1> HIDE DEF a, b
<1>3. /\ before \in [Proc -> Entity]
      /\ \A x \in Proc :
           /\ before[x].next = IF x = a THEN b ELSE ent[x].next
           /\ before[x].prev = ent[x].prev
           /\ before[x].runqueue_prio = ent[x].runqueue_prio
           /\ before[x].in_runqueue <=> ent[x].in_runqueue
           /\ SameRank(ent, before, x)
  <2>1. CASE a = NULL
    BY <1>2, <2>1 DEF SameRank
  <2>2. CASE a # NULL
    <3>1. a \in Proc /\ ent[a] \in Entity
      BY <1>2, <2>2 DEF Ref
    <3>2. [ent[a] EXCEPT !.next = b] \in Entity
      BY <1>2, <3>1 DEF Entity
    <3>3. before \in [Proc -> Entity] /\ before[a] = [ent[a] EXCEPT !.next = b]
      BY <2>2, <3>1, <3>2
    <3>4. \A x \in Proc : x # a => before[x] = ent[x]
      BY <2>2, <3>1
    <3> HIDE DEF before
    <3>5. /\ before[a].next = b /\ before[a].prev = ent[a].prev
          /\ before[a].runqueue_prio = ent[a].runqueue_prio
          /\ before[a].in_runqueue <=> ent[a].in_runqueue
          /\ SameRank(ent, before, a)
      BY <3>1, <3>3 DEF Entity, SameRank
    <3>6. before \in [Proc -> Entity]
      BY <3>3
    <3> QED BY <3>4, <3>5, <3>6 DEF SameRank
  <2> QED BY <2>1, <2>2
<1> HIDE DEF before
<1>4. /\ joined \in [Proc -> Entity]
      /\ \A x \in Proc :
           /\ joined[x].next = before[x].next
           /\ joined[x].prev = IF x = b THEN a ELSE before[x].prev
           /\ joined[x].runqueue_prio = before[x].runqueue_prio
           /\ joined[x].in_runqueue <=> before[x].in_runqueue
           /\ SameRank(before, joined, x)
  <2>1. CASE b = NULL
    BY <1>2, <1>3, <2>1 DEF SameRank
  <2>2. CASE b # NULL
    <3>1. b \in Proc /\ before[b] \in Entity
      BY <1>2, <1>3, <2>2 DEF Ref
    <3>2. [before[b] EXCEPT !.prev = a] \in Entity
      BY <1>2, <3>1 DEF Entity
    <3>3. joined \in [Proc -> Entity] /\ joined[b] = [before[b] EXCEPT !.prev = a]
      BY <1>3, <2>2, <3>1, <3>2
    <3>4. \A x \in Proc : x # b => joined[x] = before[x]
      BY <1>3, <2>2, <3>1
    <3> HIDE DEF joined
    <3>5. /\ joined[b].next = before[b].next /\ joined[b].prev = a
          /\ joined[b].runqueue_prio = before[b].runqueue_prio
          /\ joined[b].in_runqueue <=> before[b].in_runqueue
          /\ SameRank(before, joined, b)
      BY <3>1, <3>3 DEF Entity, SameRank
    <3>6. joined \in [Proc -> Entity]
      BY <3>3
    <3> QED BY <3>4, <3>5, <3>6 DEF SameRank
  <2> QED BY <2>1, <2>2
<1> HIDE DEF joined
<1>5. /\ e2 \in [Proc -> Entity]
      /\ e2[p].next = NULL /\ e2[p].prev = NULL
      /\ e2[p].runqueue_prio = joined[p].runqueue_prio /\ ~e2[p].in_runqueue
      /\ SameRank(joined, e2, p)
      /\ \A x \in Proc : x # p => e2[x] = joined[x]
  <2> DEFINE v == [joined[p] EXCEPT !.next = NULL, !.prev = NULL, !.in_runqueue = FALSE]
  <2>1. joined[p] \in Entity
    BY <1>4
  <2>2. /\ v \in Entity /\ v.next = NULL /\ v.prev = NULL
        /\ v.runqueue_prio = joined[p].runqueue_prio /\ ~v.in_runqueue
        /\ v.static_priority = joined[p].static_priority
        /\ v.dynamic_priority = joined[p].dynamic_priority
        /\ v.nice = joined[p].nice /\ v.rt = joined[p].rt
    BY <2>1 DEF Entity, Ref
  <2>3. e2 = [joined EXCEPT ![p] = v]
    BY Zenon
  <2> HIDE DEF v, e2
  <2>4. e2 \in [Proc -> Entity] /\ e2[p] = v /\ \A x \in Proc : x # p => e2[x] = joined[x]
    BY <1>4, <2>2, <2>3
  <2> QED BY <2>2, <2>4 DEF SameRank
<1> HIDE DEF e2
<1>6. \A x \in Proc : SameRank(ent, e2, x)
  BY <1>3, <1>4, <1>5 DEF SameRank
<1>7. TakenOut(ent, e2, p)
  <2> SUFFICES ASSUME NEW x \in Proc
               PROVE  /\ e2[x].next = IF x = p THEN NULL ELSE IF x = a THEN b ELSE ent[x].next
                      /\ e2[x].prev = IF x = p THEN NULL ELSE IF x = b THEN a ELSE ent[x].prev
                      /\ e2[x].runqueue_prio = ent[x].runqueue_prio
                      /\ e2[x].in_runqueue <=> (x # p /\ ent[x].in_runqueue)
    BY DEF TakenOut, a, b
  <2>1. CASE x = p
    BY <1>3, <1>4, <1>5, <2>1
  <2>2. CASE x # p
    BY <1>3, <1>4, <1>5, <2>2
  <2> QED BY <2>1, <2>2
<1> QED BY <1>1, <1>5, <1>6, <1>7

(* What sched_dequeue does, field by field.                                *)
LEMMA DequeueMeans ==
  ASSUME NEW r, RqTypes(r), NEW p \in Proc, r.se[p].prev # p, r.se[p].next # p,
         NEW l, l = r.se[p].runqueue_prio
  PROVE  /\ l \in Levels
         /\ Dequeue(r, p).heads = IF r.se[p].prev = NULL
                                  THEN [r.heads EXCEPT ![l] = r.se[p].next] ELSE r.heads
         /\ Dequeue(r, p).tails = IF r.se[p].next = NULL
                                  THEN [r.tails EXCEPT ![l] = r.se[p].prev] ELSE r.tails
         /\ Dequeue(r, p).sizes = [r.sizes EXCEPT ![l] = (@ - 1) % CounterMod]
         /\ Dequeue(r, p).runnable = (r.runnable - 1) % CounterMod
         /\ Dequeue(r, p).weight \in 0 .. WeightMod - 1
         /\ Dequeue(r, p).se \in [Proc -> Entity]
         /\ TakenOut(r.se, Dequeue(r, p).se, p)
         /\ \A x \in Proc : SameRank(r.se, Dequeue(r, p).se, x)
<1>1. r.se \in [Proc -> Entity] /\ r.se[p] \in Entity /\ l \in Levels /\ r.weight \in Nat
  <2>1. r.se \in [Proc -> Entity] /\ r.weight \in 0 .. WeightMod - 1
    BY DEF RqTypes
  <2>2. l \in Levels
    BY <2>1 DEF Entity
  <2> QED BY <2>1, <2>2
<1>2. (r.weight - Weight(r.se[p])) % WeightMod \in 0 .. WeightMod - 1
  <2>1. Weight(r.se[p]) \in Nat /\ WeightMod \in Nat \ {0}
    <3>1. Cardinality(Proc) \in Nat
      BY RunQueueAssumption, FS_CardinalityType
    <3> QED BY <1>1, <3>1, WeightsOK, RunQueueAssumption
  <2> QED BY <1>1, <2>1
<1>3. LET u == Unlink(r.se, p)
      IN  /\ u \in [Proc -> Entity]
          /\ TakenOut(r.se, u, p) /\ \A x \in Proc : SameRank(r.se, u, x)
  BY <1>1, UnlinkMeans
<1>4. /\ Dequeue(r, p).heads = IF r.se[p].prev = NULL
                               THEN [r.heads EXCEPT ![l] = r.se[p].next] ELSE r.heads
      /\ Dequeue(r, p).tails = IF r.se[p].next = NULL
                               THEN [r.tails EXCEPT ![l] = r.se[p].prev] ELSE r.tails
      /\ Dequeue(r, p).sizes = [r.sizes EXCEPT ![l] = (@ - 1) % CounterMod]
      /\ Dequeue(r, p).runnable = (r.runnable - 1) % CounterMod
      /\ Dequeue(r, p).weight = (r.weight - Weight(r.se[p])) % WeightMod
      /\ Dequeue(r, p).se = Unlink(r.se, p)
  BY DEF Dequeue
<1> QED BY <1>1, <1>2, <1>3, <1>4

(* What was the shape of a run queue is its shape with p at the end of a   *)
(* level.                                                                  *)
LEMMA EnqueueKeeps ==
  ASSUME NEW Q, NEW r, RqTypes(r), Shape(Q, r), NEW p \in Proc, ~r.se[p].in_runqueue
  PROVE  LET l == r.se[p].dynamic_priority
         IN  /\ l \in Levels
             /\ RqTypes(Enqueue(r, p))
             /\ Shape([Q EXCEPT ![l] = Append(@, p)], Enqueue(r, p))
             /\ Enqueue(r, p).se[p].runqueue_prio = l
             /\ \A x \in Proc : /\ SameRank(r.se, Enqueue(r, p).se, x)
                                /\ Enqueue(r, p).se[x].in_runqueue <=>
                                     (x = p \/ r.se[x].in_runqueue)
                                /\ x # p => Enqueue(r, p).se[x].runqueue_prio = r.se[x].runqueue_prio
<1> DEFINE l == r.se[p].dynamic_priority
           last == r.tails[l]
           r2 == Enqueue(r, p)
           Q2 == [Q EXCEPT ![l] = Append(@, p)]
<1>1. l \in Levels
  BY DEF RqTypes, Entity
<1>2. /\ Q \in [Levels -> Seq(Proc)]
      /\ \A m \in Levels : Links(Q[m], m, r.heads[m], r.tails[m], r.se)
      /\ \A m \in Levels : r.sizes[m] = Len(Q[m])
      /\ \A x \in Marked(r.se) :
           \E k \in 1 .. Len(Q[r.se[x].runqueue_prio]) : Q[r.se[x].runqueue_prio][k] = x
      /\ r.runnable = Cardinality(Marked(r.se))
  BY DEF Shape
<1>3. \A m \in Levels : \A k \in 1 .. Len(Q[m]) :
        /\ Q[m][k] \in Proc /\ r.se[Q[m][k]].runqueue_prio = m
        /\ r.se[Q[m][k]].in_runqueue /\ Q[m][k] # p
  BY Placed
<1>4. NULL \notin Proc
  BY RunQueueAssumption
<1>5. last # p /\ (last = NULL \/ (last \in Proc /\ r.se[last].runqueue_prio = l
                                  /\ r.se[last].in_runqueue))
  <2>1. last = At(Q[l], Len(Q[l]))
    BY <1>1, <1>2 DEF Links
  <2>2. CASE Len(Q[l]) \in 1 .. Len(Q[l])
    <3>1. last = Q[l][Len(Q[l])]
      BY <2>1, <2>2, Zenon DEF At
    <3> HIDE DEF l, last
    <3> QED BY <1>1, <1>3, <2>2, <3>1, ZenonT(60)
  <2>3. CASE ~(Len(Q[l]) \in 1 .. Len(Q[l]))
    BY <1>4, <2>1, <2>3 DEF At
  <2> QED BY <2>2, <2>3
<1> HIDE DEF l, last, r2, Q2
<1>6. /\ last \in Ref
      /\ r2.heads = IF last = NULL THEN [r.heads EXCEPT ![l] = p] ELSE r.heads
      /\ r2.tails = [r.tails EXCEPT ![l] = p]
      /\ r2.sizes = [r.sizes EXCEPT ![l] = (@ + 1) % CounterMod]
      /\ r2.runnable = (r.runnable + 1) % CounterMod
      /\ r2.weight \in 0 .. WeightMod - 1
      /\ r2.se \in [Proc -> Entity]
      /\ PutLast(r.se, r2.se, p, last, l)
      /\ \A x \in Proc : SameRank(r.se, r2.se, x)
  <2>1. l = r.se[p].dynamic_priority /\ last = r.tails[l] /\ last # p /\ r2 = Enqueue(r, p)
    BY <1>5 DEF l, last, r2
  <2>2. /\ last \in Ref
        /\ Enqueue(r, p).heads = IF last = NULL THEN [r.heads EXCEPT ![l] = p] ELSE r.heads
        /\ Enqueue(r, p).tails = [r.tails EXCEPT ![l] = p]
        /\ Enqueue(r, p).sizes = [r.sizes EXCEPT ![l] = (@ + 1) % CounterMod]
        /\ Enqueue(r, p).runnable = (r.runnable + 1) % CounterMod
        /\ Enqueue(r, p).weight \in 0 .. WeightMod - 1
        /\ Enqueue(r, p).se \in [Proc -> Entity]
        /\ PutLast(r.se, Enqueue(r, p).se, p, last, l)
        /\ \A x \in Proc : SameRank(r.se, Enqueue(r, p).se, x)
    BY <2>1, EnqueueMeans, SMTT(40)
  <2> QED BY <2>2 DEF r2
<1>7. Q2 \in [Levels -> Seq(Proc)] /\ Q2[l] = Append(Q[l], p)
      /\ \A m \in Levels : m # l => Q2[m] = Q[m]
  BY <1>1, <1>2 DEF Q2
<1>8. \A x \in Proc : /\ r2.se[x].in_runqueue <=> (x = p \/ r.se[x].in_runqueue)
                      /\ r2.se[x].runqueue_prio = IF x = p THEN l ELSE r.se[x].runqueue_prio
                      /\ x # p => r2.se[x].prev = r.se[x].prev
                      /\ x # p /\ x # last => r2.se[x].next = r.se[x].next
  BY <1>6 DEF PutLast
<1>9. /\ r.heads \in [Levels -> Ref] /\ r.tails \in [Levels -> Ref]
      /\ r.sizes \in [Levels -> 0 .. CounterMod - 1]
  BY DEF RqTypes
<1>10. ASSUME NEW m \in Levels PROVE Links(Q2[m], m, r2.heads[m], r2.tails[m], r2.se)
  <2>1. CASE m = l
    <3>1. Links(Append(Q[l], p), l, IF last = NULL THEN p ELSE r.heads[l], p, r2.se)
      <4>1. Links(Q[l], l, r.heads[l], last, r.se) /\ \A i \in 1 .. Len(Q[l]) : Q[l][i] # p
        BY <1>1, <1>2, <1>3 DEF last
      <4> QED BY <1>6, <4>1, LinksAppended
    <3>2. r2.heads[l] = IF last = NULL THEN p ELSE r.heads[l]
      BY <1>1, <1>6, <1>9
    <3>3. r2.tails[l] = p
      BY <1>1, <1>6, <1>9
    <3> QED BY <1>7, <2>1, <3>1, <3>2, <3>3
  <2>2. CASE m # l
    <3>1. r2.heads[m] = r.heads[m] /\ r2.tails[m] = r.tails[m] /\ Q2[m] = Q[m]
      BY <1>1, <1>6, <1>7, <1>9, <2>2
    <3>2. \A i \in 1 .. Len(Q[m]) : Q[m][i] \in Proc /\ Q[m][i] # p /\ Q[m][i] # last
      BY <1>3, <1>4, <1>5, <2>2
    <3>3. Links(Q[m], m, r.heads[m], r.tails[m], r.se)
      BY <1>2
    <3>4. Links(Q[m], m, r.heads[m], r.tails[m], r2.se)
      BY <1>8, <3>2, <3>3, LinksKept
    <3> QED BY <3>1, <3>4
  <2> QED BY <2>1, <2>2
<1>11. Marked(r2.se) = Marked(r.se) \cup {p} /\ p \notin Marked(r.se) /\ Marked(r.se) \subseteq Proc
  BY <1>8 DEF Marked
<1>12. /\ r2.runnable = Cardinality(Marked(r2.se)) /\ r2.runnable \in 0 .. CounterMod - 1
  <2> DEFINE S == Marked(r.se)
  <2>1. S \in SUBSET Proc /\ p \notin S /\ Marked(r2.se) = S \cup {p}
    BY <1>11
  <2>2. r.runnable = Cardinality(S) /\ r2.runnable = (Cardinality(S) + 1) % CounterMod
    BY <1>2, <1>6
  <2> HIDE DEF S
  <2>3. /\ Cardinality(S \cup {p}) = (Cardinality(S) + 1) % CounterMod
        /\ Cardinality(S \cup {p}) \in 0 .. CounterMod - 1
    BY <2>1, Counting
  <2> QED BY <2>1, <2>2, <2>3
<1>13. ASSUME NEW m \in Levels PROVE r2.sizes[m] = Len(Q2[m]) /\ Len(Q2[m]) \in 0 .. CounterMod - 1
  <2>1. Len(Q2[m]) \in Nat /\ Len(Q2[m]) <= Cardinality(Proc)
    BY <1>10, LinksShort
  <2>2. CounterMod \in Nat /\ Cardinality(Proc) < CounterMod /\ Cardinality(Proc) \in Nat
    BY RunQueueAssumption, FS_CardinalityType
  <2>3. Len(Q2[m]) \in 0 .. CounterMod - 1
    BY <2>1, <2>2
  <2>4. CASE m = l
    <3>1. Len(Q2[m]) = Len(Q[l]) + 1 /\ r.sizes[l] = Len(Q[l])
      BY <1>1, <1>2, <1>7, <2>4
    <3>2. r2.sizes[l] = (Len(Q[l]) + 1) % CounterMod
      BY <1>1, <1>6, <1>9, <3>1
    <3>3. \A a \in 0 .. CounterMod - 1 : a % CounterMod = a
      BY <2>2
    <3> QED BY <2>3, <2>4, <3>1, <3>2, <3>3
  <2>5. CASE m # l
    BY <1>2, <1>6, <1>7, <1>9, <2>3, <2>5
  <2> QED BY <2>4, <2>5
<1>14. ASSUME NEW x \in Marked(r2.se)
       PROVE  \E k \in 1 .. Len(Q2[r2.se[x].runqueue_prio]) : Q2[r2.se[x].runqueue_prio][k] = x
  <2>1. x \in Proc
    BY DEF Marked
  <2>2. CASE x = p
    <3>1. r2.se[x].runqueue_prio = l /\ Q[l] \in Seq(Proc)
      BY <1>1, <1>2, <1>8, <2>2
    <3>2. Len(Q2[l]) \in 1 .. Len(Q2[l]) /\ Q2[l][Len(Q2[l])] = p
      BY <1>7, <3>1
    <3> QED BY <2>2, <3>1, <3>2
  <2>3. CASE x # p
    <3> DEFINE m == r.se[x].runqueue_prio
    <3>1. x \in Marked(r.se) /\ r2.se[x].runqueue_prio = m /\ m \in Levels
      <4>1. x \in Marked(r.se) /\ r2.se[x].runqueue_prio = m
        BY <1>8, <1>11, <2>1, <2>3
      <4>2. m \in Levels
        BY <2>1 DEF RqTypes, Entity
      <4> QED BY <4>1, <4>2
    <3>2. PICK k \in 1 .. Len(Q[m]) : Q[m][k] = x
      BY <1>2, <3>1
    <3> HIDE DEF m
    <3>3. k \in 1 .. Len(Q2[m]) /\ Q2[m][k] = x
      <4>1. Q[m] \in Seq(Proc)
        BY <1>2, <3>1
      <4>2. CASE m = l
        BY <1>7, <3>2, <4>1, <4>2
      <4>3. CASE m # l
        BY <1>7, <3>1, <3>2, <4>3
      <4> QED BY <4>2, <4>3
    <3> QED BY <3>1, <3>3
  <2> QED BY <2>2, <2>3
<1>15. Shape(Q2, r2)
  BY <1>7, <1>10, <1>12, <1>13, <1>14 DEF Shape
<1>16. RqTypes(r2)
  <2>1. r2.heads \in [Levels -> Ref] /\ r2.tails \in [Levels -> Ref]
    BY <1>1, <1>6, <1>9 DEF Ref
  <2>2. r2.sizes \in [Levels -> 0 .. CounterMod - 1]
    <3>1. DOMAIN r2.sizes = Levels /\ r2.sizes = [m \in Levels |-> r2.sizes[m]]
      BY <1>6, <1>9
    <3> QED BY <1>13, <3>1
  <2> QED BY <1>6, <1>12, <2>1, <2>2 DEF RqTypes
<1> QED BY <1>1, <1>6, <1>8, <1>15, <1>16 DEF l, r2, Q2

(* A place of a list whose entity is taken out is cut out of it.           *)
LEMMA DequeueKeeps ==
  ASSUME NEW Q, NEW r, RqTypes(r), Shape(Q, r), NEW l \in Levels, NEW k \in 1 .. Len(Q[l])
  PROVE  LET p == Q[l][k]
         IN  /\ p \in Proc
             /\ RqTypes(Dequeue(r, p))
             /\ Shape([Q EXCEPT ![l] = Cut(@, k)], Dequeue(r, p))
             /\ \A x \in Proc : /\ SameRank(r.se, Dequeue(r, p).se, x)
                                /\ Dequeue(r, p).se[x].in_runqueue <=>
                                     (x # p /\ r.se[x].in_runqueue)
                                /\ Dequeue(r, p).se[x].runqueue_prio = r.se[x].runqueue_prio
<1> DEFINE p == Q[l][k]
           r2 == Dequeue(r, p)
           Q2 == [Q EXCEPT ![l] = Cut(@, k)]
<1>1. /\ Q \in [Levels -> Seq(Proc)]
      /\ \A m \in Levels : Links(Q[m], m, r.heads[m], r.tails[m], r.se)
      /\ \A m \in Levels : r.sizes[m] = Len(Q[m])
      /\ \A x \in Marked(r.se) :
           \E i \in 1 .. Len(Q[r.se[x].runqueue_prio]) : Q[r.se[x].runqueue_prio][i] = x
      /\ r.runnable = Cardinality(Marked(r.se))
  BY DEF Shape
<1>2. \A m \in Levels : \A i \in 1 .. Len(Q[m]) :
        /\ Q[m][i] \in Proc /\ r.se[Q[m][i]].runqueue_prio = m /\ r.se[Q[m][i]].in_runqueue
  BY Placed
<1>3. NULL \notin Proc
  BY RunQueueAssumption
<1>4. p \in Proc /\ r.se[p].runqueue_prio = l /\ r.se[p].in_runqueue
  BY <1>2
<1>5. /\ Q[l] \in Seq(Proc) /\ \A i, j \in 1 .. Len(Q[l]) : Q[l][i] = Q[l][j] => i = j
      /\ r.se[p].next = At(Q[l], k + 1) /\ r.se[p].prev = At(Q[l], k - 1)
  BY <1>1 DEF Links
<1>6. ASSUME NEW y, y = r.se[p].next \/ y = r.se[p].prev
      PROVE  y # p /\ (y = NULL \/ (y \in Proc /\ r.se[y].runqueue_prio = l))
  <2>1. PICK j \in {k - 1, k + 1} : y = At(Q[l], j)
    BY <1>5, <1>6
  <2>2. CASE j \in 1 .. Len(Q[l])
    <3>1. y = Q[l][j] /\ j # k
      BY <2>1, <2>2 DEF At
    <3> QED BY <1>2, <1>5, <2>2, <3>1
  <2>3. CASE ~(j \in 1 .. Len(Q[l]))
    BY <1>3, <1>4, <2>1, <2>3 DEF At
  <2> QED BY <2>2, <2>3
<1>7. r.se[p].prev # p /\ r.se[p].next # p
  BY <1>6
<1> HIDE DEF p, r2, Q2
<1>8. /\ r2.heads = IF r.se[p].prev = NULL THEN [r.heads EXCEPT ![l] = r.se[p].next] ELSE r.heads
      /\ r2.tails = IF r.se[p].next = NULL THEN [r.tails EXCEPT ![l] = r.se[p].prev] ELSE r.tails
      /\ r2.sizes = [r.sizes EXCEPT ![l] = (@ - 1) % CounterMod]
      /\ r2.runnable = (r.runnable - 1) % CounterMod
      /\ r2.weight \in 0 .. WeightMod - 1
      /\ r2.se \in [Proc -> Entity]
      /\ TakenOut(r.se, r2.se, p)
      /\ \A x \in Proc : SameRank(r.se, r2.se, x)
  BY <1>4, <1>7, DequeueMeans DEF r2
<1>9. /\ Cut(Q[l], k) \in Seq(Proc) /\ Len(Cut(Q[l], k)) = Len(Q[l]) - 1
      /\ \A i \in 1 .. k - 1 : Cut(Q[l], k)[i] = Q[l][i]
      /\ \A i \in k .. Len(Q[l]) - 1 : Cut(Q[l], k)[i] = Q[l][i + 1]
  BY <1>5, CutMeans
<1>10. /\ Q2 \in [Levels -> Seq(Proc)] /\ Q2[l] = Cut(Q[l], k)
       /\ \A m \in Levels : m # l => Q2[m] = Q[m]
  BY <1>1, <1>9 DEF Q2
<1>11. \A x \in Proc :
         /\ r2.se[x].in_runqueue <=> (x # p /\ r.se[x].in_runqueue)
         /\ r2.se[x].runqueue_prio = r.se[x].runqueue_prio
         /\ x # p /\ x # r.se[p].next => r2.se[x].prev = r.se[x].prev
         /\ x # p /\ x # r.se[p].prev => r2.se[x].next = r.se[x].next
  BY <1>8 DEF TakenOut
<1>12. /\ r.heads \in [Levels -> Ref] /\ r.tails \in [Levels -> Ref]
       /\ r.sizes \in [Levels -> 0 .. CounterMod - 1]
  BY DEF RqTypes
<1>13. ASSUME NEW m \in Levels PROVE Links(Q2[m], m, r2.heads[m], r2.tails[m], r2.se)
  <2>1. CASE m = l
    <3>1. Links(Cut(Q[l], k), l, IF r.se[p].prev = NULL THEN r.se[p].next ELSE r.heads[l],
                IF r.se[p].next = NULL THEN r.se[p].prev ELSE r.tails[l], r2.se)
      <4>1. Links(Q[l], l, r.heads[l], r.tails[l], r.se) /\ TakenOut(r.se, r2.se, Q[l][k])
        BY <1>1, <1>8 DEF p
      <4> QED BY <4>1, LinksCut DEF p
    <3>2. r2.heads[l] = IF r.se[p].prev = NULL THEN r.se[p].next ELSE r.heads[l]
      BY <1>8, <1>12
    <3>3. r2.tails[l] = IF r.se[p].next = NULL THEN r.se[p].prev ELSE r.tails[l]
      BY <1>8, <1>12
    <3> QED BY <1>10, <2>1, <3>1, <3>2, <3>3
  <2>2. CASE m # l
    <3>1. r2.heads[m] = r.heads[m] /\ r2.tails[m] = r.tails[m] /\ Q2[m] = Q[m]
      BY <1>8, <1>10, <1>12, <2>2
    <3>2. \A i \in 1 .. Len(Q[m]) : /\ Q[m][i] \in Proc /\ Q[m][i] # p
                                    /\ Q[m][i] # r.se[p].next /\ Q[m][i] # r.se[p].prev
      BY <1>2, <1>3, <1>4, <1>6, <2>2
    <3>3. Links(Q[m], m, r.heads[m], r.tails[m], r.se)
      BY <1>1
    <3>4. Links(Q[m], m, r.heads[m], r.tails[m], r2.se)
      BY <1>2, <1>11, <3>2, <3>3, LinksKept
    <3> QED BY <3>1, <3>4
  <2> QED BY <2>1, <2>2
<1>14. Marked(r2.se) = Marked(r.se) \ {p} /\ p \in Marked(r.se) /\ Marked(r.se) \subseteq Proc
  BY <1>4, <1>11 DEF Marked
<1>15. r2.runnable = Cardinality(Marked(r2.se)) /\ r2.runnable \in 0 .. CounterMod - 1
  <2> DEFINE S == Marked(r.se)
             S2 == Marked(r2.se)
  <2>1. S \in SUBSET Proc /\ p \in S /\ S2 = S \ {p} /\ S2 \in SUBSET Proc
    BY <1>14
  <2>2. r2.runnable = (Cardinality(S) - 1) % CounterMod
    BY <1>1, <1>8
  <2> HIDE DEF S, S2
  <2>3. Cardinality(S \ {p}) = (Cardinality(S) - 1) % CounterMod
    BY <1>4, <2>1, Counting
  <2>4. Cardinality(S2) \in 0 .. CounterMod - 1
    BY <1>4, <2>1, Counting
  <2>5. r2.runnable = Cardinality(S2)
    BY <2>1, <2>2, <2>3
  <2> QED BY <2>4, <2>5 DEF S2
<1>16. ASSUME NEW m \in Levels PROVE r2.sizes[m] = Len(Q2[m]) /\ Len(Q2[m]) \in 0 .. CounterMod - 1
  <2>1. Len(Q2[m]) \in Nat /\ Len(Q2[m]) <= Cardinality(Proc)
    BY <1>13, LinksShort
  <2>2. CounterMod \in Nat /\ Cardinality(Proc) < CounterMod /\ Cardinality(Proc) \in Nat
    BY RunQueueAssumption, FS_CardinalityType
  <2>3. Len(Q2[m]) \in 0 .. CounterMod - 1
    BY <2>1, <2>2
  <2>4. CASE m = l
    <3>1. Len(Q2[m]) = Len(Q[l]) - 1 /\ r.sizes[l] = Len(Q[l])
      BY <1>1, <1>9, <1>10, <2>4
    <3>2. r2.sizes[l] = (Len(Q[l]) - 1) % CounterMod
      BY <1>8, <1>12, <3>1
    <3>3. \A a \in 0 .. CounterMod - 1 : a % CounterMod = a
      BY <2>2
    <3> QED BY <2>3, <2>4, <3>1, <3>2, <3>3
  <2>5. CASE m # l
    BY <1>1, <1>8, <1>10, <1>12, <2>3, <2>5
  <2> QED BY <2>4, <2>5
<1>17. ASSUME NEW x \in Marked(r2.se)
       PROVE  \E i \in 1 .. Len(Q2[r2.se[x].runqueue_prio]) : Q2[r2.se[x].runqueue_prio][i] = x
  <2> DEFINE m == r.se[x].runqueue_prio
  <2>1. x \in Proc /\ x # p /\ x \in Marked(r.se) /\ r2.se[x].runqueue_prio = m /\ m \in Levels
    <3>1. x \in Proc /\ x # p /\ x \in Marked(r.se) /\ r2.se[x].runqueue_prio = m
      BY <1>11, <1>14
    <3>2. m \in Levels
      BY <3>1 DEF RqTypes, Entity
    <3> QED BY <3>1, <3>2
  <2>2. PICK i \in 1 .. Len(Q[m]) : Q[m][i] = x
    BY <1>1, <2>1
  <2> HIDE DEF m
  <2>3. CASE m # l
    BY <1>10, <2>1, <2>2, <2>3
  <2>4. CASE m = l /\ i < k
    <3>1. i \in 1 .. Len(Q2[l]) /\ Q2[l][i] = x
      BY <1>5, <1>9, <1>10, <2>2, <2>4
    <3> QED BY <2>1, <2>4, <3>1
  <2>5. CASE m = l /\ ~(i < k)
    <3>1. i # k
      BY <2>1, <2>2, <2>5 DEF p
    <3>2. i - 1 \in k .. Len(Q[l]) - 1 /\ i - 1 \in 1 .. Len(Q2[l]) /\ (i - 1) + 1 = i
      BY <1>5, <1>9, <1>10, <2>2, <2>5, <3>1
    <3>3. Q2[l][i - 1] = x
      BY <1>9, <1>10, <2>2, <2>5, <3>2
    <3> QED BY <2>1, <2>5, <3>2, <3>3
  <2> QED BY <2>3, <2>4, <2>5
<1>18. Shape(Q2, r2)
  BY <1>10, <1>13, <1>15, <1>16, <1>17 DEF Shape
<1>19. RqTypes(r2)
  <2>1. r.se[p].next \in Ref /\ r.se[p].prev \in Ref
    BY <1>6 DEF Ref
  <2>2. r2.heads \in [Levels -> Ref] /\ r2.tails \in [Levels -> Ref]
    BY <1>8, <1>12, <2>1
  <2>3. r2.sizes \in [Levels -> 0 .. CounterMod - 1]
    <3>1. DOMAIN r2.sizes = Levels /\ r2.sizes = [m \in Levels |-> r2.sizes[m]]
      BY <1>8, <1>12
    <3> QED BY <1>16, <3>1
  <2> QED BY <1>8, <1>15, <2>2, <2>3 DEF RqTypes
<1> QED BY <1>4, <1>8, <1>11, <1>18, <1>19 DEF p, r2, Q2

(* A run queue in which only the entity of p is another.                   *)
Swapped(r, r2, p, e) ==
  /\ r2.heads = r.heads /\ r2.tails = r.tails /\ r2.sizes = r.sizes
  /\ r2.runnable = r.runnable /\ r2.weight = r.weight
  /\ r2.se = [r.se EXCEPT ![p] = e]

(* The links of e are those of f.                                          *)
SameLinks(e, f) ==
  /\ e.next = f.next /\ e.prev = f.prev /\ e.runqueue_prio = f.runqueue_prio

(* A change that leaves the links of a queued entity alone leaves the      *)
(* lists alone.                                                            *)
LEMMA ChangeKeeps ==
  ASSUME NEW Q, NEW r, NEW r2, RqTypes(r), Shape(Q, r), NEW p \in Proc, NEW e \in Entity,
         Swapped(r, r2, p, e),
         e.in_runqueue <=> r.se[p].in_runqueue,
         r.se[p].in_runqueue => SameLinks(e, r.se[p])
  PROVE  /\ RqTypes(r2) /\ Shape(Q, r2)
         /\ r2.se[p] = e /\ \A x \in Proc : x # p => r2.se[x] = r.se[x]
<1>1. r.se \in [Proc -> Entity] /\ r2.se = [r.se EXCEPT ![p] = e]
  BY DEF RqTypes, Swapped
<1>2. r2.se \in [Proc -> Entity] /\ r2.se[p] = e /\ \A x \in Proc : x # p => r2.se[x] = r.se[x]
  BY <1>1
<1>3. RqTypes(r2)
  BY <1>2 DEF RqTypes, Swapped
<1>4. ASSUME NEW x \in Proc
      PROVE  /\ r2.se[x].in_runqueue <=> r.se[x].in_runqueue
             /\ r.se[x].in_runqueue => SameLinks(r2.se[x], r.se[x])
  <2>1. CASE x = p
    BY <1>2, <2>1
  <2>2. CASE x # p
    BY <1>2, <2>2 DEF SameLinks
  <2> QED BY <2>1, <2>2
<1>5. Marked(r2.se) = Marked(r.se)
  BY <1>4 DEF Marked
<1>6. ASSUME NEW l \in Levels PROVE Links(Q[l], l, r2.heads[l], r2.tails[l], r2.se)
  <2>1. Links(Q[l], l, r.heads[l], r.tails[l], r.se)
    BY DEF Shape
  <2>2. \A i \in 1 .. Len(Q[l]) : Q[l][i] \in Proc /\ r.se[Q[l][i]].in_runqueue
    BY Placed
  <2>3. Links(Q[l], l, r.heads[l], r.tails[l], r2.se)
    BY <1>4, <2>1, <2>2, LinksKept DEF SameLinks
  <2> QED BY <2>3 DEF Swapped
<1>7. ASSUME NEW x \in Marked(r2.se)
      PROVE  \E k \in 1 .. Len(Q[r2.se[x].runqueue_prio]) : Q[r2.se[x].runqueue_prio][k] = x
  <2>1. x \in Marked(r.se) /\ r2.se[x].runqueue_prio = r.se[x].runqueue_prio
    BY <1>4, <1>5 DEF Marked, SameLinks
  <2>2. \E k \in 1 .. Len(Q[r.se[x].runqueue_prio]) : Q[r.se[x].runqueue_prio][k] = x
    BY <2>1 DEF Shape
  <2> QED BY <2>1, <2>2
<1>8. Shape(Q, r2)
  BY <1>5, <1>6, <1>7 DEF Shape, Swapped
<1> QED BY <1>2, <1>3, <1>8

(* WithEntity changes the entity of p in a record of this form.            *)
LEMMA WithEntityMeans ==
  ASSUME NEW h, NEW t, NEW s, NEW n, NEW w, NEW ent \in [Proc -> Entity], NEW p \in Proc, NEW e
  PROVE  WithEntity([heads |-> h, tails |-> t, sizes |-> s, runnable |-> n,
                     weight |-> w, se |-> ent], p, e) =
         [heads |-> h, tails |-> t, sizes |-> s, runnable |-> n,
          weight |-> w, se |-> [ent EXCEPT ![p] = e]]
BY DEF WithEntity

-----------------------------------------------------------------------------
(* Priorities.                                                             *)
RankOK(e) == e.rt <=> e.dynamic_priority <= PRIO_RT_MAX

(* sched_update_priority leaves the links alone and ranks as it should.    *)
LEMMA UpdateMeans ==
  ASSUME NEW e \in Entity
  PROVE  /\ UpdatePriority(e) \in Entity /\ SameLinks(UpdatePriority(e), e)
         /\ UpdatePriority(e).in_runqueue <=> e.in_runqueue
         /\ (~e.rt \/ RankOK(e)) => RankOK(UpdatePriority(e))
<1> DEFINE boost == IF e.cpu_bound THEN 1 ELSE IF e.interactive THEN -1 ELSE 0
           d == Clamp(e.static_priority + boost + NiceAdjustment(e.nice),
                      PRIO_NORMAL_MIN, PRIO_IDLE_MAX)
<1>1. CASE e.rt
  BY <1>1 DEF UpdatePriority, SameLinks
<1>2. CASE ~e.rt
  <2>1. UpdatePriority(e) = [e EXCEPT !.dynamic_priority = d]
    BY <1>2, Zenon DEF UpdatePriority
  <2>2. d \in 3 .. 7
    <3>1. e.static_priority \in 0 .. 7 /\ e.nice \in -20 .. 19 /\ boost \in {1, -1, 0}
      BY LevelsAre DEF Entity
    <3>2. NiceAdjustment(e.nice) \in Int
      BY <3>1 DEF NiceAdjustment
    <3> HIDE DEF boost
    <3> QED BY <3>1, <3>2 DEF Clamp, PRIO_NORMAL_MIN, PRIO_IDLE_MAX
  <2> HIDE DEF d
  <2>3. [e EXCEPT !.dynamic_priority = d] \in Entity
    BY <2>2, LevelsAre DEF Entity
  <2> QED BY <1>2, <2>1, <2>2, <2>3 DEF Entity, SameLinks, RankOK, PRIO_RT_MAX
<1> QED BY <1>1, <1>2

(* The entity sched_fork leaves, with the nice value of proc_exec.         *)
LEMMA FreshMeans ==
  /\ FreshEntity \in Entity /\ ~FreshEntity.in_runqueue /\ RankOK(FreshEntity)
  /\ [FreshEntity EXCEPT !.nice = 1] \in Entity
  /\ ~[FreshEntity EXCEPT !.nice = 1].in_runqueue /\ ~[FreshEntity EXCEPT !.nice = 1].rt
<1> DEFINE f == [FreshEntity EXCEPT !.nice = 1]
<1>1. 0 \in Levels /\ PRIO_NORMAL_MIN \in Levels /\ NULL \in Ref
  BY LevelsAre DEF PRIO_NORMAL_MIN, Ref
<1>2. FreshEntity \in Entity
  BY <1>1 DEF FreshEntity, Entity
<1>3. ~FreshEntity.in_runqueue /\ ~FreshEntity.rt /\ FreshEntity.dynamic_priority = 3
  BY DEF FreshEntity, PRIO_NORMAL_MIN
<1>4. RankOK(FreshEntity)
  BY <1>3 DEF RankOK, PRIO_RT_MAX
<1>5. f \in Entity
  BY <1>2 DEF Entity
<1>6. f.in_runqueue = FreshEntity.in_runqueue /\ f.rt = FreshEntity.rt
  BY <1>2 DEF Entity
<1>7. ~f.in_runqueue /\ ~f.rt
  BY <1>3, <1>6
<1> QED BY <1>2, <1>3, <1>4, <1>5, <1>7

(* sched_wakeup clears the links of an entity that is in no list.          *)
LEMMA UnhookedMeans ==
  ASSUME NEW e \in Entity, NEW f, f = [e EXCEPT !.next = NULL, !.prev = NULL]
  PROVE  f \in Entity /\ (f.in_runqueue <=> e.in_runqueue) /\ (RankOK(e) => RankOK(f))
BY DEF Entity, Ref, RankOK

(* sched_check_interactive changes two flags at most.                      *)
LEMMA InteractiveMeans ==
  ASSUME NEW e \in Entity, NEW f \in CheckInteractive(e)
  PROVE  /\ f \in Entity /\ SameLinks(f, e) /\ (f.in_runqueue <=> e.in_runqueue)
         /\ RankOK(e) => RankOK(f)
<1>1. CASE f = e
  BY <1>1 DEF SameLinks
<1>2. CASE f = [e EXCEPT !.interactive = TRUE]
  BY <1>2 DEF Entity, SameLinks, RankOK
<1>3. CASE f = [e EXCEPT !.cpu_bound = TRUE, !.interactive = FALSE]
  BY <1>3 DEF Entity, SameLinks, RankOK
<1> QED BY <1>1, <1>2, <1>3 DEF CheckInteractive

(* The entity sched_set_priority fills in.                                 *)
LEMMA PriorityMeans ==
  ASSUME NEW e \in Entity, NEW prio \in Levels, NEW f,
         f = [e EXCEPT !.rt = prio <= PRIO_RT_MAX,
                       !.static_priority = prio, !.dynamic_priority = prio]
  PROVE  /\ f \in Entity /\ SameLinks(f, e) /\ (f.in_runqueue <=> e.in_runqueue)
         /\ RankOK(f)
<1> DEFINE b == prio <= PRIO_RT_MAX
<1>1. b \in BOOLEAN
  OBVIOUS
<1>2. f = [e EXCEPT !.rt = b, !.static_priority = prio, !.dynamic_priority = prio]
  OBVIOUS
<1>4. b <=> prio <= PRIO_RT_MAX
  OBVIOUS
<1> HIDE DEF b
<1>3. /\ f \in Entity /\ SameLinks(f, e) /\ (f.in_runqueue <=> e.in_runqueue)
      /\ f.rt = b /\ f.dynamic_priority = prio
  BY <1>1, <1>2 DEF Entity, SameLinks
<1> QED BY <1>3, <1>4 DEF RankOK

(* The entity sched_nice fills in.                                         *)
LEMMA NiceMeans ==
  ASSUME NEW e \in Entity, NEW n \in -128 .. 127, NEW f,
         f = [e EXCEPT !.nice = NiceInRange(n)]
  PROVE  /\ f \in Entity /\ SameLinks(f, e) /\ (f.in_runqueue <=> e.in_runqueue)
         /\ RankOK(e) => RankOK(f)
<1>1. NiceInRange(n) \in -20 .. 19
  BY DEF NiceInRange, Clamp
<1> QED BY <1>1 DEF Entity, SameLinks, RankOK

-----------------------------------------------------------------------------
(* The invariant.                                                          *)
ProcState == {"UNUSED", "RUNNABLE", "RUNNING"}

(* Apart from the lists: types, the marks follow the states, a queued      *)
(* process is at the level of its priority, and curr is RUNNING.           *)
Ranked(ent, st) ==
  \A p \in Proc : /\ ent[p].in_runqueue <=> st[p] = "RUNNABLE"
                  /\ st[p] = "RUNNABLE" => ent[p].runqueue_prio = ent[p].dynamic_priority
                  /\ RankOK(ent[p])

Settled ==
  /\ RqTypes(Rq)
  /\ min_vruntime \in 0 .. MaxVruntime /\ vruntime \in [Proc -> 0 .. MaxVruntime]
  /\ state \in [Proc -> ProcState]
  /\ curr \in Ref /\ (curr # NULL => state[curr] = "RUNNING")
  /\ Ranked(se, state)

RqInv == Settled /\ \E Q : Shape(Q, Rq)

(* The steps of ReadyQueues, from the queues Q to the queues Q2.           *)
Others(p) == \A x \in Proc \ {p} : vruntime'[x] = vruntime[x]

Arrives(Q, Q2) ==
  \E p \in Proc, l \in Levels :
    /\ p # curr /\ curr' = curr
    /\ \A m \in Levels : \A k \in 1 .. Len(Q[m]) : Q[m][k] # p
    /\ Q2 = [Q EXCEPT ![l] = Append(@, p)]
    /\ Others(p)

Moves(Q, Q2) ==
  /\ UNCHANGED <<curr, vruntime>>
  /\ \E from \in Levels, to \in Levels : \E k \in 1 .. Len(Q[from]) :
       Q2 = [[Q EXCEPT ![from] = Cut(@, k)] EXCEPT ![to] = Append(@, Q[from][k])]

(* Place k of level l is the one to take.                                  *)
FirstBest(Q, l, k) ==
  /\ \A h \in Levels : h < l => Q[h] = << >>
  /\ l <= PRIO_RT_MAX => k = 1
  /\ l > PRIO_RT_MAX =>
       /\ \A j \in 1 .. Len(Q[l]) : vruntime[Q[l][k]] <= vruntime[Q[l][j]]
       /\ \A j \in 1 .. k - 1 : vruntime[Q[l][k]] < vruntime[Q[l][j]]

Takes(Q, Q2) ==
  /\ curr = NULL /\ UNCHANGED vruntime
  /\ \E l \in Levels : \E k \in 1 .. Len(Q[l]) :
       /\ curr' = Q[l][k] /\ FirstBest(Q, l, k)
       /\ Q2 = [Q EXCEPT ![l] = Cut(@, k)]

Charged == curr # NULL /\ vruntime'[curr] >= vruntime[curr] /\ Others(curr)

Runs(Q, Q2) == Charged /\ Q2 = Q /\ curr' = curr

PutsBack(Q, Q2) ==
  /\ curr' = NULL /\ Charged
  /\ \E l \in Levels : Q2 = [Q EXCEPT ![l] = Append(@, curr)]

Leaves(Q, Q2) == curr # NULL /\ curr' = NULL /\ Others(curr) /\ Q2 = Q

Rests(Q, Q2) == Q2 = Q /\ UNCHANGED <<curr, vruntime>>

StepOf(Q, Q2) ==
  \/ Arrives(Q, Q2) \/ Moves(Q, Q2) \/ Takes(Q, Q2) \/ Runs(Q, Q2)
  \/ PutsBack(Q, Q2) \/ Leaves(Q, Q2) \/ Rests(Q, Q2)

(* What an action leaves behind.                                           *)
Leads(Q) == Settled' /\ \E Q2 : Shape(Q2, Rq') /\ StepOf(Q, Q2)

-----------------------------------------------------------------------------
(* The actions.                                                            *)
IsRq(r) == r = [heads |-> r.heads, tails |-> r.tails, sizes |-> r.sizes,
                runnable |-> r.runnable, weight |-> r.weight, se |-> r.se]

(* WithEntity changes the entity of p and nothing else.                    *)
LEMMA SwapMeans ==
  ASSUME NEW r, IsRq(r), RqTypes(r), NEW p \in Proc, NEW e
  PROVE  IsRq(WithEntity(r, p, e)) /\ Swapped(r, WithEntity(r, p, e), p, e)
<1> DEFINE r2 == WithEntity(r, p, e)
<1>1. r.se \in [Proc -> Entity]
  BY DEF RqTypes
<1>2. r2 = [heads |-> r.heads, tails |-> r.tails, sizes |-> r.sizes, runnable |-> r.runnable,
            weight |-> r.weight, se |-> [r.se EXCEPT ![p] = e]]
  <2>1. WithEntity([heads |-> r.heads, tails |-> r.tails, sizes |-> r.sizes,
                    runnable |-> r.runnable, weight |-> r.weight, se |-> r.se], p, e) =
        [heads |-> r.heads, tails |-> r.tails, sizes |-> r.sizes, runnable |-> r.runnable,
         weight |-> r.weight, se |-> [r.se EXCEPT ![p] = e]]
    BY <1>1, WithEntityMeans
  <2>2. r = [heads |-> r.heads, tails |-> r.tails, sizes |-> r.sizes,
             runnable |-> r.runnable, weight |-> r.weight, se |-> r.se]
    BY DEF IsRq
  <2> QED BY <2>1, <2>2, Zenon
<1> HIDE DEF r2
<1>3. /\ r2.heads = r.heads /\ r2.tails = r.tails /\ r2.sizes = r.sizes
      /\ r2.runnable = r.runnable /\ r2.weight = r.weight /\ r2.se = [r.se EXCEPT ![p] = e]
  BY <1>2
<1>4. IsRq(r2)
  BY <1>2, <1>3, Zenon DEF IsRq
<1> QED BY <1>3, <1>4 DEF Swapped, r2

(* An entity that is in no list may be replaced by any other.              *)
LEMMA IdleSwapKeeps ==
  ASSUME NEW Q, NEW r, IsRq(r), RqTypes(r), Shape(Q, r), NEW p \in Proc, NEW e \in Entity,
         ~e.in_runqueue, ~r.se[p].in_runqueue
  PROVE  LET r2 == WithEntity(r, p, e)
         IN  /\ IsRq(r2) /\ RqTypes(r2) /\ Shape(Q, r2)
             /\ r2.se[p] = e /\ \A x \in Proc : x # p => r2.se[x] = r.se[x]
<1> DEFINE r2 == WithEntity(r, p, e)
<1>1. IsRq(r2) /\ Swapped(r, r2, p, e)
  BY SwapMeans
<1>2. e.in_runqueue <=> r.se[p].in_runqueue
  OBVIOUS
<1>3. r.se[p].in_runqueue => SameLinks(e, r.se[p])
  OBVIOUS
<1> HIDE DEF r2
<1>4. /\ RqTypes(r2) /\ Shape(Q, r2)
      /\ r2.se[p] = e /\ \A x \in Proc : x # p => r2.se[x] = r.se[x]
  BY <1>1, <1>2, <1>3, ChangeKeeps
<1> QED BY <1>1, <1>4 DEF r2

(* The run queue is such a record.                                         *)
LEMMA RqIsRq ==
  /\ IsRq(Rq)
  /\ Rq.heads = queue_heads /\ Rq.tails = queue_tails /\ Rq.sizes = queue_sizes
  /\ Rq.runnable = total_runnable /\ Rq.weight = total_weight /\ Rq.se = se
<1>1. /\ Rq.heads = queue_heads /\ Rq.tails = queue_tails /\ Rq.sizes = queue_sizes
      /\ Rq.runnable = total_runnable /\ Rq.weight = total_weight /\ Rq.se = se
  BY DEF Rq
<1>2. IsRq(Rq)
  BY <1>1, Zenon DEF Rq, IsRq
<1> QED BY <1>1, <1>2

(* What Install leaves.                                                    *)
LEMMA InstallMeans ==
  ASSUME NEW r, RqTypes(r), Install(r)
  PROVE  /\ RqTypes(Rq)' /\ se' = r.se
         /\ \A Q : Shape(Q, r) => Shape(Q, Rq')
<1>1. /\ Rq'.heads = r.heads /\ Rq'.tails = r.tails /\ Rq'.sizes = r.sizes
      /\ Rq'.runnable = r.runnable /\ Rq'.weight = r.weight /\ Rq'.se = r.se /\ se' = r.se
  BY DEF Install, Rq
<1>2. RqTypes(Rq')
  BY <1>1 DEF RqTypes
<1>3. ASSUME NEW Q, Shape(Q, r) PROVE Shape(Q, Rq')
  BY <1>1, <1>3 DEF Shape
<1> QED BY <1>1, <1>2, <1>3

(* For x, ent2 says what ent says but for the order in the list.           *)
Alike(ent, ent2, x) ==
  /\ SameRank(ent, ent2, x)
  /\ ent2[x].in_runqueue <=> ent[x].in_runqueue
  /\ ent2[x].runqueue_prio = ent[x].runqueue_prio

(* A process that is put in line is RUNNABLE and at its level.             *)
LEMMA EnqueueRanks ==
  ASSUME NEW Q, NEW r, RqTypes(r), Shape(Q, r), NEW p \in Proc, ~r.se[p].in_runqueue,
         RankOK(r.se[p]), NEW ent, NEW st \in [Proc -> ProcState], NEW st2,
         Ranked(ent, st), \A x \in Proc : x # p => Alike(ent, r.se, x),
         st2 = [st EXCEPT ![p] = "RUNNABLE"]
  PROVE  Ranked(Enqueue(r, p).se, st2) /\ st2 \in [Proc -> ProcState]
<1> DEFINE e2 == Enqueue(r, p).se
<1>1. /\ e2[p].runqueue_prio = r.se[p].dynamic_priority
      /\ \A x \in Proc : /\ SameRank(r.se, e2, x)
                         /\ e2[x].in_runqueue <=> (x = p \/ r.se[x].in_runqueue)
                         /\ x # p => e2[x].runqueue_prio = r.se[x].runqueue_prio
  BY EnqueueKeeps
<1> HIDE DEF e2
<1>2. st2[p] = "RUNNABLE" /\ st2 \in [Proc -> ProcState] /\ \A x \in Proc : x # p => st2[x] = st[x]
  BY DEF ProcState
<1>3. ASSUME NEW x \in Proc
      PROVE  /\ e2[x].in_runqueue <=> st2[x] = "RUNNABLE"
             /\ st2[x] = "RUNNABLE" => e2[x].runqueue_prio = e2[x].dynamic_priority
             /\ RankOK(e2[x])
  <2>1. CASE x = p
    BY <1>1, <1>2, <2>1 DEF SameRank, RankOK
  <2>2. CASE x # p
    <3>1. /\ ent[x].in_runqueue <=> st[x] = "RUNNABLE"
          /\ st[x] = "RUNNABLE" => ent[x].runqueue_prio = ent[x].dynamic_priority
          /\ RankOK(ent[x])
      BY DEF Ranked
    <3>2. Alike(ent, r.se, x)
      BY <2>2
    <3> QED BY <1>1, <1>2, <2>2, <3>1, <3>2 DEF Alike, SameRank, RankOK
  <2> QED BY <2>1, <2>2
<1> QED BY <1>2, <1>3 DEF Ranked, e2

(* A new process arrives.                                                  *)
LEMMA ExecLeads ==
  ASSUME Settled, NEW Q, Shape(Q, Rq), NEW p \in Proc, Exec(p)
  PROVE  Leads(Q)
<1> DEFINE f == [FreshEntity EXCEPT !.nice = 1]
           e1 == UpdatePriority(f)
           r1 == WithEntity(Rq, p, e1)
           u == [r1.se[p] EXCEPT !.next = NULL, !.prev = NULL]
           e2 == UpdatePriority(u)
           r2 == WithEntity(r1, p, e2)
           r3 == Enqueue(r2, p)
<1>1. /\ state[p] = "UNUSED" /\ vruntime' = [vruntime EXCEPT ![p] = min_vruntime]
      /\ state' = [state EXCEPT ![p] = "RUNNABLE"]
      /\ UNCHANGED <<min_vruntime, curr, calls>>
      /\ Install(r3)
  BY Zenon DEF Exec, Wakeup
<1>2. /\ RqTypes(Rq) /\ Ranked(se, state) /\ se \in [Proc -> Entity] /\ ~se[p].in_runqueue
      /\ Rq.se = se /\ IsRq(Rq)
  <2>1. RqTypes(Rq) /\ Ranked(se, state) /\ Rq.se = se /\ IsRq(Rq)
    BY RqIsRq DEF Settled
  <2>2. se \in [Proc -> Entity]
    BY <2>1 DEF RqTypes
  <2>3. ~se[p].in_runqueue
    BY <1>1, <2>1 DEF Ranked
  <2> QED BY <2>1, <2>2, <2>3
<1>3. e1 \in Entity /\ ~e1.in_runqueue /\ RankOK(e1)
  <2>1. f \in Entity /\ ~f.in_runqueue /\ ~f.rt
    BY FreshMeans
  <2> HIDE DEF f
  <2> QED BY <2>1, UpdateMeans
<1> HIDE DEF e1
<1>4. /\ IsRq(r1) /\ RqTypes(r1) /\ Shape(Q, r1) /\ r1.se[p] = e1
      /\ \A x \in Proc : x # p => r1.se[x] = se[x]
  <2>1. ~Rq.se[p].in_runqueue
    BY <1>2
  <2>2. /\ IsRq(r1) /\ RqTypes(r1) /\ Shape(Q, r1) /\ r1.se[p] = e1
        /\ \A x \in Proc : x # p => r1.se[x] = Rq.se[x]
    BY <1>2, <1>3, <2>1, IdleSwapKeeps
  <2> QED BY <1>2, <2>2
<1> HIDE DEF r1
<1>5. e2 \in Entity /\ ~e2.in_runqueue /\ RankOK(e2)
  <2>1. r1.se[p] \in Entity /\ ~r1.se[p].in_runqueue /\ RankOK(r1.se[p])
    BY <1>3, <1>4
  <2>2. u \in Entity /\ ~u.in_runqueue /\ RankOK(u)
    BY <2>1, UnhookedMeans
  <2> HIDE DEF u
  <2> QED BY <2>2, UpdateMeans
<1> HIDE DEF e2
<1>6. /\ RqTypes(r2) /\ Shape(Q, r2) /\ r2.se[p] = e2
      /\ \A x \in Proc : x # p => r2.se[x] = se[x]
  <2>1. ~r1.se[p].in_runqueue
    BY <1>3, <1>4
  <2>2. /\ RqTypes(r2) /\ Shape(Q, r2) /\ r2.se[p] = e2
        /\ \A x \in Proc : x # p => r2.se[x] = r1.se[x]
    BY <1>4, <1>5, <2>1, IdleSwapKeeps
  <2> QED BY <1>4, <2>2
<1> HIDE DEF r2
<1>7. PICK l \in Levels : RqTypes(r3) /\ Shape([Q EXCEPT ![l] = Append(@, p)], r3)
  BY <1>5, <1>6, EnqueueKeeps
<1>8. Ranked(r3.se, state') /\ state' \in [Proc -> ProcState]
  <2>1. state \in [Proc -> ProcState] /\ \A x \in Proc : x # p => Alike(se, r2.se, x)
    BY <1>6 DEF Settled, Alike, SameRank
  <2>2. ~r2.se[p].in_runqueue /\ RankOK(r2.se[p])
    BY <1>5, <1>6
  <2> QED BY <1>1, <1>2, <1>6, <2>1, <2>2, EnqueueRanks
<1> HIDE DEF r3
<1>9. RqTypes(Rq)' /\ se' = r3.se /\ Shape([Q EXCEPT ![l] = Append(@, p)], Rq')
  BY <1>1, <1>7, InstallMeans
<1>10. p # curr
  BY <1>1, RunQueueAssumption DEF Settled
<1>11. Settled'
  <2>1. min_vruntime' \in 0 .. MaxVruntime /\ vruntime' \in [Proc -> 0 .. MaxVruntime]
    BY <1>1 DEF Settled
  <2>2. curr' \in Ref /\ (curr' # NULL => state'[curr'] = "RUNNING")
    <3>1. curr' = curr /\ curr \in Ref /\ (curr # NULL => state[curr] = "RUNNING")
      BY <1>1 DEF Settled
    <3>2. curr # NULL => state'[curr] = state[curr]
      BY <1>1, <1>10, <3>1 DEF Settled, Ref
    <3> QED BY <3>1, <3>2
  <2>3. Ranked(se, state)'
    BY <1>8, <1>9
  <2> QED BY <1>8, <1>9, <2>1, <2>2, <2>3 DEF Settled
<1>12. Arrives(Q, [Q EXCEPT ![l] = Append(@, p)])
  <2>1. \A m \in Levels : \A k \in 1 .. Len(Q[m]) : Q[m][k] # p
    BY <1>2, Placed
  <2>2. Others(p)
    BY <1>1 DEF Settled, Others
  <2> QED BY <1>1, <1>10, <2>1, <2>2 DEF Arrives
<1> QED BY <1>9, <1>11, <1>12 DEF Leads, StepOf

(* The lists of the levels are the sequences of the shape.                 *)
LEMMA ListIs ==
  ASSUME NEW Q, Shape(Q, Rq), NEW l \in Levels
  PROVE  /\ List(l) = Q[l] /\ Q[l] \in Seq(Proc)
         /\ queue_heads[l] = IF Len(Q[l]) > 0 THEN Q[l][1] ELSE NULL
         /\ queue_heads[l] = NULL <=> Q[l] = << >>
<1>1. Links(Q[l], l, queue_heads[l], queue_tails[l], se)
  BY RqIsRq DEF Shape
<1>2. List(l) = Q[l]
  BY <1>1, LinksAreList DEF List
<1>3. Q[l] \in Seq(Proc) /\ queue_heads[l] = At(Q[l], 1) /\ NULL \notin Proc
  BY <1>1, RunQueueAssumption DEF Links
<1>4. queue_heads[l] = IF Len(Q[l]) > 0 THEN Q[l][1] ELSE NULL
  BY <1>3 DEF At
<1>5. queue_heads[l] = NULL <=> Q[l] = << >>
  BY <1>3, <1>4
<1> QED BY <1>2, <1>3, <1>4, <1>5

(* Some place has the least vruntime, and it is the first to have it.      *)
LEMMA FirstLeast ==
  ASSUME NEW L \in Seq(Proc), Len(L) > 0, NEW v \in [Proc -> Nat]
  PROVE  \E k \in DOMAIN L : \A j \in DOMAIN L :
           IF j < k THEN v[L[k]] < v[L[j]] ELSE v[L[k]] <= v[L[j]]
<1> DEFINE n == Len(L)
           T == {v[L[j]] : j \in 1 .. n}
<1>1. n \in Nat /\ n > 0 /\ DOMAIN L = 1 .. n /\ \A j \in 1 .. n : L[j] \in Proc /\ v[L[j]] \in Nat
  OBVIOUS
<1> HIDE DEF n
<1>2. T \in SUBSET Nat /\ T # {}
  <2>1. 1 \in 1 .. n
    BY <1>1
  <2> QED BY <1>1, <2>1
<1>3. PICK m \in T : \A x \in T : m <= x
  <2> HIDE DEF T
  <2> QED BY <1>2, LeastExists
<1>4. \A j \in 1 .. n : m <= v[L[j]]
  BY <1>3
<1> DEFINE U == {j \in 1 .. n : v[L[j]] = m}
<1>5. U \in SUBSET Nat /\ U # {}
  BY <1>3
<1>6. PICK k \in U : \A x \in U : k <= x
  <2> HIDE DEF U, T
  <2> QED BY <1>5, LeastExists
<1>7. k \in 1 .. n /\ v[L[k]] = m /\ m \in Nat
  BY <1>1, <1>6
<1>8. ASSUME NEW j \in 1 .. n
      PROVE  IF j < k THEN v[L[k]] < v[L[j]] ELSE v[L[k]] <= v[L[j]]
  <2>1. j < k => v[L[j]] # m
    BY <1>6, <1>7
  <2>2. v[L[j]] \in Nat /\ m <= v[L[j]]
    BY <1>1, <1>4
  <2> QED BY <1>7, <2>1, <2>2
<1> QED BY <1>1, <1>7, <1>8

(* sched_pick_next finds the first of the best in the highest level.       *)
LEMMA PickMeans ==
  ASSUME NEW Q, Shape(Q, Rq), NEW V \in SUBSET Nat, vruntime \in [Proc -> V], PickNext # NULL
  PROVE  \E l \in Levels : \E k \in 1 .. Len(Q[l]) : PickNext = Q[l][k] /\ FirstBest(Q, l, k)
<1> DEFINE Top(l) == /\ queue_heads[l] # NULL
                     /\ \A h \in Levels : h < l => queue_heads[h] = NULL
           T == {l \in Levels : queue_heads[l] # NULL}
           l == CHOOSE l \in Levels : Top(l)
<1>1. T # {} /\ T \in SUBSET Nat
  BY LevelsAre DEF PickNext
<1>2. \E m \in Levels : Top(m)
  <2>1. PICK m \in T : \A x \in T : m <= x
    <3> HIDE DEF T
    <3> QED BY <1>1, LeastExists
  <2>2. ASSUME NEW h \in Levels, h < m PROVE queue_heads[h] = NULL
    <3>1. h \in 0 .. 7 /\ m \in 0 .. 7
      BY <2>1, LevelsAre
    <3> QED BY <2>1, <2>2, <3>1
  <2> QED BY <2>1, <2>2
<1>3. PickNext = PickBest(l)
  BY <1>1, Zenon DEF PickNext
<1>4. l \in Levels /\ Top(l)
  BY <1>2, Zenon
<1> HIDE DEF l
<1>5. /\ List(l) = Q[l] /\ Q[l] \in Seq(Proc) /\ Len(Q[l]) > 0 /\ queue_heads[l] = Q[l][1]
      /\ \A h \in Levels : h < l => Q[h] = << >>
  BY <1>4, ListIs
<1>6. l \in 0 .. 7 /\ PRIO_RT_MAX = 2
  BY <1>4, LevelsAre DEF PRIO_RT_MAX
<1>7. CASE l <= PRIO_RT_MAX
  <2>1. PickNext = Q[l][1] /\ 1 \in 1 .. Len(Q[l])
    BY <1>3, <1>5, <1>7 DEF PickBest
  <2>2. FirstBest(Q, l, 1)
    BY <1>5, <1>6, <1>7 DEF FirstBest
  <2> QED BY <1>4, <2>1, <2>2
<1>8. CASE ~(l <= PRIO_RT_MAX)
  <2> DEFINE Good(k) == \A j \in DOMAIN Q[l] :
                          IF j < k THEN vruntime[Q[l][k]] < vruntime[Q[l][j]]
                          ELSE vruntime[Q[l][k]] <= vruntime[Q[l][j]]
             k == CHOOSE k \in DOMAIN Q[l] : Good(k)
  <2>1. PickNext = Q[l][k]
    BY <1>3, <1>5, <1>8, Zenon DEF PickBest
  <2>2. vruntime \in [Proc -> Nat]
    OBVIOUS
  <2>3. \E i \in DOMAIN Q[l] : Good(i)
    BY <1>5, <2>2, FirstLeast
  <2>4. k \in DOMAIN Q[l] /\ Good(k)
    BY <2>3, Zenon
  <2> HIDE DEF k
  <2>5. k \in 1 .. Len(Q[l]) /\ DOMAIN Q[l] = 1 .. Len(Q[l])
    BY <1>5, <2>4
  <2>6. ASSUME NEW j \in 1 .. Len(Q[l]) PROVE vruntime[Q[l][k]] <= vruntime[Q[l][j]]
    <3>1. vruntime[Q[l][k]] \in Nat /\ vruntime[Q[l][j]] \in Nat
      BY <1>5, <2>2, <2>5
    <3> QED BY <2>4, <2>5, <3>1
  <2>7. ASSUME NEW j \in 1 .. k - 1 PROVE vruntime[Q[l][k]] < vruntime[Q[l][j]]
    <3>1. j \in 1 .. Len(Q[l]) /\ j < k
      BY <1>5, <2>5
    <3> QED BY <2>4, <2>5, <3>1
  <2>8. FirstBest(Q, l, k)
    BY <1>5, <1>6, <1>8, <2>6, <2>7 DEF FirstBest
  <2> QED BY <1>4, <2>1, <2>5, <2>8
<1> QED BY <1>7, <1>8

(* The facts of Settled that do not speak of the primed state.             *)
LEMMA SettledMeans ==
  ASSUME Settled
  PROVE  /\ RqTypes(Rq) /\ Rq.se = se /\ IsRq(Rq) /\ se \in [Proc -> Entity]
         /\ MaxVruntime \in Nat /\ NULL \notin Proc
         /\ min_vruntime \in 0 .. MaxVruntime /\ vruntime \in [Proc -> 0 .. MaxVruntime]
         /\ state \in [Proc -> ProcState]
         /\ curr \in Ref /\ (curr # NULL => curr \in Proc /\ state[curr] = "RUNNING"
                                            /\ ~se[curr].in_runqueue)
         /\ Ranked(se, state)
<1>1. RqTypes(Rq) /\ Rq.se = se /\ IsRq(Rq)
  BY RqIsRq DEF Settled
<1>2. se \in [Proc -> Entity]
  BY <1>1 DEF RqTypes
<1>3. curr # NULL => curr \in Proc /\ state[curr] = "RUNNING"
  BY DEF Settled, Ref
<1>4. curr # NULL => ~se[curr].in_runqueue
  BY <1>3 DEF Settled, Ranked
<1>5. /\ min_vruntime \in 0 .. MaxVruntime /\ vruntime \in [Proc -> 0 .. MaxVruntime]
      /\ state \in [Proc -> ProcState] /\ curr \in Ref /\ Ranked(se, state)
  BY DEF Settled
<1> QED BY <1>1, <1>2, <1>3, <1>4, <1>5, RunQueueAssumption

(* The scheduler takes the best process out of its list.                   *)
LEMMA ScheduleLeads ==
  ASSUME Settled, NEW Q, Shape(Q, Rq), Schedule
  PROVE  Leads(Q)
<1> DEFINE p == PickNext
           r2 == Dequeue(Rq, p)
<1>1. /\ curr = NULL /\ p # NULL /\ Install(r2) /\ curr' = p
      /\ state' = [state EXCEPT ![p] = "RUNNING"]
      /\ UNCHANGED <<min_vruntime, vruntime, calls>>
  BY DEF Schedule
<1>2. PICK l \in Levels : \E k \in 1 .. Len(Q[l]) : p = Q[l][k] /\ FirstBest(Q, l, k)
  <2>1. vruntime \in [Proc -> 0 .. MaxVruntime] /\ 0 .. MaxVruntime \in SUBSET Nat
    BY SettledMeans
  <2> QED BY <1>1, <2>1, PickMeans
<1>3. PICK k \in 1 .. Len(Q[l]) : p = Q[l][k] /\ FirstBest(Q, l, k)
  BY <1>2
<1> HIDE DEF p
<1>4. /\ p \in Proc /\ RqTypes(r2)
      /\ Shape([Q EXCEPT ![l] = Cut(@, k)], r2)
      /\ \A x \in Proc : /\ SameRank(se, r2.se, x)
                         /\ r2.se[x].in_runqueue <=> (x # p /\ se[x].in_runqueue)
                         /\ r2.se[x].runqueue_prio = se[x].runqueue_prio
  BY <1>3, DequeueKeeps, SettledMeans, SMTT(40)
<1> HIDE DEF r2
<1>5. RqTypes(Rq)' /\ se' = r2.se /\ Shape([Q EXCEPT ![l] = Cut(@, k)], Rq')
  BY <1>1, <1>4, InstallMeans
<1>6. /\ state' \in [Proc -> ProcState] /\ state'[p] = "RUNNING"
      /\ \A x \in Proc : x # p => state'[x] = state[x]
  BY <1>1, <1>4, SettledMeans DEF ProcState
<1>7. Ranked(se', state')
  <2> SUFFICES ASSUME NEW x \in Proc
               PROVE  /\ se'[x].in_runqueue <=> state'[x] = "RUNNABLE"
                      /\ state'[x] = "RUNNABLE" => se'[x].runqueue_prio = se'[x].dynamic_priority
                      /\ RankOK(se'[x])
    BY DEF Ranked
  <2>1. /\ se[x].in_runqueue <=> state[x] = "RUNNABLE"
        /\ state[x] = "RUNNABLE" => se[x].runqueue_prio = se[x].dynamic_priority
        /\ RankOK(se[x])
    BY SettledMeans DEF Ranked
  <2>2. CASE x = p
    BY <1>4, <1>5, <1>6, <2>1, <2>2 DEF SameRank, RankOK
  <2>3. CASE x # p
    BY <1>4, <1>5, <1>6, <2>1, <2>3 DEF SameRank, RankOK
  <2> QED BY <2>2, <2>3
<1>8. Settled'
  <2>1. min_vruntime' \in 0 .. MaxVruntime /\ vruntime' \in [Proc -> 0 .. MaxVruntime]
    BY <1>1, SettledMeans
  <2>2. curr' \in Ref /\ (curr' # NULL => state'[curr'] = "RUNNING")
    BY <1>1, <1>4, <1>6 DEF Ref
  <2> QED BY <1>5, <1>6, <1>7, <2>1, <2>2 DEF Settled
<1>9. Takes(Q, [Q EXCEPT ![l] = Cut(@, k)])
  BY <1>1, <1>3 DEF Takes
<1> QED BY <1>5, <1>8, <1>9 DEF Leads, StepOf

(* sched_update_vruntime charges the running process and nobody else.      *)
LEMMA ChargeMeans ==
  ASSUME Settled, curr # NULL, NEW d \in VDelta, ChargeFor(curr, d)
  PROVE  /\ min_vruntime' \in 0 .. MaxVruntime /\ vruntime' \in [Proc -> 0 .. MaxVruntime]
         /\ Charged
<1>1. /\ curr \in Proc /\ d \in Nat /\ MaxVruntime \in Nat
      /\ vruntime \in [Proc -> 0 .. MaxVruntime] /\ min_vruntime \in 0 .. MaxVruntime
  BY SettledMeans, RunQueueAssumption
<1>2. /\ vruntime[curr] + d \in 0 .. MaxVruntime
      /\ vruntime' = [vruntime EXCEPT ![curr] = vruntime[curr] + d]
      /\ min_vruntime' = Lesser(min_vruntime, vruntime[curr] + d)
  BY <1>1 DEF ChargeFor
<1>3. min_vruntime' \in 0 .. MaxVruntime
  BY <1>1, <1>2 DEF Lesser
<1>4. vruntime' \in [Proc -> 0 .. MaxVruntime] /\ vruntime'[curr] >= vruntime[curr]
  BY <1>1, <1>2
<1>5. Others(curr)
  BY <1>1, <1>2 DEF Others
<1> QED BY <1>3, <1>4, <1>5 DEF Charged

(* A tick charges the running process.                                     *)
LEMMA TickLeads ==
  ASSUME Settled, NEW Q, Shape(Q, Rq), NEW d \in VDelta, Tick(d)
  PROVE  Leads(Q)
<1>1. curr # NULL /\ ChargeFor(curr, d) /\ UNCHANGED <<rqVars, curr, se, state, calls>>
  BY DEF Tick
<1>2. Rq' = Rq
  BY <1>1 DEF rqVars, Rq
<1>3. /\ min_vruntime' \in 0 .. MaxVruntime /\ vruntime' \in [Proc -> 0 .. MaxVruntime]
      /\ Charged
  BY <1>1, ChargeMeans
<1>4. Settled'
  BY <1>1, <1>2, <1>3 DEF Settled
<1>5. Runs(Q, Q)
  BY <1>1, <1>3 DEF Runs
<1> QED BY <1>2, <1>4, <1>5 DEF Leads, StepOf

(* The end of a slice puts the running process back in line.               *)
LEMMA PreemptLeads ==
  ASSUME Settled, NEW Q, Shape(Q, Rq), NEW d \in VDelta, Preempt(d)
  PROVE  Leads(Q)
<1>1. /\ curr # NULL /\ ChargeFor(curr, d) /\ state' = [state EXCEPT ![curr] = "RUNNABLE"]
      /\ curr' = NULL
  BY DEF Preempt
<1>2. PICK e \in CheckInteractive(se[curr]) :
        Install(Enqueue(WithEntity(Rq, curr, UpdatePriority(e)), curr))
  BY DEF Preempt
<1> DEFINE f == UpdatePriority(e)
           r2 == WithEntity(Rq, curr, f)
           r3 == Enqueue(r2, curr)
<1>3. /\ min_vruntime' \in 0 .. MaxVruntime /\ vruntime' \in [Proc -> 0 .. MaxVruntime]
      /\ Charged
  BY <1>1, ChargeMeans
<1>4. /\ RqTypes(Rq) /\ Rq.se = se /\ IsRq(Rq) /\ curr \in Proc /\ ~se[curr].in_runqueue
      /\ se[curr] \in Entity /\ RankOK(se[curr])
  BY <1>1, SettledMeans DEF Ranked
<1>5. f \in Entity /\ ~f.in_runqueue /\ RankOK(f)
  <2>1. e \in Entity /\ ~e.in_runqueue /\ RankOK(e)
    BY <1>4, InteractiveMeans
  <2> QED BY <2>1, UpdateMeans
<1> HIDE DEF f
<1>6. /\ RqTypes(r2) /\ Shape(Q, r2) /\ r2.se[curr] = f
      /\ \A x \in Proc : x # curr => r2.se[x] = se[x]
  <2>1. RqTypes(Rq) /\ IsRq(Rq) /\ curr \in Proc /\ f \in Entity
    BY <1>4, <1>5
  <2>2. ~f.in_runqueue /\ ~Rq.se[curr].in_runqueue
    BY <1>4, <1>5
  <2>3. /\ RqTypes(r2) /\ Shape(Q, r2) /\ r2.se[curr] = f
        /\ \A x \in Proc : x # curr => r2.se[x] = Rq.se[x]
    BY <2>1, <2>2, IdleSwapKeeps
  <2> QED BY <1>4, <2>3
<1> HIDE DEF r2
<1>7. PICK l \in Levels : RqTypes(r3) /\ Shape([Q EXCEPT ![l] = Append(@, curr)], r3)
  BY <1>4, <1>5, <1>6, EnqueueKeeps
<1>8. Ranked(r3.se, state') /\ state' \in [Proc -> ProcState]
  <2>1. state \in [Proc -> ProcState] /\ Ranked(se, state)
    BY SettledMeans
  <2>2. \A x \in Proc : x # curr => Alike(se, r2.se, x)
    BY <1>6 DEF Alike, SameRank
  <2>3. ~r2.se[curr].in_runqueue /\ RankOK(r2.se[curr])
    BY <1>5, <1>6
  <2> QED BY <1>1, <1>4, <1>6, <2>1, <2>2, <2>3, EnqueueRanks
<1>9. Install(r3)
  BY <1>2 DEF r2, f
<1> HIDE DEF r3
<1>10. RqTypes(Rq)' /\ se' = r3.se /\ Shape([Q EXCEPT ![l] = Append(@, curr)], Rq')
  BY <1>7, <1>9, InstallMeans
<1>11. Settled'
  BY <1>1, <1>3, <1>8, <1>10 DEF Settled, Ref
<1>12. PutsBack(Q, [Q EXCEPT ![l] = Append(@, curr)])
  BY <1>1, <1>3 DEF PutsBack
<1> QED BY <1>10, <1>11, <1>12 DEF Leads, StepOf

(* A process that ends leaves the CPU; it is in no list.                   *)
LEMMA ExitLeads ==
  ASSUME Settled, NEW Q, Shape(Q, Rq), Exit
  PROVE  Leads(Q)
<1>1. /\ curr # NULL /\ curr' = NULL /\ state' = [state EXCEPT ![curr] = "UNUSED"]
      /\ se' = [se EXCEPT ![curr] = FreshEntity] /\ vruntime' = [vruntime EXCEPT ![curr] = 0]
      /\ UNCHANGED <<queue_heads, queue_tails, queue_sizes, total_runnable, total_weight,
                     min_vruntime>>
  BY DEF Exit, rqVars
<1>2. /\ RqTypes(Rq) /\ Rq.se = se /\ curr \in Proc /\ ~se[curr].in_runqueue
      /\ MaxVruntime \in Nat /\ vruntime \in [Proc -> 0 .. MaxVruntime]
      /\ min_vruntime \in 0 .. MaxVruntime /\ state \in [Proc -> ProcState]
      /\ Ranked(se, state)
  BY <1>1, SettledMeans
<1>3. FreshEntity \in Entity /\ ~FreshEntity.in_runqueue /\ RankOK(FreshEntity)
  BY FreshMeans
<1>4. Swapped(Rq, Rq', curr, FreshEntity)
  BY <1>1 DEF Rq, Swapped
<1>5. /\ RqTypes(Rq') /\ Shape(Q, Rq') /\ Rq'.se[curr] = FreshEntity
      /\ \A x \in Proc : x # curr => Rq'.se[x] = Rq.se[x]
  <2>2. ~Rq.se[curr].in_runqueue
    BY <1>2
  <2>3. FreshEntity.in_runqueue <=> Rq.se[curr].in_runqueue
    BY <1>3, <2>2
  <2>4. Rq.se[curr].in_runqueue => SameLinks(FreshEntity, Rq.se[curr])
    BY <2>2
  <2>5. RqTypes(Rq) /\ curr \in Proc /\ FreshEntity \in Entity
    BY <1>2, <1>3
  <2> QED BY <1>4, <2>3, <2>4, <2>5, ChangeKeeps
<1>6. se'[curr] = FreshEntity /\ \A x \in Proc : x # curr => se'[x] = se[x]
  BY <1>1, <1>2, SettledMeans
<1>7. /\ state' \in [Proc -> ProcState] /\ state'[curr] = "UNUSED"
      /\ \A x \in Proc : x # curr => state'[x] = state[x]
  BY <1>1, <1>2 DEF ProcState
<1>8. Ranked(se', state')
  <2> SUFFICES ASSUME NEW x \in Proc
               PROVE  /\ se'[x].in_runqueue <=> state'[x] = "RUNNABLE"
                      /\ state'[x] = "RUNNABLE" => se'[x].runqueue_prio = se'[x].dynamic_priority
                      /\ RankOK(se'[x])
    BY DEF Ranked
  <2>1. CASE x = curr
    BY <1>3, <1>6, <1>7, <2>1
  <2>2. CASE x # curr
    BY <1>2, <1>6, <1>7, <2>2 DEF Ranked
  <2> QED BY <2>1, <2>2
<1>9. Settled'
  <2>1. vruntime' \in [Proc -> 0 .. MaxVruntime] /\ min_vruntime' \in 0 .. MaxVruntime
    BY <1>1, <1>2
  <2>2. curr' \in Ref /\ (curr' # NULL => state'[curr'] = "RUNNING")
    BY <1>1 DEF Ref
  <2> QED BY <1>5, <1>7, <1>8, <2>1, <2>2 DEF Settled
<1>10. Leaves(Q, Q)
  BY <1>1, <1>2 DEF Leaves, Others
<1> QED BY <1>5, <1>9, <1>10 DEF Leads, StepOf

(* A new priority moves a process that is in line, and nobody else.        *)
LEMMA RequeueLeads ==
  ASSUME Settled, NEW Q, Shape(Q, Rq), NEW p \in Proc, NEW e \in Entity,
         e.in_runqueue <=> se[p].in_runqueue, SameLinks(e, se[p]), RankOK(e),
         Install(Requeue(WithEntity(Rq, p, e), p)),
         UNCHANGED <<min_vruntime, curr, vruntime, state>>
  PROVE  Leads(Q)
<1> DEFINE r1 == WithEntity(Rq, p, e)
<1>1. /\ RqTypes(Rq) /\ Rq.se = se /\ IsRq(Rq) /\ state \in [Proc -> ProcState]
      /\ Ranked(se, state)
  BY SettledMeans
<1>2. /\ RqTypes(r1) /\ Shape(Q, r1) /\ r1.se[p] = e
      /\ \A x \in Proc : x # p => r1.se[x] = se[x]
  <2>1. Swapped(Rq, r1, p, e)
    BY <1>1, SwapMeans
  <2> HIDE DEF r1
  <2>2. e.in_runqueue <=> Rq.se[p].in_runqueue
    BY <1>1
  <2>3. Rq.se[p].in_runqueue => SameLinks(e, Rq.se[p])
    BY <1>1
  <2>4. /\ RqTypes(r1) /\ Shape(Q, r1) /\ r1.se[p] = e
        /\ \A x \in Proc : x # p => r1.se[x] = Rq.se[x]
    <3>1. RqTypes(Rq)
      BY <1>1
    <3> QED BY <2>1, <2>2, <2>3, <3>1, ChangeKeeps
  <2> QED BY <1>1, <2>4
<1>3. Install(Requeue(r1, p))
  OBVIOUS
<1> HIDE DEF r1
<1>4. ASSUME NEW r, NEW Q2, RqTypes(r), Shape(Q2, r), Install(r), Ranked(r.se, state)
      PROVE  Settled' /\ Shape(Q2, Rq')
  <2>1. RqTypes(Rq)' /\ se' = r.se /\ Shape(Q2, Rq')
    BY <1>4, InstallMeans
  <2> QED BY <1>4, <2>1 DEF Settled
<1>5. CASE state[p] = "RUNNABLE" /\ r1.se[p].in_runqueue
  <2> DEFINE l == r1.se[p].runqueue_prio
  <2>1. l \in Levels /\ \E k \in 1 .. Len(Q[l]) : Q[l][k] = p
    <3>1. r1.se[p] \in Entity /\ p \in Marked(r1.se)
      BY <1>2, <1>5 DEF Marked
    <3> QED BY <1>2, <3>1 DEF Shape, Entity
  <2> HIDE DEF l
  <2>2. PICK k \in 1 .. Len(Q[l]) : Q[l][k] = p
    BY <2>1
  <2> DEFINE r2 == Dequeue(r1, p)
             Q2 == [Q EXCEPT ![l] = Cut(@, k)]
             r3 == Enqueue(r2, p)
  <2>3. /\ RqTypes(r2) /\ Shape(Q2, r2)
        /\ \A x \in Proc : /\ SameRank(r1.se, r2.se, x)
                           /\ r2.se[x].in_runqueue <=> (x # p /\ r1.se[x].in_runqueue)
                           /\ r2.se[x].runqueue_prio = r1.se[x].runqueue_prio
    BY <1>2, <2>1, <2>2, DequeueKeeps
  <2> HIDE DEF r2, Q2
  <2>4. ~r2.se[p].in_runqueue /\ RankOK(r2.se[p])
    BY <1>2, <2>3 DEF SameRank, RankOK
  <2>5. PICK to \in Levels : RqTypes(r3) /\ Shape([Q2 EXCEPT ![to] = Append(@, p)], r3)
    BY <2>3, <2>4, EnqueueKeeps
  <2>6. Ranked(r3.se, state)
    <3>1. state = [state EXCEPT ![p] = "RUNNABLE"]
      BY <1>1, <1>5
    <3>2. \A x \in Proc : x # p => Alike(se, r2.se, x)
      BY <1>2, <2>3 DEF Alike, SameRank
    <3> QED BY <1>1, <2>3, <2>4, <3>1, <3>2, EnqueueRanks
  <2>7. Install(r3)
    BY <1>3, <1>5 DEF Requeue, r2
  <2> HIDE DEF r3
  <2>8. Settled' /\ Shape([Q2 EXCEPT ![to] = Append(@, p)], Rq')
    BY <1>4, <2>5, <2>6, <2>7
  <2>9. Moves(Q, [Q2 EXCEPT ![to] = Append(@, p)])
    BY <2>1, <2>2 DEF Moves, Q2
  <2> QED BY <2>8, <2>9 DEF Leads, StepOf
<1>6. CASE ~(state[p] = "RUNNABLE" /\ r1.se[p].in_runqueue)
  <2>1. Install(r1)
    BY <1>3, <1>6 DEF Requeue
  <2>2. state[p] # "RUNNABLE" /\ ~se[p].in_runqueue
    BY <1>1, <1>2, <1>6 DEF Ranked
  <2>3. Ranked(r1.se, state)
    <3> SUFFICES ASSUME NEW x \in Proc
                 PROVE  /\ r1.se[x].in_runqueue <=> state[x] = "RUNNABLE"
                        /\ state[x] = "RUNNABLE" => r1.se[x].runqueue_prio = r1.se[x].dynamic_priority
                        /\ RankOK(r1.se[x])
      BY DEF Ranked
    <3>1. CASE x = p
      BY <1>2, <2>2, <3>1
    <3>2. CASE x # p
      BY <1>1, <1>2, <3>2 DEF Ranked
    <3> QED BY <3>1, <3>2
  <2>4. Settled' /\ Shape(Q, Rq')
    BY <1>2, <1>4, <2>1, <2>3
  <2>5. Rests(Q, Q)
    BY DEF Rests
  <2> QED BY <2>4, <2>5 DEF Leads, StepOf
<1> QED BY <1>5, <1>6

(* sched_set_priority                                                      *)
LEMMA SetPriorityLeads ==
  ASSUME Settled, NEW Q, Shape(Q, Rq), NEW p \in Proc, NEW prio \in SetPrios,
         SetPriority(p, prio)
  PROVE  Leads(Q)
<1> DEFINE e == [se[p] EXCEPT !.rt = prio <= PRIO_RT_MAX,
                              !.static_priority = prio, !.dynamic_priority = prio]
<1>1. /\ prio < SCHED_PRIORITY_LEVELS /\ Install(Requeue(WithEntity(Rq, p, e), p))
      /\ UNCHANGED <<min_vruntime, curr, vruntime, state>>
  BY Zenon DEF SetPriority
<1>2. prio \in Levels
  BY <1>1, LevelsAre, RunQueueAssumption DEF SCHED_PRIORITY_LEVELS
<1>3. se[p] \in Entity
  BY SettledMeans
<1>4. /\ e \in Entity /\ SameLinks(e, se[p]) /\ (e.in_runqueue <=> se[p].in_runqueue)
      /\ RankOK(e)
  BY <1>2, <1>3, PriorityMeans
<1> HIDE DEF e
<1> QED BY <1>1, <1>4, RequeueLeads

(* sched_nice                                                              *)
LEMMA NiceLeads ==
  ASSUME Settled, NEW Q, Shape(Q, Rq), NEW p \in Proc, NEW nice \in SetNices, Nice(p, nice)
  PROVE  Leads(Q)
<1> DEFINE f == [se[p] EXCEPT !.nice = NiceInRange(nice)]
           e == UpdatePriority(f)
<1>1. /\ Install(Requeue(WithEntity(Rq, p, e), p))
      /\ UNCHANGED <<min_vruntime, curr, vruntime, state>>
  BY Zenon DEF Nice
<1>2. nice \in -128 .. 127
  BY RunQueueAssumption
<1>3. se[p] \in Entity /\ RankOK(se[p])
  BY SettledMeans DEF Ranked
<1>a. f = [se[p] EXCEPT !.nice = NiceInRange(nice)]
  OBVIOUS
<1> HIDE DEF f
<1>4. /\ f \in Entity /\ SameLinks(f, se[p]) /\ (f.in_runqueue <=> se[p].in_runqueue)
      /\ RankOK(f)
  BY <1>2, <1>3, <1>a, NiceMeans, SMTT(40)
<1>5. /\ e \in Entity /\ SameLinks(e, f) /\ (e.in_runqueue <=> f.in_runqueue) /\ RankOK(e)
  BY <1>4, UpdateMeans
<1> HIDE DEF e
<1>6. SameLinks(e, se[p]) /\ (e.in_runqueue <=> se[p].in_runqueue)
  BY <1>4, <1>5 DEF SameLinks
<1> QED BY <1>1, <1>5, <1>6, RequeueLeads

-----------------------------------------------------------------------------
(* The theorems.                                                           *)

(* Initially all lists are empty.                                          *)
LEMMA InitShape == Init => Settled /\ Shape([l \in Levels |-> << >>], Rq)
<1> SUFFICES ASSUME Init PROVE Settled /\ Shape([l \in Levels |-> << >>], Rq)
  OBVIOUS
<1> DEFINE Q == [l \in Levels |-> << >>]
<1>1. FreshEntity \in Entity /\ ~FreshEntity.in_runqueue /\ RankOK(FreshEntity)
  BY FreshMeans
<1>2. /\ CounterMod \in Nat \ {0} /\ WeightMod \in Nat \ {0} /\ MaxVruntime \in Nat
      /\ NULL \in Ref
  <2>1. Cardinality(Proc) \in Nat
    BY RunQueueAssumption, FS_CardinalityType
  <2>2. 88761 * (Cardinality(Proc) + 1) \in Nat
    BY <2>1
  <2> QED BY <2>1, <2>2, RunQueueAssumption DEF Ref
<1>3. /\ Rq.heads = [l \in Levels |-> NULL] /\ Rq.tails = [l \in Levels |-> NULL]
      /\ Rq.sizes = [l \in Levels |-> 0] /\ Rq.runnable = 0 /\ Rq.weight = 0
      /\ Rq.se = [p \in Proc |-> FreshEntity] /\ se = [p \in Proc |-> FreshEntity]
  BY RqIsRq DEF Init
<1>4. RqTypes(Rq)
  BY <1>1, <1>2, <1>3 DEF RqTypes
<1>5. Marked(Rq.se) = {} /\ Cardinality(Marked(Rq.se)) = 0
  <2>1. Marked(Rq.se) = {}
    BY <1>1, <1>3 DEF Marked
  <2> QED BY <2>1, FS_EmptySet
<1>6. \A l \in Levels : Links(<< >>, l, NULL, NULL, Rq.se)
  BY DEF Links, At
<1>7. Shape(Q, Rq)
  BY <1>3, <1>5, <1>6 DEF Shape
<1>8. Settled
  <2>1. state = [p \in Proc |-> "UNUSED"] /\ curr = NULL /\ min_vruntime = 0
        /\ vruntime = [p \in Proc |-> 0]
    BY DEF Init
  <2>2. Ranked(se, state)
    BY <1>1, <1>3, <2>1 DEF Ranked
  <2> QED BY <1>2, <1>4, <2>1, <2>2 DEF Settled, ProcState
<1> QED BY <1>7, <1>8

(* Every step leads from queues to queues as ReadyQueues allows.           *)
LEMMA NextLeads ==
  ASSUME Settled, NEW Q, Shape(Q, Rq), [Next]_vars
  PROVE  Leads(Q)
<1>1. CASE \E p \in Proc : Exec(p)
  BY <1>1, ExecLeads
<1>2. CASE Schedule
  BY <1>2, ScheduleLeads
<1>3. CASE \E d \in VDelta : Tick(d)
  BY <1>3, TickLeads
<1>4. CASE \E d \in VDelta : Preempt(d)
  BY <1>4, PreemptLeads
<1>5. CASE Exit
  BY <1>5, ExitLeads
<1>6. CASE \E p \in Proc, prio \in SetPrios : SetPriority(p, prio)
  BY <1>6, SetPriorityLeads
<1>7. CASE \E p \in Proc, nice \in SetNices : Nice(p, nice)
  BY <1>7, NiceLeads
<1>8. CASE UNCHANGED vars
  <2>1. Rq' = Rq /\ UNCHANGED <<min_vruntime, curr, se, vruntime, state>>
    BY <1>8 DEF vars, rqVars, Rq
  <2>2. Settled'
    BY <2>1 DEF Settled
  <2>3. Rests(Q, Q)
    BY <2>1 DEF Rests
  <2> QED BY <2>1, <2>2, <2>3 DEF Leads, StepOf
<1> QED BY <1>1, <1>2, <1>3, <1>4, <1>5, <1>6, <1>7, <1>8 DEF Next

(* The inductive invariant: there are lists.                               *)
THEOREM RunQueueInvariance == Spec => []RqInv
<1>1. Init => RqInv
  BY InitShape DEF RqInv
<1>2. RqInv /\ [Next]_vars => RqInv'
  <2> SUFFICES ASSUME RqInv, [Next]_vars PROVE RqInv'
    OBVIOUS
  <2>1. PICK Q : Shape(Q, Rq)
    BY DEF RqInv
  <2>2. Leads(Q)
    BY <2>1, NextLeads DEF RqInv
  <2> QED BY <2>2 DEF Leads, RqInv
<1> QED BY <1>1, <1>2, PTL DEF Spec

(* The lists and their counters agree.                                     *)
LEMMA ListsIntact == RqInv => RunQueueInv
<1> SUFFICES ASSUME RqInv PROVE RunQueueInv
  OBVIOUS
<1>1. PICK Q : Shape(Q, Rq)
  BY DEF RqInv
<1>2. /\ RqTypes(Rq) /\ se \in [Proc -> Entity] /\ NULL \notin Proc
      /\ min_vruntime \in 0 .. MaxVruntime /\ vruntime \in [Proc -> 0 .. MaxVruntime]
      /\ state \in [Proc -> ProcState] /\ curr \in Ref /\ Ranked(se, state)
  BY SettledMeans DEF RqInv
<1>3. /\ Rq.heads = queue_heads /\ Rq.tails = queue_tails /\ Rq.sizes = queue_sizes
      /\ Rq.runnable = total_runnable /\ Rq.weight = total_weight /\ Rq.se = se
  BY RqIsRq
<1>4. TypeOK
  <2>1. /\ queue_heads \in [Levels -> Ref] /\ queue_tails \in [Levels -> Ref]
        /\ queue_sizes \in [Levels -> 0 .. CounterMod - 1]
        /\ total_runnable \in 0 .. CounterMod - 1 /\ total_weight \in 0 .. WeightMod - 1
    BY <1>2, <1>3 DEF RqTypes
  <2>2. \A p \in Proc : /\ se[p].next \in Ref /\ se[p].prev \in Ref
                        /\ se[p].dynamic_priority \in Levels /\ se[p].runqueue_prio \in Levels
                        /\ se[p].nice \in -20 .. 19
    BY <1>2 DEF Entity
  <2> QED BY <1>2, <2>1, <2>2 DEF TypeOK, Ref
<1>5. ASSUME NEW l \in Levels
      PROVE  LET q == List(l)
             IN  /\ Len(q) <= Cardinality(Proc)
                 /\ queue_sizes[l] = Len(q)
                 /\ queue_tails[l] = IF q = << >> THEN NULL ELSE q[Len(q)]
                 /\ \A k \in DOMAIN q :
                      /\ se[q[k]].prev = IF k = 1 THEN NULL ELSE q[k - 1]
                      /\ se[q[k]].runqueue_prio = l
                      /\ se[q[k]].in_runqueue
  <2>1. List(l) = Q[l] /\ Q[l] \in Seq(Proc)
    BY <1>1, ListIs
  <2>2. Links(Q[l], l, queue_heads[l], queue_tails[l], se) /\ queue_sizes[l] = Len(Q[l])
    BY <1>1, <1>3 DEF Shape
  <2>3. Len(Q[l]) <= Cardinality(Proc)
    BY <2>2, LinksShort
  <2>4. queue_tails[l] = IF Q[l] = << >> THEN NULL ELSE Q[l][Len(Q[l])]
    <3>1. queue_tails[l] = At(Q[l], Len(Q[l]))
      BY <2>2 DEF Links
    <3> QED BY <2>1, <3>1 DEF At
  <2>5. ASSUME NEW k \in DOMAIN Q[l]
        PROVE  /\ se[Q[l][k]].prev = IF k = 1 THEN NULL ELSE Q[l][k - 1]
               /\ se[Q[l][k]].runqueue_prio = l /\ se[Q[l][k]].in_runqueue
    <3>1. k \in 1 .. Len(Q[l])
      BY <2>1
    <3>2. se[Q[l][k]].prev = At(Q[l], k - 1)
      BY <2>2, <3>1 DEF Links
    <3>3. At(Q[l], k - 1) = IF k = 1 THEN NULL ELSE Q[l][k - 1]
      BY <2>1, <3>1 DEF At
    <3> QED BY <2>2, <3>1, <3>2, <3>3 DEF Links
  <2> QED BY <2>1, <2>2, <2>3, <2>4, <2>5
<1>6. InSomeList = Marked(se) /\ Marked(se) = {p \in Proc : state[p] = "RUNNABLE"}
  <2>1. Marked(se) = {p \in Proc : state[p] = "RUNNABLE"}
    BY <1>2 DEF Marked, Ranked
  <2>2. ASSUME NEW p \in InSomeList PROVE p \in Marked(se)
    <3>1. PICK l \in Levels : p \in Members(List(l))
      BY DEF InSomeList
    <3>2. List(l) = Q[l] /\ Q[l] \in Seq(Proc)
      BY <1>1, ListIs
    <3>3. PICK k \in 1 .. Len(Q[l]) : p = Q[l][k]
      BY <3>1, <3>2 DEF Members
    <3> QED BY <1>1, <1>3, <3>3, Placed DEF Marked
  <2>3. ASSUME NEW p \in Marked(se) PROVE p \in InSomeList
    <3> DEFINE l == se[p].runqueue_prio
    <3>1. l \in Levels
      BY <1>2 DEF Marked, Entity
    <3>2. PICK k \in 1 .. Len(Q[l]) : Q[l][k] = p
      BY <1>1, <1>3 DEF Shape
    <3> HIDE DEF l
    <3>3. List(l) = Q[l] /\ Q[l] \in Seq(Proc)
      BY <1>1, <3>1, ListIs
    <3>4. p \in Members(List(l))
      BY <3>2, <3>3 DEF Members
    <3> QED BY <3>1, <3>4 DEF InSomeList
  <2> QED BY <2>1, <2>2, <2>3
<1>7. total_runnable = Cardinality(InSomeList)
  BY <1>1, <1>3, <1>6 DEF Shape
<1>8. \A p \in Proc : se[p].in_runqueue <=> state[p] = "RUNNABLE"
  BY <1>2 DEF Ranked
<1>9. QueueIntact
  BY <1>5, <1>6, <1>7, <1>8 DEF QueueIntact
<1>10. QueuedAtPriority /\ RealTimeAgrees
  BY <1>2 DEF Ranked, QueuedAtPriority, RealTimeAgrees, RankOK
<1> QED BY <1>4, <1>9, <1>10 DEF RunQueueInv

(* Whatever is created, dispatched, preempted, ended and given another     *)
(* priority, in any order: the linked lists of the run queue are intact,   *)
(* hold exactly the RUNNABLE processes, each at the level of its priority, *)
(* and the counters count them (sched_enqueue, sched_dequeue).             *)
THEOREM ListsStayIntact == Spec => []RunQueueInv
BY RunQueueInvariance, ListsIntact, PTL

(* The pointers implement the first-come sequences of ReadyQueues: nobody  *)
(* in line is lost or overtaken but by rank and vruntime                   *)
(* (sched_pick_next, sched_enqueue, sched_dequeue).                        *)
THEOREM ImplementsReadyQueues == Spec => Implements
<1> DEFINE queue == [l \in Levels |-> List(l)]
<1>1. Init => Abstract!ReadyInit
  <2> SUFFICES ASSUME Init PROVE Abstract!ReadyInit
    OBVIOUS
  <2>1. \A l \in Levels : List(l) = [m \in Levels |-> << >>][l]
    BY InitShape, ListIs
  <2>2. [l \in Levels |-> List(l)] = [l \in Levels |-> << >>]
    BY <2>1
  <2>3. curr = NULL /\ vruntime \in [Proc -> Nat]
    BY DEF Init
  <2> QED BY <2>2, <2>3 DEF Abstract!ReadyInit
<1>2. RqInv /\ [Next]_vars => [Abstract!ReadyNext]_(Abstract!readyVars)
  <2> SUFFICES ASSUME RqInv, [Next]_vars PROVE [Abstract!ReadyNext]_(Abstract!readyVars)
    OBVIOUS
  <2>1. PICK Q : Shape(Q, Rq)
    BY DEF RqInv
  <2>2. PICK Q2 : Shape(Q2, Rq') /\ StepOf(Q, Q2)
    BY <2>1, NextLeads DEF RqInv, Leads
  <2>3. queue = Q /\ \A l \in Levels : Q[l] \in Seq(Proc)
    <3>1. Q \in [Levels -> Seq(Proc)]
      BY <2>1 DEF Shape
    <3>2. \A l \in Levels : List(l) = Q[l]
      BY <2>1, ListIs
    <3> QED BY <3>1, <3>2
  <2>4. queue' = Q2
    <3>1. Q2 \in [Levels -> Seq(Proc)]
      BY <2>2 DEF Shape
    <3>2. ASSUME NEW l \in Levels PROVE List(l)' = Q2[l]
      <4>1. Rq'.heads = queue_heads' /\ Rq'.tails = queue_tails' /\ Rq'.se = se'
        BY DEF Rq
      <4>2. Links(Q2[l], l, queue_heads'[l], queue_tails'[l], se')
        BY <2>2, <4>1 DEF Shape
      <4>3. ListFrom(queue_heads'[l], se') = Q2[l]
        BY <4>2, LinksAreList
      <4> QED BY <4>3 DEF List
    <3> QED BY <3>1, <3>2
  <2> HIDE DEF queue
  <2>5. CASE Arrives(Q, Q2)
    <3>1. PICK p \in Proc, l \in Levels :
            /\ p # curr /\ curr' = curr
            /\ \A m \in Levels : \A k \in 1 .. Len(Q[m]) : Q[m][k] # p
            /\ Q2 = [Q EXCEPT ![l] = Append(@, p)]
            /\ Others(p)
      BY <2>5 DEF Arrives
    <3>2. \A m \in Levels : p \notin {Q[m][k] : k \in DOMAIN Q[m]}
      BY <2>3, <3>1
    <3>3. \A m \in Levels : p \notin Abstract!Queued(m)
      BY <2>3, <3>2 DEF Abstract!Queued, queue
    <3>4. p \notin Abstract!Ready
      BY <3>3 DEF Abstract!Ready
    <3>5. queue' = [queue EXCEPT ![l] = Append(@, p)]
      BY <2>3, <2>4, <3>1
    <3>6. Abstract!Arrive(p, l)
      BY <3>1, <3>4, <3>5 DEF Abstract!Arrive, Others, queue
    <3> QED BY <3>6 DEF Abstract!ReadyNext
  <2>6. CASE Moves(Q, Q2)
    BY <2>3, <2>4, <2>6 DEF Moves, Cut, Abstract!ReadyNext, Abstract!Move, Abstract!Without, queue
  <2>7. CASE Takes(Q, Q2)
    <3>1. PICK l \in Levels : \E k \in 1 .. Len(Q[l]) :
            curr' = Q[l][k] /\ FirstBest(Q, l, k) /\ Q2 = [Q EXCEPT ![l] = Cut(@, k)]
      BY <2>7 DEF Takes
    <3>2. PICK k \in 1 .. Len(Q[l]) :
            curr' = Q[l][k] /\ FirstBest(Q, l, k) /\ Q2 = [Q EXCEPT ![l] = Cut(@, k)]
      BY <3>1
    <3>3. l \in Int /\ PRIO_RT_MAX \in Int
      BY LevelsAre DEF PRIO_RT_MAX
    <3>4. k \in DOMAIN queue[l] /\ DOMAIN queue[l] = 1 .. Len(Q[l])
      BY <2>3
    <3>5. Abstract!Best(l, k)
      BY <2>3, <3>2, <3>3, <3>4 DEF FirstBest, Abstract!Best, queue
    <3>6. queue' = [queue EXCEPT ![l] = Abstract!Without(@, k)]
      BY <2>3, <2>4, <3>2 DEF Cut, Abstract!Without
    <3>7. \A h \in Levels : h < l => queue[h] = << >>
      BY <2>3, <3>2 DEF FirstBest
    <3>8. curr = NULL /\ curr' = queue[l][k] /\ UNCHANGED vruntime
      BY <2>3, <2>7, <3>2 DEF Takes
    <3>9. Abstract!Take(l, k)
      BY <3>5, <3>6, <3>7, <3>8 DEF Abstract!Take, queue
    <3> QED BY <3>4, <3>9 DEF Abstract!ReadyNext, queue
  <2>8. CASE Runs(Q, Q2)
    BY <2>3, <2>4, <2>8 DEF Runs, Charged, Others, Abstract!ReadyNext, Abstract!Run,
                            Abstract!Charge, queue
  <2>9. CASE PutsBack(Q, Q2)
    BY <2>3, <2>4, <2>9 DEF PutsBack, Charged, Others, Abstract!ReadyNext, Abstract!PutBack,
                            Abstract!Charge, queue
  <2>10. CASE Leaves(Q, Q2)
    BY <2>3, <2>4, <2>10 DEF Leaves, Others, Abstract!ReadyNext, Abstract!Leave, queue
  <2>11. CASE Rests(Q, Q2)
    BY <2>3, <2>4, <2>11 DEF Rests, Abstract!readyVars, queue
  <2> QED BY <2>2, <2>5, <2>6, <2>7, <2>8, <2>9, <2>10, <2>11 DEF StepOf
<1> QED BY <1>1, <1>2, RunQueueInvariance, PTL DEF Spec, Implements, Abstract!ReadySpec
=============================================================================
