------------------------ MODULE PageAllocatorProofs -------------------------
(***************************************************************************)
(* Theorems about PageAllocator, for a memory of any size, any memory map  *)
(* and any sequence of calls.                                              *)
(*                                                                         *)
(* FreeList follows pointers that lie in pages, and a proof cannot follow  *)
(* them step by step.  The invariant says instead that some sequence of    *)
(* pages without repetition is threaded through their first words from     *)
(* freepages to NULL; such a sequence is the FreeList (ChainIsFreeList).   *)
(***************************************************************************)
EXTENDS PageAllocator, FiniteSetTheorems, NaturalsInduction, WellFoundedInduction, TLAPS

(* What the word behind the first k - 1 pages of L has to be.              *)
At(L, k) == IF k <= Len(L) THEN L[k] ELSE NULL

(* L is threaded through the first words of its pages, from head on.       *)
Chain(L, head, word) ==
  /\ L \in Seq(Pages)
  /\ \A i, j \in 1 .. Len(L) : L[i] = L[j] => i = j
  /\ head = At(L, 1)
  /\ \A i \in 1 .. Len(L) : word[L[i]] = At(L, i + 1)

Members(L) == {L[i] : i \in 1 .. Len(L)}

(* The regions are not empty and do not overlap.                           *)
Region == [phys_cur : Nat, phys_end : Nat]
RegionsOK(R) ==
  /\ R \in Seq(Region)
  /\ \A k \in 1 .. Len(R) : R[k].phys_cur < R[k].phys_end /\ R[k].phys_end <= NumPages
  /\ \A j, k \in 1 .. Len(R) :
       j # k => R[j].phys_end <= R[k].phys_cur \/ R[k].phys_end <= R[j].phys_cur

InRegions(R) ==
  {p \in Pages : \E k \in 1 .. Len(R) : R[k].phys_cur <= p /\ p < R[k].phys_end}

(* The usable pages are with a holder, free, or in a region.               *)
Partition(H, F, U) ==
  /\ H \cup F \cup U = Usable
  /\ H \cap F = {} /\ H \cap U = {} /\ F \cap U = {}

(* The inductive invariant.                                                *)
PageInv ==
  /\ TypeOK
  /\ RegionsOK(regions)
  /\ ~mem_initialized => held = {} /\ freepages = NULL
  /\ mem_initialized =>
       \E L : Chain(L, freepages, word0) /\ Partition(held, Members(L), InRegions(regions))
  /\ FailsOnlyWhenFull

-----------------------------------------------------------------------------
(* Numbers.                                                                *)

(* A set of natural numbers that is not empty has a least member.          *)
LEMMA LeastExists ==
  ASSUME NEW T \in SUBSET Nat, T # {}
  PROVE  \E m \in T : \A x \in T : m <= x
<1> DEFINE R == OpToRel(<, Nat)
<1>1. PICK m \in T : \A x \in T : ~(<<x, m>> \in R)
  <2>1. IsWellFoundedOn(R, Nat)
    BY NatLessThanWellFounded
  <2> HIDE DEF R
  <2> QED BY <2>1, WFMin
<1>2. \A x \in T : ~(x < m)
  BY <1>1 DEF OpToRel
<1> QED BY <1>2

(* Multiples of a page size are ordered as their factors.                  *)
LEMMA Multiples ==
  ASSUME NEW a \in Int, NEW b \in Int, NEW d \in Nat \ {0}
  PROVE  a <= b <=> a * d <= b * d
<1>1. ASSUME a <= b PROVE a * d <= b * d
  <2>1. (b - a) * d >= 0
    BY <1>1
  <2>2. (b - a) * d = b * d - a * d
    OBVIOUS
  <2> QED BY <2>1, <2>2
<1>2. ASSUME ~(a <= b) PROVE ~(a * d <= b * d)
  <2>1. (a - b) * d > 0
    BY <1>2
  <2>2. (a - b) * d = a * d - b * d
    OBVIOUS
  <2> QED BY <2>1, <2>2
<1> QED BY <1>1, <1>2

(* Rounding an address up or down to a page.                               *)
LEMMA Rounding ==
  ASSUME NEW a \in Nat, NEW d \in Nat \ {0}, NEW p \in Nat
  PROVE  /\ (a + d - 1) \div d <= p <=> a <= p * d
         /\ p < a \div d <=> (p + 1) * d <= a
<1> DEFINE u == (a + d - 1) \div d
           q == a \div d
<1>1. u \in Int /\ u * d <= a + d - 1 /\ a + d - 1 < (u + 1) * d
  OBVIOUS
<1>2. q \in Int /\ q * d <= a /\ a < (q + 1) * d
  OBVIOUS
<1> HIDE DEF u, q
<1>3. (u + 1) * d = u * d + d /\ (q + 1) * d = q * d + d /\ (p + 1) * d = p * d + d
  BY <1>1, <1>2
<1>4. u <= p <=> u * d <= p * d
  BY <1>1, Multiples
<1>5. p + 1 <= u <=> p * d + d <= u * d
  BY <1>1, <1>3, Multiples
<1>6. p + 1 <= q <=> p * d + d <= q * d
  BY <1>2, <1>3, Multiples
<1>7. q <= p <=> q * d <= p * d
  BY <1>2, Multiples
<1>8. u * d \in Int /\ p * d \in Int /\ q * d \in Int
  BY <1>1, <1>2
<1>9. u <= p <=> a <= p * d
  BY <1>1, <1>3, <1>4, <1>5, <1>8
<1>10. p < q <=> (p + 1) * d <= a
  BY <1>2, <1>3, <1>6, <1>7, <1>8
<1> QED BY <1>9, <1>10 DEF u, q

-----------------------------------------------------------------------------
(* The list of free pages.                                                 *)

(* A chain has no more pages than there are.                               *)
LEMMA ChainShort ==
  ASSUME NEW L, NEW head, NEW word, Chain(L, head, word)
  PROVE  /\ Len(L) \in Nat /\ Len(L) <= NumPages
         /\ Cardinality(Members(L)) = Len(L)
         /\ Members(L) \in SUBSET Pages
<1>1. L \in Seq(Pages) /\ Len(L) \in Nat /\ L \in [1 .. Len(L) -> Pages]
  BY DEF Chain
<1>2. NumPages \in Nat /\ IsFiniteSet(Pages) /\ Cardinality(Pages) = NumPages
  BY PageAssumption, FS_Interval DEF Pages
<1>3. IsFiniteSet(1 .. Len(L)) /\ Cardinality(1 .. Len(L)) = Len(L)
  BY <1>1, FS_Interval
<1>4. L \in Injection(1 .. Len(L), Pages)
  BY <1>1 DEF Chain, Injection, IsInjective
<1>5. Len(L) <= NumPages
  BY <1>2, <1>3, <1>4, FS_Injection
<1>6. L \in Bijection(1 .. Len(L), Members(L))
  <2>1. L \in [1 .. Len(L) -> Members(L)]
    BY <1>1 DEF Members
  <2>2. L \in Injection(1 .. Len(L), Members(L))
    BY <2>1 DEF Chain, Injection, IsInjective
  <2>3. \A t \in Members(L) : \E s \in 1 .. Len(L) : L[s] = t
    BY DEF Members
  <2> QED BY <2>1, <2>2, <2>3 DEF Bijection, Surjection
<1>7. Cardinality(Members(L)) = Len(L)
  BY <1>3, <1>6, FS_Bijection DEF ExistsBijection
<1> QED BY <1>1, <1>5, <1>7 DEF Members

(* The pages met from freepages on are those of the chain.                 *)
LEMMA ChainIsFreeList ==
  ASSUME NEW L, Chain(L, freepages, word0)
  PROVE  FreeList = L
<1> DEFINE n == Len(L)
           N == NumPages + 1
           Step(f, k) == IF k = 1 THEN freepages
                         ELSE IF f[k - 1] \in Pages THEN word0[f[k - 1]] ELSE f[k - 1]
           g == [k \in 1 .. N |-> At(L, k)]
<1>1. L \in Seq(Pages) /\ n \in Nat /\ n <= NumPages /\ N \in Nat /\ n < N
  <2>1. L \in Seq(Pages)
    BY DEF Chain
  <2>2. n \in Nat /\ n <= NumPages
    BY ChainShort
  <2>3. NumPages \in Nat
    BY PageAssumption
  <2> HIDE DEF n
  <2> QED BY <2>1, <2>2, <2>3
<1>2. NULL \notin Pages
  BY PageAssumption
<1>3. g = [k \in 1 .. N |-> Step(g, k)]
  <2> SUFFICES ASSUME NEW k \in 1 .. N PROVE g[k] = Step(g, k)
    OBVIOUS
  <2>1. CASE k = 1
    BY <2>1 DEF Chain
  <2>2. CASE k # 1 /\ k - 1 <= n
    BY <1>1, <2>2 DEF Chain, At
  <2>3. CASE k # 1 /\ ~(k - 1 <= n)
    BY <1>1, <1>2, <2>3 DEF At
  <2> QED BY <2>1, <2>2, <2>3
<1>4. Nodes = [k \in 1 .. N |-> Step(Nodes, k)]
  <2> HIDE DEF g
  <2>1. Nodes = CHOOSE f : f = [k \in 1 .. N |-> Step(f, k)]
    BY Zenon DEF Nodes
  <2> HIDE DEF Step, N
  <2> QED BY <1>3, <2>1, Zenon
<1>5. \A k \in 1 .. N : Nodes[k] = At(L, k)
  <2> SUFFICES ASSUME NEW bad \in 1 .. N, Nodes[bad] # At(L, bad) PROVE FALSE
    OBVIOUS
  <2> DEFINE T == {k \in 1 .. N : Nodes[k] # At(L, k)}
  <2>1. PICK m \in T : \A x \in T : m <= x
    <3>1. T \in SUBSET Nat /\ T # {}
      OBVIOUS
    <3> HIDE DEF T
    <3> QED BY <3>1, LeastExists
  <2>2. m \in 1 .. N /\ Nodes[m] # At(L, m)
    BY <2>1
  <2>3. m = 1 \/ (m - 1 \in 1 .. N /\ Nodes[m - 1] = g[m - 1])
    BY <1>1, <2>1
  <2>4. Nodes[m] = Step(Nodes, m) /\ g[m] = Step(g, m)
    BY <1>3, <1>4, <2>2, Zenon
  <2>5. Step(Nodes, m) = Step(g, m)
    <3> HIDE DEF g
    <3> QED BY <2>3
  <2>6. g[m] = At(L, m)
    BY <2>2
  <2> HIDE DEF g, Step
  <2> QED BY <2>2, <2>4, <2>5, <2>6
<1>6. {j \in 1 .. N : Nodes[j] \in Pages} = 1 .. n
  BY <1>1, <1>2, <1>5 DEF At
<1>7. Cardinality(1 .. n) = n
  <2>1. n \in Nat
    BY <1>1
  <2> HIDE DEF n
  <2> QED BY <2>1, FS_Interval
<1>8. FreeList = [k \in 1 .. n |-> Nodes[k]]
  BY <1>6, <1>7 DEF FreeList
<1>9. L = [k \in 1 .. n |-> L[k]]
  BY <1>1
<1>10. \A k \in 1 .. n : Nodes[k] = L[k]
  BY <1>1, <1>5 DEF At
<1> HIDE DEF n
<1> QED BY <1>8, <1>9, <1>10

(* A write to pages that are not free leaves the list alone.               *)
LEMMA ChainKept ==
  ASSUME NEW L, NEW head, NEW word, NEW word2, Chain(L, head, word),
         \A p \in Members(L) : word2[p] = word[p]
  PROVE  Chain(L, head, word2)
<1>1. \A i \in 1 .. Len(L) : L[i] \in Members(L)
  BY DEF Members
<1>2. \A i \in 1 .. Len(L) : word2[L[i]] = word[L[i]]
  BY <1>1
<1> QED BY <1>2 DEF Chain

(* The list is empty, or freepages is its first page.                      *)
LEMMA HeadOfChain ==
  ASSUME NEW L, NEW head, NEW word, Chain(L, head, word)
  PROVE  /\ head = NULL => Members(L) = {}
         /\ head \in Pages => Len(L) > 0 /\ head = L[1] /\ head \in Members(L)
<1>1. L \in Seq(Pages) /\ Len(L) \in Nat /\ NULL \notin Pages /\ head = At(L, 1)
  BY PageAssumption DEF Chain
<1>2. ASSUME Len(L) > 0 PROVE 1 \in 1 .. Len(L) /\ head = L[1] /\ L[1] \in Pages
  BY <1>1, <1>2 DEF At
<1>3. ASSUME ~(Len(L) > 0) PROVE head = NULL /\ 1 .. Len(L) = {}
  BY <1>1, <1>3 DEF At
<1> QED BY <1>1, <1>2, <1>3 DEF Members

(* pop_free_page takes the first page and leaves the others.               *)
LEMMA ChainPopped ==
  ASSUME NEW L, NEW head \in Pages, NEW word, NEW word2, Chain(L, head, word),
         \A p \in Pages : p # head => word2[p] = word[p]
  PROVE  \E K : Chain(K, word[head], word2) /\ Members(K) = Members(L) \ {head}
<1> DEFINE n == Len(L)
           K == [k \in 1 .. n - 1 |-> L[k + 1]]
<1>1. /\ L \in Seq(Pages) /\ n \in Nat /\ n > 0 /\ head = L[1] /\ n - 1 \in Nat
      /\ \A i \in 1 .. n : L[i] \in Pages
  <2>1. L \in Seq(Pages) /\ n \in Nat /\ \A i \in 1 .. n : L[i] \in Pages
    BY DEF Chain
  <2>2. n > 0 /\ head = L[1]
    BY HeadOfChain
  <2> HIDE DEF n
  <2> QED BY <2>1, <2>2
<1>2. \A i, j \in 1 .. n : L[i] = L[j] => i = j
  BY DEF Chain
<1>3. \A i \in 1 .. n : word[L[i]] = At(L, i + 1)
  BY DEF Chain
<1> HIDE DEF n
<1>4. K \in Seq(Pages) /\ Len(K) = n - 1 /\ \A i \in 1 .. n - 1 : K[i] = L[i + 1]
  BY <1>1
<1> HIDE DEF K
<1>5. \A i \in 1 .. n : At(K, i) = At(L, i + 1)
  BY <1>1, <1>4 DEF At, n
<1>6. \A i, j \in 1 .. n - 1 : K[i] = K[j] => i = j
  BY <1>1, <1>2, <1>4
<1>7. word[head] = At(K, 1)
  BY <1>1, <1>3, <1>5
<1>8. ASSUME NEW i \in 1 .. n - 1 PROVE word2[K[i]] = At(K, i + 1)
  <2>1. i + 1 \in 1 .. n /\ K[i] = L[i + 1] /\ K[i] # head /\ K[i] \in Pages
    BY <1>1, <1>2, <1>4
  <2>2. word2[K[i]] = At(L, (i + 1) + 1)
    BY <1>3, <2>1
  <2> QED BY <1>5, <2>1, <2>2
<1>9. Chain(K, word[head], word2)
  BY <1>4, <1>6, <1>7, <1>8 DEF Chain
<1>10. Members(K) = Members(L) \ {head}
  <2>1. ASSUME NEW p \in Members(K) PROVE p \in Members(L) /\ p # head
    <3>1. PICK i \in 1 .. n - 1 : p = K[i]
      BY <1>4 DEF Members
    <3>2. i + 1 \in 1 .. n /\ p = L[i + 1] /\ p # head
      BY <1>1, <1>2, <1>4, <3>1
    <3> QED BY <3>2 DEF Members, n
  <2>2. ASSUME NEW p \in Members(L), p # head PROVE p \in Members(K)
    <3>1. PICK i \in 1 .. n : p = L[i]
      BY DEF Members, n
    <3>2. i - 1 \in 1 .. n - 1 /\ p = K[i - 1]
      BY <1>1, <1>4, <2>2, <3>1
    <3> QED BY <1>4, <3>2 DEF Members
  <2> QED BY <2>1, <2>2
<1> QED BY <1>9, <1>10

(* The first words before and after kfree of n pages.                      *)
WordsPushed(head, word, word2, b, n) ==
  \A p \in Pages : word2[p] = IF p = b THEN head
                              ELSE IF p \in Block(b, n) THEN p - 1 ELSE word[p]

(* kfree of n pages puts them before the others.                           *)
LEMMA ChainPushed ==
  ASSUME NEW L, NEW head, NEW word, NEW word2, Chain(L, head, word),
         NEW b \in Nat, NEW n \in Nat \ {0}, Block(b, n) \subseteq Pages,
         Block(b, n) \cap Members(L) = {},
         WordsPushed(head, word, word2, b, n)
  PROVE  \E K : Chain(K, b + n - 1, word2) /\ Members(K) = Members(L) \cup Block(b, n)
<1> DEFINE m == Len(L)
           K == [k \in 1 .. m + n |-> IF k <= n THEN b + n - k ELSE L[k - n]]
<1>1. L \in Seq(Pages) /\ m \in Nat /\ \A i \in 1 .. m : L[i] \in Pages
  BY DEF Chain
<1>2. \A i, j \in 1 .. m : L[i] = L[j] => i = j
  BY DEF Chain
<1>3. head = At(L, 1) /\ \A i \in 1 .. m : word[L[i]] = At(L, i + 1)
  BY DEF Chain
<1>4. \A i \in 1 .. m : L[i] \notin Block(b, n)
  BY DEF Members
<1> HIDE DEF m
<1>5. \A i \in 1 .. n : b + n - i \in Block(b, n) /\ b + n - i \in Pages
  BY DEF Block
<1>6. \A k \in 1 .. m + n : (IF k <= n THEN b + n - k ELSE L[k - n]) \in Pages
  BY <1>1, <1>5
<1>7. /\ K \in Seq(Pages) /\ Len(K) = m + n /\ m + n \in Nat
      /\ \A k \in 1 .. n : K[k] = b + n - k
      /\ \A k \in n + 1 .. m + n : K[k] = L[k - n]
  BY <1>1, <1>6
<1> HIDE DEF K
<1>8. ASSUME NEW i \in 1 .. m + n, NEW j \in 1 .. m + n, K[i] = K[j] PROVE i = j
  <2>1. CASE i <= n /\ j <= n
    BY <1>7, <1>8, <2>1
  <2>2. CASE i > n /\ j > n
    <3>1. i - n \in 1 .. m /\ j - n \in 1 .. m /\ L[i - n] = L[j - n]
      BY <1>1, <1>7, <1>8, <2>2
    <3>2. i - n = j - n
      BY <1>2, <3>1
    <3> QED BY <1>1, <3>2
  <2>3. CASE i <= n /\ j > n
    <3>1. j - n \in 1 .. m /\ K[j] = L[j - n] /\ K[i] \in Block(b, n)
      BY <1>1, <1>5, <1>7, <2>3
    <3> QED BY <1>4, <1>8, <3>1
  <2>4. CASE i > n /\ j <= n
    <3>1. i - n \in 1 .. m /\ K[i] = L[i - n] /\ K[j] \in Block(b, n)
      BY <1>1, <1>5, <1>7, <2>4
    <3> QED BY <1>4, <1>8, <3>1
  <2> QED BY <1>1, <2>1, <2>2, <2>3, <2>4
<1>9. b + n - 1 = At(K, 1)
  BY <1>1, <1>7 DEF At
<1>10. ASSUME NEW i \in 1 .. m + n PROVE word2[K[i]] = At(K, i + 1)
  <2>1. CASE i < n
    <3>1. K[i] = b + n - i /\ K[i] # b /\ K[i] \in Block(b, n) /\ K[i] \in Pages
      BY <1>5, <1>7, <2>1
    <3>2. word2[K[i]] = b + n - i - 1
      BY <3>1 DEF WordsPushed
    <3>3. At(K, i + 1) = b + n - (i + 1)
      BY <1>1, <1>7, <2>1 DEF At
    <3> QED BY <3>2, <3>3
  <2>2. CASE i = n
    <3>1. K[i] = b /\ b \in Pages
      BY <1>5, <1>7, <2>2
    <3>2. word2[K[i]] = At(L, 1)
      BY <1>3, <3>1 DEF WordsPushed
    <3>3. At(K, n + 1) = At(L, 1)
      <4>1. n + 1 <= m + n <=> 1 <= m
        BY <1>1
      <4>2. 1 <= m => n + 1 \in n + 1 .. m + n /\ (n + 1) - n = 1
        BY <1>1
      <4> QED BY <1>7, <4>1, <4>2 DEF At, m
    <3> QED BY <2>2, <3>2, <3>3
  <2>3. CASE i > n
    <3>1. i - n \in 1 .. m /\ K[i] = L[i - n]
      BY <1>1, <1>7, <2>3
    <3>2. K[i] \in Pages /\ K[i] \notin Block(b, n) /\ K[i] # b
      BY <1>1, <1>4, <1>5, <3>1
    <3>3. word2[K[i]] = At(L, (i - n) + 1)
      BY <1>3, <3>1, <3>2 DEF WordsPushed
    <3>4. At(K, i + 1) = At(L, (i - n) + 1)
      BY <1>1, <1>7, <2>3 DEF At, m
    <3> QED BY <3>3, <3>4
  <2> QED BY <1>1, <2>1, <2>2, <2>3
<1>11. Chain(K, b + n - 1, word2)
  BY <1>7, <1>8, <1>9, <1>10 DEF Chain
<1>12. Members(K) = Members(L) \cup Block(b, n)
  <2>1. ASSUME NEW p \in Members(K) PROVE p \in Members(L) \cup Block(b, n)
    <3>1. PICK i \in 1 .. m + n : p = K[i]
      BY <1>7 DEF Members
    <3>2. CASE i <= n
      BY <1>5, <1>7, <3>1, <3>2
    <3>3. CASE i > n
      <4>1. i - n \in 1 .. m /\ p = L[i - n]
        BY <1>1, <1>7, <3>1, <3>3
      <4> QED BY <4>1 DEF Members, m
    <3> QED BY <1>1, <3>2, <3>3
  <2>2. ASSUME NEW p \in Block(b, n) PROVE p \in Members(K)
    <3>1. b + n - p \in 1 .. n /\ b + n - (b + n - p) = p
      BY DEF Block
    <3>2. b + n - p \in 1 .. m + n /\ K[b + n - p] = p
      BY <1>1, <1>7, <3>1
    <3> QED BY <1>7, <3>2 DEF Members
  <2>3. ASSUME NEW p \in Members(L) PROVE p \in Members(K)
    <3>1. PICK i \in 1 .. m : p = L[i]
      BY DEF Members, m
    <3>2. i + n \in 1 .. m + n /\ K[i + n] = L[i]
      BY <1>1, <1>7
    <3> QED BY <1>7, <3>1, <3>2 DEF Members
  <2> QED BY <2>1, <2>2, <2>3
<1> QED BY <1>11, <1>12

(* The n pages of the list L from position i on follow one another.        *)
RunAt(L, i, n) == i + n - 1 <= Len(L) /\ \A j \in 1 .. n - 1 : L[i + j] = L[i] + j

(* freepages and the words before and after a run is taken out and wiped.  *)
WordsCut(L, head, word, head2, word2, i, n) ==
  /\ head2 = IF i = 1 THEN word[L[i + n - 1]] ELSE head
  /\ \A p \in Pages : word2[p] = IF p \in Block(L[i], n) THEN JUNK
                                 ELSE IF i > 1 /\ p = L[i - 1] THEN word[L[i + n - 1]]
                                 ELSE word[p]

(* alloc_contiguous_from_freelist takes a run out and joins the list where *)
(* it was.                                                                 *)
LEMMA ChainCut ==
  ASSUME NEW L, NEW head, NEW word, NEW head2, NEW word2, Chain(L, head, word),
         NEW i \in 1 .. Len(L), NEW n \in Nat \ {0}, RunAt(L, i, n),
         WordsCut(L, head, word, head2, word2, i, n)
  PROVE  /\ Block(L[i], n) \subseteq Members(L)
         /\ \E K : Chain(K, head2, word2) /\ Members(K) = Members(L) \ Block(L[i], n)
<1> DEFINE m == Len(L)
           B == Block(L[i], n)
           K == [k \in 1 .. m - n |-> IF k < i THEN L[k] ELSE L[k + n]]
<1>1. L \in Seq(Pages) /\ m \in Nat /\ \A k \in 1 .. m : L[k] \in Pages /\ L[k] \in Nat
  <2>1. L \in Seq(Pages) /\ m \in Nat /\ \A k \in 1 .. m : L[k] \in Pages
    BY DEF Chain
  <2>2. Pages \subseteq Nat
    BY PageAssumption DEF Pages
  <2> QED BY <2>1, <2>2
<1>2. \A k, j \in 1 .. m : L[k] = L[j] => k = j
  BY DEF Chain
<1>3. head = At(L, 1) /\ \A k \in 1 .. m : word[L[k]] = At(L, k + 1)
  BY DEF Chain
<1>4. i \in 1 .. m /\ i + n - 1 <= m /\ i + n - 1 \in 1 .. m /\ m - n \in Nat
  BY <1>1 DEF RunAt
<1>5. \A j \in 0 .. n - 1 : i + j \in 1 .. m /\ L[i + j] = L[i] + j
  BY <1>1, <1>4 DEF RunAt
<1>6. \A k \in 1 .. m : L[k] \in B <=> (i <= k /\ k <= i + n - 1)
  <2> SUFFICES ASSUME NEW k \in 1 .. m PROVE L[k] \in B <=> (i <= k /\ k <= i + n - 1)
    OBVIOUS
  <2>1. ASSUME L[k] \in B PROVE i <= k /\ k <= i + n - 1
    <3>1. L[k] - L[i] \in 0 .. n - 1 /\ L[k] = L[i] + (L[k] - L[i])
      BY <1>1, <1>4, <2>1 DEF Block
    <3>2. i + (L[k] - L[i]) \in 1 .. m /\ L[i + (L[k] - L[i])] = L[k]
      BY <1>5, <3>1
    <3>3. i + (L[k] - L[i]) = k
      BY <1>2, <3>2
    <3> QED BY <1>4, <3>1, <3>3
  <2>2. ASSUME i <= k, k <= i + n - 1 PROVE L[k] \in B
    <3>1. k - i \in 0 .. n - 1 /\ i + (k - i) = k
      BY <1>1, <1>4, <2>2
    <3>2. L[k] = L[i] + (k - i)
      BY <1>5, <3>1
    <3> QED BY <1>1, <1>4, <3>1, <3>2 DEF Block
  <2> QED BY <2>1, <2>2
<1>7. \A p \in B : \E k \in 1 .. m : p = L[k]
  <2> SUFFICES ASSUME NEW p \in B PROVE \E k \in 1 .. m : p = L[k]
    OBVIOUS
  <2>1. p - L[i] \in 0 .. n - 1 /\ p = L[i] + (p - L[i])
    BY <1>1, <1>4 DEF Block
  <2> QED BY <1>5, <2>1
<1>8. B \subseteq Members(L)
  BY <1>7 DEF Members
<1>9. \A p \in Pages : word2[p] = IF p \in B THEN JUNK
                                  ELSE IF i > 1 /\ p = L[i - 1] THEN word[L[i + n - 1]]
                                  ELSE word[p]
  BY DEF WordsCut
<1>10. word[L[i + n - 1]] = At(L, i + n)
  <2>1. (i + n - 1) + 1 = i + n
    BY <1>4
  <2> QED BY <1>3, <1>4, <2>1
<1> HIDE DEF m, B
<1>11. \A k \in 1 .. m - n : (IF k < i THEN L[k] ELSE L[k + n]) \in Pages
  BY <1>1, <1>4
<1>12. /\ K \in Seq(Pages) /\ Len(K) = m - n
       /\ \A k \in 1 .. m - n : K[k] = IF k < i THEN L[k] ELSE L[k + n]
  <2>1. K \in [1 .. m - n -> Pages]
    BY <1>11
  <2>2. \A k \in 1 .. m - n : K[k] = IF k < i THEN L[k] ELSE L[k + n]
    OBVIOUS
  <2> HIDE DEF K
  <2>3. K \in Seq(Pages) /\ Len(K) = m - n
    BY <1>4, <2>1
  <2> QED BY <2>2, <2>3
<1> HIDE DEF K
<1> DEFINE From(k) == IF k < i THEN k ELSE k + n
<1>13. \A k \in 1 .. m - n : From(k) \in 1 .. m /\ K[k] = L[From(k)] /\ K[k] \in Pages
  BY <1>1, <1>4, <1>12
<1>14. ASSUME NEW k \in 1 .. m - n, NEW j \in 1 .. m - n, K[k] = K[j] PROVE k = j
  <2>1. From(k) = From(j)
    <3> HIDE DEF From
    <3> QED BY <1>2, <1>13, <1>14
  <2> QED BY <1>4, <2>1
<1>15. \A k \in 1 .. m - n : K[k] \notin B
  <2> SUFFICES ASSUME NEW k \in 1 .. m - n, K[k] \in B PROVE FALSE
    OBVIOUS
  <2>1. i <= From(k) /\ From(k) <= i + n - 1
    <3> HIDE DEF From
    <3> QED BY <1>6, <1>13
  <2> QED BY <1>1, <1>4, <2>1
<1>16. \A k \in 1 .. m - n + 1 : At(K, k) = IF k < i THEN At(L, k) ELSE At(L, k + n)
  BY <1>1, <1>4, <1>12 DEF At, m
<1>17. head2 = At(K, 1)
  <2>1. 1 \in 1 .. m - n + 1
    BY <1>4
  <2>2. CASE i = 1
    BY <1>10, <1>16, <2>1, <2>2 DEF WordsCut
  <2>3. CASE i # 1
    BY <1>3, <1>4, <1>16, <2>1, <2>3 DEF WordsCut
  <2> QED BY <2>2, <2>3
<1>18. ASSUME NEW k \in 1 .. m - n PROVE word2[K[k]] = At(K, k + 1)
  <2>1. k + 1 \in 1 .. m - n + 1 /\ K[k] \in Pages /\ K[k] \notin B
    BY <1>4, <1>13, <1>15
  <2>2. CASE k + 1 < i
    <3>1. K[k] = L[k] /\ k \in 1 .. m /\ i - 1 \in 1 .. m /\ k # i - 1
      BY <1>1, <1>4, <1>12, <2>2
    <3>2. K[k] # L[i - 1]
      BY <1>2, <3>1
    <3>3. word2[K[k]] = At(L, k + 1)
      BY <1>3, <1>9, <2>1, <3>1, <3>2
    <3> QED BY <1>16, <2>1, <2>2, <3>3
  <2>3. CASE k + 1 = i
    <3>1. K[k] = L[i - 1] /\ i > 1
      BY <1>4, <1>12, <2>3
    <3>2. word2[K[k]] = At(L, i + n)
      BY <1>9, <1>10, <2>1, <3>1
    <3>3. At(K, k + 1) = At(L, i + n)
      BY <1>4, <1>16, <2>1, <2>3
    <3> QED BY <3>2, <3>3
  <2>4. CASE k + 1 > i
    <3>1. K[k] = L[k + n] /\ k + n \in 1 .. m /\ (k + n) + 1 = (k + 1) + n /\ ~(k + 1 < i)
      BY <1>1, <1>4, <1>12, <2>4
    <3>2. i > 1 => i - 1 \in 1 .. m /\ k + n # i - 1
      BY <1>1, <1>4, <2>4
    <3>3. ~(i > 1 /\ K[k] = L[i - 1])
      BY <1>2, <3>1, <3>2
    <3>4. word2[K[k]] = At(L, (k + n) + 1)
      BY <1>3, <1>9, <2>1, <3>1, <3>3
    <3>5. At(K, k + 1) = At(L, (k + 1) + n)
      BY <1>16, <2>1, <3>1
    <3> QED BY <3>1, <3>4, <3>5
  <2> QED BY <1>4, <2>2, <2>3, <2>4
<1>19. Chain(K, head2, word2)
  BY <1>12, <1>14, <1>17, <1>18 DEF Chain
<1>20. Members(K) = Members(L) \ B
  <2>1. ASSUME NEW p \in Members(K) PROVE p \in Members(L) /\ p \notin B
    <3>1. PICK k \in 1 .. m - n : p = K[k]
      BY <1>12 DEF Members
    <3>2. From(k) \in 1 .. m /\ p = L[From(k)] /\ p \notin B
      BY <1>13, <1>15, <3>1
    <3> HIDE DEF From
    <3> QED BY <3>2 DEF Members, m
  <2>2. ASSUME NEW p \in Members(L), p \notin B PROVE p \in Members(K)
    <3>1. PICK k \in 1 .. m : p = L[k]
      BY DEF Members, m
    <3>2. ~(i <= k /\ k <= i + n - 1)
      BY <1>6, <2>2, <3>1
    <3>3. CASE k < i
      <4>1. k \in 1 .. m - n /\ K[k] = L[k]
        BY <1>1, <1>4, <1>12, <3>3
      <4> QED BY <1>12, <3>1, <4>1 DEF Members
    <3>4. CASE k > i + n - 1
      <4>1. k - n \in 1 .. m - n /\ (k - n) + n = k /\ ~(k - n < i)
        BY <1>1, <1>4, <3>4
      <4>2. K[k - n] = L[k]
        BY <1>12, <4>1
      <4> QED BY <1>12, <3>1, <4>1, <4>2 DEF Members
    <3> QED BY <1>1, <1>4, <3>2, <3>3, <3>4
  <2> QED BY <2>1, <2>2
<1> QED BY <1>8, <1>19, <1>20 DEF B

-----------------------------------------------------------------------------
(* The regions.                                                            *)

(* The first pages of a region lie in it and in no other.                  *)
LEMMA BlockInRegion ==
  ASSUME RegionsOK(regions), NEW k \in 1 .. Len(regions), NEW n \in Nat \ {0},
         Fits(regions[k], n)
  PROVE  LET b == regions[k].phys_cur
             e == regions[k].phys_end
         IN  /\ b \in Nat /\ e \in Nat /\ b + n <= e /\ e <= NumPages
             /\ \A p \in Block(b, n) : p \in Pages /\ b <= p /\ p < b + n
             /\ \A p \in Nat : b <= p /\ p < b + n => p \in Block(b, n)
             /\ \A j \in 1 .. Len(regions) :
                  /\ regions[j].phys_cur \in Nat /\ regions[j].phys_end \in Nat
                  /\ j # k => regions[j].phys_end <= b \/ e <= regions[j].phys_cur
             /\ Block(b, n) \subseteq InRegions(regions)
<1> DEFINE b == regions[k].phys_cur
           e == regions[k].phys_end
<1>1. Len(regions) \in Nat /\ \A j \in 1 .. Len(regions) : regions[j] \in Region
  BY DEF RegionsOK
<1>2. b \in Nat /\ e \in Nat /\ NumPages \in Nat
  BY <1>1, PageAssumption DEF Region
<1>3. b + n <= e /\ e <= NumPages
  BY <1>2 DEF Fits, RegionsOK
<1>4. \A p \in Block(b, n) : p \in Pages /\ b <= p /\ p < b + n
  <2> HIDE DEF b, e
  <2> QED BY <1>2, <1>3 DEF Block, Pages
<1>5. \A p \in Nat : b <= p /\ p < b + n => p \in Block(b, n)
  <2> HIDE DEF b, e
  <2> QED BY <1>2, <1>3 DEF Block
<1>6. \A j \in 1 .. Len(regions) :
        /\ regions[j].phys_cur \in Nat /\ regions[j].phys_end \in Nat
        /\ j # k => regions[j].phys_end <= b \/ e <= regions[j].phys_cur
  BY <1>1 DEF RegionsOK, Region
<1>7. Block(b, n) \subseteq InRegions(regions)
  <2> SUFFICES ASSUME NEW p \in Block(b, n) PROVE p \in InRegions(regions)
    OBVIOUS
  <2>1. p \in Pages /\ p \in Int /\ b <= p /\ p < b + n
    BY <1>4, PageAssumption DEF Pages
  <2>2. b <= p /\ p < e
    <3> HIDE DEF b, e
    <3> QED BY <1>2, <1>3, <2>1
  <2> QED BY <2>1, <2>2 DEF InRegions
<1> QED BY <1>2, <1>3, <1>4, <1>5, <1>6, <1>7

(* alloc_contiguous_from_regions takes exactly the n pages.                *)
LEMMA RegionCarved ==
  ASSUME RegionsOK(regions), NEW k \in 1 .. Len(regions), NEW n \in Nat \ {0},
         Fits(regions[k], n), NEW R, R = Carve(k, n)
  PROVE  /\ RegionsOK(R)
         /\ InRegions(R) = InRegions(regions) \ Block(regions[k].phys_cur, n)
<1> DEFINE b == regions[k].phys_cur
           e == regions[k].phys_end
           m == Len(regions)
<1>1. /\ b \in Nat /\ e \in Nat /\ b + n <= e /\ e <= NumPages
      /\ \A p \in Block(b, n) : p \in Pages /\ b <= p /\ p < b + n
      /\ \A p \in Nat : b <= p /\ p < b + n => p \in Block(b, n)
      /\ \A j \in 1 .. m :
           /\ regions[j].phys_cur \in Nat /\ regions[j].phys_end \in Nat
           /\ j # k => regions[j].phys_end <= b \/ e <= regions[j].phys_cur
  BY BlockInRegion
<1>2. /\ m \in Nat /\ k \in 1 .. m /\ regions \in Seq(Region)
      /\ \A j \in 1 .. m : regions[j] \in Region
  BY DEF RegionsOK
<1>3. \A p \in Pages : p \in Nat
  BY PageAssumption DEF Pages
<1>4. CASE b + n >= e
  <2> DEFINE From(j) == IF j < k THEN j ELSE j + 1
  <2>1. R = [j \in 1 .. m - 1 |-> IF j < k THEN regions[j] ELSE regions[j + 1]]
    BY <1>4 DEF Carve
  <2> HIDE DEF m
  <2>2. \A j \in 1 .. m - 1 : From(j) \in 1 .. m /\ From(j) # k
    BY <1>2
  <2>3. \A j \in 1 .. m - 1 : R[j] = regions[From(j)] /\ R[j] \in Region
    BY <1>2, <2>1
  <2>4. R \in Seq(Region) /\ Len(R) = m - 1
    BY <1>2, <2>1, <2>3
  <2>5. \A x, y \in 1 .. m - 1 : x # y => From(x) # From(y)
    BY <1>2
  <2>6. \A x \in 1 .. m : x # k => \E j \in 1 .. m - 1 : From(j) = x
    <3> SUFFICES ASSUME NEW x \in 1 .. m, x # k PROVE \E j \in 1 .. m - 1 : From(j) = x
      OBVIOUS
    <3>1. CASE x < k
      BY <1>2, <3>1
    <3>2. CASE x > k
      <4>1. x - 1 \in 1 .. m - 1 /\ From(x - 1) = x
        BY <1>2, <3>2
      <4> QED BY <4>1
    <3> QED BY <1>2, <3>1, <3>2
  <2> HIDE DEF From
  <2>7. RegionsOK(R)
    <3>1. ASSUME NEW x \in 1 .. m - 1
          PROVE  R[x].phys_cur < R[x].phys_end /\ R[x].phys_end <= NumPages
      BY <2>2, <2>3 DEF RegionsOK, m
    <3>2. ASSUME NEW x \in 1 .. m - 1, NEW y \in 1 .. m - 1, x # y
          PROVE  R[x].phys_end <= R[y].phys_cur \/ R[y].phys_end <= R[x].phys_cur
      <4>1. From(x) # From(y) /\ From(x) \in 1 .. m /\ From(y) \in 1 .. m
        BY <2>2, <2>5, <3>2
      <4> QED BY <2>3, <4>1 DEF RegionsOK, m
    <3> QED BY <2>4, <3>1, <3>2 DEF RegionsOK
  <2>8. ASSUME NEW p \in InRegions(R) PROVE p \in InRegions(regions) /\ p \notin Block(b, n)
    <3>1. PICK j \in 1 .. m - 1 : R[j].phys_cur <= p /\ p < R[j].phys_end
      BY <2>4, <2>8 DEF InRegions
    <3>2. From(j) \in 1 .. m /\ From(j) # k /\ R[j] = regions[From(j)] /\ p \in Pages
      BY <2>2, <2>3, <2>8 DEF InRegions
    <3>3. p \in InRegions(regions)
      BY <3>1, <3>2 DEF InRegions, m
    <3>4. ~(b <= p /\ p < b + n)
      <4> DEFINE c == regions[From(j)].phys_cur
                 f == regions[From(j)].phys_end
      <4>1. c \in Nat /\ f \in Nat /\ (f <= b \/ e <= c) /\ c <= p /\ p < f /\ p \in Nat
        BY <1>1, <1>3, <3>1, <3>2
      <4> HIDE DEF c, f, b, e
      <4> QED BY <1>1, <4>1
    <3> QED BY <1>1, <3>3, <3>4
  <2>9. ASSUME NEW p \in InRegions(regions), p \notin Block(b, n) PROVE p \in InRegions(R)
    <3>1. PICK x \in 1 .. m : regions[x].phys_cur <= p /\ p < regions[x].phys_end
      BY <2>9 DEF InRegions, m
    <3>2. p \in Pages /\ p \in Nat
      BY <1>3, <2>9 DEF InRegions
    <3>3. x # k
      <4> SUFFICES ASSUME b <= p, p < e PROVE p \in Block(b, n)
        BY <2>9, <3>1
      <4> HIDE DEF b, e
      <4> QED BY <1>1, <1>4, <3>2
    <3>4. PICK j \in 1 .. m - 1 : From(j) = x
      BY <2>6, <3>3
    <3>5. R[j] = regions[x]
      BY <2>3, <3>4
    <3> QED BY <2>4, <3>1, <3>2, <3>5 DEF InRegions
  <2>10. InRegions(R) \subseteq InRegions(regions) \ Block(b, n)
    BY <2>8
  <2> QED BY <2>7, <2>9, <2>10
<1>5. CASE ~(b + n >= e)
  <2>1. R = [regions EXCEPT ![k].phys_cur = b + n]
    BY <1>5 DEF Carve
  <2>2. /\ R[k].phys_cur = b + n /\ R[k].phys_end = e
        /\ \A j \in 1 .. m : j # k => R[j] = regions[j]
    BY <1>2, <2>1 DEF Region
  <2>3. b + n \in Nat /\ b + n < e
    <3> HIDE DEF b, e
    <3> QED BY <1>1, <1>5
  <2>4. R[k] \in Region
    <3>1. R[k] = [regions[k] EXCEPT !.phys_cur = b + n]
      BY <1>2, <2>1
    <3> DEFINE c == b + n
    <3>2. regions[k] \in Region /\ c \in Nat /\ R[k] = [regions[k] EXCEPT !.phys_cur = c]
      BY <1>2, <2>3, <3>1
    <3> HIDE DEF c
    <3> QED BY <3>2 DEF Region
  <2>5. R \in Seq(Region) /\ Len(R) = m
    BY <1>2, <2>1, <2>2, <2>4
  <2> HIDE DEF m
  <2>6. ASSUME NEW j \in 1 .. m PROVE R[j].phys_cur < R[j].phys_end /\ R[j].phys_end <= NumPages
    BY <1>1, <2>2, <2>3, <2>6 DEF RegionsOK, m
  <2>7. ASSUME NEW x \in 1 .. m, NEW y \in 1 .. m, x # y
        PROVE  R[x].phys_end <= R[y].phys_cur \/ R[y].phys_end <= R[x].phys_cur
    <3>1. CASE x # k /\ y # k
      BY <2>2, <2>7, <3>1 DEF RegionsOK, m
    <3>2. CASE x = k
      <4> DEFINE c == regions[y].phys_cur
                 f == regions[y].phys_end
      <4>1. /\ c \in Nat /\ f \in Nat /\ (f <= b \/ e <= c)
            /\ R[y].phys_cur = c /\ R[y].phys_end = f
        BY <1>1, <2>2, <2>7, <3>2
      <4>2. e <= c \/ f <= b + n
        <5> HIDE DEF b, e, c, f
        <5> QED BY <1>1, <4>1
      <4> QED BY <2>2, <3>2, <4>1, <4>2
    <3>3. CASE y = k
      <4> DEFINE c == regions[x].phys_cur
                 f == regions[x].phys_end
      <4>1. /\ c \in Nat /\ f \in Nat /\ (f <= b \/ e <= c)
            /\ R[x].phys_cur = c /\ R[x].phys_end = f
        BY <1>1, <2>2, <2>7, <3>3
      <4>2. e <= c \/ f <= b + n
        <5> HIDE DEF b, e, c, f
        <5> QED BY <1>1, <4>1
      <4> QED BY <2>2, <3>3, <4>1, <4>2
    <3> QED BY <3>1, <3>2, <3>3
  <2>8. RegionsOK(R)
    BY <2>5, <2>6, <2>7 DEF RegionsOK
  <2>9. ASSUME NEW p \in InRegions(R) PROVE p \in InRegions(regions) /\ p \notin Block(b, n)
    <3>1. PICK j \in 1 .. m : R[j].phys_cur <= p /\ p < R[j].phys_end
      BY <2>5, <2>9 DEF InRegions
    <3>2. p \in Pages /\ p \in Nat
      BY <1>3, <2>9 DEF InRegions
    <3> DEFINE c == regions[j].phys_cur
               f == regions[j].phys_end
    <3>3. /\ c \in Nat /\ f \in Nat /\ (j = k => c = b /\ f = e)
          /\ (j # k => (f <= b \/ e <= c) /\ c <= p /\ p < f)
          /\ (j = k => b + n <= p /\ p < e)
      BY <1>1, <2>2, <3>1
    <3>4. c <= p /\ p < f /\ ~(b <= p /\ p < b + n)
      <4> HIDE DEF b, e, c, f
      <4> QED BY <1>1, <3>2, <3>3
    <3>5. p \in InRegions(regions)
      BY <3>2, <3>4 DEF InRegions, m
    <3> QED BY <1>1, <3>4, <3>5
  <2>10. ASSUME NEW p \in InRegions(regions), p \notin Block(b, n) PROVE p \in InRegions(R)
    <3>1. PICK x \in 1 .. m : regions[x].phys_cur <= p /\ p < regions[x].phys_end
      BY <2>10 DEF InRegions, m
    <3>2. p \in Pages /\ p \in Nat
      BY <1>3, <2>10 DEF InRegions
    <3>3. CASE x = k
      <4>1. b + n <= p /\ p < e
        <5>1. b <= p /\ p < e
          BY <3>1, <3>3
        <5> HIDE DEF b, e
        <5> QED BY <1>1, <2>10, <3>2, <5>1
      <4>2. R[k].phys_cur <= p /\ p < R[k].phys_end
        BY <2>2, <4>1
      <4> QED BY <1>2, <2>5, <3>2, <4>2 DEF InRegions
    <3>4. CASE x # k
      <4>1. R[x] = regions[x]
        BY <2>2, <3>4
      <4> QED BY <2>5, <3>1, <3>2, <4>1 DEF InRegions
    <3> QED BY <3>3, <3>4
  <2>11. InRegions(R) \subseteq InRegions(regions) \ Block(b, n)
    BY <2>9
  <2> QED BY <2>8, <2>10, <2>11
<1> QED BY <1>4, <1>5

-----------------------------------------------------------------------------
(* init_mem.                                                               *)

(* One turn of the loop of init_mem.                                       *)
Grow(list, i) == IF Registered(memmap[i]) THEN Append(list, i) ELSE list

(* The loop of init_mem is well defined.                                   *)
LEMMA KeptUnfolds ==
  ASSUME Len(memmap) \in Nat
  PROVE  Kept[0] = << >> /\ \A i \in 1 .. Len(memmap) : Kept[i] = Grow(Kept[i - 1], i)
<1> DEFINE N == Len(memmap)
           Turn(f, i) == IF i = 0 THEN << >> ELSE Grow(f[i - 1], i)
           Good(n) == \E f : f = [i \in 0 .. n |-> Turn(f, i)]
<1>1. Good(0)
  <2> DEFINE f == [i \in 0 .. 0 |-> << >>]
  <2>1. f = [i \in 0 .. 0 |-> Turn(f, i)]
    OBVIOUS
  <2> QED BY <2>1
<1>2. ASSUME NEW n \in Nat, Good(n) PROVE Good(n + 1)
  <2>1. PICK f : f = [i \in 0 .. n |-> Turn(f, i)]
    BY <1>2
  <2> DEFINE g == [i \in 0 .. n + 1 |-> IF i = n + 1 THEN Turn(f, i) ELSE f[i]]
  <2>2. \A i \in 0 .. n : g[i] = f[i] /\ f[i] = Turn(f, i)
    BY <2>1
  <2>3. g[n + 1] = Turn(f, n + 1)
    OBVIOUS
  <2>4. \A i \in 0 .. n + 1 : Turn(g, i) = Turn(f, i)
    <3> SUFFICES ASSUME NEW i \in 0 .. n + 1, i # 0 PROVE Turn(g, i) = Turn(f, i)
      OBVIOUS
    <3>1. i - 1 \in 0 .. n
      OBVIOUS
    <3>2. g[i - 1] = f[i - 1]
      BY <2>2, <3>1
    <3> HIDE DEF g
    <3> QED BY <3>2
  <2>5. \A i \in 0 .. n + 1 : g[i] = Turn(g, i)
    <3> HIDE DEF Turn
    <3> SUFFICES ASSUME NEW i \in 0 .. n + 1 PROVE g[i] = Turn(g, i)
      OBVIOUS
    <3>1. i = n + 1 \/ i \in 0 .. n
      OBVIOUS
    <3> HIDE DEF g
    <3> QED BY <2>2, <2>3, <2>4, <3>1
  <2>6. g = [i \in 0 .. n + 1 |-> Turn(g, i)]
    <3> HIDE DEF Turn
    <3>1. g = [i \in 0 .. n + 1 |-> g[i]]
      OBVIOUS
    <3> HIDE DEF g
    <3> QED BY <2>5, <3>1
  <2> QED BY <2>6
<1>3. Good(N)
  <2> HIDE DEF Good, N
  <2>1. N \in Nat
    BY DEF N
  <2> SUFFICES ASSUME ~Good(N) PROVE FALSE
    OBVIOUS
  <2> DEFINE T == {n \in Nat : ~Good(n)}
  <2>2. PICK m \in T : \A x \in T : m <= x
    <3>1. T \in SUBSET Nat /\ T # {}
      BY <2>1
    <3> HIDE DEF T
    <3> QED BY <3>1, LeastExists
  <2>3. m \in Nat /\ m # 0 /\ m - 1 \in Nat /\ (m - 1) + 1 = m /\ ~Good(m)
    BY <1>1, <2>2
  <2>4. Good(m - 1)
    BY <2>2, <2>3
  <2> QED BY <1>2, <2>3, <2>4
<1>4. Kept = [i \in 0 .. N |-> Turn(Kept, i)]
  <2>1. Kept = CHOOSE f : f = [i \in 0 .. N |-> Turn(f, i)]
    BY Zenon DEF Kept, Grow
  <2> HIDE DEF Turn, N
  <2> QED BY <1>3, <2>1, Zenon
<1>5. \A i \in 0 .. N : Kept[i] = Turn(Kept, i)
  <2> HIDE DEF Turn
  <2> QED BY <1>4
<1>6. 0 \in 0 .. N /\ \A i \in 1 .. N : i \in 0 .. N /\ i # 0
  OBVIOUS
<1> QED BY <1>5, <1>6

(* The loop keeps the registered entries, each once.                       *)
LEMMA KeptMeans ==
  ASSUME Len(memmap) \in Nat
  PROVE  LET kept == Kept[Len(memmap)]
         IN  /\ kept \in Seq(Nat)
             /\ \A j, k \in 1 .. Len(kept) : j # k => kept[j] # kept[k]
             /\ \A k \in 1 .. Len(kept) :
                  kept[k] \in 1 .. Len(memmap) /\ Registered(memmap[kept[k]])
             /\ \A i \in 1 .. Len(memmap) : Registered(memmap[i]) =>
                  \E k \in 1 .. Len(kept) : kept[k] = i
<1> DEFINE N == Len(memmap)
           Holds(s, n) ==
             /\ s \in Seq(Nat)
             /\ \A j, k \in 1 .. Len(s) : j # k => s[j] # s[k]
             /\ \A k \in 1 .. Len(s) : s[k] \in 1 .. n /\ Registered(memmap[s[k]])
             /\ \A i \in 1 .. n : Registered(memmap[i]) => \E k \in 1 .. Len(s) : s[k] = i
           Good(n) == n <= N => Holds(Kept[n], n)
<1>1. Good(0)
  <2>1. Kept[0] = << >>
    BY KeptUnfolds
  <2>2. Holds(<< >>, 0)
    OBVIOUS
  <2> HIDE DEF Holds
  <2> QED BY <2>1, <2>2
<1>2. ASSUME NEW n \in Nat, Good(n) PROVE Good(n + 1)
  <2> SUFFICES ASSUME n + 1 <= N PROVE Holds(Kept[n + 1], n + 1)
    OBVIOUS
  <2>1. n + 1 \in 1 .. N /\ (n + 1) - 1 = n /\ n <= N
    OBVIOUS
  <2>2. PICK s, t : s = Kept[n] /\ t = Kept[n + 1]
    OBVIOUS
  <2>3. t = Grow(s, n + 1) /\ Holds(s, n)
    BY <1>2, <2>1, <2>2, KeptUnfolds
  <2>4. s \in Seq(Nat) /\ Len(s) \in Nat
    BY <2>3
  <2>5. CASE Registered(memmap[n + 1])
    <3>1. t = Append(s, n + 1)
      BY <2>3, <2>5 DEF Grow
    <3>2. /\ t \in Seq(Nat) /\ Len(t) = Len(s) + 1 /\ t[Len(s) + 1] = n + 1
          /\ \A k \in 1 .. Len(s) : t[k] = s[k]
      BY <2>4, <3>1
    <3>3. \A k \in 1 .. Len(s) : s[k] \in 1 .. n /\ Registered(memmap[s[k]])
      BY <2>3
    <3>4. ASSUME NEW k \in 1 .. Len(t)
          PROVE  t[k] \in 1 .. n + 1 /\ Registered(memmap[t[k]])
      <4>1. k \in 1 .. Len(s) \/ k = Len(s) + 1
        BY <2>4, <3>2
      <4>2. CASE k \in 1 .. Len(s)
        <5>1. t[k] = s[k] /\ s[k] \in 1 .. n /\ Registered(memmap[s[k]])
          BY <3>2, <3>3, <4>2
        <5> QED BY <5>1
      <4>3. CASE k = Len(s) + 1
        BY <2>5, <3>2, <4>3
      <4> QED BY <4>1, <4>2, <4>3
    <3>5. ASSUME NEW j \in 1 .. Len(t), NEW k \in 1 .. Len(t), j # k PROVE t[j] # t[k]
      <4>1. \A x \in 1 .. Len(s) : s[x] # n + 1
        BY <3>3
      <4>2. /\ j \in 1 .. Len(s) \/ j = Len(s) + 1
            /\ k \in 1 .. Len(s) \/ k = Len(s) + 1
        BY <2>4, <3>2
      <4>3. CASE j \in 1 .. Len(s) /\ k \in 1 .. Len(s)
        BY <2>3, <3>2, <3>5, <4>3
      <4>4. CASE j \in 1 .. Len(s) /\ k = Len(s) + 1
        BY <3>2, <4>1, <4>4
      <4>5. CASE j = Len(s) + 1 /\ k \in 1 .. Len(s)
        BY <3>2, <4>1, <4>5
      <4> QED BY <3>5, <4>2, <4>3, <4>4, <4>5
    <3>6. ASSUME NEW i \in 1 .. n + 1, Registered(memmap[i])
          PROVE  \E k \in 1 .. Len(t) : t[k] = i
      <4>1. CASE i = n + 1
        BY <2>4, <3>2, <4>1
      <4>2. CASE i # n + 1
        <5>1. i \in 1 .. n
          BY <4>2
        <5>2. PICK k \in 1 .. Len(s) : s[k] = i
          BY <2>3, <3>6, <5>1
        <5>3. k \in 1 .. Len(t) /\ t[k] = i
          BY <2>4, <3>2, <5>2
        <5> QED BY <5>3
      <4> QED BY <4>1, <4>2
    <3> QED BY <2>2, <3>2, <3>4, <3>5, <3>6
  <2>6. CASE ~Registered(memmap[n + 1])
    <3>1. t = s
      BY <2>3, <2>6 DEF Grow
    <3>2. \A k \in 1 .. Len(s) : s[k] \in 1 .. n + 1 /\ Registered(memmap[s[k]])
      <4>1. \A k \in 1 .. Len(s) : s[k] \in 1 .. n /\ Registered(memmap[s[k]])
        BY <2>3
      <4>2. \A x \in 1 .. n : x \in 1 .. n + 1
        OBVIOUS
      <4> QED BY <4>1, <4>2
    <3>3. \A i \in 1 .. n + 1 : Registered(memmap[i]) => i \in 1 .. n
      BY <2>6
    <3>4. \A i \in 1 .. n + 1 : Registered(memmap[i]) => \E k \in 1 .. Len(s) : s[k] = i
      BY <2>3, <3>3
    <3>5. \A j, k \in 1 .. Len(s) : j # k => s[j] # s[k]
      BY <2>3
    <3>6. Holds(s, n + 1)
      BY <2>4, <3>2, <3>4, <3>5
    <3> HIDE DEF Holds
    <3> QED BY <2>2, <3>1, <3>6
  <2> QED BY <2>5, <2>6
<1>3. Good(N)
  <2> HIDE DEF Good, N
  <2>1. N \in Nat
    BY DEF N
  <2> SUFFICES ASSUME ~Good(N) PROVE FALSE
    OBVIOUS
  <2> DEFINE T == {n \in Nat : ~Good(n)}
  <2>2. PICK m \in T : \A x \in T : m <= x
    <3>1. T \in SUBSET Nat /\ T # {}
      BY <2>1
    <3> HIDE DEF T
    <3> QED BY <3>1, LeastExists
  <2>3. m \in Nat /\ m # 0 /\ m - 1 \in Nat /\ (m - 1) + 1 = m /\ ~Good(m)
    BY <1>1, <2>2
  <2>4. Good(m - 1)
    BY <2>2, <2>3
  <2> QED BY <1>2, <2>3, <2>4
<1>4. N <= N
  OBVIOUS
<1> QED BY <1>3, <1>4

(* Page p lies in entry e as a whole.                                      *)
Whole(p, e) == e.base <= p * PAGE_SIZE /\ (p + 1) * PAGE_SIZE <= e.base + e.length

(* Below 4 GiB a mask as wide as an unsigned int does no harm.             *)
LEMMA RegionMeans ==
  ASSUME NEW e \in Entry, e.usable, e.length >= PAGE_SIZE,
         e.base + e.length <= NumPages * PAGE_SIZE
  PROVE  LET r == RegionOf(e)
         IN  /\ r \in Region /\ r.phys_end <= NumPages
             /\ e.base <= r.phys_cur * PAGE_SIZE
             /\ r.phys_end * PAGE_SIZE <= e.base + e.length
             /\ \A p \in Nat : r.phys_cur <= p /\ p < r.phys_end <=> Whole(p, e)
<1> DEFINE d == PAGE_SIZE
           a == e.base
           z == e.base + e.length
           c == (a + d - 1) \div d
           f == z \div d
<1>1. /\ d \in Nat \ {0} /\ NumPages \in Nat /\ UINT_MOD \in Nat \ {0}
      /\ NumPages * d < UINT_MOD
  BY PageAssumption
<1>2. a \in Nat /\ e.length \in Nat /\ z \in Nat /\ a + d <= z /\ z <= NumPages * d
  BY <1>1 DEF Entry
<1>3. NumPages * d \in Nat
  BY <1>1
<1> HIDE DEF d, a, z
<1>4. a + d - 1 \in Nat /\ a + d - 1 < UINT_MOD /\ z < UINT_MOD
  BY <1>1, <1>2, <1>3
<1>5. (a + d - 1) % UINT_MOD = a + d - 1 /\ z % UINT_MOD = z
  BY <1>1, <1>2, <1>4
<1>6. RegionOf(e) = [phys_cur |-> c, phys_end |-> f]
  <2>1. PageOf(e.base + PAGE_SIZE - 1) = c
    BY <1>5 DEF PageOf, a, d
  <2>2. PageOf(e.base + e.length) = f
    BY <1>5 DEF PageOf, z, d
  <2> QED BY <2>1, <2>2 DEF RegionOf
<1>7. c \in Nat /\ f \in Nat
  BY <1>1, <1>2, <1>4
<1>8. \A p \in Nat : (c <= p <=> a <= p * d) /\ (p < f <=> (p + 1) * d <= z)
  BY <1>1, <1>2, Rounding
<1> HIDE DEF c, f
<1>9. f <= NumPages
  <2>1. (NumPages + 1) * d = NumPages * d + d
    BY <1>1
  <2>2. ~((NumPages + 1) * d <= z)
    BY <1>1, <1>2, <1>3, <2>1
  <2>3. ~(NumPages < f)
    BY <1>1, <1>8, <2>2
  <2> QED BY <1>1, <1>7, <2>3
<1>10. a <= c * d
  BY <1>7, <1>8
<1>11. f * d <= z
  <2>1. CASE f = 0
    BY <1>1, <1>2, <2>1
  <2>2. CASE f # 0
    <3>1. f - 1 \in Nat /\ f - 1 < f /\ (f - 1) + 1 = f
      BY <1>7, <2>2
    <3> QED BY <1>8, <3>1
  <2> QED BY <2>1, <2>2
<1>12. \A p \in Nat : c <= p /\ p < f <=> Whole(p, e)
  BY <1>8 DEF Whole, a, z, d
<1>13. RegionOf(e) \in Region
  BY <1>6, <1>7 DEF Region
<1>14. RegionOf(e).phys_cur = c /\ RegionOf(e).phys_end = f
  BY <1>6
<1> QED BY <1>9, <1>10, <1>11, <1>12, <1>13, <1>14 DEF a, z, d

(* The entries of a memory map.                                            *)
LEMMA MapEntries ==
  ASSUME memmap \in MemMaps
  PROVE  /\ memmap \in Seq(Entry) /\ Len(memmap) \in Nat
         /\ \A i \in 1 .. Len(memmap) :
              /\ memmap[i] \in Entry
              /\ memmap[i].usable =>
                   memmap[i].base + memmap[i].length <= NumPages * PAGE_SIZE
         /\ \A i, j \in 1 .. Len(memmap) :
              i # j /\ memmap[i].usable /\ memmap[j].usable => Disjoint(memmap[i], memmap[j])
<1>1. memmap \in Seq(Entry)
  BY PageAssumption
<1>2. Len(memmap) \in Nat /\ DOMAIN memmap = 1 .. Len(memmap)
  BY <1>1
<1> QED BY <1>1, <1>2, PageAssumption

(* An entry that holds a whole page is registered, and its region is then  *)
(* made of the pages it holds.                                             *)
LEMMA EntryMeans ==
  ASSUME memmap \in MemMaps, NEW i \in 1 .. Len(memmap), memmap[i].usable
  PROVE  LET e == memmap[i]
             r == RegionOf(e)
         IN  /\ Registered(e) => /\ r \in Region /\ r.phys_end <= NumPages
                                 /\ r.phys_cur < r.phys_end
                                 /\ e.base <= r.phys_cur * PAGE_SIZE
                                 /\ r.phys_end * PAGE_SIZE <= e.base + e.length
                                 /\ \A p \in Nat : r.phys_cur <= p /\ p < r.phys_end <=> Whole(p, e)
             /\ \A p \in Nat : Whole(p, e) => Registered(e)
<1> DEFINE e == memmap[i]
           r == RegionOf(e)
<1>1. e \in Entry /\ e.usable /\ e.base + e.length <= NumPages * PAGE_SIZE
  BY MapEntries
<1>2. PAGE_SIZE \in Nat \ {0} /\ e.base \in Nat /\ e.length \in Nat
  BY <1>1, PageAssumption DEF Entry
<1> HIDE DEF e
<1>3. ASSUME e.length >= PAGE_SIZE
      PROVE  /\ r \in Region /\ r.phys_end <= NumPages
             /\ e.base <= r.phys_cur * PAGE_SIZE
             /\ r.phys_end * PAGE_SIZE <= e.base + e.length
             /\ \A p \in Nat : r.phys_cur <= p /\ p < r.phys_end <=> Whole(p, e)
  BY <1>1, <1>3, RegionMeans
<1>4. Registered(e) => e.length >= PAGE_SIZE /\ r.phys_cur < r.phys_end
  BY DEF Registered
<1>5. ASSUME NEW p \in Nat, Whole(p, e) PROVE Registered(e)
  <2>1. (p + 1) * PAGE_SIZE = p * PAGE_SIZE + PAGE_SIZE /\ p * PAGE_SIZE \in Nat
    BY <1>2
  <2>2. e.length >= PAGE_SIZE
    BY <1>2, <1>5, <2>1 DEF Whole
  <2>3. r \in Region /\ r.phys_cur <= p /\ p < r.phys_end
    BY <1>3, <1>5, <2>2
  <2>4. r.phys_cur \in Nat /\ r.phys_end \in Nat
    BY <2>3 DEF Region
  <2>5. r.phys_cur < r.phys_end
    <3> HIDE DEF r
    <3> QED BY <2>3, <2>4
  <2> QED BY <1>1, <2>2, <2>5 DEF Registered
<1> HIDE DEF r
<1>6. ASSUME Registered(e)
      PROVE  /\ r \in Region /\ r.phys_end <= NumPages
             /\ r.phys_cur < r.phys_end
             /\ e.base <= r.phys_cur * PAGE_SIZE
             /\ r.phys_end * PAGE_SIZE <= e.base + e.length
             /\ \A p \in Nat : r.phys_cur <= p /\ p < r.phys_end <=> Whole(p, e)
  BY <1>3, <1>4, <1>6
<1> QED BY <1>5, <1>6 DEF e, r

(* The regions of entries that do not overlap do not overlap either.       *)
LEMMA EntriesApart ==
  ASSUME memmap \in MemMaps, NEW i \in 1 .. Len(memmap), NEW j \in 1 .. Len(memmap),
         memmap[i].base + memmap[i].length <= memmap[j].base,
         Registered(memmap[i]), Registered(memmap[j])
  PROVE  RegionOf(memmap[i]).phys_end <= RegionOf(memmap[j]).phys_cur
<1> DEFINE end == RegionOf(memmap[i]).phys_end
           cur == RegionOf(memmap[j]).phys_cur
<1>1. memmap[i].usable /\ memmap[j].usable
  BY DEF Registered
<1>2. /\ RegionOf(memmap[i]) \in Region /\ RegionOf(memmap[j]) \in Region
      /\ end * PAGE_SIZE <= memmap[i].base + memmap[i].length
      /\ memmap[j].base <= cur * PAGE_SIZE
  BY <1>1, EntryMeans
<1>3. end \in Nat /\ cur \in Nat /\ PAGE_SIZE \in Nat \ {0}
  BY <1>2, PageAssumption DEF Region
<1>4. memmap[i].base \in Nat /\ memmap[i].length \in Nat /\ memmap[j].base \in Nat
  BY MapEntries DEF Entry
<1> HIDE DEF end, cur
<1>5. end * PAGE_SIZE \in Nat /\ cur * PAGE_SIZE \in Nat
  BY <1>3
<1>6. end * PAGE_SIZE <= cur * PAGE_SIZE
  BY <1>2, <1>4, <1>5
<1>7. end <= cur
  BY <1>3, <1>6, Multiples
<1> QED BY <1>7 DEF end, cur

(* init_mem registers exactly the usable pages.                            *)
LEMMA InitRegions ==
  ASSUME memmap \in MemMaps, NEW R, R = Appended(Kept[Len(memmap)])
  PROVE  /\ RegionsOK(R)
         /\ Len(Kept[Len(memmap)]) <= STATIC_REGION_POOL_SIZE => InRegions(R) = Usable
<1> DEFINE N == Len(memmap)
<1>1. N \in Nat /\ STATIC_REGION_POOL_SIZE \in Nat
  BY MapEntries, PageAssumption
<1>2. PICK kept \in Seq(Nat) :
        /\ kept = Kept[N]
        /\ \A j, k \in 1 .. Len(kept) : j # k => kept[j] # kept[k]
        /\ \A k \in 1 .. Len(kept) : kept[k] \in 1 .. N /\ Registered(memmap[kept[k]])
        /\ \A i \in 1 .. N : Registered(memmap[i]) => \E k \in 1 .. Len(kept) : kept[k] = i
  BY <1>1, KeptMeans
<1>3. PICK n \in Nat : n = IF Len(kept) <= STATIC_REGION_POOL_SIZE THEN Len(kept)
                           ELSE STATIC_REGION_POOL_SIZE
  BY <1>1
<1>4. R = [k \in 1 .. n |-> RegionOf(memmap[kept[k]])]
  BY <1>2, <1>3 DEF Appended
<1>5. n <= Len(kept) /\ \A k \in 1 .. n : k \in 1 .. Len(kept)
  BY <1>1, <1>3
<1>6. \A k \in 1 .. n : R[k] = RegionOf(memmap[kept[k]])
  BY <1>4
<1>7. ASSUME NEW k \in 1 .. n
      PROVE  /\ kept[k] \in 1 .. N /\ Registered(memmap[kept[k]]) /\ memmap[kept[k]].usable
             /\ R[k] \in Region /\ R[k].phys_end <= NumPages /\ R[k].phys_cur < R[k].phys_end
             /\ \A p \in Nat :
                  R[k].phys_cur <= p /\ p < R[k].phys_end <=> Whole(p, memmap[kept[k]])
  <2>1. kept[k] \in 1 .. N /\ Registered(memmap[kept[k]])
    BY <1>2, <1>5
  <2>2. memmap[kept[k]].usable
    BY <2>1 DEF Registered
  <2>3. PICK i \in 1 .. N : i = kept[k]
    BY <2>1
  <2> QED BY <1>6, <2>1, <2>2, <2>3, EntryMeans
<1>8. R \in Seq(Region) /\ Len(R) = n
  BY <1>4, <1>7
<1>9. ASSUME NEW j \in 1 .. n, NEW k \in 1 .. n, j # k
      PROVE  R[j].phys_end <= R[k].phys_cur \/ R[k].phys_end <= R[j].phys_cur
  <2>1. PICK x \in 1 .. N, y \in 1 .. N : x = kept[j] /\ y = kept[k]
    BY <1>7
  <2>2. x # y
    BY <1>2, <1>5, <1>9, <2>1
  <2>3. Disjoint(memmap[x], memmap[y])
    BY <1>7, <2>1, <2>2, MapEntries
  <2>4. CASE memmap[x].base + memmap[x].length <= memmap[y].base
    BY <1>6, <1>7, <2>1, <2>4, EntriesApart
  <2>5. CASE memmap[y].base + memmap[y].length <= memmap[x].base
    BY <1>6, <1>7, <2>1, <2>5, EntriesApart
  <2> QED BY <2>3, <2>4, <2>5 DEF Disjoint
<1>10. RegionsOK(R)
  BY <1>7, <1>8, <1>9 DEF RegionsOK
<1>11. ASSUME Len(kept) <= STATIC_REGION_POOL_SIZE PROVE InRegions(R) = Usable
  <2>1. n = Len(kept)
    BY <1>3, <1>11
  <2>2. \A p \in Pages : p \in Nat
    BY PageAssumption DEF Pages
  <2>3. \A p \in Pages : p \in Usable <=> \E i \in 1 .. N : memmap[i].usable /\ Whole(p, memmap[i])
    <3>1. DOMAIN memmap = 1 .. N
      BY MapEntries
    <3> QED BY <3>1 DEF Usable, Whole
  <2>4. ASSUME NEW p \in InRegions(R) PROVE p \in Usable
    <3>1. PICK k \in 1 .. n : R[k].phys_cur <= p /\ p < R[k].phys_end
      BY <1>8, <2>4 DEF InRegions
    <3>2. p \in Pages /\ p \in Nat
      BY <2>2, <2>4 DEF InRegions
    <3>3. Whole(p, memmap[kept[k]]) /\ memmap[kept[k]].usable /\ kept[k] \in 1 .. N
      BY <1>7, <3>1, <3>2
    <3> QED BY <2>3, <3>2, <3>3
  <2>5. ASSUME NEW p \in Usable PROVE p \in InRegions(R)
    <3>1. p \in Pages /\ p \in Nat
      BY <2>2, <2>5 DEF Usable
    <3>2. PICK i \in 1 .. N : memmap[i].usable /\ Whole(p, memmap[i])
      BY <2>3, <2>5, <3>1
    <3>3. Registered(memmap[i])
      BY <3>1, <3>2, EntryMeans
    <3>4. PICK k \in 1 .. n : kept[k] = i
      BY <1>2, <2>1, <3>3
    <3>5. R[k].phys_cur <= p /\ p < R[k].phys_end
      BY <1>7, <3>1, <3>2, <3>4
    <3> QED BY <1>8, <3>1, <3>5 DEF InRegions
  <2>6. Usable \subseteq InRegions(R) /\ InRegions(R) \subseteq Usable
    BY <2>4, <2>5
  <2> QED BY <2>6
<1> QED BY <1>2, <1>10, <1>11

-----------------------------------------------------------------------------
(* Every step keeps the invariant.                                         *)

Words == Pages \cup {NULL, JUNK}

LEMMA RegionTypes ==
  ASSUME NEW R, RegionsOK(R)
  PROVE  \A k \in DOMAIN R : /\ R[k].phys_cur \in Pages
                             /\ R[k].phys_end \in R[k].phys_cur + 1 .. NumPages
<1> SUFFICES ASSUME NEW k \in 1 .. Len(R)
             PROVE  /\ R[k].phys_cur \in Pages
                    /\ R[k].phys_end \in R[k].phys_cur + 1 .. NumPages
  BY DEF RegionsOK
<1>1. R[k] \in Region /\ R[k].phys_cur < R[k].phys_end /\ R[k].phys_end <= NumPages
  BY DEF RegionsOK
<1>2. PICK c \in Nat, e \in Nat : c = R[k].phys_cur /\ e = R[k].phys_end
  BY <1>1 DEF Region
<1>3. c < e /\ e <= NumPages /\ NumPages \in Nat
  BY <1>1, <1>2, PageAssumption
<1>4. c \in Pages /\ e \in c + 1 .. NumPages
  BY <1>3 DEF Pages
<1> QED BY <1>2, <1>4

(* What a call has to show.                                                *)
LEMMA Settled ==
  ASSUME PageInv, mem_initialized, UNCHANGED <<memmap, mem_initialized, panic>>,
         failed' = 0, word0' \in [Pages -> Words], RegionsOK(regions'),
         NEW K, Chain(K, freepages', word0'),
         Partition(held', Members(K), InRegions(regions'))
  PROVE  PageInv'
<1>1. Usable' = Usable /\ Usable \subseteq Pages
  BY DEF Usable
<1>2. freepages' \in Pages \cup {NULL}
  BY DEF Chain, At
<1>3. held' \subseteq Pages
  BY <1>1 DEF Partition
<1>4. \A k \in DOMAIN regions' : /\ regions'[k].phys_cur \in Pages
                                 /\ regions'[k].phys_end \in regions'[k].phys_cur + 1 .. NumPages
  BY RegionTypes
<1>5. 0 \in 0 .. MaxRun
  BY PageAssumption
<1>6. TypeOK'
  BY <1>2, <1>3, <1>4, <1>5 DEF PageInv, TypeOK, Words
<1>7. RegionsOK(regions)'
  BY DEF RegionsOK
<1>8. (\E L : Chain(L, freepages, word0) /\ Partition(held, Members(L), InRegions(regions)))'
  <2>1. Chain(K, freepages, word0)'
    BY DEF Chain
  <2>2. Partition(held, Members(K), InRegions(regions))'
    BY <1>1 DEF Partition, InRegions
  <2> QED BY <2>1, <2>2
<1>9. FailsOnlyWhenFull'
  BY DEF FailsOnlyWhenFull
<1>10. mem_initialized'
  OBVIOUS
<1> QED BY <1>6, <1>7, <1>8, <1>9, <1>10 DEF PageInv

(* init_mem: all usable pages are in regions.                              *)
LEMMA InitMemKeeps ==
  ASSUME PageInv, init_mem
  PROVE  PageInv'
<1>1. /\ memmap \in MemMaps /\ ~mem_initialized /\ held = {} /\ freepages = NULL
      /\ UNCHANGED <<memmap, freepages, word0, held, failed>>
      /\ regions' = Appended(Kept[Len(memmap)])
      /\ panic' \in {"none", "static region pool"} /\ mem_initialized' \in BOOLEAN
      /\ mem_initialized' => Len(Kept[Len(memmap)]) <= STATIC_REGION_POOL_SIZE
  <2>1. /\ memmap \in MemMaps /\ ~mem_initialized /\ held = {} /\ freepages = NULL
        /\ UNCHANGED <<memmap, freepages, word0, held, failed>>
    BY DEF PageInv, TypeOK, init_mem
  <2> DEFINE fits == Len(Kept[Len(memmap)]) <= STATIC_REGION_POOL_SIZE
  <2>2. /\ regions' = Appended(Kept[Len(memmap)])
        /\ panic' = IF fits THEN "none" ELSE "static region pool"
        /\ mem_initialized' = fits
    BY Zenon DEF init_mem
  <2>3. fits \in BOOLEAN
    OBVIOUS
  <2> HIDE DEF fits
  <2>4. panic' \in {"none", "static region pool"}
    BY <2>2
  <2>5. mem_initialized' \in BOOLEAN /\ (mem_initialized' => fits)
    BY <2>2, <2>3, Zenon
  <2> QED BY <2>1, <2>2, <2>4, <2>5 DEF fits
<1>2. RegionsOK(regions') /\ (mem_initialized' => InRegions(regions') = Usable)
  BY <1>1, InitRegions
<1>3. Usable' = Usable
  BY <1>1 DEF Usable
<1>4. TypeOK'
  BY <1>1, <1>2, RegionTypes DEF PageInv, TypeOK
<1>5. RegionsOK(regions)'
  BY <1>2 DEF RegionsOK
<1>6. ASSUME mem_initialized'
      PROVE  (\E L : Chain(L, freepages, word0) /\ Partition(held, Members(L), InRegions(regions)))'
  <2> DEFINE L == << >>
  <2>1. Chain(L, freepages, word0)' /\ Members(L) = {}
    <3>1. L \in Seq(Pages) /\ Len(L) = 0 /\ 1 .. Len(L) = {} /\ ~(1 <= Len(L))
      OBVIOUS
    <3>2. freepages' = NULL
      BY <1>1
    <3> HIDE DEF L
    <3> QED BY <3>1, <3>2 DEF Chain, Members, At
  <2> HIDE DEF L
  <2>2. Partition(held, Members(L), InRegions(regions))'
    BY <1>1, <1>2, <1>3, <1>6, <2>1 DEF Partition, InRegions
  <2> QED BY <2>1, <2>2
<1>7. FailsOnlyWhenFull'
  BY <1>1, <1>3 DEF PageInv, FailsOnlyWhenFull
<1> QED BY <1>1, <1>4, <1>5, <1>6, <1>7 DEF PageInv

(* What a call finds.                                                      *)
LEMMA Found ==
  ASSUME PageInv, Ready
  PROVE  /\ mem_initialized /\ word0 \in [Pages -> Words] /\ held \subseteq Pages
         /\ RegionsOK(regions)
         /\ \E L : Chain(L, freepages, word0) /\ Partition(held, Members(L), InRegions(regions))
         /\ \A L : Chain(L, freepages, word0) => FreeList = L
BY ChainIsFreeList DEF PageInv, TypeOK, Ready, Words

(* pop_free_page: a page goes from the list to its holder.                 *)
LEMMA PopKeeps ==
  ASSUME PageInv, Ready, NEW fill \in [Pages -> Words], Pop(fill)
  PROVE  PageInv' /\ (\A p \in held : word0'[p] = word0[p])
<1>1. PICK L : Chain(L, freepages, word0) /\ Partition(held, Members(L), InRegions(regions))
  BY Found
<1>2. /\ mem_initialized /\ RegionsOK(regions) /\ word0 \in [Pages -> Words]
      /\ held \subseteq Pages
  BY Found
<1>3. PICK h \in Pages : h = freepages
  BY DEF Pop
<1>4. /\ freepages' = word0[h] /\ word0' = [word0 EXCEPT ![h] = fill[h]]
      /\ held' = held \cup {h} /\ failed' = 0
      /\ UNCHANGED <<regions, memmap, mem_initialized, panic>>
  BY <1>3 DEF Pop
<1>5. word0' \in [Pages -> Words] /\ \A p \in Pages : p # h => word0'[p] = word0[p]
  BY <1>2, <1>4
<1>6. Chain(L, h, word0) /\ h \in Members(L)
  BY <1>1, <1>3, HeadOfChain
<1>7. PICK K : Chain(K, word0[h], word0') /\ Members(K) = Members(L) \ {h}
  BY <1>5, <1>6, ChainPopped
<1>8. Partition(held', Members(K), InRegions(regions'))
  BY <1>1, <1>4, <1>6, <1>7 DEF Partition
<1>9. PageInv'
  BY <1>2, <1>4, <1>5, <1>7, <1>8, Settled
<1>10. h \notin held
  BY <1>1, <1>6 DEF Partition
<1> QED BY <1>2, <1>5, <1>9, <1>10

(* n pages go from a region to their holder.                               *)
LEMMA RegionKeeps ==
  ASSUME PageInv, Ready, NEW fill \in [Pages -> Words], NEW n \in Nat \ {0},
         FromRegions(n, fill)
  PROVE  PageInv' /\ (\A p \in held : word0'[p] = word0[p])
<1>1. PICK L : Chain(L, freepages, word0) /\ Partition(held, Members(L), InRegions(regions))
  BY Found
<1>2. /\ mem_initialized /\ RegionsOK(regions) /\ word0 \in [Pages -> Words]
      /\ held \subseteq Pages
  BY Found
<1>3. DOMAIN regions = 1 .. Len(regions)
  BY <1>2 DEF RegionsOK
<1>4. PICK k \in 1 .. Len(regions) :
        /\ Fits(regions[k], n)
        /\ held' = held \cup Block(regions[k].phys_cur, n)
        /\ word0' = [p \in Pages |->
                       IF p \in Block(regions[k].phys_cur, n) THEN fill[p] ELSE word0[p]]
        /\ regions' = Carve(k, n)
        /\ failed' = 0
        /\ UNCHANGED <<freepages, memmap, mem_initialized, panic>>
  BY <1>3 DEF FromRegions
<1>5. PICK B : B = Block(regions[k].phys_cur, n)
  OBVIOUS
<1>6. B \subseteq InRegions(regions) /\ RegionsOK(regions') /\ InRegions(regions') = InRegions(regions) \ B
  BY <1>2, <1>4, <1>5, BlockInRegion, RegionCarved
<1>7. word0' \in [Pages -> Words] /\ \A p \in Pages : p \notin B => word0'[p] = word0[p]
  BY <1>2, <1>4, <1>5
<1>8. Members(L) \subseteq Pages /\ Members(L) \cap B = {} /\ held \cap B = {}
  BY <1>1, <1>6, ChainShort DEF Partition
<1>9. Chain(L, freepages', word0')
  BY <1>1, <1>4, <1>7, <1>8, ChainKept
<1>10. Partition(held', Members(L), InRegions(regions'))
  BY <1>1, <1>4, <1>5, <1>6, <1>8 DEF Partition
<1>11. PageInv'
  BY <1>2, <1>4, <1>6, <1>7, <1>9, <1>10, Settled
<1> QED BY <1>2, <1>7, <1>8, <1>11

(* The call returns NULL: for one page, only when none is left.            *)
LEMMA FailKeeps ==
  ASSUME PageInv, Ready, NEW n \in 1 .. MaxRun, Fail(n),
         n = 1 => freepages = NULL /\ NoRegion(1)
  PROVE  PageInv'
<1>1. PICK L : Chain(L, freepages, word0) /\ Partition(held, Members(L), InRegions(regions))
  BY Found
<1>2. failed' = n /\ n \in 0 .. MaxRun
      /\ UNCHANGED <<memmap, mem_initialized, panic, regions, freepages, word0, held>>
  BY PageAssumption DEF Fail, heapVars
<1>3. Usable' = Usable
  BY <1>2 DEF Usable
<1>4. ASSUME n = 1 PROVE held = Usable
  <2>1. Members(L) = {}
    BY <1>1, <1>4, HeadOfChain
  <2>2. InRegions(regions) = {}
    <3> SUFFICES ASSUME NEW k \in 1 .. Len(regions) PROVE FALSE
      BY DEF InRegions
    <3>1. RegionsOK(regions)
      BY Found
    <3>2. k \in DOMAIN regions
      BY <3>1 DEF RegionsOK
    <3>3. ~Fits(regions[k], 1)
      BY <1>4, <3>2 DEF NoRegion
    <3>4. PICK c \in Nat, e \in Nat : c = regions[k].phys_cur /\ e = regions[k].phys_end
      <4>1. regions[k] \in Region
        BY <3>1 DEF RegionsOK
      <4> QED BY <4>1 DEF Region
    <3>5. c < e /\ ~(e - c >= 1)
      BY <3>1, <3>3, <3>4 DEF RegionsOK, Fits
    <3> QED BY <3>5
  <2> QED BY <1>1, <2>1, <2>2 DEF Partition
<1>5. FailsOnlyWhenFull'
  BY <1>2, <1>3, <1>4 DEF FailsOnlyWhenFull
<1>6. TypeOK'
  BY <1>2 DEF PageInv, TypeOK
<1>7. RegionsOK(regions)'
  BY <1>2 DEF PageInv, RegionsOK
<1>8. (\E M : Chain(M, freepages, word0) /\ Partition(held, Members(M), InRegions(regions)))'
  <2>1. Chain(L, freepages, word0)'
    BY <1>1, <1>2 DEF Chain
  <2>2. Partition(held, Members(L), InRegions(regions))'
    BY <1>1, <1>2, <1>3 DEF Partition, InRegions
  <2> QED BY <2>1, <2>2
<1>9. mem_initialized'
  BY <1>2, Found
<1> QED BY <1>5, <1>6, <1>7, <1>8, <1>9 DEF PageInv

(* A run goes from the list to its holder.                                 *)
LEMMA RunKeeps ==
  ASSUME PageInv, Ready, NEW n \in Nat \ {0}, TakeRun(n)
  PROVE  PageInv' /\ (\A p \in held : word0'[p] = word0[p])
<1>1. PICK L : Chain(L, freepages, word0) /\ Partition(held, Members(L), InRegions(regions))
  BY Found
<1>2. /\ mem_initialized /\ RegionsOK(regions) /\ word0 \in [Pages -> Words]
      /\ held \subseteq Pages /\ FreeList = L
  BY <1>1, Found
<1>3. L \in Seq(Pages) /\ DOMAIN L = 1 .. Len(L) /\ Len(L) \in Nat
  BY <1>1 DEF Chain
<1>4. PICK i \in 1 .. Len(L) :
        /\ IsRun(i, n) /\ Unlink(i, n)
        /\ held' = held \cup Block(FreeList[i], n)
        /\ failed' = 0
        /\ UNCHANGED <<regions, memmap, mem_initialized, panic>>
  BY <1>2, <1>3 DEF TakeRun
<1>5. RunAt(L, i, n)
  BY <1>2, <1>4 DEF IsRun, RunAt
<1>6. /\ freepages' = IF i = 1 THEN word0[L[i + n - 1]] ELSE freepages
      /\ word0' = [p \in Pages |->
                     IF p \in Block(L[i], n) THEN JUNK
                     ELSE IF i > 1 /\ p = L[i - 1] THEN word0[L[i + n - 1]]
                     ELSE word0[p]]
  BY <1>2, <1>4 DEF Unlink
<1>7. PICK B : B = Block(L[i], n)
  OBVIOUS
<1>a. WordsCut(L, freepages, word0, freepages', word0', i, n)
  BY <1>6 DEF WordsCut
<1>b. /\ Block(L[i], n) \subseteq Members(L)
      /\ \E K : Chain(K, freepages', word0') /\ Members(K) = Members(L) \ Block(L[i], n)
  BY <1>1, <1>5, <1>a, ChainCut
<1>8. PICK K : Chain(K, freepages', word0') /\ Members(K) = Members(L) \ B
  BY <1>7, <1>b
<1>9. B \subseteq Members(L)
  BY <1>7, <1>b
<1>10. \A p \in Pages : word0'[p] \in Words /\ (p \notin Members(L) => word0'[p] = word0[p])
  <2> SUFFICES ASSUME NEW p \in Pages
               PROVE  word0'[p] \in Words /\ (p \notin Members(L) => word0'[p] = word0[p])
    OBVIOUS
  <2>1. L[i + n - 1] \in Pages
    BY <1>3, <1>5 DEF RunAt
  <2>2. word0[L[i + n - 1]] \in Words /\ word0[p] \in Words /\ JUNK \in Words
    BY <1>2, <2>1 DEF Words
  <2>3. i > 1 => L[i - 1] \in Members(L)
    BY <1>3 DEF Members
  <2>4. word0'[p] = IF p \in B THEN JUNK
                    ELSE IF i > 1 /\ p = L[i - 1] THEN word0[L[i + n - 1]]
                    ELSE word0[p]
    BY <1>6, <1>7
  <2> QED BY <1>9, <2>2, <2>3, <2>4
<1>11. word0' \in [Pages -> Words]
  <2>1. DOMAIN word0' = Pages /\ word0' = [p \in Pages |-> word0'[p]]
    BY <1>6
  <2> QED BY <1>10, <2>1
<1>12. held' = held \cup B
  BY <1>2, <1>4, <1>7
<1>13. Partition(held', Members(K), InRegions(regions'))
  BY <1>1, <1>4, <1>8, <1>9, <1>12 DEF Partition
<1>14. RegionsOK(regions')
  BY <1>2, <1>4
<1>15. PageInv'
  BY <1>2, <1>4, <1>8, <1>11, <1>13, <1>14, Settled
<1>16. held \cap Members(L) = {}
  BY <1>1 DEF Partition
<1> QED BY <1>2, <1>10, <1>15, <1>16

(* kfree: pages go from their holder to the list.                          *)
LEMMA FreeKeeps ==
  ASSUME PageInv, NEW b \in Pages, NEW n \in 1 .. MaxRun, kfree_pages(b, n)
  PROVE  PageInv' /\ (\A p \in held' : word0'[p] = word0[p])
<1>1. PICK L : Chain(L, freepages, word0) /\ Partition(held, Members(L), InRegions(regions))
  BY Found DEF kfree_pages
<1>2. /\ mem_initialized /\ RegionsOK(regions) /\ word0 \in [Pages -> Words]
      /\ held \subseteq Pages
  BY Found DEF kfree_pages
<1>3. PICK B : B = Block(b, n)
  OBVIOUS
<1>4. /\ B \subseteq held /\ freepages' = b + n - 1 /\ word0' = Pushed(b, n)
      /\ held' = held \ B /\ failed' = 0
      /\ UNCHANGED <<regions, memmap, mem_initialized, panic>>
  BY <1>3 DEF kfree_pages
<1>5. b \in Nat /\ n \in Nat \ {0} /\ MaxRun \in Nat
  BY PageAssumption DEF Pages
<1>6. word0' = [p \in Pages |-> IF p = b THEN freepages
                                ELSE IF p \in Block(b, n) THEN p - 1 ELSE word0[p]]
  BY <1>4 DEF Pushed
<1>7. B \subseteq Pages /\ B \cap Members(L) = {}
  BY <1>1, <1>2, <1>4 DEF Partition
<1>a. WordsPushed(freepages, word0, word0', b, n)
  BY <1>6 DEF WordsPushed
<1>b. \E K : Chain(K, b + n - 1, word0') /\ Members(K) = Members(L) \cup Block(b, n)
  BY <1>1, <1>3, <1>5, <1>7, <1>a, ChainPushed
<1>8. PICK K : Chain(K, b + n - 1, word0') /\ Members(K) = Members(L) \cup B
  BY <1>3, <1>b
<1>9. ASSUME NEW p \in Pages
      PROVE  word0'[p] \in Words /\ (p \notin B => word0'[p] = word0[p])
  <2>1. word0'[p] = IF p = b THEN freepages ELSE IF p \in B THEN p - 1 ELSE word0[p]
    BY <1>3, <1>6
  <2>2. b \in B
    BY <1>3, <1>5 DEF Block
  <2>3. freepages \in Words /\ word0[p] \in Words
    BY <1>2 DEF PageInv, TypeOK, Words
  <2>4. ASSUME p \in B, p # b PROVE p - 1 \in Words
    <3>1. p - 1 \in B
      BY <1>3, <1>5, <2>4 DEF Block
    <3> QED BY <1>7, <3>1 DEF Words
  <2> QED BY <2>1, <2>2, <2>3, <2>4
<1>10. word0' \in [Pages -> Words]
  <2>1. DOMAIN word0' = Pages /\ word0' = [p \in Pages |-> word0'[p]]
    BY <1>6
  <2> QED BY <1>9, <2>1
<1>11. Partition(held', Members(K), InRegions(regions'))
  BY <1>1, <1>4, <1>7, <1>8 DEF Partition
<1>12. Chain(K, freepages', word0') /\ RegionsOK(regions')
  BY <1>2, <1>4, <1>8
<1>13. PageInv'
  BY <1>2, <1>4, <1>10, <1>11, <1>12, Settled
<1> QED BY <1>2, <1>4, <1>9, <1>13

(* A holder writes into its own page.                                      *)
LEMMA WriteKeeps ==
  ASSUME PageInv, NEW p \in Pages, NEW w \in Words, HolderWrites(p, w)
  PROVE  PageInv' /\ held' = held
<1>1. PICK L : Chain(L, freepages, word0) /\ Partition(held, Members(L), InRegions(regions))
  BY Found DEF HolderWrites
<1>2. mem_initialized /\ RegionsOK(regions) /\ word0 \in [Pages -> Words]
  BY Found DEF HolderWrites
<1>3. /\ p \in held /\ word0' = [word0 EXCEPT ![p] = w] /\ failed' = 0
      /\ UNCHANGED <<regions, freepages, memmap, mem_initialized, panic, held>>
  BY DEF HolderWrites
<1>4. word0' \in [Pages -> Words] /\ \A x \in Pages : x # p => word0'[x] = word0[x]
  BY <1>2, <1>3
<1>5. Members(L) \subseteq Pages /\ p \notin Members(L)
  BY <1>1, <1>3, ChainShort DEF Partition
<1>6. Chain(L, freepages', word0')
  BY <1>1, <1>3, <1>4, <1>5, ChainKept
<1>7. Partition(held', Members(L), InRegions(regions')) /\ RegionsOK(regions')
  BY <1>1, <1>2, <1>3
<1> QED BY <1>2, <1>3, <1>4, <1>6, <1>7, Settled

(* Nothing happens.                                                        *)
LEMMA StutterKeeps ==
  ASSUME PageInv, UNCHANGED vars
  PROVE  PageInv'
<1>1. UNCHANGED <<memmap, mem_initialized, panic, regions, freepages, word0, held, failed>>
  BY DEF vars, heapVars
<1>2. TypeOK'
  BY <1>1 DEF PageInv, TypeOK
<1>3. RegionsOK(regions)'
  BY <1>1 DEF PageInv, RegionsOK
<1>4. Usable' = Usable
  BY <1>1 DEF Usable
<1>5. FailsOnlyWhenFull' /\ (~mem_initialized' => held' = {} /\ freepages' = NULL)
  BY <1>1, <1>4 DEF PageInv, FailsOnlyWhenFull
<1>6. ASSUME mem_initialized'
      PROVE  (\E M : Chain(M, freepages, word0) /\ Partition(held, Members(M), InRegions(regions)))'
  <2>1. PICK L : Chain(L, freepages, word0) /\ Partition(held, Members(L), InRegions(regions))
    BY <1>1, <1>6 DEF PageInv
  <2>2. Chain(L, freepages, word0)'
    BY <1>1, <2>1 DEF Chain
  <2>3. Partition(held, Members(L), InRegions(regions))'
    BY <1>1, <1>4, <2>1 DEF Partition, InRegions
  <2> QED BY <2>2, <2>3
<1> QED BY <1>2, <1>3, <1>5, <1>6 DEF PageInv

(* kalloc, kcalloc and kalloc_for_page_cache.                              *)
LEMMA OnePageKeeps ==
  ASSUME PageInv, NEW popped \in [Pages -> Words], NEW carved \in [Pages -> Words],
         OnePage(popped, carved)
  PROVE  PageInv' /\ (held' # held => \A p \in held : word0'[p] = word0[p])
<1>1. Ready
  BY DEF OnePage
<1>2. CASE Pop(popped)
  BY <1>1, <1>2, PopKeeps
<1>3. CASE FromRegions(1, carved)
  BY <1>1, <1>3, RegionKeeps
<1>4. CASE freepages = NULL /\ NoRegion(1) /\ Fail(1)
  <2>1. held' = held
    BY <1>4 DEF Fail
  <2>2. 1 \in 1 .. MaxRun
    BY PageAssumption
  <2> QED BY <1>1, <1>4, <2>1, <2>2, FailKeeps
<1> QED BY <1>2, <1>3, <1>4 DEF OnePage

(* kalloc_pages.                                                           *)
LEMMA ManyPagesKeep ==
  ASSUME PageInv, NEW n \in 2 .. MaxRun, kalloc_pages(n)
  PROVE  PageInv' /\ (held' # held => \A p \in held : word0'[p] = word0[p])
<1>1. Ready /\ n \in Nat \ {0} /\ n \in 1 .. MaxRun /\ n # 1
  BY DEF kalloc_pages
<1>2. CASE TakeRun(n)
  BY <1>1, <1>2, RunKeeps
<1>3. CASE FromRegions(n, Twos)
  <2>1. Twos \in [Pages -> Words]
    BY DEF Twos, Words
  <2> QED BY <1>1, <1>3, <2>1, RegionKeeps
<1>4. CASE Fail(n)
  <2>1. held' = held
    BY <1>4 DEF Fail
  <2> QED BY <1>1, <1>4, <2>1, FailKeeps
<1> QED BY <1>2, <1>3, <1>4 DEF kalloc_pages

(* A step keeps the invariant, and the words of pages that stay where they *)
(* are when pages change hands.                                            *)
LEMMA NextKeepsPages ==
  ASSUME PageInv, [Next]_vars
  PROVE  PageInv' /\ (held' # held => \A p \in held \cap held' : word0'[p] = word0[p])
<1>1. CASE init_mem
  <2>1. held' = held
    BY <1>1 DEF init_mem
  <2> QED BY <1>1, <2>1, InitMemKeeps
<1>2. CASE kalloc \/ kcalloc \/ kalloc_for_page_cache
  <2>1. Zeros \in [Pages -> Words] /\ Twos \in [Pages -> Words]
    BY DEF Zeros, Twos, Words
  <2>2. word0 \in [Pages -> Words]
    BY DEF PageInv, TypeOK, Words
  <2> QED BY <1>2, <2>1, <2>2, OnePageKeeps DEF kalloc, kcalloc, kalloc_for_page_cache
<1>3. ASSUME NEW n \in 2 .. MaxRun, kalloc_pages(n)
      PROVE  PageInv' /\ (held' # held => \A p \in held \cap held' : word0'[p] = word0[p])
  BY <1>3, ManyPagesKeep
<1>4. ASSUME NEW b \in Pages, NEW n \in 1 .. MaxRun, kfree_pages(b, n)
      PROVE  PageInv' /\ (held' # held => \A p \in held \cap held' : word0'[p] = word0[p])
  BY <1>4, FreeKeeps
<1>5. ASSUME NEW p \in Pages, NEW w \in Pages \cup {NULL, JUNK}, HolderWrites(p, w)
      PROVE  PageInv' /\ held' = held
  BY <1>5, WriteKeeps DEF Words
<1>6. CASE UNCHANGED vars
  <2>1. held' = held
    BY <1>6 DEF vars
  <2> QED BY <1>6, <2>1, StutterKeeps
<1> QED BY <1>1, <1>2, <1>3, <1>4, <1>5, <1>6 DEF Next, Halted

LEMMA InitPages == Init => PageInv
<1> SUFFICES ASSUME Init PROVE PageInv
  OBVIOUS
<1>1. regions = << >> /\ ~mem_initialized /\ held = {} /\ freepages = NULL /\ failed = 0
  BY DEF Init
<1>2. RegionsOK(regions)
  BY <1>1 DEF RegionsOK
<1>3. TypeOK
  <2>1. 0 \in 0 .. MaxRun /\ [p \in Pages |-> JUNK] \in [Pages -> Pages \cup {NULL, JUNK}]
    BY PageAssumption
  <2>2. mem_initialized \in BOOLEAN
    BY DEF Init
  <2>3. \A k \in DOMAIN regions : /\ regions[k].phys_cur \in Pages
                                  /\ regions[k].phys_end \in regions[k].phys_cur + 1 .. NumPages
    BY <1>2, RegionTypes
  <2> QED BY <1>1, <2>1, <2>2, <2>3 DEF Init, TypeOK
<1>4. FailsOnlyWhenFull
  BY <1>1 DEF FailsOnlyWhenFull
<1> QED BY <1>1, <1>2, <1>3, <1>4 DEF PageInv

(* The invariant says what PagesConserved says, in other words.            *)
LEMMA PagesAreConserved == PageInv => PagesConserved
<1> SUFFICES ASSUME PageInv, mem_initialized
             PROVE  LET list == FreeList
                        free == {list[k] : k \in DOMAIN list}
                        unused == UNION {Unused(k) : k \in DOMAIN regions}
                    IN  /\ Cardinality(free) = Len(list) /\ Len(list) <= NumPages
                        /\ held \cup free \cup unused = Usable
                        /\ held \cap free = {} /\ held \cap unused = {} /\ free \cap unused = {}
                        /\ \A j, k \in DOMAIN regions : j # k => Unused(j) \cap Unused(k) = {}
  BY DEF PageInv, PagesConserved
<1>1. PICK L : Chain(L, freepages, word0) /\ Partition(held, Members(L), InRegions(regions))
  BY DEF PageInv
<1>2. FreeList = L
  BY <1>1, ChainIsFreeList
<1>3. Len(L) <= NumPages /\ Cardinality(Members(L)) = Len(L)
  BY <1>1, ChainShort
<1>4. {L[k] : k \in DOMAIN L} = Members(L)
  <2>1. DOMAIN L = 1 .. Len(L)
    BY <1>1 DEF Chain
  <2> QED BY <2>1 DEF Members
<1>5. RegionsOK(regions) /\ DOMAIN regions = 1 .. Len(regions)
  BY DEF PageInv, RegionsOK
<1>6. \A k \in 1 .. Len(regions) :
        /\ regions[k].phys_cur \in Nat /\ regions[k].phys_end \in Nat
        /\ regions[k].phys_end <= NumPages
  <2>1. \A k \in 1 .. Len(regions) : regions[k] \in Region /\ regions[k].phys_end <= NumPages
    BY <1>5 DEF RegionsOK
  <2> QED BY <2>1 DEF Region
<1>7. \A k \in 1 .. Len(regions) : \A p :
        p \in Unused(k) <=> p \in Pages /\ regions[k].phys_cur <= p /\ p < regions[k].phys_end
  <2> SUFFICES ASSUME NEW k \in 1 .. Len(regions), NEW p
               PROVE  p \in Unused(k) <=>
                        p \in Pages /\ regions[k].phys_cur <= p /\ p < regions[k].phys_end
    OBVIOUS
  <2>1. PICK c \in Nat, e \in Nat : c = regions[k].phys_cur /\ e = regions[k].phys_end
    BY <1>6
  <2>2. e <= NumPages /\ NumPages \in Nat
    BY <1>6, <2>1, PageAssumption
  <2>3. p \in c .. e - 1 <=> p \in 0 .. NumPages - 1 /\ c <= p /\ p < e
    BY <2>2
  <2> QED BY <2>1, <2>3 DEF Unused, Pages
<1>8. UNION {Unused(k) : k \in DOMAIN regions} = InRegions(regions)
  <2>1. \A p : p \in InRegions(regions) <=> \E k \in 1 .. Len(regions) : p \in Unused(k)
    BY <1>7 DEF InRegions
  <2> QED BY <1>5, <2>1
<1>9. \A j, k \in DOMAIN regions : j # k => Unused(j) \cap Unused(k) = {}
  <2> SUFFICES ASSUME NEW j \in 1 .. Len(regions), NEW k \in 1 .. Len(regions), j # k,
                      NEW p, p \in Unused(j), p \in Unused(k)
               PROVE  FALSE
    BY <1>5
  <2>1. PICK c \in Nat, e \in Nat : c = regions[j].phys_cur /\ e = regions[j].phys_end
    BY <1>6
  <2>2. PICK d \in Nat, f \in Nat : d = regions[k].phys_cur /\ f = regions[k].phys_end
    BY <1>6
  <2>3. e <= d \/ f <= c
    BY <1>5, <2>1, <2>2 DEF RegionsOK
  <2>4. p \in Nat /\ c <= p /\ p < e /\ d <= p /\ p < f
    BY <1>7, <2>1, <2>2, PageAssumption DEF Pages
  <2> QED BY <2>3, <2>4
<1>10. /\ held \cup Members(L) \cup InRegions(regions) = Usable
       /\ held \cap Members(L) = {} /\ held \cap InRegions(regions) = {}
       /\ Members(L) \cap InRegions(regions) = {}
  BY <1>1 DEF Partition
<1> QED BY <1>2, <1>3, <1>4, <1>8, <1>9, <1>10, Zenon

-----------------------------------------------------------------------------
(* The inductive invariant holds in every state (init_mem, kalloc and its  *)
(* variants, kalloc_pages, kfree_pages).                                   *)
THEOREM PageInvariance == Spec => []PageInv
<1>1. PageInv /\ [Next]_vars => PageInv'
  BY NextKeepsPages
<1> QED BY <1>1, InitPages, PTL DEF Spec

(* No page is lost, handed out twice, or handed out though it is not       *)
(* usable, for a memory of any size, any map with usable memory below      *)
(* 4 GiB, any sequence of calls and whatever the holders write.            *)
THEOREM PagesAreKept == Spec => []PagesConserved
BY PageInvariance, PagesAreConserved, PTL

(* kalloc and its variants return NULL only when every usable page is      *)
(* with a holder.                                                          *)
THEOREM KallocFindsThePage == Spec => []FailsOnlyWhenFull
<1>1. PageInv => FailsOnlyWhenFull
  BY DEF PageInv
<1> QED BY <1>1, PageInvariance, PTL

(* Allocating and freeing pages writes into no page that stays with its    *)
(* holder.                                                                 *)
THEOREM OthersUntouched == Spec => HoldersKept
<1>1. PageInv /\ [Next]_vars =>
        [held' # held => \A p \in held \cap held' : word0'[p] = word0[p]]_vars
  BY NextKeepsPages
<1> QED BY <1>1, PageInvariance, PTL DEF Spec, HoldersKept
=============================================================================
