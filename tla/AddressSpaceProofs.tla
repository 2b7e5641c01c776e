------------------------- MODULE AddressSpaceProofs -------------------------
(***************************************************************************)
(* Proofs about the address spaces, for any number of processes and        *)
(* frames, any programs and any number of calls.                           *)
(*                                                                         *)
(* A call is a record (Call) that the helpers of vmm.c hand on.  Tree says *)
(* that its page table uses no frame twice and none that is free; every    *)
(* helper keeps it and the frames it is about (Pool), or ends in a panic.  *)
(***************************************************************************)
EXTENDS AddressSpace, FiniteSetTheorems, NaturalsInduction, WellFoundedInduction, TLAPS

Bytes == {"old", "junk", "zero", "file", "arg"}
Memory == [Frames -> [Offsets -> Bytes]]
UserPages == PageOf(USERSPACE_VA_MIN) .. NumPages - 1
TableNumbers == {TableOf(page) : page \in UserPages}
Entry == [frame : Frames, perm : [writable : BOOLEAN, userspace : BOOLEAN]]
Tables == UNION {[D -> Frames] : D \in SUBSET TableNumbers}
Entries == UNION {[D -> Entry] : D \in SUBSET UserPages}
Results == {"ok", "fail", "walk", "remap", "size", "page fault", "load_segment"}

Call ==
  [free : SUBSET Frames, mem : Memory, left : Int, r : Results, root : Nat,
   kcopy : SUBSET Frames, tab : Tables, pte : Entries, stray : SUBSET Frames, initial : Nat]

FramesOf(pte) == {pte[page].frame : page \in DOMAIN pte}

(* No frame has two uses, and every entry is under a table.                *)
TreeOK(tab, pte, unused) ==
  /\ \A i, j \in DOMAIN tab : tab[i] = tab[j] => i = j
  /\ \A i, j \in DOMAIN pte : pte[i].frame = pte[j].frame => i = j
  /\ Range(tab) \cap FramesOf(pte) = {}
  /\ unused \cap Range(tab) = {}
  /\ unused \cap FramesOf(pte) = {}
  /\ \A page \in DOMAIN pte : TableOf(page) \in DOMAIN tab

Tree(x) == TreeOK(x.tab, x.pte, x.free)
Pool(x) == x.free \cup Range(x.tab) \cup FramesOf(x.pte)

(* What a helper leaves alone.                                             *)
Grown(x, y) ==
  /\ y.root = x.root /\ y.kcopy = x.kcopy /\ y.stray = x.stray
  /\ y.free \subseteq x.free
  /\ DOMAIN x.pte \subseteq DOMAIN y.pte
  /\ \A page \in DOMAIN x.pte : y.pte[page] = x.pte[page]
  /\ \A f \in Frames \ x.free : y.mem[f] = x.mem[f]

-----------------------------------------------------------------------------
(* Numbers, sets and functions.                                            *)

(* A set of natural numbers that is not empty has a least member.          *)
LEMMA LeastOf ==
  ASSUME NEW T \in SUBSET Nat, T # {}
  PROVE  \E m \in T : \A x \in T : m <= x
<1> DEFINE R == OpToRel(<, Nat)
<1>1. PICK m \in T : \A x \in T : ~(<<x, m>> \in R)
  <2>1. IsWellFoundedOn(R, Nat)
    BY NatLessThanWellFounded
  <2> HIDE DEF R
  <2> QED BY <2>1, WFMin
<1>2. \A x \in T : ~(x < m)
  BY <1>1 DEF OpToRel
<1> QED BY <1>2

(* A set of numbers that holds 0 and with every number the next is the     *)
(* whole interval.                                                         *)
LEMMA UpTo ==
  ASSUME NEW n \in Nat, NEW T \in SUBSET (0 .. n), 0 \in T,
         \A k \in 1 .. n : k - 1 \in T => k \in T
  PROVE  T = 0 .. n
<1> SUFFICES ASSUME NEW b \in 0 .. n, b \notin T PROVE FALSE
  OBVIOUS
<1> DEFINE B == (0 .. n) \ T
<1>1. PICK m \in B : \A x \in B : m <= x
  <2>1. B \in SUBSET Nat /\ B # {}
    OBVIOUS
  <2> HIDE DEF B
  <2> QED BY <2>1, LeastOf
<1>2. m \in 1 .. n /\ m - 1 \in 0 .. n
  BY <1>1
<1>3. m - 1 \in T
  <2>1. ~(m <= m - 1)
    BY <1>2
  <2> QED BY <1>1, <1>2, <2>1
<1> QED BY <1>1, <1>2, <1>3

(* A loop over the members of a set has a run: the values after each of    *)
(* its steps.                                                              *)
IsRun(g, S, x, n, F) ==
  /\ g \in [0 .. n -> S] /\ g[0] = x
  /\ \A k \in 1 .. n : g[k] = F[<<g[k - 1], k>>]

LEMMA LoopRuns ==
  ASSUME NEW S, NEW x \in S, NEW n \in Nat, NEW F \in [S \X (1 .. n) -> S]
  PROVE  \E g : IsRun(g, S, x, n, F)
<1> DEFINE Good(m, g) == /\ g \in [0 .. m -> S] /\ g[0] = x
                         /\ \A k \in 1 .. m : g[k] = F[<<g[k - 1], k>>]
           T == {m \in 0 .. n : \E g : Good(m, g)}
<1>1. 0 \in T
  <2> DEFINE g == [k \in 0 .. 0 |-> x]
  <2>1. Good(0, g)
    OBVIOUS
  <2> HIDE DEF Good, g
  <2> QED BY <2>1
<1>2. ASSUME NEW k \in 1 .. n, k - 1 \in T
      PROVE  k \in T
  <2>1. PICK h : Good(k - 1, h)
    BY <1>2
  <2> DEFINE g == [j \in 0 .. k |-> IF j = k THEN F[<<h[k - 1], k>>] ELSE h[j]]
  <2>2. h \in [0 .. k - 1 -> S] /\ h[k - 1] \in S
    BY <2>1
  <2>3. F[<<h[k - 1], k>>] \in S
    BY <2>2
  <2>4. g \in [0 .. k -> S]
    BY <2>2, <2>3
  <2>5. g[0] = x
    BY <2>1
  <2>6. ASSUME NEW j \in 1 .. k PROVE g[j] = F[<<g[j - 1], j>>]
    <3>1. CASE j = k
      <4>1. g[k] = F[<<h[k - 1], k>>] /\ g[k - 1] = h[k - 1]
        OBVIOUS
      <4> QED BY <3>1, <4>1
    <3>2. CASE j # k
      <4>1. j \in 1 .. k - 1 /\ j - 1 \in 0 .. k - 1 /\ j - 1 # k
        BY <3>2
      <4>2. h[j] = F[<<h[j - 1], j>>]
        BY <2>1, <4>1
      <4>3. g[j] = h[j] /\ g[j - 1] = h[j - 1]
        BY <3>2, <4>1
      <4> QED BY <4>2, <4>3
    <3> QED BY <3>1, <3>2
  <2>7. Good(k, g)
    BY <2>4, <2>5, <2>6
  <2> HIDE DEF Good, g
  <2> QED BY <2>7
<1>3. T = 0 .. n
  <2>1. T \in SUBSET (0 .. n)
    OBVIOUS
  <2> HIDE DEF T
  <2> QED BY <1>1, <1>2, <2>1, UpTo
<1>4. n \in T
  <2> HIDE DEF T
  <2> QED BY <1>3
<1> QED BY <1>4 DEF IsRun

(* A function with one more argument.                                      *)
LEMMA WithTable ==
  ASSUME NEW tab \in Tables, NEW t \in TableNumbers, NEW f \in Frames
  PROVE  With(tab, t, f) \in Tables
<1>1. PICK D \in SUBSET TableNumbers : tab \in [D -> Frames]
  BY DEF Tables
<1>2. With(tab, t, f) \in [D \cup {t} -> Frames]
  BY <1>1 DEF With
<1>3. D \cup {t} \in SUBSET TableNumbers
  BY <1>1
<1> QED BY <1>2, <1>3 DEF Tables

LEMMA WithEntry ==
  ASSUME NEW pte \in Entries, NEW page \in UserPages, NEW e \in Entry
  PROVE  With(pte, page, e) \in Entries
<1>1. PICK D \in SUBSET UserPages : pte \in [D -> Entry]
  BY DEF Entries
<1>2. With(pte, page, e) \in [D \cup {page} -> Entry]
  BY <1>1 DEF With
<1>3. D \cup {page} \in SUBSET UserPages
  BY <1>1
<1> QED BY <1>2, <1>3 DEF Entries

LEMMA TableFacts ==
  ASSUME NEW tab \in Tables
  PROVE  /\ DOMAIN tab \subseteq TableNumbers
         /\ \A t \in DOMAIN tab : tab[t] \in Frames
         /\ Range(tab) \subseteq Frames
<1>1. PICK D \in SUBSET TableNumbers : tab \in [D -> Frames]
  BY DEF Tables
<1> QED BY <1>1 DEF Range

LEMMA EntryFacts ==
  ASSUME NEW pte \in Entries
  PROVE  /\ DOMAIN pte \subseteq UserPages
         /\ \A page \in DOMAIN pte : pte[page] \in Entry /\ pte[page].frame \in Frames
         /\ FramesOf(pte) \subseteq Frames
<1>1. PICK D \in SUBSET UserPages : pte \in [D -> Entry]
  BY DEF Entries
<1>2. \A page \in DOMAIN pte : pte[page] \in Entry /\ pte[page].frame \in Frames
  BY <1>1 DEF Entry
<1> QED BY <1>1, <1>2 DEF FramesOf

-----------------------------------------------------------------------------
(* A frame moves from the allocator into the tree.                         *)

LEMMA NewTable ==
  ASSUME NEW tab, NEW pte, NEW unused, TreeOK(tab, pte, unused), NEW f \in unused,
         NEW t, t \notin DOMAIN tab
  PROVE  /\ TreeOK(With(tab, t, f), pte, unused \ {f})
         /\ Range(With(tab, t, f)) = Range(tab) \cup {f}
         /\ t \in DOMAIN With(tab, t, f)
<1> DEFINE new == With(tab, t, f)
<1>1. /\ DOMAIN new = DOMAIN tab \cup {t} /\ new[t] = f
      /\ \A j \in DOMAIN tab : new[j] = tab[j]
  <2>1. \A j \in DOMAIN tab : j # t
    OBVIOUS
  <2> QED BY <2>1 DEF With
<1> HIDE DEF new
<1>2. Range(new) = Range(tab) \cup {f}
  BY <1>1 DEF Range
<1>3. \A j \in DOMAIN tab : tab[j] # f
  BY DEF TreeOK, Range
<1>4. ASSUME NEW i \in DOMAIN new, NEW j \in DOMAIN new, new[i] = new[j]
      PROVE  i = j
  BY <1>1, <1>3, <1>4 DEF TreeOK
<1>5. f \notin FramesOf(pte) /\ f \notin Range(tab)
  BY DEF TreeOK
<1>6. /\ Range(new) \cap FramesOf(pte) = {}
      /\ (unused \ {f}) \cap Range(new) = {} /\ (unused \ {f}) \cap FramesOf(pte) = {}
  BY <1>2, <1>5 DEF TreeOK
<1>7. \A page \in DOMAIN pte : TableOf(page) \in DOMAIN new
  BY <1>1 DEF TreeOK
<1>8. \A i, j \in DOMAIN pte : pte[i].frame = pte[j].frame => i = j
  BY DEF TreeOK
<1>9. TreeOK(new, pte, unused \ {f})
  BY <1>4, <1>6, <1>7, <1>8 DEF TreeOK
<1> QED BY <1>1, <1>2, <1>9 DEF new

LEMMA NewEntry ==
  ASSUME NEW tab, NEW pte, NEW unused, TreeOK(tab, pte, unused), NEW f, f \notin unused,
         f \notin Range(tab), f \notin FramesOf(pte), NEW page, page \notin DOMAIN pte,
         TableOf(page) \in DOMAIN tab, NEW perm
  PROVE  /\ TreeOK(tab, With(pte, page, [frame |-> f, perm |-> perm]), unused)
         /\ FramesOf(With(pte, page, [frame |-> f, perm |-> perm])) = FramesOf(pte) \cup {f}
<1> DEFINE e == [frame |-> f, perm |-> perm]
           new == With(pte, page, e)
<1>0. e.frame = f /\ \A j \in DOMAIN pte : j # page
  OBVIOUS
<1> HIDE DEF e
<1>1. /\ DOMAIN new = DOMAIN pte \cup {page} /\ new[page] = e /\ e.frame = f
      /\ \A j \in DOMAIN pte : new[j] = pte[j]
  BY <1>0 DEF With
<1> HIDE DEF new
<1>2. FramesOf(new) = FramesOf(pte) \cup {f}
  BY <1>1 DEF FramesOf
<1>3. \A j \in DOMAIN pte : pte[j].frame # f
  BY DEF FramesOf
<1>4. ASSUME NEW i \in DOMAIN new, NEW j \in DOMAIN new, new[i].frame = new[j].frame
      PROVE  i = j
  BY <1>1, <1>3, <1>4 DEF TreeOK
<1>5. /\ Range(tab) \cap FramesOf(new) = {} /\ unused \cap Range(tab) = {}
      /\ unused \cap FramesOf(new) = {}
  BY <1>2 DEF TreeOK
<1>6. \A q \in DOMAIN new : TableOf(q) \in DOMAIN tab
  BY <1>1 DEF TreeOK
<1>7. \A i, j \in DOMAIN tab : tab[i] = tab[j] => i = j
  BY DEF TreeOK
<1>8. TreeOK(tab, new, unused)
  BY <1>4, <1>5, <1>6, <1>7 DEF TreeOK
<1> QED BY <1>2, <1>8 DEF new, e

-----------------------------------------------------------------------------
(* The steps of a call.                                                    *)

LEMMA CallFacts ==
  ASSUME NEW x \in Call
  PROVE  /\ x.free \in SUBSET Frames /\ x.mem \in Memory /\ x.left \in Int /\ x.r \in Results
         /\ x.root \in Nat /\ x.kcopy \in SUBSET Frames /\ x.tab \in Tables /\ x.pte \in Entries
         /\ x.stray \in SUBSET Frames /\ x.initial \in Nat
BY DEF Call


LEMMA SetResult ==
  ASSUME NEW x \in Call, NEW v \in Results
  PROVE  /\ [x EXCEPT !.r = v] \in Call
         /\ [x EXCEPT !.r = v].r = v
         /\ [x EXCEPT !.r = v].free = x.free /\ [x EXCEPT !.r = v].mem = x.mem
         /\ [x EXCEPT !.r = v].left = x.left /\ [x EXCEPT !.r = v].root = x.root
         /\ [x EXCEPT !.r = v].kcopy = x.kcopy /\ [x EXCEPT !.r = v].tab = x.tab
         /\ [x EXCEPT !.r = v].pte = x.pte /\ [x EXCEPT !.r = v].stray = x.stray
         /\ [x EXCEPT !.r = v].initial = x.initial
BY DEF Call

(* A call that only changes its result keeps everything else.              *)
LEMMA GrownResult ==
  ASSUME NEW x \in Call, NEW v \in Results
  PROVE  /\ Grown(x, [x EXCEPT !.r = v]) /\ Pool([x EXCEPT !.r = v]) = Pool(x)
         /\ Tree([x EXCEPT !.r = v]) <=> Tree(x)
<1> DEFINE y == [x EXCEPT !.r = v]
<1>1. /\ y.free = x.free /\ y.mem = x.mem /\ y.root = x.root /\ y.kcopy = x.kcopy
      /\ y.tab = x.tab /\ y.pte = x.pte /\ y.stray = x.stray
  BY SetResult
<1> HIDE DEF y
<1>2. Grown(x, y)
  BY <1>1 DEF Grown
<1>3. Pool(y) = Pool(x) /\ (Tree(y) <=> Tree(x))
  BY <1>1 DEF Pool, Tree
<1> QED BY <1>2, <1>3 DEF y

LEMMA GrownSelf ==
  ASSUME NEW x
  PROVE  Grown(x, x)
BY DEF Grown

LEMMA GrownTwice ==
  ASSUME NEW x, NEW y, NEW z, Grown(x, y), Grown(y, z)
  PROVE  Grown(x, z)
<1>1. /\ z.root = x.root /\ z.kcopy = x.kcopy /\ z.stray = x.stray /\ z.free \subseteq x.free
      /\ DOMAIN x.pte \subseteq DOMAIN z.pte
  BY DEF Grown
<1>2. \A page \in DOMAIN x.pte : z.pte[page] = x.pte[page]
  BY DEF Grown
<1>3. \A f \in Frames \ x.free : z.mem[f] = x.mem[f]
  BY DEF Grown
<1> QED BY <1>1, <1>2, <1>3 DEF Grown

(* The allocator hands out a free frame.                                   *)
LEMMA NewFrameFree ==
  ASSUME NEW x \in Call, x.free # {}
  PROVE  NewFrame(x) \in x.free
<1>1. x.free \in SUBSET Nat
  BY SpaceAssumption DEF Call
<1>2. PICK m \in x.free : \A y \in x.free : m <= y
  BY <1>1, LeastOf
<1> QED BY <1>2 DEF NewFrame

Filled(v) == [o \in Offsets |-> v]

LEMMA TakeMeans ==
  ASSUME NEW x \in Call, x.free # {}, NEW v \in Bytes
  PROVE  /\ Take(x, v) \in Call
         /\ NewFrame(x) \in x.free /\ NewFrame(x) \in Frames
         /\ Take(x, v).free = x.free \ {NewFrame(x)}
         /\ Take(x, v).mem = [x.mem EXCEPT ![NewFrame(x)] = Filled(v)]
         /\ Take(x, v).r = x.r /\ Take(x, v).root = x.root /\ Take(x, v).kcopy = x.kcopy
         /\ Take(x, v).tab = x.tab /\ Take(x, v).pte = x.pte /\ Take(x, v).stray = x.stray
         /\ Take(x, v).initial = x.initial
<1>1. NewFrame(x) \in x.free /\ NewFrame(x) \in Frames
  BY NewFrameFree DEF Call
<1>2. PICK n : n = NewFrame(x)
  OBVIOUS
<1>3. PICK m : m = [x.mem EXCEPT ![n] = Filled(v)]
  OBVIOUS
<1>4. m \in Memory
  BY <1>1, <1>2, <1>3 DEF Memory, Filled, Call
<1>5. PICK a, b : a = x.free \ {n} /\ b = x.left - 1
  OBVIOUS
<1>5a. a \in SUBSET Frames /\ b \in Int
  BY <1>5, CallFacts
<1>6. Take(x, v) = [x EXCEPT !.free = a, !.left = b, !.mem = m]
  BY <1>2, <1>3, <1>5 DEF Take, Filled, Call
<1>7. PICK y : y = [x EXCEPT !.free = a, !.left = b, !.mem = m]
  OBVIOUS
<1>8. /\ y \in Call
      /\ y.free = a /\ y.mem = m /\ y.r = x.r /\ y.root = x.root /\ y.kcopy = x.kcopy
      /\ y.tab = x.tab /\ y.pte = x.pte /\ y.stray = x.stray /\ y.initial = x.initial
  BY <1>4, <1>5a, <1>7 DEF Call
<1>9. Take(x, v) = y
  BY <1>6, <1>7
<1> QED BY <1>1, <1>2, <1>3, <1>5, <1>8, <1>9

(* Nothing changes but the frame that is taken.                            *)
LEMMA TakeGrown ==
  ASSUME NEW x \in Call, x.free # {}, NEW v \in Bytes
  PROVE  /\ Grown(x, Take(x, v))
         /\ Tree(x) => Tree(Take(x, v))
         /\ Take(x, v).mem[NewFrame(x)] = Filled(v)
<1> DEFINE y == Take(x, v)
           n == NewFrame(x)
<1>1. /\ n \in x.free /\ n \in Frames
      /\ y.free = x.free \ {n} /\ y.mem = [x.mem EXCEPT ![n] = Filled(v)]
      /\ y.root = x.root /\ y.kcopy = x.kcopy /\ y.tab = x.tab /\ y.pte = x.pte
      /\ y.stray = x.stray
  BY TakeMeans
<1> HIDE DEF y, n
<1>2. x.mem \in Memory
  BY CallFacts
<1>3. y.mem[n] = Filled(v) /\ \A f \in Frames \ x.free : y.mem[f] = x.mem[f]
  BY <1>1, <1>2 DEF Memory
<1>4. Grown(x, y)
  BY <1>1, <1>3 DEF Grown
<1>5. Tree(x) => Tree(y)
  BY <1>1 DEF Tree, TreeOK
<1> QED BY <1>3, <1>4, <1>5 DEF y, n

-----------------------------------------------------------------------------
(* walk, and the entry at its end.                                         *)

Perms == [writable : BOOLEAN, userspace : BOOLEAN]

(* The call with table number t in frame f.                                *)
LEMMA SetTable ==
  ASSUME NEW x \in Call, NEW tab \in Tables
  PROVE  /\ [x EXCEPT !.tab = tab] \in Call
         /\ [x EXCEPT !.tab = tab].tab = tab
         /\ [x EXCEPT !.tab = tab].free = x.free /\ [x EXCEPT !.tab = tab].mem = x.mem
         /\ [x EXCEPT !.tab = tab].r = x.r /\ [x EXCEPT !.tab = tab].root = x.root
         /\ [x EXCEPT !.tab = tab].kcopy = x.kcopy /\ [x EXCEPT !.tab = tab].pte = x.pte
         /\ [x EXCEPT !.tab = tab].stray = x.stray /\ [x EXCEPT !.tab = tab].initial = x.initial
BY DEF Call

LEMMA SetEntries ==
  ASSUME NEW x \in Call, NEW pte \in Entries
  PROVE  /\ [x EXCEPT !.pte = pte] \in Call
         /\ [x EXCEPT !.pte = pte].pte = pte
         /\ [x EXCEPT !.pte = pte].free = x.free /\ [x EXCEPT !.pte = pte].mem = x.mem
         /\ [x EXCEPT !.pte = pte].r = x.r /\ [x EXCEPT !.pte = pte].root = x.root
         /\ [x EXCEPT !.pte = pte].kcopy = x.kcopy /\ [x EXCEPT !.pte = pte].tab = x.tab
         /\ [x EXCEPT !.pte = pte].stray = x.stray /\ [x EXCEPT !.pte = pte].initial = x.initial
BY DEF Call

LEMMA SetFree ==
  ASSUME NEW x \in Call, NEW unused \in SUBSET Frames
  PROVE  /\ [x EXCEPT !.free = unused] \in Call
         /\ [x EXCEPT !.free = unused].free = unused
         /\ [x EXCEPT !.free = unused].pte = x.pte /\ [x EXCEPT !.free = unused].mem = x.mem
         /\ [x EXCEPT !.free = unused].r = x.r /\ [x EXCEPT !.free = unused].root = x.root
         /\ [x EXCEPT !.free = unused].kcopy = x.kcopy /\ [x EXCEPT !.free = unused].tab = x.tab
         /\ [x EXCEPT !.free = unused].stray = x.stray /\ [x EXCEPT !.free = unused].initial = x.initial
BY DEF Call

(* A page that walk finds the entry of is in user space, under a table.    *)
LEMMA WalkMeans ==
  ASSUME NEW x \in Call, NEW page
  PROVE  /\ walk(x, page) \in Call
         /\ Grown(x, walk(x, page))
         /\ walk(x, page).pte = x.pte /\ walk(x, page).initial = x.initial
         /\ Tree(x) => Tree(walk(x, page)) /\ Pool(walk(x, page)) = Pool(x)
         /\ \/ walk(x, page).r \in {"walk", "fail"}
            \/ /\ walk(x, page).r = x.r /\ page \in UserPages
               /\ TableOf(page) \in DOMAIN walk(x, page).tab
<1> DEFINE y == walk(x, page)
           t == TableOf(page)
<1>1. CASE page \notin UserPages
  <2>1. y = [x EXCEPT !.r = "walk"] /\ "walk" \in Results
    BY <1>1 DEF walk, UserPages, Results
  <2> HIDE DEF y
  <2>2. y \in Call /\ y.r = "walk" /\ y.pte = x.pte /\ y.initial = x.initial
    BY <2>1, SetResult
  <2>3. Grown(x, y) /\ Pool(y) = Pool(x) /\ (Tree(y) <=> Tree(x))
    BY <2>1, GrownResult
  <2> QED BY <2>2, <2>3 DEF y
<1>2. CASE page \in UserPages /\ t \in DOMAIN x.tab
  <2>1. y = x
    BY <1>2 DEF walk, UserPages
  <2> QED BY <1>2, <2>1, GrownSelf
<1>3. CASE page \in UserPages /\ t \notin DOMAIN x.tab /\ ~Granted(x)
  <2>1. y = [x EXCEPT !.r = "fail"] /\ "fail" \in Results
    BY <1>3 DEF walk, UserPages, Results, Fail
  <2> HIDE DEF y
  <2>2. y \in Call /\ y.r = "fail" /\ y.pte = x.pte /\ y.initial = x.initial
    BY <2>1, SetResult
  <2>3. Grown(x, y) /\ Pool(y) = Pool(x) /\ (Tree(y) <=> Tree(x))
    BY <2>1, GrownResult
  <2> QED BY <2>2, <2>3 DEF y
<1>4. CASE page \in UserPages /\ t \notin DOMAIN x.tab /\ Granted(x)
  <2> DEFINE z == Take(x, "zero")
             n == NewFrame(x)
             tab == With(x.tab, t, n)
  <2>0. x.free # {} /\ "zero" \in Bytes
    BY <1>4 DEF Granted, Bytes
  <2>1. /\ z \in Call /\ n \in x.free /\ n \in Frames /\ z.free = x.free \ {n} /\ z.r = x.r
        /\ z.tab = x.tab /\ z.pte = x.pte /\ z.initial = x.initial
    BY <2>0, TakeMeans
  <2>2. Grown(x, z)
    BY <2>0, TakeGrown
  <2>3. y = [z EXCEPT !.tab = With(z.tab, t, n)]
    <3>1. y = [z EXCEPT !.tab = With(@, t, n)]
      BY <1>4 DEF walk, UserPages
    <3> HIDE DEF z, n, y, t
    <3> QED BY <2>1, <3>1 DEF Call
  <2> HIDE DEF z, n
  <2>4. t \in TableNumbers
    BY <1>4 DEF TableNumbers
  <2> HIDE DEF y, t
  <2>5. tab \in Tables
    BY <2>1, <2>4, CallFacts, WithTable
  <2>t. t \in DOMAIN tab /\ Range(tab) = Range(x.tab) \cup {n}
    BY <1>4 DEF With, Range
  <2> HIDE DEF tab
  <2>6. y = [z EXCEPT !.tab = tab]
    BY <2>1, <2>3 DEF tab
  <2>7. /\ y \in Call /\ y.tab = tab /\ y.free = z.free /\ y.mem = z.mem /\ y.r = z.r
        /\ y.root = z.root /\ y.kcopy = z.kcopy /\ y.pte = z.pte /\ y.stray = z.stray
        /\ y.initial = z.initial
    BY <2>1, <2>5, <2>6, SetTable
  <2>8. Grown(x, y)
    BY <2>2, <2>7 DEF Grown
  <2>9. ASSUME Tree(x) PROVE Tree(y) /\ Pool(y) = Pool(x)
    <3>1. TreeOK(x.tab, x.pte, x.free)
      BY <2>9 DEF Tree
    <3>2. TreeOK(tab, x.pte, x.free \ {n})
      BY <1>4, <2>1, <3>1, NewTable DEF tab
    <3>3. y.tab = tab /\ y.pte = x.pte /\ y.free = x.free \ {n}
      BY <2>1, <2>7
    <3>4. Tree(y)
      BY <3>2, <3>3 DEF Tree
    <3>5. Pool(y) = Pool(x)
      BY <2>1, <2>t, <3>3 DEF Pool
    <3> QED BY <3>4, <3>5
  <2>10. y.r = x.r /\ page \in UserPages /\ TableOf(page) \in DOMAIN y.tab
    BY <1>4, <2>1, <2>7, <2>t DEF t
  <2> QED BY <2>1, <2>7, <2>8, <2>9, <2>10 DEF y
<1> QED BY <1>1, <1>2, <1>3, <1>4

(* The entry is written, or the call fails or panics.                      *)
SetPteOK(x, page, f, perm, y) ==
  /\ y \in Call /\ Grown(x, y) /\ y.initial = x.initial
  /\ y.free = x.free /\ y.mem = x.mem /\ y.tab = x.tab
  /\ \/ y.r # "ok" /\ y.pte = x.pte /\ y.r \in {x.r, "remap"}
     \/ /\ x.r = "ok" /\ y.r = "ok" /\ page \notin DOMAIN x.pte
        /\ y.pte = With(x.pte, page, [frame |-> f, perm |-> perm])

LEMMA SetPteMeans ==
  ASSUME NEW x \in Call, NEW page, NEW f \in Frames, NEW perm \in Perms,
         x.r = "ok" => page \in UserPages /\ TableOf(page) \in DOMAIN x.tab
  PROVE  SetPteOK(x, page, f, perm, SetPte(x, page, f, perm))
<1> DEFINE y == SetPte(x, page, f, perm)
<1>1. CASE x.r # "ok"
  <2>1. y = x
    BY <1>1 DEF SetPte
  <2> QED BY <1>1, <2>1, GrownSelf DEF SetPteOK
<1>2. CASE x.r = "ok" /\ page \in DOMAIN x.pte
  <2>1. y = [x EXCEPT !.r = "remap"] /\ "remap" \in Results
    BY <1>2 DEF SetPte, Results
  <2> HIDE DEF y
  <2>2. /\ y \in Call /\ y.r = "remap" /\ y.pte = x.pte /\ y.initial = x.initial /\ y.free = x.free
        /\ y.mem = x.mem /\ y.tab = x.tab
    BY <2>1, SetResult
  <2>3. Grown(x, y)
    BY <2>1, GrownResult
  <2> QED BY <2>2, <2>3 DEF y, SetPteOK
<1>3. CASE x.r = "ok" /\ page \notin DOMAIN x.pte
  <2> DEFINE e == [frame |-> f, perm |-> perm]
             pte == With(x.pte, page, e)
  <2>1. y = [x EXCEPT !.pte = pte]
    <3>1. y = [x EXCEPT !.pte = With(@, page, e)]
      BY <1>3 DEF SetPte
    <3> HIDE DEF y, e
    <3> QED BY <3>1 DEF Call
  <2>2. e \in Entry
    BY DEF Entry, Perms
  <2> HIDE DEF y, e
  <2>3. pte \in Entries
    BY <1>3, <2>2, CallFacts, WithEntry
  <2>4. DOMAIN x.pte \subseteq DOMAIN pte /\ \A q \in DOMAIN x.pte : pte[q] = x.pte[q]
    BY <1>3 DEF With
  <2> HIDE DEF pte
  <2>5. /\ y \in Call /\ y.pte = pte /\ y.free = x.free /\ y.mem = x.mem /\ y.r = x.r
        /\ y.root = x.root /\ y.kcopy = x.kcopy /\ y.tab = x.tab /\ y.stray = x.stray
        /\ y.initial = x.initial
    BY <2>1, <2>3, SetEntries
  <2>6. Grown(x, y)
    BY <2>4, <2>5 DEF Grown
  <2> QED BY <1>3, <2>5, <2>6 DEF y, pte, e, SetPteOK
<1> QED BY <1>1, <1>2, <1>3

(* A page is mapped to a frame that is not in the pool.                    *)
MapOK(x, page, f, perm, y) ==
  /\ y \in Call /\ Grown(x, y) /\ y.initial = x.initial
  /\ Tree(x) /\ f \notin Pool(x) =>
       /\ Tree(y)
       /\ \/ Pool(y) = Pool(x) /\ FramesOf(y.pte) = FramesOf(x.pte) /\ y.r # "ok"
          \/ /\ Pool(y) = Pool(x) \cup {f} /\ FramesOf(y.pte) = FramesOf(x.pte) \cup {f}
             /\ y.r = "ok"
  /\ y.r = "ok" => /\ page \notin DOMAIN x.pte /\ page \in DOMAIN y.pte
                   /\ y.pte[page] = [frame |-> f, perm |-> perm]

LEMMA MapMeans ==
  ASSUME NEW x \in Call, NEW page, NEW f \in Frames, NEW perm \in Perms
  PROVE  MapOK(x, page, f, perm, MapPage(x, page, f, perm))
<1> DEFINE w == walk(x, page)
           y == SetPte(w, page, f, perm)
           e == [frame |-> f, perm |-> perm]
<1>1. /\ w \in Call /\ Grown(x, w) /\ w.pte = x.pte /\ w.initial = x.initial
      /\ Tree(x) => Tree(w) /\ Pool(w) = Pool(x)
      /\ \/ w.r \in {"walk", "fail"}
         \/ w.r = x.r /\ page \in UserPages /\ TableOf(page) \in DOMAIN w.tab
  BY WalkMeans
<1>2. w.r = "ok" => page \in UserPages /\ TableOf(page) \in DOMAIN w.tab
  BY <1>1
<1> HIDE DEF w
<1>3. /\ y \in Call /\ Grown(w, y) /\ y.initial = w.initial /\ y.free = w.free /\ y.mem = w.mem
      /\ y.tab = w.tab
      /\ \/ y.r # "ok" /\ y.pte = w.pte /\ y.r \in {w.r, "remap"}
         \/ w.r = "ok" /\ y.r = "ok" /\ page \notin DOMAIN w.pte /\ y.pte = With(w.pte, page, e)
  <2>1. SetPteOK(w, page, f, perm, y)
    BY <1>1, <1>2, SetPteMeans
  <2> HIDE DEF y
  <2> QED BY <2>1 DEF SetPteOK
<1> HIDE DEF y, e
<1>4. Grown(x, y) /\ y.initial = x.initial
  BY <1>1, <1>3, GrownTwice
<1>6. ASSUME Tree(x), f \notin Pool(x)
      PROVE  /\ Tree(y)
             /\ \/ Pool(y) = Pool(x) /\ FramesOf(y.pte) = FramesOf(x.pte) /\ y.r # "ok"
                \/ /\ Pool(y) = Pool(x) \cup {f} /\ FramesOf(y.pte) = FramesOf(x.pte) \cup {f}
                   /\ y.r = "ok"
  <2>1. Tree(w) /\ Pool(w) = Pool(x) /\ f \notin Pool(w)
    BY <1>1, <1>6
  <2>2. CASE y.r # "ok" /\ y.pte = w.pte
    BY <1>1, <1>3, <2>1, <2>2 DEF Tree, Pool
  <2>3. CASE w.r = "ok" /\ y.r = "ok" /\ page \notin DOMAIN w.pte /\ y.pte = With(w.pte, page, e)
    <3>1. TreeOK(w.tab, w.pte, w.free) /\ f \notin w.free /\ f \notin Range(w.tab)
          /\ f \notin FramesOf(w.pte)
      BY <2>1 DEF Tree, Pool
    <3>2. TreeOK(w.tab, y.pte, w.free) /\ FramesOf(y.pte) = FramesOf(w.pte) \cup {f}
      BY <1>2, <2>3, <3>1, NewEntry DEF e
    <3>3. Tree(y)
      BY <1>3, <3>2 DEF Tree
    <3>4. Pool(y) = Pool(w) \cup {f}
      BY <1>3, <3>2 DEF Pool
    <3> QED BY <1>1, <2>1, <2>3, <3>2, <3>3, <3>4
  <2> QED BY <1>3, <2>2, <2>3
<1>7. y.r = "ok" => page \notin DOMAIN x.pte /\ page \in DOMAIN y.pte /\ y.pte[page] = e
  BY <1>1, <1>3 DEF With
<1>8. MapPage(x, page, f, perm) = y
  BY DEF MapPage, y, w
<1> QED BY <1>3, <1>4, <1>6, <1>7, <1>8 DEF e, MapOK

(* One page of vmm_allocate.                                               *)
AllocateOK(x, page, perm, v, y) ==
  /\ y \in Call /\ y.initial = x.initial
  /\ Tree(x) => Grown(x, y)
  /\ Tree(x) /\ y.r \in {"ok", "fail"} /\ x.r = "ok" => Tree(y) /\ Pool(y) = Pool(x)
  /\ Tree(x) /\ y.r = "ok" =>
       /\ page \notin DOMAIN x.pte /\ page \in DOMAIN y.pte /\ y.pte[page].perm = perm
       /\ y.mem[y.pte[page].frame] = Filled(v)

LEMMA AllocateMeans ==
  ASSUME NEW x \in Call, NEW page, NEW perm \in Perms, NEW v \in Bytes
  PROVE  AllocateOK(x, page, perm, v, AllocatePage(x, page, perm, v))
<1> DEFINE y == AllocatePage(x, page, perm, v)
<1>1. CASE ~Granted(x)
  <2>1. y = [x EXCEPT !.r = "fail"] /\ "fail" \in Results
    BY <1>1 DEF AllocatePage, Results, Fail
  <2> HIDE DEF y
  <2>2. y \in Call /\ y.r = "fail" /\ y.initial = x.initial
    BY <2>1, SetResult
  <2>3. Grown(x, y) /\ Pool(y) = Pool(x) /\ (Tree(y) <=> Tree(x))
    BY <2>1, GrownResult
  <2> QED BY <2>2, <2>3 DEF y, AllocateOK
<1>2. CASE Granted(x)
  <2> DEFINE t == Take(x, v)
             n == NewFrame(x)
             w == walk(t, page)
             m == MapPage(t, page, n, perm)
  <2>0. x.free # {}
    BY <1>2 DEF Granted
  <2>1. /\ t \in Call /\ n \in x.free /\ n \in Frames /\ t.free = x.free \ {n} /\ t.r = x.r
        /\ t.tab = x.tab /\ t.pte = x.pte /\ t.initial = x.initial
    BY <2>0, TakeMeans
  <2>2. Grown(x, t) /\ (Tree(x) => Tree(t)) /\ t.mem[n] = Filled(v)
    BY <2>0, TakeGrown
  <2>3. y = IF w.r = "fail" THEN [w EXCEPT !.free = @ \cup {n}] ELSE m
    BY <1>2 DEF AllocatePage, MapPage
  <2> HIDE DEF y, t, n
  <2>4. Tree(x) => Pool(t) \cup {n} = Pool(x) /\ n \notin Pool(t)
    BY <2>1 DEF Pool, Tree, TreeOK
  <2>5. /\ w \in Call /\ Grown(t, w) /\ w.pte = t.pte /\ w.initial = t.initial
        /\ Tree(t) => Tree(w) /\ Pool(w) = Pool(t)
    BY <2>1, WalkMeans
  <2>6. CASE w.r = "fail"
    <3> HIDE DEF w
    <3>1. PICK unused : unused = w.free \cup {n}
      OBVIOUS
    <3>2. unused \in SUBSET Frames
      BY <2>1, <2>5, <3>1, CallFacts
    <3>3. y = [w EXCEPT !.free = unused]
      BY <2>3, <2>5, <2>6, <3>1 DEF Call
    <3>4. /\ y \in Call /\ y.free = unused /\ y.pte = w.pte /\ y.mem = w.mem /\ y.r = w.r
          /\ y.root = w.root /\ y.kcopy = w.kcopy /\ y.tab = w.tab /\ y.stray = w.stray
          /\ y.initial = w.initial
      BY <2>5, <3>2, <3>3, SetFree
    <3>5. ASSUME Tree(x) PROVE Grown(x, y)
      <4>1. Grown(x, w)
        BY <2>2, <2>5, GrownTwice
      <4>2. y.free \subseteq x.free
        BY <2>1, <3>1, <3>4, <4>1 DEF Grown
      <4> QED BY <3>4, <4>1, <4>2 DEF Grown
    <3>6. ASSUME Tree(x) PROVE Tree(y) /\ Pool(y) = Pool(x)
      <4>1. Tree(w) /\ Pool(w) \cup {n} = Pool(x) /\ n \notin Pool(w)
        BY <2>2, <2>4, <2>5, <3>6
      <4>2. Tree(y)
        BY <3>1, <3>4, <4>1 DEF Tree, TreeOK, Pool
      <4>3. Pool(y) = Pool(w) \cup {n}
        BY <3>1, <3>4 DEF Pool
      <4> QED BY <4>1, <4>2, <4>3
    <3>7. y.r # "ok"
      BY <2>6, <3>4
    <3> QED BY <2>1, <2>5, <3>4, <3>5, <3>6, <3>7 DEF y, AllocateOK
  <2>7. CASE w.r # "fail"
    <3>1. y = m
      BY <2>3, <2>7
    <3>2. /\ m \in Call /\ Grown(t, m) /\ m.initial = t.initial
          /\ Tree(t) /\ n \notin Pool(t) =>
               /\ Tree(m)
               /\ \/ Pool(m) = Pool(t) /\ m.r # "ok"
                  \/ Pool(m) = Pool(t) \cup {n} /\ m.r = "ok"
          /\ m.r = "ok" => /\ page \notin DOMAIN t.pte /\ page \in DOMAIN m.pte
                           /\ m.pte[page] = [frame |-> n, perm |-> perm]
      <4>1. MapOK(t, page, n, perm, m)
        BY <2>1, MapMeans
      <4> HIDE DEF m
      <4> QED BY <4>1 DEF MapOK
    <3>f. m.r # "fail" \/ x.r = "fail"
      <4>1. w.r = "ok" => page \in UserPages /\ TableOf(page) \in DOMAIN w.tab
        BY <2>1, WalkMeans
      <4>2. m.r \in {w.r, "remap"} \/ m.r = "ok"
        <5>1. m = SetPte(w, page, n, perm)
          BY DEF MapPage
        <5> HIDE DEF w, m
        <5>2. SetPteOK(w, page, n, perm, SetPte(w, page, n, perm))
          BY <2>1, <2>5, <4>1, SetPteMeans
        <5> QED BY <5>1, <5>2 DEF SetPteOK
      <4> QED BY <2>7, <4>2
    <3> HIDE DEF m, w
    <3>3. Grown(x, m)
      BY <2>2, <3>2, GrownTwice
    <3>4. ASSUME Tree(x), m.r \in {"ok", "fail"}, x.r = "ok" PROVE Tree(m) /\ Pool(m) = Pool(x)
      BY <2>2, <2>4, <3>2, <3>4, <3>f
    <3>5. ASSUME Tree(x), m.r = "ok"
          PROVE  /\ page \notin DOMAIN x.pte /\ page \in DOMAIN m.pte /\ m.pte[page].perm = perm
                 /\ m.mem[m.pte[page].frame] = Filled(v)
      <4>1. /\ page \notin DOMAIN x.pte /\ page \in DOMAIN m.pte /\ m.pte[page].perm = perm
            /\ m.pte[page].frame = n
        BY <2>1, <3>2, <3>5
      <4>2. n \in Frames \ t.free
        BY <2>1
      <4>3. m.mem[n] = t.mem[n]
        BY <3>2, <4>2 DEF Grown
      <4> QED BY <2>2, <4>1, <4>3
    <3> QED BY <2>1, <3>1, <3>2, <3>3, <3>4, <3>5 DEF y, AllocateOK
  <2> QED BY <2>6, <2>7
<1> QED BY <1>1, <1>2

-----------------------------------------------------------------------------
(* vmm_allocate.                                                           *)

AllocateStep(x, page, perm, v) == IF x.r # "ok" THEN x ELSE AllocatePage(x, page, perm, v)

LEMMA AllocateStepType ==
  ASSUME NEW x \in Call, NEW page, NEW perm \in Perms, NEW v \in Bytes
  PROVE  AllocateStep(x, page, perm, v) \in Call
BY AllocateMeans DEF AllocateStep, AllocateOK

(* The loop goes through calls, one page at a time.                        *)
AllocateRunOK(x, first, n, perm, v, h) ==
  /\ h \in [0 .. n -> Call] /\ h[0] = x
  /\ \A k \in 1 .. n : h[k] = AllocateStep(h[k - 1], first + k - 1, perm, v)

LEMMA AllocateRun ==
  ASSUME NEW x \in Call, NEW first, NEW n \in Nat, NEW perm \in Perms, NEW v \in Bytes
  PROVE  AllocateRunOK(x, first, n, perm, v, AllocateUpTo(x, first, n, perm, v))
<1> DEFINE h == AllocateUpTo(x, first, n, perm, v)
           Step(f, k) == IF k = 0 THEN x
                         ELSE IF f[k - 1].r # "ok" THEN f[k - 1]
                              ELSE AllocatePage(f[k - 1], first + k - 1, perm, v)
           F == [c \in Call \X (1 .. n) |-> AllocateStep(c[1], first + c[2] - 1, perm, v)]
<1>1. F \in [Call \X (1 .. n) -> Call]
  BY AllocateStepType
<1>2. \A c \in Call, k \in 1 .. n : F[<<c, k>>] = AllocateStep(c, first + k - 1, perm, v)
  OBVIOUS
<1> HIDE DEF F
<1>r. PICK g : IsRun(g, Call, x, n, F)
  BY <1>1, LoopRuns
<1>3. /\ g \in [0 .. n -> Call] /\ g[0] = x
      /\ \A k \in 1 .. n : g[k] = F[<<g[k - 1], k>>]
  BY <1>r DEF IsRun
<1>4. g = [k \in 0 .. n |-> Step(g, k)]
  <2> SUFFICES ASSUME NEW k \in 0 .. n PROVE g[k] = Step(g, k)
    <3>1. g = [k \in 0 .. n |-> g[k]]
      BY <1>3
    <3> HIDE DEF Step
    <3> QED BY <3>1, Zenon
  <2>1. CASE k = 0
    BY <1>3, <2>1
  <2>2. CASE k # 0
    <3>1. k \in 1 .. n /\ g[k - 1] \in Call
      BY <1>3, <2>2
    <3>2. g[k] = AllocateStep(g[k - 1], first + k - 1, perm, v)
      BY <1>2, <1>3, <3>1
    <3> QED BY <2>2, <3>2 DEF AllocateStep
  <2> QED BY <2>1, <2>2
<1>5. h = [k \in 0 .. n |-> Step(h, k)]
  <2>1. h = CHOOSE f : f = [k \in 0 .. n |-> Step(f, k)]
    BY Zenon DEF AllocateUpTo
  <2> HIDE DEF Step, h
  <2> QED BY <1>4, <2>1, Zenon
<1>6. h[0] = x
  <2> HIDE DEF h
  <2>1. h[0] = Step(h, 0)
    <3> HIDE DEF Step
    <3> QED BY <1>5
  <2> QED BY <2>1
<1>7. ASSUME NEW k \in 1 .. n PROVE h[k] = AllocateStep(h[k - 1], first + k - 1, perm, v)
  <2> HIDE DEF h
  <2>1. h[k] = Step(h, k)
    <3> HIDE DEF Step
    <3> QED BY <1>5
  <2> QED BY <2>1 DEF AllocateStep
<1> HIDE DEF h
<1>8. h \in [0 .. n -> Call]
  <2> DEFINE T == {k \in 0 .. n : h[k] \in Call}
  <2>1. 0 \in T
    BY <1>6
  <2>2. ASSUME NEW k \in 1 .. n, k - 1 \in T PROVE k \in T
    <3>1. h[k - 1] \in Call
      BY <2>2
    <3>2. h[k] \in Call
      BY <1>7, <3>1, AllocateStepType
    <3> QED BY <3>2
  <2>3. T = 0 .. n
    <3> HIDE DEF T
    <3>1. T \in SUBSET (0 .. n)
      BY DEF T
    <3> QED BY <2>1, <2>2, <3>1, UpTo
  <2>4. \A k \in 0 .. n : h[k] \in Call
    BY <2>3
  <2> HIDE DEF Step
  <2> QED BY <1>5, <2>4
<1> QED BY <1>6, <1>7, <1>8 DEF h, AllocateRunOK

(* Pages first to first + n - 1 are mapped and filled with v, or the call  *)
(* failed and nothing is lost, or it panicked.                             *)
PagesFilled(y, first, k, perm, v) ==
  \A j \in 0 .. k - 1 : /\ first + j \in DOMAIN y.pte
                        /\ y.pte[first + j].perm = perm
                        /\ y.mem[y.pte[first + j].frame] = Filled(v)

PagesNew(x, first, k) == \A j \in 0 .. k - 1 : first + j \notin DOMAIN x.pte

AllocatedOK(x, first, n, perm, v, y) ==
  /\ y \in Call /\ y.initial = x.initial /\ Grown(x, y)
  /\ y.r \in {"ok", "fail"} => Tree(y) /\ Pool(y) = Pool(x)
  /\ y.r = "ok" => PagesFilled(y, first, n, perm, v) /\ PagesNew(x, first, n)

(* What is mapped and not free stays as it is.                             *)
LEMMA FilledStays ==
  ASSUME NEW x \in Call, NEW y, NEW first, NEW k, NEW perm, NEW v,
         PagesFilled(x, first, k, perm, v), Tree(x), Grown(x, y)
  PROVE  PagesFilled(y, first, k, perm, v)
<1> SUFFICES ASSUME NEW j \in 0 .. k - 1
             PROVE  /\ first + j \in DOMAIN y.pte
                    /\ y.pte[first + j].perm = perm
                    /\ y.mem[y.pte[first + j].frame] = Filled(v)
  BY DEF PagesFilled
<1>1. PICK q : q = first + j
  OBVIOUS
<1>2. q \in DOMAIN x.pte /\ x.pte[q].perm = perm /\ x.mem[x.pte[q].frame] = Filled(v)
  BY <1>1 DEF PagesFilled
<1>3. q \in DOMAIN y.pte /\ y.pte[q] = x.pte[q]
  BY <1>2 DEF Grown
<1>4. x.pte[q].frame \in Frames
  BY <1>2, CallFacts, EntryFacts
<1>5. x.pte[q].frame \notin x.free
  <2>1. x.pte[q].frame \in FramesOf(x.pte)
    BY <1>2 DEF FramesOf
  <2> QED BY <2>1 DEF Tree, TreeOK
<1>6. y.mem[x.pte[q].frame] = x.mem[x.pte[q].frame]
  BY <1>4, <1>5 DEF Grown
<1> QED BY <1>1, <1>2, <1>3, <1>6

LEMMA AllocatedMeans ==
  ASSUME NEW x \in Call, Tree(x), x.r = "ok", NEW first \in Int, NEW n \in Nat, NEW perm \in Perms,
         NEW v \in Bytes
  PROVE  AllocatedOK(x, first, n, perm, v, vmm_allocate(x, first, n, perm, v))
<1> DEFINE h == AllocateUpTo(x, first, n, perm, v)
           Good(k) == AllocatedOK(x, first, k, perm, v, h[k])
           T == {k \in 0 .. n : Good(k)}
<1>1. h \in [0 .. n -> Call] /\ h[0] = x
      /\ \A k \in 1 .. n : h[k] = AllocateStep(h[k - 1], first + k - 1, perm, v)
  <2>1. AllocateRunOK(x, first, n, perm, v, h)
    BY AllocateRun
  <2> HIDE DEF h
  <2> QED BY <2>1 DEF AllocateRunOK
<1>h. vmm_allocate(x, first, n, perm, v) = IF n = 0 THEN [x EXCEPT !.r = "size"] ELSE h[n]
  BY DEF vmm_allocate
<1> HIDE DEF h
<1>2. Good(0)
  <2>1. PagesFilled(x, first, 0, perm, v) /\ PagesNew(x, first, 0)
    BY DEF PagesFilled, PagesNew
  <2> QED BY <1>1, <2>1, GrownSelf DEF AllocatedOK
<1>3. ASSUME NEW k \in 1 .. n, Good(k - 1)
      PROVE  Good(k)
  <2>1. PICK c : c = h[k - 1]
    OBVIOUS
  <2>2. PICK y : y = h[k]
    OBVIOUS
  <2>3. /\ c \in Call /\ c.initial = x.initial /\ Grown(x, c)
        /\ c.r \in {"ok", "fail"} => Tree(c) /\ Pool(c) = Pool(x)
        /\ c.r = "ok" => PagesFilled(c, first, k - 1, perm, v) /\ PagesNew(x, first, k - 1)
    BY <1>3, <2>1 DEF AllocatedOK
  <2>4. y = AllocateStep(c, first + k - 1, perm, v)
    BY <1>1, <2>1, <2>2
  <2>5. CASE c.r # "ok"
    <3>1. y = c
      BY <2>4, <2>5 DEF AllocateStep
    <3> QED BY <2>2, <2>3, <2>5, <3>1 DEF AllocatedOK
  <2>6. CASE c.r = "ok"
    <3>1. y = AllocatePage(c, first + k - 1, perm, v)
      BY <2>4, <2>6 DEF AllocateStep
    <3>2. AllocateOK(c, first + k - 1, perm, v, y)
      BY <2>3, <3>1, AllocateMeans
    <3>3. Tree(c) /\ Pool(c) = Pool(x)
      BY <2>3, <2>6
    <3>4. /\ y \in Call /\ y.initial = x.initial /\ Grown(x, y) /\ Grown(c, y)
          /\ y.r \in {"ok", "fail"} => Tree(y) /\ Pool(y) = Pool(x)
      BY <2>3, <2>6, <3>2, <3>3, GrownTwice DEF AllocateOK
    <3>5. ASSUME y.r = "ok" PROVE PagesFilled(y, first, k, perm, v)
      <4>1. PagesFilled(y, first, k - 1, perm, v)
        BY <2>3, <2>6, <3>3, <3>4, FilledStays
      <4>2. PICK q : q = first + k - 1
        OBVIOUS
      <4>3. q \in DOMAIN y.pte /\ y.pte[q].perm = perm /\ y.mem[y.pte[q].frame] = Filled(v)
        BY <3>2, <3>3, <3>5, <4>2 DEF AllocateOK
      <4>4. \A j \in 0 .. k - 1 : j \in 0 .. (k - 1) - 1 \/ first + j = q
        BY <4>2
      <4> QED BY <4>1, <4>3, <4>4 DEF PagesFilled
    <3>6. ASSUME y.r = "ok" PROVE PagesNew(x, first, k)
      <4>1. PICK q : q = first + k - 1
        OBVIOUS
      <4>2. q \notin DOMAIN x.pte
        <5>1. q \notin DOMAIN c.pte
          BY <3>2, <3>3, <3>6, <4>1 DEF AllocateOK
        <5> QED BY <2>3, <5>1 DEF Grown
      <4>3. \A j \in 0 .. k - 1 : j \in 0 .. (k - 1) - 1 \/ first + j = q
        BY <4>1
      <4> QED BY <2>3, <2>6, <4>2, <4>3 DEF PagesNew
    <3> QED BY <2>2, <3>4, <3>5, <3>6 DEF AllocatedOK
  <2> QED BY <2>5, <2>6
<1>4. T = 0 .. n
  <2>1. 0 \in T /\ T \in SUBSET (0 .. n)
    BY <1>2
  <2>2. \A k \in 1 .. n : k - 1 \in T => k \in T
    <3> HIDE DEF Good
    <3> QED BY <1>3
  <2> HIDE DEF T
  <2> QED BY <2>1, <2>2, UpTo
<1>5. Good(n)
  <2> HIDE DEF Good
  <2>1. n \in T
    <3> HIDE DEF T
    <3> QED BY <1>4
  <2> QED BY <2>1
<1>6. CASE n # 0
  BY <1>5, <1>6, <1>h
<1>7. CASE n = 0
  <2> DEFINE y == [x EXCEPT !.r = "size"]
  <2>1. "size" \in Results
    BY DEF Results
  <2>2. y \in Call /\ y.r = "size" /\ y.initial = x.initial /\ Grown(x, y)
    BY <2>1, SetResult, GrownResult
  <2> HIDE DEF y
  <2>3. AllocatedOK(x, first, n, perm, v, y)
    BY <2>2 DEF AllocatedOK
  <2> QED BY <1>7, <1>h, <2>3 DEF y
<1> QED BY <1>6, <1>7

LEMMA AllocatedType ==
  ASSUME NEW x \in Call, NEW first, NEW n \in Nat, NEW perm \in Perms, NEW v \in Bytes
  PROVE  vmm_allocate(x, first, n, perm, v) \in Call
<1>1. AllocateUpTo(x, first, n, perm, v)[n] \in Call
  <2>1. AllocateRunOK(x, first, n, perm, v, AllocateUpTo(x, first, n, perm, v))
    BY AllocateRun
  <2>2. AllocateUpTo(x, first, n, perm, v) \in [0 .. n -> Call] /\ n \in 0 .. n
    BY <2>1 DEF AllocateRunOK
  <2> QED BY <2>2
<1>2. [x EXCEPT !.r = "size"] \in Call
  BY SetResult DEF Results
<1> QED BY <1>1, <1>2 DEF vmm_allocate

-----------------------------------------------------------------------------
(* vmm_map_pages.                                                          *)

MapStep(x, page, f, perm) == IF x.r # "ok" THEN x ELSE MapPage(x, page, f, perm)

LEMMA MapStepType ==
  ASSUME NEW x \in Call, NEW page, NEW f \in Frames, NEW perm \in Perms
  PROVE  MapStep(x, page, f, perm) \in Call
BY MapMeans DEF MapStep, MapOK

MapRunOK(x, first, frames, perm, h) ==
  /\ h \in [0 .. Len(frames) -> Call] /\ h[0] = x
  /\ \A k \in 1 .. Len(frames) : h[k] = MapStep(h[k - 1], first + k - 1, frames[k], perm)

LEMMA MapRun ==
  ASSUME NEW x \in Call, NEW first, NEW frames \in Seq(Frames), NEW perm \in Perms
  PROVE  MapRunOK(x, first, frames, perm, MapUpTo(x, first, frames, perm))
<1> DEFINE h == MapUpTo(x, first, frames, perm)
           n == Len(frames)
           Step(f, k) == IF k = 0 THEN x
                         ELSE IF f[k - 1].r # "ok" THEN f[k - 1]
                              ELSE MapPage(f[k - 1], first + k - 1, frames[k], perm)
           F == [c \in Call \X (1 .. n) |-> MapStep(c[1], first + c[2] - 1, frames[c[2]], perm)]
<1>0. n \in Nat /\ \A k \in 1 .. n : frames[k] \in Frames
  OBVIOUS
<1>5a. h = CHOOSE f : f = [k \in 0 .. n |-> Step(f, k)]
  BY Zenon DEF MapUpTo
<1> HIDE DEF n
<1>1. F \in [Call \X (1 .. n) -> Call]
  BY <1>0, MapStepType
<1>2. \A c \in Call, k \in 1 .. n : F[<<c, k>>] = MapStep(c, first + k - 1, frames[k], perm)
  OBVIOUS
<1> HIDE DEF F
<1>r. PICK g : IsRun(g, Call, x, n, F)
  BY <1>0, <1>1, LoopRuns
<1>3. /\ g \in [0 .. n -> Call] /\ g[0] = x
      /\ \A k \in 1 .. n : g[k] = F[<<g[k - 1], k>>]
  BY <1>r DEF IsRun
<1>4. g = [k \in 0 .. n |-> Step(g, k)]
  <2> SUFFICES ASSUME NEW k \in 0 .. n PROVE g[k] = Step(g, k)
    <3>1. g = [k \in 0 .. n |-> g[k]]
      BY <1>3
    <3> HIDE DEF Step
    <3> QED BY <3>1, Zenon
  <2>1. CASE k = 0
    BY <1>3, <2>1
  <2>2. CASE k # 0
    <3>1. k \in 1 .. n /\ g[k - 1] \in Call
      BY <1>0, <1>3, <2>2
    <3>2. g[k] = MapStep(g[k - 1], first + k - 1, frames[k], perm)
      BY <1>2, <1>3, <3>1
    <3> QED BY <2>2, <3>2 DEF MapStep
  <2> QED BY <2>1, <2>2
<1>5. h = [k \in 0 .. n |-> Step(h, k)]
  <2> HIDE DEF Step, h
  <2> QED BY <1>4, <1>5a, Zenon
<1>6. h[0] = x
  <2> HIDE DEF h
  <2>1. h[0] = Step(h, 0)
    <3> HIDE DEF Step
    <3> QED BY <1>0, <1>5
  <2> QED BY <2>1
<1>7. ASSUME NEW k \in 1 .. n PROVE h[k] = MapStep(h[k - 1], first + k - 1, frames[k], perm)
  <2> HIDE DEF h
  <2>1. h[k] = Step(h, k)
    <3> HIDE DEF Step
    <3> QED BY <1>0, <1>5
  <2> QED BY <2>1 DEF MapStep
<1> HIDE DEF h
<1>8. h \in [0 .. n -> Call]
  <2> DEFINE T == {k \in 0 .. n : h[k] \in Call}
  <2>1. 0 \in T
    BY <1>0, <1>6
  <2>2. ASSUME NEW k \in 1 .. n, k - 1 \in T PROVE k \in T
    <3>1. h[k - 1] \in Call /\ frames[k] \in Frames
      BY <1>0, <2>2
    <3>2. h[k] \in Call
      BY <1>7, <3>1, MapStepType
    <3> QED BY <3>2
  <2>3. T = 0 .. n
    <3> HIDE DEF T
    <3>1. T \in SUBSET (0 .. n)
      BY DEF T
    <3> QED BY <1>0, <2>1, <2>2, <3>1, UpTo
  <2>4. \A k \in 0 .. n : h[k] \in Call
    BY <2>3
  <2> HIDE DEF Step
  <2> QED BY <1>5, <2>4
<1> QED BY <1>6, <1>7, <1>8 DEF h, n, MapRunOK

(* What is not mapped: the free frames and the tables.                     *)
Base(x) == x.free \cup Range(x.tab)

(* Some of the frames are mapped, none of them twice.                      *)
MappedOK(x, new, y) ==
  /\ y \in Call /\ y.initial = x.initial /\ Grown(x, y)
  /\ Tree(y) /\ Base(y) = Base(x)
  /\ FramesOf(x.pte) \subseteq FramesOf(y.pte)
  /\ FramesOf(y.pte) \subseteq FramesOf(x.pte) \cup new

LEMMA MapStepMeans ==
  ASSUME NEW x \in Call, Tree(x), NEW page, NEW f \in Frames, NEW perm \in Perms, f \notin Pool(x)
  PROVE  MappedOK(x, {f}, MapStep(x, page, f, perm))
<1>1. CASE x.r # "ok"
  BY <1>1, GrownSelf DEF MapStep, MappedOK
<1>2. CASE x.r = "ok"
  <2>1. PICK y : y = MapPage(x, page, f, perm)
    OBVIOUS
  <2>2. MapOK(x, page, f, perm, y)
    BY <2>1, MapMeans
  <2>3. /\ y \in Call /\ Grown(x, y) /\ y.initial = x.initial /\ Tree(y)
        /\ \/ Pool(y) = Pool(x) /\ FramesOf(y.pte) = FramesOf(x.pte)
           \/ Pool(y) = Pool(x) \cup {f} /\ FramesOf(y.pte) = FramesOf(x.pte) \cup {f}
    BY <2>2 DEF MapOK
  <2>4. \A z : Tree(z) => Base(z) = Pool(z) \ FramesOf(z.pte)
    BY DEF Tree, TreeOK, Base, Pool
  <2>5. Base(y) = Pool(y) \ FramesOf(y.pte) /\ Base(x) = Pool(x) \ FramesOf(x.pte)
    BY <2>3, <2>4
  <2>6. Base(y) = Base(x)
    BY <2>3, <2>5
  <2>7. MappedOK(x, {f}, y)
    BY <2>3, <2>6 DEF MappedOK
  <2> QED BY <1>2, <2>1, <2>7 DEF MapStep
<1> QED BY <1>1, <1>2

LEMMA MappedMeans ==
  ASSUME NEW x \in Call, Tree(x), NEW first, NEW frames \in Seq(Frames), NEW perm \in Perms,
         \A i, j \in 1 .. Len(frames) : frames[i] = frames[j] => i = j,
         \A i \in 1 .. Len(frames) : frames[i] \notin Pool(x)
  PROVE  MappedOK(x, Range(frames), vmm_map_pages(x, first, frames, perm))
<1> DEFINE h == MapUpTo(x, first, frames, perm)
           n == Len(frames)
           Upto(k) == {frames[j] : j \in 1 .. k}
           Good(k) == MappedOK(x, Upto(k), h[k])
           T == {k \in 0 .. n : Good(k)}
<1>0. n \in Nat /\ \A k \in 1 .. n : frames[k] \in Frames
  OBVIOUS
<1>1. h \in [0 .. n -> Call] /\ h[0] = x
      /\ \A k \in 1 .. n : h[k] = MapStep(h[k - 1], first + k - 1, frames[k], perm)
  <2>1. MapRunOK(x, first, frames, perm, h)
    BY MapRun
  <2> HIDE DEF h
  <2> QED BY <2>1 DEF MapRunOK
<1>h. vmm_map_pages(x, first, frames, perm) = h[n]
  BY DEF vmm_map_pages
<1> HIDE DEF h
<1>2. Good(0)
  BY <1>1, GrownSelf DEF MappedOK
<1>3. ASSUME NEW k \in 1 .. n, Good(k - 1)
      PROVE  Good(k)
  <2>1. PICK c : c = h[k - 1]
    OBVIOUS
  <2>2. PICK y : y = h[k]
    OBVIOUS
  <2>3. PICK f \in Frames : f = frames[k]
    BY <1>0
  <2>4. PICK old : old = Upto(k - 1)
    OBVIOUS
  <2>5. f \notin old /\ f \notin Pool(x) /\ Upto(k) = old \cup {f}
    BY <1>0, <2>3, <2>4
  <2> HIDE DEF Upto
  <2>6. MappedOK(x, old, c)
    BY <1>3, <2>1, <2>4
  <2>7. f \notin Pool(c)
    <3>1. /\ Base(c) = Base(x) /\ FramesOf(c.pte) \subseteq FramesOf(x.pte) \cup old
      BY <2>6 DEF MappedOK
    <3>2. Pool(c) = Base(c) \cup FramesOf(c.pte) /\ Pool(x) = Base(x) \cup FramesOf(x.pte)
      BY DEF Pool, Base
    <3> QED BY <2>5, <3>1, <3>2
  <2>8. y = MapStep(c, first + k - 1, f, perm)
    BY <1>1, <2>1, <2>2, <2>3
  <2>9. c \in Call /\ Tree(c)
    BY <2>6 DEF MappedOK
  <2>10. MappedOK(c, {f}, y)
    BY <2>7, <2>8, <2>9, MapStepMeans
  <2>11. Grown(x, y)
    BY <2>6, <2>10, GrownTwice DEF MappedOK
  <2>12. MappedOK(x, old \cup {f}, y)
    BY <2>6, <2>10, <2>11 DEF MappedOK
  <2> QED BY <2>2, <2>5, <2>12
<1>4. T = 0 .. n
  <2>1. 0 \in T /\ T \in SUBSET (0 .. n)
    BY <1>0, <1>2
  <2>2. \A k \in 1 .. n : k - 1 \in T => k \in T
    <3> HIDE DEF Good
    <3> QED BY <1>0, <1>3
  <2> HIDE DEF T, n
  <2> QED BY <1>0, <2>1, <2>2, UpTo
<1>5. Good(n)
  <2> HIDE DEF Good
  <2>1. n \in T
    <3> HIDE DEF T
    <3> QED BY <1>0, <1>4
  <2> QED BY <2>1
<1>6. Upto(n) = Range(frames)
  BY DEF Range
<1> QED BY <1>5, <1>6, <1>h

-----------------------------------------------------------------------------
(* kalloc_pages.                                                           *)

(* Frames that were free and are none of them the same, or none at all.    *)
TakenOK(x, n, y, s) ==
  /\ y \in Call /\ s \in Seq(Frames)
  /\ \/ s = <<>> /\ y = x
     \/ /\ Len(s) = n
        /\ \A i, j \in 1 .. Len(s) : s[i] = s[j] => i = j
        /\ Range(s) \subseteq x.free /\ y.free = x.free \ Range(s)
        /\ y.root = x.root /\ y.kcopy = x.kcopy /\ y.tab = x.tab /\ y.pte = x.pte
        /\ y.stray = x.stray /\ y.initial = x.initial /\ y.r = x.r
        /\ \A f \in Frames \ x.free : y.mem[f] = x.mem[f]

WithoutOK(x, frames, y) ==
  /\ y \in Call /\ y.free = x.free \ frames
  /\ y.root = x.root /\ y.kcopy = x.kcopy /\ y.tab = x.tab /\ y.pte = x.pte
  /\ y.stray = x.stray /\ y.initial = x.initial /\ y.r = x.r
  /\ \A f \in Frames \ x.free : y.mem[f] = x.mem[f]

LEMMA WithoutMeans ==
  ASSUME NEW x \in Call, NEW frames \in SUBSET x.free, NEW n \in Nat
  PROVE  WithoutOK(x, frames, Without(x, frames, n))
<1>1. PICK m : m = [f \in Frames |-> IF f \in frames THEN Filled("junk") ELSE x.mem[f]]
  OBVIOUS
<1>2. m \in Memory
  <2>1. Filled("junk") \in [Offsets -> Bytes]
    BY DEF Filled, Bytes
  <2>2. x.mem \in Memory
    BY CallFacts
  <2> QED BY <1>1, <2>1, <2>2 DEF Memory
<1>3. PICK a, b : a = x.free \ frames /\ b = x.left - n
  OBVIOUS
<1>4. a \in SUBSET Frames /\ b \in Int
  BY <1>3, CallFacts
<1>5. Without(x, frames, n) = [x EXCEPT !.free = a, !.left = b, !.mem = m]
  BY <1>1, <1>3 DEF Without, Filled, Call
<1>6. PICK y : y = [x EXCEPT !.free = a, !.left = b, !.mem = m]
  OBVIOUS
<1>7. /\ y \in Call
      /\ y.free = a /\ y.mem = m /\ y.r = x.r /\ y.root = x.root /\ y.kcopy = x.kcopy
      /\ y.tab = x.tab /\ y.pte = x.pte /\ y.stray = x.stray /\ y.initial = x.initial
  BY <1>2, <1>4, <1>6 DEF Call
<1>8. \A f \in Frames \ x.free : m[f] = x.mem[f]
  BY <1>1
<1>9. Without(x, frames, n) = y
  BY <1>5, <1>6
<1>10. WithoutOK(x, frames, y)
  BY <1>3, <1>7, <1>8 DEF WithoutOK
<1> QED BY <1>9, <1>10

LEMMA TakenMeans ==
  ASSUME NEW x \in Call, NEW n \in Nat \ {0}
  PROVE  TakenOK(x, n, TakePages(x, n).x, TakePages(x, n).s)
<1>1. CASE x.left < n \/ Cardinality(x.free) < n
  <2>1. TakePages(x, n) = [x |-> x, s |-> <<>>]
    BY <1>1 DEF TakePages
  <2>2. TakePages(x, n).x = x /\ TakePages(x, n).s = <<>>
    BY <2>1
  <2> QED BY <2>2 DEF TakenOK
<1>2. CASE ~(x.left < n \/ Cardinality(x.free) < n)
  <2>1. IsFiniteSet(x.free)
    BY CallFacts, SpaceAssumption, FS_Subset
  <2>2. PICK c \in Nat : c = Cardinality(x.free) /\ ExistsBijection(1 .. c, x.free)
    BY <2>1, FS_CardinalityType
  <2>3. PICK b \in [1 .. c -> x.free] : IsInjective(b)
    BY <2>2 DEF ExistsBijection, Bijection, Injection
  <2>4. n <= c
    BY <1>2, <2>2
  <2> DEFINE g == [i \in 1 .. n |-> b[i]]
  <2>5. g \in [1 .. n -> x.free] /\ IsInjective(g)
    BY <2>3, <2>4 DEF IsInjective
  <2> HIDE DEF g
  <2>6. PICK s : s = CHOOSE t \in [1 .. n -> x.free] : IsInjective(t)
    OBVIOUS
  <2>7. s \in [1 .. n -> x.free] /\ IsInjective(s)
    BY <2>5, <2>6
  <2>8. TakePages(x, n) = [x |-> Without(x, Range(s), n), s |-> s]
    BY <1>2, <2>6 DEF TakePages
  <2>9. Range(s) \subseteq x.free /\ x.free \subseteq Frames
    BY <2>7, CallFacts DEF Range
  <2>10. s \in Seq(Frames) /\ Len(s) = n
    BY <2>7, <2>9
  <2>11. \A i, j \in 1 .. Len(s) : s[i] = s[j] => i = j
    BY <2>7, <2>10 DEF IsInjective
  <2>12. PICK y : y = Without(x, Range(s), n)
    OBVIOUS
  <2>13. TakenOK(x, n, y, s)
    <3>1. PICK frames \in SUBSET x.free : frames = Range(s)
      BY <2>9
    <3>2. y = Without(x, frames, n) /\ n \in Nat
      BY <2>12, <3>1
    <3>3. /\ y \in Call /\ y.free = x.free \ frames
          /\ y.root = x.root /\ y.kcopy = x.kcopy /\ y.tab = x.tab /\ y.pte = x.pte
          /\ y.stray = x.stray /\ y.initial = x.initial /\ y.r = x.r
          /\ \A f \in Frames \ x.free : y.mem[f] = x.mem[f]
      <4>1. WithoutOK(x, frames, y)
        BY <3>2, WithoutMeans
      <4> QED BY <4>1 DEF WithoutOK
    <3> QED BY <2>9, <2>10, <2>11, <3>1, <3>3 DEF TakenOK
  <2> QED BY <2>8, <2>12, <2>13
<1> QED BY <1>1, <1>2


-----------------------------------------------------------------------------
(* copy_pagetable.                                                         *)

(* An address space that is about to be made.                              *)
Fresh(b) ==
  /\ b \in Call /\ b.r = "ok" /\ b.root = 0 /\ b.kcopy = {} /\ b.stray = {} /\ b.initial = 0
  /\ b.tab = <<>> /\ b.pte = <<>>

(* The root and the copies made so far were free, each is another frame,   *)
(* unless the copy failed.                                                 *)
CopiedOK(b, y) ==
  /\ y \in Call /\ y.tab = <<>> /\ y.pte = <<>> /\ y.stray = {} /\ y.initial = 0
  /\ y.r \in {"ok", "fail"} /\ y.root \in Frames \cup {0}
  /\ \A f \in Frames \ b.free : y.mem[f] = b.mem[f]
  /\ y.free \subseteq b.free
  /\ y.r = "ok" =>
       /\ y.root \in Frames /\ y.root \notin y.kcopy /\ y.root \notin y.free
       /\ y.kcopy \cap y.free = {}
       /\ b.free = {y.root} \cup y.kcopy \cup y.free

LEMMA SetRoot ==
  ASSUME NEW x \in Call, NEW root \in Nat
  PROVE  /\ [x EXCEPT !.root = root] \in Call
         /\ [x EXCEPT !.root = root].root = root
         /\ [x EXCEPT !.root = root].free = x.free /\ [x EXCEPT !.root = root].mem = x.mem
         /\ [x EXCEPT !.root = root].r = x.r /\ [x EXCEPT !.root = root].kcopy = x.kcopy
         /\ [x EXCEPT !.root = root].tab = x.tab /\ [x EXCEPT !.root = root].pte = x.pte
         /\ [x EXCEPT !.root = root].stray = x.stray /\ [x EXCEPT !.root = root].initial = x.initial
BY DEF Call

LEMMA SetCopies ==
  ASSUME NEW x \in Call, NEW kcopy \in SUBSET Frames
  PROVE  /\ [x EXCEPT !.kcopy = kcopy] \in Call
         /\ [x EXCEPT !.kcopy = kcopy].kcopy = kcopy
         /\ [x EXCEPT !.kcopy = kcopy].free = x.free /\ [x EXCEPT !.kcopy = kcopy].mem = x.mem
         /\ [x EXCEPT !.kcopy = kcopy].r = x.r /\ [x EXCEPT !.kcopy = kcopy].root = x.root
         /\ [x EXCEPT !.kcopy = kcopy].tab = x.tab /\ [x EXCEPT !.kcopy = kcopy].pte = x.pte
         /\ [x EXCEPT !.kcopy = kcopy].stray = x.stray /\ [x EXCEPT !.kcopy = kcopy].initial = x.initial
BY DEF Call

LEMMA FailMeans ==
  ASSUME NEW x \in Call
  PROVE  /\ Fail(x) \in Call /\ Fail(x).r = "fail"
         /\ Fail(x).free = x.free /\ Fail(x).mem = x.mem /\ Fail(x).left = x.left
         /\ Fail(x).root = x.root /\ Fail(x).kcopy = x.kcopy /\ Fail(x).tab = x.tab
         /\ Fail(x).pte = x.pte /\ Fail(x).stray = x.stray /\ Fail(x).initial = x.initial
<1>1. "fail" \in Results
  BY DEF Results
<1> QED BY <1>1, SetResult DEF Fail

LEMMA RootMeans ==
  ASSUME NEW b, Fresh(b)
  PROVE  CopiedOK(b, NewRoot(b))
<1> DEFINE y == NewRoot(b)
<1>0. /\ b \in Call /\ b.r = "ok" /\ b.root = 0 /\ b.kcopy = {} /\ b.stray = {} /\ b.initial = 0
      /\ b.tab = <<>> /\ b.pte = <<>>
  BY DEF Fresh
<1>1. CASE ~Granted(b)
  <2>1. y = Fail(b)
    BY <1>1 DEF NewRoot
  <2> HIDE DEF y
  <2>2. /\ y \in Call /\ y.r = "fail" /\ y.free = b.free /\ y.mem = b.mem /\ y.root = b.root
        /\ y.tab = b.tab /\ y.pte = b.pte /\ y.stray = b.stray /\ y.initial = b.initial
    BY <1>0, <2>1, FailMeans
  <2>3. CopiedOK(b, y)
    BY <1>0, <2>2 DEF CopiedOK
  <2> QED BY <2>3 DEF y
<1>2. CASE Granted(b)
  <2> DEFINE n == NewFrame(b)
             t == Take(b, "zero")
  <2>1. b.free # {} /\ "zero" \in Bytes
    BY <1>2 DEF Granted, Bytes
  <2>2. /\ t \in Call /\ n \in b.free /\ n \in Frames /\ t.free = b.free \ {n} /\ t.r = b.r
        /\ t.root = b.root /\ t.kcopy = b.kcopy /\ t.tab = b.tab /\ t.pte = b.pte
        /\ t.stray = b.stray /\ t.initial = b.initial
    BY <1>0, <2>1, TakeMeans
  <2>3. \A f \in Frames \ b.free : t.mem[f] = b.mem[f]
    <3>1. Grown(b, t)
      BY <1>0, <2>1, TakeGrown
    <3> QED BY <3>1 DEF Grown
  <2>4. y = [t EXCEPT !.root = n]
    BY <1>2 DEF NewRoot
  <2>5. n \in Nat
    BY <2>2, SpaceAssumption
  <2> HIDE DEF n, t, y
  <2>6. /\ y \in Call /\ y.root = n /\ y.free = t.free /\ y.mem = t.mem /\ y.r = t.r
        /\ y.kcopy = t.kcopy /\ y.tab = t.tab /\ y.pte = t.pte /\ y.stray = t.stray
        /\ y.initial = t.initial
    BY <2>2, <2>4, <2>5, SetRoot
  <2>7. CopiedOK(b, y)
    BY <1>0, <2>2, <2>3, <2>6 DEF CopiedOK
  <2> QED BY <2>7 DEF y
<1> QED BY <1>1, <1>2

LEMMA CopyMeans ==
  ASSUME NEW b \in Call, NEW x, CopiedOK(b, x)
  PROVE  CopiedOK(b, CopyTable(x))
<1> DEFINE y == CopyTable(x)
<1>0. /\ x \in Call /\ x.tab = <<>> /\ x.pte = <<>> /\ x.stray = {} /\ x.initial = 0
      /\ x.r \in {"ok", "fail"} /\ x.root \in Frames \cup {0}
      /\ \A f \in Frames \ b.free : x.mem[f] = b.mem[f]
      /\ x.free \subseteq b.free
      /\ x.r = "ok" =>
           /\ x.root \in Frames /\ x.root \notin x.kcopy /\ x.root \notin x.free
           /\ x.kcopy \cap x.free = {}
           /\ b.free = {x.root} \cup x.kcopy \cup x.free
  BY DEF CopiedOK
<1>1. CASE x.r # "ok" \/ ~Granted(x)
  <2>1. y = Fail(x)
    BY <1>1 DEF CopyTable
  <2> HIDE DEF y
  <2>2. /\ y \in Call /\ y.r = "fail" /\ y.free = x.free /\ y.mem = x.mem /\ y.root = x.root
        /\ y.tab = x.tab /\ y.pte = x.pte /\ y.stray = x.stray /\ y.initial = x.initial
    BY <1>0, <2>1, FailMeans
  <2>3. CopiedOK(b, y)
    BY <1>0, <2>2 DEF CopiedOK
  <2> QED BY <2>3 DEF y
<1>2. CASE ~(x.r # "ok" \/ ~Granted(x))
  <2> DEFINE n == NewFrame(x)
             t == Take(x, "zero")
             k == x.kcopy \cup {n}
  <2>1. x.free # {} /\ "zero" \in Bytes
    BY <1>2 DEF Granted, Bytes
  <2>2. /\ t \in Call /\ n \in x.free /\ n \in Frames /\ t.free = x.free \ {n} /\ t.r = x.r
        /\ t.root = x.root /\ t.kcopy = x.kcopy /\ t.tab = x.tab /\ t.pte = x.pte
        /\ t.stray = x.stray /\ t.initial = x.initial
    BY <1>0, <2>1, TakeMeans
  <2>3. \A f \in Frames \ x.free : t.mem[f] = x.mem[f]
    <3>1. Grown(x, t)
      BY <1>0, <2>1, TakeGrown
    <3> QED BY <3>1 DEF Grown
  <2>4. y = [t EXCEPT !.kcopy = k]
    <3>1. y = [t EXCEPT !.kcopy = @ \cup {n}]
      BY <1>2 DEF CopyTable
    <3> HIDE DEF y, t, n
    <3> QED BY <2>2, <3>1 DEF Call
  <2>5. k \in SUBSET Frames
    BY <1>0, <2>2, CallFacts
  <2>k. k = x.kcopy \cup {n}
    OBVIOUS
  <2> HIDE DEF n, t, y, k
  <2>6. /\ y \in Call /\ y.kcopy = k /\ y.free = t.free /\ y.mem = t.mem /\ y.r = t.r
        /\ y.root = t.root /\ y.tab = t.tab /\ y.pte = t.pte /\ y.stray = t.stray
        /\ y.initial = t.initial
    BY <2>2, <2>4, <2>5, SetCopies
  <2>7. \A f \in Frames \ b.free : y.mem[f] = b.mem[f]
    BY <1>0, <2>3, <2>6
  <2>8. CopiedOK(b, y)
    BY <1>0, <1>2, <2>2, <2>k, <2>6, <2>7 DEF CopiedOK
  <2> QED BY <2>8 DEF y
<1> QED BY <1>1, <1>2


LEMMA CopiedMeans ==
  ASSUME NEW b, Fresh(b)
  PROVE  CopiedOK(b, copy_pagetable(b))
<1> DEFINE h == CopyUpTo(b)
           n == KERNEL_TABLES
           S == {c \in Call : CopiedOK(b, c)}
           Step(f, k) == IF k = 0 THEN NewRoot(b) ELSE CopyTable(f[k - 1])
           F == [c \in S \X (1 .. n) |-> CopyTable(c[1])]
<1>0. n \in Nat
  BY SpaceAssumption
<1>c. copy_pagetable(b) = h[n]
  BY DEF copy_pagetable
<1>5a. h = CHOOSE f : f = [k \in 0 .. n |-> Step(f, k)]
  BY Zenon DEF CopyUpTo
<1> HIDE DEF n
<1>s. /\ NewRoot(b) \in S
      /\ \A c \in S : CopyTable(c) \in S
      /\ \A c \in S : CopiedOK(b, c)
  <2>1. CopiedOK(b, NewRoot(b))
    BY RootMeans
  <2>2. NewRoot(b) \in Call
    BY <2>1 DEF CopiedOK
  <2>3. ASSUME NEW c \in S PROVE CopyTable(c) \in S
    <3>1. CopiedOK(b, CopyTable(c))
      BY <2>3, CopyMeans DEF Fresh
    <3>2. CopyTable(c) \in Call
      BY <3>1 DEF CopiedOK
    <3> QED BY <3>1, <3>2
  <2> QED BY <2>1, <2>2, <2>3
<1> HIDE DEF S
<1>1. F \in [S \X (1 .. n) -> S]
  BY <1>s
<1>2. \A c \in S, k \in 1 .. n : F[<<c, k>>] = CopyTable(c)
  OBVIOUS
<1> HIDE DEF F
<1>r. PICK g : IsRun(g, S, NewRoot(b), n, F)
  BY <1>0, <1>1, <1>s, LoopRuns
<1>3. /\ g \in [0 .. n -> S] /\ g[0] = NewRoot(b)
      /\ \A k \in 1 .. n : g[k] = F[<<g[k - 1], k>>]
  BY <1>r DEF IsRun
<1>4. g = [k \in 0 .. n |-> Step(g, k)]
  <2> SUFFICES ASSUME NEW k \in 0 .. n PROVE g[k] = Step(g, k)
    <3>1. g = [k \in 0 .. n |-> g[k]]
      BY <1>3
    <3> HIDE DEF Step
    <3> QED BY <3>1, Zenon
  <2>1. CASE k = 0
    BY <1>3, <2>1
  <2>2. CASE k # 0
    <3>1. k \in 1 .. n /\ g[k - 1] \in S
      BY <1>0, <1>3, <2>2
    <3>2. g[k] = CopyTable(g[k - 1])
      BY <1>2, <1>3, <3>1
    <3> QED BY <2>2, <3>2
  <2> QED BY <2>1, <2>2
<1>5. h = [k \in 0 .. n |-> Step(h, k)]
  <2> HIDE DEF Step, h
  <2> QED BY <1>4, <1>5a, Zenon
<1>6. h[0] = NewRoot(b) /\ \A k \in 1 .. n : h[k] = CopyTable(h[k - 1])
  <2> HIDE DEF h
  <2>1. \A k \in 0 .. n : h[k] = Step(h, k)
    <3> HIDE DEF Step
    <3> QED BY <1>0, <1>5
  <2>2. h[0] = NewRoot(b)
    BY <1>0, <2>1
  <2>3. ASSUME NEW k \in 1 .. n PROVE h[k] = CopyTable(h[k - 1])
    BY <1>0, <2>1
  <2> QED BY <2>2, <2>3
<1> HIDE DEF h
<1> DEFINE T == {k \in 0 .. n : h[k] \in S}
<1>7. 0 \in T
  BY <1>0, <1>6, <1>s
<1>8. ASSUME NEW k \in 1 .. n, k - 1 \in T PROVE k \in T
  <2>1. h[k - 1] \in S
    BY <1>8
  <2>2. h[k] \in S
    BY <1>6, <1>s, <2>1
  <2> QED BY <2>2
<1>9. n \in T
  <2>1. T \in SUBSET (0 .. n)
    OBVIOUS
  <2> HIDE DEF T
  <2>2. T = 0 .. n
    BY <1>0, <1>7, <1>8, <2>1, UpTo
  <2> QED BY <1>0, <2>2
<1> QED BY <1>9, <1>c, <1>s


-----------------------------------------------------------------------------
(* vmm_user_pagetable_new.                                                 *)

(* The frames that were free are the root, the copies, stacks without an   *)
(* entry, or in the tree or still free; or the call has failed.            *)
MadeOK(b, t) ==
  /\ t \in Call /\ t.r \in {"ok", "fail"} /\ t.root \in Frames \cup {0} /\ t.initial = 0
  /\ \A f \in Frames \ b.free : t.mem[f] = b.mem[f]
  /\ t.r = "ok" =>
       /\ Tree(t) /\ t.root \in Frames
       /\ t.root \notin t.kcopy /\ t.root \notin t.stray /\ t.root \notin Pool(t)
       /\ t.kcopy \cap t.stray = {} /\ t.kcopy \cap Pool(t) = {} /\ t.stray \cap Pool(t) = {}
       /\ b.free = {t.root} \cup t.kcopy \cup t.stray \cup Pool(t)

(* A call that starts over with frames that are not in a tree yet.         *)
LEMMA EmptyTree ==
  ASSUME NEW x, x.tab = <<>>, x.pte = <<>>
  PROVE  Tree(x) /\ Base(x) = x.free /\ FramesOf(x.pte) = {} /\ Pool(x) = x.free
<1>1. DOMAIN x.tab = {} /\ DOMAIN x.pte = {}
  OBVIOUS
<1>2. Range(x.tab) = {} /\ FramesOf(x.pte) = {}
  BY <1>1 DEF Range, FramesOf
<1> QED BY <1>1, <1>2 DEF Tree, TreeOK, Base, Pool

LEMMA MapAgain ==
  ASSUME NEW x \in Call, Tree(x), NEW first, NEW frames \in Seq(Frames), NEW perm \in Perms,
         \A i, j \in 1 .. Len(frames) : frames[i] = frames[j] => i = j,
         Range(frames) \cap Pool(x) = {}
  PROVE  MappedOK(x, Range(frames), vmm_map_pages([x EXCEPT !.r = "ok"], first, frames, perm))
<1> DEFINE z == [x EXCEPT !.r = "ok"]
<1>0. "ok" \in Results
  BY DEF Results
<1>1. /\ z \in Call /\ Grown(x, z) /\ Pool(z) = Pool(x) /\ Tree(z) /\ z.initial = x.initial
      /\ z.free = x.free /\ z.tab = x.tab /\ z.pte = x.pte
  BY <1>0, SetResult, GrownResult
<1> HIDE DEF z
<1>2. \A k \in 1 .. Len(frames) : frames[k] \notin Pool(z)
  BY <1>1 DEF Range
<1>3. PICK y : y = vmm_map_pages(z, first, frames, perm)
  OBVIOUS
<1>4. MappedOK(z, Range(frames), y)
  BY <1>1, <1>2, <1>3, MappedMeans
<1>5. Grown(x, y)
  BY <1>1, <1>4, GrownTwice DEF MappedOK
<1>6. Base(z) = Base(x)
  BY <1>1 DEF Base
<1>7. MappedOK(x, Range(frames), y)
  BY <1>1, <1>4, <1>5, <1>6 DEF MappedOK
<1> QED BY <1>3, <1>7 DEF z

LEMMA SetStray ==
  ASSUME NEW x \in Call, NEW stray \in SUBSET Frames
  PROVE  /\ [x EXCEPT !.r = "ok", !.stray = stray] \in Call
         /\ [x EXCEPT !.r = "ok", !.stray = stray].stray = stray
         /\ [x EXCEPT !.r = "ok", !.stray = stray].r = "ok"
         /\ [x EXCEPT !.r = "ok", !.stray = stray].free = x.free
         /\ [x EXCEPT !.r = "ok", !.stray = stray].mem = x.mem
         /\ [x EXCEPT !.r = "ok", !.stray = stray].root = x.root
         /\ [x EXCEPT !.r = "ok", !.stray = stray].kcopy = x.kcopy
         /\ [x EXCEPT !.r = "ok", !.stray = stray].tab = x.tab
         /\ [x EXCEPT !.r = "ok", !.stray = stray].pte = x.pte
         /\ [x EXCEPT !.r = "ok", !.stray = stray].initial = x.initial
<1>1. "ok" \in Results
  BY DEF Results
<1> QED BY <1>1 DEF Call

LEMMA MadeMeans ==
  ASSUME NEW b, Fresh(b)
  PROVE  MadeOK(b, vmm_user_pagetable_new(b))
<1> DEFINE c == copy_pagetable(b)
           u == TakePages(c, USER_STACK_PAGES)
           i == TakePages(u.x, 1)
           s == TakePages(i.x, 1)
           m1 == vmm_map_pages(s.x, USER_STACK_BOTTOM, u.s, UserRW)
           m2 == vmm_map_pages([m1 EXCEPT !.r = "ok"], INTSTACK_BOTTOM, i.s, KernelRW)
           m3 == vmm_map_pages([m2 EXCEPT !.r = "ok"], SYSCALLSTACK_BOTTOM, s.s, KernelRW)
           stray == (Range(u.s) \cup Range(i.s) \cup Range(s.s)) \ Leaves(m3)
           y == vmm_user_pagetable_new(b)
<1>0. CopiedOK(b, c)
  BY CopiedMeans
<1>1. TakenOK(c, USER_STACK_PAGES, u.x, u.s)
  BY <1>0, SpaceAssumption, TakenMeans DEF CopiedOK
<1>2. TakenOK(u.x, 1, i.x, i.s)
  <2>1. u.x \in Call /\ 1 \in Nat \ {0}
    <3> HIDE DEF u, c
    <3> QED BY <1>1 DEF TakenOK
  <2> HIDE DEF u
  <2> QED BY <2>1, TakenMeans
<1>3. TakenOK(i.x, 1, s.x, s.s)
  <2>1. i.x \in Call /\ 1 \in Nat \ {0}
    <3> HIDE DEF u, i
    <3> QED BY <1>2 DEF TakenOK
  <2> HIDE DEF i
  <2> QED BY <2>1, TakenMeans
<1>4. y = IF c.r # "ok" \/ u.s = <<>> \/ i.s = <<>> \/ s.s = <<>> THEN Fail(c)
          ELSE [m3 EXCEPT !.r = "ok", !.stray = stray]
  BY DEF vmm_user_pagetable_new
<1>5. CASE c.r # "ok" \/ u.s = <<>> \/ i.s = <<>> \/ s.s = <<>>
  <2>1. y = Fail(c)
    BY <1>4, <1>5
  <2> HIDE DEF y, c, u, i, s
  <2>2. /\ y \in Call /\ y.r = "fail" /\ y.root = c.root /\ y.mem = c.mem /\ y.initial = c.initial
    BY <1>0, <2>1, FailMeans DEF CopiedOK
  <2>3. MadeOK(b, y)
    BY <1>0, <2>2 DEF CopiedOK, MadeOK
  <2> QED BY <2>3 DEF y
<1>6. CASE ~(c.r # "ok" \/ u.s = <<>> \/ i.s = <<>> \/ s.s = <<>>)
  <2>1. y = [m3 EXCEPT !.r = "ok", !.stray = stray]
    BY <1>4, <1>6
  <2>2. UserRW \in Perms /\ KernelRW \in Perms
    BY DEF UserRW, KernelRW, Perms
  <2>m1. m1 = vmm_map_pages(s.x, USER_STACK_BOTTOM, u.s, UserRW)
    OBVIOUS
  <2>m2. m2 = vmm_map_pages([m1 EXCEPT !.r = "ok"], INTSTACK_BOTTOM, i.s, KernelRW)
    OBVIOUS
  <2>m3. m3 = vmm_map_pages([m2 EXCEPT !.r = "ok"], SYSCALLSTACK_BOTTOM, s.s, KernelRW)
    OBVIOUS
  <2>m4. stray = (Range(u.s) \cup Range(i.s) \cup Range(s.s)) \ Leaves(m3)
    OBVIOUS
  <2> HIDE DEF c, m1, m2, m3, y, u, i, s, stray
  <2>3. PICK cu, ci, cs, U, I, W :
             cu = u.x /\ ci = i.x /\ cs = s.x /\ U = Range(u.s) /\ I = Range(i.s) /\ W = Range(s.s)
    OBVIOUS
  <2>4. /\ cu \in Call /\ u.s \in Seq(Frames) /\ U \subseteq c.free /\ cu.free = c.free \ U
        /\ \A j, k \in 1 .. Len(u.s) : u.s[j] = u.s[k] => j = k
        /\ cu.root = c.root /\ cu.kcopy = c.kcopy /\ cu.tab = c.tab /\ cu.pte = c.pte
        /\ cu.stray = c.stray /\ cu.initial = c.initial
        /\ \A f \in Frames \ c.free : cu.mem[f] = c.mem[f]
    BY <1>1, <1>6, <2>3 DEF TakenOK
  <2>5. /\ ci \in Call /\ i.s \in Seq(Frames) /\ I \subseteq cu.free /\ ci.free = cu.free \ I
        /\ \A j, k \in 1 .. Len(i.s) : i.s[j] = i.s[k] => j = k
        /\ ci.root = cu.root /\ ci.kcopy = cu.kcopy /\ ci.tab = cu.tab /\ ci.pte = cu.pte
        /\ ci.stray = cu.stray /\ ci.initial = cu.initial
        /\ \A f \in Frames \ cu.free : ci.mem[f] = cu.mem[f]
    BY <1>2, <1>6, <2>3 DEF TakenOK
  <2>6. /\ cs \in Call /\ s.s \in Seq(Frames) /\ W \subseteq ci.free /\ cs.free = ci.free \ W
        /\ \A j, k \in 1 .. Len(s.s) : s.s[j] = s.s[k] => j = k
        /\ cs.root = ci.root /\ cs.kcopy = ci.kcopy /\ cs.tab = ci.tab /\ cs.pte = ci.pte
        /\ cs.stray = ci.stray /\ cs.initial = ci.initial
        /\ \A f \in Frames \ ci.free : cs.mem[f] = ci.mem[f]
    BY <1>3, <1>6, <2>3 DEF TakenOK
  <2>7. /\ c \in Call /\ c.tab = <<>> /\ c.pte = <<>> /\ c.initial = 0 /\ c.free \subseteq b.free
        /\ \A f \in Frames \ b.free : c.mem[f] = b.mem[f]
        /\ c.root \in Frames /\ c.root \notin c.kcopy /\ c.root \notin c.free
        /\ c.kcopy \cap c.free = {}
        /\ b.free = {c.root} \cup c.kcopy \cup c.free
    BY <1>0, <1>6 DEF CopiedOK
  <2>8. Tree(cs) /\ Base(cs) = cs.free /\ FramesOf(cs.pte) = {} /\ Pool(cs) = cs.free
    <3>1. cs.tab = <<>> /\ cs.pte = <<>>
      BY <2>4, <2>5, <2>6, <2>7
    <3> QED BY <3>1, EmptyTree
  <2>9. U \cap Pool(cs) = {}
    BY <2>4, <2>5, <2>6, <2>8
  <2>10. MappedOK(cs, U, m1)
    <3>1. \A k \in 1 .. Len(u.s) : u.s[k] \notin Pool(cs)
      BY <2>3, <2>4, <2>9 DEF Range
    <3> QED BY <2>2, <2>3, <2>4, <2>6, <2>8, <2>m1, <3>1, MappedMeans
  <2>11. /\ m1 \in Call /\ Tree(m1) /\ Base(m1) = Base(cs) /\ Grown(cs, m1)
         /\ m1.initial = cs.initial /\ FramesOf(m1.pte) \subseteq U
    BY <2>8, <2>10 DEF MappedOK
  <2>p. \A z : Pool(z) = Base(z) \cup FramesOf(z.pte)
    BY DEF Pool, Base
  <2>12. I \cap Pool(m1) = {}
    BY <2>4, <2>5, <2>6, <2>8, <2>11, <2>p
  <2>13. MappedOK(m1, I, m2)
    BY <2>2, <2>3, <2>5, <2>11, <2>12, <2>m2, MapAgain
  <2>14. /\ m2 \in Call /\ Tree(m2) /\ Base(m2) = Base(cs) /\ Grown(m1, m2)
         /\ m2.initial = cs.initial /\ FramesOf(m2.pte) \subseteq U \cup I
    BY <2>11, <2>13 DEF MappedOK
  <2>15. W \cap Pool(m2) = {}
    BY <2>4, <2>5, <2>6, <2>8, <2>14, <2>p
  <2>16. MappedOK(m2, W, m3)
    BY <2>2, <2>3, <2>6, <2>14, <2>15, <2>m3, MapAgain
  <2>17. /\ m3 \in Call /\ Tree(m3) /\ Base(m3) = Base(cs) /\ Grown(m2, m3)
         /\ m3.initial = cs.initial /\ FramesOf(m3.pte) \subseteq U \cup I \cup W
    BY <2>14, <2>16 DEF MappedOK
  <2>18. Grown(cs, m3)
    BY <2>11, <2>14, <2>17, GrownTwice
  <2>19. stray = (U \cup I \cup W) \ FramesOf(m3.pte) /\ stray \in SUBSET Frames
    BY <2>3, <2>4, <2>5, <2>6, <2>7, <2>m4, CallFacts DEF Leaves, FramesOf
  <2>20. /\ y \in Call /\ y.stray = stray /\ y.r = "ok"
         /\ y.free = m3.free /\ y.mem = m3.mem /\ y.root = m3.root /\ y.kcopy = m3.kcopy
         /\ y.tab = m3.tab /\ y.pte = m3.pte /\ y.initial = m3.initial
    <3>1. m3 \in Call /\ stray \in SUBSET Frames
      BY <2>17, <2>19
    <3> QED BY <2>1, <3>1, SetStray
  <2>21. Tree(y) /\ Pool(y) = cs.free \cup FramesOf(m3.pte)
    BY <2>8, <2>17, <2>20, <2>p DEF Tree, Base
  <2>22. y.root = c.root /\ y.kcopy = c.kcopy /\ y.initial = 0
    BY <2>4, <2>5, <2>6, <2>7, <2>17, <2>18, <2>20 DEF Grown
  <2>23. c.free = stray \cup Pool(y) /\ stray \cap Pool(y) = {}
    BY <2>4, <2>5, <2>6, <2>17, <2>19, <2>21
  <2>24. ASSUME NEW f \in Frames \ b.free PROVE y.mem[f] = b.mem[f]
    <3>1. f \notin c.free /\ f \notin cu.free /\ f \notin ci.free /\ f \notin cs.free
      BY <2>4, <2>5, <2>6, <2>7
    <3>2. cs.mem[f] = b.mem[f]
      BY <2>4, <2>5, <2>6, <2>7, <3>1
    <3>3. m3.mem[f] = cs.mem[f]
      BY <2>18, <3>1 DEF Grown
    <3> QED BY <2>20, <3>2, <3>3
  <2>25. MadeOK(b, y)
    BY <2>7, <2>20, <2>21, <2>22, <2>23, <2>24 DEF MadeOK
  <2> QED BY <2>25 DEF y
<1> QED BY <1>5, <1>6


-----------------------------------------------------------------------------
(* Pages and addresses.                                                    *)

LEMMA Products ==
  ASSUME NEW d \in Nat \ {0}, NEW i \in Nat, NEW j \in Nat
  PROVE  /\ i * d \in Nat /\ j * d \in Nat
         /\ i < j => i * d + d <= j * d
         /\ i <= j <=> i * d <= j * d
<1>1. i * d \in Nat /\ j * d \in Nat
  OBVIOUS
<1>2. ASSUME NEW a \in Nat, NEW b \in Nat, a < b PROVE a * d + d <= b * d
  <2>1. PICK k \in Nat : b = a + 1 + k
    <3>1. b - a - 1 \in Nat /\ b = a + 1 + (b - a - 1)
      BY <1>2
    <3> QED BY <3>1
  <2>2. b * d = a * d + d + k * d /\ k * d \in Nat /\ a * d \in Nat
    BY <2>1
  <2> QED BY <2>2
<1>3. i < j => i * d + d <= j * d
  BY <1>2
<1>4. j < i => j * d + d <= i * d
  BY <1>2
<1> QED BY <1>1, <1>3, <1>4

LEMMA Quotient ==
  ASSUME NEW d \in Nat \ {0}, NEW a \in Nat
  PROVE  /\ a \div d \in Nat /\ (a \div d) * d <= a /\ a < (a \div d) * d + d
         /\ a % d \in 0 .. d - 1 /\ a = (a \div d) * d + (a % d)
<1>1. a \div d \in Nat /\ a % d \in 0 .. d - 1 /\ a = d * (a \div d) + (a % d)
  OBVIOUS
<1>2. PICK q \in Nat, r \in 0 .. d - 1 : q = a \div d /\ r = a % d /\ a = d * q + r
  BY <1>1
<1>3. d * q = q * d /\ q * d \in Nat
  OBVIOUS
<1>4. q * d <= a /\ a < q * d + d /\ a = q * d + r
  BY <1>2, <1>3
<1> QED BY <1>2, <1>4

(* A page that starts at or below an address is at or below the address's  *)
(* page.                                                                   *)
LEMMA PageBelow ==
  ASSUME NEW a \in Nat, NEW page \in Nat
  PROVE  /\ PageOf(a) \in Nat /\ page * PAGE_SIZE \in Nat
         /\ page * PAGE_SIZE <= a <=> page <= PageOf(a)
<1>1. PAGE_SIZE \in Nat \ {0}
  BY SpaceAssumption
<1>2. PICK q \in Nat : q = PageOf(a) /\ q * PAGE_SIZE <= a /\ a < q * PAGE_SIZE + PAGE_SIZE
  BY <1>1, Quotient DEF PageOf
<1>3. /\ page * PAGE_SIZE \in Nat /\ q * PAGE_SIZE \in Nat
      /\ q < page => q * PAGE_SIZE + PAGE_SIZE <= page * PAGE_SIZE
      /\ page <= q <=> page * PAGE_SIZE <= q * PAGE_SIZE
  BY <1>1, Products
<1> QED BY <1>1, <1>2, <1>3

(* Below the end of the width of its type, rounding up is exact.           *)
LEMMA RoundedUp ==
  ASSUME NEW a \in Nat, a + PAGE_SIZE <= UINT_MOD, NEW page \in Nat
  PROVE  /\ RoundUp(a) \in Nat
         /\ a <= page * PAGE_SIZE <=> RoundUp(a) <= page
<1>1. PAGE_SIZE \in Nat \ {0} /\ UINT_MOD \in Nat \ {0}
  BY SpaceAssumption
<1>2. PICK b \in Nat : b = a + PAGE_SIZE - 1 /\ b < UINT_MOD
  BY <1>1
<1>3. RoundUp(a) = PageOf(b)
  <2>1. b % UINT_MOD = b
    BY <1>1, <1>2
  <2> QED BY <1>2, <2>1 DEF RoundUp
<1>4. PICK q \in Nat : q = PageOf(b) /\ q * PAGE_SIZE <= b /\ b < q * PAGE_SIZE + PAGE_SIZE
  BY <1>1, Quotient DEF PageOf
<1>5. /\ page * PAGE_SIZE \in Nat /\ q * PAGE_SIZE \in Nat
      /\ q <= page <=> q * PAGE_SIZE <= page * PAGE_SIZE
  BY <1>1, Products
<1>6. page < q => page * PAGE_SIZE + PAGE_SIZE <= q * PAGE_SIZE
  BY <1>1, Products
<1>7. q <= page => a <= page * PAGE_SIZE
  BY <1>1, <1>2, <1>4, <1>5
<1>8. page < q => page * PAGE_SIZE < a
  BY <1>1, <1>2, <1>4, <1>5, <1>6
<1> QED BY <1>3, <1>4, <1>5, <1>7, <1>8

(* Page 0 is below user space.                                             *)
LEMMA FirstUserPage == PageOf(USERSPACE_VA_MIN) \in Nat \ {0}
<1>1. PAGE_SIZE \in Nat \ {0} /\ USERSPACE_VA_MIN \in Nat \ {0} /\ USERSPACE_VA_MIN % PAGE_SIZE = 0
  BY SpaceAssumption
<1>2. PICK q \in Nat : q = PageOf(USERSPACE_VA_MIN) /\ USERSPACE_VA_MIN = q * PAGE_SIZE + 0
  BY <1>1, Quotient DEF PageOf
<1>3. q # 0
  BY <1>1, <1>2
<1> QED BY <1>2, <1>3

LEMMA Rounded ==
  ASSUME NEW a \in Int
  PROVE  RoundDown(a) \in Nat /\ RoundUp(a) \in Nat
<1>1. PAGE_SIZE \in Nat \ {0} /\ UINT_MOD \in Nat \ {0}
  BY SpaceAssumption
<1>2. a % UINT_MOD \in Nat /\ (a + PAGE_SIZE - 1) % UINT_MOD \in Nat
  BY <1>1
<1>3. \A k \in Nat : k \div PAGE_SIZE \in Nat
  BY <1>1
<1> QED BY <1>2, <1>3 DEF RoundDown, RoundUp, PageOf

LEMMA PageOrder ==
  ASSUME NEW a \in Nat, NEW b \in Nat, a <= b
  PROVE  PageOf(a) \in Nat /\ PageOf(b) \in Nat /\ PageOf(a) <= PageOf(b)
<1>1. PageOf(a) \in Nat /\ PageOf(b) \in Nat
  BY PageBelow
<1>2. PageOf(a) * PAGE_SIZE \in Nat /\ PageOf(a) * PAGE_SIZE <= a
  BY <1>1, PageBelow
<1>3. PageOf(a) * PAGE_SIZE <= b
  BY <1>2
<1> QED BY <1>1, <1>3, PageBelow

(* An address is a page and an offset.                                     *)
LEMMA PageIs ==
  ASSUME NEW q \in Nat, NEW o \in Offsets
  PROVE  /\ q * PAGE_SIZE + o \in Nat /\ PageOf(q * PAGE_SIZE + o) = q
         /\ (q * PAGE_SIZE + o) % PAGE_SIZE = o
<1>1. PAGE_SIZE \in Nat \ {0} /\ o \in 0 .. PAGE_SIZE - 1
  BY SpaceAssumption DEF Offsets
<1>2. PICK b \in Nat : b = q * PAGE_SIZE
  BY <1>1
<1>3. PICK a \in Nat : a = b + o
  BY <1>1, <1>2
<1>4. PICK k \in Nat, r \in 0 .. PAGE_SIZE - 1 :
        k = PageOf(a) /\ r = a % PAGE_SIZE /\ a = k * PAGE_SIZE + r
  BY <1>1, Quotient DEF PageOf
<1>5. PICK c \in Nat : c = k * PAGE_SIZE
  BY <1>1
<1>6. k < q => c + PAGE_SIZE <= b
  BY <1>1, <1>2, <1>5, Products
<1>7. q < k => b + PAGE_SIZE <= c
  BY <1>1, <1>2, <1>5, Products
<1>8. k = q
  BY <1>1, <1>3, <1>4, <1>5, <1>6, <1>7
<1>9. r = o
  BY <1>1, <1>2, <1>3, <1>4, <1>5, <1>8
<1> QED BY <1>2, <1>3, <1>4, <1>8, <1>9

LEMMA AddressIs ==
  ASSUME NEW a \in Nat
  PROVE  /\ PageOf(a) \in Nat /\ a % PAGE_SIZE \in Offsets
         /\ PageOf(a) * PAGE_SIZE + (a % PAGE_SIZE) = a
<1>1. PAGE_SIZE \in Nat \ {0}
  BY SpaceAssumption
<1> QED BY <1>1, Quotient DEF PageOf, Offsets

(* The pages that proc_exec allocates hold all bytes of a segment.         *)
LEMMA SegmentPages ==
  ASSUME NEW va \in Nat, NEW size \in Nat, va + size <= UINT_MOD - PAGE_SIZE,
         NEW first, first = RoundDown(va), NEW n, n = RoundUp(va - first * PAGE_SIZE + size)
  PROVE  \A b \in va .. va + size - 1 : PageOf(b) \in first .. first + n - 1
<1>1. PAGE_SIZE \in Nat \ {0} /\ UINT_MOD \in Nat \ {0}
  BY SpaceAssumption
<1>2. first = PageOf(va)
  <2>1. va % UINT_MOD = va
    BY <1>1
  <2> QED BY <2>1 DEF RoundDown
<1>3. PICK q \in Nat : q = first /\ q * PAGE_SIZE <= va /\ va < q * PAGE_SIZE + PAGE_SIZE
  BY <1>1, <1>2, Quotient DEF PageOf
<1>4. PICK base \in Nat : base = q * PAGE_SIZE
  BY <1>1
<1>5. PICK c \in Nat : c = va - base + size /\ c + PAGE_SIZE <= UINT_MOD
  BY <1>1, <1>3, <1>4
<1>6. n = RoundUp(c)
  BY <1>3, <1>4, <1>5
<1>7. n \in Nat /\ c <= n * PAGE_SIZE
  <2>1. RoundUp(c) \in Nat
    BY <1>5, Rounded
  <2> QED BY <1>5, <1>6, <2>1, RoundedUp
<1>8. PICK k \in Nat : k = q + n
  BY <1>7
<1>9. va + size <= k * PAGE_SIZE
  <2>1. k * PAGE_SIZE = base + n * PAGE_SIZE /\ n * PAGE_SIZE \in Nat
    BY <1>1, <1>4, <1>7, <1>8
  <2> QED BY <1>5, <1>7, <2>1
<1>10. ASSUME NEW b \in va .. va + size - 1 PROVE PageOf(b) \in first .. first + n - 1
  <2>1. b \in Nat /\ va <= b /\ k * PAGE_SIZE \in Nat /\ ~(k * PAGE_SIZE <= b)
    BY <1>1, <1>9
  <2>2. PageOf(b) \in Nat /\ ~(k <= PageOf(b))
    BY <2>1, PageBelow
  <2>3. q <= PageOf(b)
    BY <1>2, <1>3, <2>1, PageOrder
  <2> QED BY <1>3, <1>7, <1>8, <2>2, <2>3
<1> QED BY <1>10

-----------------------------------------------------------------------------
(* vmm_memcpy and what is made of it.                                      *)

(* Only bytes of mapped frames change.                                     *)
NotStored == {"fail", "page fault", "load_segment"}

StoredOK(x, y) ==
  /\ y \in Call /\ y.r \in {x.r} \cup NotStored
  /\ y.free = x.free /\ y.root = x.root /\ y.kcopy = x.kcopy /\ y.tab = x.tab /\ y.pte = x.pte
  /\ y.stray = x.stray /\ y.initial = x.initial
  /\ \A f \in Frames \ FramesOf(x.pte) : y.mem[f] = x.mem[f]

LEMMA SetMemory ==
  ASSUME NEW x \in Call, NEW m \in Memory
  PROVE  /\ [x EXCEPT !.mem = m] \in Call
         /\ [x EXCEPT !.mem = m].mem = m
         /\ [x EXCEPT !.mem = m].free = x.free /\ [x EXCEPT !.mem = m].r = x.r
         /\ [x EXCEPT !.mem = m].root = x.root /\ [x EXCEPT !.mem = m].kcopy = x.kcopy
         /\ [x EXCEPT !.mem = m].tab = x.tab /\ [x EXCEPT !.mem = m].pte = x.pte
         /\ [x EXCEPT !.mem = m].stray = x.stray /\ [x EXCEPT !.mem = m].initial = x.initial
BY DEF Call

LEMMA StoreMeans ==
  ASSUME NEW x \in Call, NEW a, NEW n, NEW v \in Bytes
  PROVE  StoredOK(x, Store(x, a, n, v))
<1> DEFINE page(f) == {q \in DOMAIN x.pte \cap (PageOf(a) .. PageOf(a + n - 1)) :
                         x.pte[q].frame = f}
           stored(f) == [o \in Offsets |->
                           IF \E q \in page(f) : q * PAGE_SIZE + o \in a .. a + n - 1
                           THEN v ELSE x.mem[f][o]]
           m == [f \in Frames |-> IF page(f) = {} THEN x.mem[f] ELSE stored(f)]
           y == Store(x, a, n, v)
<1>1. y = [x EXCEPT !.mem = m]
  <2>1. y = [x EXCEPT !.mem = [f \in Frames |-> IF page(f) = {} THEN @[f] ELSE stored(f)]]
    BY DEF Store
  <2> HIDE DEF y, page, stored
  <2> QED BY <2>1 DEF Call
<1>2. ASSUME NEW f \in Frames PROVE stored(f) \in [Offsets -> Bytes] /\ x.mem[f] \in [Offsets -> Bytes]
  <2>1. x.mem[f] \in [Offsets -> Bytes]
    BY CallFacts DEF Memory
  <2> HIDE DEF page
  <2> QED BY <2>1
<1>3. ASSUME NEW f \in Frames \ FramesOf(x.pte) PROVE page(f) = {}
  BY DEF FramesOf
<1> HIDE DEF page, stored
<1>4. m \in Memory
  BY <1>2 DEF Memory
<1>5. \A f \in Frames \ FramesOf(x.pte) : m[f] = x.mem[f]
  BY <1>3
<1> HIDE DEF m, y
<1>6. /\ y \in Call /\ y.mem = m /\ y.free = x.free /\ y.r = x.r /\ y.root = x.root
      /\ y.kcopy = x.kcopy /\ y.tab = x.tab /\ y.pte = x.pte /\ y.stray = x.stray
      /\ y.initial = x.initial
  BY <1>1, <1>4, SetMemory
<1>7. StoredOK(x, y)
  BY <1>5, <1>6 DEF StoredOK
<1> QED BY <1>7 DEF y

LEMMA ResultStored ==
  ASSUME NEW x \in Call, NEW v \in NotStored
  PROVE  StoredOK(x, [x EXCEPT !.r = v]) /\ [x EXCEPT !.r = v].r # "ok"
<1>1. PICK y : y = [x EXCEPT !.r = v]
  OBVIOUS
<1>2. v \in Results /\ v # "ok"
  BY DEF NotStored, Results
<1>3. /\ y \in Call /\ y.r = v /\ y.free = x.free /\ y.mem = x.mem /\ y.root = x.root
      /\ y.kcopy = x.kcopy /\ y.tab = x.tab /\ y.pte = x.pte /\ y.stray = x.stray
      /\ y.initial = x.initial
  BY <1>1, <1>2, SetResult
<1>4. StoredOK(x, y)
  BY <1>3 DEF StoredOK
<1> QED BY <1>1, <1>2, <1>3, <1>4

LEMMA FailStored ==
  ASSUME NEW x \in Call
  PROVE  StoredOK(x, Fail(x))
<1>1. "fail" \in NotStored
  BY DEF NotStored
<1> QED BY <1>1, ResultStored DEF Fail

LEMMA MemcpyMeans ==
  ASSUME NEW x \in Call, NEW a, NEW n, NEW v \in Bytes
  PROVE  StoredOK(x, vmm_memcpy(x, a, n, v))
<1>1. \/ vmm_memcpy(x, a, n, v) = Store(x, a, n, v) \/ vmm_memcpy(x, a, n, v) = Fail(x)
      \/ vmm_memcpy(x, a, n, v) = [x EXCEPT !.r = "page fault"]
  BY DEF vmm_memcpy
<1>2. CASE vmm_memcpy(x, a, n, v) = Store(x, a, n, v)
  BY <1>2, StoreMeans
<1>3. CASE vmm_memcpy(x, a, n, v) = Fail(x)
  BY <1>3, FailStored
<1>4. CASE vmm_memcpy(x, a, n, v) = [x EXCEPT !.r = "page fault"]
  <2>1. "page fault" \in NotStored
    BY DEF NotStored
  <2> QED BY <1>4, <2>1, ResultStored
<1> QED BY <1>1, <1>2, <1>3, <1>4

(* load_segment writes the file's bytes, or there is an error.             *)
LEMMA FileMeans ==
  ASSUME NEW x \in Call, NEW va, NEW sz, NEW short, NEW y, y = load_segment(x, va, sz, short)
  PROVE  StoredOK(x, y) /\ (y.r = "ok" => y = Store(x, va, sz, "file"))
<1>1. y = Store(x, va, sz, "file") \/ y = Fail(x) \/ y = [x EXCEPT !.r = "load_segment"]
  BY DEF load_segment
<1>2. "file" \in Bytes /\ "load_segment" \in NotStored
  BY DEF Bytes, NotStored
<1>3. CASE y = Store(x, va, sz, "file")
  BY <1>2, <1>3, StoreMeans
<1>4. CASE y = Fail(x)
  <2>1. StoredOK(x, y)
    BY <1>4, FailStored
  <2>2. y.r # "ok"
    BY <1>4, FailMeans
  <2> QED BY <2>1, <2>2
<1>5. CASE y = [x EXCEPT !.r = "load_segment"]
  BY <1>2, <1>5, ResultStored
<1> QED BY <1>1, <1>3, <1>4, <1>5

LEMMA StoredTwice ==
  ASSUME NEW x, NEW y, NEW z, StoredOK(x, y), StoredOK(y, z)
  PROVE  StoredOK(x, z)
BY DEF StoredOK

LEMMA ZeroMeans ==
  ASSUME NEW x \in Call, NEW a, NEW n
  PROVE  StoredOK(x, vmm_zero(x, a, n))
<1>1. CASE n > 0
  <2>1. "zero" \in Bytes
    BY DEF Bytes
  <2>2. StoredOK(x, vmm_memcpy(x, a, n, "zero"))
    BY <2>1, MemcpyMeans
  <2> QED BY <1>1, <2>2 DEF vmm_zero
<1>2. CASE ~(n > 0)
  <2>1. StoredOK(x, x)
    BY DEF StoredOK
  <2> QED BY <1>2, <2>1 DEF vmm_zero
<1> QED BY <1>1, <1>2

LEMMA PagesAreNumbers ==
  ASSUME NEW x \in Call, NEW q \in DOMAIN x.pte
  PROVE  q \in Nat /\ x.pte[q].frame \in Frames
<1>1. DOMAIN x.pte \subseteq UserPages /\ x.pte[q].frame \in Frames
  BY CallFacts, EntryFacts
<1> QED BY <1>1, FirstUserPage DEF UserPages

(* The bytes of the mapped pages once n of them from address a on are v.   *)
Wrote(x, y, a, n, v) ==
  \A q \in DOMAIN x.pte, o \in Offsets :
    y.mem[x.pte[q].frame][o] =
      IF q * PAGE_SIZE + o \in a .. a + n - 1 THEN v ELSE x.mem[x.pte[q].frame][o]

LEMMA StoreBytes ==
  ASSUME NEW x \in Call, Tree(x), NEW a \in Nat, NEW n \in Nat, NEW v
  PROVE  Wrote(x, Store(x, a, n, v), a, n, v)
<1> DEFINE page(f) == {q \in DOMAIN x.pte \cap (PageOf(a) .. PageOf(a + n - 1)) :
                         x.pte[q].frame = f}
           stored(f) == [o \in Offsets |->
                           IF \E q \in page(f) : q * PAGE_SIZE + o \in a .. a + n - 1
                           THEN v ELSE x.mem[f][o]]
           m == [f \in Frames |-> IF page(f) = {} THEN x.mem[f] ELSE stored(f)]
           y == Store(x, a, n, v)
<1>1. y.mem = m
  <2>1. y = [x EXCEPT !.mem = [f \in Frames |-> IF page(f) = {} THEN @[f] ELSE stored(f)]]
    BY DEF Store
  <2> HIDE DEF y, page, stored
  <2> QED BY <2>1 DEF Call
<1> HIDE DEF y
<1> SUFFICES ASSUME NEW q \in DOMAIN x.pte, NEW o \in Offsets
             PROVE  y.mem[x.pte[q].frame][o] =
                      IF q * PAGE_SIZE + o \in a .. a + n - 1 THEN v ELSE x.mem[x.pte[q].frame][o]
  BY DEF Wrote, y
<1>2. PICK f \in Frames : f = x.pte[q].frame
  BY PagesAreNumbers
<1>3. PICK b \in Nat : b = q * PAGE_SIZE + o /\ PageOf(b) = q
  BY PagesAreNumbers, PageIs
<1>4. \A k \in page(f) : k = q
  BY <1>2 DEF Tree, TreeOK
<1>5. b \in a .. a + n - 1 => q \in page(f)
  <2> SUFFICES ASSUME b \in a .. a + n - 1 PROVE q \in page(f)
    OBVIOUS
  <2>1. a + n - 1 \in Nat /\ a <= b /\ b <= a + n - 1
    OBVIOUS
  <2>2. /\ PageOf(a) \in Nat /\ PageOf(a + n - 1) \in Nat /\ q \in Nat
        /\ PageOf(a) <= q /\ q <= PageOf(a + n - 1)
    BY <1>3, <2>1, PageOrder
  <2>3. q \in PageOf(a) .. PageOf(a + n - 1)
    BY <2>2
  <2> QED BY <1>2, <2>3
<1>6. m[f] = IF page(f) = {} THEN x.mem[f] ELSE stored(f)
  <2> HIDE DEF page, stored
  <2> QED OBVIOUS
<1>7. stored(f)[o] = IF \E k \in page(f) : k * PAGE_SIZE + o \in a .. a + n - 1 THEN v ELSE x.mem[f][o]
  <2> HIDE DEF page
  <2> QED OBVIOUS
<1> HIDE DEF page, stored, m
<1>8. CASE b \in a .. a + n - 1
  <2>1. m[f] = stored(f)
    BY <1>5, <1>6, <1>8
  <2>2. \E k \in page(f) : k * PAGE_SIZE + o \in a .. a + n - 1
    BY <1>3, <1>5, <1>8
  <2>3. stored(f)[o] = v
    BY <1>7, <2>2
  <2> QED BY <1>1, <1>2, <1>3, <1>8, <2>1, <2>3
<1>9. CASE b \notin a .. a + n - 1
  <2>1. ~ \E k \in page(f) : k * PAGE_SIZE + o \in a .. a + n - 1
    BY <1>3, <1>4, <1>9
  <2>2. stored(f)[o] = x.mem[f][o]
    BY <1>7, <2>1
  <2>3. m[f][o] = x.mem[f][o]
    BY <1>6, <2>2
  <2> QED BY <1>1, <1>2, <1>3, <1>9, <2>3
<1> QED BY <1>8, <1>9

(* What vmm_memcpy writes if it does not fail.                             *)
LEMMA MemcpyBytes ==
  ASSUME NEW x \in Call, Tree(x), NEW a \in Nat, NEW n \in Nat, NEW v,
         vmm_memcpy(x, a, n, v).r = "ok"
  PROVE  Wrote(x, vmm_memcpy(x, a, n, v), a, n, v)
<1>1. \/ vmm_memcpy(x, a, n, v) = Store(x, a, n, v) \/ vmm_memcpy(x, a, n, v) = Fail(x)
      \/ vmm_memcpy(x, a, n, v) = [x EXCEPT !.r = "page fault"]
  BY DEF vmm_memcpy
<1>2. Fail(x).r # "ok" /\ [x EXCEPT !.r = "page fault"].r # "ok"
  <2>1. "page fault" \in NotStored
    BY DEF NotStored
  <2> QED BY <2>1, FailMeans, ResultStored
<1> QED BY <1>1, <1>2, StoreBytes

-----------------------------------------------------------------------------
(* Loading a program.                                                      *)

(* The frames of the tree come from the pool and nothing else is written.  *)
Loaded(t, y) ==
  /\ y \in Call
  /\ y.root = t.root /\ y.kcopy = t.kcopy /\ y.stray = t.stray
  /\ \A f \in Frames \ Pool(t) : y.mem[f] = t.mem[f]
  /\ y.r \in {"ok", "fail"} => Tree(y) /\ Pool(y) = Pool(t)

LEMMA LoadedStored ==
  ASSUME NEW t \in Call, NEW x, NEW y, Loaded(t, x), x.r \in {"ok", "fail"}, StoredOK(x, y)
  PROVE  Loaded(t, y)
<1>1. Tree(x) /\ Pool(x) = Pool(t)
  BY DEF Loaded
<1>2. Tree(y) /\ Pool(y) = Pool(x)
  BY <1>1 DEF StoredOK, Tree, Pool
<1>3. \A f \in Frames \ Pool(t) : y.mem[f] = t.mem[f]
  <2>1. FramesOf(x.pte) \subseteq Pool(t)
    BY <1>1 DEF Pool
  <2> QED BY <2>1 DEF Loaded, StoredOK
<1> QED BY <1>1, <1>2, <1>3 DEF Loaded, StoredOK

LEMMA LoadedAllocated ==
  ASSUME NEW t \in Call, NEW x, NEW y, Loaded(t, x), x.r = "ok", NEW first, NEW n, NEW perm, NEW v,
         AllocatedOK(x, first, n, perm, v, y)
  PROVE  Loaded(t, y)
<1>1. Tree(x) /\ Pool(x) = Pool(t)
  BY DEF Loaded
<1>2. y \in Call /\ Grown(x, y) /\ (y.r \in {"ok", "fail"} => Tree(y) /\ Pool(y) = Pool(x))
  BY DEF AllocatedOK
<1>3. \A f \in Frames \ Pool(t) : y.mem[f] = t.mem[f]
  <2>1. x.free \subseteq Pool(t)
    BY <1>1 DEF Pool
  <2> QED BY <1>2, <2>1 DEF Loaded, Grown
<1> QED BY <1>1, <1>2, <1>3 DEF Loaded, Grown

LEMMA LoadedFail ==
  ASSUME NEW t \in Call, NEW x, Loaded(t, x), x.r \in {"ok", "fail"}
  PROVE  Loaded(t, Fail(x))
<1>1. StoredOK(x, Fail(x))
  BY FailStored DEF Loaded
<1> QED BY <1>1, LoadedStored

LEMMA SetInitial ==
  ASSUME NEW x \in Call, NEW a \in Nat
  PROVE  /\ [x EXCEPT !.initial = a] \in Call
         /\ [x EXCEPT !.initial = a].mem = x.mem
         /\ [x EXCEPT !.initial = a].free = x.free /\ [x EXCEPT !.initial = a].r = x.r
         /\ [x EXCEPT !.initial = a].root = x.root /\ [x EXCEPT !.initial = a].kcopy = x.kcopy
         /\ [x EXCEPT !.initial = a].tab = x.tab /\ [x EXCEPT !.initial = a].pte = x.pte
         /\ [x EXCEPT !.initial = a].stray = x.stray
BY DEF Call

LEMMA LoadedInitial ==
  ASSUME NEW t \in Call, NEW x, Loaded(t, x), NEW a \in Nat
  PROVE  Loaded(t, [x EXCEPT !.initial = a])
<1>1. PICK y : y = [x EXCEPT !.initial = a]
  OBVIOUS
<1>2. /\ y \in Call /\ y.mem = x.mem /\ y.free = x.free /\ y.r = x.r /\ y.root = x.root
      /\ y.kcopy = x.kcopy /\ y.tab = x.tab /\ y.pte = x.pte /\ y.stray = x.stray
  BY <1>1, SetInitial DEF Loaded
<1>3. Loaded(t, y)
  BY <1>2 DEF Loaded, Tree, Pool
<1> QED BY <1>1, <1>3

LEMMA SegmentMeans ==
  ASSUME NEW t \in Call, NEW x, Loaded(t, x), x.r = "ok", NEW seg \in Segment, NEW bias \in Nat
  PROVE  Loaded(t, LoadSegment(x, seg, bias))
<1> DEFINE va     == seg.vaddr + bias
           first  == RoundDown(va)
           n      == RoundUp(va - first * PAGE_SIZE + seg.memsz)
           perm   == [writable |-> seg.writable, userspace |-> TRUE]
           y      == vmm_allocate(x, first, n, perm, "junk")
           w      == load_segment(y, va, seg.filesz % UINT_MOD, seg.short)
           z      == vmm_zero(w, va + seg.filesz, seg.memsz - seg.filesz)
           end    == (first + n) * PAGE_SIZE
           out    == LoadSegment(x, seg, bias)
<1>1. \/ out = x \/ out = Fail(x)
      \/ out = y /\ y.r # "ok"
      \/ out = w /\ y.r = "ok"
      \/ out = z /\ y.r = "ok"
      \/ out = [z EXCEPT !.initial = IF end > @ THEN end ELSE @] /\ y.r = "ok"
  BY Zenon DEF LoadSegment
<1>2. x \in Call /\ Tree(x)
  BY DEF Loaded
<1>3. va \in Nat /\ seg.memsz \in Nat /\ seg.writable \in BOOLEAN
  BY DEF Segment
<1> HIDE DEF va
<1>4. first \in Nat
  BY <1>3, Rounded
<1> HIDE DEF first
<1>5. n \in Nat
  <2>1. PAGE_SIZE \in Nat
    BY SpaceAssumption
  <2>2. va - first * PAGE_SIZE + seg.memsz \in Int
    BY <1>3, <1>4, <2>1
  <2> QED BY <2>2, Rounded
<1>6. perm \in Perms /\ "junk" \in Bytes
  BY <1>3 DEF Perms, Bytes
<1> HIDE DEF n, perm, out
<1>7. AllocatedOK(x, first, n, perm, "junk", y)
  BY <1>2, <1>4, <1>5, <1>6, AllocatedMeans
<1> HIDE DEF y
<1>8. Loaded(t, y)
  BY <1>7, LoadedAllocated
<1>9. CASE out = x
  BY <1>9 DEF out
<1>10. CASE out = Fail(x)
  BY <1>10, LoadedFail DEF out
<1>11. CASE out = y
  BY <1>8, <1>11 DEF out
<1>12. StoredOK(y, w)
  BY <1>8, FileMeans DEF Loaded
<1>w. CASE out = w /\ y.r = "ok"
  BY <1>8, <1>12, <1>w, LoadedStored DEF out
<1> HIDE DEF w
<1>13. ASSUME y.r = "ok" PROVE Loaded(t, z)
  <2>1. StoredOK(w, z)
    BY <1>12, ZeroMeans DEF StoredOK
  <2> HIDE DEF z
  <2>2. StoredOK(y, z)
    BY <1>12, <2>1, StoredTwice
  <2> QED BY <1>8, <1>13, <2>2, LoadedStored
<1>14. CASE out = z /\ y.r = "ok"
  BY <1>13, <1>14 DEF out
<1>15. CASE out = [z EXCEPT !.initial = IF end > @ THEN end ELSE @] /\ y.r = "ok"
  <2>1. Loaded(t, z)
    BY <1>13, <1>15
  <2> HIDE DEF z
  <2>2. z \in Call /\ z.initial \in Nat
    BY <2>1, CallFacts DEF Loaded
  <2>3. end \in Nat
    BY <1>4, <1>5, SpaceAssumption
  <2> HIDE DEF end
  <2>4. PICK a \in Nat : a = IF end > z.initial THEN end ELSE z.initial
    BY <2>2, <2>3
  <2>5. out = [z EXCEPT !.initial = a]
    BY <1>15, <2>2, <2>4 DEF Call
  <2> QED BY <2>1, <2>5, LoadedInitial DEF out
<1> QED BY <1>1, <1>9, <1>10, <1>11, <1>w, <1>14, <1>15 DEF w

(* The loop over the program headers.                                      *)
LoadStep(c, prog, k) == IF c.r # "ok" THEN c ELSE LoadSegment(c, prog.segs[k], LoadBias(prog))

LoadRunOK(t, prog, h) ==
  /\ h[0] = t /\ \A k \in 0 .. Len(prog.segs) : Loaded(t, h[k])
  /\ \A k \in 1 .. Len(prog.segs) : h[k] = LoadStep(h[k - 1], prog, k)
  /\ LoadProgram(t, prog) = Fail(t) \/ LoadProgram(t, prog) = h[Len(prog.segs)]

LEMMA LoadRun ==
  ASSUME NEW t \in Call, Tree(t), t.r = "ok", NEW prog \in Program
  PROVE  \E h : LoadRunOK(t, prog, h)
<1> DEFINE h == LoadUpTo(t, prog)
           n == Len(prog.segs)
           bias == LoadBias(prog)
           S == {c \in Call : Loaded(t, c)}
           One(c, k) == IF c.r # "ok" THEN c ELSE LoadSegment(c, prog.segs[k], bias)
           Step(f, k) == IF k = 0 THEN t
                         ELSE IF f[k - 1].r # "ok" THEN f[k - 1]
                              ELSE LoadSegment(f[k - 1], prog.segs[k], bias)
           F == [c \in S \X (1 .. n) |-> One(c[1], c[2])]
<1>t. Loaded(t, t)
  BY DEF Loaded
<1>0. n \in Nat /\ \A k \in 1 .. n : prog.segs[k] \in Segment
  BY DEF Program
<1>b. bias \in Nat
  BY SpaceAssumption DEF LoadBias
<1>c. LoadProgram(t, prog) = Fail(t) \/ LoadProgram(t, prog) = h[n]
  BY DEF LoadProgram
<1>5a. h = CHOOSE f : f = [k \in 0 .. n |-> Step(f, k)]
  BY Zenon DEF LoadUpTo
<1> HIDE DEF n, bias
<1>s. /\ t \in S
      /\ \A c \in S, k \in 1 .. n : One(c, k) \in S
      /\ \A c \in S : Loaded(t, c)
  <2>1. ASSUME NEW c \in S, NEW k \in 1 .. n PROVE One(c, k) \in S
    <3>1. CASE c.r # "ok"
      BY <3>1
    <3>2. CASE c.r = "ok"
      <4>1. PICK seg \in Segment : seg = prog.segs[k]
        BY <1>0
      <4>2. Loaded(t, LoadSegment(c, seg, bias))
        BY <1>b, <3>2, SegmentMeans
      <4>3. LoadSegment(c, seg, bias) \in Call
        BY <4>2 DEF Loaded
      <4> QED BY <3>2, <4>1, <4>2, <4>3
    <3> QED BY <3>1, <3>2
  <2> QED BY <1>t, <2>1
<1> HIDE DEF S
<1>1. F \in [S \X (1 .. n) -> S]
  <2> HIDE DEF One
  <2> QED BY <1>s
<1>2. \A c \in S, k \in 1 .. n : F[<<c, k>>] = One(c, k)
  OBVIOUS
<1> HIDE DEF F
<1>r. PICK g : IsRun(g, S, t, n, F)
  BY <1>0, <1>1, <1>s, LoopRuns
<1>3. /\ g \in [0 .. n -> S] /\ g[0] = t
      /\ \A k \in 1 .. n : g[k] = F[<<g[k - 1], k>>]
  BY <1>r DEF IsRun
<1>4. g = [k \in 0 .. n |-> Step(g, k)]
  <2> SUFFICES ASSUME NEW k \in 0 .. n PROVE g[k] = Step(g, k)
    <3>1. g = [k \in 0 .. n |-> g[k]]
      BY <1>3
    <3> HIDE DEF Step
    <3> QED BY <3>1, Zenon
  <2>1. CASE k = 0
    BY <1>3, <2>1
  <2>2. CASE k # 0
    <3>1. k \in 1 .. n /\ g[k - 1] \in S
      BY <1>0, <1>3, <2>2
    <3>2. g[k] = One(g[k - 1], k)
      <4> HIDE DEF One
      <4> QED BY <1>2, <1>3, <3>1
    <3> QED BY <2>2, <3>2
  <2> QED BY <2>1, <2>2
<1>5. h = [k \in 0 .. n |-> Step(h, k)]
  <2> HIDE DEF Step, h
  <2> QED BY <1>4, <1>5a, Zenon
<1>6. h[0] = t /\ \A k \in 1 .. n : h[k] = One(h[k - 1], k)
  <2> HIDE DEF h
  <2>1. \A k \in 0 .. n : h[k] = Step(h, k)
    <3> HIDE DEF Step
    <3> QED BY <1>0, <1>5
  <2>2. h[0] = t
    BY <1>0, <2>1
  <2>3. ASSUME NEW k \in 1 .. n PROVE h[k] = One(h[k - 1], k)
    BY <1>0, <2>1
  <2> QED BY <2>2, <2>3
<1> HIDE DEF h, One
<1> DEFINE T == {k \in 0 .. n : h[k] \in S}
<1>7. 0 \in T
  BY <1>0, <1>6, <1>s
<1>8. ASSUME NEW k \in 1 .. n, k - 1 \in T PROVE k \in T
  <2>1. h[k - 1] \in S
    BY <1>8
  <2>2. h[k] \in S
    BY <1>6, <1>s, <2>1
  <2> QED BY <2>2
<1>9. T = 0 .. n
  <2>1. T \in SUBSET (0 .. n)
    OBVIOUS
  <2> HIDE DEF T
  <2> QED BY <1>0, <1>7, <1>8, <2>1, UpTo
<1>10. \A k \in 0 .. n : Loaded(t, h[k])
  BY <1>9, <1>s
<1>11. \A k \in 1 .. n : h[k] = LoadStep(h[k - 1], prog, k)
  BY <1>6 DEF One, LoadStep, bias
<1>12. LoadRunOK(t, prog, h)
  BY <1>6, <1>10, <1>11, <1>c DEF LoadRunOK, n
<1> QED BY <1>12

LEMMA LoadMeans ==
  ASSUME NEW t \in Call, Tree(t), t.r = "ok", NEW prog \in Program
  PROVE  Loaded(t, LoadProgram(t, prog))
<1>1. PICK h : LoadRunOK(t, prog, h)
  BY LoadRun
<1>2. Loaded(t, t)
  BY DEF Loaded
<1>3. Len(prog.segs) \in Nat
  BY DEF Program
<1>4. CASE LoadProgram(t, prog) = h[Len(prog.segs)]
  BY <1>1, <1>3, <1>4 DEF LoadRunOK
<1>5. CASE LoadProgram(t, prog) = Fail(t)
  BY <1>2, <1>5, LoadedFail
<1> QED BY <1>1, <1>4, <1>5 DEF LoadRunOK

(* The arguments of main.                                                  *)
LEMMA PushStored ==
  ASSUME NEW x \in Call, x.r = "ok", NEW m, m = vmm_memcpy(x, USERSPACE_VA_MAX - 1, 1, "arg"),
         NEW y, y = PushArgs(x)
  PROVE  StoredOK(x, y) /\ y.mem = m.mem /\ y.r # "fail"
<1>1. "arg" \in Bytes /\ "ok" \in Results
  BY DEF Bytes, Results
<1>2. StoredOK(x, m)
  BY <1>1, MemcpyMeans
<1>3. CASE m.r = "fail"
  <2>1. y = [m EXCEPT !.r = "ok"]
    BY <1>3 DEF PushArgs
  <2>2. /\ y \in Call /\ y.r = "ok" /\ y.free = m.free /\ y.mem = m.mem /\ y.root = m.root
        /\ y.kcopy = m.kcopy /\ y.tab = m.tab /\ y.pte = m.pte /\ y.stray = m.stray
        /\ y.initial = m.initial
    BY <1>1, <1>2, <2>1, SetResult DEF StoredOK
  <2> QED BY <1>2, <2>2 DEF StoredOK
<1>4. CASE m.r # "fail"
  <2>1. y = m
    BY <1>4 DEF PushArgs
  <2> QED BY <1>2, <1>4, <2>1
<1> QED BY <1>3, <1>4

LEMMA PushMeans ==
  ASSUME NEW t \in Call, NEW x, Loaded(t, x), x.r = "ok"
  PROVE  Loaded(t, PushArgs(x)) /\ PushArgs(x).r \in Results /\ PushArgs(x).r # "fail"
<1>1. StoredOK(x, PushArgs(x)) /\ PushArgs(x).r # "fail"
  BY PushStored DEF Loaded
<1>2. PushArgs(x).r \in Results
  BY <1>1, CallFacts DEF StoredOK
<1> QED BY <1>1, <1>2, LoadedStored

-----------------------------------------------------------------------------
(* What a program finds in its memory.                                     *)

(* User code may access address a, for writing if w, and finds v there.    *)
ByteThere(x, m, a, w, v) ==
  UserPage(x, PageOf(a), w) /\ m[x.pte[PageOf(a)].frame][a % PAGE_SIZE] = v

Content(seg, o) == IF o < seg.filesz THEN "file" ELSE "zero"

SegmentThere(x, m, seg, bias) ==
  \A o \in 0 .. seg.memsz - 1 :
    ByteThere(x, m, seg.vaddr + bias + o, seg.writable, Content(seg, o))

(* What is mapped stays as it is, with its bytes.                          *)
Keeps(x, y) ==
  \A q \in DOMAIN x.pte : /\ q \in DOMAIN y.pte /\ y.pte[q] = x.pte[q]
                          /\ y.mem[x.pte[q].frame] = x.mem[x.pte[q].frame]

LEMMA SegmentStays ==
  ASSUME NEW x, NEW y, NEW seg, NEW bias, SegmentThere(x, x.mem, seg, bias), Keeps(x, y)
  PROVE  SegmentThere(y, y.mem, seg, bias)
<1> SUFFICES ASSUME NEW o \in 0 .. seg.memsz - 1
             PROVE  ByteThere(y, y.mem, seg.vaddr + bias + o, seg.writable, Content(seg, o))
  BY DEF SegmentThere
<1>1. PICK a, v, w : a = seg.vaddr + bias + o /\ v = Content(seg, o) /\ w = seg.writable
  OBVIOUS
<1>2. ByteThere(x, x.mem, a, w, v)
  BY <1>1 DEF SegmentThere
<1>3. PICK q : q = PageOf(a)
  OBVIOUS
<1>4. UserPage(x, q, w) /\ x.mem[x.pte[q].frame][a % PAGE_SIZE] = v
  BY <1>2, <1>3 DEF ByteThere
<1>5. /\ q \in DOMAIN x.pte /\ q \in DOMAIN y.pte /\ y.pte[q] = x.pte[q]
      /\ y.mem[x.pte[q].frame] = x.mem[x.pte[q].frame]
  BY <1>4 DEF UserPage, Keeps
<1>6. UserPage(y, q, w) /\ y.mem[y.pte[q].frame][a % PAGE_SIZE] = v
  BY <1>4, <1>5 DEF UserPage
<1>7. ByteThere(y, y.mem, a, w, v)
  BY <1>3, <1>6 DEF ByteThere
<1> QED BY <1>1, <1>7

(* The bytes of a segment: the file's part and what is zeroed behind it.   *)
FilledIn(y, z, va, filesz, memsz) ==
  \A q \in DOMAIN y.pte, o \in Offsets :
    LET b == q * PAGE_SIZE + o
        f == y.pte[q].frame
    IN  /\ b \in va .. va + filesz - 1 => z.mem[f][o] = "file"
        /\ b \in va + filesz .. va + memsz - 1 => z.mem[f][o] = "zero"
        /\ b \notin va .. va + memsz - 1 => z.mem[f][o] = y.mem[f][o]

LEMMA SegmentWritten ==
  ASSUME NEW y \in Call, Tree(y), NEW va \in Nat, NEW filesz \in Nat, NEW memsz \in Nat,
         filesz <= memsz, NEW w, NEW short, w = load_segment(y, va, filesz, short), w.r = "ok",
         NEW z, z = vmm_zero(w, va + filesz, memsz - filesz), z.r = "ok"
  PROVE  StoredOK(y, z) /\ FilledIn(y, z, va, filesz, memsz)
<1>1. StoredOK(y, w) /\ w = Store(y, va, filesz, "file")
  BY FileMeans
<1>2. "zero" \in Bytes
  BY DEF Bytes
<1>3. StoredOK(y, w) /\ Wrote(y, w, va, filesz, "file")
  BY <1>1, StoreBytes
<1>4. w \in Call /\ w.pte = y.pte /\ Tree(w)
  BY <1>3 DEF StoredOK, Tree
<1>5. PICK a \in Nat, n \in Nat : a = va + filesz /\ n = memsz - filesz
  OBVIOUS
<1>6. z = vmm_zero(w, a, n)
  BY <1>1, <1>5
<1>7. StoredOK(w, z)
  BY <1>4, <1>6, ZeroMeans
<1>8. StoredOK(y, z)
  BY <1>3, <1>7, StoredTwice
<1>9. Wrote(w, z, a, n, "zero")
  <2>1. CASE n > 0
    <3>1. z = vmm_memcpy(w, a, n, "zero")
      BY <1>6, <2>1 DEF vmm_zero
    <3> QED BY <1>4, <3>1, MemcpyBytes
  <2>2. CASE n = 0
    <3>1. z = w
      BY <1>6, <2>2 DEF vmm_zero
    <3>2. \A b : b \notin a .. a + n - 1
      BY <2>2
    <3> QED BY <3>1, <3>2 DEF Wrote
  <2> QED BY <2>1, <2>2
<1>10. ASSUME NEW q \in DOMAIN y.pte, NEW o \in Offsets, NEW b, b = q * PAGE_SIZE + o,
              NEW f, f = y.pte[q].frame
       PROVE  /\ b \in va .. va + filesz - 1 => z.mem[f][o] = "file"
              /\ b \in va + filesz .. va + memsz - 1 => z.mem[f][o] = "zero"
              /\ b \notin va .. va + memsz - 1 => z.mem[f][o] = y.mem[f][o]
  <2>1. w.mem[f][o] = IF b \in va .. va + filesz - 1 THEN "file" ELSE y.mem[f][o]
    BY <1>3, <1>10 DEF Wrote
  <2>2. z.mem[f][o] = IF b \in a .. a + n - 1 THEN "zero" ELSE w.mem[f][o]
    BY <1>4, <1>9, <1>10 DEF Wrote
  <2>3. b \in Nat
    BY <1>10, PagesAreNumbers, PageIs
  <2>4. a + n = va + memsz /\ a = va + filesz
    BY <1>5
  <2>5. /\ b \in va .. va + filesz - 1 => b \notin a .. a + n - 1
        /\ b \in va + filesz .. va + memsz - 1 => b \in a .. a + n - 1
        /\ b \notin va .. va + memsz - 1 => b \notin va .. va + filesz - 1 /\ b \notin a .. a + n - 1
    BY <2>3, <2>4
  <2> QED BY <2>1, <2>2, <2>5
<1>11. FilledIn(y, z, va, filesz, memsz)
  BY <1>10 DEF FilledIn
<1> QED BY <1>8, <1>11

(* A segment that is loaded without a failure is there, and the earlier    *)
(* ones are not touched.                                                   *)
LEMMA SegmentImage ==
  ASSUME NEW x \in Call, Tree(x), x.r = "ok", NEW seg \in Segment, seg.load, NEW bias \in Nat,
         seg.vaddr + bias + seg.memsz <= UINT_MOD - PAGE_SIZE,
         LoadSegment(x, seg, bias).r = "ok"
  PROVE  LET out == LoadSegment(x, seg, bias)
         IN  SegmentThere(out, out.mem, seg, bias) /\ Keeps(x, out)
<1> DEFINE va     == seg.vaddr + bias
           first  == RoundDown(va)
           n      == RoundUp(va - first * PAGE_SIZE + seg.memsz)
           perm   == [writable |-> seg.writable, userspace |-> TRUE]
           y      == vmm_allocate(x, first, n, perm, "junk")
           w      == load_segment(y, va, seg.filesz % UINT_MOD, seg.short)
           z      == vmm_zero(w, va + seg.filesz, seg.memsz - seg.filesz)
           end    == (first + n) * PAGE_SIZE
           out    == LoadSegment(x, seg, bias)
<1>1. \/ out = Fail(x)
      \/ out = y /\ y.r # "ok"
      \/ out = w /\ w.r # "ok"
      \/ out = z /\ z.r # "ok"
      \/ /\ ~(seg.memsz < seg.filesz) /\ y.r = "ok" /\ w.r = "ok" /\ z.r = "ok"
         /\ out = [z EXCEPT !.initial = IF end > @ THEN end ELSE @]
  BY Zenon DEF LoadSegment
<1>2. /\ va \in Nat /\ seg.memsz \in Nat /\ seg.filesz \in Nat /\ seg.writable \in BOOLEAN
      /\ va + seg.memsz <= UINT_MOD - PAGE_SIZE /\ out.r = "ok" /\ va = seg.vaddr + bias
  BY DEF Segment
<1> HIDE DEF va, out
<1>3. first \in Nat
  BY <1>2, Rounded
<1>4. \A b \in va .. va + seg.memsz - 1 : PageOf(b) \in first .. first + n - 1
  BY <1>2, SegmentPages
<1> HIDE DEF first
<1>5. n \in Nat
  <2>1. PAGE_SIZE \in Nat
    BY SpaceAssumption
  <2>2. va - first * PAGE_SIZE + seg.memsz \in Int
    BY <1>2, <1>3, <2>1
  <2> QED BY <2>2, Rounded
<1>6. perm \in Perms /\ perm.userspace /\ perm.writable = seg.writable /\ "junk" \in Bytes
  BY <1>2 DEF Perms, Bytes
<1> HIDE DEF n, perm
<1>7. AllocatedOK(x, first, n, perm, "junk", y)
  BY <1>3, <1>5, <1>6, AllocatedMeans
<1> HIDE DEF y
<1>8. y \in Call /\ Grown(x, y)
  BY <1>7 DEF AllocatedOK
<1>9. /\ seg.filesz <= seg.memsz /\ y.r = "ok" /\ w.r = "ok" /\ z.r = "ok"
      /\ out = [z EXCEPT !.initial = IF end > @ THEN end ELSE @]
  <2>1. Fail(x).r # "ok"
    BY FailMeans
  <2> HIDE DEF w, z, end
  <2> QED BY <1>1, <1>2, <2>1
<1>10. Tree(y) /\ PagesFilled(y, first, n, perm, "junk") /\ PagesNew(x, first, n)
  BY <1>7, <1>9 DEF AllocatedOK
<1>11. StoredOK(y, z) /\ FilledIn(y, z, va, seg.filesz, seg.memsz)
  <2>1. seg.filesz % UINT_MOD = seg.filesz
    <3>1. PAGE_SIZE \in Nat \ {0} /\ UINT_MOD \in Nat \ {0}
      BY SpaceAssumption
    <3>2. seg.filesz < UINT_MOD
      BY <1>2, <1>9, <3>1
    <3>3. \A a \in Nat : a < UINT_MOD => a % UINT_MOD = a
      BY <3>1
    <3> QED BY <1>2, <3>2, <3>3
  <2>2. PICK u, short : u = w /\ short = seg.short /\ u = load_segment(y, va, seg.filesz, short)
    BY <2>1
  <2>3. u.r = "ok" /\ z = vmm_zero(u, va + seg.filesz, seg.memsz - seg.filesz)
    BY <1>9, <2>2
  <2> HIDE DEF w, z
  <2> QED BY <1>2, <1>8, <1>9, <1>10, <2>2, <2>3, SegmentWritten
<1> HIDE DEF z, w
<1>12. out.mem = z.mem /\ out.pte = y.pte
  <2>1. z \in Call /\ z.pte = y.pte
    BY <1>11 DEF StoredOK
  <2>2. [z EXCEPT !.initial = IF end > @ THEN end ELSE @].mem = z.mem
        /\ [z EXCEPT !.initial = IF end > @ THEN end ELSE @].pte = z.pte
    <3> HIDE DEF end
    <3> QED BY <2>1 DEF Call
  <2> QED BY <1>9, <2>1, <2>2
<1>13. ASSUME NEW q \in first .. first + n - 1
       PROVE  q \in DOMAIN y.pte /\ y.pte[q].perm = perm /\ q \notin DOMAIN x.pte
  <2>1. PICK j \in 0 .. n - 1 : q = first + j
    <3>1. q - first \in 0 .. n - 1 /\ q = first + (q - first)
      BY <1>3, <1>5
    <3> QED BY <3>1
  <2> QED BY <1>10, <2>1 DEF PagesFilled, PagesNew
<1>14. ASSUME NEW o \in 0 .. seg.memsz - 1
       PROVE  ByteThere(out, out.mem, va + o, seg.writable, Content(seg, o))
  <2>1. PICK b \in Nat : b = va + o /\ b \in va .. va + seg.memsz - 1
    BY <1>2
  <2>2. PICK q, c : q = PageOf(b) /\ c = b % PAGE_SIZE
    OBVIOUS
  <2>3. c \in Offsets /\ q * PAGE_SIZE + c = b
    BY <2>2, AddressIs
  <2>4. q \in DOMAIN y.pte /\ y.pte[q].perm = perm
    BY <1>4, <1>13, <2>1, <2>2
  <2>5. UserPage(out, q, seg.writable)
    BY <1>6, <1>12, <2>4 DEF UserPage
  <2>6. z.mem[y.pte[q].frame][c] = Content(seg, o)
    <3>1. o < seg.filesz => b \in va .. va + seg.filesz - 1
      BY <1>2, <2>1
    <3>2. ~(o < seg.filesz) => b \in va + seg.filesz .. va + seg.memsz - 1
      BY <1>2, <2>1
    <3>3. /\ b \in va .. va + seg.filesz - 1 => z.mem[y.pte[q].frame][c] = "file"
          /\ b \in va + seg.filesz .. va + seg.memsz - 1 => z.mem[y.pte[q].frame][c] = "zero"
      BY <1>11, <2>3, <2>4 DEF FilledIn
    <3> QED BY <3>1, <3>2, <3>3 DEF Content
  <2> QED BY <1>12, <2>1, <2>2, <2>5, <2>6 DEF ByteThere
<1>15. SegmentThere(out, out.mem, seg, bias)
  BY <1>2, <1>14 DEF SegmentThere
<1>16. ASSUME NEW q \in DOMAIN x.pte
       PROVE  /\ q \in DOMAIN out.pte /\ out.pte[q] = x.pte[q]
              /\ out.mem[x.pte[q].frame] = x.mem[x.pte[q].frame]
  <2>1. q \in DOMAIN y.pte /\ y.pte[q] = x.pte[q]
    BY <1>8 DEF Grown
  <2>2. PICK f \in Frames : f = x.pte[q].frame
    BY PagesAreNumbers
  <2>3. y.mem[f] = x.mem[f]
    <3>1. f \notin x.free
      BY <2>2 DEF Tree, TreeOK, FramesOf
    <3> QED BY <1>8, <3>1 DEF Grown
  <2>4. ASSUME NEW o \in Offsets PROVE z.mem[f][o] = y.mem[f][o]
    <3>1. PICK b \in Nat : b = q * PAGE_SIZE + o /\ PageOf(b) = q
      BY PagesAreNumbers, PageIs
    <3>2. b \notin va .. va + seg.memsz - 1
      BY <1>4, <1>13, <3>1
    <3>3. f = y.pte[q].frame
      BY <2>1, <2>2
    <3> QED BY <1>11, <2>1, <3>1, <3>2, <3>3 DEF FilledIn
  <2>5. z.mem[f] = y.mem[f]
    <3>1. z.mem \in Memory /\ y.mem \in Memory
      BY <1>8, <1>11, CallFacts DEF StoredOK
    <3>2. z.mem[f] \in [Offsets -> Bytes] /\ y.mem[f] \in [Offsets -> Bytes]
      BY <3>1 DEF Memory
    <3> QED BY <2>4, <3>2
  <2> QED BY <1>12, <2>1, <2>2, <2>3, <2>5
<1>17. Keeps(x, out)
  BY <1>16 DEF Keeps
<1> QED BY <1>15, <1>17 DEF out

(* A program that is loaded without a failure is there.                    *)
ProgramThere(x, m, prog) ==
  \A k \in DOMAIN prog.segs :
    prog.segs[k].load => SegmentThere(x, m, prog.segs[k], LoadBias(prog))

LEMMA LoadImage ==
  ASSUME NEW t \in Call, Tree(t), t.r = "ok", NEW prog \in Program, LowProgram(prog),
         NEW x, x = LoadProgram(t, prog), x.r = "ok"
  PROVE  ProgramThere(x, x.mem, prog)
<1> DEFINE n == Len(prog.segs)
           bias == LoadBias(prog)
           There(c, k) == prog.segs[k].load => SegmentThere(c, c.mem, prog.segs[k], bias)
<1>1. PICK h : LoadRunOK(t, prog, h)
  BY LoadRun
<1>2. /\ h[0] = t /\ \A k \in 0 .. n : Loaded(t, h[k])
      /\ \A k \in 1 .. n : h[k] = LoadStep(h[k - 1], prog, k)
      /\ x = Fail(t) \/ x = h[n]
  BY <1>1 DEF LoadRunOK
<1>3. /\ n \in Nat /\ DOMAIN prog.segs = 1 .. n /\ \A k \in 1 .. n : prog.segs[k] \in Segment
      /\ bias \in Nat
  BY SpaceAssumption DEF Program, LoadBias
<1>4. \A k \in 1 .. n : prog.segs[k].load =>
        prog.segs[k].vaddr + bias + prog.segs[k].memsz <= UINT_MOD - PAGE_SIZE
  BY <1>3 DEF LowProgram
<1>b. bias = LoadBias(prog)
  OBVIOUS
<1> HIDE DEF n, bias
<1> DEFINE T == {k \in 0 .. n : h[k].r = "ok" => \A j \in 1 .. k : There(h[k], j)}
<1>5. 0 \in T
  BY <1>3
<1>6. ASSUME NEW k \in 1 .. n, k - 1 \in T PROVE k \in T
  <2> SUFFICES ASSUME h[k].r = "ok", NEW j \in 1 .. k PROVE There(h[k], j)
    <3> HIDE DEF There
    <3> QED BY <1>3
  <2>1. PICK c, y : c = h[k - 1] /\ y = h[k]
    OBVIOUS
  <2>2. y = LoadStep(c, prog, k) /\ y.r = "ok"
    BY <1>2, <2>1
  <2>3. c.r = "ok"
    BY <2>2 DEF LoadStep
  <2>4. y = LoadSegment(c, prog.segs[k], bias)
    BY <1>b, <2>2, <2>3 DEF LoadStep
  <2>5. c \in Call /\ Tree(c)
    <3>1. Loaded(t, c)
      BY <1>2, <1>3, <2>1
    <3> QED BY <2>3, <3>1 DEF Loaded
  <2>6. \A i \in 1 .. k - 1 : There(c, i)
    <3> HIDE DEF There
    <3> QED BY <1>6, <2>1, <2>3
  <2>7. CASE ~prog.segs[k].load
    <3>1. y = c
      BY <2>4, <2>7 DEF LoadSegment
    <3>2. CASE j = k
      BY <2>7, <3>2
    <3>3. CASE j # k
      <4>1. j \in 1 .. k - 1
        BY <1>3, <3>3
      <4>2. There(c, j)
        BY <2>6, <4>1
      <4> QED BY <2>1, <3>1, <4>2
    <3> QED BY <3>2, <3>3
  <2>8. CASE prog.segs[k].load
    <3>1. PICK seg \in Segment : seg = prog.segs[k]
      BY <1>3
    <3>2. seg.vaddr + bias + seg.memsz <= UINT_MOD - PAGE_SIZE
      BY <1>4, <2>8, <3>1
    <3>3. SegmentThere(y, y.mem, seg, bias) /\ Keeps(c, y)
      BY <1>3, <2>2, <2>3, <2>4, <2>5, <2>8, <3>1, <3>2, SegmentImage
    <3>4. CASE j = k
      BY <2>1, <3>1, <3>3, <3>4
    <3>5. CASE j # k
      <4>1. j \in 1 .. k - 1
        BY <1>3, <3>5
      <4>2. There(c, j)
        BY <2>6, <4>1
      <4>3. There(y, j)
        BY <3>3, <4>2, SegmentStays
      <4> QED BY <2>1, <4>3
    <3> QED BY <3>4, <3>5
  <2> QED BY <2>7, <2>8
<1>7. n \in T
  <2>1. T \in SUBSET (0 .. n)
    OBVIOUS
  <2> HIDE DEF T
  <2>2. T = 0 .. n
    BY <1>3, <1>5, <1>6, <2>1, UpTo
  <2> QED BY <1>3, <2>2
<1>8. x = h[n]
  BY <1>2, FailMeans
<1>9. \A j \in 1 .. n : There(x, j)
  <2> HIDE DEF There
  <2> QED BY <1>7, <1>8
<1> QED BY <1>3, <1>9, <1>b DEF ProgramThere

(* The arguments are above the program.                                    *)
LEMMA PushImage ==
  ASSUME NEW x \in Call, Tree(x), x.r = "ok", NEW prog \in Program, LowProgram(prog),
         ProgramThere(x, x.mem, prog)
  PROVE  ProgramThere(PushArgs(x), PushArgs(x).mem, prog)
<1>1. PICK top \in Nat : top = USERSPACE_VA_MAX - 1 /\ UINT_MOD - 1 <= top
  <2>1. /\ USERSPACE_VA_MAX \in Nat \ {0} /\ UINT_MOD \in Nat \ {0}
        /\ USERSPACE_VA_MAX % UINT_MOD = 0
    BY SpaceAssumption
  <2>2. USERSPACE_VA_MAX >= UINT_MOD
    <3>1. USERSPACE_VA_MAX < UINT_MOD => USERSPACE_VA_MAX % UINT_MOD = USERSPACE_VA_MAX
      BY <2>1
    <3> QED BY <2>1, <3>1
  <2> QED BY <2>1, <2>2
<1>2. PICK m : m = vmm_memcpy(x, top, 1, "arg")
  OBVIOUS
<1>5. PICK y : y = PushArgs(x)
  OBVIOUS
<1>6. y.pte = x.pte /\ y.mem = m.mem
  <2>1. StoredOK(x, y) /\ y.mem = m.mem
    BY <1>1, <1>2, <1>5, PushStored
  <2> QED BY <2>1 DEF StoredOK
<1>7. ASSUME NEW q \in DOMAIN x.pte, NEW o \in Offsets, q * PAGE_SIZE + o < UINT_MOD - 1
      PROVE  m.mem[x.pte[q].frame][o] = x.mem[x.pte[q].frame][o]
  <2>1. CASE m = Fail(x)
    BY <2>1, FailMeans
  <2>2. CASE m = Store(x, top, 1, "arg")
    <3>1. Wrote(x, m, top, 1, "arg")
      BY <2>2, StoreBytes
    <3>2. PICK b \in Nat : b = q * PAGE_SIZE + o
      BY PagesAreNumbers, PageIs
    <3>3. b \notin top .. top + 1 - 1
      BY <1>1, <1>7, <3>2, SpaceAssumption
    <3> QED BY <3>1, <3>2, <3>3 DEF Wrote
  <2>3. CASE m = [x EXCEPT !.r = "page fault"]
    BY <2>3, SetResult DEF Results
  <2>4. m = Fail(x) \/ m = Store(x, top, 1, "arg") \/ m = [x EXCEPT !.r = "page fault"]
    BY <1>2 DEF vmm_memcpy
  <2> QED BY <2>1, <2>2, <2>3, <2>4
<1>8. ASSUME NEW k \in DOMAIN prog.segs, prog.segs[k].load
      PROVE  SegmentThere(y, y.mem, prog.segs[k], LoadBias(prog))
  <2>1. PICK seg \in Segment, bias \in Nat : seg = prog.segs[k] /\ bias = LoadBias(prog)
    BY SpaceAssumption DEF Program, LoadBias
  <2>2. SegmentThere(x, x.mem, seg, bias) /\ seg.vaddr + bias + seg.memsz <= UINT_MOD - PAGE_SIZE
    BY <1>8, <2>1 DEF ProgramThere, LowProgram
  <2>3. seg.vaddr \in Nat /\ seg.memsz \in Nat
    BY DEF Segment
  <2>4. ASSUME NEW o \in 0 .. seg.memsz - 1
        PROVE  ByteThere(y, y.mem, seg.vaddr + bias + o, seg.writable, Content(seg, o))
    <3>1. PICK a \in Nat : a = seg.vaddr + bias + o /\ a < UINT_MOD - 1
      <4>1. PAGE_SIZE \in Nat \ {0} /\ UINT_MOD \in Nat \ {0}
        BY SpaceAssumption
      <4> QED BY <2>2, <2>3, <4>1
    <3>2. PICK v, w : v = Content(seg, o) /\ w = seg.writable
      OBVIOUS
    <3>3. ByteThere(x, x.mem, a, w, v)
      BY <2>2, <3>1, <3>2 DEF SegmentThere
    <3>4. PICK q, c : q = PageOf(a) /\ c = a % PAGE_SIZE
      OBVIOUS
    <3>5. UserPage(x, q, w) /\ x.mem[x.pte[q].frame][c] = v /\ q \in DOMAIN x.pte
      BY <3>3, <3>4 DEF ByteThere, UserPage
    <3>6. c \in Offsets /\ q * PAGE_SIZE + c = a
      BY <3>4, AddressIs
    <3>7. m.mem[x.pte[q].frame][c] = v
      BY <1>7, <3>1, <3>5, <3>6
    <3>8. UserPage(y, q, w) /\ y.mem[y.pte[q].frame][c] = v
      BY <1>6, <3>5, <3>7 DEF UserPage
    <3>9. ByteThere(y, y.mem, a, w, v)
      BY <3>4, <3>8 DEF ByteThere
    <3> QED BY <3>1, <3>2, <3>9
  <2>5. SegmentThere(y, y.mem, seg, bias)
    BY <2>4 DEF SegmentThere
  <2> QED BY <2>1, <2>5
<1>9. ProgramThere(y, y.mem, prog)
  BY <1>8 DEF ProgramThere
<1> QED BY <1>5, <1>9

-----------------------------------------------------------------------------
(* The inductive invariant.                                                *)

Space ==
  [root : Frames, kcopy : SUBSET Frames, tab : Tables, pte : Entries, stray : SUBSET Frames,
   prog : Programs, initial_data_segment : Nat, current_sbrk : Nat, lowest : Int]

(* The frames of the user half of an address space.                        *)
TreeFrames(s) == Range(s.tab) \cup FramesOf(s.pte)

(* Every frame of an address space has one use.                            *)
SpaceOK(s) ==
  /\ TreeOK(s.tab, s.pte, {})
  /\ s.root \notin s.kcopy /\ s.root \notin s.stray /\ s.root \notin TreeFrames(s)
  /\ s.kcopy \cap s.stray = {} /\ s.kcopy \cap TreeFrames(s) = {}
  /\ s.stray \cap TreeFrames(s) = {}

(* Every page that starts between the end of the program and the break is  *)
(* there for the program to write, and zero.                               *)
HeapOK(s, m) ==
  /\ s.initial_data_segment % PAGE_SIZE = 0
  /\ s.initial_data_segment < UINT_MOD /\ s.current_sbrk < UINT_MOD
  /\ \A page \in Nat :
       s.initial_data_segment <= page * PAGE_SIZE /\ page * PAGE_SIZE < s.current_sbrk =>
         UserPage(s, page, TRUE) /\ m[s.pte[page].frame] = Filled("zero")

(* As far as sbrk has not taken them away, the bytes of the program are    *)
(* where proc_exec put them.                                               *)
ImageOK(s, m) ==
  LowProgram(s.prog) =>
    \A k \in DOMAIN s.prog.segs :
      LET seg == s.prog.segs[k]
          va  == seg.vaddr + LoadBias(s.prog)
      IN  seg.load => \A o \in 0 .. seg.memsz - 1 :
            PageOf(va + o) * PAGE_SIZE <= s.lowest =>
              ByteThere(s, m, va + o, seg.writable, Content(seg, o))

ContentOK(s, m) == HeapOK(s, m) /\ ImageOK(s, m)

Own(s) == IF s = NoSpace THEN {} ELSE Owned(s)

Shape(s) == s = NoSpace \/ (s \in Space /\ SpaceOK(s))

(* Frames are free, lost or owned, and no two of these.                    *)
Apart(sp, fr, lo) ==
  /\ \A p \in Procs : Own(sp[p]) \cap fr = {} /\ Own(sp[p]) \cap lo = {}
  /\ \A p, q \in Procs : p # q => Own(sp[p]) \cap Own(sp[q]) = {}
  /\ fr \cap lo = {}
  /\ \A f \in Frames : f \in fr \/ f \in lo \/ \E p \in Procs : f \in Own(sp[p])

Contents(sp, m) == \A p \in Procs : sp[p] # NoSpace => ContentOK(sp[p], m)

Panics == {"none", "out of memory", "remap", "size", "sbrk: OOM", "walk", "page fault",
           "load_segment", "non-existant page", "freed twice"}

(* What holds of a kernel that has panicked as well.                       *)
Shapes ==
  /\ free \in SUBSET Frames /\ lost \in SUBSET Frames /\ mem \in Memory /\ panic \in Panics
  /\ DOMAIN space = Procs /\ space = [p \in Procs |-> space[p]]
  /\ \A p \in Procs : Shape(space[p])

SpaceInv == Shapes /\ (Running => Apart(space, free, lost) /\ Contents(space, mem))

LEMMA NotNoSpace ==
  ASSUME NEW s \in Space
  PROVE  s # NoSpace
<1>1. s.root \in Frames /\ 0 \notin Frames
  BY SpaceAssumption DEF Space
<1>2. NoSpace.root = 0
  BY DEF NoSpace
<1> QED BY <1>1, <1>2

LEMMA OwnedIs ==
  ASSUME NEW s
  PROVE  Owned(s) = {s.root} \cup s.kcopy \cup s.stray \cup TreeFrames(s)
BY DEF Owned, Returned, TreeFrames, Leaves, FramesOf

LEMMA OwnedFrames ==
  ASSUME NEW s \in Space
  PROVE  Owned(s) \subseteq Frames
<1>1. /\ s.root \in Frames /\ s.kcopy \subseteq Frames /\ s.stray \subseteq Frames
      /\ s.tab \in Tables /\ s.pte \in Entries
  BY DEF Space
<1>2. TreeFrames(s) \subseteq Frames
  BY <1>1, TableFacts, EntryFacts DEF TreeFrames
<1> QED BY <1>1, <1>2, OwnedIs

(* The heap is where it was while the memory of its frames is.             *)
LEMMA HeapStays ==
  ASSUME NEW s \in Space, NEW m, NEW m2, HeapOK(s, m), \A f \in Owned(s) : m2[f] = m[f]
  PROVE  HeapOK(s, m2)
<1>1. ASSUME NEW page \in Nat, s.initial_data_segment <= page * PAGE_SIZE,
             page * PAGE_SIZE < s.current_sbrk
      PROVE  UserPage(s, page, TRUE) /\ m2[s.pte[page].frame] = Filled("zero")
  <2>1. UserPage(s, page, TRUE) /\ m[s.pte[page].frame] = Filled("zero")
    BY <1>1 DEF HeapOK
  <2>2. s.pte[page].frame \in Owned(s)
    BY <2>1 DEF UserPage, Owned, Returned, Leaves
  <2> QED BY <2>1, <2>2
<1> QED BY <1>1 DEF HeapOK

(* A program keeps the bytes of the pages that are kept.                   *)
LEMMA ImageMoves ==
  ASSUME NEW s \in Space, NEW s2 \in Space, NEW m, NEW m2, ImageOK(s, m),
         s2.prog = s.prog, s2.lowest <= s.lowest,
         \A q \in DOMAIN s.pte : q * PAGE_SIZE <= s2.lowest =>
           /\ q \in DOMAIN s2.pte /\ s2.pte[q] = s.pte[q]
           /\ m2[s.pte[q].frame] = m[s.pte[q].frame]
  PROVE  ImageOK(s2, m2)
<1> SUFFICES ASSUME LowProgram(s.prog), NEW k \in DOMAIN s.prog.segs, s.prog.segs[k].load,
                    NEW o \in 0 .. s.prog.segs[k].memsz - 1,
                    PageOf(s.prog.segs[k].vaddr + LoadBias(s.prog) + o) * PAGE_SIZE <= s2.lowest
             PROVE  ByteThere(s2, m2, s.prog.segs[k].vaddr + LoadBias(s.prog) + o,
                              s.prog.segs[k].writable, Content(s.prog.segs[k], o))
  BY DEF ImageOK
<1>1. s.prog \in Program /\ s.lowest \in Int /\ s2.lowest \in Int
  BY SpaceAssumption DEF Space
<1>2. PICK seg \in Segment, bias \in Nat : seg = s.prog.segs[k] /\ bias = LoadBias(s.prog)
  BY <1>1, SpaceAssumption DEF Program, LoadBias
<1>3. PICK a \in Nat : a = seg.vaddr + bias + o
  BY <1>2 DEF Segment
<1>4. PICK v, w : v = Content(seg, o) /\ w = seg.writable
  OBVIOUS
<1>5. PICK q \in Nat : q = PageOf(a) /\ q * PAGE_SIZE \in Nat
  BY PageBelow
<1>6. q * PAGE_SIZE <= s2.lowest
  BY <1>2, <1>3, <1>5
<1>7. q * PAGE_SIZE <= s.lowest
  BY <1>1, <1>5, <1>6
<1>8. ByteThere(s, m, a, w, v)
  BY <1>2, <1>3, <1>4, <1>5, <1>7 DEF ImageOK
<1>9. UserPage(s, q, w) /\ m[s.pte[q].frame][a % PAGE_SIZE] = v /\ q \in DOMAIN s.pte
  BY <1>5, <1>8 DEF ByteThere, UserPage
<1>10. /\ q \in DOMAIN s2.pte /\ s2.pte[q] = s.pte[q]
       /\ m2[s.pte[q].frame] = m[s.pte[q].frame]
  BY <1>6, <1>9
<1>11. UserPage(s2, q, w) /\ m2[s2.pte[q].frame][a % PAGE_SIZE] = v
  BY <1>9, <1>10 DEF UserPage
<1>12. ByteThere(s2, m2, a, w, v)
  BY <1>5, <1>11 DEF ByteThere
<1> QED BY <1>2, <1>3, <1>4, <1>12

LEMMA ContentStays ==
  ASSUME NEW s \in Space, NEW m, NEW m2, ContentOK(s, m), \A f \in Owned(s) : m2[f] = m[f]
  PROVE  ContentOK(s, m2)
<1>1. HeapOK(s, m2)
  BY HeapStays DEF ContentOK
<1>2. \A q \in DOMAIN s.pte : m2[s.pte[q].frame] = m[s.pte[q].frame]
  BY DEF Owned, Returned, Leaves
<1>3. s.lowest <= s.lowest
  BY DEF Space
<1>4. ImageOK(s, m2)
  BY <1>2, <1>3, ImageMoves DEF ContentOK
<1> QED BY <1>1, <1>4 DEF ContentOK

(* A call for one process that moves frames between it, the allocator and  *)
(* the lost ones, and writes no others.                                    *)
LEMMA Exchange ==
  ASSUME NEW p \in Procs, Shapes, Apart(space, free, lost), Contents(space, mem),
         NEW s, NEW fr, NEW lo, NEW m, Shape(s), s # NoSpace => ContentOK(s, m),
         Own(s) \cap fr = {}, Own(s) \cap lo = {}, fr \cap lo = {},
         Own(s) \cup fr \cup lo = Own(space[p]) \cup free \cup lost,
         \A f \in Frames \ (Own(space[p]) \cup free \cup lost) : m[f] = mem[f]
  PROVE  /\ Apart([space EXCEPT ![p] = s], fr, lo) /\ Contents([space EXCEPT ![p] = s], m)
         /\ \A q \in Procs : Shape([space EXCEPT ![p] = s][q])
<1> DEFINE sp == [space EXCEPT ![p] = s]
<1>0. /\ sp[p] = s /\ \A q \in Procs : q # p => sp[q] = space[q]
      /\ \A q \in Procs : Shape(space[q])
  BY DEF Shapes
<1> HIDE DEF sp
<1>1. ASSUME NEW q \in Procs, q # p
      PROVE  /\ Own(space[q]) \cap (Own(s) \cup fr \cup lo) = {}
             /\ Own(space[q]) \subseteq Frames
  <2>1. Own(space[q]) \cap (Own(space[p]) \cup free \cup lost) = {}
    BY <1>1 DEF Apart
  <2>2. Own(space[q]) \subseteq Frames
    BY <1>0, OwnedFrames DEF Own, Shape
  <2> QED BY <2>1, <2>2
<1>2. \A q \in Procs : Own(sp[q]) \cap fr = {} /\ Own(sp[q]) \cap lo = {}
  BY <1>0, <1>1
<1>3. \A q, r \in Procs : q # r => Own(sp[q]) \cap Own(sp[r]) = {}
  <2> SUFFICES ASSUME NEW q \in Procs, NEW r \in Procs, q # r
               PROVE  Own(sp[q]) \cap Own(sp[r]) = {}
    OBVIOUS
  <2>1. CASE q = p
    BY <1>0, <1>1, <2>1
  <2>2. CASE r = p
    BY <1>0, <1>1, <2>2
  <2>3. CASE q # p /\ r # p
    BY <1>0, <2>3 DEF Apart
  <2> QED BY <2>1, <2>2, <2>3
<1>4. \A f \in Frames : f \in fr \/ f \in lo \/ \E q \in Procs : f \in Own(sp[q])
  <2> SUFFICES ASSUME NEW f \in Frames, f \notin fr, f \notin lo
               PROVE  \E q \in Procs : f \in Own(sp[q])
    OBVIOUS
  <2>1. CASE f \in Own(s)
    BY <1>0, <2>1
  <2>2. CASE f \notin Own(s)
    <3>1. f \notin Own(space[p]) /\ f \notin free /\ f \notin lost
      BY <2>2
    <3>2. PICK q \in Procs : f \in Own(space[q])
      BY <3>1 DEF Apart
    <3> QED BY <1>0, <3>1, <3>2
  <2> QED BY <2>1, <2>2
<1>5. Apart(sp, fr, lo)
  BY <1>2, <1>3, <1>4 DEF Apart
<1>6. ASSUME NEW q \in Procs, sp[q] # NoSpace PROVE ContentOK(sp[q], m)
  <2>1. CASE q = p
    BY <1>0, <1>6, <2>1
  <2>2. CASE q # p
    <3>1. sp[q] = space[q] /\ space[q] \in Space
      BY <1>0, <1>6, <2>2 DEF Shape
    <3>2. ContentOK(space[q], mem)
      BY <1>6, <3>1 DEF Contents
    <3>3. Own(space[q]) = Owned(space[q])
      BY <1>6, <3>1 DEF Own
    <3>4. \A f \in Owned(space[q]) : m[f] = mem[f]
      BY <1>1, <2>2, <3>3
    <3> QED BY <3>1, <3>2, <3>4, ContentStays
  <2> QED BY <2>1, <2>2
<1>7. Contents(sp, m)
  BY <1>6 DEF Contents
<1>8. \A q \in Procs : Shape(sp[q])
  BY <1>0
<1> QED BY <1>5, <1>7, <1>8 DEF sp


-----------------------------------------------------------------------------
(* proc_exec.                                                              *)

LEMMA EmptyFunctions ==
  <<>> \in Tables /\ <<>> \in Entries
<1>1. <<>> \in [{} -> Frames] /\ <<>> \in [{} -> Entry]
  OBVIOUS
<1>2. {} \in SUBSET TableNumbers /\ {} \in SUBSET UserPages
  OBVIOUS
<1> QED BY <1>1, <1>2 DEF Tables, Entries

LEMMA BlankFresh ==
  ASSUME Shapes, NEW left \in Grants
  PROVE  Fresh(Blank(left)) /\ Blank(left).free = free /\ Blank(left).mem = mem
<1>1. /\ free \in SUBSET Frames /\ mem \in Memory /\ left \in Int /\ "ok" \in Results
      /\ <<>> \in Tables /\ <<>> \in Entries
  BY SpaceAssumption, EmptyFunctions DEF Shapes, Results
<1>2. Blank(left) \in Call
  BY <1>1 DEF Blank, Call
<1> QED BY <1>2 DEF Blank, Fresh

(* What vmm_user_pagetable_free does to a record of a page table.          *)
LEMMA ReturnedIs ==
  ASSUME NEW x
  PROVE  Returned(x) = {x.root} \cup TreeFrames(x)
BY DEF Returned, TreeFrames, Leaves, FramesOf

LEMMA FreedMeans ==
  ASSUME NEW m \in Memory, NEW frames
  PROVE  Freed(m, frames) \in Memory /\ \A f \in Frames \ frames : Freed(m, frames)[f] = m[f]
<1>1. Filled("old") \in [Offsets -> Bytes]
  BY DEF Filled, Bytes
<1>2. Freed(m, frames) = [f \in Frames |-> IF f \in frames THEN Filled("old") ELSE m[f]]
  BY DEF Freed, Filled
<1> QED BY <1>1, <1>2 DEF Memory

(* A step that ends in a panic need only keep the shapes.                  *)
LEMMA PanicStep ==
  ASSUME Shapes, space' = space, free' \in SUBSET Frames, lost' \in SUBSET Frames,
         mem' \in Memory, panic' \in Panics \ {"none"}
  PROVE  SpaceInv'
<1>1. Shapes'
  BY DEF Shapes
<1>2. ~Running'
  BY DEF Running
<1> QED BY <1>1, <1>2 DEF SpaceInv

(* Nor need a step of one process after which the allocator is broken.     *)
LEMMA BrokenStep ==
  ASSUME NEW p \in Procs, Shapes, NEW s, space' = [space EXCEPT ![p] = s], Shape(s),
         free' \in SUBSET Frames, lost' \in SUBSET Frames, mem' \in Memory,
         panic' \in Panics \ {"none"}
  PROVE  SpaceInv'
<1>1. /\ DOMAIN space' = Procs /\ space' = [q \in Procs |-> space'[q]]
      /\ space'[p] = s /\ \A q \in Procs : q # p => space'[q] = space[q]
  BY DEF Shapes
<1>2. \A q \in Procs : Shape(space'[q])
  BY <1>1 DEF Shapes
<1>3. Shapes'
  BY <1>1, <1>2 DEF Shapes
<1>4. ~Running'
  BY DEF Running
<1> QED BY <1>3, <1>4 DEF SpaceInv

(* A step of one process that goes on.                                     *)
LEMMA GoodStep ==
  ASSUME NEW p \in Procs, Shapes, Apart(space, free, lost), Contents(space, mem),
         NEW s, space' = [space EXCEPT ![p] = s], panic' = panic,
         free' \in SUBSET Frames, lost' \in SUBSET Frames, mem' \in Memory,
         Shape(s), s # NoSpace => ContentOK(s, mem'),
         Own(s) \cap free' = {}, Own(s) \cap lost' = {}, free' \cap lost' = {},
         Own(s) \cup free' \cup lost' = Own(space[p]) \cup free \cup lost,
         \A f \in Frames \ (Own(space[p]) \cup free \cup lost) : mem'[f] = mem[f]
  PROVE  SpaceInv'
<1> DEFINE sp == [space EXCEPT ![p] = s]
<1>1. Apart(sp, free', lost') /\ Contents(sp, mem') /\ \A q \in Procs : Shape(sp[q])
  BY Exchange
<1>2. DOMAIN sp = Procs /\ sp = [q \in Procs |-> sp[q]]
  BY DEF Shapes
<1> HIDE DEF sp
<1>3. space' = sp
  BY DEF sp
<1>4. Shapes'
  BY <1>1, <1>2, <1>3 DEF Shapes
<1>5. Apart(space, free, lost)' /\ Contents(space, mem)'
  BY <1>1, <1>3 DEF Apart, Contents
<1> QED BY <1>4, <1>5 DEF SpaceInv


LEMMA ExecStep ==
  ASSUME SpaceInv, NEW p \in Procs, NEW prog \in Programs, NEW left \in Grants,
         proc_exec(p, prog, left)
  PROVE  SpaceInv'
<1> DEFINE b == Blank(left)
           t == vmm_user_pagetable_new(b)
           x == LoadProgram(t, prog)
           y == PushArgs(x)
           initial == RoundUp(x.initial) * PAGE_SIZE
           new == [root |-> y.root, kcopy |-> y.kcopy, tab |-> y.tab, pte |-> y.pte,
                   stray |-> y.stray, prog |-> prog,
                   initial_data_segment |-> initial, current_sbrk |-> initial,
                   lowest |-> initial]
<1>1. space[p] = NoSpace /\ panic = "none"
  BY DEF proc_exec
<1>2. (CASE t.r = "fail" ->
                 /\ panic' = "out of memory"
                 /\ free' = t.free /\ mem' = t.mem
                 /\ lost' = lost \cup t.kcopy \cup ({t.root} \ {0})
                 /\ UNCHANGED space
        [] t.r = "ok" /\ x.r = "fail" ->
                 vmm_user_pagetable_free(x) /\ UNCHANGED <<space, panic>>
        [] t.r = "ok" /\ x.r = "ok" /\ y.r = "ok" ->
                 /\ space' = [space EXCEPT ![p] = new]
                 /\ free' = y.free /\ mem' = y.mem
                 /\ UNCHANGED <<lost, panic>>
        [] OTHER -> /\ panic' = IF x.r # "ok" THEN x.r ELSE y.r
                    /\ UNCHANGED <<space, free, mem, lost>>)
  BY Zenon DEF proc_exec
<1>3. Shapes /\ Apart(space, free, lost) /\ Contents(space, mem)
  BY <1>1 DEF SpaceInv, Running
<1>4. Fresh(b) /\ b.free = free /\ b.mem = mem
  BY <1>3, BlankFresh
<1> HIDE DEF b
<1>5. MadeOK(b, t)
  BY <1>4, MadeMeans
<1>6. /\ t \in Call /\ t.r \in {"ok", "fail"} /\ t.root \in Frames \cup {0}
      /\ \A f \in Frames \ free : t.mem[f] = mem[f]
  BY <1>4, <1>5 DEF MadeOK
<1>7. t.r = "ok" =>
        /\ Tree(t) /\ t.root \in Frames
        /\ t.root \notin t.kcopy /\ t.root \notin t.stray /\ t.root \notin Pool(t)
        /\ t.kcopy \cap t.stray = {} /\ t.kcopy \cap Pool(t) = {} /\ t.stray \cap Pool(t) = {}
        /\ free = {t.root} \cup t.kcopy \cup t.stray \cup Pool(t)
  BY <1>4, <1>5 DEF MadeOK
<1> HIDE DEF t
<1>8. prog \in Program
  BY SpaceAssumption
<1>9. t.r = "ok" => Loaded(t, x)
  BY <1>6, <1>7, <1>8, LoadMeans
<1> HIDE DEF x
<1>10. t.r = "ok" /\ x.r = "ok" => Loaded(t, y) /\ y.r \in Results \ {"fail"}
  BY <1>6, <1>9, PushMeans
<1> HIDE DEF y
<1>f. /\ free \in SUBSET Frames /\ lost \in SUBSET Frames /\ mem \in Memory
  BY <1>3 DEF Shapes
<1>o. Own(space[p]) = {} /\ free \cap lost = {}
  BY <1>1, <1>3 DEF Own, Apart
<1>11. CASE t.r = "fail"
  <2>1. /\ panic' = "out of memory" /\ free' = t.free /\ mem' = t.mem /\ space' = space
        /\ lost' = lost \cup t.kcopy \cup ({t.root} \ {0})
    BY <1>2, <1>11
  <2>2. free' \in SUBSET Frames /\ mem' \in Memory /\ lost' \in SUBSET Frames
    BY <1>6, <1>f, <2>1, CallFacts
  <2>3. panic' \in Panics \ {"none"}
    BY <2>1 DEF Panics
  <2> QED BY <1>3, <2>1, <2>2, <2>3, PanicStep
<1>12. CASE t.r = "ok" /\ x.r = "fail"
  <2>1. vmm_user_pagetable_free(x) /\ space' = space /\ panic' = panic
    BY <1>2, <1>12
  <2>2. /\ free' = x.free \cup Returned(x) /\ mem' = Freed(x.mem, Returned(x))
        /\ lost' = lost \cup x.kcopy \cup x.stray
    BY <2>1 DEF vmm_user_pagetable_free
  <2>3. /\ x \in Call /\ x.root = t.root /\ x.kcopy = t.kcopy /\ x.stray = t.stray
        /\ \A f \in Frames \ Pool(t) : x.mem[f] = t.mem[f]
        /\ Tree(x) /\ Pool(x) = Pool(t)
    BY <1>9, <1>12 DEF Loaded
  <2>4. x.free \cup Returned(x) = {t.root} \cup Pool(t) /\ Returned(x) \subseteq {t.root} \cup Pool(t)
    BY <2>3, ReturnedIs DEF Pool, TreeFrames
  <2>5. free' \cap lost' = {} /\ free' \cup lost' = free \cup lost
    BY <1>7, <1>12, <1>o, <2>2, <2>3, <2>4
  <2>6. free' \in SUBSET Frames /\ lost' \in SUBSET Frames
    BY <1>f, <2>5
  <2>7. mem' \in Memory /\ \A f \in Frames \ Returned(x) : mem'[f] = x.mem[f]
    <3>1. x.mem \in Memory
      BY <2>3, CallFacts
    <3> QED BY <2>2, <3>1, FreedMeans
  <2>8. \A f \in Frames \ (Own(space[p]) \cup free \cup lost) : mem'[f] = mem[f]
    <3> SUFFICES ASSUME NEW f \in Frames \ (Own(space[p]) \cup free \cup lost)
                 PROVE  mem'[f] = mem[f]
      OBVIOUS
    <3>1. f \notin Pool(t) /\ f \notin Returned(x)
      BY <1>7, <1>12, <2>4
    <3>2. t.mem[f] = mem[f]
      BY <1>6
    <3> QED BY <2>3, <2>7, <3>1, <3>2
  <2>9. space' = [space EXCEPT ![p] = NoSpace]
    BY <1>1, <1>3, <2>1 DEF Shapes
  <2>10. Shape(NoSpace) /\ Own(NoSpace) = {}
    BY DEF Shape, Own
  <2> QED BY <1>3, <1>o, <2>1, <2>5, <2>6, <2>7, <2>8, <2>9, <2>10, GoodStep
<1>13. CASE t.r = "ok" /\ x.r = "ok" /\ y.r = "ok"
  <2>1. /\ space' = [space EXCEPT ![p] = new] /\ free' = y.free /\ mem' = y.mem
        /\ lost' = lost /\ panic' = panic
    BY <1>2, <1>13
  <2>2. /\ y \in Call /\ y.root = t.root /\ y.kcopy = t.kcopy /\ y.stray = t.stray
        /\ \A f \in Frames \ Pool(t) : y.mem[f] = t.mem[f]
        /\ Tree(y) /\ Pool(y) = Pool(t)
    BY <1>10, <1>13 DEF Loaded
  <2>3. /\ free' \in SUBSET Frames /\ lost' \in SUBSET Frames /\ mem' \in Memory
        /\ y.kcopy \in SUBSET Frames /\ y.stray \in SUBSET Frames /\ y.tab \in Tables
        /\ y.pte \in Entries
    BY <1>f, <2>1, <2>2, CallFacts
  <2>4. initial \in Nat /\ initial % PAGE_SIZE = 0 /\ initial < UINT_MOD
    <3>1. x \in Call
      BY <1>9, <1>13 DEF Loaded
    <3>2. x.initial \in Int
      BY <3>1, CallFacts
    <3>3. PAGE_SIZE \in Nat \ {0} /\ UINT_MOD \in Nat \ {0}
      BY SpaceAssumption
    <3>4. PICK a \in Nat : a = (x.initial + PAGE_SIZE - 1) % UINT_MOD /\ a < UINT_MOD
      BY <3>2, <3>3
    <3>5. PICK q \in Nat : q = a \div PAGE_SIZE /\ q * PAGE_SIZE <= a
      BY <3>3, <3>4
    <3>6. initial = q * PAGE_SIZE
      BY <3>4, <3>5 DEF RoundUp, PageOf
    <3>7. q * PAGE_SIZE \in Nat /\ (q * PAGE_SIZE) % PAGE_SIZE = 0
      BY <3>3, <3>5
    <3> HIDE DEF initial
    <3> QED BY <3>3, <3>4, <3>5, <3>6, <3>7
  <2> HIDE DEF initial
  <2>5. new \in Space
    BY <1>7, <1>13, <2>2, <2>3, <2>4 DEF Space
  <2>6. /\ new.root = t.root /\ new.kcopy = t.kcopy /\ new.stray = t.stray /\ new.tab = y.tab
        /\ new.pte = y.pte /\ new.initial_data_segment = initial /\ new.current_sbrk = initial
        /\ new.prog = prog
    BY <2>2
  <2> HIDE DEF new
  <2>7. /\ TreeOK(y.tab, y.pte, {}) /\ y.free \cap TreeFrames(new) = {}
        /\ y.free \cup TreeFrames(new) = Pool(t)
    BY <2>2, <2>6 DEF Tree, TreeOK, TreeFrames, Pool
  <2>8. SpaceOK(new)
    BY <1>7, <1>13, <2>6, <2>7 DEF SpaceOK
  <2>9. HeapOK(new, mem')
    <3>1. \A page \in Nat : page * PAGE_SIZE \in Nat
      BY SpaceAssumption
    <3>2. \A page \in Nat : ~(initial <= page * PAGE_SIZE /\ page * PAGE_SIZE < initial)
      BY <2>4, <3>1
    <3> QED BY <2>4, <2>6, <3>2 DEF HeapOK
  <2>i. ImageOK(new, mem')
    <3>1. ASSUME LowProgram(prog) PROVE ProgramThere(y, y.mem, prog)
      <4>1. ProgramThere(x, x.mem, prog)
        BY <1>6, <1>7, <1>8, <1>13, <3>1, LoadImage DEF x
      <4>2. x \in Call /\ Tree(x)
        BY <1>9, <1>13 DEF Loaded
      <4> QED BY <1>8, <1>13, <3>1, <4>1, <4>2, PushImage DEF y
    <3>2. \A a, w, v : ByteThere(y, y.mem, a, w, v) => ByteThere(new, mem', a, w, v)
      BY <2>1, <2>6 DEF ByteThere, UserPage
    <3> QED BY <2>6, <3>1, <3>2 DEF ImageOK, ProgramThere, SegmentThere
  <2>c. ContentOK(new, mem')
    BY <2>9, <2>i DEF ContentOK
  <2>10. Own(new) = {t.root} \cup t.kcopy \cup t.stray \cup TreeFrames(new)
    <3>1. new # NoSpace
      BY <2>5, NotNoSpace
    <3> QED BY <2>6, <3>1, OwnedIs DEF Own
  <2>11. /\ Own(new) \cap free' = {} /\ Own(new) \cap lost' = {} /\ free' \cap lost' = {}
         /\ Own(new) \cup free' \cup lost' = Own(space[p]) \cup free \cup lost
    BY <1>7, <1>13, <1>o, <2>1, <2>7, <2>10
  <2>12. \A f \in Frames \ (Own(space[p]) \cup free \cup lost) : mem'[f] = mem[f]
    <3> SUFFICES ASSUME NEW f \in Frames \ (Own(space[p]) \cup free \cup lost)
                 PROVE  mem'[f] = mem[f]
      OBVIOUS
    <3>1. f \notin Pool(t)
      BY <1>7, <1>13
    <3>2. t.mem[f] = mem[f]
      BY <1>6
    <3> QED BY <2>1, <2>2, <3>1, <3>2
  <2>13. Shape(new)
    BY <2>5, <2>8 DEF Shape
  <2> QED BY <1>3, <2>1, <2>3, <2>c, <2>11, <2>12, <2>13, GoodStep
<1>14. CASE t.r = "ok" /\ x.r # "fail" /\ ~(x.r = "ok" /\ y.r = "ok")
  <2>1. /\ panic' = IF x.r # "ok" THEN x.r ELSE y.r
        /\ space' = space /\ free' = free /\ mem' = mem /\ lost' = lost
    BY <1>2, <1>14
  <2>2. x.r \in Results
    BY <1>9, <1>14, CallFacts DEF Loaded
  <2>3. panic' \in Panics \ {"none"}
    BY <1>10, <1>14, <2>1, <2>2 DEF Panics, Results
  <2> QED BY <1>3, <1>f, <2>1, <2>3, PanicStep
<1> QED BY <1>6, <1>11, <1>12, <1>13, <1>14

LEMMA ExitStep ==
  ASSUME SpaceInv, NEW p \in Procs, Exit(p)
  PROVE  SpaceInv'
<1> DEFINE s == space[p]
           x == [free |-> free, mem |-> mem, kcopy |-> s.kcopy, root |-> s.root, tab |-> s.tab,
                 pte |-> s.pte, stray |-> s.stray]
<1>1. /\ panic = "none" /\ s # NoSpace /\ vmm_user_pagetable_free(x)
      /\ space' = [space EXCEPT ![p] = NoSpace] /\ panic' = panic
  BY DEF Exit
<1>2. Shapes /\ Apart(space, free, lost) /\ Contents(space, mem)
  BY <1>1 DEF SpaceInv, Running
<1>3. s \in Space /\ SpaceOK(s)
  BY <1>1, <1>2 DEF Shapes, Shape
<1>4. /\ free' = x.free \cup Returned(x) /\ mem' = Freed(x.mem, Returned(x))
      /\ lost' = lost \cup x.kcopy \cup x.stray
  BY <1>1 DEF vmm_user_pagetable_free
<1>5. /\ x.free = free /\ x.mem = mem /\ x.kcopy = s.kcopy /\ x.root = s.root /\ x.tab = s.tab
      /\ x.pte = s.pte /\ x.stray = s.stray
  OBVIOUS
<1> HIDE DEF x
<1>6. Returned(x) = {s.root} \cup TreeFrames(s)
  BY <1>5, ReturnedIs DEF TreeFrames
<1>7. Own(s) = {s.root} \cup s.kcopy \cup s.stray \cup TreeFrames(s) /\ Own(s) \subseteq Frames
  BY <1>1, <1>3, OwnedIs, OwnedFrames DEF Own
<1>8. Own(s) \cap free = {} /\ Own(s) \cap lost = {} /\ free \cap lost = {}
  BY <1>2 DEF Apart
<1>9. free \in SUBSET Frames /\ lost \in SUBSET Frames /\ mem \in Memory
  BY <1>2 DEF Shapes
<1>10. /\ s.root \notin s.kcopy /\ s.root \notin s.stray
       /\ s.kcopy \cap TreeFrames(s) = {} /\ s.stray \cap TreeFrames(s) = {}
  BY <1>3 DEF SpaceOK
<1> HIDE DEF s
<1>11. free' \cap lost' = {} /\ free' \cup lost' = Own(s) \cup free \cup lost
  BY <1>4, <1>5, <1>6, <1>7, <1>8, <1>10
<1>12. free' \in SUBSET Frames /\ lost' \in SUBSET Frames
  BY <1>7, <1>9, <1>11
<1>13. mem' \in Memory /\ \A f \in Frames \ Returned(x) : mem'[f] = mem[f]
  BY <1>4, <1>5, <1>9, FreedMeans
<1>14. \A f \in Frames \ (Own(s) \cup free \cup lost) : mem'[f] = mem[f]
  BY <1>6, <1>7, <1>13
<1>15. Shape(NoSpace) /\ Own(NoSpace) = {}
  BY DEF Shape, Own
<1> QED BY <1>1, <1>2, <1>11, <1>12, <1>13, <1>14, <1>15, GoodStep DEF s


-----------------------------------------------------------------------------
(* sbrk.                                                                   *)

(* The call that vmm_user_sbrk_allocate starts with.                       *)
LEMMA GrowBegins ==
  ASSUME Shapes, NEW left \in Grants, NEW s \in Space, SpaceOK(s), Own(s) \cap free = {}
  PROVE  LET x == [Blank(left) EXCEPT !.tab = s.tab, !.pte = s.pte]
         IN  /\ x \in Call /\ x.r = "ok" /\ x.tab = s.tab /\ x.pte = s.pte
             /\ x.free = free /\ x.mem = mem /\ Tree(x) /\ Pool(x) = free \cup TreeFrames(s)
<1> DEFINE b == Blank(left)
           x == [b EXCEPT !.tab = s.tab, !.pte = s.pte]
<1>1. b \in Call /\ b.r = "ok" /\ b.free = free /\ b.mem = mem
  BY BlankFresh DEF Fresh
<1> HIDE DEF b
<1>2. s.tab \in Tables /\ s.pte \in Entries
  BY DEF Space
<1>3. /\ x \in Call /\ x.r = "ok" /\ x.tab = s.tab /\ x.pte = s.pte
      /\ x.free = free /\ x.mem = mem
  BY <1>1, <1>2 DEF Call
<1> HIDE DEF x
<1>4. free \cap TreeFrames(s) = {}
  BY NotNoSpace, OwnedIs DEF Own
<1>5. Tree(x)
  <2>1. TreeOK(s.tab, s.pte, {})
    BY DEF SpaceOK
  <2> QED BY <1>3, <1>4, <2>1 DEF Tree, TreeOK, TreeFrames
<1>6. Pool(x) = free \cup TreeFrames(s)
  BY <1>3 DEF Pool, TreeFrames
<1> QED BY <1>3, <1>5, <1>6 DEF x, b

(* The pages it adds.                                                      *)
AddedOK(x, first, last, y) ==
  /\ y \in Call /\ Grown(x, y)
  /\ y.r \in {"ok", "fail"} => Tree(y) /\ Pool(y) = Pool(x)
  /\ y.r = "ok" => \A page \in first .. last :
       UserPage(y, page, TRUE) /\ y.mem[y.pte[page].frame] = Filled("zero")

LEMMA AddedMeans ==
  ASSUME NEW x \in Call, Tree(x), x.r = "ok", NEW first \in Nat, NEW last \in Nat
  PROVE  AddedOK(x, first, last,
           IF first .. last = {} THEN x
           ELSE vmm_allocate(x, CHOOSE q \in first .. last : \A o \in first .. last : q <= o,
                             Cardinality(first .. last), UserRW, "zero"))
<1>1. CASE first > last
  <2>1. first .. last = {}
    BY <1>1
  <2>2. AddedOK(x, first, last, x)
    BY <2>1, GrownSelf DEF AddedOK
  <2> QED BY <2>1, <2>2
<1>2. CASE first <= last
  <2>1. first .. last # {}
    BY <1>2
  <2>2. (CHOOSE q \in first .. last : \A o \in first .. last : q <= o) = first
    <3>1. first \in first .. last /\ \A o \in first .. last : first <= o
      BY <1>2
    <3>2. PICK m : m = CHOOSE q \in first .. last : \A o \in first .. last : q <= o
      OBVIOUS
    <3>3. m \in first .. last /\ \A o \in first .. last : m <= o
      BY <3>1, <3>2
    <3>4. m = first
      BY <3>1, <3>3
    <3> QED BY <3>2, <3>4
  <2>3. PICK n \in Nat : n = last - first + 1
    BY <1>2
  <2>4. Cardinality(first .. last) = n
    BY <1>2, <2>3, FS_Interval
  <2>5. UserRW \in Perms /\ "zero" \in Bytes
    BY DEF UserRW, Perms, Bytes
  <2>6. PICK y : y = vmm_allocate(x, first, n, UserRW, "zero")
    OBVIOUS
  <2>7. AllocatedOK(x, first, n, UserRW, "zero", y)
    BY <2>5, <2>6, AllocatedMeans
  <2>8. ASSUME y.r = "ok", NEW page \in first .. last
        PROVE  UserPage(y, page, TRUE) /\ y.mem[y.pte[page].frame] = Filled("zero")
    <3>1. PagesFilled(y, first, n, UserRW, "zero")
      BY <2>7, <2>8 DEF AllocatedOK
    <3>2. PICK j \in 0 .. n - 1 : page = first + j
      <4>1. page - first \in 0 .. n - 1 /\ page = first + (page - first)
        BY <2>3, <2>8
      <4> QED BY <4>1
    <3>3. page \in DOMAIN y.pte /\ y.pte[page].perm = UserRW
          /\ y.mem[y.pte[page].frame] = Filled("zero")
      BY <3>1, <3>2 DEF PagesFilled
    <3>4. UserRW.userspace /\ UserRW.writable
      BY DEF UserRW
    <3> QED BY <3>3, <3>4 DEF UserPage
  <2>9. AddedOK(x, first, last, y)
    BY <2>7, <2>8 DEF AllocatedOK, AddedOK
  <2> QED BY <2>1, <2>2, <2>4, <2>6, <2>9
<1> QED BY <1>1, <1>2

LEMMA GrowStep ==
  ASSUME SpaceInv, NEW p \in Procs, NEW delta \in Int, NEW left \in Grants,
         SbrkGrow(p, delta, left)
  PROVE  SpaceInv'
<1> DEFINE s == space[p]
           pages == GrowPages(s.current_sbrk, delta)
           x0 == [Blank(left) EXCEPT !.tab = s.tab, !.pte = s.pte]
           y == IF pages = {} THEN x0
                ELSE vmm_allocate(x0, CHOOSE q \in pages : \A o \in pages : q <= o,
                                  Cardinality(pages), UserRW, "zero")
           cur == s.current_sbrk
           first == RoundUp(cur)
           last == PageOf(cur + delta - 1)
<1>1. panic = "none" /\ s # NoSpace /\ delta > 0 /\ cur + delta <= HeapLimit
  BY DEF SbrkGrow
<1>2. IF y.r = "ok"
      THEN /\ space' = [space EXCEPT ![p].tab = y.tab, ![p].pte = y.pte, ![p].current_sbrk = @ + delta]
           /\ free' = y.free /\ mem' = y.mem /\ lost' = lost /\ panic' = panic
      ELSE Stop(IF y.r = "fail" THEN "sbrk: OOM" ELSE y.r)
  BY Zenon DEF SbrkGrow
<1>3. Shapes /\ Apart(space, free, lost) /\ Contents(space, mem)
  BY <1>1 DEF SpaceInv, Running
<1>4. s \in Space /\ SpaceOK(s) /\ HeapOK(s, mem) /\ ImageOK(s, mem)
  BY <1>1, <1>3 DEF Shapes, Shape, Contents, ContentOK
<1>5. Own(s) \cap free = {} /\ Own(s) \cap lost = {} /\ free \cap lost = {}
  BY <1>3 DEF Apart
<1>6. /\ x0 \in Call /\ x0.r = "ok" /\ x0.tab = s.tab /\ x0.pte = s.pte
      /\ x0.free = free /\ x0.mem = mem /\ Tree(x0) /\ Pool(x0) = free \cup TreeFrames(s)
  <2> HIDE DEF s
  <2> QED BY <1>3, <1>4, <1>5, GrowBegins
<1>7. cur \in Nat
  BY <1>4 DEF Space
<1>8. pages = first .. last
  BY DEF GrowPages
<1>f. free \in SUBSET Frames /\ lost \in SUBSET Frames /\ mem \in Memory /\ DOMAIN space = Procs
  BY <1>3 DEF Shapes
<1>s. s = space[p]
  OBVIOUS
<1> HIDE DEF x0, pages, s
<1>9. cur + PAGE_SIZE <= UINT_MOD /\ cur + delta < UINT_MOD
  <2>1. USER_STACK_PAGES * PAGE_SIZE >= PAGE_SIZE
    <3>1. PAGE_SIZE \in Nat \ {0} /\ USER_STACK_PAGES \in Nat \ {0} /\ 1 \in Nat
      BY SpaceAssumption
    <3>2. 1 <= USER_STACK_PAGES <=> 1 * PAGE_SIZE <= USER_STACK_PAGES * PAGE_SIZE
      BY <3>1, Products
    <3> QED BY <3>1, <3>2
  <2>2. /\ HeapLimit \in Nat /\ HeapLimit < UINT_MOD - USER_STACK_PAGES * PAGE_SIZE
        /\ PAGE_SIZE \in Nat /\ UINT_MOD \in Nat /\ USER_STACK_PAGES * PAGE_SIZE \in Nat
    BY SpaceAssumption
  <2> HIDE DEF cur
  <2> QED BY <1>1, <1>7, <2>1, <2>2
<1>10. first \in Nat /\ last \in Nat /\ cur + delta - 1 \in Nat
  <2>1. cur + delta - 1 \in Nat
    BY <1>1, <1>7
  <2> HIDE DEF cur
  <2>2. first \in Nat
    BY <1>7, Rounded
  <2>3. \A a \in Nat : PageOf(a) \in Nat
    BY SpaceAssumption DEF PageOf
  <2> QED BY <2>1, <2>2, <2>3
<1> HIDE DEF first, last
<1>11. AddedOK(x0, first, last, y)
  BY <1>6, <1>8, <1>10, AddedMeans
<1> HIDE DEF y
<1>12. y \in Call /\ Grown(x0, y)
  BY <1>11 DEF AddedOK
<1>13. CASE y.r = "ok"
  <2> DEFINE new == [s EXCEPT !.tab = y.tab, !.pte = y.pte, !.current_sbrk = cur + delta]
  <2>1. /\ space' = [space EXCEPT ![p].tab = y.tab, ![p].pte = y.pte, ![p].current_sbrk = @ + delta]
        /\ free' = y.free /\ mem' = y.mem /\ lost' = lost /\ panic' = panic
    BY <1>2, <1>13
  <2>2. space' = [space EXCEPT ![p] = new]
    BY <1>4, <1>f, <1>s, <2>1 DEF Space
  <2>3. Tree(y) /\ Pool(y) = free \cup TreeFrames(s)
    BY <1>6, <1>11, <1>13 DEF AddedOK
  <2>4. /\ y.free \in SUBSET Frames /\ y.mem \in Memory /\ y.tab \in Tables /\ y.pte \in Entries
    BY <1>12, CallFacts
  <2>5. new \in Space
    <3>1. cur + delta \in Nat
      BY <1>1, <1>7
    <3> HIDE DEF cur
    <3> QED BY <1>4, <2>4, <3>1 DEF Space
  <2>6. /\ new.root = s.root /\ new.kcopy = s.kcopy /\ new.stray = s.stray /\ new.tab = y.tab
        /\ new.pte = y.pte /\ new.initial_data_segment = s.initial_data_segment
        /\ new.current_sbrk = cur + delta /\ new.prog = s.prog /\ new.lowest = s.lowest
    BY <1>4 DEF Space
  <2> HIDE DEF new
  <2>7. /\ TreeOK(y.tab, y.pte, {}) /\ y.free \cap TreeFrames(new) = {}
        /\ y.free \cup TreeFrames(new) = free \cup TreeFrames(s)
    BY <2>3, <2>6 DEF Tree, TreeOK, TreeFrames, Pool
  <2>8. Own(s) = {s.root} \cup s.kcopy \cup s.stray \cup TreeFrames(s) /\ Own(s) \subseteq Frames
    BY <1>1, <1>4, OwnedIs, OwnedFrames DEF Own
  <2>9. Own(new) = {s.root} \cup s.kcopy \cup s.stray \cup TreeFrames(new)
    <3>1. new # NoSpace
      BY <2>5, NotNoSpace
    <3> QED BY <2>6, <3>1, OwnedIs DEF Own
  <2>10. SpaceOK(new)
    <3>1. /\ s.root \notin s.kcopy /\ s.root \notin s.stray /\ s.root \notin TreeFrames(s)
          /\ s.kcopy \cap s.stray = {} /\ s.kcopy \cap TreeFrames(s) = {}
          /\ s.stray \cap TreeFrames(s) = {}
      BY <1>4 DEF SpaceOK
    <3>2. /\ s.root \notin TreeFrames(new) /\ s.kcopy \cap TreeFrames(new) = {}
          /\ s.stray \cap TreeFrames(new) = {}
      BY <1>5, <2>7, <2>8, <3>1
    <3> QED BY <2>6, <2>7, <3>1, <3>2 DEF SpaceOK
  <2>11. /\ Own(new) \cap free' = {} /\ Own(new) \cap lost' = {} /\ free' \cap lost' = {}
         /\ Own(new) \cup free' \cup lost' = Own(s) \cup free \cup lost
    <3>1. y.free \subseteq free
      BY <1>6, <1>12 DEF Grown
    <3> QED BY <1>5, <2>1, <2>7, <2>8, <2>9, <3>1
  <2>12. \A f \in Frames \ free : mem'[f] = mem[f]
    BY <1>6, <1>12, <2>1 DEF Grown
  <2>13. ASSUME NEW page \in Nat, s.initial_data_segment <= page * PAGE_SIZE,
                page * PAGE_SIZE < cur + delta
         PROVE  UserPage(new, page, TRUE) /\ mem'[new.pte[page].frame] = Filled("zero")
    <3>0. page * PAGE_SIZE \in Nat
      BY SpaceAssumption
    <3>1. CASE page * PAGE_SIZE < cur
      <4>1. UserPage(s, page, TRUE) /\ mem[s.pte[page].frame] = Filled("zero")
        BY <1>4, <2>13, <3>1 DEF HeapOK
      <4>2. page \in DOMAIN s.pte /\ page \in DOMAIN y.pte /\ y.pte[page] = s.pte[page]
        BY <1>6, <1>12, <4>1 DEF UserPage, Grown
      <4>3. s.pte[page].frame \in Own(s)
        BY <2>8, <4>2 DEF TreeFrames, FramesOf
      <4>4. mem'[s.pte[page].frame] = mem[s.pte[page].frame]
        BY <1>5, <2>8, <2>12, <4>3
      <4> QED BY <2>6, <4>1, <4>2, <4>4 DEF UserPage
    <3>2. CASE ~(page * PAGE_SIZE < cur)
      <4>1. cur <= page * PAGE_SIZE /\ page * PAGE_SIZE <= cur + delta - 1
        BY <1>7, <2>13, <3>0, <3>2
      <4>2. first <= page /\ page <= last
        <5> HIDE DEF cur
        <5>1. first <= page
          BY <1>7, <1>9, <4>1, RoundedUp DEF first
        <5>2. page <= last
          BY <1>10, <4>1, PageBelow DEF last
        <5> QED BY <5>1, <5>2
      <4>3. UserPage(y, page, TRUE) /\ y.mem[y.pte[page].frame] = Filled("zero")
        <5>1. page \in first .. last
          BY <1>10, <4>2
        <5> QED BY <1>11, <1>13, <5>1 DEF AddedOK
      <4> QED BY <2>1, <2>6, <4>3 DEF UserPage
    <3> QED BY <3>1, <3>2
  <2>14. HeapOK(new, mem')
    <3>1. s.initial_data_segment % PAGE_SIZE = 0 /\ s.initial_data_segment < UINT_MOD
      BY <1>4 DEF HeapOK
    <3> HIDE DEF cur
    <3> QED BY <1>9, <2>6, <2>13, <3>1 DEF HeapOK
  <2>i. ImageOK(new, mem')
    <3>1. ASSUME NEW q \in DOMAIN s.pte
          PROVE  /\ q \in DOMAIN new.pte /\ new.pte[q] = s.pte[q]
                 /\ mem'[s.pte[q].frame] = mem[s.pte[q].frame]
      <4>1. q \in DOMAIN y.pte /\ y.pte[q] = s.pte[q]
        BY <1>6, <1>12 DEF Grown
      <4>2. s.pte[q].frame \in Own(s)
        BY <2>8 DEF TreeFrames, FramesOf
      <4> QED BY <1>5, <2>6, <2>8, <2>12, <4>1, <4>2
    <3>2. new.lowest <= s.lowest
      BY <1>4, <2>6 DEF Space
    <3> QED BY <1>4, <2>5, <2>6, <3>1, <3>2, ImageMoves
  <2>c. ContentOK(new, mem')
    BY <2>14, <2>i DEF ContentOK
  <2>15. Shape(new)
    BY <2>5, <2>10 DEF Shape
  <2>16. free' \in SUBSET Frames /\ lost' \in SUBSET Frames /\ mem' \in Memory
    BY <1>f, <2>1, <2>4
  <2>17. \A f \in Frames \ (Own(s) \cup free \cup lost) : mem'[f] = mem[f]
    BY <2>12
  <2>18. panic' = panic
    BY <2>1
  <2> QED BY <1>3, <2>2, <2>11, <2>c, <2>15, <2>16, <2>17, <2>18, <1>s, GoodStep
<1>14. CASE y.r # "ok"
  <2>1. Stop(IF y.r = "fail" THEN "sbrk: OOM" ELSE y.r)
    BY <1>2, <1>14
  <2>2. /\ panic' = IF y.r = "fail" THEN "sbrk: OOM" ELSE y.r
        /\ space' = space /\ free' = free /\ mem' = mem /\ lost' = lost
    BY <2>1 DEF Stop
  <2>3. y.r \in Results
    BY <1>12, CallFacts
  <2>4. panic' \in Panics \ {"none"}
    BY <1>14, <2>2, <2>3 DEF Panics, Results
  <2> QED BY <1>3, <1>f, <2>2, <2>4, PanicStep
<1> QED BY <1>13, <1>14


(* An entry table without some of its entries.                             *)
LEMMA FewerEntries ==
  ASSUME NEW tab, NEW pte \in Entries, TreeOK(tab, pte, {}), NEW pages
  PROVE  LET rest == [q \in DOMAIN pte \ pages |-> pte[q]]
             frames == {pte[q].frame : q \in pages \cap DOMAIN pte}
         IN  /\ rest \in Entries /\ TreeOK(tab, rest, {})
             /\ FramesOf(pte) = FramesOf(rest) \cup frames
             /\ FramesOf(rest) \cap frames = {}
<1> DEFINE rest == [q \in DOMAIN pte \ pages |-> pte[q]]
           frames == {pte[q].frame : q \in pages \cap DOMAIN pte}
<1>1. PICK D \in SUBSET UserPages : pte \in [D -> Entry]
  BY DEF Entries
<1>2. rest \in [D \ pages -> Entry] /\ D \ pages \in SUBSET UserPages
  BY <1>1
<1>3. rest \in Entries
  BY <1>2 DEF Entries
<1>4. DOMAIN rest = DOMAIN pte \ pages /\ \A q \in DOMAIN pte \ pages : rest[q] = pte[q]
  OBVIOUS
<1> HIDE DEF rest
<1>5. FramesOf(pte) = FramesOf(rest) \cup frames
  BY <1>4 DEF FramesOf
<1>6. \A i, j \in DOMAIN pte : pte[i].frame = pte[j].frame => i = j
  BY DEF TreeOK
<1>7. FramesOf(rest) \cap frames = {}
  BY <1>4, <1>6 DEF FramesOf
<1>8. TreeOK(tab, rest, {})
  <2>1. \A i, j \in DOMAIN rest : rest[i].frame = rest[j].frame => i = j
    BY <1>4, <1>6
  <2>2. \A page \in DOMAIN rest : TableOf(page) \in DOMAIN tab
    BY <1>4 DEF TreeOK
  <2> QED BY <1>5, <2>1, <2>2 DEF TreeOK
<1> QED BY <1>3, <1>5, <1>7, <1>8 DEF rest

(* The break comes down to the end of the program at least.                *)
LEMMA ShrinksToProgram ==
  ASSUME NEW s \in Space, s.current_sbrk < UINT_MOD, NEW delta \in Int, delta > 0
  PROVE  ShrinkBy(s, delta) \in Int /\ s.current_sbrk - ShrinkBy(s, delta) <= s.initial_data_segment
<1>1. PICK cur \in Nat, initial \in Nat : cur = s.current_sbrk /\ initial = s.initial_data_segment
  BY DEF Space
<1>2. ADDR_MOD \in Nat \ {0} /\ UINT_MOD \in Nat /\ UINT_MOD < ADDR_MOD
  <2>1. /\ USERSPACE_VA_MAX \in Nat \ {0} /\ UINT_MOD \in Nat \ {0} /\ ADDR_MOD \in Nat
        /\ USERSPACE_VA_MAX % UINT_MOD = 0 /\ USERSPACE_VA_MAX < ADDR_MOD
    BY SpaceAssumption
  <2>2. USERSPACE_VA_MAX < UINT_MOD => USERSPACE_VA_MAX % UINT_MOD = USERSPACE_VA_MAX
    BY <2>1
  <2> QED BY <2>1, <2>2
<1>3. PICK d \in Int : d = cur - delta /\ d < ADDR_MOD
  BY <1>1, <1>2
<1>4. d % ADDR_MOD \in Nat /\ d <= d % ADDR_MOD
  <2>1. d % ADDR_MOD \in Nat
    BY <1>2
  <2>2. d >= 0 => d % ADDR_MOD = d
    BY <1>2, <1>3
  <2> QED BY <2>1, <2>2
<1>5. PICK e \in Nat : e = d % ADDR_MOD /\ d <= e
  BY <1>4
<1>6. ShrinkBy(s, delta) = IF initial <= e THEN cur - initial ELSE delta
  BY <1>1, <1>3, <1>5 DEF ShrinkBy
<1> QED BY <1>1, <1>3, <1>5, <1>6

LEMMA ShrinkStep ==
  ASSUME SpaceInv, NEW p \in Procs, NEW delta \in Int, SbrkShrink(p, delta)
  PROVE  SpaceInv'
<1> DEFINE s == space[p]
           by == ShrinkBy(s, delta)
           pages == ShrinkPages(s, by)
           bad == {q \in pages : q < PageOf(USERSPACE_VA_MIN) \/ TableOf(q) \notin DOMAIN s.tab}
           top == CHOOSE q \in bad : \A o \in bad : q >= o
           frames == FreedFrames(s, pages)
           once == FreesOnce(s, pages)
           rest == [q \in DOMAIN s.pte \ pages |-> s.pte[q]]
           cur == s.current_sbrk
           initial == s.initial_data_segment
           low == IF s.lowest < cur - by THEN s.lowest ELSE cur - by
           why == IF top < PageOf(USERSPACE_VA_MIN) THEN "walk" ELSE "non-existant page"
<1>1. panic = "none" /\ s # NoSpace /\ delta > 0
  BY DEF SbrkShrink
<1>2. IF bad = {}
      THEN /\ space' = [space EXCEPT ![p].pte = rest, ![p].current_sbrk = @ - by,
                          ![p].lowest = IF @ < s.current_sbrk - by THEN @ ELSE s.current_sbrk - by]
           /\ free' = free \cup frames /\ mem' = Freed(mem, frames)
           /\ lost' = lost \ frames /\ panic' = IF once THEN panic ELSE "freed twice"
      ELSE Stop(why)
  BY Zenon DEF SbrkShrink
<1>3. Shapes /\ Apart(space, free, lost) /\ Contents(space, mem)
  BY <1>1 DEF SpaceInv, Running
<1>4. s \in Space /\ SpaceOK(s) /\ HeapOK(s, mem) /\ ImageOK(s, mem)
  BY <1>1, <1>3 DEF Shapes, Shape, Contents, ContentOK
<1>5. Own(s) \cap free = {} /\ Own(s) \cap lost = {} /\ free \cap lost = {}
  BY <1>3 DEF Apart
<1>f. free \in SUBSET Frames /\ lost \in SUBSET Frames /\ mem \in Memory /\ DOMAIN space = Procs
  BY <1>3 DEF Shapes
<1>6. cur \in Nat /\ initial \in Nat /\ s.lowest \in Int /\ s.pte \in Entries
  BY <1>4 DEF Space
<1>7. by \in Int /\ cur - by <= initial
  <2>1. cur < UINT_MOD
    BY <1>4 DEF HeapOK
  <2> QED BY <1>1, <1>4, <2>1, ShrinksToProgram
<1>8. pages = {q \in 0 .. RoundDown(cur) : q * PAGE_SIZE > cur - by}
  BY DEF ShrinkPages
<1>s. s = space[p]
  OBVIOUS
<1>o. once => (pages \subseteq DOMAIN s.pte \/ PAGE_ZERO \in lost)
  BY DEF FreesOnce
<1> HIDE DEF s, by, pages, why, once
<1>9. CASE bad = {}
  <2> DEFINE new == [s EXCEPT !.pte = rest, !.current_sbrk = cur - by, !.lowest = low]
             held == {s.pte[q].frame : q \in pages \cap DOMAIN s.pte}
             extra == IF pages \subseteq DOMAIN s.pte THEN {} ELSE {PAGE_ZERO}
  <2>1. /\ space' = [space EXCEPT ![p].pte = rest, ![p].current_sbrk = @ - by,
                          ![p].lowest = IF @ < s.current_sbrk - by THEN @ ELSE s.current_sbrk - by]
        /\ free' = free \cup frames /\ mem' = Freed(mem, frames)
        /\ lost' = lost \ frames /\ panic' = IF once THEN panic ELSE "freed twice"
    BY <1>2, <1>9
  <2>2. cur - by \in Nat
    <3> SUFFICES ASSUME cur - by < 0 PROVE FALSE
      BY <1>6, <1>7
    <3>1. 0 \in pages
      <4>1. RoundDown(cur) \in Nat
        BY <1>6, Rounded
      <4>2. 0 * PAGE_SIZE = 0 /\ 0 \in 0 .. RoundDown(cur)
        BY <4>1, SpaceAssumption
      <4>3. 0 * PAGE_SIZE > cur - by
        BY <1>6, <1>7, <4>2
      <4> QED BY <1>8, <4>2, <4>3
    <3>2. 0 \in bad
      <4>1. 0 < PageOf(USERSPACE_VA_MIN)
        BY FirstUserPage
      <4> QED BY <3>1, <4>1
    <3> QED BY <1>9, <3>2
  <2>z. /\ frames = held \cup extra /\ extra \subseteq Frames /\ (once => extra \subseteq lost)
    BY <1>o, SpaceAssumption DEF FreedFrames
  <2> HIDE DEF bad, frames, extra
  <2>r. TreeOK(s.tab, s.pte, {})
    BY <1>4 DEF SpaceOK
  <2>3. /\ rest \in Entries /\ TreeOK(s.tab, rest, {})
        /\ FramesOf(s.pte) = FramesOf(rest) \cup held /\ FramesOf(rest) \cap held = {}
    BY <1>6, <2>r, FewerEntries
  <2> HIDE DEF rest, held
  <2>4. low \in Int
    BY <1>6, <1>7
  <2>5. space' = [space EXCEPT ![p] = new]
    BY <1>4, <1>f, <1>s, <2>1 DEF Space
  <2> HIDE DEF low
  <2>6. new \in Space
    BY <1>4, <2>2, <2>3, <2>4 DEF Space
  <2>7. /\ new.root = s.root /\ new.kcopy = s.kcopy /\ new.stray = s.stray /\ new.tab = s.tab
        /\ new.pte = rest /\ new.initial_data_segment = initial /\ new.current_sbrk = cur - by
        /\ new.prog = s.prog /\ new.lowest = low
    BY <1>4 DEF Space
  <2> HIDE DEF new
  <2>8. TreeFrames(s) = TreeFrames(new) \cup held /\ TreeFrames(new) \cap held = {}
    <3>1. Range(s.tab) \cap FramesOf(s.pte) = {}
      BY <2>r DEF TreeOK
    <3> QED BY <2>3, <2>7, <3>1 DEF TreeFrames
  <2>9. /\ s.root \notin s.kcopy /\ s.root \notin s.stray /\ s.root \notin TreeFrames(s)
        /\ s.kcopy \cap s.stray = {} /\ s.kcopy \cap TreeFrames(s) = {}
        /\ s.stray \cap TreeFrames(s) = {}
    BY <1>4 DEF SpaceOK
  <2>10. SpaceOK(new)
    BY <2>3, <2>7, <2>8, <2>9 DEF SpaceOK
  <2>11. Own(s) = {s.root} \cup s.kcopy \cup s.stray \cup TreeFrames(s) /\ Own(s) \subseteq Frames
    BY <1>1, <1>4, OwnedIs, OwnedFrames DEF Own
  <2>12. Own(new) = {s.root} \cup s.kcopy \cup s.stray \cup TreeFrames(new)
    <3>1. new # NoSpace
      BY <2>6, NotNoSpace
    <3> QED BY <2>7, <3>1, OwnedIs DEF Own
  <2>14. mem' \in Memory /\ \A f \in Frames \ frames : mem'[f] = mem[f]
    BY <1>f, <2>1, FreedMeans
  <2>15. free' \in SUBSET Frames /\ lost' \in SUBSET Frames
    BY <1>f, <2>1, <2>8, <2>11, <2>z
  <2>18. Shape(new)
    BY <2>6, <2>10 DEF Shape
  <2>b. CASE ~once
    <3>1. panic' \in Panics \ {"none"}
      BY <2>1, <2>b DEF Panics
    <3> QED BY <1>3, <2>5, <2>14, <2>15, <2>18, <3>1, BrokenStep
  <2>g. CASE once
    <3>13. /\ Own(new) \cap free' = {} /\ Own(new) \cap lost' = {} /\ free' \cap lost' = {}
           /\ Own(new) \cup free' \cup lost' = Own(s) \cup free \cup lost
      BY <1>5, <2>1, <2>8, <2>9, <2>11, <2>12, <2>g, <2>z
    <3>16. \A f \in Frames \ (Own(s) \cup free \cup lost) : mem'[f] = mem[f]
      BY <2>8, <2>11, <2>14, <2>g, <2>z
    <3>17. HeapOK(new, mem')
      <4>1. initial % PAGE_SIZE = 0 /\ initial < UINT_MOD /\ UINT_MOD \in Nat
        BY <1>4, SpaceAssumption DEF HeapOK
      <4> HIDE DEF cur, initial
      <4>2. \A page \in Nat : page * PAGE_SIZE \in Nat
        BY SpaceAssumption
      <4>3. \A page \in Nat : ~(initial <= page * PAGE_SIZE /\ page * PAGE_SIZE < cur - by)
        BY <1>6, <1>7, <2>2, <4>2
      <4>4. cur - by < UINT_MOD
        BY <1>6, <1>7, <2>2, <4>1
      <4> QED BY <2>7, <4>1, <4>3, <4>4 DEF HeapOK
    <3>i. ImageOK(new, mem')
      <4>1. low <= s.lowest /\ low <= cur - by
        BY <1>6, <1>7 DEF low
      <4> HIDE DEF cur
      <4>2. ASSUME NEW q \in DOMAIN s.pte, q * PAGE_SIZE <= low
            PROVE  /\ q \in DOMAIN new.pte /\ new.pte[q] = s.pte[q]
                   /\ mem'[s.pte[q].frame] = mem[s.pte[q].frame]
        <5>1. q \in Nat /\ s.pte[q].frame \in Frames
          BY <1>6, EntryFacts, FirstUserPage DEF UserPages
        <5>2. q * PAGE_SIZE \in Nat
          BY <5>1, SpaceAssumption
        <5>3. q \notin pages
          BY <1>6, <1>7, <1>8, <2>4, <4>1, <4>2, <5>2
        <5>4. q \in DOMAIN rest /\ rest[q] = s.pte[q]
          BY <5>3 DEF rest
        <5>5. s.pte[q].frame \notin frames
          <6>1. s.pte[q].frame \in FramesOf(rest)
            BY <5>4 DEF FramesOf
          <6>2. s.pte[q].frame \in Own(s)
            BY <2>3, <2>11, <6>1 DEF TreeFrames
          <6> QED BY <1>5, <2>3, <2>g, <2>z, <6>1, <6>2
        <5> QED BY <2>7, <2>14, <5>1, <5>4, <5>5
      <4> QED BY <1>4, <2>6, <2>7, <4>1, <4>2, ImageMoves
    <3>c. ContentOK(new, mem')
      BY <3>17, <3>i DEF ContentOK
    <3>p. panic' = panic
      BY <2>1, <2>g
    <3> QED BY <1>3, <1>s, <2>5, <2>14, <2>15, <2>18, <3>13, <3>16, <3>c, <3>p, GoodStep
  <2> QED BY <2>b, <2>g
<1>10. CASE bad # {}
  <2>1. Stop(why)
    BY <1>2, <1>10
  <2>2. panic' = why /\ space' = space /\ free' = free /\ mem' = mem /\ lost' = lost
    BY <2>1 DEF Stop
  <2>3. why \in Panics \ {"none"}
    BY DEF why, Panics
  <2> QED BY <1>3, <1>f, <2>2, <2>3, PanicStep
<1> QED BY <1>9, <1>10


-----------------------------------------------------------------------------
(* The invariant holds.                                                    *)

LEMMA InitSpace == Init => SpaceInv
<1> SUFFICES ASSUME Init PROVE SpaceInv
  OBVIOUS
<1>1. /\ space = [p \in Procs |-> NoSpace] /\ free = Frames \ {PAGE_ZERO}
      /\ lost = {PAGE_ZERO} /\ panic = "none"
      /\ mem = [f \in Frames |-> Filled("old")]
  BY DEF Init, Filled
<1>2. mem \in Memory
  <2>1. Filled("old") \in [Offsets -> Bytes]
    BY DEF Filled, Bytes
  <2> QED BY <1>1, <2>1 DEF Memory
<1>3. \A p \in Procs : space[p] = NoSpace
  BY <1>1
<1>4. Shapes
  BY <1>1, <1>2, <1>3, SpaceAssumption DEF Shapes, Shape, Panics
<1>5. Apart(space, free, lost)
  BY <1>1, <1>3 DEF Apart, Own
<1>6. Contents(space, mem)
  BY <1>3 DEF Contents
<1> QED BY <1>4, <1>5, <1>6 DEF SpaceInv

LEMMA NextSpace == SpaceInv /\ [Next]_vars => SpaceInv'
<1> SUFFICES ASSUME SpaceInv, [Next]_vars PROVE SpaceInv'
  OBVIOUS
<1>1. CASE UNCHANGED vars
  BY <1>1 DEF vars, SpaceInv, Shapes, Running, Apart, Contents
<1>2. CASE Halted
  BY <1>2 DEF Halted, vars, SpaceInv, Shapes, Running, Apart, Contents
<1>3. ASSUME NEW p \in Procs, NEW prog \in Programs, NEW left \in Grants,
             proc_exec(p, prog, left)
      PROVE  SpaceInv'
  BY <1>3, ExecStep
<1>4. ASSUME NEW p \in Procs, Exit(p) PROVE SpaceInv'
  BY <1>4, ExitStep
<1>5. ASSUME NEW p \in Procs, NEW d \in SbrkDeltas, proc_sbrk(p, d) PROVE SpaceInv'
  <2>1. d \in Int /\ -d \in Int
    BY SpaceAssumption
  <2>2. ASSUME NEW left \in Grants, SbrkGrow(p, d, left) PROVE SpaceInv'
    BY <2>1, <2>2, GrowStep
  <2>3. ASSUME SbrkShrink(p, -d) PROVE SpaceInv'
    BY <2>1, <2>3, ShrinkStep
  <2> QED BY <1>5, <2>2, <2>3 DEF proc_sbrk
<1> QED BY <1>1, <1>2, <1>3, <1>4, <1>5 DEF Next

(* The inductive invariant holds in every reachable state: shapes always,  *)
(* the rest while the kernel neither panicked nor freed a page twice.  (It *)
(* does the latter, in vmm_user_sbrk_deallocate: FreedOnce has the trace.) *)
THEOREM SpaceInvariant == Spec => []SpaceInv
<1>1. Init => SpaceInv
  BY InitSpace
<1>2. SpaceInv /\ [Next]_vars => SpaceInv'
  BY NextSpace
<1> QED BY <1>1, <1>2, PTL DEF Spec

-----------------------------------------------------------------------------
(* Frames.                                                                 *)

(* As many frames as keys, where no frame is at two keys.                  *)
LEMMA CountKeys ==
  ASSUME NEW f, f = [k \in DOMAIN f |-> f[k]], IsFiniteSet(Range(f)),
         \A i, j \in DOMAIN f : f[i] = f[j] => i = j
  PROVE  Cardinality(DOMAIN f) = Cardinality(Range(f))
<1>1. f \in [DOMAIN f -> Range(f)]
  BY DEF Range
<1>2. f \in Injection(DOMAIN f, Range(f))
  BY <1>1 DEF Injection, IsInjective
<1>3. f \in Surjection(DOMAIN f, Range(f))
  BY <1>1 DEF Surjection, Range
<1> QED BY <1>2, <1>3, FS_Injection

LEMMA CountUnion ==
  ASSUME NEW S, NEW T, IsFiniteSet(S), IsFiniteSet(T), S \cap T = {}
  PROVE  /\ IsFiniteSet(S \cup T)
         /\ Cardinality(S \cup T) = Cardinality(S) + Cardinality(T)
         /\ Cardinality(S) \in Nat /\ Cardinality(T) \in Nat
<1>1. Cardinality(S) \in Nat /\ Cardinality(T) \in Nat
  BY FS_CardinalityType
<1>2. Cardinality(S \cap T) = 0
  BY FS_EmptySet
<1>3. /\ IsFiniteSet(S \cup T)
      /\ Cardinality(S \cup T) = Cardinality(S) + Cardinality(T) - Cardinality(S \cap T)
  BY FS_Union
<1> QED BY <1>1, <1>2, <1>3

LEMMA CountOwned ==
  ASSUME NEW s \in Space, SpaceOK(s)
  PROVE  Cardinality(Owned(s)) = 1 + Cardinality(s.kcopy) + Cardinality(s.stray)
           + Cardinality(DOMAIN s.tab) + Cardinality(DOMAIN s.pte)
<1> DEFINE A == Range(s.tab)
           B == FramesOf(s.pte)
           C == s.kcopy
           D == s.stray
           R == {s.root}
<1>1. IsFiniteSet(Frames)
  BY SpaceAssumption
<1>2. s.tab \in Tables /\ s.pte \in Entries /\ C \subseteq Frames /\ D \subseteq Frames
  BY DEF Space
<1>3. A \subseteq Frames /\ B \subseteq Frames
  BY <1>2, TableFacts, EntryFacts
<1>4. IsFiniteSet(A) /\ IsFiniteSet(B) /\ IsFiniteSet(C) /\ IsFiniteSet(D)
  BY <1>1, <1>2, <1>3, FS_Subset
<1>5. IsFiniteSet(R) /\ Cardinality(R) = 1
  BY FS_Singleton
<1>6. TreeOK(s.tab, s.pte, {})
  BY DEF SpaceOK
<1>7. Cardinality(DOMAIN s.tab) = Cardinality(A)
  <2>1. s.tab = [k \in DOMAIN s.tab |-> s.tab[k]]
    BY <1>2 DEF Tables
  <2>2. \A i, j \in DOMAIN s.tab : s.tab[i] = s.tab[j] => i = j
    BY <1>6 DEF TreeOK
  <2> QED BY <1>4, <2>1, <2>2, CountKeys
<1>8. Cardinality(DOMAIN s.pte) = Cardinality(B)
  <2> DEFINE f == [k \in DOMAIN s.pte |-> s.pte[k].frame]
  <2>1. DOMAIN f = DOMAIN s.pte /\ f = [k \in DOMAIN f |-> f[k]] /\ Range(f) = B
    BY DEF Range, FramesOf
  <2>2. \A i, j \in DOMAIN f : f[i] = f[j] => i = j
    BY <1>6 DEF TreeOK
  <2> HIDE DEF f
  <2>3. Cardinality(DOMAIN f) = Cardinality(Range(f))
    BY <1>4, <2>1, <2>2, CountKeys
  <2> QED BY <2>1, <2>3
<1>9. /\ A \cap B = {} /\ (A \cup B) \cap C = {} /\ (A \cup B \cup C) \cap D = {}
      /\ (A \cup B \cup C \cup D) \cap R = {}
  BY <1>6 DEF SpaceOK, TreeOK, TreeFrames
<1>10. Owned(s) = A \cup B \cup C \cup D \cup R
  BY OwnedIs DEF TreeFrames
<1> HIDE DEF A, B, C, D, R
<1>11. /\ IsFiniteSet(A \cup B)
       /\ Cardinality(A \cup B) = Cardinality(A) + Cardinality(B)
       /\ Cardinality(A) \in Nat /\ Cardinality(B) \in Nat
  BY <1>4, <1>9, CountUnion
<1>12. /\ IsFiniteSet(A \cup B \cup C)
       /\ Cardinality(A \cup B \cup C) = Cardinality(A \cup B) + Cardinality(C)
       /\ Cardinality(C) \in Nat
  BY <1>4, <1>9, <1>11, CountUnion
<1>13. /\ IsFiniteSet(A \cup B \cup C \cup D)
       /\ Cardinality(A \cup B \cup C \cup D) = Cardinality(A \cup B \cup C) + Cardinality(D)
       /\ Cardinality(D) \in Nat
  BY <1>4, <1>9, <1>12, CountUnion
<1>14. Cardinality(A \cup B \cup C \cup D \cup R) = Cardinality(A \cup B \cup C \cup D) + 1
  BY <1>5, <1>9, <1>13, CountUnion
<1>15. Cardinality(Owned(s)) = 1 + Cardinality(C) + Cardinality(D) + Cardinality(DOMAIN s.tab)
                                 + Cardinality(DOMAIN s.pte)
  BY <1>7, <1>8, <1>10, <1>11, <1>12, <1>13, <1>14
<1> QED BY <1>15 DEF C, D

LEMMA SpaceTypes == SpaceInv => TypeOK
<1> SUFFICES ASSUME SpaceInv PROVE TypeOK
  OBVIOUS
<1>1. free \subseteq Frames /\ lost \subseteq Frames /\ mem \in Memory /\ panic \in Panics
  BY DEF SpaceInv, Shapes
<1>2. ASSUME NEW p \in Live
      PROVE  /\ DOMAIN space[p].pte \subseteq PageOf(USERSPACE_VA_MIN) .. NumPages - 1
             /\ {TableOf(page) : page \in DOMAIN space[p].pte} \subseteq DOMAIN space[p].tab
             /\ Leaves(space[p]) \subseteq Frames
  <2>1. space[p] \in Space /\ SpaceOK(space[p])
    BY <1>2 DEF SpaceInv, Shapes, Shape, Live
  <2>2. space[p].pte \in Entries
    BY <2>1 DEF Space
  <2>3. DOMAIN space[p].pte \subseteq UserPages /\ FramesOf(space[p].pte) \subseteq Frames
    BY <2>2, EntryFacts
  <2>4. \A page \in DOMAIN space[p].pte : TableOf(page) \in DOMAIN space[p].tab
    BY <2>1 DEF SpaceOK, TreeOK
  <2> QED BY <2>3, <2>4 DEF UserPages, Leaves, FramesOf
<1> QED BY <1>1, <1>2 DEF TypeOK, Panics, Memory, Bytes

(* Whatever calls of exec, sbrk and exit are made and wherever they fail,  *)
(* a frame is free, lost, or has exactly one use in one address space, and *)
(* the entries and tables of an address space lead to different frames, up *)
(* to a panic or a second free of page 0 by vmm_user_sbrk_deallocate.  The *)
(* first, which hands the allocator a page it never had, is included.      *)
THEOREM EveryFrameOwnedOnce == Spec => []FramesOwnedOnce
<1>1. SpaceInv => FramesOwnedOnce
  <2> SUFFICES ASSUME SpaceInv PROVE FramesOwnedOnce
    OBVIOUS
  <2>1. TypeOK
    BY SpaceTypes
  <2>2. ASSUME Running
        PROVE  /\ \A p \in Live :
                    LET s == space[p]
                    IN  /\ Owned(s) \cap (free \cup lost) = {}
                        /\ \A q \in Live \ {p} : Owned(s) \cap Owned(space[q]) = {}
                        /\ Cardinality(Owned(s)) = 1 + Cardinality(s.kcopy) + Cardinality(s.stray)
                             + Cardinality(DOMAIN s.tab) + Cardinality(DOMAIN s.pte)
               /\ free \cap lost = {}
               /\ free \cup lost \cup UNION {Owned(space[p]) : p \in Live} = Frames
    <3>1. Shapes /\ Apart(space, free, lost)
      BY <2>2 DEF SpaceInv
    <3>2. \A p \in Live : /\ p \in Procs /\ space[p] \in Space /\ SpaceOK(space[p])
                          /\ Own(space[p]) = Owned(space[p])
      BY <3>1 DEF Shapes, Shape, Live, Own
    <3>3. \A p \in Procs \ Live : Own(space[p]) = {}
      BY DEF Live, Own
    <3>4. ASSUME NEW p \in Live
          PROVE  /\ Owned(space[p]) \cap (free \cup lost) = {}
                 /\ \A q \in Live \ {p} : Owned(space[p]) \cap Owned(space[q]) = {}
                 /\ Cardinality(Owned(space[p])) =
                      1 + Cardinality(space[p].kcopy) + Cardinality(space[p].stray)
                        + Cardinality(DOMAIN space[p].tab) + Cardinality(DOMAIN space[p].pte)
      <4>1. Owned(space[p]) \cap (free \cup lost) = {}
        BY <3>1, <3>2 DEF Apart
      <4>2. \A q \in Live \ {p} : Owned(space[p]) \cap Owned(space[q]) = {}
        BY <3>1, <3>2 DEF Apart
      <4> QED BY <3>2, <4>1, <4>2, CountOwned
    <3>5. free \cup lost \cup UNION {Owned(space[p]) : p \in Live} \subseteq Frames
      <4>1. \A p \in Live : Owned(space[p]) \subseteq Frames
        BY <3>2, OwnedFrames
      <4> QED BY <3>1, <4>1 DEF Shapes
    <3>6. Frames \subseteq free \cup lost \cup UNION {Owned(space[p]) : p \in Live}
      <4> SUFFICES ASSUME NEW f \in Frames, f \notin free, f \notin lost
                   PROVE  \E p \in Live : f \in Owned(space[p])
        OBVIOUS
      <4>1. PICK p \in Procs : f \in Own(space[p])
        BY <3>1 DEF Apart
      <4> QED BY <3>2, <3>3, <4>1
    <3>7. free \cap lost = {}
      BY <3>1 DEF Apart
    <3> QED BY <3>4, <3>5, <3>6, <3>7
  <2> QED BY <2>1, <2>2 DEF FramesOwnedOnce
<1> QED BY <1>1, SpaceInvariant, PTL


-----------------------------------------------------------------------------
(* Contents.                                                                  *)

(* The page of an address above a page border is above it as well.         *)
LEMMA AboveBorder ==
  ASSUME NEW a \in Nat, NEW border \in Nat, border % PAGE_SIZE = 0, border <= a
  PROVE  /\ border <= PageOf(a) * PAGE_SIZE /\ PageOf(a) * PAGE_SIZE <= a
         /\ PageOf(a) \in Nat /\ PageOf(a) * PAGE_SIZE \in Nat
<1>1. PAGE_SIZE \in Nat \ {0}
  BY SpaceAssumption
<1>2. PICK k \in Nat : k = border \div PAGE_SIZE /\ border = k * PAGE_SIZE + 0
  BY <1>1, Quotient
<1>3. border = k * PAGE_SIZE
  BY <1>1, <1>2
<1>4. k * PAGE_SIZE <= a <=> k <= PageOf(a)
  BY PageBelow
<1>5. PageOf(a) \in Nat
  BY <1>1, Quotient DEF PageOf
<1>6. PICK q \in Nat : q = PageOf(a)
  BY <1>5
<1>7. k <= q <=> k * PAGE_SIZE <= q * PAGE_SIZE
  BY <1>1, Products
<1>8. q * PAGE_SIZE \in Nat /\ q * PAGE_SIZE <= a
  BY <1>1, <1>6, PageBelow
<1> QED BY <1>3, <1>4, <1>6, <1>7, <1>8

(* Across any sequence of sbrk calls, every byte between the end of the    *)
(* program and the break is mapped for the program to write, and was zero  *)
(* when it was added.                                                      *)
THEOREM HeapIsBacked == Spec => []HeapBacked
<1>1. SpaceInv => HeapBacked
  <2> SUFFICES ASSUME SpaceInv, Running, NEW p \in Live,
                      NEW a \in space[p].initial_data_segment .. space[p].current_sbrk - 1
               PROVE  UserPage(space[p], PageOf(a), TRUE) /\ Byte(p, a) = "zero"
    BY DEF HeapBacked
  <2> DEFINE s == space[p]
  <2>1. s \in Space /\ HeapOK(s, mem)
    BY DEF SpaceInv, Shapes, Shape, Contents, ContentOK, Live
  <2>2. s.initial_data_segment \in Nat /\ s.current_sbrk \in Nat
    BY <2>1 DEF Space
  <2>3. a \in Nat /\ s.initial_data_segment <= a /\ a < s.current_sbrk
    BY <2>2
  <2>s. s = space[p]
    OBVIOUS
  <2> HIDE DEF s
  <2>4. s.initial_data_segment % PAGE_SIZE = 0
    BY <2>1 DEF HeapOK
  <2>5. PICK page \in Nat : page = PageOf(a) /\ page * PAGE_SIZE \in Nat
                            /\ s.initial_data_segment <= page * PAGE_SIZE /\ page * PAGE_SIZE <= a
    BY <2>2, <2>3, <2>4, AboveBorder
  <2>6. page * PAGE_SIZE < s.current_sbrk
    BY <2>2, <2>3, <2>5
  <2>7. UserPage(s, page, TRUE) /\ mem[s.pte[page].frame] = Filled("zero")
    BY <2>1, <2>5, <2>6 DEF HeapOK
  <2>8. a % PAGE_SIZE \in Offsets
    BY <2>3, SpaceAssumption, Quotient DEF Offsets
  <2>9. Byte(p, a) = Filled("zero")[a % PAGE_SIZE]
    BY <2>s, <2>5, <2>7 DEF Byte
  <2>10. Byte(p, a) = "zero"
    BY <2>8, <2>9 DEF Filled
  <2> QED BY <2>s, <2>5, <2>7, <2>10
<1> QED BY <1>1, SpaceInvariant, PTL

-----------------------------------------------------------------------------
(* Programs.                                                               *)

(* Whatever the calls of exec, sbrk and exit of this and other processes   *)
(* do, a program finds in its memory what its file says (proc_exec), as    *)
(* far as it has not given the pages back.                                 *)
THEOREM ProgramsAreLoaded == Spec => []ImageLoaded
<1>1. SpaceInv => ImageLoaded
  <2> SUFFICES ASSUME SpaceInv, Running, NEW p \in Live, LowProgram(space[p].prog),
                      NEW k \in DOMAIN space[p].prog.segs, space[p].prog.segs[k].load,
                      NEW o \in 0 .. space[p].prog.segs[k].memsz - 1,
                      NEW a, a = space[p].prog.segs[k].vaddr + LoadBias(space[p].prog) + o,
                      PageOf(a) * PAGE_SIZE <= space[p].lowest
               PROVE  /\ UserPage(space[p], PageOf(a), space[p].prog.segs[k].writable)
                      /\ Byte(p, a) = IF o < space[p].prog.segs[k].filesz THEN "file" ELSE "zero"
    BY DEF ImageLoaded
  <2>1. ImageOK(space[p], mem)
    BY DEF SpaceInv, Contents, ContentOK, Live
  <2>2. ByteThere(space[p], mem, a, space[p].prog.segs[k].writable,
                  Content(space[p].prog.segs[k], o))
    BY <2>1 DEF ImageOK
  <2> QED BY <2>2 DEF ByteThere, Byte, Content
<1> QED BY <1>1, SpaceInvariant, PTL

-----------------------------------------------------------------------------
(* Buffers.                                                                *)

(* The borders of user space are borders of pages.                         *)
LEMMA UserBorders ==
  /\ USERSPACE_VA_MAX % PAGE_SIZE = 0 /\ USERSPACE_VA_MIN % PAGE_SIZE = 0
  /\ USERSPACE_VA_MAX \in Nat /\ USERSPACE_VA_MIN \in Nat
<1>1. /\ PAGE_SIZE \in Nat \ {0} /\ UINT_MOD \in Nat \ {0} /\ UINT_MOD % PAGE_SIZE = 0
      /\ USERSPACE_VA_MAX \in Nat /\ USERSPACE_VA_MAX % UINT_MOD = 0
  BY SpaceAssumption
<1>2. PICK i \in Nat : USERSPACE_VA_MAX = i * UINT_MOD + 0
  BY <1>1, Quotient
<1>3. PICK j \in Nat : UINT_MOD = j * PAGE_SIZE + 0
  BY <1>1, Quotient
<1>4. i * j \in Nat /\ USERSPACE_VA_MAX = (i * j) * PAGE_SIZE
  BY <1>1, <1>2, <1>3
<1>5. \A k \in Nat : (k * PAGE_SIZE) % PAGE_SIZE = 0
  BY <1>1
<1> QED BY <1>1, <1>4, <1>5, SpaceAssumption

(* A page of user space holds addresses of user space.                     *)
LEMMA UserAddress ==
  ASSUME NEW b \in Nat, PageOf(b) \in UserPages
  PROVE  USERSPACE_VA_MIN <= b /\ b < USERSPACE_VA_MAX
<1>1. PAGE_SIZE \in Nat \ {0}
  BY SpaceAssumption
<1>v. \A c \in Nat : c % PAGE_SIZE = 0 => PageOf(c) \in Nat /\ c = PageOf(c) * PAGE_SIZE
  <2> SUFFICES ASSUME NEW c \in Nat, c % PAGE_SIZE = 0
               PROVE  PageOf(c) \in Nat /\ c = PageOf(c) * PAGE_SIZE
    OBVIOUS
  <2>1. PICK k \in Nat : k = PageOf(c) /\ c = k * PAGE_SIZE + 0
    BY <1>1, Quotient DEF PageOf
  <2> QED BY <1>1, <2>1
<1>2. PICK lo \in Nat, hi \in Nat : /\ lo = PageOf(USERSPACE_VA_MIN) /\ hi = PageOf(USERSPACE_VA_MAX)
                                    /\ USERSPACE_VA_MIN = lo * PAGE_SIZE
                                    /\ USERSPACE_VA_MAX = hi * PAGE_SIZE
  BY <1>v, UserBorders
<1>3. PICK q \in Nat : q = PageOf(b)
  BY <1>1, Quotient DEF PageOf
<1>4. lo <= q /\ q < hi
  BY <1>2, <1>3 DEF UserPages, NumPages
<1>5. (lo * PAGE_SIZE <= b <=> lo <= q) /\ (hi * PAGE_SIZE <= b <=> hi <= q)
      /\ lo * PAGE_SIZE \in Nat /\ hi * PAGE_SIZE \in Nat
  BY <1>3, PageBelow
<1> QED BY <1>2, <1>4, <1>5

(* The pages that the check visits are those of the bytes of the buffer.   *)
LEMMA PagesOfBuffer ==
  ASSUME NEW a \in Nat, NEW n \in Nat \ {0}, NEW end \in Nat, end = a + n,
         end + PAGE_SIZE <= UINT_MOD
  PROVE  RoundDown(a) .. EndPage(end) - 1 = {PageOf(b) : b \in a .. end - 1}
<1>1. PAGE_SIZE \in Nat \ {0} /\ UINT_MOD \in Nat \ {0}
  BY SpaceAssumption
<1>2. \A b \in Nat : PageOf(b) \in Nat
  BY <1>1, Quotient DEF PageOf
<1>3. RoundDown(a) = PageOf(a)
  <2>1. a % UINT_MOD = a
    BY <1>1
  <2> QED BY <2>1 DEF RoundDown
<1>4. RoundUp(end) \in Nat /\ \A page \in Nat : end <= page * PAGE_SIZE <=> RoundUp(end) <= page
  BY RoundedUp, <1>1
<1>5. ASSUME NEW b \in a .. end - 1 PROVE PageOf(b) \in PageOf(a) .. EndPage(end) - 1
  <2>1. b \in Nat /\ a <= b /\ b < end
    OBVIOUS
  <2>2. PICK q \in Nat : q = PageOf(b)
    BY <1>2, <2>1
  <2>3. PICK q0 \in Nat : q0 = PageOf(a)
    BY <1>2
  <2>4. q0 <= q
    <3>1. q0 * PAGE_SIZE <= a /\ q0 * PAGE_SIZE \in Nat
      BY <2>3, PageBelow
    <3>2. q0 * PAGE_SIZE <= b
      BY <2>1, <3>1
    <3> QED BY <2>1, <2>2, <3>2, PageBelow
  <2>5. q < RoundUp(end)
    <3>1. q * PAGE_SIZE <= b /\ q * PAGE_SIZE \in Nat
      BY <2>1, <2>2, PageBelow
    <3>2. ~(end <= q * PAGE_SIZE)
      BY <2>1, <3>1
    <3> QED BY <1>4, <3>2
  <2> QED BY <1>4, <2>2, <2>3, <2>4, <2>5 DEF EndPage
<1>6. ASSUME NEW q \in PageOf(a) .. EndPage(end) - 1
      PROVE  \E b \in a .. end - 1 : q = PageOf(b)
  <2>1. q \in Nat /\ PageOf(a) <= q /\ q < RoundUp(end)
    BY <1>2, <1>4 DEF EndPage
  <2>2. q * PAGE_SIZE \in Nat /\ q * PAGE_SIZE < end
    BY <1>1, <1>4, <2>1
  <2>3. CASE q = PageOf(a)
    <3>1. a \in a .. end - 1
      OBVIOUS
    <3> QED BY <2>3, <3>1
  <2>4. CASE q # PageOf(a)
    <3>1. ~(q <= PageOf(a)) /\ PageOf(a) \in Nat
      BY <1>2, <2>1, <2>4
    <3>2. ~(q * PAGE_SIZE <= a)
      BY <2>1, <3>1, PageBelow
    <3>3. q * PAGE_SIZE \in a .. end - 1
      BY <2>2, <3>2
    <3>4. PageOf(q * PAGE_SIZE) = q
      BY <1>1, <2>1 DEF PageOf
    <3> QED BY <3>3, <3>4
  <2> QED BY <2>3, <2>4
<1> QED BY <1>3, <1>5, <1>6

(* vmm_validate_user_ptr accepts a buffer exactly if the program may       *)
(* access every byte of it, for every buffer below the point where         *)
(* rounding loses the upper half of an address.                            *)
THEOREM BufferCheckIsExact == Spec => []BufferCheckExact
<1>1. SpaceInv => BufferCheckExact
  <2> SUFFICES ASSUME SpaceInv, NEW p \in Live, NEW a \in 0 .. UINT_MOD - 1, NEW n \in PtrLens,
                      NEW w \in BOOLEAN, (a + n) % ADDR_MOD <= UINT_MOD - PAGE_SIZE
               PROVE  vmm_validate_user_ptr(space[p], a, n, w) <=>
                        n # 0 /\ \A b \in a .. a + n - 1 : UserPage(space[p], PageOf(b), w)
    BY DEF BufferCheckExact
  <2> DEFINE s == space[p]
             end == (a + n) % ADDR_MOD
  <2>1. s \in Space
    BY DEF SpaceInv, Shapes, Shape, Live
  <2>2. DOMAIN s.pte \subseteq UserPages
    BY <2>1, EntryFacts DEF Space
  <2>3. \A page : UserPage(s, page, w) => page \in UserPages
    BY <2>2 DEF UserPage
  <2>4. /\ a \in Nat /\ n \in Nat /\ n < ADDR_MOD /\ ADDR_MOD \in Nat \ {0}
        /\ USERSPACE_VA_MAX \in Nat /\ USERSPACE_VA_MIN \in Nat \ {0} /\ USERSPACE_VA_MAX < ADDR_MOD
        /\ PAGE_SIZE \in Nat \ {0} /\ UINT_MOD \in Nat \ {0}
    BY SpaceAssumption
  <2>s. s = space[p]
    OBVIOUS
  <2> HIDE DEF s
  <2>5. ASSUME n # 0, end = a + n
        PROVE  (\A q \in RoundDown(a) .. EndPage(end) - 1 : UserPage(s, q, w))
                 <=> \A b \in a .. a + n - 1 : UserPage(s, PageOf(b), w)
    <3>1. end + PAGE_SIZE <= UINT_MOD /\ end \in Nat
      BY <2>4, <2>5
    <3>e. end = a + n
      BY <2>5
    <3> HIDE DEF end
    <3>2. RoundDown(a) .. EndPage(end) - 1 = {PageOf(b) : b \in a .. end - 1}
      <4>1. n \in Nat \ {0} /\ a \in Nat
        BY <2>4, <2>5
      <4> QED BY <3>1, <3>e, <4>1, PagesOfBuffer
    <3>3. a .. end - 1 = a .. a + n - 1
      <4>1. end - 1 = a + n - 1
        BY <2>4, <3>1, <3>e
      <4> QED BY <4>1
    <3>4. PICK pages, bytes : pages = RoundDown(a) .. EndPage(end) - 1 /\ bytes = a .. a + n - 1
      OBVIOUS
    <3>5. pages = {PageOf(b) : b \in bytes}
      BY <3>2, <3>3, <3>4
    <3>6. (\A q \in pages : UserPage(s, q, w)) <=> \A b \in bytes : UserPage(s, PageOf(b), w)
      BY <3>5
    <3> QED BY <3>4, <3>6
  <2>6. ASSUME vmm_validate_user_ptr(s, a, n, w)
        PROVE  n # 0 /\ \A b \in a .. a + n - 1 : UserPage(s, PageOf(b), w)
    <3>1. /\ n # 0 /\ end >= a /\ a < USERSPACE_VA_MAX
          /\ \A q \in RoundDown(a) .. EndPage(end) - 1 : UserPage(s, q, w)
      BY <2>6 DEF vmm_validate_user_ptr
    <3>2. end = a + n
      <4>1. CASE a + n < ADDR_MOD
        BY <2>4, <4>1
      <4>2. CASE a + n >= ADDR_MOD
        <5>1. a + n - ADDR_MOD \in 0 .. ADDR_MOD - 1
          BY <2>4, <3>1, <4>2
        <5>2. end = a + n - ADDR_MOD
          BY <2>4, <5>1
        <5> HIDE DEF end
        <5> QED BY <2>4, <3>1, <5>2
      <4> QED BY <2>4, <4>1, <4>2
    <3> QED BY <2>5, <3>1, <3>2
  <2>7. ASSUME n # 0, \A b \in a .. a + n - 1 : UserPage(s, PageOf(b), w)
        PROVE  vmm_validate_user_ptr(s, a, n, w)
    <3>1. a \in a .. a + n - 1 /\ a + n - 1 \in a .. a + n - 1
      BY <2>4, <2>7
    <3>2. USERSPACE_VA_MIN <= a /\ a < USERSPACE_VA_MAX
      <4>1. PageOf(a) \in UserPages
        BY <2>3, <2>7, <3>1
      <4> QED BY <2>4, <4>1, UserAddress
    <3>3. a + n - 1 < USERSPACE_VA_MAX
      <4>1. PageOf(a + n - 1) \in UserPages
        BY <2>3, <2>7, <3>1
      <4>2. a + n - 1 \in Nat
        BY <2>4, <2>7
      <4> QED BY <4>1, <4>2, UserAddress
    <3>4. end = a + n
      BY <2>4, <3>2, <3>3
    <3>5. \A q \in RoundDown(a) .. EndPage(end) - 1 : UserPage(s, q, w)
      BY <2>5, <2>7, <3>4
    <3>6. a # 0 /\ end >= a /\ end <= USERSPACE_VA_MAX
      <4> HIDE DEF end
      <4> QED BY <2>4, <3>2, <3>3, <3>4
    <3> QED BY <2>4, <2>7, <3>2, <3>5, <3>6 DEF vmm_validate_user_ptr
  <2> QED BY <2>s, <2>6, <2>7
<1> QED BY <1>1, SpaceInvariant, PTL


=============================================================================
