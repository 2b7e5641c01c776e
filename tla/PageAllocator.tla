---------------------------- MODULE PageAllocator ---------------------------
(***************************************************************************)
(* The physical page allocator of mem/mem.c: regions of memory that was    *)
(* never handed out, from which pages are carved in order, and the list of *)
(* pages that came back, which lives in the first word of these pages.     *)
(*                                                                         *)
(* A page is its number; a page that is not free belongs to its holder,    *)
(* who may write into its first word whatever it likes.  Interrupts are    *)
(* off in the kernel, so every call is one step.                           *)
(***************************************************************************)
EXTENDS Integers, FiniteSets, Sequences

CONSTANTS
  NumPages,                  \* pages of the physical address space
  PAGE_SIZE,                 \* 4096, scaled down
  UINT_MOD,                  \* 2^32, the width of PAGE_SIZE's type, scaled down
  STATIC_REGION_POOL_SIZE,
  MemMaps,                   \* the memory maps a machine may have
  MaxRun,                    \* bound on the requests of kalloc_pages
  NULL, JUNK                 \* a word that is 0, and one that is no address

Pages == 0 .. NumPages - 1

(* An entry of a memory map: the bytes from base on, usable or not.        *)
Entry == [base : Nat, length : Nat, usable : BOOLEAN]

Disjoint(e, f) == e.base + e.length <= f.base \/ f.base + f.length <= e.base

(* The usable entries of the boot loader's maps do not overlap, and usable *)
(* memory ends below 4 GiB (the start scripts give the machine 512 MB).    *)
ASSUME PageAssumption ==
  /\ NumPages \in Nat /\ PAGE_SIZE \in Nat \ {0}
  /\ UINT_MOD \in Nat \ {0} /\ NumPages * PAGE_SIZE < UINT_MOD
  /\ STATIC_REGION_POOL_SIZE \in Nat /\ MaxRun \in Nat \ {0}
  /\ NULL \notin Pages /\ JUNK \notin Pages /\ NULL # JUNK
  /\ \A m \in MemMaps :
       /\ m \in Seq(Entry)
       /\ \A i \in DOMAIN m : m[i].usable => m[i].base + m[i].length <= NumPages * PAGE_SIZE
       /\ \A i, j \in DOMAIN m :
            i # j /\ m[i].usable /\ m[j].usable => Disjoint(m[i], m[j])

VARIABLES
  memmap,            \* the memory map of this machine
  mem_initialized,
  panic,
  regions,           \* the list of regions: phys_cur and phys_end, in pages
  freepages,         \* head of the list of free pages
  word0,             \* the first word of every page
  held,              \* the pages that are with somebody
  failed             \* pages asked for in the last call, if it returned NULL

heapVars == <<regions, freepages, word0>>
vars == <<memmap, mem_initialized, panic, heapVars, held, failed>>

Block(b, n) == b .. b + n - 1

-----------------------------------------------------------------------------
(* init_mem.                                                               *)

(* a & ~(PAGE_SIZE - 1): the mask is as wide as PAGE_SIZE, an unsigned     *)
(* int, and clears the upper half of an address with its lower bits.       *)
PageOf(a) == (a % UINT_MOD) \div PAGE_SIZE

(* What init_mem makes of a usable entry, and whether it keeps it.         *)
RegionOf(e) == [phys_cur |-> PageOf(e.base + PAGE_SIZE - 1),
                phys_end |-> PageOf(e.base + e.length)]

Registered(e) ==
  /\ e.usable
  /\ e.length >= PAGE_SIZE
  /\ RegionOf(e).phys_cur < RegionOf(e).phys_end

(* The loop over the map: the entries among the first i that it keeps.     *)
Kept[i \in 0 .. Len(memmap)] ==
  IF i = 0 THEN << >>
  ELSE IF Registered(memmap[i]) THEN Append(Kept[i - 1], i) ELSE Kept[i - 1]

(* append_region of one entry after the other: each takes a place in the   *)
(* static pool, as long as there is one.                                   *)
Appended(kept) ==
  LET n == IF Len(kept) <= STATIC_REGION_POOL_SIZE THEN Len(kept)
           ELSE STATIC_REGION_POOL_SIZE
  IN  [k \in 1 .. n |-> RegionOf(memmap[kept[k]])]

(* The first region that finds no place in the pool stops the kernel.      *)
init_mem ==
  /\ ~mem_initialized /\ panic = "none"
  /\ LET kept == Kept[Len(memmap)]
         fits == Len(kept) <= STATIC_REGION_POOL_SIZE
     IN  /\ regions' = Appended(kept)
         /\ panic' = IF fits THEN "none" ELSE "static region pool"
         /\ mem_initialized' = fits
  /\ UNCHANGED <<memmap, freepages, word0, held, failed>>

-----------------------------------------------------------------------------
(* The regions.                                                            *)

(* Slip: a region is left with its last page.                              *)
FitsStrictly(r, n) == r.phys_end - r.phys_cur > n

Fits(r, n) == r.phys_end - r.phys_cur >= n

(* The list without the first n pages of region k; a region that is used   *)
(* up is unlinked.                                                         *)
Carve(k, n) ==
  IF regions[k].phys_cur + n >= regions[k].phys_end
  THEN [j \in 1 .. Len(regions) - 1 |-> IF j < k THEN regions[j] ELSE regions[j + 1]]
  ELSE [regions EXCEPT ![k].phys_cur = @ + n]

(* alloc_from_regions_for_page_cache and alloc_contiguous_from_regions: n  *)
(* pages from the first region that has them, their first words becoming   *)
(* fill[p].                                                                *)
FromRegions(n, fill) ==
  \E k \in DOMAIN regions :
    /\ Fits(regions[k], n) /\ \A j \in 1 .. k - 1 : ~Fits(regions[j], n)
    /\ LET b == regions[k].phys_cur
       IN  /\ held' = held \cup Block(b, n)
           /\ word0' = [p \in Pages |-> IF p \in Block(b, n) THEN fill[p] ELSE word0[p]]
    /\ regions' = Carve(k, n)
    /\ failed' = 0
    /\ UNCHANGED <<freepages, memmap, mem_initialized, panic>>

NoRegion(n) == \A k \in DOMAIN regions : ~Fits(regions[k], n)

(* The call returns NULL.                                                  *)
Fail(n) ==
  /\ failed' = n
  /\ UNCHANGED <<memmap, mem_initialized, panic, heapVars, held>>

-----------------------------------------------------------------------------
(* The list of free pages.                                                 *)

(* The words met by following the list from its head for NumPages steps,   *)
(* and the pages among them.                                               *)
Nodes[k \in 1 .. NumPages + 1] ==
  IF k = 1 THEN freepages
  ELSE IF Nodes[k - 1] \in Pages THEN word0[Nodes[k - 1]] ELSE Nodes[k - 1]
FreeList ==
  [k \in 1 .. Cardinality({j \in 1 .. NumPages + 1 : Nodes[j] \in Pages}) |-> Nodes[k]]

(* pop_free_page                                                           *)
Pop(fill) ==
  /\ freepages \in Pages
  /\ freepages' = word0[freepages]
  /\ word0' = [word0 EXCEPT ![freepages] = fill[freepages]]
  /\ held' = held \cup {freepages}
  /\ failed' = 0
  /\ UNCHANGED <<regions, memmap, mem_initialized, panic>>

(* Slip: the pages need not follow one another.                            *)
AnyRun(i, n) == i + n - 1 <= Len(FreeList)

(* The n pages from position i of the list on follow one another.          *)
IsRun(i, n) ==
  LET list == FreeList
  IN  /\ i + n - 1 <= Len(list)
      /\ \A j \in 1 .. n - 1 : list[i + j] = list[i] + j

(* Slip: the pages before the run are cut off with it.                     *)
UnlinkHead(i, n) ==
  /\ freepages' = word0[FreeList[i + n - 1]]
  /\ word0' = [p \in Pages |-> IF p \in Block(FreeList[i], n) THEN JUNK ELSE word0[p]]

(* The run is taken out, and memset to 2.                                  *)
Unlink(i, n) ==
  LET list == FreeList
      rest == word0[list[i + n - 1]]
  IN  /\ freepages' = IF i = 1 THEN rest ELSE freepages
      /\ word0' = [p \in Pages |->
                     IF p \in Block(list[i], n) THEN JUNK
                     ELSE IF i > 1 /\ p = list[i - 1] THEN rest
                     ELSE word0[p]]

(* alloc_contiguous_from_freelist: the first run of n pages in the list.   *)
TakeRun(n) ==
  \E i \in DOMAIN FreeList :
    /\ IsRun(i, n) /\ \A j \in 1 .. i - 1 : ~IsRun(j, n)
    /\ Unlink(i, n)
    /\ held' = held \cup Block(FreeList[i], n)
    /\ failed' = 0
    /\ UNCHANGED <<regions, memmap, mem_initialized, panic>>

NoRun(n) == \A i \in DOMAIN FreeList : ~IsRun(i, n)

-----------------------------------------------------------------------------
(* The calls.                                                              *)

Ready == mem_initialized /\ panic = "none"

(* One page: off the list, else from a region, else NULL.                  *)
OnePage(popped, carved) ==
  /\ Ready
  /\ \/ Pop(popped)
     \/ freepages = NULL /\ FromRegions(1, carved)
     \/ freepages = NULL /\ NoRegion(1) /\ Fail(1)

(* What memset leaves in the first words.                                  *)
Zeros == [p \in Pages |-> NULL]
Twos == [p \in Pages |-> JUNK]

kalloc == OnePage(Zeros, Twos)
kcalloc == OnePage(Zeros, Zeros)
kalloc_for_page_cache == OnePage(word0, word0)

kalloc_pages(n) ==
  /\ Ready /\ n > 1
  /\ \/ TakeRun(n)
     \/ NoRun(n) /\ FromRegions(n, Twos)
     \/ NoRun(n) /\ NoRegion(n) /\ Fail(n)

(* The first words after kfree of the n pages from b on, one by one: the   *)
(* list runs through them backwards.                                       *)
Pushed(b, n) ==
  [p \in Pages |-> IF p = b THEN freepages
                   ELSE IF p \in Block(b, n) THEN p - 1
                   ELSE word0[p]]

(* kfree is the case of one page.                                          *)
kfree_pages(b, n) ==
  /\ Ready /\ n > 0
  /\ Block(b, n) \subseteq held
  /\ freepages' = b + n - 1
  /\ word0' = Pushed(b, n)
  /\ held' = held \ Block(b, n)
  /\ failed' = 0
  /\ UNCHANGED <<regions, memmap, mem_initialized, panic>>

(* The holder of a page writes into it.                                    *)
HolderWrites(p, w) ==
  /\ Ready
  /\ p \in held
  /\ word0' = [word0 EXCEPT ![p] = w]
  /\ failed' = 0
  /\ UNCHANGED <<regions, freepages, memmap, mem_initialized, panic, held>>

Halted == panic # "none" /\ UNCHANGED vars

-----------------------------------------------------------------------------
Init ==
  /\ memmap \in MemMaps
  /\ mem_initialized = FALSE
  /\ panic = "none"
  /\ regions = << >>
  /\ freepages = NULL
  /\ word0 = [p \in Pages |-> JUNK]
  /\ held = {}
  /\ failed = 0

Next ==
  \/ init_mem
  \/ kalloc
  \/ kcalloc
  \/ kalloc_for_page_cache
  \/ \E n \in 2 .. MaxRun : kalloc_pages(n)
  \/ \E b \in Pages, n \in 1 .. MaxRun : kfree_pages(b, n)
  \/ \E p \in Pages, w \in Pages \cup {NULL, JUNK} : HolderWrites(p, w)
  \/ Halted

Spec == Init /\ [][Next]_vars

-----------------------------------------------------------------------------
(* The state is well-typed, and no region in the list is used up.          *)
TypeOK ==
  /\ memmap \in MemMaps
  /\ mem_initialized \in BOOLEAN
  /\ panic \in {"none", "static region pool"}
  /\ \A k \in DOMAIN regions :
       /\ regions[k].phys_cur \in Pages
       /\ regions[k].phys_end \in regions[k].phys_cur + 1 .. NumPages
  /\ freepages \in Pages \cup {NULL}
  /\ word0 \in [Pages -> Pages \cup {NULL, JUNK}]
  /\ held \subseteq Pages
  /\ failed \in 0 .. MaxRun

(* The pages that lie in a usable entry of the memory map as a whole.      *)
Usable ==
  {p \in Pages : \E i \in DOMAIN memmap :
     /\ memmap[i].usable
     /\ memmap[i].base <= p * PAGE_SIZE
     /\ (p + 1) * PAGE_SIZE <= memmap[i].base + memmap[i].length}

Unused(k) == regions[k].phys_cur .. regions[k].phys_end - 1

(* Every usable page is in exactly one place - with a holder, once in the  *)
(* list of free pages, or in one region - and no other page is in any: no  *)
(* sequence of calls, whatever the holders write, hands a page to two of   *)
(* them, loses one, or hands out memory that is not usable.                *)
PagesConserved ==
  /\ TypeOK
  /\ mem_initialized =>
       LET list == FreeList
           free == {list[k] : k \in DOMAIN list}
           unused == UNION {Unused(k) : k \in DOMAIN regions}
       IN  /\ Cardinality(free) = Len(list) /\ Len(list) <= NumPages
           /\ held \cup free \cup unused = Usable
           /\ held \cap free = {} /\ held \cap unused = {} /\ free \cap unused = {}
           /\ \A j, k \in DOMAIN regions : j # k => Unused(j) \cap Unused(k) = {}

(* kalloc, kcalloc and kalloc_for_page_cache return NULL only when every   *)
(* usable page is held.                                                    *)
FailsOnlyWhenFull == failed = 1 => held = Usable

(* A call that allocates or frees pages does not write into a page that    *)
(* stays with somebody else.                                               *)
HoldersKept ==
  [][held' # held => \A p \in held \cap held' : word0'[p] = word0[p]]_vars
=============================================================================
