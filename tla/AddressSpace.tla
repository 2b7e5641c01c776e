---------------------------- MODULE AddressSpace ----------------------------
(***************************************************************************)
(* The address spaces of user processes: the page tables of mem/vmm.c,     *)
(* their life from proc_exec (userspace/exec.c) over sbrk to the exit, the *)
(* frames they take from the page allocator and give back, what the memory *)
(* of a program holds, and the checks of the pointers it passes to system  *)
(* calls.                                                                  *)
(*                                                                         *)
(* Addresses are numbers of bytes; a page table has two levels, a root and *)
(* its tables, instead of four.  The kernel is not preempted, so a call is *)
(* one step.  kalloc may return NULL in any call (PageAllocator says when  *)
(* it really does); which free frame it returns is of no importance here.  *)
(***************************************************************************)
EXTENDS Integers, FiniteSets, Sequences, Functions

CONSTANTS
  Procs,
  Frames,                 \* frames of physical memory, numbers above 0
  PAGE_ZERO,              \* the one at physical address 0
  PAGE_SIZE, UINT_MOD,    \* 4096 and 2^32, the width of its type, scaled down
  ADDR_MOD,               \* 2^64, scaled down
  USERSPACE_VA_MIN, USERSPACE_VA_MAX,
  TABLE_SPAN,             \* pages that one table maps
  USER_STACK_PAGES,       \* USER_STACK_SIZE in pages; the others have one
  KERNEL_TABLES,          \* tables of the kernel that copy_pagetable copies
  Programs,               \* executables
  SbrkDeltas,             \* what programs pass to sbrk
  HeapLimit,              \* bound on the end of a heap, in bytes
  Grants,                 \* numbers of frames after which kalloc fails in a call
  MaxCalls,               \* bound on the number of calls
  PtrLens                 \* lengths of the buffers that are checked

(* A program header.  short says that the file ends in the last page of    *)
(* the segment, before it does; vaddr, filesz and memsz are in bytes.      *)
Segment == [load : BOOLEAN, vaddr : Nat, filesz : Nat, memsz : Nat,
            writable : BOOLEAN, short : BOOLEAN]

Program == [type : {"EXEC", "DYN", "OTHER"}, entry : Nat, segs : Seq(Segment)]

(* Heaps end below the pages at which the rounding of the stack addresses  *)
(* arrives, programs where addresses do, and sbrk takes a signed number.   *)
ASSUME SpaceAssumption ==
  /\ IsFiniteSet(Frames) /\ Frames \subseteq Nat \ {0} /\ PAGE_ZERO \in Frames
  /\ PAGE_SIZE \in Nat \ {0} /\ TABLE_SPAN \in Nat \ {0}
  /\ USER_STACK_PAGES \in Nat \ {0} /\ KERNEL_TABLES \in Nat
  /\ UINT_MOD \in Nat \ {0} /\ UINT_MOD % PAGE_SIZE = 0
  /\ USERSPACE_VA_MIN \in Nat \ {0} /\ USERSPACE_VA_MIN % PAGE_SIZE = 0
  /\ USERSPACE_VA_MAX \in Nat \ {0} /\ USERSPACE_VA_MAX % UINT_MOD = 0
  /\ ADDR_MOD \in Nat /\ USERSPACE_VA_MAX < ADDR_MOD
  /\ \A g \in Programs :
       /\ g \in Program
       /\ \A k \in DOMAIN g.segs :
            g.segs[k].vaddr + USERSPACE_VA_MIN + g.segs[k].memsz < ADDR_MOD
  /\ \A d \in SbrkDeltas : d \in -(ADDR_MOD \div 2) .. (ADDR_MOD \div 2) - 1 /\ d # 0
  /\ HeapLimit \in Nat /\ HeapLimit < UINT_MOD - USER_STACK_PAGES * PAGE_SIZE
  /\ Grants \subseteq Nat /\ MaxCalls \in Nat /\ PtrLens \subseteq 0 .. ADDR_MOD - 1

VARIABLES
  space,      \* the page table and the heap of every process that has one,
              \* and the lowest break it ever had
  free,       \* frames that are with the allocator
  mem,        \* the bytes of every frame
  lost,       \* frames that are not the allocator's, and that nobody will give it
  panic,      \* why the kernel stopped, or may no longer be trusted to go on
  calls       \* number of calls so far

vars == <<space, free, mem, lost, panic, calls>>


Offsets == 0 .. PAGE_SIZE - 1
PageOf(a) == a \div PAGE_SIZE
NumPages == PageOf(USERSPACE_VA_MAX)
TableOf(page) == page \div TABLE_SPAN

(* PAGE_ROUND_DOWN and PAGE_ROUND_UP, as page numbers: the mask has the    *)
(* width of PAGE_SIZE and clears the upper half of an address as well.     *)
RoundDown(a) == PageOf(a % UINT_MOD)
RoundUp(a) == PageOf((a + PAGE_SIZE - 1) % UINT_MOD)

(* The stacks at the end of user space, with a page between any two.       *)
USER_STACK_BOTTOM == NumPages - USER_STACK_PAGES
INTSTACK_BOTTOM == USER_STACK_BOTTOM - 2
SYSCALLSTACK_BOTTOM == INTSTACK_BOTTOM - 2

UserRW == [writable |-> TRUE, userspace |-> TRUE]
KernelRW == [writable |-> TRUE, userspace |-> FALSE]

-----------------------------------------------------------------------------
(* A call in progress: the table it works on, the memory, how many more    *)
(* frames it will get (left), and its result so far (r): "ok", "fail" for  *)
(* a return of NULL or -1, or the panic it ran into.                       *)

(* A table function: the table or the entry at key k of a page table.      *)
With(f, k, v) == [j \in DOMAIN f \cup {k} |-> IF j = k THEN v ELSE f[j]]

(* The frames that a page table maps in user space.                        *)
Leaves(x) == {x.pte[page].frame : page \in DOMAIN x.pte}

(* kalloc and kcalloc: there is a frame, and the caller gets it filled     *)
(* with v.                                                                 *)
Granted(x) == x.left > 0 /\ x.free # {}
NewFrame(x) == CHOOSE f \in x.free : \A g \in x.free : f <= g

Take(x, v) == [x EXCEPT !.free = @ \ {NewFrame(x)}, !.left = @ - 1,
                        !.mem[NewFrame(x)] = [o \in Offsets |-> v]]

(* The call returns NULL or -1.                                            *)
Fail(x) == [x EXCEPT !.r = "fail"]

(* walk with alloc set: the table for the page exists or is made.  Pages   *)
(* outside of user space are a panic.                                      *)
walk(x, page) ==
  IF page \notin PageOf(USERSPACE_VA_MIN) .. NumPages - 1 THEN [x EXCEPT !.r = "walk"]
  ELSE IF TableOf(page) \in DOMAIN x.tab THEN x
  ELSE IF Granted(x)
       THEN [Take(x, "zero") EXCEPT !.tab = With(@, TableOf(page), NewFrame(x))]
       ELSE Fail(x)

(* The entry is written, unless there is one or the walk has failed.       *)
SetPte(x, page, frame, perm) ==
  IF x.r # "ok" THEN x
  ELSE IF page \in DOMAIN x.pte THEN [x EXCEPT !.r = "remap"]
  ELSE [x EXCEPT !.pte = With(@, page, [frame |-> frame, perm |-> perm])]

(* Slip: the frame is not given back when there is none for the table.     *)
AllocatePageKeeps(x, page, perm, v) ==
  IF ~Granted(x) THEN Fail(x)
  ELSE LET y == walk(Take(x, v), page)
       IN  SetPte(y, page, NewFrame(x), perm)

(* One page of vmm_allocate: the frame first, then the way to its entry.   *)
AllocatePage(x, page, perm, v) ==
  IF ~Granted(x) THEN Fail(x)
  ELSE LET y == walk(Take(x, v), page)
       IN  IF y.r = "fail" THEN [y EXCEPT !.free = @ \cup {NewFrame(x)}]
           ELSE SetPte(y, page, NewFrame(x), perm)

(* vmm_allocate: pages one after the other until one fails; v is what      *)
(* their bytes become, zero if the caller asks for it.                     *)
AllocateUpTo(x, first, n, perm, v) ==
  LET upto[k \in 0 .. n] ==
        IF k = 0 THEN x
        ELSE IF upto[k - 1].r # "ok" THEN upto[k - 1]
             ELSE AllocatePage(upto[k - 1], first + k - 1, perm, v)
  IN  upto

vmm_allocate(x, first, n, perm, v) ==
  IF n = 0 THEN [x EXCEPT !.r = "size"] ELSE AllocateUpTo(x, first, n, perm, v)[n]

(* vmm_map_pages, for frames that are there already.                       *)
MapPage(x, page, frame, perm) == SetPte(walk(x, page), page, frame, perm)

MapUpTo(x, first, frames, perm) ==
  LET upto[k \in 0 .. Len(frames)] ==
        IF k = 0 THEN x
        ELSE IF upto[k - 1].r # "ok" THEN upto[k - 1]
             ELSE MapPage(upto[k - 1], first + k - 1, frames[k], perm)
  IN  upto

vmm_map_pages(x, first, frames, perm) == MapUpTo(x, first, frames, perm)[Len(frames)]

-----------------------------------------------------------------------------
(* vmm_user_pagetable_new.                                                 *)

(* n frames at once, filled with junk (kalloc_pages), as a sequence; empty *)
(* when there are not as many.                                             *)
Without(x, frames, n) ==
  [x EXCEPT !.free = @ \ frames, !.left = @ - n,
            !.mem = [f \in Frames |-> IF f \in frames THEN [o \in Offsets |-> "junk"] ELSE @[f]]]

TakePages(x, n) ==
  LET s == CHOOSE s \in [1 .. n -> x.free] : IsInjective(s)
  IN  IF x.left < n \/ Cardinality(x.free) < n THEN [x |-> x, s |-> <<>>]
      ELSE [x |-> Without(x, Range(s), n), s |-> s]

(* The root and the copies of the kernel's tables.  A copy that fails      *)
(* leaves both behind.                                                     *)
NewRoot(x) ==
  IF Granted(x) THEN [Take(x, "zero") EXCEPT !.root = NewFrame(x)] ELSE Fail(x)
CopyTable(x) ==
  IF x.r # "ok" \/ ~Granted(x) THEN Fail(x)
  ELSE [Take(x, "zero") EXCEPT !.kcopy = @ \cup {NewFrame(x)}]

CopyUpTo(x) ==
  LET upto[k \in 0 .. KERNEL_TABLES] == IF k = 0 THEN NewRoot(x) ELSE CopyTable(upto[k - 1])
  IN  upto

copy_pagetable(x) == CopyUpTo(x)[KERNEL_TABLES]

(* The three stacks.  A mapping that fails for want of a table is not      *)
(* noticed: its frames are in no table then (stray).                       *)
vmm_user_pagetable_new(x) ==
  LET c == copy_pagetable(x)
      u == TakePages(c, USER_STACK_PAGES)
      i == TakePages(u.x, 1)
      s == TakePages(i.x, 1)
      m1 == vmm_map_pages(s.x, USER_STACK_BOTTOM, u.s, UserRW)
      m2 == vmm_map_pages([m1 EXCEPT !.r = "ok"], INTSTACK_BOTTOM, i.s, KernelRW)
      m3 == vmm_map_pages([m2 EXCEPT !.r = "ok"], SYSCALLSTACK_BOTTOM, s.s, KernelRW)
  IN  IF c.r # "ok" \/ u.s = <<>> \/ i.s = <<>> \/ s.s = <<>> THEN Fail(c)
      ELSE [m3 EXCEPT !.r = "ok", !.stray = (Range(u.s) \cup Range(i.s) \cup Range(s.s)) \ Leaves(m3)]

-----------------------------------------------------------------------------
(* proc_exec.                                                              *)

(* The entry of a page allows it to user code, for writing if w.           *)
UserPage(x, page, w) ==
  /\ page \in DOMAIN x.pte
  /\ x.pte[page].perm.userspace
  /\ w => x.pte[page].perm.writable

(* n bytes from address a on become v.                                     *)
Store(x, a, n, v) ==
  LET page(f) == {q \in DOMAIN x.pte \cap (PageOf(a) .. PageOf(a + n - 1)) :
                    x.pte[q].frame = f}
      stored(f) == [o \in Offsets |->
                      IF \E q \in page(f) : q * PAGE_SIZE + o \in a .. a + n - 1
                      THEN v ELSE x.mem[f][o]]
  IN  [x EXCEPT !.mem = [f \in Frames |-> IF page(f) = {} THEN @[f] ELSE stored(f)]]

(* vmm_memcpy to user memory, page by page.  The address of the page loses *)
(* its upper half in the rounding and keeps it as an offset into the page: *)
(* the memory that far behind a frame is not mapped.  (A copy that fails   *)
(* on a later page has written the earlier ones; the callers throw the     *)
(* table away or have passed a single page.)                               *)
vmm_memcpy(x, a, n, v) ==
  IF a >= UINT_MOD
  THEN IF UserPage(x, RoundDown(a), TRUE) THEN [x EXCEPT !.r = "page fault"] ELSE Fail(x)
  ELSE IF \A q \in PageOf(a) .. PageOf(a + n - 1) : q < PageOf(UINT_MOD) /\ UserPage(x, q, TRUE)
       THEN Store(x, a, n, v) ELSE Fail(x)

(* Slip: what lies behind the file's part of a segment is left as it is.   *)
ZeroNothing(x, a, n) == x

(* vmm_zero of the part of a segment that is not in the file.              *)
vmm_zero(x, a, n) == IF n > 0 THEN vmm_memcpy(x, a, n, "zero") ELSE x

(* The pages get what the file has for them.  vmm_walkaddr says 0 for a    *)
(* page that is not mapped, and for one that is mapped to page 0.          *)
load_segment(x, va, sz, short) ==
  IF /\ sz > 0
     /\ \E q \in PageOf(va) .. PageOf(va + sz - 1) :
          ~UserPage(x, q, FALSE) \/ x.pte[q].frame = PAGE_ZERO
  THEN [x EXCEPT !.r = "load_segment"]
  ELSE IF short /\ sz > 0 THEN Fail(x)
  ELSE Store(x, va, sz, "file")

(* One program header: pages are allocated, filled from the file, whose    *)
(* part is at most as long as an unsigned int says, and zeroed behind it.  *)
LoadSegment(x, seg, load_bias) ==
  LET va     == seg.vaddr + load_bias
      first  == RoundDown(va)
      n      == RoundUp(va - first * PAGE_SIZE + seg.memsz)
      perm   == [writable |-> seg.writable, userspace |-> TRUE]
      y      == vmm_allocate(x, first, n, perm, "junk")
      w      == load_segment(y, va, seg.filesz % UINT_MOD, seg.short)
      z      == vmm_zero(w, va + seg.filesz, seg.memsz - seg.filesz)
      end    == (first + n) * PAGE_SIZE
  IN  IF ~seg.load THEN x
      ELSE IF \/ seg.memsz < seg.filesz
              \/ first * PAGE_SIZE < USERSPACE_VA_MIN \/ end > USERSPACE_VA_MAX
           THEN Fail(x)
      ELSE IF y.r # "ok" THEN y
      ELSE IF w.r # "ok" THEN w
      ELSE IF z.r # "ok" THEN z
      ELSE [z EXCEPT !.initial = IF end > @ THEN end ELSE @]

(* Where a position independent program, or one without a usable entry, is *)
(* put.                                                                    *)
LoadBias(prog) ==
  IF \/ prog.type = "DYN"
     \/ prog.entry < USERSPACE_VA_MIN \/ prog.entry >= USERSPACE_VA_MAX
  THEN USERSPACE_VA_MIN ELSE 0

LoadUpTo(x, prog) ==
  LET upto[k \in 0 .. Len(prog.segs)] ==
        IF k = 0 THEN x
        ELSE IF upto[k - 1].r # "ok" THEN upto[k - 1]
             ELSE LoadSegment(upto[k - 1], prog.segs[k], LoadBias(prog))
  IN  upto

LoadProgram(x, prog) ==
  IF prog.type = "OTHER" THEN Fail(x) ELSE LoadUpTo(x, prog)[Len(prog.segs)]

(* The strings and words that main is to find at the top of its stack: no  *)
(* result of these copies is looked at.                                    *)
PushArgs(x) ==
  LET y == vmm_memcpy(x, USERSPACE_VA_MAX - 1, 1, "arg")
  IN  IF y.r = "fail" THEN [y EXCEPT !.r = "ok"] ELSE y

(* The frames become free, with what their users left in them.             *)
Freed(m, frames) ==
  [f \in Frames |-> IF f \in frames THEN [o \in Offsets |-> "old"] ELSE m[f]]

(* vmm_user_pagetable_free: the frames that are mapped in user space, the  *)
(* tables that map them, the root.  The copies of the kernel's tables are  *)
(* outside of the range it visits.                                         *)
Returned(x) == {x.root} \cup Range(x.tab) \cup Leaves(x)

vmm_user_pagetable_free(x) ==
  /\ free' = x.free \cup Returned(x)
  /\ mem' = Freed(x.mem, Returned(x))
  /\ lost' = lost \cup x.kcopy \cup x.stray

(* A process without a page table.                                         *)
NoSpace == [root |-> 0]

Blank(left) ==
  [free |-> free, mem |-> mem, left |-> left, r |-> "ok", root |-> 0,
   kcopy |-> {}, tab |-> <<>>, pte |-> <<>>, stray |-> {}, initial |-> 0]

(* A call that got no more than left frames from the allocator.            *)
proc_exec(p, prog, left) ==
  LET t == vmm_user_pagetable_new(Blank(left))
      x == LoadProgram(t, prog)
      y == PushArgs(x)
      initial == RoundUp(x.initial) * PAGE_SIZE
  IN  /\ space[p] = NoSpace /\ panic = "none"
      /\ CASE t.r = "fail" ->
                 /\ panic' = "out of memory"
                 /\ free' = t.free /\ mem' = t.mem
                 /\ lost' = lost \cup t.kcopy \cup ({t.root} \ {0})
                 /\ UNCHANGED space
           [] t.r = "ok" /\ x.r = "fail" ->
                 vmm_user_pagetable_free(x) /\ UNCHANGED <<space, panic>>
           [] t.r = "ok" /\ x.r = "ok" /\ y.r = "ok" ->
                 /\ space' = [space EXCEPT ![p] =
                      [root |-> y.root, kcopy |-> y.kcopy, tab |-> y.tab, pte |-> y.pte,
                       stray |-> y.stray, prog |-> prog,
                       initial_data_segment |-> initial, current_sbrk |-> initial,
                       lowest |-> initial]]
                 /\ free' = y.free /\ mem' = y.mem
                 /\ UNCHANGED <<lost, panic>>
           [] OTHER -> /\ panic' = IF x.r # "ok" THEN x.r ELSE y.r
                       /\ UNCHANGED <<space, free, mem, lost>>

-----------------------------------------------------------------------------
(* Exit and sbrk.                                                          *)

(* The scheduler takes the process apart after proc_exit.                  *)
Exit(p) ==
  /\ panic = "none" /\ space[p] # NoSpace
  /\ vmm_user_pagetable_free([free |-> free, mem |-> mem, kcopy |-> space[p].kcopy,
                              root |-> space[p].root, tab |-> space[p].tab,
                              pte |-> space[p].pte, stray |-> space[p].stray])
  /\ space' = [space EXCEPT ![p] = NoSpace]
  /\ UNCHANGED panic

Stop(why) == panic' = why /\ UNCHANGED <<space, free, mem, lost>>

(* Slip: the page that the new end falls into is not added.                *)
GrowShort(sbrk, delta) == RoundUp(sbrk) .. PageOf(sbrk + delta) - 1

(* The pages that vmm_user_sbrk_allocate adds.                             *)
GrowPages(sbrk, delta) == RoundUp(sbrk) .. PageOf(sbrk + delta - 1)

(* sbrk upwards, with no more than left frames.                            *)
SbrkGrow(p, delta, left) ==
  LET s == space[p]
      pages == GrowPages(s.current_sbrk, delta)
      x0 == [Blank(left) EXCEPT !.tab = s.tab, !.pte = s.pte]
      x == vmm_allocate(x0, CHOOSE q \in pages : \A o \in pages : q <= o,
                        Cardinality(pages), UserRW, "zero")
      y == IF pages = {} THEN x0 ELSE x
  IN  /\ panic = "none" /\ s # NoSpace /\ delta > 0
      /\ s.current_sbrk + delta <= HeapLimit
      /\ IF y.r = "ok"
         THEN /\ space' = [space EXCEPT ![p].tab = y.tab, ![p].pte = y.pte,
                                        ![p].current_sbrk = @ + delta]
              /\ free' = y.free /\ mem' = y.mem
              /\ UNCHANGED <<lost, panic>>
         ELSE Stop(IF y.r = "fail" THEN "sbrk: OOM" ELSE y.r)

(* proc_sbrk's limit: it is compared the wrong way round, so a request     *)
(* within the heap gives all of it back, and so does one beyond address 0, *)
(* where the sum wraps; one beyond the heap is granted.  From below the    *)
(* end of the program the break jumps back up to it.                       *)
ShrinkBy(s, delta) ==
  IF s.initial_data_segment <= (s.current_sbrk - delta) % ADDR_MOD
  THEN s.current_sbrk - s.initial_data_segment ELSE delta

(* The pages vmm_user_sbrk_deallocate visits: from the one at the old end, *)
(* whether or not the heap reaches into it, to the first above the new.    *)
ShrinkPages(s, by) ==
  {q \in 0 .. RoundDown(s.current_sbrk) : q * PAGE_SIZE > s.current_sbrk - by}

(* What kfree gets for the pages: their frames, and page 0 for each that   *)
(* has no entry.                                                           *)
FreedFrames(s, pages) ==
  {s.pte[q].frame : q \in pages \cap DOMAIN s.pte}
    \cup IF pages \subseteq DOMAIN s.pte THEN {} ELSE {PAGE_ZERO}

(* No frame that is free or in use is freed: page 0 is neither, and there  *)
(* is one page without an entry at most.                                   *)
FreesOnce(s, pages) ==
  \A q \in pages \ DOMAIN s.pte :
    PAGE_ZERO \in lost /\ \A o \in pages \ DOMAIN s.pte : o = q

(* sbrk downwards.  After a second free the list of free pages is a cycle, *)
(* or a page that is in use is handed out again; the model ends there.     *)
SbrkShrink(p, delta) ==
  LET s == space[p]
      by == ShrinkBy(s, delta)
      pages == ShrinkPages(s, by)
      bad == {q \in pages : q < PageOf(USERSPACE_VA_MIN) \/ TableOf(q) \notin DOMAIN s.tab}
      top == CHOOSE q \in bad : \A o \in bad : q >= o
      frames == FreedFrames(s, pages)
  IN  /\ panic = "none" /\ s # NoSpace /\ delta > 0
      /\ IF bad = {}
         THEN /\ space' = [space EXCEPT
                    ![p].pte = [q \in DOMAIN s.pte \ pages |-> s.pte[q]],
                    ![p].current_sbrk = @ - by,
                    ![p].lowest = IF @ < s.current_sbrk - by THEN @ ELSE s.current_sbrk - by]
              /\ free' = free \cup frames
              /\ mem' = Freed(mem, frames)
              /\ lost' = lost \ frames
              /\ panic' = IF FreesOnce(s, pages) THEN panic ELSE "freed twice"
         ELSE Stop(IF top < PageOf(USERSPACE_VA_MIN) THEN "walk" ELSE "non-existant page")

(* proc_sbrk                                                               *)
proc_sbrk(p, how_much) ==
  \/ how_much > 0 /\ \E left \in Grants : SbrkGrow(p, how_much, left)
  \/ how_much < 0 /\ SbrkShrink(p, -how_much)

(* A kernel that panicked stays that way; the model ends with the last     *)
(* call.                                                                   *)
Halted == (panic # "none" \/ calls = MaxCalls) /\ UNCHANGED vars

(* The boot loader does not count page 0 as usable memory.                 *)
Init ==
  /\ space = [p \in Procs |-> NoSpace]
  /\ free = Frames \ {PAGE_ZERO}
  /\ mem = [f \in Frames |-> [o \in Offsets |-> "old"]]
  /\ lost = {PAGE_ZERO}
  /\ panic = "none"
  /\ calls = 0

Next ==
  \/ /\ calls < MaxCalls /\ calls' = calls + 1
     /\ \E p \in Procs :
          \/ \E prog \in Programs, left \in Grants : proc_exec(p, prog, left)
          \/ Exit(p)
          \/ \E d \in SbrkDeltas : proc_sbrk(p, d)
  \/ Halted

Spec == Init /\ [][Next]_vars

-----------------------------------------------------------------------------
(* The pointers of system calls.                                           *)

(* Slip: the page that holds the end is not looked at.                     *)
EndPageDown(a) == RoundDown(a)

(* The page behind the range that is checked.                              *)
EndPage(a) == RoundUp(a)

(* vmm_validate_user_ptr                                                   *)
vmm_validate_user_ptr(x, a, n, w) ==
  LET end == (a + n) % ADDR_MOD
  IN  /\ a # 0 /\ n # 0
      /\ end >= a
      /\ a < USERSPACE_VA_MAX /\ end <= USERSPACE_VA_MAX
      /\ a >= USERSPACE_VA_MIN
      /\ \A q \in RoundDown(a) .. EndPage(end) - 1 : UserPage(x, q, w)

-----------------------------------------------------------------------------
(* Properties.                                                             *)

Live == {p \in Procs : space[p] # NoSpace}
Running == panic = "none"
Byte(p, a) == mem[space[p].pte[PageOf(a)].frame][a % PAGE_SIZE]

(* Entries lie in user space, each under a table that is there (walk), and *)
(* lead to frames.                                                         *)
TypeOK ==
  /\ free \subseteq Frames /\ lost \subseteq Frames
  /\ mem \in [Frames -> [Offsets -> {"old", "junk", "zero", "file", "arg"}]]
  /\ panic \in {"none", "out of memory", "remap", "size", "sbrk: OOM", "walk", "page fault",
                "load_segment", "non-existant page", "freed twice"}
  /\ \A p \in Live :
       /\ DOMAIN space[p].pte \subseteq PageOf(USERSPACE_VA_MIN) .. NumPages - 1
       /\ {TableOf(page) : page \in DOMAIN space[p].pte} \subseteq DOMAIN space[p].tab
       /\ Leaves(space[p]) \subseteq Frames

(* The frames of an address space: everything vmm.c took for it.           *)
Owned(x) == Returned(x) \cup x.kcopy \cup x.stray

(* A frame is free, or lost, or has one use in one address space: nothing  *)
(* is mapped twice, freed while it is in use or dropped, however calls of  *)
(* exec, sbrk and exit fail half way (vmm_allocate's kfree, the failing    *)
(* paths of proc_exec, vmm_user_pagetable_free).  Lost are the copies of   *)
(* the kernel's tables, one set for every address space that is gone, and  *)
(* page 0, until sbrk hands it to the allocator: it is a frame like any    *)
(* other then.  That a second such sbrk breaks this is FreedOnce's matter. *)
FramesOwnedOnce ==
  /\ TypeOK
  /\ Running =>
     /\ \A p \in Live :
          LET s == space[p]
          IN  /\ Owned(s) \cap (free \cup lost) = {}
              /\ \A q \in Live \ {p} : Owned(s) \cap Owned(space[q]) = {}
              /\ Cardinality(Owned(s)) = 1 + Cardinality(s.kcopy) + Cardinality(s.stray)
                   + Cardinality(DOMAIN s.tab) + Cardinality(DOMAIN s.pte)
     /\ free \cap lost = {}
     /\ free \cup lost \cup UNION {Owned(space[p]) : p \in Live} = Frames

(* Every byte between the end of the program and the break that sbrk has   *)
(* reported is mapped, writable, and was zero when it was added, across    *)
(* page and table borders and any sequence of requests.                    *)
HeapBacked ==
  Running => \A p \in Live :
    \A a \in space[p].initial_data_segment .. space[p].current_sbrk - 1 :
      UserPage(space[p], PageOf(a), TRUE) /\ Byte(p, a) = "zero"

(* The segments that are loaded end below the point where rounding loses   *)
(* the upper half of an address.                                           *)
LowProgram(prog) ==
  \A k \in DOMAIN prog.segs :
    LET seg == prog.segs[k]
    IN  seg.load => seg.vaddr + LoadBias(prog) + seg.memsz <= UINT_MOD - PAGE_SIZE

(* The bytes of a program that is linked that low are what its file says,  *)
(* and zero behind that (proc_exec), as far as the pages were not given    *)
(* back through sbrk.                                                      *)
ImageLoaded ==
  Running => \A p \in Live :
    LET s == space[p]
    IN  LowProgram(s.prog) => \A k \in DOMAIN s.prog.segs :
          LET seg == s.prog.segs[k]
              va  == seg.vaddr + LoadBias(s.prog)
          IN  seg.load => \A o \in 0 .. seg.memsz - 1 :
                PageOf(va + o) * PAGE_SIZE <= s.lowest =>
                  /\ UserPage(s, PageOf(va + o), seg.writable)
                  /\ Byte(p, va + o) = IF o < seg.filesz THEN "file" ELSE "zero"

(* A system call accepts a buffer exactly if the program may access every  *)
(* byte of it, for buffers below the point where rounding loses the upper  *)
(* half of an address.                                                     *)
BufferCheckExact ==
  Running => \A p \in Live, a \in 0 .. UINT_MOD - 1, n \in PtrLens, w \in BOOLEAN :
    (a + n) % ADDR_MOD <= UINT_MOD - PAGE_SIZE =>
      (vmm_validate_user_ptr(space[p], a, n, w) <=>
         n # 0 /\ \A b \in a .. a + n - 1 : UserPage(space[p], PageOf(b), w))

(* A page goes back to the allocator once: sbrk takes no memory away that  *)
(* sbrk did not add (proc_sbrk's comment), so that every page on the way   *)
(* of vmm_user_sbrk_deallocate is one of the heap.                         *)
FreedOnce == panic # "freed twice"
=============================================================================
