# Verification of dzOS

dzOS is a small x86-64 kernel in C: a preemptive scheduler, a process table,
an ELF loader, a memory manager, a file system of its own (dzFS) on NVMe, and
a handful of drivers. This directory holds TLA+ models of the parts where
order, failure and sharing matter, the TLC configurations that check them on
small instances, and TLAPS proofs. Paths below are relative to
`src/kernel/src/`.

## 1. The system

| component | state | operations | talks to |
|---|---|---|---|
| process table (`userspace/proc.c`, end of `scheduler.c`) | `processes[]`, `process_count`, `process_min_index`, `next_pid`, kernel stacks | `proc_allocate`, `proc_exec`, `proc_exit`, `coelesce_processes` | scheduler, VMM, files |
| run queue (`userspace/scheduler.c`, `.h`) | one linked list per priority, sizes, weights, `min_vruntime` | `sched_enqueue`, `sched_dequeue`, `sched_pick_next`, `sched_set_priority`, `sched_nice`, `sched_sleep`, `sched_wakeup` | scheduling loop |
| scheduling loop and timer (`userspace/scheduler.c`) | `g_runqueue.curr`, `last_running_process`, the lock of the process that runs | `scheduler_start`, `scheduler_tick`, `scheduler_preempt` | everything |
| locks (`common/spinlock.c`, `condvar.c`) | `locked`, `holding_cpu`, interrupt depth | lock, unlock, wait, notify | everything |
| dzFS (`fs/dzfs.c`) | the blocks of the disk | create, write, read, delete, move, format, mount | `fs/fs.c`, NVMe |
| inodes and descriptors (`fs/fs.c`, `file.c`, `syscall.c`) | inode table with reference counts, `open_files`, `working_directory` | `open`, `close`, `read`, `write`, `lseek`, `readdir`, `mkdir`, `unlink`, `chdir` | dzFS, processes |
| page allocator, `kmalloc` (`mem/`) | free list, regions, arena blocks | `kalloc`, `kfree`, `kalloc_pages`, `kmalloc` | everything |
| virtual memory and program loading (`mem/vmm.c`, `userspace/exec.c`, `proc_sbrk`) | page tables, break of the heap | `vmm_user_pagetable_new/free`, `vmm_allocate`, `vmm_map_pages`, `vmm_user_sbrk_*`, `vmm_validate_user_ptr`, `vmm_copy_user_string`, `proc_exec` | page allocator, processes, system calls |
| NVMe driver (`drivers/drv_nvme.c`) | two pairs of rings with their indices and phase | `nvme_init`, `nvme_read`, `nvme_write` | controller, dzFS |
| device manager (`drivers/device_manager.c`, `hw_*.c`, `kernel.c`) | table of devices, table of drivers, the global devices | early and full initialization, scans, matching, probing | all drivers, interrupts |
| PS/2 driver (`drivers/drv_ps2.c`) | modifiers, prefix, mouse packet, scan code set | controller set-up, both interrupt handlers | 8042 controller, terminal |
| clock (`drivers/drv_rtc.c`) | `initial_rtc`, `initial_tsc`, `tsc_frequency` | `rtc_init`, `rtc_now` | CMOS clock, scheduler, `sys_sleep` |
| serial port, framebuffer, CPU set-up, printing, libc, boot | receive ring; tables written once, pure code | - | - |

How it runs: one CPU. The kernel runs with interrupts disabled, user code with
them enabled; only the idle loop opens a window (`sti; hlt; cli`). So a system
call, an interrupt handler or a turn of the scheduling loop is one atomic step
of the models, except where hardware goes on meanwhile: the NVMe controller,
the 8042 controller and the CMOS clock take steps between those of their
drivers. `panic` disables interrupts and loops: the models record the reason
and stop. What is hard: the timer preempts a process between any two system
calls; processes end in any order while the table is compacted under the
survivors; the lock of a process is held while it runs in user mode;
`proc_exec` can run out of memory half way; the power can fail between any two
block writes of the file system, which keeps no log; the disk works while the
driver polls; two devices share one output buffer; and the clock changes while
it is read.

What makes each part correct is stated as the properties of its module
(section 3); `PROJECT.json` lists the hazards at their lines.

## 2. The modules

| module | models | role |
|---|---|---|
| `ProcTable` | process table, kernel stacks | state machine with the proved invariants |
| `ReadyQueues` | - | abstract specification of a run queue: sequences instead of pointers |
| `RunQueue` | run queue at pointer level | implements `ReadyQueues` |
| `Scheduler` | scheduling loop, timer, process locks, exec/exit/sleep/wait | composes `ProcTable` (INSTANCE) with one run queue line |
| `DzFS` | dzFS, mounting | disk as a sequence of block writes, with loss of power |
| `Files` | inodes, descriptors, working directories | over an abstract disk |
| `PageAllocator` | page allocator | free list inside the free pages, regions |
| `AddressSpace` | page tables of processes, program loading, `sbrk`, checks of user buffers | frames from an abstract allocator that may fail at any call |
| `BlockStore` | - | abstract specification of the disk as `fs.c` uses it |
| `Nvme` | NVMe driver with an external controller | implements `BlockStore` |
| `DeviceManager` | start of the kernel from `device_manager_early_init` on, detection, drivers' probe and init, interrupt dispatch | state machine over the phases |
| `Ps2Input` | PS/2 driver with external devices and user | bytes through one output buffer |
| `Clock` | clock driver with an external CMOS clock | register by register |
| `*Proofs` | - | theorems about the module of that name, checked by TLAPS (section 4); `DriverProofs` is about `DeviceManager`, `Clock` and `Ps2Input` |
| `MC*` | - | constants and symmetry for TLC |

An operator whose comment begins with "Slip:" is an alternative definition with
a plausible mistake in it. The models do not use it; it is put in place of the
definition that follows it to see that some property notices (`mutants` in
`PROJECT.json`).

### ProcTable

`processes`, `process_count`, `process_min_index` and `next_pid` are the globals
of `proc.c`; `proc[p]` holds the fields `i`, `orig_i`, `pid` and `state` of the
`struct process` in page `p`; `kstacks` is the set of indices whose kernel stack
is mapped. `proc_exec` after the ELF header is one of five actions by outcome:
`ExecSucceeds`, `ExecFails` (a segment cannot be loaded: the struct stays in its
slot, UNUSED), `ExecHitsLimit` (last slot: panic), `ExecRemaps` (the stack of
the slot is still mapped: panic) and `ExecDies`: no memory for the struct or the
stack (panic), or a page fault at the canary of the new kernel stack
(`exec.c:344`), which is written under the page table of the caller although it
was mapped in the kernel's only. As the code stands the table of a process is a
copy from before the stack was mapped, so an exec by a running process ends
there, unless a stale entry leads the write elsewhere; at boot, under the
kernel's table, it succeeds. Both outcomes are possible in the model whoever
calls, so what is checked and proved holds for the code as it is and with that
write repaired. `Reclaim` is the end of a process in
`scheduler_start`, with the whole of `coelesce_processes`. `Dispatch`,
`Preempt` and `Exit` change the state of one process.

### RunQueue and ReadyQueues

`RunQueue` keeps heads, tails, sizes, `next`/`prev`, the two counters and the
priorities as the C structs do; counters wrap at `CounterMod` and `WeightMod`
(2^32 and 2^64 in C). Time is abstract: a slice adds a member of `VDelta` to the
virtual runtime, and the verdict of `sched_check_interactive`, which compares
times, is left open. `ReadyQueues` is what remains when pointers are
forgotten: a sequence per level, taken from the highest non-empty level, first
in line for real-time levels, first of the least vruntime otherwise. The
refinement mapping reads the sequence of a level off the `next` pointers.

`sched_sleep` is left out: its one caller, `condvar_wait`, panics before the
call (see `Scheduler`). If it were reached it would dequeue the running process
a second time.

### Scheduler

`pc` says where the CPU is: boot, loop, user, back (behind
`context_switch_to_user`), off. `locked` is the set of process locks taken; with
one CPU, taking a lock that is taken is the "deadlock" panic. `Dispatch`,
`Idle`, `ResumeRunnable` and `ResumeExited` are the branches of
`scheduler_start`; `Tick` and `PreemptTick` are the timer interrupt within and
at the end of a slice; `ExecOk`, `ExecBad`, `ExecDead`, `SysExit`, `SysSleep`
and `SysWait` are the system calls. All processes have one priority in this
kernel, so the run queue is one sequence. Virtual runtimes are shifted down
together when all exceed 1, which keeps their order (`Shifted`).

### DzFS

A block holds a superblock, a bitmap, a file dnode, a folder dnode, an indirect
block or raw bytes. Each operation is computed as the sequence of disks it goes
through, one per `write_block`; `Commit` ends it with the last, or, when power
fails, with any earlier one. `torn` records a loss of power in one of the four
windows in which the order of the writes does not protect the disk: between
the two writes of a creation (`dzfs.c:468`), while a deletion frees blocks of a
file that is still linked (667-698), inside a move, and inside `dzfs_new`.
After that only the mount (`MountTorn`) is of interest. `wrote` is a history
variable: what a file should hold.

### Files

`inodes` is the inode table of `fs.c`, `fds` and `cwd` the descriptors and the
working directory of every process. The disk is reduced to path, kind and size.
A size on the disk grows as `dzfs_write` grows it (see section 3). `leaked`
counts references of processes that ended without giving them back and
`unlinked` marks inodes whose file was deleted; both are history variables. An
inode left behind like that serves the next file that gets its dnode number, as
in the code (`fs.c:117`).
Offsets wrap at `OFFSET_MOD` (2^32 in C).

### PageAllocator

A page is its number. `regions` is the list of regions, `freepages` the head of
the free list, whose links are in `word0`, the first word of every page; the
holder of a page may write any word there (`HolderWrites`), so the list is only
as good as the allocator's care. `init_mem` rounds the entries of a memory map
as the code does, at the width of `PAGE_SIZE` (`UINT_MOD`, 2^32 in C).
`PageAssumption` has the usable memory below that width, as the start scripts
do (512 MB), and its entries disjoint, as the boot protocol promises; what is
not usable may lie anywhere. `held` and `failed` record what the callers got.

### AddressSpace

`space[p]` is the page table of process `p`: its root, the copies of the
kernel's inner tables, its own inner tables (`tab`), its entries (`pte`, with
frame and permissions) and the fields of the process that `sbrk` uses. `mem`
says what every byte of a frame holds: old content, the allocator's pattern,
zero, bytes of the file, an argument. The operations of `vmm.c` are functions
on a record of one call (`Blank`): the table under construction, the free
frames, how many more the allocator will grant (`left`, any number of `Grants`)
and how the call stands (`r`). `proc_exec` loads a program header by header as
`exec.c` does and, when something fails, gives the table back with
`vmm_user_pagetable_free`; `Exit` is the scheduler's half of an exit. A process
without a table is `NoSpace`. Which frames `kalloc_pages` hands out does not
matter: `TakePages` takes any different ones.
`RoundDown` and `RoundUp` clear the upper half of an address as the macros do
(`UINT_MOD`); the break is computed at the width of a machine word (`ADDR_MOD`).
A segment whose pages are not where its bytes go ends in a panic or a page
fault, as in `load_segment`. `PAGE_ZERO` is the frame at physical address 0. It
is nobody's at the start (`lost`); a shrinking `sbrk` that meets a page without
an entry hands it to `kfree` and goes on, and from then on the allocator gives
it out like any other. The second time the list of free pages becomes a cycle,
and the model ends there ("freed twice"). The check of user buffers changes no
state; it is an operator that an invariant quantifies over.

### Nvme and BlockStore

`q` holds the driver's `nvme_queue_t` of both queues, `sqe` and `cqe` the rings,
`sqtdbl` and `cqhdbl` the doorbells. The driver's steps follow `nvme_init` and
`nvme_do_one_cmd_synchronous` wherever the controller could come in between:
filling the entry, the doorbell, each look at a completion (`Poll`, `Spin`),
the release of the buffer (`Finish`). The controller is external: it resets
and starts when told, fetches commands behind the doorbell, moves one block at
a time in any order and posts a completion with the phase of its round. Before
the reset it may already be at work for the firmware. `BlockStore` has one
request at a time, whose blocks move one by one; the refinement mapping takes
the blocks still to move from the command under way.

### DeviceManager

`pc` runs through the phases of `kmain`: the early round with the clock, the
interrupt controller, the scans for PS/2 and PCI, the framebuffers, matching and
probing, initialization, the global devices, the scheduler's timer, then
interrupts. `hw` is the machine, chosen at the start. `probe` and `init` of a
driver are their outcome; `kmalloc` may have no memory for the copy of a
description (`os_data` is NULL then), which the PS/2 and NVMe drivers read
unasked: a page fault (`ProbeFaults`). `unmasked` and `gates` are what they do
to the IOAPIC and the IDT. `served` records whom the last interrupt went to.
Loops of `kmain` take one step per turn, counted by `place`: a function of the
PCI bus (a slot has `FUNCTIONS` of them, 8 in C), a framebuffer, a device of the
table.

### Ps2Input

The user presses, repeats and releases keys and moves the mouse at any time;
each device queues its bytes, and the 8042 controller puts one byte at a time
into its buffer and raises the line of the device. The driver's set-up
(`SendCommand`, `ReadAnswer`, `OpenLine`) is the dialogue with both devices,
where a wait may time out. `keyboard_handler` and `mouse_handler` decode
a byte as the code does, with the byte that lies behind the table where the
index leaves it (`Beyond`, `wild`). `ref` is what the user typed, told by the
keys that are really held. The driver has one flag for two keys of a kind;
`merged` records that keys went down or up which one flag cannot follow (the
release of one shift key while the other is held, a repeat of caps lock).
`late` counts, up to `MaxLate`, how often a device answered after the driver
gave up, or spoke before its line was open. The driver has no defence against
either; it goes on, and so does the model: what is typed is not decoded rightly
any more, and a byte may stay in the buffer for ever, but neither handler takes
a byte of the other device (`OwnBytes`).

### Clock

The CMOS clock announces an update, changes, and settles; a read while it
changes returns anything. Updates go on for ever, a second apart; time is
counted in passes over the registers, `PASSES_PER_SECOND` of which, at least,
begin between two updates. The driver reads register by register until two
passes agree, converts from BCD, and computes seconds since 1970; the reference
`Epoch` counts days by the calendar.

## 3. The runs

| run | bounds | shows |
|---|---|---|
| `proc_table` | 5 slots and pages, pids to 8 | `Packed`, `IndexIsSlot`, `NoFreeSlotBelowMin`, `StacksOwned`, `RemapNeedsMove`, `IdentityKept` |
| `run_queue` | 3 processes, priorities 1/3/6, nice -128 and 8, 1 call that changes a priority, any verdict on interactivity, vruntime to 2 | `RunQueueInv` (the lists are intact, a process is queued at its priority, `is_real_time` agrees with it), refinement of `ReadyQueues` |
| `scheduler` | 3 slots and pages, pids to 7 | `CpuExclusive`, `ReadyAreQueued`, `NoStalePointer`, `ReadyRuns`, `Ends` (liveness) |
| `dzfs` | 8 blocks of 2 bytes, 1 direct and 2 indirect pointers, 2 entries per folder, 4 operations | `DiskConsistent` (structure kept, names unique), `ReadBack` |
| `files` | 2 processes, 2 names, 2 dnodes, 2 inodes, 1 free descriptor each, 6 calls | `UsersCounted`, `OneInodePerFile`, `OffsetInFile`, `OpenFileKept` |
| `page_allocator` | 5 pages of 2 bytes, 3 memory maps, requests to 3 pages | `PagesConserved`, `FailsOnlyWhenFull`, `HoldersKept` |
| `address_space` | 2 processes, 25 frames, pages of 2 bytes, tables of 8 pages, 6 programs, 6 calls, memory out after 0 to 10 frames of a call | `FramesOwnedOnce`, `HeapBacked`, `ImageLoaded`, `BufferCheckExact` |
| `nvme` | rings of 2 and 3 slots, 2 blocks, requests of 1 to 3, 2 command identifiers | `InStep` (completions are the driver's own, transfers go to held pages), refinement of `BlockStore`, `CallsReturn` (liveness) |
| `devices` | up to 7 devices, machines with and without serial port, PS/2 ports and MADT, up to 2 framebuffers and 2 PCI devices of several functions | `InitializedWorks`, `GlobalsFirst`, `ReachesOwner` |
| `ps2` | both scan code sets, with and without mouse, 7 keys, 3 key events, 1 mouse packet, 1 late answer or early byte | `InputCorrect` (scan code set found, what is typed arrives, no modifier sticks), `OwnBytes`, `InputDrains` (liveness) |
| `clock` | 8 moments at the end of a minute to a year, updates without end, at least 3 passes between two, both formats, 3 calibrations | `TimeWasShown`, `FourPasses`, `InitReturns` (liveness) |
| `address_space_sbrk` | as `address_space` | violation of `FreedOnce`, see below |

The type invariant of a module is an invariant of its own in `proc_table`, where
it is proved, and elsewhere a conjunct of the first invariant of the run.

Why the bounds are enough for the cases meant: five slots allow a hole in the
middle with survivors on both sides and a second hole after the first move;
three processes are the least for a list with a head, a middle and a tail; the
disk is full after a few operations, a file spans direct and indirect blocks,
and a folder is full with two entries; two inodes are exhausted by two files
and the root folder, and two dnodes force a number to be used again; five pages
allow a run of pages in the middle of the free list, and the maps have entries
at odd addresses, an entry of less than a page and one region too many. In
`address_space` the heap crosses page and table borders, every allocation of an
exec can be the one that fails, and frames of a dead process go to the next
one. The rings of `nvme` wrap in every lap of three requests and the phase
flips many times; command identifiers repeat. The machines of `devices` have
PCI functions on the numbers of keyboard, serial port and mouse, and more
devices than the table holds. Three key events are two modifiers of one kind of
which one is released, a modifier over a key, or a key with a repeat; seven keys
are one of every kind the handler tells apart. Three passes between two updates
of the clock are far fewer than the thousands of a real machine, and so harder
on the driver; with two, the loop need not end.

Structs, processes and dnodes are interchangeable in the safety runs of the
process table, the run queue, the files and the address spaces, whose formulas
never order them: these runs declare symmetry. Runs with liveness do not.

Deadlock is checked except in `proc_table`, where the bound on pids stops a
table without processes, in `dzfs`, where the bound on operations does, in
`devices`, where a machine that faulted or panicked stands still, and in `ps2`,
where the bounds on events end the input.

### What the code does otherwise than it says

The run `address_space_sbrk` checks one statement of a comment which the code
does not keep: `proc_sbrk` is to "not deallocate memory which is not allocated
with sbrk" (`proc.c:260`), but the comparison above that line is the wrong way
round. A request beyond the heap is granted, and `vmm_user_sbrk_deallocate`
(`vmm.c:586`) starts at the page of the break, mapped or not: where there is no
entry it passes physical page 0 to `kfree`. Two processes that shrink from a
page boundary do so twice.

Further deviations seen while modelling, which the models reproduce except
where the list says so:

- Processes. A new process gets the kernel stack index of its slot
  (`exec.c:334`) although a process that has moved down may still own it:
  panic "remap" (action `ExecRemaps`; `RemapNeedsMove` says that this is the
  only way to it). `proc_wait` "Waits until a process is finished"
  (`proc.c:203`) and `sys_sleep` panic on the lock of their own process, which
  the scheduler holds (`SysWait`, `SysSleep`). `proc.c:94` says `proc_allocate`
  returns NULL on error; the last slot of the table panics (`ExecHitsLimit`).
  The canary of a new kernel stack is written under the page table of the
  caller, which does not map it (`exec.c:344`; `ExecDies`).
- Scheduler. `scheduler.c:598` says of a SLEEPING process "Already dequeued":
  `sched_sleep` dequeues the running process, which the dispatch had dequeued
  before, so the counters would wrap; masked by the panic in `condvar_wait`.
  `total_weight` (`scheduler.h:82`) drifts when a queued process changes its
  priority. `min_vruntime` never rises (`scheduler.c:206`).
- dzFS. A partial write "must issue a read and then issue a write"
  (`dzfs.c:558`); at offset 0 the read is skipped and a short write wipes the
  rest of the block (`BufferFor`). A write adds its length to the size wherever
  it goes (`dzfs.c:572`); `/init` grows at every boot. `dzfs_delete` never frees
  the indirect block. A moved folder keeps its old parent. A file system torn by
  a loss of power inside `dzfs_new` is mounted, since the magic is written
  first.
- Files. `fs_delete` "Will fail if the file/directory is open in a program"
  (`fs.c:232`); it deletes it (`SysUnlink`, `unlinked`). `chdir` to a file
  succeeds. `proc_exit` does not give the working directory back. After an open
  file is deleted, a new file with its dnode number is found under the old inode
  (`fs.c:117`), with the old size: the descriptors of the deleted file lead to
  the new one. `close` and `lseek` accept the descriptor `MAX_OPEN_FILES`
  (`fs/syscall.c:156`, `182`), one behind the table (not modelled; the bytes
  there are those of the next field of the same struct).
- Page allocator. The masks built from `PAGE_SIZE`, an unsigned int, clear the
  upper 32 bits of an address: memory above 4 GiB would be registered as
  memory below (`mem.c:151`). The start scripts give the machine 512 MB.
- Address spaces. The same masks make the check of a user buffer look at other
  pages than the buffer's above 4 GiB, where the user stack is; the arguments
  that `proc_exec` pushes are never written, and the results of the copies are
  ignored. By the comparison in `proc_sbrk` (see above) a legal shrink gives
  back the whole heap but leaves its first page mapped, so that the next growth
  panics "remap". `vmm_copy_user_string` is to "Safely copy a string from user
  space to kernel space" (`vmm.c:806`), but reads each character at the base of
  its page (`vmm.c:841`; not modelled). A segment above 4 GiB is allocated
  elsewhere than it is written to: a panic or a page fault. Every exit loses the
  copies of the kernel's inner tables (`vmm.c:517`; `lost`). A failed mapping of
  the stack goes unnoticed. Segments that share a page panic.
- Devices. The serial driver opens IRQ 4, but no gate is ever set for its
  vector: the first byte received faults the machine. `serial_received_char`
  has no caller. A clock that fails in the early round and succeeds in the
  full one never becomes the global clock, and `sched_timer_init` dereferences
  the missing one. An NVMe device whose name could not be allocated takes the
  number 0 with it, and no disk is found. Every framebuffer is called `fb0`.
  Without memory for `os_data` (`device_manager.c:128`, `149`) the probe or the
  handler of the driver dereferences NULL (`ProbeFaults`).
- PS/2. In scan code set 2 the release of F7 (0x83) indexes `us_set2_to_set1`
  behind its end. Both shift keys share one flag, so the release of one ends the
  effect of the other; a repeat of caps lock toggles it; caps lock shifts every
  key (`Merges`).
  A reset of the mouse that takes longer than the wait makes the driver take a
  wrong byte for the scan code set; a byte that arrives before its line is open
  blocks both devices for ever.
- Clock. The leap day is counted from 1 January, so in January and February of
  a leap year the time is a day ahead (`AheadBy`). The product in `rtc_ioctl`
  (`drv_rtc.c:315`) overflows after some 1.8e13 ticks, about 100 minutes at
  3 GHz, and the time jumps back (not modelled). 12-hour mode is not handled.

### Fairness

`Scheduler`: `KernelFairness` is weak fairness of the steps the kernel takes by
itself: the loop goes on (`Dispatch`, `Idle`, `ResumeRunnable`, `ResumeExited`),
the boot creates its processes, and the periodic timer ends a slice
(`PreemptTick`): the LAPIC timer is programmed periodic in `sched_timer_init`,
user code cannot mask it, and `last_timeslice` is finite. `Ends` is conditional
on `EndingPrograms` (strong fairness of `SysExit`): a program which gets the CPU
again and again exits in the end. That is an assumption about programs, not
about the kernel, and therefore stands in the property. New processes start at
virtual runtime 0, ahead of all others; with creation without end an old process
would starve. `ReadyRuns` therefore says what happens once no more processes
are created; the premise is part of the property.

`Nvme`: weak fairness of the driver, which runs alone while it polls, and of the
controller, which answers what it is given. Nobody has to call.

`Ps2Input`: weak fairness of the driver, of the delivery of bytes by the 8042
controller and of both interrupts: user code runs with interrupts enabled, so a
pending one is taken. The user need not do anything.

`Clock`: weak fairness of the driver and of the end of an update that has begun.

## 4. What is proved

TLC checks the bounds of section 3; the theorems hold for every value of the
constants, so for tables, rings, disks and memories of any size and for any
number of calls. Each comes from one inductive invariant, named below, which
starts true, which every action preserves, and which implies the property.

| module | theorem | states |
|---|---|---|
| `ProcTableProofs` | `TypeCorrect`, `TablePacked`, `IndexCorrect`, `MinIndexCorrect`, `StackOwnership` | `TypeOK`, `Packed`, `IndexIsSlot`, `NoFreeSlotBelowMin`, `StacksOwned` |
| | `RemapOnlyAfterMove`, `IdentityIsKept` | `RemapNeedsMove`, `IdentityKept` (action property) |
| `SchedulerProofs` | `OneProcessOnCpu`, `NoReadyProcessLost`, `NoDanglingProcess` | `CpuExclusive`, `ReadyAreQueued`, `NoStalePointer` |
| `RunQueueProofs` | `ListsStayIntact` | `RunQueueInv` |
| | `ImplementsReadyQueues` | `Implements`: the pointer lists implement `ReadyQueues` |
| `NvmeProofs` | `DriverInStep` | `InStep` |
| | `DriverImplementsStore` | `ImplementsStore`: the driver implements `BlockStore` |
| `FilesProofs` | `ReferencesCounted`, `FilesHaveOneInode`, `OffsetsInside` | `UsersCounted`, `OneInodePerFile`, `OffsetInFile` |
| | `DescriptorsKeepTheirFile` | `OpenFileKept` (action property) |
| `PageAllocatorProofs` | `PagesAreKept`, `KallocFindsThePage` | `PagesConserved`, `FailsOnlyWhenFull` |
| | `OthersUntouched` | `HoldersKept` (action property) |
| `AddressSpaceProofs` | `SpaceInvariant` | the inductive invariant |
| | `EveryFrameOwnedOnce`, `HeapIsBacked` | `FramesOwnedOnce`, `HeapBacked` |
| | `ProgramsAreLoaded`, `BufferCheckIsExact` | `ImageLoaded`, `BufferCheckExact` |
| `DriverProofs` | `InitializedDevicesWork`, `GlobalsAreFirst`, `InterruptsReachOwner` | `InitializedWorks`, `GlobalsFirst`, `ReachesOwner` |
| | `TimeIsOneShown`, `PassesAreFew` | `TimeWasShown`, `FourPasses` |
| | `InputIsRight`, `HandlersTakeOwnBytes` | `InputCorrect`, `OwnBytes` |

Assumptions. Each module has one assumption on its constants, which TLC
evaluates in its run: `TableAssumption`, `SchedulerAssumption`,
`RunQueueAssumption`, `NvmeAssumption`, `FilesAssumption`, `PageAssumption`,
`SpaceAssumption`, `DeviceAssumption`, `Ps2Assumption`, `ClockAssumption`.
`SpaceAssumption` gives the layout of `vmm.h` (whole pages, the stacks above the
width at which the rounding macros cut an address off, the heap below it) and
says nothing of the programs but their shape. `DeviceAssumption` asks for room
for the five drivers (`MAX_DEVICES` is 256). `Clock` has a second one,
`CalendarAssumption`: a formula without constants or variables that compares the
days the code counts with the calendar for each of the 1200 months that two
digits can show. TLC evaluates it; the provers cannot.

The arguments:

- **Process table** (`Inv`). That a move leaves no hole needs `Packed`; that
  the slot a dead process clears is its own needs `IndexIsSlot`; that
  `FirstFree` finds the slot at `process_count` needs `NoFreeSlotBelowMin`; and
  that the freed stack is mapped needs `StacksOwned`. None is inductive alone;
  their conjunction with the types and the facts about when `process_min_index`
  may lag behind is. The coalescing of the table is reduced by a lemma to
  "everything above the hole moves down by one".
- **Scheduling loop** (`SchedInv`). The loop takes steps of the table, so `Inv`
  holds in all its states; on top of it come the place of the CPU (`OneOnCpu`:
  the one process that is RUNNING or EXITED is `curr`, and its lock is the one
  that is held), `ReadyAreQueued` and `NoStalePointer`. A freed struct is not in
  line because of its state, and nothing EXITED is left when the CPU is given
  away, because only `curr` can be. As `SchedInv` contains the table's `Inv`,
  the safety theorems about the table are theorems about the kernel loop.
- **Run queue** (`RqInv`). Some sequence of processes per level is threaded both
  ways through the entities (`Links`), and an entity marked as queued is in the
  sequence of its level (`Shape`). Such a sequence is what the next pointers
  give (`LinksAreList`), so it is the queue of `ReadyQueues`: `sched_enqueue`
  appends to it, `sched_dequeue` cuts out a place it does not look for, and the
  counters count the marks. The rest (`Settled`) ties marks, levels and flags to
  the state of the process. That `sched_pick_next` finds the first of the least
  virtual runtimes takes two least elements, of the runtimes and of the places.
- **NVMe** (`NvmeInv`, `DataInv`). Both rings are at rest, all pointers equal
  and no phase bit showing news (`AtRest`, `Lap`), except the one in which the
  driver polls: there the single command is waiting, worked on, posted or taken,
  and each step of driver or controller leads from one of these to the next.
  `DataInv` ties the pages and the blocks already moved to the request. The
  refinement needs both.
- **Files** (`CountInv`, `FileInv`). The count of an inode is the number of
  descriptors and working directories that lead to it plus what was leaked;
  the proof adds and removes single users. Only then can `FileInv` say that a
  dnode has one inode and that an inode not deleted leads to a dnode that is
  linked, from which the bound on the offsets and, step by step,
  `OpenFileKept` follow.
- **Page allocator** (`PageInv`). The free list lies in words that anybody who
  holds a page may write, and the number of steps along it is not bounded. The
  invariant says that some sequence of pages without repetition is threaded
  from `freepages` to `NULL`, and that its members, the held pages and the rest
  of the regions partition the usable pages. A lemma shows that such a sequence
  is what `FreeList` reads; each operation gives the new sequence from the old
  one, `kalloc_pages` by cutting the run out.
- **Address spaces** (`SpaceInv`). Up to a panic or the second free of page 0,
  what is free, what is lost and what each process owns are apart and together
  all of memory (`Apart`); a page table owns its root, its inner tables and its
  leaves once each, leaves only under tables it has; every page that begins
  below the break is mapped, writable and zero (`HeapOK`), and the pages of the
  program that sbrk has not taken away hold what its file says (`ImageOK`). Page
  0 goes from lost to free once, which keeps all of it; after the second time
  only the types are left. An operation of `vmm.c` is a call record that
  exchanges frames with the free list: one lemma per operation says what it took
  and mapped, for any point at which the allocator fails, and `Exchange` turns
  such a record into the next state. So the failing paths of `proc_exec` are one
  case of the general fact: what was taken is in the table under construction,
  and `vmm_user_pagetable_free` returns it. `HeapBacked` and `ImageLoaded` need
  that the frames are the process's own, since nobody else writes those.
  `ImageLoaded` also needs that a segment's pages were not mapped before
  (`PagesNew`), so that loading it leaves the earlier segments alone, that all
  of its bytes lie in the pages allocated for it (`SegmentPages`), and that the
  arguments of main lie above. Both it and `BufferCheckExact` are stated below
  the address where `PAGE_ROUND_UP` loses the upper half: a segment above is
  allocated in other pages than it is written to, which `exec.c` does not
  refuse. `userspace.cmake` gives the linker no address, so the programs of the
  repository are linked at its default, low one.
- **Device manager** (`DeviceInv`). Every entry of the table is of one of the
  kinds that the scans register and stays so (`DevOK`); PS/2 devices stand in
  front of those of PCI and there is one serial port (`TableOK`); the numbers
  of the NVMe devices that work grow along the table, from 0 (`NumberInv`). The
  first entry with a name is the first that works because every name is given
  by a successful initialisation or is unique; the first initialised device on
  an interrupt line of the keyboard or the mouse is a PS/2 device because the
  line is open only if one works and that one stands in front.
- **PS/2** (`LineInv`, `TalkInv`, `TypedInv`, `HeldInv`). At most one line has a
  request pending, that of the byte in the buffer; during set-up the bytes on
  their way are those the driver is about to read; afterwards they lead, byte
  by byte, from what the driver remembers to what was typed. "Lead" is a trace
  of states whose existence is the invariant: reading a byte drops its first
  state, pressing a key adds states at its end.
- **Clock** (`PassInv`, `LoopInv`). An update is at least three passes away from
  the one before, so of two passes that agree one saw no update; `PassInv` says
  what each pass can have seen. `LoopInv` counts: at most two passes begin
  before an update that can still disturb, and of those after it the second one
  ends the loop.

Where a fact is about every prefix, every page or every entry of a list, the
proof takes the least counterexample (`LeastExists`, from the well-foundedness
of the natural numbers), since the provers cannot use the induction theorems.
Recursive functions are treated the same way: that a function with the
recursive equations exists is shown by giving it.

Only model-checked:

- liveness (`ReadyRuns`, `Ends`, `CallsReturn`, `InputDrains`, `InitReturns`):
  fairness and ENABLED are beyond this prover;
- `DiskConsistent` and `ReadBack` of `DzFS`. Which dnodes are reachable (`Tree`)
  and what a write leaves in the indirect block (`WriteLoop`) are recursive
  functions of the whole disk, and their values after a write need induction
  over the tree;
- `FreedOnce`, which the code does not keep.

No module uses a RECURSIVE operator.

## 5. What is not modelled

- `kmalloc` looks for room in the physical page behind its last one
  (`kmalloc.c:211`), whoever holds it; what happens depends on the bytes of
  memory it does not own. The other models take its blocks as given.
- The receive ring of the serial port: nothing fills it (see above), and a read
  of the empty ring panics in `condvar_wait`.
- The content of programs: any file may be a program, any system call may come
  next.
- `rtc_ioctl` and `rtc_now`, a multiplication and a division;
  `vmm_copy_user_string`, whose one mistake is named in section 3.
- Register contents across a context switch, FPU images; the measurement of the
  time stamp counter.
- Path syntax (`.`, `..`, several parts), dates of files, I/O errors (the NVMe
  driver looks at no status).
- Several CPUs, and sleepers on condition variables: the kernel starts one CPU
  and panics before it sleeps.
- Driver signing (a mock), printing, the terminal, libc, user programs, boot.

## 6. Plan

Done, in this order: `ProcTable` and its proofs, `RunQueue` over `ReadyQueues`,
`Scheduler` over `ProcTable`, `DzFS`, `Files`, `PageAllocator`, `AddressSpace`,
`Nvme` over `BlockStore`, `DeviceManager`, `Ps2Input`, `Clock`; then the proofs
about `Scheduler`, `Nvme`, `Files`, `Clock`, `Ps2Input`, `PageAllocator`,
`RunQueue`, `DeviceManager` and `AddressSpace`.

Next:

1. `DiskConsistent`, with reachability stated by paths instead of `Tree`.
