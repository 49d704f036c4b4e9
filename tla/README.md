# Zonix: TLA+ models, model checking and proofs

Zonix is a small preemptive kernel for x86, aarch64 and riscv64, written in
C++. It runs on one CPU. This directory holds TLA+ models of its concurrent
and stateful core, TLC configurations that check them on small instances, and
TLAPS proofs of the main safety properties for every size.

`PROJECT.json` lists the runs, the source lines behind every definition, the
mutants that show each property can fail, the hazards and the theorems.

## What counts as one step

Two things can interleave with a task: an interrupt, when interrupts are on,
and another task, after `Scheduler::schedule()` or after a preemption at the
end of a trap. A section under `intr::Guard` or a `Spinlock` has interrupts
off, so it is atomic up to the next `schedule()`. Every action is the code
between two such points, the whole of it: all writes, early returns and the
trailing calls. Where the code leaves a guard and takes it again (between
`held_ = false` and `wakeup_one()` in `Mutex::unlock()`, say) the model has
two actions.

## The parts of the system

| Part | Source (`src/kernel` unless said) | Module | Talks to | Status |
|---|---|---|---|---|
| Processes, scheduler | `sched/` | `Process`, `ProcessTree` | wait queues, traps, memory, descriptors | modelled |
| Wait queues, mutex, semaphore | `sync/` | `WaitQueue`, `Mutex`, `Semaphore` | scheduler | modelled |
| Console input | `cons/cons.cpp` | `Console`, `InputQueue` | wait queues, keyboard drivers | modelled |
| VFS, descriptors | `fs/vfs.cpp`, `fs/fd.cpp` | `Vfs` | file systems | modelled |
| FAT32 | `fs/fat.h`, `fs/fat/` | `FatVolume`, `ClusterChain`, `Fat`, `FileIo` | VFS, block devices | names and listings left out |
| File system calls | `syscall/file.cpp` | `FileIo` | VFS, user memory | modelled |
| Program loading | `exec/` | `Exec` | page tables, VFS, processes | modelled |
| Page allocator | `mm/pmm_firstfit.cpp`, `mm/pmm.cpp` | `PageAllocator`, `PagePool` | everything | modelled |
| Page tables, device mappings | `mm/pmm.cpp`, `mm/mmio.cpp`, `arch/*/include/asm/page.h` | `PageTable`, `PageEntry` | allocator, drivers, exec | modelled |
| Swap | `mm/swap*.cpp` | `Swap` | page tables, disk, allocator | modelled |
| Traps, context switch | `trap/`, `arch/*/kernel/*.S` | `Trap` | scheduler, system calls | printing left out |
| Storage drivers | `drivers/sdhci.cpp`, `arch/x86/kernel/drivers/{ahci,ide}.cpp` | `Sdhci`, `Ahci`, `Ide`, `BlockDevice` | block table | modelled |
| PCI, block table, probing | `drivers/pci.cpp`, `block/blk.cpp` | `DeviceProbe` | storage drivers | configuration access left out |
| VirtIO keyboard | `drivers/virtio_kbd.cpp`, `drivers/virtio/` | `VirtioKbd` | console input | modelled |
| Kernel log | `cons/log.cpp` | `KernelLog` | all output | modelled |
| Framebuffer console | `drivers/fbcons.cpp` | `Fbcons` | timer, all output | modelled |
| Boot loaders, boot memory map | `src/boot`, `arch/x86/boot/bios`, `mm/pmm.cpp` | `Boot` | firmware, allocator | first sectors, graphics left out |
| Shell, formatting, register-level drivers | `cons/shell.cpp`, `cons/stdio.cpp`, `arch/` | | | not modelled |

How they fit together: `Process` justifies the fairness the synchronisation
modules assume. The storage drivers implement `BlockDevice`, and `DeviceProbe`,
`Fat` and `Swap` use devices that behave like it. `Exec` and `PageTable` share
the encodings of `PageEntry`. `Boot` ends where `PageAllocator` and
`PageTable` begin.

What is hard in this kernel, and what the properties are aimed at:

- **Wakeups.** A task decides to sleep and registers, while an exit, an unlock
  or an input interrupt decides whether there is anybody to wake. `wait()`,
  `Mutex::lock()`, `Semaphore::down()` and `getc()` each do this in their own
  way.
- **Gaps in release operations.** `unlock()` and `up()` publish the resource
  first and wake afterwards, so a third task may take it in between.
- **Cursors and pointers to things that go away.** The scheduler keeps a
  cursor into the task list while tasks are deleted. Wait queue entries live
  on the stack of the sleeper. A file holds a pointer to a file system that
  somebody wants to unmount.
- **Long operations that fail in the middle.** mount, swap, exec, device
  mappings, directory updates and probes each take several resources one after
  the other and must put back all of them, sometimes with a rollback that
  fails too.
- **Hardware that answers late.** Every poll of a driver is bounded, so a
  command may be given up just before its answer, with DMA still running.
- **Observers between two stores.** The processor walks page tables while
  they change, firmware allocates while the loader reads its memory map,
  interrupts append to the log while it is printed and blink the cursor while
  text is drawn, and power goes between two sectors.
- **Process tree surgery.** exit moves children to init while init may be
  asleep in `wait()`, and some of those children are already zombies.

## Modules

The table above names the module of each part. `ProcessTree`, `InputQueue`,
`PagePool` and `BlockDevice` are abstract: what a component promises, which
the detailed module is shown to implement. `MC*` modules hold constants and
symmetry for TLC, and put together the components that one run checks.
The `*Proofs` modules hold the theorems; the section Proofs says which module
has those of which component.

### Process

Variables carry the names of the members of `Task`, `TaskManager`,
`Scheduler` and `SchedulerPolicy`. `pc` says where a task is: running with
interrupts on, at the head of the loop of `wait()`, or inside one of the two
`schedule()` calls that put it to sleep. `Tick` is the timer interrupt
together with the preemption at the end of the trap. `Schedule` is
`Scheduler::schedule()` with `pick_next()`: both are part of every action
that calls them. `Fork` covers `kernel_thread()` as well. Its `isUser`
argument is whether exec gave the child an address space before it could run.
`fork()` refuses a parent with an address space of its own, and the guard says
so. `proc_list_` needs no variable: tasks are pushed at its front and pids are
never reused, so it is the published tasks in descending pid order.
`child_list` is a set, which leaves open which of several zombies `wait(0)`
returns.

Left out: kernel stack allocation failing in fork (the caller gets an error and
nothing has changed), statistics, names, the pid hash.

### WaitQueue, Mutex, Semaphore, Console

`Sleep`, `WakeupOne`, `WakeupAll` and `Resume` are the parts of `WaitQueue`;
the modules that use it conjoin them with their own state change when the code
does both under one guard, and have separate actions when it does not.
`Console` has the ring with its `read` and `write` indices modulo `Size`.

### Vfs

A handle is a local reference of a call under way or a descriptor. `ref` maps
it to the slot and the file system object it points at. `mount()` is
`MountReserve`, `Factory`, `MountFs`, `Publish` with a failing variant for
each of the slow steps; `umount()` is `UmountDetach`, `UnmountFs`, `Destroy`,
`FinishTransition`. What a file system does inside a call is an arbitrarily
long stay at `"call"` or `"file"`.

### PageAllocator

Page numbers stand for `Page` descriptors. `free_list` has the first pages of
the free runs in list order; `block_page_count`, the `Reserved` marks and
`free_page_count` are variables of their own, as in the code, and
`FreeListExact` relates them. `free()` is `Free`, one `FreeTurn` for each turn of
its merging loop (`MergeBehind`, `MergeBefore` or neither, `Kept`), and
`FreeEnd`; `init_memmap()` walks the same way. Interrupts are off throughout,
so nothing else happens between the turns (`Quiet`). `held` is what callers have been given: `kfree()` learns the size of
a block from `block_page_count`, other callers pass it.

### Swap

One task stands for one address space. `swap::in()` is `PageFault`, `InRead`,
`InMap`; `swap::out()` is `OutBegin`, then `OutPick`, `OutWrite`, `OutCommit`
for every page of its budget, then `OutEnd`. Both run under `io_lock_` and
sleep in disk I/O, which may fail. `TearDown` clears one entry of a dead
address space without that lock, as `free_user_pt_subtree()` does. A frame
taken from the allocator and a slot after a failed transfer hold `Garbage`,
which is no page's content. `MapPage` is `page_insert()` and puts the page in
no replacement queue: that is `MapSwappable`, which in the kernel only
`swap::in()` and the tests call. So a page nobody made swappable stays
resident for ever, and `SwapExact` speaks about the queue of those that were.
`value`, `granted` and `swappable` are history variables: what the task last
stored, with which rights the page was mapped, and which pages were given to
`map_swappable()`.

### BlockDevice, Sdhci, Ahci, Ide

`BlockDevice` has the life of a device (Offline, Ready, Quarantined) and one
request at a time, which moves each sector or answers with an error. In each
driver module the calls run under the driver's mutex, one step per register
access that the hardware can come between; the controller and the drive are
processes of their own that set status bits, move sectors and finish when they
like. Every bounded poll is a choice between seeing the bit and giving up.
What the hardware does is external and modelled from how the driver uses it.
Capacities and byte addresses are scaled: `AddrSpan` stands for 2^32.

### DeviceProbe

The bus scan, the table of drivers, `CommandGuard`, and the probes of the SDHCI
and AHCI managers with every step failing: mapping of registers, start,
registration. Tasks use and break published devices in the meantime.

### VirtioKbd

The descriptor, available and used rings with indices modulo `IndexSpan` (2^16
in the code), the ISR byte that reading clears, `Keyboard::start`, `intr` and
`stop`. The device may have been used by the firmware, post while the handler
runs, break the protocol, or not finish its reset, at the start or later.

### FatVolume, ClusterChain, Fat

`FatVolume` takes every boot sector of a small device through the checks of
`mount()`, with sector numbers modulo `Span`. `ClusterChain` is the iterator
all other code walks chains with, on every possible FAT. `Fat` has the medium
(both FAT copies, directory sectors), the one-sector cache, and one running
operation. Each sector write is a step, succeeds, fails before or after
reaching the medium, or is never made because power is lost, after which
`mount()` starts again from the medium. `promised` is the history of names
whose creation has succeeded.

`unlink` and `rmdir` free a chain before they delete its entry. A removal that
is interrupted in between leaves a name whose clusters are free and may be
given to another file. `leaving` has those entries. `strayed` becomes true
when an operation goes through one of them into clusters that are not its own
any more: from then on the volume is damaged by the code, and `FatSound` and
`NamesKept` say nothing. They do say that up to then, and for as long as nobody
uses such a name, everything else is sound.

### FileIo

One FAT file, open descriptors, and `syscall::read`/`syscall::write` down to
`do_file_io`: chunk through a kernel page, cluster by cluster, with the
cluster read whole before a part of it is written. Clusters, user pages and
allocations fail.

### PageTable, PageEntry

`PageEntry` translates the helpers of `asm/page.h` of each architecture: an
entry is an address and a set of bits. `PageTable` has the tables as frames
with entries, a walk as a sequence of steps with one store each, and a TLB
that may remember any translation the tables show and forgets only what is
flushed. Device mappings, user roots and the kernel's own mapping run through
the same walker, and any allocation may fail.

### Exec

`exec()` as steps between allocations: read, validate, map and copy each
segment, map the stack, fork, publish. Bytes of memory are identified by the
place in the file they came from, so that a misplaced byte is seen.

### Trap

The three entry paths and the three return paths, `switch_to`, `forkret` and
`Task::run`, with the privileged state they use (sscratch and stvec, the TSS
stack, SP_EL1, saved status words). Registers are one value which a task
changes as it computes, so that a frame restored to the wrong task is seen.
The floating point state is a second one. Only x86 keeps it for each task
(`fxsave64` in `switch_to`), and only there is it part of what a task may rely
on (`KeptFp`). AArch64 code may change it in any mode and nothing saves it, so
another task's computation shows through; on RISC-V the unit is off.

### KernelLog, Fbcons

`KernelLog` splits `dump()` where it turns interrupts on. `said` is the
history of all records. `Fbcons` has one step per `putc()` and per tick, which
both run with interrupts off. The reference for the screen is `Paper`: the text
typed on endless paper, without any scrolling or cursor.

### Boot

The UEFI loader as steps between boot services, with firmware that takes
memory, for a while or for good, and returns it between any two of them; the
BIOS loader; then `page_init()`. Addresses count half pages, because BIOS
ranges need not be aligned. The kernel file may be no ELF file, and on the BIOS
disk it may lie in any of several places.

What `BootExact` assumes, and what it does not say:

- The places the loaders write without asking (BootInfo, and the kernel on
  x86) are free and the firmware keeps out of them; `GetMemoryMap` fails only
  for want of room; the BIOS ranges do not overlap.
- `uefi_boot_setup` records the memory map before it loads the file, and does
  not record it again when it leaves the firmware. The allocator is given
  exactly what the recorded map calls available. A page the firmware took for
  good since is among it.
- `page_init()` puts its page array behind the kernel without looking at the
  map. Nothing is said about whether there is memory.
- `fat_load_file` of the BIOS loader reads the FAT to 0x8C00 and the file to
  0x10000. The links of clusters from 7424 on (a FAT of more than 58 sectors)
  are therefore overwritten by the file. The model then reads any link.
  `BootExact` promises the right image if the links of the kernel's own
  clusters are kept (`LinksKept`). In the image the repository builds the
  FAT is longer than that, but the kernel lies in its first clusters.

## Runs

| Run | Instance | Checks | What it shows |
|---|---|---|---|
| `process` | pids 0..4, two exit codes | `NoLostWakeup` `TreeOK` `SleepOK` `ImplementsTree` `RunnableRuns` `ImplementsFairTree` | wait and exit never miss each other; the tree survives exits in any order; each exit code is collected once, by the right parent; no runnable task starves and init collects every orphan |
| `idle_priority` | pids 0..3 | `OnlyIdleAtIdlePrio`, violated | see Findings |
| `sync` | 4 tasks; count up to 3; 3 readers, 2 characters, ring of 3 | `QueueOK` `FifoWakeup`; `MutualExclusion` `NobodyStranded` `SleeperWoken`; `PermitsClaimed` `PermitWakes`; `InputWakes` `ImplementsQueue` | queue entries are exactly the sleepers and the oldest is woken; the gaps of `unlock()` and `up()` lose nobody; the ring is a FIFO of `Size - 1` and no reader sleeps beside input |
| `vfs` | 3 tasks, 2 slots, 2 file systems, 1 descriptor each | `UsersExact` `NoDanglingRef` `OneOwner` `TransitionEnds` | no file system is destroyed under a user, leaked or owned twice |
| `memory` | 8 pages, 3 boot maps, blocks of 1..3; swap as below with one content | `FreeListExact` `ImplementsPool`; `LockReleased` | free runs, marks and counts agree, neighbours merge, blocks are disjoint; the I/O lock is always released |
| `paging` | 2 tasks, 2 pages each, 2 frames, 2 slots, 2 contents, 2 sets of rights; 3 boards, 14 table frames, 3 mappings | `PageIntact` `SwapExact`; `PageTablesSound` | a page is never lost, mixed up or leaked, whatever I/O fails; the kernel's memory never moves while entries are split, a device mapping is whole or leaves nothing behind, frames are accounted for and no stale translation outlives an operation |
| `fat` | FATs of 5 clusters; devices of up to 11 sectors; a volume of 6 clusters, 2 names, 4 operations, 2 faults | `ChainExact`; `VolumeFits`; `FatSound` `NamesKept` | a walk along any FAT ends with the right answer; mounted areas fit the device and do not overlap; after any failure or power loss no cluster with a name is free or shared, and no created name is lost, until somebody uses the name of an interrupted removal |
| `sd_card` | 6 PCI functions and a table of 5, 2 ports, 2 SD slots, 4 block devices; 2 tasks, cards of up to 5 sectors | `ResourcesExact`; `ImplementsSdDevice` | failing probes give everything back; the SD driver is a block device whatever the card answers, and when |
| `pci` | 2 tasks, 3 sectors, bounce buffer of 2; rings of 4, 10 events | `ImplementsAhciDevice`; `KeyboardExact` | the AHCI driver is a block device, with engines that do not stop; the keyboard's rings deliver each key once, and it owns no buffer the kernel took back |
| `ide` | 2 drives, 2 tasks, 2 sectors | `ImplementsIdeDevices` | two drives behind one set of registers are two block devices |
| `kernel` | see the bounds below | `BootExact` `DumpExact` `ScreenExact` `TrapTransparent` `ExecExact` `IoExact` | boot, log, screen, traps, exec and file I/O have the outcome of their reference definitions, on every failing path |
| `mmio_visionfive2` | the VisionFive 2 board | `MapsOutside`, violated | see Findings |

A semicolon separates the parts of a run. `MCSync`, `MCMemory`,
`MCPaging`, `MCFat`, `MCSdCard`, `MCPci` and `MCKernel` each hold several components that do not
share state in the model: the variable `part`, chosen in the first state, says
which of them a behaviour is about, and the others stay in one fixed state
(`...Aside`). The state space is therefore the sum of those of the parts, not
their product. Where a part may really come to rest, its `MC` module says when
(`AllAsleep`, `NoMoreInits` and so on) with a stuttering step, so that any
other deadlock is still an error.

`CHECK_DEADLOCK FALSE` appears where every behaviour ends: `fat` (a chain
ends, a volume is refused, the operations are used up), `ide` (the probes are
used up) and `mmio_visionfive2`.

### Why these bounds

- `MaxPid = 4`: idle, init and three more tasks. A parent can exit with a
  living and a dead child while init sleeps, and the cursor can stand on,
  before and behind a deleted task.
- Four tasks on a mutex or semaphore: one that releases, one that steals in
  the gap, and two sleepers whose order matters. `MaxCount = 3` lets two
  `up()` calls overlap above the initial permit.
- A ring of three holds two characters, so it fills, overflows and wraps.
  Three readers compete for them.
- Two slots and two file systems let a mount, an umount and a user of the
  other slot overlap; the third task is the late caller.
- Eight pages and blocks of up to three give holes too small for a request,
  merges on both sides, and free regions that must not merge over a gap. The
  boot maps are one region, two with a hole, and two that touch.
- Fourteen table frames and three mappings: enough to split a block of each
  level on each board, and few enough to run out in the middle of a mapping.
- Two frames for four pages force eviction; two slots fill up; both tasks
  compete for the lock while one of them may be torn down. In `paging` symmetry
  is over tasks, frames and contents, which the actions treat alike.
  `LockReleased` does not depend on contents or rights, so `memory` has one of
  each, and no symmetry.
- A FAT of five clusters has every shape of a chain: ending, cyclic with and
  without a tail, bad links, longer than a power of two, where the remembered
  cluster moves.
- `Span = 12` sector numbers make the sums in `mount()` wrap. In `Fat` four
  links to a sector put six clusters in two FAT sectors, so that a change
  touches one or both; two slots per cluster make a directory grow; two faults
  are a failure and a failing rollback, or a failure before a power loss.
- Six functions are one more than the table of functions holds. The three SD
  hosts among the first five are one more than there are slots, and with two
  AHCI ports more than there are places for block devices.
- A transfer of two sectors may fail between them. Five SD sectors, of which
  four have a byte address, put a request across the end of the address range.
  The card descriptions include one whose capacity overflows.
- Three AHCI sectors with a bounce buffer of two take two commands.
- Rings of 4 with `IndexSpan = 8` and 10 events wrap the ring and the indices;
  two starts let a device that was reset come back.
- `RECORD_COUNT = 2` with six records and two dumps: the dump is overtaken in
  the middle, more than once, and a second dump starts behind the first.
- A screen of 3 by 2 with a tab of 2 and six characters wraps lines, scrolls,
  and backs up over a line end; the early log of 2 overflows.
- Three tasks on three architectures: a trap, a switch to a task that is
  itself in a trap, and one that was never run.
- Two ELF segments that share a page, cross pages, do not fit the file, or
  reach beyond user space.
- A file of five bytes in clusters of two, buffers of three and calls of up to
  six: chunks and clusters never line up, and a call passes the end. One of
  the chains is too short for the file.
- Seven pages at boot, three firmware events, a map of four entries: the map
  outgrows its buffer and the key goes stale between map and exit. The kernel
  file has two clusters, before, in and behind the part of the FAT that it
  overwrites; `MaxRead` ends a walk along overwritten links.

### Fairness

- `process`: the timer keeps interrupting and the idle loop keeps looping
  (weak fairness). A task that gets the CPU again and again finishes its next
  piece of kernel code: strong fairness, because a tick may take the CPU away
  each time. Nobody has to fork, exit or wait, except that init's loop calls
  `wait(0)` again (`init_main`).
- `sync`: the holder of a mutex eventually unlocks, which every critical
  section of the kernel does, and a task that is awake proceeds.
  `RunnableRuns` is what justifies the latter. Nobody must call `up()`, no
  input must come.
- `vfs`: a mount, an umount, a call or an exit that has begun goes on. Calls
  into a file system end, well or badly.
- `memory`, for `LockReleased`: a disk request completes or fails. Nobody must
  fault or swap out.

The other runs check safety only and assume no fairness.

## Findings

`idle_priority` (documentation against code). `sched.h:31` says of
`IDLE_PRIO` "Idle process only", and `sched.h:29` of `DEFAULT` "Normal
processes". `fork()` copies the priority of the forking task
(`process.cpp:44`). Init is forked by idle, so init and every later task run
at priority 31, with a quantum of one tick. Scheduling stays fair, as
`RunnableRuns` shows, because all of them have the same priority.

`mmio_visionfive2` (documentation against code). `memlayout.h:22` says that
device mappings start "outside the pre-mapped 1GB range". On the VisionFive 2
`BOARD_DRAM_BASE` is 0x40000000, so `head.S` maps the board's memory exactly
where `KERNEL_DEVIO_BASE` lies. The walk of the first device mapping splits
that gigapage and meets a present entry, which the code asserts it does not.
On the other boards `PageTablesSound` holds (`paging`).

## Proofs

The theorems hold for every value of the constants under the named
assumptions of each module: at least one pid besides idle
(`MaxPidAssumption`), the "none" values are not among the real ones, finite
sets of tasks and descriptors where they are counted, rings and volumes that
are not empty.

Each proof has the same plan: an inductive invariant, one lemma per action
that it is preserved, and a temporal step. The invariants are defined in the
module they are about when a run checks their conjuncts, and in the proof
module otherwise. A proof module has the theorems of one or more components.

**ProcessProofs** (`Process`, `Exec`).
- `NoWakeupIsLost`, `TreeConsistent`, `CpuAndSleep`, `Refinement`. `NoLostWakeup`
  is not inductive: that `exit()` wakes the right sleeper needs the tree
  (`TreeOK`), the meaning of `wait_state` (`SleepOK`), and that init is alive to
  adopt (`BootOK`). That the chosen task is runnable is proved once about
  `Schedule` (`ScheduleHandsOver`) and used for every action that gives up the
  CPU; it needs idle to be runnable always. `Refinement` shows that each step
  is a step of `ProcessTree` or a stutter.
- `CursorSafe`: the cursor of the round robin never points at a task that is
  gone. `schedule()` leaves it on a task in the list (`ScheduleCursor`), where
  it stays while tasks exit, and the one step that frees a task takes the
  cursor away from it. `CursorOK` is proved beside the invariant, not checked by
  a run.
- `LoadExact`: a program is in memory as its ELF file says, with the rights of
  its segments, or nothing is left of it. `FramesHeld` says where each frame
  is while exec holds it, `ImageOK` how far the image has come.

**SyncProofs** (`WaitQueue`, `Mutex`, `Semaphore`, `Console`, `KernelLog`).
- `QueueConsistent`, `WakeupsInOrder`: lemmas say what `Sleep`, `Resume` and the
  wakeups do to `QueueOK` (the queue has no duplicates and is exactly the
  sleeping set), and the two users of the queue cite them.
- `Exclusion`, `NoStrandedSleeper`: when tasks are queued and the mutex is free,
  some task is in the gap of `unlock()` or is awake in `lock()`.
- `NoIdlePermit`, `CountNonNegative`: the counting version of that. With anyone
  queued, the count is at most the number of tasks in the gap of `up()` plus
  those awake in `down()`.
- `ConsoleRefinement`: the ring implements `InputQueue`. The mapping `Contents`
  reads the ring from `read` to `write`; lemmas say what moving either index
  modulo `Size` does to it. Type correctness is the whole of the invariant.
- `DumpCorrect`: `RingOK` says that the ring holds the last `RECORD_COUNT`
  records said, each in the place of its sequence number; `DumpOK` relates a
  dump under way to it. The step that matters is that of a record which is
  overwritten between being counted and being copied: it is then gone for good
  (`Gone`), so counting it as missed is right.

**FileSystemProofs** (`Vfs`, `ClusterChain`, `FatVolume`).
- `NoUseAfterUmount`, `ReferencesCounted`, `FileSystemsOwned`,
  `TransitionsExclusive`. `NoDanglingRef` rests on `UsersExact`: `umount()` tests
  a counter, so the counter must be the number of references. `WorkOK` says
  which calls have a file system in hand and in which state.
- `ChainCorrect`, for a volume of any size and any contents of its FAT. `Where`
  places the one remembered cluster in the walk. `Periodic` says that a walk
  which has come back to a cluster repeats itself. So its last link leads to a
  cluster it has seen: such a walk cannot end with "finished", and stopping it
  is right. A walk of `Count` different clusters has seen all of them, which
  makes the limit on the number of steps right as well.
- `VolumeCorrect`, for any boot sector and device: each check of `mount()` adds
  one bound, and together they exclude that a later sum wraps.

**MemoryProofs** (`PageAllocator`, `Swap`).
- `FreeListSafe`, `PoolRefinement`. The list is broken in the middle of
  `free()`, so the invariant `AllocInv` speaks about each turn of the loop:
  which runs are in the list (`RunsOK`), which one is in hand (`LoopOK`), what
  is counted (`CountedOK`), and that no two runs but the one in hand touch
  (`MergedOK`).
- `SwapTransparent`, `SwapAccounted`, from one invariant `SwapIInv`. Every frame,
  slot and queue entry is accounted for at every step of a transfer
  (`FramesOK`, `SlotsOK`, `QueuesOK`), and `ContentsOK` says where the content of
  each page is: in its frame, in its slot, or in both while it is written.

**IdeProofs**, **SdhciProofs**, **PciProofs** (`Ide`; `Sdhci`; `Ahci` and
`VirtioKbd`).
- `IdeRefinement`, `SdRefinement`, `AhciRefinement`: each driver implements
  `BlockDevice`. The invariant says for each step of the holder what the
  controller and the drive are working on. A command that was given up and
  still runs belongs to a device that is Offline or Quarantined, and it is
  this that makes its late data harmless. `MovedOK` counts the sectors moved.
- `KeyboardSafe`, for rings of any size dividing the span of the indices.
  `BuffersOK` has every buffer in one place. `KeysOK` has the keys on the used
  ring in order behind those delivered. `InterruptOK` says who will look at
  the ring next.

**TrapProofs** (`Trap`, `FileIo`).
- `TrapsInvisible`, for any number of tasks: what the code that is running sees
  of the processor is what it saw before the trap, on all three architectures.
  `RunOK`, `EntryOK`, `HandlerOK` and `RestoreOK` say for each place of the entry
  and return paths where the interrupted state is; `SuspendedOK` says it for
  the tasks that do not run.
- `IoCorrect`: what a read or write has moved is what the file and the buffer
  say (`IoExact`). `ChunkOK` and `NextOK` relate the two nested loops.

Only model-checked:

- Liveness: `RunnableRuns`, `ImplementsFairTree`, `SleeperWoken`, `PermitWakes`,
  `InputWakes`, `TransitionEnds`, `LockReleased`. Fairness is out of the prover's
  reach.
- `FatSound` and `NamesKept`: `Fat` walks chains and directories with recursive
  operators, and what they compute would need induction.
- `BootExact` and `ScreenExact`: the map, the segments and the screen are
  computed by folds, with the same difficulty.
- `PageTablesSound` and `ResourcesExact`, for which there is no proof yet.

## Not modelled

- Several CPUs: the kernel has none. Memory ordering, for the same reason,
  except towards devices and the page walker, which see stores in program
  order.
- Register-level code: PCI configuration access, interrupt controllers,
  timers, the UART, PS/2 and text display drivers, descriptor tables. It is
  device I/O without a state of its own.
- First boot sectors, mode switches and graphics set-up.
- The shell, `printf` formatting and the decoding of key codes: one task, or
  pure functions of text.
- FAT names, directory listings, times of entries, and several tasks inside
  one FAT volume at once. The driver takes no lock of its own: an open file
  holds the mount through `Vfs`, but nothing orders two calls into it, and what
  two interleaved calls should mean is not said by the code.
- Failing allocations inside fork and open that return at once with nothing
  changed; `wait_state` values other than 0 and 1, the pid hash, statistics.
- Wrap-around of `next_pid_` after 2^31 forks; the bound `MaxPid` stops first.

The reasons are in `PROJECT.json`, by component.

## What could come next

1. Two tasks inside one FAT volume, once the driver says how they are to be
   ordered.
2. `Fat` as an implementation of an abstract directory.
3. A proof of `PageTablesSound`, whose walker is steps and not recursion.
4. The order of kernel initialisation against interrupts that come early.
