# A TLA+ verification of the OS/161 course kernel

The repository holds the OS/161 2003 teaching kernel (`src/completeCode/os_161`) and
one group's solutions to three assignments on it: synchronisation primitives and the
bar (`src/assignment1/ownSolution`), system calls (`src/assignment2/ownSolution`), and
an open file table with large SFS files (`src/assignment3/ownSolution`). This project
models the parts in which the solutions' own logic and the kernel's concurrency live,
checks them with TLC on small instances, and proves with TLAPS, for any number of threads and objects
and any sizes, every safety property and all three refinements that the passing runs check: of the
synchronisation primitives, the thread system and its lists, the bar, the disk and console drivers,
SFS's blocks and vnodes (the vnodes for one thread in SFS at a time), the volumes, both assignments' open
files, the emulator file system, the heap, the bitmap and user memory.

Paths below: `kern/` is `src/completeCode/os_161/src/kern/`; `thread.c` is the version
that belongs to assignment 1, `src/completeCode/os_161/tmp/ass1/thread.c`; `SV` is
`src/assignment3/ownSolution/sfs_vnode.c`.

## 1. Inventory

The kernel runs on one CPU. Concurrency is threads that the timer interrupt preempts
whenever interrupts are on (`curspl = 0`), plus device interrupts, which can also arrive
in the idle loop. Everything else is built on two facts: code with interrupts off runs
undisturbed until it calls `thread_sleep`, and `thread_sleep` gives the CPU away.

| component | state | operations | what makes it correct |
|---|---|---|---|
| synchronisation primitives (`synch.c`) | semaphore `count`, `lock_owner`, who sleeps on what, saved spl values on each stack | `P`, `V`, `lock_acquire`, `lock_release`, `cv_wait`, `cv_signal`, `cv_broadcast` | one owner per lock; no wakeup lost; interrupts back on exactly when the outermost call returns; operations atomic (`synch.h`) |
| thread system (`thread.c`) | `curthread`, `sleepers`, `zombies`, `numthreads`, cwd references | `thread_fork/exit/yield/sleep/wakeup/wakeone`, `mi_switch`, `exorcise`, `thread_panic` | every thread on exactly one list; no stack freed in use; counts exact; zombies reaped |
| scheduler, run queue (`scheduler.c`, `queue.c`) | ring buffer with `nextread`, `nextwrite` | `make_runnable`, `scheduler`, `q_addtail`, `q_remhead`, `q_grow` | first in, first out; ready threads run |
| `array.c` | `num`, `max` | preallocate, add, remove, setsize | what is preallocated is still there when needed |
| `hardclock.c`, `spl.c`, `interrupt.c`, `pcb.c` | `lbolt_counter`, `curspl`, `in_interrupt`, its saved copies | timer tick, interrupt entry and exit, context switch | sleepers on `lbolt` woken; `in_interrupt` right for the running thread |
| bar (`bar.c`, `bar_driver.c`) | orders, glasses, bottles, 4 kinds of semaphores, 4 locks | submit, take, fill, serve, return, crawl home | the right drink to the right customer, each glass in one hand, everyone served, everyone gets home |
| SFS file blocks (`SV`) | free map, disk blocks, inode pointers | `sfs_bmap`, read, write, truncate | no block in two places, none reachable and free; a write changes one block, a failed one only the end of the file |
| SFS vnodes and directory (`SV`, `vnode.c`) | vnode table, reference and link counts, directory slots | creat, lookup, link, remove, rename, reclaim, fsync | one vnode per inode; none freed in use; named files never erased |
| open files (assignment 3 `file.c`) | the shared open file table, a descriptor table per process, `sys_open`'s static buffer | open, close, read, write, lseek, fstat, exit | an entry belongs to one descriptor; every file closed as often as opened |
| open files (assignment 2 `file.c`) | arrays of vnodes, offsets and rings of duplicates | open, close, read, write, lseek, dup2 | a ring has exactly the duplicates of one descriptor, at one offset, of one open file |
| volumes (`vfslist.c`, `sfs_fs.c`) | mount table, free map and its dirty flag, vnode counts | mount, sync, unmount, unmountall, getroot | a volume is dropped only unused and saved, as far as the disk reported |
| disk (`lhd.c`, `sfs_io.c`, `device.c`) | card registers and buffer, `lh_clear`, `lh_done`, `lh_result` | `lhd_io`, completion interrupt, retried block transfers | each transfer atomic and answered to its caller; device given back |
| console (`console.c`, `lser.c`) | `cs_wsem`, `cs_rsem`, `cs_gotchar`, `ls_wbusy`, the port's registers | delayed, polled, interrupt-driven output; input; user transfers | output complete and in order; input in order; writable again |
| emulator file system (`emu.c`) | `e_lock`, `e_sem`, `e_result`, vnodes and host handles | lookup, transfers, reclaim, interrupt | a vnode stands for the open handle of its file |
| `kheap.c` | pagerefs, two lists, free chains and counts | `kmalloc`, `kfree` | every block free or handed out, once |
| `bitmap.c` | words, `nbits` | alloc, mark, unmark, isset | never a number beyond the end or given already |
| user programs and memory (`runprogram.c`, `loadelf.c`, `dumbvm.c`, `ram.c`) | address spaces, TLB, `firstpaddr` | define, prepare, load, enter, fault, switch, exit | a program reaches only its own memory |
| bus and other devices, menu, tests, user programs | - | - | not modelled, see section 7 |

How they interact: the primitives call `thread_sleep` and `thread_wakeup` and rely on
spl; the thread system calls the scheduler's queue and is entered by `hardclock` from
the timer interrupt; the bar uses only `P`, `V` and locks; SFS uses none of the
locks, except the vnode's count lock, and sleeps in every disk transfer; the disk, console and
emulator drivers sleep on semaphores that their interrupts signal; the VFS list holds one lock over
mounting and syncing, which files that are in use do not take; system calls run with interrupts on.

What is hard in this code: the moment between giving up a lock and being asleep; a woken
thread that finds its lock taken again; switching threads inside an interrupt handler;
freeing the stack of a thread whose stack is still the one in use; lists that must
never need memory in the middle of a context switch; a ring that grows while it is
wrapped; semaphores that count what arrays hold, changed at different moments; failing
half-way through an operation on the file system; and SFS's unlocked searches, which are
followed by a sleep; a card with one set of registers and a result that must reach the thread that asked;
polled output on a port that is sending with interrupts; a retry that loses what it retries, and so leaves the disk behind the memory; a thread that sleeps on its way out; sums of addresses that wrap; host handles that are used again; a page fault
interrupted before it writes its TLB entry; and rings of descriptors kept in arrays. `PROJECT.json` lists each at its line under `hazards`.

## 2. Modules

| module | models | extends / uses |
|---|---|---|
| `Sched` | the thread lists and the only ways code moves a thread between them | - |
| `Synch` | `synch.c`, step by step, with timer and device interrupts | `Sched`; refines `SynchSpec` |
| `SynchSpec` | what `synch.h` promises: atomic operations | - |
| `Threads` | thread life cycle, context switch, `hardclock`, panic | `Sched` |
| `ThreadSpace` | the memory behind the thread lists | - |
| `RingQueue` | `queue.c` | refines `Fifo` |
| `Fifo` | a queue as `queue.h` describes it | - |
| `Bar` | `bar.c` with the threads of `bar_driver.c` | - |
| `SfsFile` | block map, read, write, truncate of SFS files | - |
| `SfsVnodes` | vnodes, reference and link counts, directory operations | - |
| `Kernel` | what the following models share: threads, NULL, and `subject` | - |
| `Disk` | `lhd.c` with its interrupt, `sfs_io.c`'s retries, raw transfers | `Kernel`; refines `DiskSpec` |
| `DiskSpec` | what callers of the disk rely on: atomic sector transfers | - |
| `Console` | `console.c` on `lser.c` | `Kernel` |
| `EmuFs` | `emu.c` with the device behind it | `Kernel` |
| `Mounts` | `vfslist.c` with `sfs_fs.c` | `Kernel` |
| `OpenFiles` | assignment 3's `file.c` | `Kernel` |
| `FileTable` | assignment 2's `file.c` | `Kernel` |
| `KHeap`, `Bitmap` | `kheap.c`, `bitmap.c` | `Kernel` |
| `UserProg` | `runprogram.c`, `loadelf.c`, `dumbvm.c`, `ram.c` | `Kernel` |
| `ListLemmas` | lemmas on lists, minima and sizes that all the proofs use | the library's theorem modules |
| `SynchProofs` | theorems about `Synch`, and that it implements `SynchSpec` | `Synch`, `ListLemmas` |
| `ThreadsProofs` | theorems about `Threads` | `Threads`, `ListLemmas` |
| `BarProofs` | theorems about `Bar` | `Bar`, `ListLemmas` |
| `DevicesProofs` | theorems about `Disk` and `Console`, and that `Disk` implements `DiskSpec` | both, `ListLemmas` |
| `SfsProofs` | theorems about `SfsVnodes` with one thread | `SfsVnodes`, `ListLemmas` |
| `FilesProofs` | theorems about `OpenFiles`, `EmuFs`, `Mounts` and `FileTable` | all four, `ListLemmas` |
| `StorageProofs` | theorems about memory and blocks: `UserProg`, `KHeap`, `Bitmap`, `ThreadSpace`, `RingQueue` (which implements `Fifo`) and `SfsFile` | all six, `ListLemmas` |
| `MCDevices` | instance of `Disk` and `Console` | both |
| `MCServices` | instance of the file systems, open files, heap, bitmap and user programs, and of `RingQueue` and `ThreadSpace` | all nine |
| other `MC*` | the instances for TLC | the module of the same name |

**Subjects.** The components of `MCDevices` share no state with each other, nor do those of
`MCServices`: each calls what lies below it through an interface that its own model contains (a transfer that
may fail, a page or none). A product of them would only multiply state spaces. So a
behaviour chooses one `subject` at the beginning, only that component takes steps and the others stay as they
begin, and a property of a component is about the behaviours whose subject it is.

**Grain of atomicity.** In `Synch` and `Threads`, a step is what runs between two points at
which an interrupt or another thread could notice: the entry of a primitive up to
`splhigh` and its first test; one iteration of a wakeup loop; each sleep; the return.
`lock_release` tests the owner with interrupts still on, so that test and the release are
two steps. `Bar` takes `P`, `V`, `lock_acquire` and `lock_release` as single steps, which is what
`AtomicOperations` shows of them, and a critical section as two, so that it is the lock
that makes it atomic; `doses += 1` is a read and a write. In `SfsVnodes` a step ends at each disk
transfer and at each lock operation.

**Synch.** `pc[t]` is where `t` stands in a primitive (`run` = client code), `obj`, `lk`,
`spl`, `cvspl` are its arguments and saved spl values, `backspl` the spl that a switched-out
thread gets back. `held` records which locks client code was given; it is
only read by properties and by the client's discipline: a client releases, waits on and signals only
with locks it holds and does not acquire one twice, which is what `synch.h` asks for. `irqsem` is a
`V` in progress in a device interrupt. Breaking an assert or reaching a `panic`
sets `panicked`.

**Threads.** Thread identities are real; `stat` says which operation each is in.
`last` is the thread whose stack the scheduler runs on after a switch out.
`thread_fork` takes two steps (before and after `splhigh`), or fails, and then gives everything back in a third. `thread_exit` is a
step up to the `VOP_DECREF` of the current directory, in which the thread (`exiting`) may sleep any number of times, and one
from its end to the switch out: in between other threads run, while the exiting one is still counted. So is the `VOP_DECREF` of a
`thread_fork` that fails. The boot thread does not exit, because it runs the menu.

**ThreadSpace.** Only sizes: threads have no identity, `kmalloc` may fail at every
growth, `failed` collects the lists on which an insertion outside `thread_fork` failed. The loops that grow an array or a ring are
recursive functions on the natural numbers, as in `RingQueue`.

**SfsFile.** One thread at a time. `sfs_bmap` is a computation on a record of free map, disk
and inode, with the code's own index arithmetic. A data block keeps its data in word 0. A write that finds no block leaves what `sfs_bmap`
had allocated, and makes the file as long as the place it was to write at, since `sfs_io` looks at `uio_offset` also when it failed (`SV:714`).
**SfsVnodes.** `IOFails` lets every disk transfer and allocation fail, and every write be lost: `sfs_rwblock` tries a failed
write again with a uio that is used up, and returns 0 with nothing written (`WrittenIsStored`, section 5). `Write` is either outcome of a block write, and `lost`
remembers that one was lost. Afterwards the disk may hold old link counts, no inode where one was written, or a name that was erased, and
`sfs_lookonce`, `sfs_loadvnode` and `sfs_dir_findname` do with that what the code does, panics included. A freed vnode
structure is not reused, so that a use of a stale pointer is seen.

**Disk.** `io[t]` is the place of a thread in `lhd_io` and `sfs_rwblock`, with its uio. The card works on its
own (`hardware`), may report a media error, and interrupts. SFS asks for one aligned sector in kernel
memory; raw requests have any offset and length and a user buffer that may fault after any sector.
`DiskSpec` has one step per sector transfer; `AbstractOp` maps a request to what the card has done for it.
**Console.** A key is its number, and a character that is written is one of a few kinds together with the thread and the call
it comes from, so that loss, doubling and reordering are visible. `Text` holds the texts users write, `ReadSize` the
sizes they read. Polled output runs with
interrupts off, as its own process `poll`, on the same port registers as the interrupt-driven
output that it found under way. **EmuFs.** The device gives out handles and uses closed ones again. **Mounts.** A volume
is its free map's unsaved blocks, those of them whose last write was lost as above (`miswritten`), its dirty flag and its number of vnodes. **OpenFiles.** A step is the code
between two accesses of shared data, and each VFS call a sleep. **FileTable.** One process; memory that is not
the table's reads as any value, and `stopped` says why the kernel no longer does what the code says.
**KHeap** and **Bitmap** run their calls whole, because they run with interrupts off or under their callers.
**UserProg.** Any thread can take the CPU between the fault and `vm_fault`'s `splhigh` and
between the loader's calls; a switch invalidates the TLB as `as_activate` does. Frames are never freed. Addresses wrap after `AddrPages` pages, as `u_int32_t`
does, in `ram_stealmem` and in `vm_fault`; segments may be at any page and of any size, as nobody checks them, and `wrapped` says that `firstpaddr` was moved back.

## 3. Runs

| run | instance | result |
|---|---|---|
| `synch` | 3 threads, 1 semaphore (count up to 2), 1 lock, 1 CV, timer, device interrupt; fairness | `SynchInv`, `MutualExclusion`, `NoMissedSignal`, refinement `AtomicOperations`, `FreeLockIsTaken` hold |
| `threads` | 3 threads, `lbolt` and one more address, `HZ` 2; fairness | `OneList`, `StackInUse`, `CountsOK` (threads and directory references counted exactly), `InterruptFlagOK`, `ReadyRuns`, `ZombiesReaped`, `LboltWakes` hold |
| `runqueue_space` | `MCServices` with subject `threadspace`; ring of 4, 5 threads | violated: see finding 1 |
| `bar` | 2 customers, 2 rounds, 2 bartenders, 2 glasses | `NoFault`, `RightDrink`, `GlassExclusive`, `DosesExact` hold |
| `bar_live` | 2 customers, 1 round, 2 bartenders, 1 glass; fairness | `DrinkServed`: every ordered drink is served |
| `bar_home` | the same | violated: see finding 2 |
| `sfs_file` | 2 files, 4 blocks, `NDIRECT` 1, 3 entries per block | `BlocksOK` (no block in two places, none reachable and free), `WriteExact` (a failed write changes only where the file ends), `TruncateKeeps` hold |
| `sfs_truncate` | 1 file, 6 blocks | violated: see finding 3 |
| `sfs_vnodes` | 1 thread, 2 names, 2 inodes, 2 slots, 2 links, failures and lost writes at every step | `RefcountCovers` holds; `NoPanic`, `NamesKeepFiles`, `LastNameRemoved` hold until a write is lost |
| `sfs_two_vnodes` | 2 threads, no failures | violated: see finding 4 |
| `devices` | disk: 2 threads, 2 sectors of 2 bytes, 1 retry, raw requests aligned, unaligned and past the end; console: 2 threads, 1 call each, 1 delayed, 1 polled character, 2 keys; fairness | `DiskInv`, refinement `DiskAtomic`, `DiskFreed`, `OutputExact`, `InputOrder`, `ConsoleWritable` hold |
| `services` | nine subjects, see below | `HandlesOK`, `VolumesOK`, `EntriesOwned`, `RingsOK`, `OffsetsFollow`, `HeapOK`, `BitmapOK`, `OwnMemory`, `SleepersNeverFail`, refinement `IsFifo` hold |

What `devices` and `services` show, per component:

- `DiskInv`: `lh_clear` keeps everyone but one thread out of the card, the card works or has signalled only for the
  thread that waits, and never sees a sector that does not exist. `DiskAtomic`: each sector is transferred at one
  moment and its result and data go to the thread that asked. `DiskFreed`: the device is given back whichever way a request ends.
- `OutputExact`: every character given to `putch` is shown once and in order, nothing appears inside another user's write,
  and "Not clear to write" is never reached. `InputOrder`: keys are read in order, and none is lost or doubled while
  each is read before the next is typed. `ConsoleWritable`: polled output never swallows the interrupt that is due.
- `HandlesOK` (2 threads, root and one file, 4 handles, 3 vnodes): a vnode in use has the open handle of its file.
- `VolumesOK` (2 threads, 1 device, a free map of 2 blocks, 2 vnodes): a volume is dropped only when nobody has or can get
  a file on it, and the only blocks of its map that may be missing on disk are those whose last write was lost by the retry (`miswritten`); the map's changes during
  its own write are excepted (`raced`).
- `EntriesOwned` (2 processes, 2 entries, 2 descriptors): holds as long as the timer does not let two processes claim
  the same entry (`twice`).
- `RingsOK`, `OffsetsFollow` (descriptors 3 to 5 of 6): hold as long as `dup2` is given originals other than 0 (`mixed`).
- `HeapOK` (2 sizes with 3 and 2 blocks, 2 pagerefs, 3 pages), `BitmapOK` (words of 3 bits, sizes 1 to 7).
- `OwnMemory` (2 threads, 3 frames, 8 page numbers, 2 TLB slots; a program with a segment at page 0 before its two, and one with a segment of 5 pages
  and an empty one): the TLB of a running program leads only to frames that its address space was given, whatever is interrupted and
  whatever died while loading; no frame is in two address spaces as long as `ram_stealmem`'s sum does not wrap. The second program has
  behaviours in which it does: what still holds there is the first part.
- `SleepersNeverFail` (ring of 4, arrays shrink above 4, up to 7 threads and 8 zombies), `IsFifo` (sizes 2 to 6).

**Why the bounds are enough.** Three threads are one in a primitive, one that interferes and one
that waits; the interesting wakeup races (a waker, a sleeper and a thief) need no more, and
the proofs of section 4 lift `synch`, like most other runs, to any number. A count of 2 lets a `V` meet a count that is
already positive. Two locks add nothing that the primitives can tell apart, since each
step touches one lock. `RingQueue` grows from 2 to 4 to 8, empty, wrapped and full.
In `ThreadSpace` the constants 32 and 16 of the code become 4, so that growth and
shrinking both happen within 7 threads. Two rounds let a customer reuse a slot
and a glass that another has just returned. In `sfs_file` the disk fills up in the
middle of a double or triple indirect write; the file blocks chosen are one direct, one indirect, one
double indirect and one triple indirect block. In `sfs_vnodes` one thread suffices for
the failure paths and for lost writes, which are sequential; interleaving is what `sfs_two_vnodes` is about.
Two sectors let a raw request cover both while the other thread transfers one of them; one retry is a first and a last try.
On the console one call per thread already has every order of delayed, polled and interrupt-driven characters of two callers;
two keys are a key that overwrites another. With four handles and three vnodes a closed handle is used again while
another thread still has the file. Two map blocks are a map half written. Word size 3 and up to 7 bits are
sizes with 0, 1 and 2 bits in the last word. Three frames hold one address space of three pages, and a second thread's
load fails after it has taken part of them, or before; three pages do not fit in two TLB slots. With 8 page numbers and 3 frames
a segment of 5 pages is refused while at most one frame is used, and wraps the sum once two are, so that both outcomes of the test in `ram_stealmem` occur with it.

**Fairness.** `Synch`: the CPU keeps executing the scheduler and a handler that has started
(weak fairness); a thread that gets the CPU again and again makes progress, and a timer interrupt is
taken if interrupts are on again and again (strong fairness: neither is enabled
continuously, because each disables the other, but a timer period is many instructions, and a
pending interrupt stays pending). Client code owes nothing: a thread may keep a lock for ever, and
`FreeLockIsTaken` is about free locks only. `Threads`: weak fairness of the second half of
`mi_switch` and of wakeup loops, strong fairness of the clock, and of the end of a `VOP_DECREF` in `thread_exit`, which sleeps a bounded
number of times (for the lock of the count, and for each transfer of `VOP_RECLAIM`): a thread that is woken each time gets to its end. That it is
woken is not assumed. `Bar`: weak fairness of every thread, which
round-robin scheduling with preemption gives. `MCDevices`: the same for a thread that stands inside a driver; the
card and the port finish what they were given, and their interrupts, which stay pending, are taken; a polled write ends because the
port does. Callers owe nothing: that a device becomes free again does not assume another call.

**Deadlock.** TLC's deadlock check is on except where the system may stop: the bar
after closing (or after finding 2), `SfsVnodes` when its bounds on vnodes are used up, and the
components of `MCDevices` and `MCServices`, whose callers may stop and whose calls are bounded.

**Mutants.** Every property of a passing run has a mutated definition (named `..._xyz` before the definition
it changes) under which TLC reports it violated: a dropped re-test, a
missing wakeup, a count not adjusted, an off-by-one, a lock not taken.

## 4. What is proved

TLAPS checks every theorem below for every value of the constants that satisfies the named assumptions.
The same definitions are the INVARIANTs and PROPERTYs of the runs. For the components of `MCDevices` and `MCServices`
the theorems are about the component's own behaviour (`DiskBehaviour`, ...), in which it is not restricted to being the subject.

| module | theorem | states |
|---|---|---|
| `SynchProofs` | `SynchInvariant` | `Spec => []SynchInv` |
| | `LockMutualExclusion`, `WakeupsNotLost`, `SignalsNotMissed` | `MutualExclusion`, `NoLostWakeup`, `NoMissedSignal` |
| | `SynchImplementsSpec` | `Spec => AtomicOperations`: `synch.c` implements `SynchSpec` |
| `ThreadsProofs` | `ThreadsInvariant` | `Spec => []ThreadsInv` |
| | `ThreadsOnOneList`, `StackNeverFreed`, `ThreadCounts`, `InterruptFlagFollows` | `OneList`, `StackInUse`, `CountsOK`, `InterruptFlagOK` |
| `BarProofs` | `BarInvariant` | `Spec => []BarInv` |
| | `NobodyFaults`, `GlassesExclusive`, `DrinksAreRight` | `NoFault`, `GlassExclusive`, `RightDrink` |
| | `DosesInvariant`, `DosesAreExact` | the inductive `DosesInv` (with `BarInv`); `DosesExact` |
| `DevicesProofs` | `DiskInvariant`, `DiskIsSafe` | the inductive `DiskSafe`; `DiskInv` |
| | `DiskImplementsSpec` | `DiskBehaviour => DiskAtomic`: the driver implements `DiskSpec` |
| | `ConsoleInvariant`, `ConsoleOutput`, `ConsoleInput` | the inductive `ConInv`; `OutputExact`, `InputOrder` |
| `SfsProofs` | `VnodesInvariant` | with one thread, `Spec => []VnInv` |
| | `VnodesNoPanic`, `VnodesRefcount`, `VnodesNames` | with one thread, `NoPanic`, `RefcountCovers`, `NamesKeepFiles` (the first and the last until a write is lost) |
| | `VnodesLastName` | with one thread, the action property `LastNameRemoved`, until a write is lost |
| `FilesProofs` | `OpenFilesInvariant`, `DescriptorsOwnEntries` | the inductive `OfInv`; `EntriesOwned` |
| | `EmuInvariant`, `HandlesStandForFiles` | the inductive `EmuInv`; `HandlesOK` |
| | `MountsInvariant`, `VolumesDroppedClean` | the inductive `MountsInv`; `VolumesOK` |
| | `TableRings`, `TableRingsOK` | the inductive `TableInv`; `RingsOK` |
| | `TableOffsetsFollow` | the action property `OffsetsFollow` |
| `StorageProofs` | `UserProgInvariant`, `ProgramsReachOwnMemory` | the inductive `VmInv`; `OwnMemory` |
| | `HeapInvariant`, `BlocksHandedOutOnce` | the inductive `HeapInv`; `HeapOK` |
| | `BitmapInvariant`, `NumbersGivenOnce` | the inductive `BitmapInv`; `BitmapOK` |
| | `SpaceInvariant`, `SleepHasRoom` | the inductive `SpaceInv`; `SleepersNeverFail` |
| | `RingIsFifo` | `RingBehaviour => IsFifo`: `queue.c` implements `Fifo`, and its indices stay in the vector |
| | `FilesForest`, `FilesBlocks` | the inductive `FileInv`; `BlocksOK` |
| | `WritesExact`, `TruncatesKeep` | the action properties `WriteExact`, `TruncateKeeps` |

**Assumptions.** All are about the constants, and the runs evaluate them. There are finitely many threads, and NULL is
none of them, nor any of the objects, records, characters and files it is compared with (`ThreadFinite`, `NullNotThread`, `ThreadsFinite`, `NullIsNoThread`,
`ObjectsDistinct`, `NullIsNoTransfer`, `DataAssumption`, `NullIsNoOutput`, `NullIsNoRecord`, `EmuAssumption`, `PathAssumption`, `NullIsNoEntry`,
`NullIsNoAddrSpace`, `OpenFileAssumption`, `ElemAssumption`, `AddrAssumption`); the boot thread is a thread (`BootIsThread`). Sizes and counts are natural numbers, positive where the code's
are (`CountsAreNat`, `BarAssumption`, `SfsVnodesAssumption`, `DiskSizes`, `ConsoleBounds`, `UserRequests`, `MountSizes`, `TableSizes`, `VmSizes`, `ProgramAssumption`, `HeapSizes`, `BitmapSizes`,
`SpaceAssumption`, `SizesAreNat`); the file table has descriptors beyond the console's and is asked for its own (`FileTableSizes`, `NamedAssumption`); an indirect
block has at least two entries and a block that is written is told from one that is not (`SfsFileAssumption`); a page has at least two blocks of each size of the heap (`BlocksAssumption`), as it has in `kheap.c`. `MaxCount` stands for the range of `int`, at which `V`'s own
assert would stop; the other bounds (calls, keys, opens, zombies, ...) are arbitrary, so the theorems hold for behaviours of any length.
The theorems of `SfsProofs` have one hypothesis more, `OneThread`: SFS has no lock, and finding 4 shows what two threads in it can do, so they say what SFS
promises to whoever uses it from one thread at a time.

**The invariants.** None of the properties is inductive by itself. Each proof gives the strengthening, one lemma or step per action
that keeps it, and the property as a consequence.

- `SynchInv`. To know that `acquire_take` finds the lock free and takes it without interference one needs that
  interrupts are off there, for which one needs that every saved spl value is the right one. So: `TypeOK`; `FrameOK(t)`, what the locals of `t`
  hold at each point (inside `cv_wait` the nested lock calls saved `SPL_HIGH`, outside they saved 0, which is what brings interrupts
  back exactly when the outermost call returns); `SplOK`, interrupts are off wherever the code of the running thread means them to
  be, and a thread that is not running left the CPU either at spl 0 or in `thread_sleep`; `OwnerOK`, a lock's owner is the thread whose client holds it
  or that is in the part of `lock_release` or `cv_wait` that still does; `OnePlace`, every thread is running, once in the run queue or once asleep, and asleep only at
  a point that waits for what it sleeps on; `NoLostWakeup`, a sleeper on a free lock or a positive semaphore is about to be reached by the wakeup
  loop that is running; `NoPanic`. `SignalsNotMissed` follows from `SplOK`: a thread between releasing its lock and sleeping runs with interrupts off, so no other thread is running.
- `ThreadsInv`. `OneList` needs to know where each thread can stand in each state (`Places`), that only exited threads are zombies (`Zombies`), who
  runs and on whose stack `mi_switch` is (`Running`), that a thread structure being filled in belongs to one fork (`Children`), and for the counts, who holds
  the directory (`Cwds`, `Counts`), the threads that exit among them until they have given it back: they may be running, asleep or ready. `Flags` says what `in_interrupt` and its saved copies are when threads are switched inside a handler.
- `BarInv` is one of ownership: a slot in use belongs to one customer (`SlotsOwned`), a taken order to one bartender until it is complete (`OrdersTaken`), a glass
  in use to one order (`GlassesOwned`, `MineOK`), whose contents are what has been poured so far of what was ordered (`GlassesFilled`, `OrderedOK`). The semaphores
  count the orders to take and the empty glasses less the threads between the semaphore and the array (`OrdersCounted`, `GlassesCounted`): that is why a scan finds what its `P` promised.
- `DosesInv`, on top of `BarInv`: `DosePoured(c, r, k)` says that ingredient `k` of drink `r` of customer `c` is in its glass and its dose counted, and `doses[x]` is
  the number of such ingredients that are `x` (`DosesCounted`). Only `pour_write` adds one, for the customer whose order the bartender has, whose rounds are
  not over (`RoundsOK`), and the count it read is still the bottle's, since it has the bottles (`BottlesHeld`). At the end `waited` counts the threads that are gone (`GoneCounted`), so
  when all are, every round is over, and the ingredients poured are a product of the drinks and the rounds.
- `DiskSafe`: what a thread's locals and its uio say of each other at every point of `lhd_io` and of the retries (`Frames`), that one thread has the card
  (`DeviceExclusive`), and that what the card does or has answered is for that thread's sector (`CardOK`).
- `ConInv`: `cs_wsem` is a baton that the semaphore, one thread or the port has (`Baton`), so that a character in the port is one that someone asked for; the characters of a thread among all
  that are shown, sent or waiting are those it asked for, in order (`ThreadsPrint`, `ShownOK`), a user's call is over once another user's character follows it (`UsersApart`), the port and
  a polled write agree on who is using it (`PortOK`), and every key typed and not read is in one known place (`KeysOK`).
- `MountsInv`: who works on the table holds its lock (`Locked`) and stands at a mounted device (`Places`), vnodes exist only on mounted volumes
  (`VnodesMounted`), a clean map is on disk but for the blocks whose last write was lost (`CleanIsSaved`), and so is what a running write has passed (`Written`), unless `raced`. The blocks that are missing on disk without having been miswritten are what it counts.
- `VnInv`: the vnodes that exist are those in the table, except for one just loaded, one for an inode, each with its inode in the free map unless it is being killed (`VnodeOK`, `OneEach`). Until a write is `lost`, a vnode's link
  count is at least the number of its inode's names, and the disk has that count and the inode's type unless the vnode is dirty; of an inode that is not resident the disk counts the names (`NamesOK`); an inode that a
  name leads to is in the free map, and a new one is not yet on disk. The table, the reference counts and that a name occurs once need none of this, so that they survive lost writes; everything
  that is said of a disk block has `lost` as its alternative. That is what makes it safe
  to erase an inode whose vnode has no links, and to drop a vnode that is clean. `RefsOK` is the reference counts, and `WorkOK` what a thread knows at each point of an operation: the slot it found is still the file's, the vnode
  it has is still there, a vnode that is reclaimed has one reference. "At least" is all that holds of links: when `sfs_rename` fails and takes the new name back, it does not count the link down.
- `OfInv`: unless two processes claimed one entry at once (`twice`), an entry in use belongs to one descriptor or one call (`OfOwned`), and the opens of a file that
  were not closed are its entries and the closes under way (`OfOpens`).
- `EmuInv`: one request at a time (`EmuLock`), whose answer is what the device did (`EmuAnswers`); each open handle belongs to one vnode or one call
  (`EmuHandles`); a vnode's references are those that threads have (`EmuRefs`).
- `VmInv`: what an address space has at each point of loading (`Spaces`), below the next free frame until the sum has `wrapped`, and until then disjoint from every other (`Apart`), and the TLB has only pages of
  the address space that is active, each in the frame that it computes modulo 2^32 (`TlbOK`), also when a region's end wraps. `HeapInv`: chains, counts and lists of each pageref agree. `BitmapInv`: a bit is set exactly for a number
  given out or beyond the end.
- `TableInv`: unless `mixed`, every descriptor that is no duplicate begins a ring, a list of its duplicates without repetition in which each leads to the next and the last to the first (`Rings`), and
  the opens of a file are the originals that have it (`OpensCounted`). That the walk of the code passes exactly that list is proved from it, for every size of the table.
- `FileInv`: the blocks of each file form a tree of known heights, whose places hold 0 or a block of the file one level down, each block once; the trees are disjoint and marked in use (`Forest`). It is
  kept by every step of `sfs_bmap`, also by those after which it fails, which is why a write that cannot be completed leaves blocks allocated but nothing shared; the
  action properties follow from what a new, empty block can change of what is found through the tree, and from where the end of the file moves.
- `SpaceInv`: the lists and the running thread are all the threads (`AllCounted`), and with more than one thread the list of sleepers has space for all of them.

**The refinements.** `SynchImplementsSpec` uses `SynchInv`: under the mapping of `Synch`, the step at which an operation takes effect (the decrement, the increment, the
setting or clearing of the owner, the release inside `cv_wait`, from which the thread counts as waiting, the wakeup) is the step of `SynchSpec`, and every other step, interrupts and switches included, stutters. `DiskImplementsSpec`
uses `DiskSafe`: the card's finishing a transfer is the step of `DiskSpec`, and what the thread copies and returns later is what that step promised. `RingIsFifo` shows that
`Contents`, unrolled from the ring, is appended to, shortened at its head, or kept by every call, also by one that
grows a wrapped ring; `CountIs`, `IndexIs` and `NextIs` are the arithmetic modulo the size.

**Loops over sizes.** That the doubling loops of `array_preallocate` and `q_grow` end with a size that is large enough is proved, not assumed: `GrowthExists` and `GrowthEnough` build the
recursive function from the least size that the loop reaches, with `LeastNatural` in place of an induction theorem.

**Only model-checked:**

- all liveness (`FreeLockIsTaken`, `ReadyRuns`, `ZombiesReaped`, `LboltWakes`, `DrinkServed`, `DiskFreed`, `ConsoleWritable`): fairness and ENABLED are beyond the prover;
- what the four runs that end in a violation show: there the counterexample is the result.

Every invariant, every action property and every refinement that a passing run checks is a theorem. What the theorems do not say is what their properties leave out:
`sfs_vnodes` and `SfsProofs` are about one thread in SFS (`OneThread`, finding 4), `SfsFile` has one thread and no disk errors, and `EntriesOwned`, `VolumesOK`, `RingsOK` and `OffsetsFollow` stop where
`twice`, `raced` and `mixed` say that the code went wrong (section 5). `NoPanic`, `NamesKeepFiles` and `LastNameRemoved` say nothing after a write has been lost (`WrittenIsStored`, section 5): a stale link count of 0 then makes
`sfs_lookonce` panic, a name is counted away that is still there, or the new name of a rename is missing while the old one is removed. `NoPanic` also leaves out the panic that `sfs_rename` itself calls when neither of its
names can be taken back (`cannot_recover`, `SV:1585`), which failing transfers do reach. `OwnMemory` does not say that frames are in one address space after `ram_stealmem`'s sum has wrapped (`FramesGivenOnce`), and `RingsOK` does not say that
a duplicate outlives its original (`OthersUnaffected`).

## 5. Findings

1. **The run queue is preallocated one slot short** (`runqueue_space`).
   `scheduler_preallocate(n)` makes the ring `n` slots large, but a ring of `n` slots holds `n - 1` threads
   (`queue.c:98`). With as many ready threads as slots, `make_runnable` has to allocate, and
   the asserts after it in `mi_switch` and `thread_wakeup` can fail.
2. **The bar may never close** (`bar_home`). `crawl_home` sets `ndrinkers` to 0 before the last customer
   submits the dummy orders; a bartender that tests `drinkers()` in between goes
   home without taking one, and the customer waits for an order that nobody takes.
3. **Truncation keeps blocks past the end** (`sfs_truncate`). The test for the indirect block is
   `blocklen < baseblock+j`, one too late, and blocks of the double and triple indirect
   blocks are never freed; the blocks are forgotten only when the indirect block becomes empty.
4. **An inode can be loaded twice** (`sfs_two_vnodes`). `sfs_loadvnode` searches the table, sleeps in the disk
   read, then adds the vnode, with no lock over the three.

Behaviours the models have and no run asks about (the first six are stated as properties, which do not hold):

- `FramesGivenOnce` (`UserProg`): `ram_stealmem` computes `npages * PAGE_SIZE` and `firstpaddr + size` in `u_int32_t` (`ram.c:66`), and neither
  `load_elf` nor `as_define_region` limits a segment's size. A huge one wraps the sum, passes the test against `lastpaddr`, and moves `firstpaddr` back
  over frames that live address spaces have, although `vm.h:68` speaks of "memory that cannot be freed later".
- `WrittenIsStored` (`Disk`): `sfs_rwblock` tries a failed transfer again with a uio that the first try consumed (`sfs_io.c:46`), so
  the second try transfers nothing and returns 0: no EIO, and nothing on the disk. `Mounts` and `SfsVnodes` have the consequences: `sfs_sync` takes a free map
  for clean that is not saved, and inodes and directory entries on disk go stale.
- `OthersUnaffected` (`FileTable`): `close` of assignment 2 sets the vnodes of all duplicates to NULL and closes the file (`file.c:115`), where the
  manual page says "Other file handles are not affected in any way, even if they are attached to the same file" (`close.html:28`).
- `OpensWhatItNamed` (`OpenFiles`): `sys_open`'s pathname buffer is static (`file.c:98`); another process overwrites it
  before `vfs_open` reads it.
- `WalksEnd` (`FileTable`): `dup2(1,0)`, `dup2(1,3)`, `dup2(0,4)` makes a ring that the walk at `file.c:333` never leaves.
- `SyncedBeforeUnmount` (`Mounts`): a file changed between the sync and `sfs_unmount` makes the assert there fail.
- SFS blocks: the index arithmetic of triple indirect blocks leaves the buffer for block numbers further in (`SV:319`, `SV:435`;
  `SfsFile` sets `fault`); reading a hole under a double or triple indirect block allocates a block, although the comment at
  `SV:507` says blocks are allocated "if and only if we're writing".
- SFS vnodes: a rename whose second write fails leaves the link count one too high, so that the file is never erased; an
  `EBUSY` from `sfs_reclaim` leaves the reference count one too high.
- Volumes: `sfs_sync` reads the number of vnodes once and then walks the array, which may change (`sfs_fs.c:120`), and clears the dirty flag
  after a write during which the map may have changed (`sfs_fs.c:132`); two devices with the same volume name can both be mounted (`vfslist.c:470`).
- Assignment 3: `oft_alloc` tests and claims an entry in two steps (`file.c:64`); a process that exits leaves its entries in use
  (`thread.c:88`); `fstat` does not check its descriptor; `SYS_sync` returns an uninitialised error (`syscall.c:102`).
- Assignment 2: a duplicate of a duplicate can be left with the vnode of a closed file; `dup2` and `lseek` do not bring the offsets of a ring
  together; the scans run to `i <= FILETABLESIZE`; an open that fails keeps its slot.
- Console: a key typed before the last was read overwrites it and is read twice (`console.c:129`).
- Memory: `vm_fault` returns without `splx` when there is no address space (`dumbvm.c:97`); a full TLB is an error that kills the kernel, since
  "Kill the current user process" is a panic (`trap.c:48`, `trap.c:156`); a program with one segment fails `vm_fault`'s
  asserts; frames are never freed.
- Shrinking the zombies array to nothing frees what `thread_fork` preallocated for it (`array.c:80`).

## 6. Plan

Done: the modules of section 2, in the order of the components' importance: synchronisation, threads, the bar, SFS, then
devices, file tables, volumes, heap, bitmap and user programs; then the theorems of section 4. Next:

1. `SfsFile` with disk errors, reported and lost, and with two threads sharing the static buffers; two-thread `SfsVnodes` for the reference counts.
2. `Mounts` with two devices, for the orders in which `vfs_unmountall` and `vfs_sync` walk the table.

## 7. Not modelled

The LAMEbus and its other devices (probing, and register access without state of its own; the timer's tick is `hardclock`), `vfspath.c`'s and
`vfslookup.c`'s parsing (string processing; the operations below it are modelled), `addrspace.c` (compiled only in the ASST3
configuration, which has no `dumbvm`, and empty there), `menu.c`, `kern/test`, `testbin` and the user-level
programs (drivers of the other components), libc and the host tools (no state shared with the kernel), the create and
destroy functions of `synch.c` (only as initial states), stack contents, trap frames and the machine-dependent switch code.

The repository holds most sources several times: under `tmp/ass1`, `tmp/ass2`, `tmp/ass3`, `tmp/tmp` and in the assignments' directories.
Each is modelled once, from the assignment's own version, or from the kernel tree where there is none; the other
copies, and the headers, tests and libc, are most of the lines that no definition is mapped to.
