# A TLA+ model of OSBasis

OSBasis is a small x86 kernel: preemptive threads on one CPU, semaphores and
recursive locks, a paging allocator with a heap, user processes, a keyboard and
an IDE driver, and a file system with directories. These modules model its
control, TLC checks them on small instances, and TLAPS proves the core for all
values of the constants: the scheduler and the locks, the queue of the keyboard, the disk
driver, the linked lists, the bitmaps, the allocation of pages, the heap, and the layout of a formatted
partition.

`PROJECT.json` has, for every definition, the source lines it stands for; the
components; the hazards with the properties that cover them; and the runs.

    tlc -config Locks.cfg MCLockClients        # a run
    tlapm LockClientsProofs.tla                # the theorems; likewise the other *Proofs modules

## 1. The system

| part | state | operations | interacts with |
|---|---|---|---|
| scheduler (`thread/thread.c`, `device/timer.c`) | status and ticks of a thread, `thread_ready_list` | `schedule`, `thread_block`, `thread_unblock`, `thread_yield`, the clock handler, `idle`, `thread_start`, `allocate_pid` | everything that blocks |
| linked lists (`lib/kernel/list.c`) | two pointers in each element | `list_append`, `list_push`, `list_pop`, `list_remove`, `list_search` | scheduler, semaphores, heap |
| processes (`userprog/process.c`, `userprog/tss.c`) | page directory of a process, `cr3`, `esp0` | `process_execute`, `process_activate` | scheduler, pages |
| semaphores, locks (`thread/sync.c`) | value, waiters; holder, repeat count | `sema_down/up`, `lock_acquire/release` | scheduler; used by console, memory, ioqueue, ide |
| ioqueue (`device/ioqueue.c`) | ring, waiting reader and writer, lock | `ioq_getchar`, `ioq_putchar` | locks, scheduler, keyboard interrupt |
| keyboard (`device/keyboard.c`) | status flags, prefix flag | the interrupt handler | ioqueue |
| IDE driver (`device/ide.c`) | `expecting_intr`, `disk_done`, lock of a channel; the controller | `ide_read`, `ide_write`, `identify_disk`, the disk interrupt, `partition_scan` | locks, timer sleep |
| bitmap (`lib/kernel/bitmap.c`) | bits | `bitmap_scan`, `bitmap_set` | pools, file system |
| pages (`kernel/memory.c`) | bitmaps of frames and addresses, page tables, pool locks | `malloc_page`, `get_a_page`, `mfree_page` | locks, processes |
| heap (`kernel/memory.c`) | free lists, arena headers | `sys_malloc`, `sys_free` | pages |
| formatting, mounting (`fs/fs.c`) | super block, bitmaps on disk | `filesys_init`, `partition_format`, `mount_partition` | IDE driver |
| inodes and bitmaps on disk (`fs/inode.c`, `fs/file.c`) | inode table, the sectors of both bitmaps | `inode_locate`, `inode_sync`, `inode_delete`, `bitmap_sync` | IDE driver, file contents |
| file contents (`fs/file.c`, `fs/inode.c`) | block bitmap, `i_sectors`, table, position | `file_write`, `file_read`, `sys_lseek`, `inode_release` | bitmap, IDE driver |
| directories (`fs/dir.c`) | entries in blocks | `sync_dir_entry`, `delete_dir_entry`, `search_dir_entry`, `dir_read` | file contents |
| names and open files (`fs/fs.c`) | `open_inodes`, `file_table`, descriptors, working directories | `sys_open` ... `sys_stat` | all of `fs/` |

Also there and not, or only partly, modelled: system call entry, interrupt
controller, console output, printing and strings, boot code (section 8).

What is hard in it: an interrupt may come between any two instructions outside
the regions with interrupts off; `lock_acquire` and `lock_release` change the
holder outside such regions; a woken thread is only made ready, and another one
may overtake it; the disk interrupts late or more often than the driver waits;
bitmaps are scanned and set in two steps; `thread_start` walks a list that the
clock handler changes; blocks, inodes and numbers are used again, so that anything
left behind by one call is met by a later one; and a call on a file writes several
sectors, between any two of which the power may go.

## 2. Modelling

*Atomicity.* There is one CPU. Code with interrupts off is one action, built from
functions on the scheduler's state (`Sched`). Code with interrupts on is cut at
every access to shared state; a program counter per thread (`lk`, `io`,
`call[t].pc`) says where a thread is.

*Assertions.* A failing `ASSERT` or `PANIC` stops the kernel: it sets a panic
variable, after which nothing happens. That assertions hold is a property.

*Data.* Threads, locks and names are model values; a character is its number, a
byte of a file its file and position, a disk sector who wrote it. Page, block and
bitmap sizes are constants, so that boundaries are met with small numbers.

*File system.* One thread is in the file system at a time, though the code has no lock
there. In `FileData`, `Dir` and `FileSystem` a call is one step; `Volume` takes the calls
of the first two apart into the sectors they write, and `Format` does it with
`partition_format`.

*Faulty variants.* Before some definitions stands a variant with a plausible
mistake, used to see that a property would notice it. No specification uses them.

| module | models | state and actions |
|---|---|---|
| `Sched` | `thread.c`, clock handler | functions on the record `sched`: `schedule`, `thread_block`, ... |
| `Sync` | `sync.c`, `idle`, clock | `value`, `waiters`, `holder`, `repeat`; one action per access |
| `Mutex` | what `sync.c` promises | `owner`, `want`; `Request`, `Grant`, `Free` |
| `List` | `list.c` | operators on the functions `front` and `next` of all elements |
| `Threads` | `thread_start`, `process_execute`, `process_activate` | extends `Sync`: each of its actions with the calls of `list.c` it makes on the pointers `mem`; `mk` is where a creation is; `pgdir`, the processes that have their pages; `cr3`, `esp0` |
| `LockClients` | callers of locks | `nest` counts acquires; the invariant; the refinement of `Mutex` |
| `IoQueue` | `ioqueue.c` | extends `Sync`; the ring, the two waiting threads; keyboard interrupt |
| `Ide` | `ide.c` | extends `Sync`; registers, the command under way (external), a pending interrupt |
| `Keyboard` | `keyboard.c` | flags of the handler; the user, who presses, holds and releases keys, and the bytes under way (external); a full queue drops the character |
| `Runs`, `Bitmap` | `bitmap.c` | what a scan should find; the scan as coded |
| `Memory` | pages | pool and address bitmaps, page tables; scan and set of a pool apart; pool locks as in `Mutex` |
| `Heap` | `sys_malloc`, `sys_free` | addresses are numbers; free lists, headers |
| `Partitions` | `partition_scan` of `ide.c`, the loop of `ide_init` | the tables on disk; the recursion as the stack `scan`; `ext_lba_base`, `p_no`, `l_no` |
| `Format` | `filesys_init`, `partition_format`, `mount_partition` | extends `Partitions`; file systems and how many of the five areas are written; restarts |
| `FileData` | `file.c` | blocks of files, their contents, read results |
| `Dir` | `dir.c` | blocks of one directory |
| `Volume` | `inode_sync`, `bitmap_sync`, the order of writes, `mount_partition` | extends `FileData`, instance of `Dir` on the same bitmap; `image` is the disk, `todo` the writes to come; `SectorWritten`, `Restart`, `Crash` |
| `FileSystem` | `fs.c`, `inode.c` | names, inodes in memory, open files, working directories; every call, also one that fails, with the inodes it opens and closes on its way; `left` counts what `sys_open` and `sys_stat` never close |

How they fit together: `IoQueue`, `Ide` and `LockClients` extend `Sync`, which
extends `Sched`, so that scheduler, locks and drivers are checked together. These have
lists as sequences; `Threads` runs the same actions on pointers beside the sequences, and
`ListsSpelled` says that the two agree.
`Memory` uses locks as `Mutex` describes them, which `RefinesMutex` justifies.
`Memory` extends `Bitmap`; `Heap` uses `Runs`, what `Memory`'s property
`FirstFit` shows the scan to return. `FileSystem` takes a directory for a
function from names to inodes, what `HoldsLive` shows it to be, and `FileData` a file for
blocks in memory, which `DiskAgrees` shows to be those on the disk.

## 3. Runs

| run | shows | instance |
|---|---|---|
| `Locks` | no assertion fails, locks exclude, `IInv` holds, every ready thread runs, `sync.c` implements `Mutex` with its fairness | 3 threads and idle of priority 1, 1 lock acquired up to twice |
| `Threads` | the pointers spell the lists of `Sched` and `Sync`; every thread is in one place, on the CPU, in the ready list, asleep or being made, and runs on its own pages and stack (`PlacedOnce`); a creation comes to its end | main starts 2 kernel threads, or 2 processes while threads contend for a lock |
| `IoQueue` | no assertion fails, order is kept, readers of the keyboard take every character | a ring of 3; one reader, two, or two while main writes |
| `Ide` | a call transfers its own sectors, no command meets a busy disk, `disk_done` is raised for the holder only, calls end; panics come only from a disk slower than the limit | `identify_disk` by main, then 2 threads: a read cut in two commands, a write |
| `Memory` | no frame is used twice, bitmaps match use, the scan finds the first run, assertions hold | 4+4 frames; two kernel threads, or two processes, never one of each |
| `Heap` | pieces do not overlap, counts are right, empty arenas go back | 3 pages of 16 bytes, 2 block sizes |
| `Keyboard` | the characters put in the queue are the ones wanted, in order; flags follow the keys | 9 keys, held ones repeat, 3 bytes under way; the queue full or not at any time |
| `Format` | areas do not overlap; the scan finds the partitions in the tables, each gets one file system, and a restart leaves it alone | 71 disks: one partition of every length for bitmaps of 1 to 3 sectors; up to 3 primary partitions with unused entries between, a chain of 1 to 10 logical ones in any of three entries |
| `FileData` | blocks are not shared, contents are kept, reads in a block are right | 2 files, 2 direct blocks, up to the first block behind the table |
| `Volume` | between calls the disk has what memory has; at every instant it has each file as a finished call left it; nothing is shared, also after a crash; nothing is lost without one; the directory holds what was added and an empty one has one block | a file that grows behind its table and a small one, or 5 names in up to 3 blocks of the directory; crashes while a file is written or released |
| `FileSystem` | names form a tree, `getcwd` leads back, open inodes stay in memory; an inode outlives its file only when it was left open or is a directory that a program has open, and apart from what was left the counts are exact | 2 processes, 2 names, 3 inodes, paths of 2 names; one program that changes directories, one that opens, lists and looks at files |
| `MemMixed` | **violated**: `NoSharedFrame` | one kernel thread and one process |

The violation is a disagreement between code and comment: `memory.c:140` takes a page
table's frame from the kernel pool without that pool's lock (`memory.c:33`,
"加锁,保证互斥"): it and a kernel thread's `palloc` find the same clear bit. This is why
`Memory` keeps kernel threads and processes apart.

Why some runs stop where they do: `FileData` at 5 bytes and `Volume` at the first block
behind the table, because a file that grows further loses its contents (section 4,
`file.c:365`); `Threads` starts kernel threads only while nobody blocks on a lock
(`thread.c:188`); `Format` has one channel, no table of four primary partitions and no power
failure while it formats; `Volume` has no crash while an entry is made or deleted
(`Cuts`). In each case the instance beyond is in section 4.

*Bounds.* Three contending threads are enough for a waiter, a thread that overtakes
it and an owner; two acquires for recursion. A ring of 3 wraps and fills. Two sectors
per command cut a read of three. Two page tables' worth of pages per process force a
new table; 4 frames let pools run full. Bitmaps of two-bit bytes have runs inside and
across bytes. Two block sizes and three pages give arenas of each kind next to a large
run. Three inodes make numbers be used again at once, and a count of 2 is a second user of an
inode, or one beside what was left open. (A single program with all nine calls satisfies the same
properties, in a quarter of an hour.) Six threads in a list let a walk be
overtaken and sent back. In `Volume` a sector has two and a half inodes, so that one lies
in two sectors, 3 entries per block leave room for one name beside `.` and `..`, and 5
names leave a hole between blocks; writes of 2 and 4 bytes in blocks of 3 begin and end at
every place of a block; one call after a crash (`MaxSince`) meets what the crash left, and
`Durable` and `NothingShared` look at the disk itself in every state. Ten logical partitions
are more than the eight the code keeps. `Counts`, `MaxSince`, `MaxNest`, `MaxBytes`, `MaxCnt`,
`MaxWrite`, `MaxSize`, `MaxDepth`, `MaxCount`, `MaxOpen` and `TimeLimit` bound what
would grow without end. Symmetry is used in
`FileData` (files), `Volume` (names) and `FileSystem` (processes, names), which check no
liveness.

*Deadlock* is checked, except where the kernel may really stop on an assertion: `Ide` (a
disk slower than the limit), `Memory` and `Heap` (a full bitmap), `FileSystem` (`getcwd` in a
removed directory; there also where behaviours are not followed, section 7).

*Fairness.* Strong for the clock: the 8259A latches IRQ0 while interrupts are off and
delivers it once they are on, so it is enough that they are on again and again. Strong
for each thread's step: a thread that runs again and again executes instructions, a
tick being 10 ms. In `Ide`, weak for the controller's readiness and strong for the disk
interrupt, which is latched as well. Nobody is obliged to press a key, or to release a
lock.

## 4. Other instances

These definitions state what a comment or an assertion of the code says and are
violated by the code as modelled, on the instances named. They are kept in the modules
for whoever changes that code; `PROJECT.json` names them under the hazards.

| module, instance | property | where |
|---|---|---|
| `IoQueue`, one reader and one writer (`MCWriter`) | `ProducerReturns`: the reader tests the queue, waits for the lock, and then sleeps with the lock though the queue has filled | `ioqueue.c:54-57` |
| `IoQueue`, two readers | `SleepsForAReason` | `ioqueue.c:54-57` |
| `Ide`, `IrqOpen = FALSE` | `IdentifyFinishes`: IRQ15 is masked | `interrupt.c:63` |
| `Ide`, a read of sector `max_lba` | `PanicsOnlyWhenSlow` | `ide.c:151`, `ide.c:89` |
| `Ide`, any slow disk | `BusyWaitInTime`: 300 s, not 30 s | `ide.c:136` |
| `Keyboard`, `BothSides = TRUE` | `StatusFollowsKeys` | `keyboard.c:141` |
| `Keyboard`, a key with a prefix | `PrefixRecorded`: a byte is compared with 0xe000 | `keyboard.c:121` |
| `Format`, any | `FreeBitsAreBlocks`: one bit too many is cleared | `fs.c:141` |
| `Threads`, `Programs = {{"start", "lock", "execute"}}` | `CreationEnds`: the walk follows a thread that blocks into the waiters of a lock, whose end it does not know | `thread.c:188`, `list.c:72` |
| `Threads`, two creators | `PidsUnique` | `thread.c:54` |
| `Format`, two channels | `EveryPartitionReady`: neither `part_idx` nor `ext_lba_base` is reset for the next disk | `fs.c:189`, `ide.c:295` |
| `Format`, a table of four primary partitions | `FourPrimaries`: the assertion comes after the increment | `ide.c:310` |
| `Format`, `PowerFails = TRUE` | `EveryPartitionReady`: the super block is written first | `fs.c:118` |
| `FileData`, a file of 7 bytes | `ContentsKept`: a file that grows behind its table gets all its blocks anew | `file.c:365` |
| `Volume`, `Cuts` with `"create"` or `"delete"` | `NothingShared`: the entry is written before the inode and its bit; a block is free before the directory lets go of it | `file.c:144`, `dir.c:276` |
| `Volume`, `Cuts` with `"split"` | `Durable`: half of an inode that lies in two sectors is new | `inode.c:62` |
| `Volume`, `IdxMod = 2` | `DiskAgrees`: the inode is written in another one's place | `inode.c:45` |
| `Volume`, `IdxMod` and `BitsPerSector = 4` | `DiskAgrees`: another sector of the bitmap is written | `file.c:239` |
| `Volume`, `BitsPerSector = 3` | `DiskAgrees`: the bit of the table's block is not written, unless it shares its sector with a block that is | `file.c:321` |
| `FileData`, a read across blocks | `ReadsBack` | `file.c:503` |
| `FileData`, a file of the largest size | `LargestFileWritable`, `LargestFileReadable` | `file.c:272`, `file.c:453` |
| `FileData`, a small `IdxMod` | `AnyFirstBlock` | `file.c:239` |
| `Dir`, entries behind the table | `EntriesKept`, `DeleteReturns` | `dir.c:130`, `dir.c:288` |
| `FileSystem`, with `stat`, or `rmdir` of a directory that is open, or that `open` of a file in it has left open | `InMemoryIsOnDisk` | `fs.c:881`, `fs.c:731`, `fs.c:404` |
| `FileSystem`, with `open` or `stat` | `CountsExact` | `fs.c:404`, `fs.c:881` |
| `FileSystem`, two descriptors | `OneWriter` | `file.c:137`, `file.c:219` |
| `FileSystem`, `open` that is denied, then `unlink` | `SlotHasOwner` | `file.c:207` |
| `FileSystem`, `unlink` of a path through a file | `UnlinkDeletesNamed` | `fs.c:500` |
| `FileSystem`, `rmdir` of a working directory | `GetcwdReturns` | `fs.c:747` |
| `FileSystem`, `rmdir` of a path that ends in `.` | `Tree` | `fs.c:731` |
| `FileSystem`, `rmdir` | `RmdirReturns`: the record is not initialised | `fs.c:717` |

## 5. What is proved

`LockClientsProofs`, for any number of threads, any set of locks, any priorities
and any `MaxNest`:

* `Invariance`: `Spec => []IInv`;
* `NeverPanics`, `LocksExclude`: safety invariants of the run `Locks`;
* `WakeupsAreNotLost`: a semaphore that is up while threads wait has made one of them
  runnable; `ListsStayConsistent`: ready and waiters lists hold a thread at most once and
  agree with its status;
* `RefinesMutex`: `Spec => MutexSafety`, every step of the lock code is a step of `Mutex`
  or changes nothing of it.

*Assumptions*: `ThreadAssumption` (idle and main exist and differ, every thread but main is
started once, idle first), `SyncAssumption` (locks and semaphores differ, and the values for
"none" are neither threads nor locks), `NestAssumption` (`MaxNest` is a number). TLC evaluates
them in every run that extends the modules.

*The invariant.* Mutual exclusion alone is not inductive: that `holder` is the right thread
depends on where every other thread is. What is needed is the same for every user of
`sync.c`, so it is stated in `Sync`, as `LockInv(n)`: `n[t][l]` is how often `t` has called
`lock_acquire` of `l`, less its releases, which each client knows of itself. `LockInv` has
`LockView(n, t, l)`, what `holder` and `holder_repeat_nr` are at each point of `lock_acquire`
and `lock_release`; `OneOwner`, an owner being whoever is between the decrement and the
increment of the semaphore; `ThreadView`, which positions exclude each other; `SchedOK` and
`WaitersAgree`, which tie status, ready list and waiters lists together; and `NoLostWakeup`.
`Sleepers` are the threads that a client has blocked itself, outside `sync.c`. `IInv` of
`LockClients` is `LockInv(nest)` with no sleepers and with what the clients keep: one lock at a
time, interrupts on. TLC checks `IInv` in the run `Locks`.

*The argument.* `SyncProofs` begins with a lemma per operator of `Sched`: from `SchedOK` each
of them leads to `SchedOK` and moves only the threads it should. Then every action of `Sync`
preserves `LockInv(n)` for every `n`, or for a call turns it into `LockInv` of the new count,
one lemma per action: the steps inside `lock_acquire` and `lock_release`; then the calls,
`sema_down`, `sema_up` (by a thread or an interrupt), the clock, `thread_yield` and idle.
`SyncStepInv`, `SyncStepFrame` and `OtherStepFrame` are what clients cite. The
refinement maps the owner to whoever is between decrement and increment, and follows action by
action from `IInv`.

*The queue* (`IoQueueProofs`, for any threads, any sets of readers and writers, and any size of
the ring from 2 on). `QueueInvariance`: `Spec => []IoInv`; `NobodyPanics` and `KeepsOrder`: the
two safety invariants of the run `IoQueue`. The invariant has `LockInv(Nest)`, a thread
counting as a holder from its call of `lock_acquire` in the loop to its call of `lock_release`;
and `SlotsAgree`: the sleepers are exactly the threads in the two slots, each in the slot of
its side and on its way back from `ioq_wait`. This settles both assertions. A thread asleep in
a slot still holds the lock, so that the thread that gets to `ioq_wait` with the lock finds
both slots empty. `wakeup` writes the slot without the lock, but with interrupts off, and
whoever is in it is blocked. `KeepsOrder` rests on arithmetic about the ring: `ModWrap` turns the
remainders into one subtraction or none, and `PutKeepsOrder` and `GetKeepsOrder` say what one
character more or less does. `IoqAssumption` has the users apart and none of them idle, and one
lock. TLC has checked `IoInv` on the instance of the run.

*The disk driver* (`IdeProofs`, for any threads, disks, calls, lengths of a command and limit of
`busy_wait`, and with the interrupt line open or masked). `IdeInvariance`: `Spec => []IdeInv`;
from it the three invariants of the run `Ide` (`OnlySlowDisksPanic`, `CallsTransferAll`,
`InterruptsHaveTheirWaiter`) and its action property (`CommandsWaitTheirTurn`). The hypothesis is
`WithinDisk`: no call reaches beyond sector `max_lba`, nor sector `max_lba` itself; the assertion
of `select_sector` fails for the last sector (section 4). The invariant has `LockInv(Nest)`, a
thread counting as a holder from `lock_acquire` of the channel on, so that at most one thread is
`Inside`; and for that thread, `Working`: the sectors transferred so far are its own, in order
(`Progress`); the registers hold what its next command needs (`Selected`); the controller executes
that command or nothing (`Executes`); and `disk_done` has its interrupt, or it is still to come,
exactly while the thread is on its way to `sema_down` (`Expected`). `Quiet`: with nobody inside
nothing is under way, which is what the next call starts from, and what an interrupt in excess
must not disturb. `CallDone` alone is not inductive, since where the next sector comes from
depends on the controller, and what that does depends on who last wrote its registers. Each
action of the driver has a lemma; a step of `Sync` by another thread, the clock and the disk
interrupt leave `Working` as it is, except that the interrupt moves `disk_done` from expected
to counted. TLC has checked `IdeInv` on the instance of the run.

*Lists* (`LockClientsProofs`, first part, for any lists and elements). `Holds(m, l, s)`: the pointers `m` spell
the sequence `s` in list `l`, forward and backward. `InsertSpells` and `RemoveSpells` say
what `list_insert_before` and `list_remove` make of `s`; `OthersKept` that no other list
notices, as long as no element is in two; `ListsAreSequences` follows for push, append, pop
and the test for empty, which is how the other modules use them. The argument is by position:
which two pointers change, and which node every index of the new sequence is.

*Layout* (`FormatProofs`, for any sizes of sectors and inodes, any number of
files and channels, any disks of partitions long enough to be formatted, and with power
failures or without). `LayoutAlwaysFits`: `Spec => []LayoutFits`, of the run `Format`;
`BlocksAlwaysFree`: every block but the root's has a clear bit. It begins with the
arithmetic: what division with rounding bounds (`RoundUp`), that the second rounding
of the bitmap is never larger than the first, and from it `SuperBlockFits` and
`SuperBlockFrees` for one partition. The invariant `FInv` carries them through scan, restarts
and formatting: every partition found comes from an entry of a table, and every super block on
disk is `super_block` of such a partition. The assumption, `FormatAssumption`, is that the
constants are positive and that each entry of a table has a length that `partition_format`
can lay out (`SecCnts`): the code does not check it.

*Bitmaps* (`MemoryProofs`, first part, for any number of bits per byte and of bytes).
`ScanFindsFirstRun`: `bitmap_scan` as coded, which skips full bytes, looks for the first clear
bit in a byte and then counts, returns what `FirstRun` says it should; `ScanPanicsWhenFull`:
its assertion fails on a full bitmap and on no other. The loops are recursive functions; what
a row of one computes is shown by taking the least row for which it would be wrong (`Least`,
`Induct`), which needs no induction scheme with a predicate.

*Pages* (`MapProofs`, `MemoryProofs`, for any sizes of the pools, of the address spaces,
of a page table and of a byte of a bitmap, any number of threads and any lengths of
runs). `Invariance`: `Spec => []MemInv`, and from it the four properties of the run `Memory`:
`FramesNotShared`, `BitsTellUse`, `StopsOnlyWhenFull`, `ScansFirstFit`. All have the hypothesis
`NoMixing`: the threads that take turns are all kernel threads or all processes. Without it
they are false, as the run `MemMixed` shows. The instance of the run `Memory` satisfies it.
`MemoryAssumption` and `BitmapAssumption` have the rest: pools and spaces are whole bytes of
bits, the kernel's space is not one of a process, and the value for "none" is not a number.

*The invariant* `MemInv`. `BitsMatchUse` speaks of the time between calls, and the scan and
the setting of a bit are two steps. So `MemInv` says for each point of a call which marked
pages are not yet, or no longer, mapped (`Loose`), which frames are marked and not yet named
(`Taken`) or still named and no longer marked (`GivenUp`), and that the frame between scan and
set still has a clear bit. It can say so because `OneCall` has at most one call under way among
the threads that take turns: they use the same pool and so the same lock. `NamedOnce` is `NoSharedFrame` for pages and page
tables together with the pool each frame comes from; `HeldRuns` and `CallRun` keep the runs of
pages that callers hold apart; `StackKept` was found in the proof of `get_a_page`: the page of
the stack is free until the process has started and marked ever after. TLC has checked
`MemInv` on the instance of the run `Memory`. One lemma per action shows that it is kept:
`MapProofs` has those of allocation, the start of a process, the release of a run and thread
switches, `MemoryProofs` the three scans, which need the facts about bitmaps.

*The heap* (`HeapProofs`, for any sizes of a page, a header and the smallest block, any number of
block sizes and pages, and any sizes asked for). `HeapInvariance`: `Spec => []HeapInv`, and from
it the three invariants of the run `Heap`: `PiecesNeverOverlap`, `CountsAreExact`, `NoPageLeaks`.
`SizeAssumption` says that a block of every size fits into a page behind the header; the code's
sizes, 16 to 1024 in pages of 4096, do. The three properties speak of pieces, of counts and of
pages, and none is inductive: that `sys_free` may give a page back depends on the count, the count
on the free list, and that the list has no foreign block on where every arena lies. `HeapInv` says
it of all of them: the pages in use are those of the arenas, each of one (`PagesAgree`); a piece
is one block, or what follows the header of a large arena (`Fits`); a free list has no block
twice, and only blocks of arenas of its size that nobody holds (`Listed`); every block is free or
held, and the count is of the free ones (`Counted`). A call passes through states in which an
arena has no block in use: the new one before its first block is taken, and the one whose last
block came back. So the steps inside a call are lemmas about `HeapOK`, with that arena as an
exception: `CutStep` and `PopStep` for `sys_malloc`, `PutStep`, `KeepStep` and `FullStep` for
`sys_free`, `LargeStep` and `FreeLargeStep` for large pieces. `LocalStep` keeps them short: a step
that touches one arena need only be examined there. That a full count means that all blocks are on
the list, which the `ASSERT` of `sys_free` tests, is a fact about cardinalities. TLC has checked
`HeapInv` on the instance of the run.

## 6. What is only model-checked

Liveness (`ReadyRuns`, `CreationEnds`, `EveryCharTaken`, `HolderFinishes`, the fairness part of
`ImplementsMutex`): TLAPS does not prove properties under fairness. The walk of `list_search`,
whose end depends on what others do to the list meanwhile. The properties of threads
with pointers, of the keyboard driver and the files, and that the scan
finds every partition (`EveryPartitionReady`): no proof has been written.

## 7. What the properties leave open

`EveryCharTaken` is about queues without a writing thread: with one, a reader may sleep for
ever (section 4). The keyboard interrupt is the only caller of `ioq_putchar` in the repository.

`GoneOnlyIfLeft` and `CountsExactButForLeft` make an exception of what `sys_open` and `sys_stat`
leave open (`left`), and the first also of a directory that is removed while a program has it
open; without the exceptions they are `InMemoryIsOnDisk` and `CountsExact` (section 4).
`FileSystem` does not follow behaviours beyond a stale inode in memory, since what is found then
depends on old block contents: `GoneOnlyIfLeft` is about how such a state is reached, not about
what comes after.

In `Keyboard` every byte that the caps lock key sends counts as a press. The handler turns
`caps_lock_status` over for each (`keyboard.c:198`), so that a user who holds the key until it
repeats, and means one press, may get the other case. A character that meets a full queue is
dropped; `TypesAsWanted` is about those that are put in it.

The run `Volume` has a block bitmap of one sector. With more, `DiskAgrees` fails for the bit of a
table's block (section 4).

`Durable` and `NothingShared` are about crashes in `file_write` and `inode_release`, where the
order of the writes protects what is there; the code has no recovery, and elsewhere a crash
does harm (section 4). After a crash blocks may be lost, so `NothingLost` is about runs
without one. A sector is written as a whole or not at all.

## 8. Not modelled

* Calls of several threads interleaved in the file system. Nothing there is under a lock, so
  almost every property would fail for the same reason (`file.c:64`, `inode.c:81`); the useful
  model would be of a lock that the code does not have.
* `page_table_pte_remove`'s TLB flush (`memory.c:547`): what a stale entry does depends on when
  the processor drops it.
* What `create_page_dir` copies, the user address bitmap's creation, the registers of a new
  process: values computed once, for a thread that nobody knows yet.
* The sector writes of `sys_mkdir` and `sys_rmdir`; in `FileSystem` they are one step.
* A disk that reports errors (the driver panics) and failing allocations inside a call.
* `list_traversal`, `list_len`: they change nothing. `partition_info`, `identify_disk`'s text.
* A write of 0 bytes, which moves the position of an empty file to -1.
* System call entry, interrupt descriptor table, `kernel.S`: tables and register passing.
* Boot code, printing, strings: they run once, or have no state a property depends on.
