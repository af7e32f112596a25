# Kernel samples: TLA+ models, model checking and proofs

The repository is a set of kernel parts written in C and x86 assembly for a
teaching operating system: a scheduler, synchronisation primitives, a mailbox
with a keyboard driver on top of it, demand paging, a file system, and boot
code. The rest of the kernel (`kernel.c`, headers such as `common.h`, the USB
and SCSI drivers) is not part of it. This directory holds models of these parts,
the TLC runs that check them on small instances, and TLAPS proofs of the
safety properties of every part but the file system and of all four refinements.

## 1. The system

| part | source | state | operations |
|---|---|---|---|
| scheduler | `scheduler/scheduler.c` | `current_running`, each PCB's `state`, `next`, `previous`, head of each waiting list | `yield` `exit` `block` `unblock` `scheduler` `dispatch` |
| context switch | `scheduler/entry.S` | stacks, saved registers | `scheduler_entry` `start_process` `start_thread` |
| interrupt entries | `interrupts/entry.S` | `disable_count`, interrupt flag, two stacks and `nested_count` of each process, `syscall_return_val` | `irq0_entry` `syscall_entry` `scheduler_entry` `enter_critical` `leave_critical` `leave_critical_delayed` |
| locks, conditions | `sync/thread.c` | `l->status`, `l->waiting`, `c->waiting` | `lock_*`, `condition_*` |
| semaphore | `sync/thread.c` | `counter`, `waiting` | `semaphore_*` |
| barrier | `sync/thread.c` | `counter`, `reach`, `waiting` | `barrier_*` |
| spinlock version | `sync/thread_spinlock.c` | the same plus one spinlock word per object | the same on `test_and_set` |
| mailbox | `mailbox/mbox.c` | `used`, `count`, `head`, `tail`, `buffer`, a lock, two conditions | `mbox_open` `close` `stat` `recv` `send` |
| keyboard | `mailbox/keyboard.c` | `shift_status`, the mailbox | `keyboard_interrupt` and its handlers, `putchar`, `getchar` |
| paging | `paging/memory.c` | `memory_lock`, `allocated`, `memoryblocks`, page tables, images on the drive | `init_memory` `identity_map` `setup_page_table` `page_fault_handler` `get_memory` |
| file system | `filesystem/fs.c`, `block.c` | bitmaps, inode table, descriptors, `cwd`, the drive | the `fs_*` system calls, `fs_init`, `fs_mkfs` |
| boot | `boot/`, `fs_init` | the image, the drive's layout, memory from `OS_MEM_LOC` on | `parse_file`, `main` of `createimage`, `load`, finding the super block |

**Interaction.** There is one processor. The timer interrupt enters the
scheduler, so a thread can lose the processor anywhere outside a critical
section. `thread.c` gets atomicity from `enter_critical`/`leave_critical`
(interrupts off) and blocks through `block`/`unblock` of the scheduler;
`thread_spinlock.c` gets it from spinlocks instead. The mailbox is a monitor on
`thread.c`. The keyboard's interrupt handler is a sender of a mailbox and must
not wait; `getchar` keeps it out with a critical section. The page
fault handler holds `memory_lock` of `thread.c` with interrupts on, across drive
accesses. The file system has no lock at all. `createimage` writes the size of
the kernel into the boot block, the boot block reads it to load the kernel, and
`fs_init` reads it again to find the file system behind the kernel.

**What is hard.** Linked lists that share pointer fields (`next` belongs to the
ready list, then to a waiting list); functions whose atomicity ends in the
middle (`condition_wait`); a lock handed on without being opened; a barrier used
again before everybody has left; a circular buffer at full and empty; an
interrupt handler that uses a monitor; eviction racing the owner's writes; on-drive
structures that must agree with each other and with memory, also when the power
fails in the middle of a call; and long legal call sequences that end in an
illegal state.
`PROJECT.json` lists these hazards line by line with the properties that watch
them.

**What makes each part correct.**

- scheduler: the ready list is one circle of exactly the ready processes, no
  blocked process is lost, nobody starves;
- interrupt entries: a process goes on with its own registers, results and stacks,
  and every critical section is left;
- lock and conditions: one owner, the lock is neither lost nor doubled, nobody
  drops off a list, first come first served;
- semaphore: never more holders than units, and a waiter gets a returned unit (in
  this code, if it waits alone);
- barrier: nobody passes before all have arrived, nobody is left behind;
- mailbox: a FIFO of whole messages; nobody sleeps while there is something to do;
- keyboard: the handler never waits, no shift key is stuck, no reader sleeps on a
  character;
- paging: address spaces stay apart, no write lost, pinned frames stay, faults end;
- file system: bitmaps, inodes and directory tree agree, on the drive too; a power
  failure spares what the interrupted call does not work on;
- boot: the whole kernel is loaded, and the file system is where the next kernel
  looks for it.

## 2. Modules

| module | models | depends on |
|---|---|---|
| `Scheduler` | `scheduler.c` on its pointers | |
| `RoundRobin` | abstract: ready order and FIFO waiting lists as sequences | |
| `SchedulerRefinement` | `Scheduler` implements `RoundRobin` | both |
| `ContextSwitch` | `interrupts/entry.S`: timer interrupt, system calls, stacks, critical sections | |
| `Monitor` | lock and conditions of `thread.c`, waiting lists as the FIFOs of `RoundRobin` | `AbstractMonitor` |
| `SpinMonitor` | `thread_spinlock.c`, preempted at every access that no spinlock guards | `AbstractMonitor` |
| `AbstractMonitor` | abstract: owner, entry queue, sleepers; with or without an atomic wait | |
| `CountingQueue` | what the two have in common: a counter and its queue | |
| `Semaphore`, `Barrier` | the rest of `thread.c` | `CountingQueue` |
| `Mailbox` | `mbox.c` on `Monitor`'s lock and conditions | `Monitor`, `MessageQueue` |
| `MessageQueue` | abstract: FIFO of whole messages, one put or got per call, dropped only without users | |
| `Keyboard` | `keyboard.c` on `Mailbox`'s functions, and the critical sections of `entry.S` | `Mailbox` |
| `Paging` | `memory.c`: page tables, frames, eviction, fault handler | |
| `FileSystem` | `fs.c` on the block writes of `block.c` | |
| `Boot` | `createimage.c`, `bootblock.s`, and the layout of the drive in `fs.c` | |
| `QueueLemmas` | facts about waiting lists as sequences, and the least element of a set of numbers | |
| `SchedulerProofs` | proofs about the scheduler, and that it is a round robin | `SchedulerRefinement` |
| `MonitorProofs` | proofs about the monitor of `thread.c` and what is built on it: lock and conditions, mailbox, keyboard | `Keyboard` and below |
| `CountingQueueProofs` | proofs about semaphore and barrier | `Semaphore`, `Barrier` |
| `SpinMonitorProofs`, `ContextSwitchProofs`, `PagingProofs`, `BootProofs` | proofs about the module of that name | that module |
| `MC*` | instances for TLC | |

`PROJECT.json` maps every definition to the lines it stands for. Names of the
code are kept (`current_running`, `memoryblocks`, `resize_inode`, ...).
Definitions whose comment begins with "Mutant:" are plausible bugs in the code;
no specification uses them. They are there to show that each property can fail.

### Scheduler

One control point `pc`, because `scheduler.c` runs cooperatively or with
interrupts off. `block` is several steps (the walk along the list), `scheduler`
one, including `dispatch`. `Yield` stands both for the call and for the timer
interrupt (`irq0_entry`). The PCB list `kernel.c` builds is external and is the
initial state. `unblock` requires a non-empty list, as every caller tests it.

`LoneBlock` says whether the *only* ready process may call `block`. `scheduler`
does not provide for that: `next` of the process is itself, so its pointers are
cleared and it goes on running while `BLOCKED`. Runs and proofs take
`LoneBlock = FALSE`, the assumption that the kernel keeps another process ready;
with `TRUE` TLC breaks `RingInv` and, checked alone, `RunningReady`.

### ContextSwitch

The routines of `interrupts/entry.S` are functions on the record `cpu`: registers,
interrupt flag, `disable_count`, and of every process two stacks, the pointers
saved in its PCB and `nested_count`. A frame on a stack is what one group of pushes
leaves there. A routine that runs with interrupts off is one step; wherever they
are on the timer may come: in user code, in kernel code, and between the `sti` of
`leave_critical` and the `iret` of `irq0_entry`, where interrupts can pile up on
the user stack (`MaxNested` bounds this). Kernel code gives up the processor in one
critical section, as the functions of `thread.c` do, or in two, as `getchar` does
when it blocks in the mailbox.

`OwnContext` compares the registers with a history of what they should be: `%eax`
must be the result of the process's own last call although `syscall_return_val` is
one variable for all. `InterruptsBalanced` says that `leave_critical_delayed` never
meets the count it would halt the computer for.

The scheduler of this kernel, which is not the cooperative one of `scheduler/`, is
external: it picks any process, takes the saved stack pointer, and keeps
`disable_count` with the process, without which no process could give up the
processor in two sections. `system_call_helper` is taken from the comment at its
call. The end-of-interrupt command and `preempt_count` are left out.

### Monitor, AbstractMonitor, SpinMonitor

Every function of `thread.c` is one critical section and one step, except
`condition_wait`, whose `lock_release` leaves the critical section before
`block` enters the next: the location "unlocked". The abstract monitor has a
parameter for that: `Monitor` implements it with `AtomicWait = FALSE` only,
`SpinMonitor` with `AtomicWait = TRUE`, because there the condition's spinlock
is held across the release. `condition_signal` and `condition_broadcast` may be
called with or without the lock. `block(q, spinlock)` of the spinlock version is
not in the repository and is taken from its comment: it queues the caller and
opens the spinlock in one step. In `SpinMonitor` every access to shared memory is a
step, except that a test of `status` or of a queue and the assignment it decides are
one: both are made with the object's spinlock held, and `SpinExclusion` shows that
nobody else has it then.

### Semaphore and Barrier

Both are single critical sections. The users of a semaphore take a unit and give
it back. `semaphore_up` wakes a waiter only when the counter has come back to zero
or more: with two threads queued for one unit, the unit is given back, nobody is
woken, and both wait for ever. `LoneWaiterServed` states what remains, that a
thread which waits alone is served. Users of a barrier come back `MaxRounds` times; a woken thread leaves
in a step of its own, so that fast threads return to the barrier before slow
ones have left.

### Mailbox

Every function is split where a thread can be preempted: acquiring the lock, the
body, each broadcast, the resets in `mbox_close`, releasing. A message is a
sequence of bytes, in the buffer preceded by one header cell, which stands for
the four bytes of its size. The wrap-around of header and body is modelled.
`Offset`, `Contents` and `Stored` read the buffer back, message by message, as
recursive functions.
Only opened mailboxes are used, which the code leaves to its callers.

`OpenCloseRace` says whether opening and closing may overlap. The last `mbox_close`
re-initialises the lock it holds; with `TRUE` a thread that opens the mailbox
at that moment is inside together with the closer: TLC breaks
`ImplementsMessageQueue` in the run `mailbox`, and `MutualExclusion` of `Monitor` if
that is checked there. What is said about the mailbox is checked and proved with
`FALSE`. It has to be: copying a message and moving `head` or `tail` is one step
(`Send`, `Recv`), which stands for the loops of the code only while the lock keeps
others out.

`MessageQueue` is what the mailbox implements: the users, what each has still to do,
and the queue. A user's call to send puts one message in, a call to receive takes the
oldest out, and the queue is emptied only when there is no user (`Users` and `Pending`
of `Mailbox` are the mapping). So no message is lost, doubled or reordered.

### Keyboard

`Keyboard` extends `Mailbox` by the keys, the scan codes in the controller, the
interrupt handler as one more thread, and the variable `off`: who runs with
interrupts off. While it is set nobody else takes a step. `getchar` and the
handler are sequences of the same actions of `Mailbox` that ordinary senders and
receivers take, so what the critical section of `getchar` adds is seen by
comparison: without it (mutant `StepInterruptible`) a process sleeps on with a
character in the mailbox, which is the fault of the run `mailbox_lost_wakeup`.

A process that blocks inside its critical section must let interrupts in again,
and have them off when it comes back. `entry.S` has one `disable_count` and does
not do this itself: as in `ContextSwitch`, it is assumed that the kernel keeps the
count of each process across `scheduler_entry`.

The prefix `0xe0` is looked for after bit 7 has been masked off, so it is never
found: it counts as the release of a key that is not in the table, and the two
Control keys (and Alt keys) share a bit. Releasing one of two that are held
clears it. `ShiftFollowsKeys` says what remains true.

`KeyboardSetup` says which of the mailbox's threads is the handler and that it is
the only sender; it is evaluated for the run and a hypothesis of the theorem.

### Paging

`init_memory` and `identity_map` run before scheduling starts and are functions
that build the kernel's directory and tables, the initial state. Then processes
are created, run, fault and exit. `memory_lock` is the sequence of its owner and
those queued for it, which is what `AbstractMonitor` promises. `get_memory` is
split at every point where the owner of the page to be evicted can run: choosing
the frame and reading its dirty bit, clearing the entry, writing back, taking the
frame. `setup_page_table` asks for one frame after the other and evicts pages of
others on its way. When `get_memory` finds every frame pinned, the caller releases
the lock and exits, also when it is creating another process.

Addresses count sectors, so that the alignment to a page and the shorter last
page of an image are there. A sector holds one of two values, the zero of `bzero`
and the first content of the image. A frame has a content as page and one as
table.

Two weaknesses of the code are in the model, and the properties say how far they
reach. `get_memory` reads the dirty bit before it clears the entry, interrupts
on: a write in between is lost. `lost` records these writes, and `NoLostWrite`
says that no other is. `create_table` returns the old directory entry with its
flags when the table exists, so what is written to "entry i" of it lies across
two other entries; `AddressSpaces` leaves out the regions of 4 MB in which
`identity_map` does that (`SoundRegions`) and shows that no other is affected.

Assumed (`PagingAssumption`, and the constants of the run): images, stack, kernel
and devices are in different regions of 4 MB, images do not share sectors of the
drive (the comment at `memory.c:5` says so), a process touches its image, its
stack and what it has no right to. The handler does not test that a faulting
address belongs to the process; such addresses are not modelled. `BootedSound`
states what `init_memory` and `identity_map` leave: the kernel's frames are pinned,
its tables are in them, and in each sound region a page is open to processes exactly
if it is one of the screen or of a device. TLC evaluates it for the instance.

### FileSystem

A state `fs` of memory and drive, and every function of `fs.c` as an operator
from state to state. A call is one step: `fs.c` has no lock, and nothing in it
would survive two calls at once. `fs.log` collects the drive after each block
write of the call, in the order of the code, and a call may end in a power
failure after any of them (`Ends`); `failure` is then what is on the drive.
`PowerFailureSpares` says that this drive has every file that the whole call
would not have changed. No more can be said: `fs_init` looks at the first block of
each inode only, the inode and bitmap blocks are written one by one, and a file
that was being created or removed may be half there after a restart. So the model
ends there and does not start again from such a drive. Block contents are cells; a cell is a directory
entry or a unit of file data, and `db_read` and `db_write` do not tell them
apart. Names are model values with a relation `Longer`, since `name2inode_f`
compares only as many characters as the name it looks for has and so takes "ab"
for "a". `Reboot` is `fs_init` on a drive that has a file system, between any two
calls.

`fs.c` has several cases in which it leaves its data inconsistent. In order to
see what holds *otherwise*, each case is recorded in `fs.met` when a call meets
it, and a call may end only if it has met nothing outside the constant `Faults`.
The run `filesystem` has `Faults = {"notdir"}`, so it would not notice what the
other cases do. Each of them breaks a property of that very run when it is put
into `Faults` in `MCFileSystem.cfg`:

| fault | code | TLC then breaks |
|---|---|---|
| `shrink` | `fs.c:126-128`: blocks that are cut off stay in `direct[]` | `BlocksExact` |
| `halffull` | `fs.c:116-125`: drive full after the first of several new blocks, which are kept although the comment says "Return without allocating anything" | `Saved` |
| `stale` | `fs.c:168-177`: inode freed while open or somebody's `cwd` (`open_count` is not looked at, and is 0 again when the inode is created anew) | `BlocksExact` |
| `self`, with `stale` | `fs.c:712-727`: `fs_unlink` of `.` or `..`, which `fs_rmdir` refuses | `TreeExact` |
| `stray` | `fs.c:99`: index steps by `BLOCK_SIZE`, reads behind the inode at boot | `TreeExact`, if what is there is unlucky |
| `dirwrite` | `fs.c:483-523`: a directory opened for writing | `TreeExact` |
| `notdir` | `fs.c:870-925`: a path through a file whose cells are read as entries | nothing: it is allowed, but a file with old entries in its blocks takes more calls than the bound |

`open_count` is kept as the code keeps it, but no property is stated of it: nothing
in `fs.c` reads it, and its one purpose, to tell that a file is in use, is what
`stale` is about.

One more case needs no constant: `fs_lseek` behind the end of a file resizes it to
`offset` instead of the new position (`fs.c:620`), and so may cut it (and is then
also `shrink` if a block goes) or leave it too short. The properties of the run hold nevertheless;
`OthersUntouched` allows any change to a file that is open for writing.

Not modelled: a full descriptor table (`fs_open` then writes behind it), errors
of the drive (`fs.c` ignores them), `fs_stat`, and a power failure inside
`fs_init` or `fs_mkfs`.

### Boot

From two ELF files to a mounted file system, several times over on one drive. A
file is a sequence of cells (a header, a unit of code or data, the bytes of
`os_size`); `parse_file` reads it as the code does, `p_memsz` cells a segment and
zeros behind the end. `Image` pads and patches the image, `Load` reads `%al`
sectors, `fs_init` computes the super block from `os_size` and makes a file
system if there is none. The layout behind it (`ino2blk`, `idx2blk`, the entries
`get_free_entry` can return) has the numbers of the code.

Assumed: a file has the layout that the comment at `createimage.c:149-157`
describes, a program header in front of each segment (a general ELF file has them
together and uses `p_offset`, which `parse_file` does not read), and no segment has
more in its file than in memory (`IsFile`); a sector has more than one cell, so a sector of the image is never taken
for a super block (in the code three numbers in it would have to match, a chance
the comment at `fs.c:398` takes); and `LayoutAssumption`, two facts about the constants of
`fs.h`: the inodes that `get_free_entry` can return end before the last block of
inodes, and their data blocks within `FS_BLOCKS`.

`KernelComplete` takes what the code leaves to its user as a condition: fewer
sectors than a byte counts (4 in the run stand for 256), and a file in which only
the last segment is shorter than its memory. `FileSystemWhole` and
`UpdateKeepsFiles` except the case in which a size comes back after a larger kernel
has been there: the sector in front of the old bitmaps may still hold the old super
block, and `fs_init` looks no further. `idx2blk` begins in the last block of
inodes; `DriveDisjoint` shows that this does no harm, because `get_free_entry` never
gets to the inodes there.

## 3. Runs

| run | instance | what it shows |
|---|---|---|
| `scheduler` | 5 PCBs, 2 waiting lists | ready list one circle (`RingInv`), waiting lists whole and disjoint (`QueueInv`), only ready processes run (`RunningReady`), refinement of `RoundRobin`, `NoStarvation` |
| `monitor` | 4 threads, 2 conditions | `MutualExclusion`, `LockedIffHeld`, `QueuesMatch`, refinement of the monitor with a non-atomic wait, `LockNotStarved` |
| `spin_monitor` | 3 threads, 2 conditions | spinlocks exclude (`SpinExclusion`, which implies the assertion in `spinlock_release`), `NoMissedWaiter`, refinement of the monitor with an atomic wait |
| `semaphore` | 5 threads, 2 units | `UnitsBound`, `LoneWaiterServed` |
| `barrier` | 4 threads, 3 rounds | `NobodyPassesEarly`, `EverybodyPasses` |
| `mailbox` | 1 sender, 2 receivers, 5 cells, messages of 2 and 3 cells | `SpaceExact`, `UsedMatches`, refinement of `MessageQueue` |
| `mailbox_lost_wakeup` | the same | **violation** of `NoSleepWithData` |
| `context_switch` | 2 processes and a thread, 2 arguments, stacks of 3 frames before another interrupt | `OwnContext`, `InterruptsBalanced` |
| `keyboard` | 2 processes, room for 2 characters, 4 keys, 1 scan code pending | `InterruptNeverBlocks`, `ShiftFollowsKeys`, `CharacterServed` |
| `paging` | a thread and 3 processes, 17 frames, tables of 8 entries, pages of 2 sectors, 3 devices | `AddressSpaces`, `NoLostWrite`, `PinnedStay`, `FaultServed` |
| `filesystem` | 3 inodes, 3 blocks of 4 cells, 2 blocks per inode, 2 processes, 6 calls | `BlocksExact`, `SizeMatchesBlocks`, `TreeExact`, `Saved`, `PowerFailureSpares`, `OthersUntouched` |
| `boot` | 3 boot blocks, 7 kernels of 0 to 4 sectors, 4 builds | `KernelComplete`, `DriveDisjoint`, `FileSystemWhole`, `UpdateKeepsFiles` |

**Why the bounds are enough.** Removal from and insertion into a doubly linked
circle differ for one, two and three members; five PCBs give that for the ready
list while both waiting lists have members in the middle. Four threads can be
owner, queued, waiting and woken at once. For the spinlock version three are
enough for one in each of two nested sections and one between. Two processes and a
thread can be in user code, in a system call and in the kernel at once; a stack of
three frames holds two interrupts that met before `iret`. Three rounds at a
barrier make a fast thread overlap with a slow one of the round before. Messages
of two and three cells in a buffer of five fill it exactly and put header and
body at every offset. Two characters fill the keyboard's mailbox, so the handler
meets it empty, half full and full, with both processes asleep, one of them woken
or one inside; the keys are one with a character, a pair that shares a bit and
Caps Lock. In `paging` the kernel and two processes leave one frame for their
pages, so each evicts the other, and the third process runs out of frames while it
is set up; processes are created in one order (`Loads`). The images end inside and
at the end of a page and lie next to each other on the drive; two devices share a
region and a third has two pages in another. The kernels have the sizes around a
multiple of a sector and one that does not fit in `%al`; four builds let a size go
and come back. Three inodes and three blocks run out in five calls; six allow to create,
fill, link, remove and reboot in most orders, and a directory and a file to have
two blocks. Counters that grow for ever are bounded by `MaxRounds`, `MaxCalls`
and `MaxLinks` (`fs_rmdir` does not take back the link that `..` is).
Deadlock is checked for the scheduler, which halts in a loop, and for
`ContextSwitch`. The other systems
may stop: all threads may wait, all processes may have exited, or a bound is
reached.

**Fairness.**

- `Scheduler`: weak fairness of the kernel's own steps and of `Yield`: the
  processor goes on, and the timer interrupt makes a running process yield.
- `Monitor`: weak fairness of `Sleep`, `Reacquire` and of leaving the monitor.
  The scheduler is shown to starve nobody, and sections under a lock are finite.
- `Barrier`: every ready thread runs and comes to the barrier.
- `Semaphore`: every holder gives its unit back.
- `Keyboard`: weak fairness of the handler, which runs with interrupts off, and
  strong fairness of a process in `getchar`, which is ready again and again but
  stopped by every interrupt: `NoStarvation` of the scheduler dispatches it.
- `Paging`: the owner of `memory_lock` goes on and the drive answers; nothing else
  is assumed, the queue of the lock does the rest.
- `ContextSwitch`, `SpinMonitor`, `Mailbox`, `FileSystem`, `Boot`: safety only. Nothing bounds how often a
  thread loses the race for a spinlock.

**Where the code disagrees with what it says** (`findings`): `condition_wait` is
not atomic, so a receiver can miss the broadcast for a message and sleep while it
lies in the mailbox (`thread.c:64`).

What follows is in the passing models, and their properties say what holds
besides:

- `semaphore_up` wakes nobody while two threads are queued for one unit
  (`thread.c:102`; `LoneWaiterServed`).
- `get_memory` loses a write that comes between reading the dirty bit and clearing
  the entry (`memory.c:139`; the history variable `lost` of `Paging`).
- `create_table` returns an entry with its flags as the address of a table
  (`memory.c:167-172`; `SoundRegions`).
- `fs_lseek` enlarges a file to the wrong size (`fs.c:620`; `lseek`).
- The scan-code prefix is never recognised (`keyboard.c:250-253`; `Handler`).
- `parse_file` reads `p_memsz` bytes where the file has `p_filesz`, and the boot
  block uses one byte of `os_size` (`createimage.c:208`, `bootblock.s:61`).
- A stale super block in front of overwritten bitmaps is taken for a file system
  (`fs.c:401`; `returned` of `Boot`).

And these the passing runs leave out by a constant, whose other value shows what
they break: a lone process that blocks (`LoneBlock`), opening a mailbox while its
last user closes it (`OpenCloseRace`), and the table of `Faults` in `FileSystem`.

## 4. Proofs

All proofs are for arbitrary constants, under the named assumptions on them that the
modules state.

**`SchedulerProofs`**, under `LoneBlock = FALSE`, with `N` any positive number and
`Queues` any set: `TypeCorrect`, `ReadyListIsOneCircle` (`RingInv`),
`WaitingListsAreDisjoint` (`QueueInv`), `OnlyReadyProcessesRun` (`RunningReady`).
The inductive invariant is `IInv == TypeOK /\ RingInv /\ QueueInv /\ ControlInv`.
None of its parts is inductive alone: taking a process out of the ready list
writes `next` fields, and `QueueInv` is needed to know that they are no waiter's;
appending to a waiting list writes the `next` of its last member, and `RingInv`
is needed to know that it is not in the circle; `ControlInv` says which of the
two lists current_running is on at each control point. That the circle is *one*
is stated without counting: no proper non-empty part of it is closed under
`next`. So insertion and removal are proved by adding the process to, or taking
it from, a closed part.

`RefinesRoundRobin` (`ImplementsRoundRobin`): the sequences of `RoundRobin` are the
walks along the pointers, recursive functions of the state. `ChainInv` says that there
are sequences `r` and `qs` without repetitions along which the pointers lead
(`Listed`, `IsOrder`); each step is shown to change them as the abstract step does,
and then the recursive walk is identified with the explicit sequence, by looking at the
first place where they would differ. `IInv` gives what the walk cannot: that it ends,
and that a step of one list leaves the others alone.

**`QueueLemmas`** has the facts about waiting lists that the proofs of all
primitives rest on: what `ToSet` and `IsInjective` are after `Append`, after
`Tail`, and for the empty list; the length of a list without repetition is the
number of its members; a list with one member. `LeastElement`, by well-founded
induction, is what all inductions over data below come from.

**`MonitorProofs`**, first for the lock, any threads and conditions: `TypeCorrect`,
`LockExcludes` (`MutualExclusion`), `LockIsNotLost` (`LockedIffHeld`),
`NoWaiterIsDropped` (`QueuesMatch`). `IInv` joins what concerns the lock
(`LockInv`) and what concerns the conditions (`CondInv`). Mutual exclusion alone
is not inductive: `lock_release` makes the head of the queue an owner, so one has
to know that it is blocked there and nowhere else.

`RefinesMonitor` (`ImplementsMonitor`): every step of `Monitor` is a step of
`AbstractMonitor` with `AtomicWait = FALSE`. The abstract owner is mapped to *the*
thread inside (`Owner`, a `CHOOSE`), which is a state function of the model only
because exclusion has been proved (`OwnerIsInside`); then one lemma per action.

Then for the mailbox, any threads, messages and buffer. Under
`OpenCloseRace = FALSE`: `UsersAreCounted` (`UsedMatches`) and
`ResetKeepsExclusion`, that `MutualExclusion` of the lock survives in the mailbox.
The second does not follow from the first part, because the last `mbox_close`
initialises the lock while it has it, which breaks `LockInv`. `MInv` has the case
`Resetting` for this: one thread is past `lock_init`, all others are outside, and
there is no user who could call anything. That there is none is the use count, so
the two theorems need one invariant. The hypothesis is needed: without it TLC
finds two threads inside.

`SpaceIsExact` (`SpaceExact`) and `MailboxIsQueue` (`ImplementsMessageQueue`) have the
same hypothesis. The second uses it: that messages are dropped only when there is no
user is `MInv` again. The first would go through without it in the model, but there
`Send` and `Recv` would no longer stand for the loops of the code. What is in the buffer is defined by recursion over it; the
invariant `RingInv` says instead that there *are* messages, and a distance from the
tail for each, such that they lie one behind the other, none over another, and end at
the head (`Ring`). Every step keeps that, and it determines what the recursive
functions compute: if they differed there would be a first message for which they do.

For the keyboard: `HandlerNeverWaits` (`InterruptNeverBlocks`) under `KeyboardSetup`.
At most one of the handler and the processes runs with interrupts off, and only that
one can have the lock or be on its way from it to a waiting list (`OwnerInv`); so
whoever comes finds the lock open, and between `mbox_stat` and `mbox_send` nobody
sends (`HandlerInv`). `ShiftIsExact` (`ShiftFollowsKeys`): the scan codes not read yet
decide, the last one of a bit if there is one and the bit itself if not (`ShiftInv`).

**`CountingQueueProofs`**, for any finite set of threads. Semaphore, any number of
units: `NoUnitGivenTwice` (`UnitsBound`) and `CounterAccounts` (`Accounting`).
`semaphore_down` decides by the sign of the counter, so the bound follows from
`Accounting`, which says what the counter means: the units minus those inside
minus those queued. The proof is counting: each step moves one thread between
sets whose cardinalities are in the equation.

Barrier, any number of rounds: `BarrierHolds` (`NobodyPassesEarly`) and
`CounterCounts` (`CountMatches`).
The barrier does not know rounds; the invariant does. `RoundInv` says that there
is one round `r` that every thread has reached and that exactly the blocked
threads have begun the next, so at most two rounds overlap; `CallsInv` relates
arrivals and returns. When the counter reaches `n`, `CountMatches` makes
the blocked threads and the caller all the threads, and `r` advances.

**`SpinMonitorProofs`**, for any threads and conditions: `SpinlocksExclude`
(`SpinExclusion`), `LockExcludes` (`MutualExclusion`), `NoWaiterIsMissed`
(`NoMissedWaiter`). `IInv` is both exclusions, the two kinds of queues
(`EntryInv`, `SleepInv`) and `ArgInv`, which condition variable a thread works on
at each statement. Exclusion of the spinlocks is also what justifies the model:
under it a test of `status` and the assignment it decides are one step. It needs
`ArgInv`, since the statement a thread is at does not say which spinlock it has.

`RefinesAtomicMonitor` (`ImplementsAtomicMonitor`): the spinlock version is
`AbstractMonitor` with `AtomicWait = TRUE`. A thread that has released the lock in
`condition_wait` counts as asleep although it is not queued yet. That is right
because it holds the spinlock of the condition: there is one such thread at most,
and it will be the last of the queue (`SleepFact`). Five kinds of steps are
abstract steps, the others stutter (`OtherStepsStutter`).

**`ContextSwitchProofs`**, for any processes, threads and arguments and any number
of interrupts that meet before `iret`: `ContextIsKept` (`OwnContext`) and
`SectionsBalance` (`InterruptsBalanced`). The invariant says for every place of the
entries what is on the two stacks of a process that is there (`Context`, in user
or in kernel mode), and that a process which does not run has this on its stacks
below the frame of `scheduler_entry` (`Suspended`) or has never run (`Fresh`). The
interrupts that pile up before `iret` are a run of frames of which the lowest goes
back to the code and the others to the `iret` (`Interrupts`); it grows and shrinks
by one frame. `ContextIsOwn` is the reason why the processes do not disturb each
other: all this depends on the stacks and the PCB of the process only. `Sections`
gives the number of critical sections at each place, so the count that
`leave_critical_delayed` tests is known.

**`PagingProofs`**, for any processes, frames, images and evictions:
`PinnedFramesStay` (`PinnedStay`), `SpacesApart` (`AddressSpaces`) and `WritesKept`
(`NoLostWrite`). Nothing in the code says which frame `get_memory` gave to which
request; the invariant finds it from the entries that lead there (`Got`). These frames
are pinned and all different (`GotInv`), and what leads to them is not written again
(`DirectoryInv`, `StackInv`); the kernel's stay what they were (`KernelInv`). A page
that is present is in an unpinned frame that `memoryblocks` knows under its address
(`ImageInv`), and the entry that is found for a frame to be evicted is the one that
leads to it (`PageInv`); both are broken between two steps of `get_memory`, and
`TransitInv` says what its owner of `memory_lock` can rely on meanwhile. `DataInv` and
`ReadInv` relate the last write to frame and drive. The hypothesis of the three
theorems is `BootedSound`: `init_memory` and `identity_map` are folds over regions and
devices, which the provers do not unfold, so what they leave is evaluated by TLC for
the instance and taken from there. It is a formula on constants; everything that
happens after the start is proved.

**`BootProofs`**, for any files, sizes and number of builds: `KernelIsComplete`
(`KernelComplete`), `FileSystemIsWhole` (`FileSystemWhole`), `FilesAreKept`
(`UpdateKeepsFiles`) and `AreasAreDisjoint` (`DriveDisjoint`). Two thirds are about the
loops: `parse_file` turns a file into the segments as they were linked (`ParsedData`),
the image holds them from the second sector on (`ImageCells`, `SectorCells`), and as many
sectors as the boot block reads are the kernel and zeros (`Loaded`). Each loop is a
function on its positions; `Positions` is induction over those and `Turns` says that
the recursive definition of such a function has a solution. `IInv` then says that the
sectors behind the boot block are those of the installed kernel (`KernelInv`), and
`SuperInv` where there can be super blocks: only where the kernel on the drive or an
earlier one has or had it (`Places`), and the one of the kernel on the drive has its
file system behind it as long as no size has come back. Installing a kernel overwrites
sectors up to its size, and `fs_mkfs` writes two sectors further on, so neither
disturbs the other. `DriveDisjoint` is arithmetic from `LayoutAssumption`: an entry
`get_free_entry` can return is not in the last block of inodes (`InodeBlock`).

**Only model-checked.**

- All liveness: the prover has no rules for fairness and `ENABLED`.
- `FileSystem`: a `RECURSIVE` operator (`remove_directory_entry` empties the
  directories below) puts the module out of the prover's reach as it stands; see the
  plan for what a proof would need.
- `BootedSound`, the tables that `identity_map` builds, for the instance of the run.

## 5. Not modelled

- Registers and stacks of the cooperative kernel (`scheduler/entry.S`): its
  `kernel_entry` and `scheduler_entry` are straight-line code that nothing
  interrupts. Those of the preemptive kernel are in `ContextSwitch`.
- The exception stubs; `fake_irq7_entry`, which only halts.
- Times and statistics printed by the scheduler.
- Two file system calls at once: `fs.c` has no lock and would not survive it.
- A restart from the drive that a power failure inside a call has left, and errors
  of the drive.
- A fault at an address outside the image of a process.
- In `createimage`: the options, messages, a file `image` that cannot be created.

## 6. Plan

Done: all parts but the cooperative context switch, in the order scheduler, lock and
conditions, spinlock version, semaphore, barrier, mailbox, paging, file system,
keyboard, boot, interrupt entries. Proved: the safety properties the runs check of
all of these but the file system, and the four refinements.

Left, in this order:

1. The file system. `remove_directory_entry` has to become a recursive function on
   the depth of the tree. Then one invariant is needed for all of it: `BlocksExact`
   rests on `TreeExact`, because `free_inode` frees the blocks of whatever inode a
   directory entry names, and `TreeExact` on `BlocksExact`, because a directory whose
   block belonged to a file as well could hold anything. Below the directories,
   `resize_inode`, `create_inode` and `free_inode` keep `BlocksExact` for any inode
   that is in use, which is where a proof would begin.
2. `BootedSound` of `Paging` for any devices and sizes: `identity_map` as a loop of
   which each turn keeps the tables sound, with the argument of `BootProofs` about
   loops.
