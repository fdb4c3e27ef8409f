# Verification of the xv6 audio player

This directory holds TLA+ specifications of the system in `../src`: xv6 for
RISC-V with an AC97 sound card driver and a command-line audio player. The
specifications are checked with TLC on small instances, and the most important
properties are proved with TLAPS for instances of every size.

## The system

**Sound path.** The player (`user/aplay.c`, `user/aplaycore.c`) has two
processes. The *controller* reads commands: open, pause, resume, speed, volume,
stop, quit. For each file it opens it forks a *reader*, which reads the file in
chunks of 2048 bytes and passes them to the kernel with `writeDecodedAudio`.
The driver (`kernel/sound_card.c`, `kernel/pci.c`) copies them to one of three
*sound nodes*. A full node is linked to the end of the queue
`sound_queue_head`. The card plays the node at the head of the queue through a
list of 32 DMA descriptors that all point into it. At the end of the list the
card halts and interrupts; `soundintr` marks the node free, takes it off the
queue and points the descriptors at the next. A reader that finds no free node
spins in the kernel.

Shared state: `sound_buffer[].flag/next/data`, `buffer_index`, `used_size`,
`sound_queue_head`, the descriptors and the card's registers. Only the queue is
under `sound_lock`. `flag` is read by the writer and written by the handler
with no common lock; `clearSoundCardBuffer` and `setPlay` take no lock at all.

**File system.** System calls change blocks in the buffer cache between
`begin_op` and `end_op` (`kernel/log.c`). The last call to end commits: it
copies the changed blocks to the log, writes the log header, copies the blocks
to their homes and erases the header. After a crash `initlog` replays the log.

Below the log are the buffer cache (`bio.c`) with its sleep locks and the
virtio driver, above it inodes and directories (`fs.c`), the file table
(`file.c`) and the system calls (`sysfile.c`). `mkfs` builds the first image.

**The rest of the kernel** is xv6: processes with sleep and wakeup, pipes,
console and UART, and physical and virtual memory. User programs reach it
through descriptors: the shell builds pipelines of processes, and the libraries
have their own heap, strings and numbers.

### Hard behaviours

* The writer and the interrupt handler work on the same nodes; correctness on
  one hart rests on where interrupts are off, and is lost on several.
* The exact boundary of a node: the fit test, the fill and the rest must agree.
* `kill` is asynchronous: a killed reader finishes the call it is in, after the
  controller has cleared the driver under it, and beside the next reader.
* Pause and resume read the control register and write it later.
* Crashes between any two disk writes of a commit or of a recovery.
* Processes that exit, wait, fork and are killed at the same time, under two
  kinds of locks and with wakeups that must not be lost.
* Descriptors, files and pipes that are shared by processes and closed in any
  order, with failures half way through `pipe`.
* Inodes that are found, given up and locked again while others unlink them.
* Memory that runs out at any page of `fork`, `exec` or `sbrk`.
* Counters and ring indices that wrap, in pipes, console, clock and disk driver.
* Admission of system calls to the log by reserved space, with sleepers that
  several different events must wake.

`PROJECT.json` lists the hazards one by one, with the line where each bites and
the properties that cover it.

## Modules

| Module | What it is |
| --- | --- |
| `SoundCard` | The driver and the card, with any number of writers, one or several harts |
| `SoundCardProofs` | Types, linked queue, no overwrite, copies in bounds |
| `StreamProofs` | No panic, bytes played in order, stable descriptors |
| `AudioPlayer` | The player on top of `SoundCard`: commands, readers, kill |
| `Process` | fork, exit, wait, kill, sleep, wakeup and the scheduler on several harts |
| `ProcessInv`, `ProcessProofs` | Its inductive invariant; stacks, wakeups, parents, `sched` |
| `AtomicDisk` | What the log promises: a disk that is updated atomically |
| `Log` | The redo log, with commits, crashes and recovery |
| `MCLog` | Symmetry of blocks and processes for TLC |
| `LogProofs` | Types, commits run alone, room in the log; the log implements `AtomicDisk` |
| `Files`, `Fifo` | Descriptors, the file table, pipes; what a pipe promises |
| `FilesInv`, `FilesProofs` | Counts of files and ends of pipes are exact, for any programs |
| `Shell` | The shell's parser and the processes of a command, over `Files` |
| `Console`, `LineEditor` | Console and UART; what the line input promises |
| `Clock` | `sleep` and the tick counter |
| `UserCopy` | `copyin`, `copyout`, `copyinstr` |
| `UserHeap`, `Library`, `Filters` | `malloc` and `free`; strings and numbers; `grep` and `wc` |
| `AudioControl` | WAV header, volume and sample rate |
| `Fs` | Inode table, directories, path names and the calls on them |
| `FileData` | Blocks and contents of files, `readi`, `writei`, offsets |
| `MkFs` | The image builder, over the definitions of `FileData` |
| `Memory` | Physical pages, page tables, `fork`, `exec`, `sbrk`, `exit` |
| `DiskPort` | What the disk promises to the buffer cache |
| `BufferCache` | The buffer cache and sleep locks, over `DiskPort` |
| `CacheProofs` | Blocks are coherent, `bget` finds a buffer |
| `VirtioDisk` | The virtio driver, which implements `DiskPort` |
| `MCFs`, `MCUserland`, `MCStorage` | Instances of the modules above for TLC |

### SoundCard

Variables have the names of the C variables. `data[n]` is the contents of node
`n`, byte by byte; a byte is `<<p, k>>`, the k-th byte process `p` writes, so
the properties can tell whose byte is where. `pc[p]` is the place of process
`p` in the driver and `rd`, `size`, `ra`, `at`, `cur`, `nd`, `tail`, `idx` are
its locals. `queue` and `out` are history variables: what was sent, with the
contents at that time, and what was played.

`sys_writeDecodedAudio` is split wherever another process or the handler can
come between two accesses to shared state:

| Action | Code |
| --- | --- |
| `WriteCall` | size check and `copyin` |
| `ZeroNode` | `memset` of the current node when it is new |
| `TestFit` | the fit test; reads `used_size` and `buffer_index` |
| `CopyChunk`, `EndCopy` | the chunk fits: `memmove`, then `flag` and `used_size` |
| `FillNode`, `SendNode` | it does not: fill up the node, mark it sent |
| `AcquireAdd`, `WalkStep`, `LinkNode` | `add_sound_node` and `play` |
| `Scan`, `TakeNode`, `EndTake` | the search for a free node |
| `FinishCall` | `sys_finishWriteAudio` |
| `Claim`, `IntrEnter`, `IntrUnlink`, `IntrRestart` | `devintr`, `soundintr` |
| `SetPlay`, `SetPlayWrite` | the read and the write of `pause` and `resume` |
| `CardStep` | the card plays a byte (external) |

The compiler loads `used_size` once for the test and the copy (`-O`), hence the
local `at`. `MayRun` and `MayInterrupt` say who may step: with one hart nothing
else runs in the handler or while the lock is held, because both run with
interrupts off. The card is modelled from how `pci.c` uses it: writing 5 to the
control register runs it; it halts after the last descriptor; a run after that
starts the list again; a pause keeps the position; a reset forgets the list and
any pending interrupt. `Init` is the driver after `clearSoundCardBuffer`, which
the player calls before anything else.

### AudioPlayer

A command is a sequence `todo` of steps; each step is a system call, a part of
one that can be interleaved, or an assignment to `apinfo`. Readers take all
their steps from `SoundCard`. A reader that is killed goes on until its call
returns (`Die`). A process slot is used once, because nobody waits for readers.

### Process

`state`, `pid`, `parent`, `chan` and `killed` are the fields of `proc[i]`;
`lock[i]` and `wait_lock` name the process that holds the lock. `cpus[i]`
counts the harts on the kernel stack of process `i`, which is what lets
`OneStack` say that a stack is never used twice. A loop over the table is one
step per slot, so everything else can happen between two slots.

| Action | Code |
| --- | --- |
| `scheduler`, `sched`, `yield`, `Resume` | the switch of processes; `Resume` is what follows `swtch` in `yield`, `sleep` and `forkret` |
| `allocproc`, `ForkCopy`, `ForkParent`, `ForkReady` | `fork`: slot, copy, parent, runnable; the first two may fail |
| `exit`, `reparent`, `ReparentWakes`, `ExitWakes`, `ExitZombie`, `ExitLetGo` | `exit` up to `sched` |
| `wait`, `WaitScan`, `Reap`, `WaitDecide` | `wait`; `Reap` may fail in `copyout` |
| `SleepLock`, `SleepRelease`, `sleep` | `sleep(p, &wait_lock)` |
| `kill` | `kill`, one slot |
| `Trap`, `InitProgram`, `Program` | the killed check of `usertrap`; `user/init.c`; any other program |

`kill` is called with pids of processes other than init, whose end is the
kernel's own panic. The files that `exit` closes and `fork` duplicates are not
part of it.

### Log

`disk`, `hdr` and `logged` survive a crash; everything else is lost. A block's
contents are the serial number of the write that made them. `step` and `tail`
are the program counter of commit or recovery, one step per disk write.
`AtomicDisk` has two disks: `volatile`, as system calls see it, and `stable`,
as a crash leaves it. The refinement maps `stable` to what recovery would make
of the disk (`Recovered`) and `volatile` to the cache, or to `Recovered` while
the machine boots.

### Files and Shell

`ofile` holds the descriptors, `ref`, `kind` and `pipe` the file table,
`nread`, `nwrite`, `data`, `readopen` and `writeopen` the pipes. `at[p]` is the
place of a process in a call, `closing[p]` the files it has still to close. A
section under `ftable.lock` or a pipe's lock is one step; between `fileclose`
and `pipeclose`, and between the turns of `piperead` and `pipewrite`, others
run. A process is a list of calls (`script`) that `Shell` makes from a command
as `runcmd` does, with forks inside; the program `any` calls `pipe` where it
fails after the page was taken, then makes calls in any order. A pipe's bytes are the values of its counter, so a lost or doubled byte
shows. `ParserRight` compares `parsecmd` with an ambiguous grammar,
`OutputRight` what a line has written with what its tree means. `Fifo` is the
refinement's abstract pipe.

### Console, Clock, UserCopy

`cr`, `cw`, `ce` are `cons.r`, `cons.w` and `cons.e` and wrap at `UINT`; `txw`
and `txr` are the ring of the transmitter and `thr` its holding register. The
handler runs with interrupts off (`hpc`), and while it spins in `uartputc_sync`
only the device moves. `^P`, which only prints, is left out. `LineEditor` has
the line being edited and the characters handed over. `Clock` has `ticks` as a
uint and the argument of `sleep` converted to one. In `UserCopy` a step is a
page of the loop; addresses end at `UINT64`, where `va0 + PGSIZE` wraps to 0.

### UserHeap, Library, Filters, AudioControl

Sequential code, as operators where it has no state and as steps where calls
follow one another: `malloc` and `free` in any order over headers in memory;
`memmove`, `strncpy`, `safestrcpy`, `strncmp` and `printint` for every small
argument; `grep` and `wc` fed in pieces of any size. Each is compared with a
definition of its result that does not follow the code. `AudioControl` keeps of
a WAV file the places of its marks, its rate and how much of it can be read,
and computes the registers with the C arithmetic.

### Fs and FileData

`Fs` has inodes as the disk and the table in memory show them at the same time,
since every change is followed by `iupdate` under the inode's lock. `fpc[p]` is
the place of a process in its call, `path[p]` what `namex` has still to look
up, `puts[p]` the inodes it is about to `iput`. One step per `ilock`; `iput` is
two steps, since it gives up `itable.lock` while it frees the inode. All steps
of a call are inside a transaction of the log, so a crash takes back whole
calls (`Log`). `FileData` has the block pointers, the bitmap and the contents.
A turn of `readi` or `writei` is a step; the copy may fail in it after any
number of bytes. `logged` are the blocks of a transaction, with one bitmap
block for each `BPB` blocks of the disk; the disk of `param.h` (`FSSIZE` 1000)
has one.

### Memory

An address space has the three levels of Sv39, with two entries per table. A
step is one `kalloc` with the use made of the page; `build[p]` is the page
table under construction, `img[p]` what user memory should hold. `wrong`
records the panics of `uvmunmap`, `mappages` and `freewalk`.

### BufferCache, DiskPort, VirtioDisk

`lru` is the linked list, `refcnt`, `valid`, `blockno` and `locked` the
buffers. A process reads a block and may change it; then it writes it, or pins
it as the log does, and releases it. `latest` is the last value anybody stored.
`VirtioDisk` has the descriptors, both rings with indices that wrap, and a
device that completes requests in any order and may raise one interrupt for
several. Its requests map to those of `DiskPort`, on which `BufferCache` rests.

## Runs

| Run | Instance | Result |
| --- | --- | --- |
| `stream` | 3 nodes of 3 bytes, chunks up to 2, 14 bytes, pauses, fair | all hold |
| `smp` | one writer, several harts | `QueueLinked` violated |
| `player` | 2 nodes of 2 bytes, 1 reader, 3 of 7 commands, fair | all hold |
| `player_reopen` | 2 readers, open and stop | all hold |
| `player_pause`, `player_panic` | 2 commands | one violation each |
| `process` | 3 slots, 2 harts, 3 forks, kills, fair | all hold |
| `log_crash` | 2 blocks, 3 processes, 3 writes, 2 crashes, fair | all hold |
| `log_space` | 5 blocks, calls of `MAXOPBLOCKS - 1` blocks | holds |
| `userland` | 8 parts, see below; fair | all hold |
| `storage` | 6 parts, see below; fair | all hold |
| `fs_links` | `Fs` alone, 2 processes, 3 calls | `LinksExact` violated |

`userland` and `storage` check modules that share no state, or are written on
the interface of the one below. The variable `part` says which of them moves,
so their states add up and do not multiply.

**What the passing runs show.** `stream`: the linked list is the queue of nodes
sent (`QueueLinked`), the bytes are played in order (`InOrder`), the handler
never finds the queue empty (`NoPanic`), and unless the card is left paused the
writer gets to the end of the stream and all of it is played (`AllPlayed`). `player`: the card runs when the player says
so (`RunsWhenPlaying`) and a killed reader ends (`KilledEnds`).
`player_reopen`: what a killed reader leaves behind is bounded
(`StaleBounded`). `process`: no kernel stack is used by two harts or freed in
use (`OneStack`), no parent sleeps beside its zombie (`NoMissedExit`) and every
process has a parent that can wait for it (`NoOrphan`); init
collects its zombies (`ZombiesCollected`) and a killed process exits
(`KilledExits`). The last leaves one window out: on several harts a kill
between `wait`'s test of `killed` and its sleep is noticed only when a child
exits. `log_crash`: the log is an atomically updated disk through crashes
(`AtomicUpdates`), and sleepers in `begin_op` wake (`SleepersWake`).
`log_space`: calls that stay one block below their reservation never find the
log full (`NoLogPanic`). The block is needed because `mkfs` makes the log one
block shorter than `LOGSIZE` and its header, and `log_write` tests for a full
log before it looks for absorption; `LogFits` below is the same bound for
`filewrite`.

`userland`: reference counts of files and the ends of pipes are exact after any
calls and failures (`RefsExact`), each pipe is a FIFO (`PipeIsFifo`), the
parser accepts exactly the grammar (`ParserRight`), pipelines write what they
mean (`OutputRight`) and end (`CommandsEnd`). The console implements the line
editor (`InputIsEdited`) and sends all that is written to it (`ConsoleServes`).
`sleep` is neither short nor long when the counter wraps (`SleepExact`). The
heap neither loses nor overlaps a unit, and its free list is ordered and merged
(`HeapSound`). Copies touch exactly the bytes asked for (`CopiesRight`). `grep`
and `wc` do not depend on how their input is cut (`FiltersRight`).
`LibraryRight` says what `memmove`, the string functions and `printint`
compute, `HeaderRight` which WAV headers are accepted, `SettingsKept` that
volume and speed are what was asked for.

`storage`: the tree has no dangling or shared part, no inode is freed under a
name, and none is lost but by the two races below (`TreeSound`), and calls on paths neither block each other nor panic in `ilock`
(`FsCallsEnd`). Files hold what was written and reads return it
(`ContentRight`), and no transaction of `filewrite` has more than
`MAXOPBLOCKS - 1` blocks (`LogFits`). The
image of `mkfs` agrees with `bmap` (`ImageSound`). Every page has one owner
through every failure (`PagesExact`), memory is what the process made it
(`ImageRight`), and no panic of `vm.c` is reached (`NoVmPanic`). The holder of
a block sees its last value (`HolderSeesLatest`). The driver implements
`DiskPort` (`DriverIsDisk`) and every request ends (`VirtioServes`).

**How the properties were chosen.** A property is left to the proofs where they
show it for every instance (types of driver and log, `SentIntact`, `RestFits`,
`ListStable`, `CommitAlone`, `DirtyIsLogged`, `SchedSound`, `NoBufferPanic`).
The number of properties is kept small, so some that could be stated are not:
that no block of a file and no end of file typed at the console is lost, that
output leaves in order, that readers of the console and waiters for a sleep
lock are woken, that commands of the player return. Some of them, such as the
reference counts of inodes, the descriptors of the disk driver and the wakeups
of pipes, show indirectly, in a tree, a request or a command that goes wrong.
The type invariants of the other modules document the ranges of the variables
and belong to no run. Every property of a passing run has a mutant in
`PROJECT.json`, a change of the model of the kind a bug would be, under which
it is violated. `RefsExact`, `SleepExact`, `HeapSound`, `CopiesRight`,
`FiltersRight`, `LibraryRight`, `SettingsKept`, `ContentRight` and `ImageSound`
are conjunctions, and their mutant breaks one conjunct only.

Three properties leave out a case on purpose, because the code behaves otherwise
there and no text of the repository says it should not. `FsCallsEnd`: a process
whose directory and that directory's parent were both removed panics in `ilock`
when it looks up `..` (the history variable `stray` marks such a lookup).
`ImageSound`: `mkfs` makes the root a block too long when its entries
fill their blocks exactly. `FiltersRight`: `grep` stops at a line longer than
its buffer. `TreeSound` is exact for all inodes but those that two races lose
(the history variable `lost`): an entry made in a directory that was removed
between `nameiparent` and `ilock`, and an inode that is removed again while
`iput` is on its way to drop a reference to its predecessor. Here the
repository does say otherwise, and `LinksExact` is `TreeSound`'s last conjunct
without the exception; `fs_links` shows it violated. `StaleBounded` says what a
killed reader can still play. What else it can do to the next file (lost bytes,
a node queued twice) is not stated, since the player assumes one writer at a
time.

**Why the bounds are enough.** In `stream` the writer fills each of the nodes
at least once more after all of them have been queued, every split of a chunk
over the node boundary happens, and the writer spins. In `player` the reader of
four bytes can fill both nodes and spin while the card is paused. Three slots
in `process` are init, a child and a child of that, so orphans are given to
init, and the fourth pid reuses a freed slot. Only in a family of four can an
orphan go to an init that nobody else wakes; that case is in the theorem
`ExitNotMissed`, which is for every number of slots. In `log_space` two calls
of two blocks fill the log up to its last block (four of five); one block more
for each, or one call more, and it overflows. In `log_crash` two crashes allow one in a recovery; three processes
of which the log admits two give absorption, sleeping in `begin_op` and commits
of several blocks. Bounds (`StreamLen`, `MaxOut`, `MaxCommands`, `MaxPid`,
`MaxWrites`, `MaxCrashes`) appear only in guards. In `userland` five processes
are the shell, the child that runs the line and the three of a pipeline whose
right side is a block; a pipe of two bytes with counters that wrap at four
fills, empties and wraps under five bytes; every line of three tokens is
parsed, and the lines that are run nest a pipe, a list, a block, a background
command and a redirection. Two console users, of whom one may be killed (they
are alike, so it need not be the other), a ring of one character and an input
buffer of two make every buffer full; the four events (keys, calls and
a kill) leave room for more keys than the buffer holds, before or after a call; `ticks` starts just below its wrap.
Memory of 18 units lets the heap split, merge and grow with a hole. Pages of
two bytes and three page kinds give every way to cross a boundary. In `storage`
three calls of two processes are enough for a lookup, an unlink and a creation
that overlap, in a tree whose `/a/b` is a directory or a file, so that `link`
and `unlink` of files happen as well; a file of one byte and a write of four
give a chunk that is not aligned and makes the indirect block, the largest
transaction there is, and files of six cells reach into that block; a write of
15 makes the sum of offset and length wrap; page counts of
13, 17 and 19 let memory run out at different pages of `fork`, `exec` and
`sbrk`; two buffers serve three blocks with one pinned; seven descriptors serve
two of three requests at a time, and their rings wrap at once. Deadlock is not
checked where everything may come to an end: the stream is played, the commands
or the pids are used up, or the kernel has panicked. It is checked in
`log_space`.

**Violations.** Each states what a comment, a help text or an assertion of the
repository says; `PROJECT.json` quotes it under `findings`. `smp`: on several
harts the writer can clear a node that `soundintr` has marked free but not
unlinked. `player_panic`: running the card again after everything was played
makes `soundintr` panic; the `setPlay(1)` at the end of `open` is enough.
`player_pause`: `play` and `soundintr` undo a pause. `fs_links`: an inode keeps
a link that no directory has, or stays allocated with no link and no reference.

**Fairness.** Weak fairness for each process and for the handler: the scheduler
is round robin with a timer, and interrupts are off only for bounded sections.
Weak fairness of the card: it plays in real time while it runs. No fairness for
commands, pauses or crashes. In `Process`, weak fairness of the timer's `yield`
and of the steps of a switch; strong fairness of `scheduler` for each slot,
since the loop comes back to every slot and the slot's lock is held only
briefly, and of the steps of a system call, since a process that is scheduled
again and again goes on with its call and a spinning `acquire` meets a lock
that is released again and again. That is an assumption on the atomic swap of
the machine: xv6's spin locks do not queue. Programs other than init need not
call anything. In `Log`, weak fairness of the steps of a call that has begun
and of commit and recovery; new calls may never come. In `userland` and
`storage` one weak fairness condition for the pending work of shell, console
and system calls on paths: one hart always runs somebody who can run, and their
steps are bounded, so no fairness between processes is needed. The virtio
driver is the exception: processes that wait for descriptors wake each other,
so each process, the device and the handler have weak fairness of their own.
Keys, kills and new calls have none.

## Proofs

The theorems hold for every number and size of nodes, every stream, and every
number of blocks, buffers, processes, harts, descriptors, files, pipes and
crashes. The assumptions on the constants are the named `ASSUME`s of the
modules, which TLC evaluates for the instances of the runs. Each safety theorem
has an inductive invariant, since what it states is not inductive by itself.

* **SoundCardProofs** (one writer, one hart; pause and resume at any time). The
  inductive invariant says, for each control point of the writer, which node it
  owns: the current node is not in the queue except between `SendNode` and
  `LinkNode`, a node in the queue has flag 3 unless the handler has just marked
  it, nodes in the queue are distinct, and inside `walk` the variable `tail` is a
  node of the queue. `QueueLinked`, `SentIntact` and `RestFits` follow.
* **StreamProofs** (and no resume). Adds that the card is halted or plays the head
  of the queue, and counts bytes: those played, those queued and those in the
  current node follow one another without a gap. `NoPanic`, `InOrder` and
  `ListStable` follow.
* **ProcessInv**, **ProcessProofs**. `ProcInv` says where in the code each lock is
  held, that a stack is in use exactly while its process is RUNNING or on its way
  through a switch (which gives `OneStack`), what a fork in progress has filled
  in, that a parent is alive or its children are being given to init, and that a
  process which sleeps in `wait` has scanned its children under `wait_lock` and
  none of them became a zombie since. `NoMissedExit` and `NoOrphan` follow once
  `wait_lock` is free, and so does `SchedSound`: the panics of `sched` over locks
  and state are not reached.
* **LogProofs**. The invariant `LogInv` says for each step of a commit or a
  recovery which log blocks are already copies of the cache or of the disk, that
  the blocks of a header are distinct, and that outstanding is the number of
  active calls. From it, every step of `Log` is a step of `AtomicDisk` or
  leaves its variables alone: only `write_head` in a commit moves `stable`.
  `SpaceInv` counts: any set of active calls has written at most `OpBlocks` blocks
  for each of them, and the header with the reservations of all active calls
  exceeds `LOGSIZE` by no more than what they have written. `AloneInv` is
  sharper for a single active call: the header holds its blocks only, or another
  call has ended since it began and left a part of its reservation unused. Under `Room`, `NoLogPanic` follows. With the constants of `param.h` and `mkfs.c` (reservations
  of 10 blocks, `LOGSIZE` 30, a log of 30 blocks with its header) `Room` says that
  a call writes at most 9 blocks, the bound of `log_space` and `LogFits`.
* **CacheProofs**. `CacheInv` says that no block has two buffers, that `refcnt` is
  the number of users of a buffer and one more when its block is pinned, that the
  lock of a buffer is held by the one user that works on it, that a request to the
  disk is that of the holder, and which buffers and disk blocks have the last
  value of their block at each point between `bread` and `brelse`.
  `HolderSeesLatest` is one of its consequences. `NoBufferPanic` is the other:
  buffers with references are at most the users and the pinned blocks, so when
  these are fewer than `NBUF` the panic of `bget` is not reached.
* **FilesInv**, **FilesProofs**. The specification `FilesSpec` lets a program make
  any calls at any time; the shell and its commands are cases of it. `FilesInv`
  says that `ref` is the number of descriptors and pending closes that name a
  file, that a file fresh from `filealloc` is its caller's alone, and that an end
  of a pipe has one holder, a file or the process between `fileclose` and
  `pipeclose`, as long as it is open. Ten effects (`Quiet` to `Copies`) sum up
  what the steps do to these variables; `StepEffect` shows that there are no
  others, and one lemma for each shows that it keeps the invariant. The change
  of a count comes from lemmas on the size of a table of which one row changes.
  `RefsExact` follows.

The hypotheses "one writer" and "one hart" are those of the shipped system
(`CPUS := 1`, one reader per file); `smp` shows that the second is needed.
Without "no resume" `NoPanic` is false (`player_panic`).

Only model-checked:

* liveness (`AllPlayed`, `KilledEnds`, `ZombiesCollected`, `KilledExits`,
  `SleepersWake`, `CommandsEnd`, `ConsoleServes`, `FsCallsEnd`, `VirtioServes`),
  which is out of the prover's reach;
* what recursive definitions compute (`ParserRight`, `OutputRight`, `HeapSound`,
  `FiltersRight`, `LibraryRight`, `ImageSound`), since it needs induction over
  data;
* the refinements of pipe, console and disk driver (`PipeIsFifo`,
  `InputIsEdited`, `DriverIsDisk`), whose rings wrap: they need arithmetic with
  `%` over counters of any width;
* the remaining invariants (`RunsWhenPlaying`, `StaleBounded`, `SleepExact`,
  `CopiesRight`, `HeaderRight`, `SettingsKept`, `TreeSound`, `ContentRight`,
  `LogFits`, `PagesExact`, `ImageRight`, `NoVmPanic`): nothing known stands in
  the way of a proof, but each needs an inductive invariant of its own.

## Not modelled

* Boot and device set-up (`entry.S`, `start.c`, `main.c`, `plic.c`, `uartinit`, most of
  `pci.c` and of `virtio_disk_init`, the kernel's own page table): straight-line code
  that runs once, before there is a second process.
* System call dispatch and the fetching of arguments, beyond the copies of
  `UserCopy`; the saving of registers in the trap code.
* Format strings, prompts, `procdump`, `stati` and other code that only prints or
  copies.
* The arguments that `exec` pushes on the new stack, and the fields of an ELF
  file; `Memory` has the pages and the failures of `exec`.
* The RAM disk (not built), the tests (`usertests.c`, `grind.c`, `stressfs.c`,
  `forktest.c`), and programs that make one system call per argument (`ls`, `mkdir`,
  `rm`, `ln`, `kill`, `zombie`).
* Errors that the instances or the callers exclude. `writeDecodedAudio` of a
  negative size: the reader passes on what `read` returned for an open regular
  file, and that does not fail. More callers of `bget` than buffers: the guard
  `Admitted` of `bget` in `BufferCache` stands for the calls that `begin_op`
  admits, and each process there uses one buffer at a time. A disk that reports
  an error: `virtio_disk_intr` panics, and the device of `VirtioDisk` does not
  fail.
* The error returns of a call are one failure where nothing depends on which.
* More than one loadable segment in `exec`: the programs are linked with `ld -N`
  into one.
* Disks and inode tables that are full: `balloc`, `ialloc` and `iget` panic; the
  instances leave room.
* Files longer than `bmap` can map. `MAXFILE` in `fs.h` counts a doubly indirect block
  that `bmap` does not have, so `writei` lets such a write pass and `bmap` panics. The
  guard of `writei` in `FileData` names the panic.
* Several harts, except in `SoundCard` and `Process`. Elsewhere a section under a
  spin lock is one step, which several harts preserve, but handlers and
  processes would overlap.
