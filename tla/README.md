# TLA+ models of CP32

CP32 is a MINIX 2.0 derivative for the ESP32-S3: tasks, two servers and user
processes that meet by message passing on one CPU. This directory models its
kernel, its servers and its file system in TLA+, checks them with TLC on small
instances, and proves the safety of the kernel core, the system task, the clock
task, the terminal's calls, the memory manager, the application broker and the
root device with TLAPS for every instance. Paths below are relative to `src/src/`.

## The system

| part | code | state it owns | steps | modelled by |
|---|---|---|---|---|
| IPC and ready queues | `kernel/proc.c`, `proc.h` | `proc[]`, ready and held queues, caller queues | SEND, RECEIVE, SENDREC traps; `interrupt` | `Proc` |
| CPU ownership | `kernel/irq.S`, `clock.c` (interrupt half) | `proc_ptr`, `cp32_current_proc`, `cp32_irq_return_proc`, `cp32_blocked_return_proc` | trap return, timer interrupt | `Proc` |
| user descriptors | `kernel/process.c`, clone in `fork.c` | slots of `proc[]` | reserve, publish, clone, replace, release | `Proc` |
| boot | `kernel/main.c` | initial table and queues | `main` | `Init` of `Proc` |
| memory manager | `mm/alloc.c`, `mm/main.c` | block table | allocate, release | `Alloc`, `Heap` |
| application broker | `kernel/application.c`, `fork.c` | pids, wait table, saved images | run, exec, fork, wait, exit, brk | `Application` |
| exec images | `mm/image.c`, `mm/exec.c` | none: functions of a file and its arguments | validation, heap and stack layout | `Image` |
| system task | `kernel/system.c` | flags, signals | SYS_* calls, `cause_sig`, `inform` | `SysTask` |
| clock task | `kernel/clock.c` | alarms, uptime, wall clock | requests, ticks, expiry | `Clock` |
| terminal | `kernel/tty.c` | input ring, suspended calls | read, write, ioctl, cancel, poll | `Tty`, `TtyLine` |
| names, inodes, zones; updater | `fs/create.c`, `inode.c`, `path.c`, `super.c`, `read.c`, `write.c`; `kernel/app-update.c` | the disk | create, append, truncate, link, unlink, rename, move, reap, update | `Create` |
| descriptors | `fs/filedes.c`, `fproc.c`, `appfile.c` | open descriptions, process records, deferred unlink | open, close, dup, fork, exec, exit | `FileDes` |
| working directories | `fs/rename.c`, `stadir.c`, `path.c` | canonical paths in process records | chdir, move, mkdir, rmdir | `WorkDir` |
| root device and cache | `kernel/rootdisk.c`, `memory.c`, `sdcard.c`, `drivers/`, `fs/cache.c` | one sector, clean blocks, `write_failed` | read, write, sync | `RootDisk`, `StableStore` |
| programs and their heap, display, library | `apps/`, `display.c`, `lib/` | none shared | | not modelled |

The shell and the application broker run inside the FS process, which is the
client of MM, MEM and TTY and calls the descriptor functions; applications call
FS only. The timer interrupt may come anywhere outside a masked section.

`MC*.tla` are the instances; `ProcIpc` and the modules `*Proofs` hold the proofs.

## Proc

`k` is the kernel memory, a record whose fields are the globals and the fields of
`struct proc`. Traps and interrupts run with interrupts excluded, so one action
is one chain of C functions; each function is an operator from memory to memory
with the name it has in the code.

| action | code |
|---|---|
| `TaskIpc` | `irq_user`, `cp32_task_ipc_dispatch`, `sys_call`, `mini_send`, `mini_rec`, `sched`, return |
| `TimerIrq` | `irq_level1`, `clock_handler`'s notifications, `unhold`, `sched`, the FS override, return |
| `Reserve`, `Publish`, `Release` | `cp32_proc_reserve`, `_publish`, `_release`, called by FS |
| `Clone` | `cp32_proc_clone` with the masked section of `cp32_fork_start` |
| `Replace` | the commit of exec in `application_replace`, run by FS |

Abstractions:

- A message is its source. A saved frame is whether the snapshot of the blocked
  call still matches it. Every message buffer is mapped, so the EFAULT returns
  do not occur.
- `p_callerq`/`p_sendlink` and the ready lists are sequences. `SendChain` is the
  set of endpoints that the deadlock walk visits.
- `copied` is a ghost field: the messages copied by the last step.
- The handoff gates are open, as `main` leaves them. Frames are well formed, so
  the bad-frame branch of `pick_proc` is not taken. Interrupts do not nest.
- `Reserved` holds the endpoints that `cp32_boot_process_flags` stops at boot;
  the runs leave them out, the theorems cover any set of them.
- `cp32_proc_reserve` takes the first free slot, the model any; pids are left out.
- `switching` stays FALSE: only SYSTASK and signals set it, and they are not in
  this model. `interrupt` and `unhold` keep their held-queue branches, which are
  therefore never taken.
- FS may reserve, publish, clone, replace and release whenever it runs and the
  function's own tests allow it; its order of requests is not fixed. One thing is
  kept of it: exec commits after a call of FS to MM for the staging block, which
  blocked FS and moved `cp32_blocked_return_proc` to it, so the process that gets
  a new program is no longer the one this pointer names.

## Alloc and Heap

`Alloc` has the block table, the ready flag and the last answer; its actions are
the three branches of `cp32_mm_handle_request`. `mm_task` serves one request at a
time, so a request is one step. `Coalesce` is two turns of the merge loop: at
most one free block ends at the released one and at most one begins after it.
`Heap` is what MM promises: a set of regions, granted where no other lies and
returned by their owner.

## RootDisk and StableStore

`RootDisk` is the path of a block request: the cache in FS, the MEM task, the
volume with its one-sector buffer and verified write, and the card. Any card
command may fail; a write may finish after the driver gave up on it or store
something else; power may fail at any step. `StableStore` is what the file
system relies on: an acknowledged write is on the medium and touched nothing
else, one that is not may have left anything in its sectors, and no write
follows it until the next boot. The stack is checked to implement it.

## Create, FileDes and WorkDir

FS serves one request at a time, so concurrency is not the difficulty here;
interruption and long sequences are. In `Create` an operation is the list of its
stores, made one by one; a store or read may fail and power may fail after any.
`FileDes` keeps inodes abstract and has the two tables of descriptors and all
that moves handles between them. `WorkDir` has the paths that process records
keep, which a move of a directory must rewrite.

A fault is of one of two kinds. A failed store or synchronisation makes the device
refuse every later write; a failed read or clock request leaves it writable, and
the system goes on over what the request left half done. `FileDes` and `WorkDir`
have both: a request may be cut short before it changed anything, half-way or
after its last change, with the device writable or not. What the code leaves
behind then is part of the properties. An inode whose create, unlink or reap was
cut short may stay allocated without a name (`cut` of the inode, in `OpenIsKept`).
A move that fails after it stored the new name rebases no path (`cut` in
`CwdIsKept` and `PreviousFollows`); the other requests that fail half-way do not
disturb the paths.

## Application and Image

`Application` is the loop in which FS serves a program and its one child at a
time. Parent images and staged images are blocks of MM, and FS waits for MM
inside a request, while after exec the new program already runs. `Image` says
which files are accepted, where the heap of one starts and where its arguments
leave the stack pointer; addresses and sizes are the real ones, and the bytes of
segments and strings are left out. IPC is that of `Proc`, files are in `FileDes`.

## SysTask

The loop of SYSTASK with `cause_sig` and `inform`, which CLOCK calls too. Of the
handlers only `do_fork` and the message of `inform` run with interrupts masked;
`lock_ready` and `lock_unready` mask nothing. A handler is therefore two steps: SYS
takes the request up (`SysReceives`), and is done with it (`SysServes`), which is
when the change is made; an alarm that becomes a signal is `ClockExpires` and
`ClockSignals`. Between the two any process may run. `Uses` says what a handler
reads before and writes after a point where it can be preempted: the descriptor
of its process, and for signals and exits MM's queue and `sig_procs`. If another
step writes one of these in between, or a timer interrupt comes while a queue is
relinked (`TickTears`), there is a data race: `torn` is set and the state may be
any of `Wrecks`. `inform` ends in `lock_pick_proc`, which gives the CPU the task
runs on another owner; `astray` is set. The properties are about the executions
without either (`Intact`); in the instance the race leaves a state in which they
are false, so the proviso is needed. `mm/main.c` serves memory requests only, so
MM's half of the signal protocol is external: it is what `system.c` is written
for.

## Tty and TtyLine

A step of the task ends wherever the tick could change what the next one reads.
`TtyLine` is what a line promises its reader: one queue of characters, taken from
the front in order and once, in canonical mode never past a line break, and the
number of bytes told. Every step of the queue needs a reason in its surroundings,
which the refinement mapping supplies: a character is one of the keys that may be
taken now; the unfinished end is erased by ERASE or KILL in canonical mode; the
queue is dropped by INTR, which also raises `tty_events`, by a request answered OK
that says so (TCSETSF, TCFLSH, an output speed of B0, the last close), or with a
cancelled read; the mode changes with a request answered OK. A poll, transfer,
timer, failed copy or other request that lost a character would not be a step of
it. CANCEL carries a mode, and a mode that does not fit the pending call leaves it
pending. The shell only reads and writes lines; the runs with modes,
ioctls and cancels exercise the rest of the task's interface.

## Clock

The task takes one step per process in its loops, because it can lose the CPU
there to the tick handler, which tests `next_alarm`, and to SYSTASK, which turns
alarms off. `p_alarm` is compared and then assigned; the compiler may read it
once or twice, so `Lower` allows either value. Receiving follows `mini_rec` and
`interrupt`: callers first, then a blocked interrupt; a task that is blocked gets
what comes first. `ticks`, `due` and `missed` are history variables. No program
of the tree sends SET_ALARM; the task serves it all the same.

## Runs

| run | config | properties | shows |
|---|---|---|---|
| `proc_safety` | `MCProc.cfg` | `ReadyQueueOK`, `OwnerOK`, `CallerQueueOK`, `NoSendCycle`, `NoMissedRendezvous`, `BlockedFrameOK`, `CallsEndWithTheirMessage`, `CallerQueueFifo` | Every interleaving of the calls of the booted services with timer interrupts: queues, CPU ownership, rendezvous and delivery. |
| `proc_users` | `MCProcUsers.cfg` | `DeadSlotsUnlinked` | FS creates, clones and reaps two user processes, and gives them a new program by exec, while they and the services make calls and the timer fires. |
| `proc_liveness` | `MCProcLive.cfg` | `EveryRunnableProcessRuns` | With a timer that keeps ticking no runnable process is starved. |
| `alloc` | `MCAlloc.cfg` | `BlocksPartitionArena`, `RefusedOnlyWhenFull`, `OthersKeepTheirMemory`, `ImplementsHeap` | Two clients allocate and release in every order in a table that is soon full. |
| `application` | `MCApplication.cfg` | `BlocksAreAccounted`, `StatusesAreKept`, `NoPanic`, `MemoryIsDivided`, `ParentIsRestored`, `RequestsEnd` | Programs are launched, fork, exec, wait, move their break and exit in any order, with files that are no images, arguments that are too long, records and memory that run out, pids that wrap and a status table that fills up; after exec the new program runs while FS still waits for MM. With FS and MM running when they can, every request ends. |
| `clock` | `MCClock.cfg` | `NeverEarly`, `NoAlarmOverlooked`, `AlarmsGoOff` | Alarms set, cancelled, replaced and expiring while ticks and exits come between any two steps of the task: none is early, a tick that finds the task waiting overlooks none, and each that comes due goes off or is taken back. |
| `create` | `MCCreate.cfg` | `VolumeIsSound`, `NoStaleData`, `ExactWhenQuiet`, `ExecutableWhenWhole` | Four volumes: names of files and directories made, linked, renamed, replaced and removed, open or not, with a fault; the content of a file, through direct and indirect zones, with two faults; copies and program updates on a volume that fills up, with a fault; directories moved over and into each other. A fault is a failing store, a failing read or a power loss between any two stores. |
| `descriptors` | `MCFileDes.cfg` | `OwnedOnce`, `OpenIsKept`, `ParentKeepsFiles`, `SizesAreFresh` | Programs are launched with and without redirected input, open, share, unlink, read, write and close files, fork, exec and exit, with a table that fills up and requests that fail half-way, on a device that refuses writes afterwards or goes on: every entry has one owner, unlinked storage lives exactly as long as it is open, and no open file acts on a size another has changed. |
| `root_disk` | `MCRootDisk.cfg` | `CopiesMirrorMedium`, `OnlyTheVolume`, `ImplementsStableStore` | Reads, writes and synchronisations over a card whose commands fail, finish late, store something else or lose power: both caches mirror the card and the stack is a StableStore. |
| `system_task` | `MCSysTask.cfg` | `FlagsInStep`, `CallersAreSending` | SYS serves fork, map, exec, trace, exit, kill and endsig requests in any order while processes call MM, set alarms and are signalled by CLOCK, each handler open to other steps from its start to its end: as long as none of those steps uses the same process, the queue of MM or the count, and MM is not told of a signal, the flags, the ready queues, the count of signalled processes and the caller queue stay in step. |
| `terminal` | `MCTty.cfg` | `OneAnswer`, `ImplementsLine` | Four sessions of one line: a shell that reads while keys are typed, erased, escaped and ended; INTR, STOP and START with writes, a second reader, a buffer that loses its mapping and a failed display; reads under MIN and TIME while the mode changes, calls are cancelled by the right mode or another and timers expire; writes held by STOP, and ioctls, hangups and closes that wait for them or come between. Each call gets one answer, and the line implements the queue of TtyLine, which loses input only for a reason. |
| `working_directories` | `MCWorkDir.cfg` | `CwdIsKept`, `PreviousFollows` | The shell, a program and its suspended fork parent make, remove and move directories around and under each other and change directory, with paths that reach their longest length and stores, reads and clock requests that fail half-way, on a device that is read-only afterwards or still writable: every process stays in the directory it changed to, unless a move failed after it had stored the new name. |

Bounds. `Proc`: three mutual callers are the fewest that form a cycle no two of
them form; CLOCK adds a fourth sender, so that queues have a middle. Two user
slots let one be cloned from the other and be reaped and reused; `proc_safety` has
no user processes, and with them its properties rest on the theorems. `Alloc`: four
entries in six clicks fill the table before the memory; requests of 0 and above
`MAX_CLICKS` (5) are included. `RootDisk`: two-byte sectors and blocks of two
sectors make a write partial in both. `Create`: one direct zone and three cells
to a zone reach the indirect zone with the second zone, and five to eight zones
run out; two faults on the content of a file let a second operation meet what
the first left, names and copies have one fault, and the moves of directories
none (see below). `FileDes`: four entries fill up with a shell, a parent and a
child of two descriptors each; sizes and offsets have a machine of their own,
with one file and three open files. `WorkDir`: three directories nest and cross,
and paths reach `PathMax`; requests go on after a fault, on a device that is
read-only or still writable. `Application`: two slots, pids 1 to 3 that wrap, two waits,
two blocks; one argument vector fills the stack area and one is a byte longer; a
break can grow by the one paragraph there is room for, by one more, and shrink.
Ticks are not charged in the run (`MaxTicks` 0); the proofs cover them.
`SysTask`: two processes and two signals raised and not finished at a time.
`Tty`: a ring of three characters fills and wraps; one tick per round may come at
any step. `Clock`: two alarms, of which each can be first; at `MaxTicks` uptime
stands still while interrupts go on.

Views hide values that nobody reads again, and in `Create` and `FileDes` the
numbers of zones and of backend descriptors; symmetry is used for data values,
users and owners only. A run with a liveness property has neither. Deadlock is
checked but in `Create`, whose volume may be full or refuse writes for good.

Fairness. `Proc`: only the timer, whose handler rearms it. `Application`: the
serving tasks run when they can, which the liveness of `Proc` gives, and MM answers
each request, as `mm_task` does; `RequestsEnd` shows that FS waits for nothing else. `Clock`: the
tick and the task; a request takes microseconds and a tick is 1/60 second, so
ticks do not all come within requests; and the one caller, FS, runs again only
after a reply, so it is not queued at every receive. With several callers that
never pause the last would not follow from `mini_rec`, which serves callers
before a blocked interrupt.

Two more configurations check liveness of single components and pass:
`MCRootDiskLive.cfg` (every request of FS to MEM is answered when MEM keeps
running) and `MCTtyLive.cfg` (every request
is answered, and a suspended read does not wait beside the line it asks for; the
poll ends again and again, because people type slower than the task polls).

## Where code and comments differ

Each configuration named here is violated, by the steps described.

- `MCClockRace.cfg`, `DelaysOneTick` (kernel/clock.c:652): the handler tests
  next_alarm while common_setalarm has armed an alarm and not yet recomputed it.
  CLOCK can be off the CPU there for several ticks, and each of them overlooks the
  expired alarm. The comment at kernel/clock.c:610-611 says "rare race only delays
  do_clocktick() by one tick". No program of the tree sends SET_ALARM today.
- `MCCreateMove.cfg`, `VolumeIsSound` (fs/create.c:695): the code adds the new name
  of a moved directory (688) and rewrites its dot-dot (695) before it removes the
  old name (697), without counting the second name; stopped in between, both names
  lead to the inode while rmdir of the new one finds links 2 and the right parent,
  and frees it, leaving the old name dangling. fs/create.c:491 says "uncertain
  writes may leak but must never recycle a still-referenced object", and
  docs/sd-root.md:646 "last-link failures never free still-referenced storage".
- `MCFileDesTty.cfg`, `LaunchesUseTty` (kernel/cp32-shell.c:902): cp32_shell_launch
  stores the result of cp32_shell_open_file in cp32_shell_input_fd and returns when
  it is negative, without setting it back to -1; the next launch without
  redirection clones the shell record with that input, cp32_fd_dup refuses it, and
  the launch ends with "Application load failed", until a launch with a readable
  input file. docs/application-execution.md:641-642 says the parent "closes/resets
  its input descriptor on normal exit or load failure. Subsequent launches again
  use TTY."
- `MCTtyRaw.cfg`, `RawInputIsKept` (kernel/tty.c:1509): cp32_console_read pops an
  event from the controller, hands the character to in_process and ignores its
  result; with the queue full in raw mode in_process returns without storing it, so
  the character is lost. kernel/tty.c:939 says "No space; discard in canonical mode,
  keep in raw mode." (Raw mode is installed by TCSETS, which the task serves and no
  program of the tree sends yet.)

The theorems below hold with these behaviours in the models, except that
`VolumeIsSound` is checked without faults while directories move.

Of the system task three differences are known from reading and are not checked,
because they lie beyond the point where `SysTask` stops. `cause_sig` returns when
MM is not waiting, and nothing looks at `sig_procs` afterwards, while
kernel/system.c:1000 says "Whenever MM blocks, a check is made to see if
'sig_procs' is nonzero; if so, inform() is called." It tests MM's flags with
interrupts open, so that MM may have taken another message when `inform` runs,
where system.c:1006 says "MM is waiting for new input." And `inform` builds its
KSIG in the global `m` (system.c:112), the buffer in which `sys_task` receives its
requests, and may be called by CLOCK between that receive and the dispatch.

## Proofs

Every theorem holds for all values of the constants that satisfy the named
assumptions of its module.

### Kernel core: `ProcIpc`, `ProcProofs`

| theorem | property | what it says |
|---|---|---|
| `TypeCorrect` |  | The kernel memory keeps its type through every trap, interrupt and change of a descriptor. |
| `ReadyQueuesCorrect` | `ReadyQueueOK` | Every runnable process but the owner of the CPU is in the queue of its class exactly once. |
| `OwnerCorrect` | `OwnerOK` | The registers on the CPU belong to the runnable process both owner globals name, and no return check fails. |
| `CallerQueuesCorrect` | `CallerQueueOK` | Caller queues list exactly the blocked senders. |
| `SendsNeverDeadlock` | `NoSendCycle` | No set of senders waits in a circle. |
| `RendezvousNeverMissed` | `NoMissedRendezvous` | Nobody waits for a sender or an interrupt that waits for it. |
| `BlockedFramesCorrect` | `BlockedFrameOK` | Every blocked call has a snapshot that matches, and no other process has one. |
| `DeadSlotsCorrect` | `DeadSlotsUnlinked` | No queue, caller list or pointer of the kernel holds a descriptor that is free or not mapped, for any number of user processes. |
| `CallsEndCorrectly` | `CallsEndWithTheirMessage` | A blocked call ends only with its message, copied once from a source it accepts, or when FS reaps its process or commits its exec; and no other message is copied. |
| `SendersKeepTheirOrder` | `CallerQueueFifo` | Every step keeps the senders that wait for one receiver in the order of their calls. |

Assumptions: `ProcAssumption` and `BootAssumption` (the classes of processes are
disjoint, the named tasks and servers are booted, IDLE and HARDWARE make no calls,
the boot queues list every booted process once).

The properties are not inductive one by one: a wake is safe because the snapshot
matches, which holds because the interrupted process is never blocked, which holds
because selection takes runnable processes only. The invariant `Inv` is their
conjunction with two more facts. `Owner` adds that the published return frame is
the running process or a runnable FS, which is what an interrupt returns to when
it finds the queues empty. `Quiet` adds that nothing is held and that the
remembered FS selection is FS. Inside a trap the invariant is broken; `Mid` and
`Done` say what holds before and after `sys_call`.

`DeadSlotsCorrect` needs `Sealed` besides: nobody sends to a slot that is free or
not mapped, and no pointer of the kernel names one. A step of the kernel either
moves calls by the rules of IPC (`Steps`) or remakes one slot (`Remade`), and each
keeps `Sealed` for its own reason. `CallsEndCorrectly` counts the commit of exec
among the ends of a call (`Replaced`): the program that made it is gone, and no
message is copied. The two action properties follow from what the
same lemmas say of one step: which calls end and with which message (`Served`), and
that a caller queue changes only by losing a member or gaining one at its end
(`Fifo`).

`ProcIpc` has the lemmas on ready and caller queues and on SEND, RECEIVE and the
trap, `ProcProofs` those on interrupts and descriptors.

### System task: `SysTaskProofs`

| theorem | property | what it says |
|---|---|---|
| `FlagsStayInStep` | `FlagsInStep` | A process is in a ready queue exactly when no flag blocks it and sig_procs counts the processes with pending signals, for any number of processes, as long as no handler raced with a step on the data it uses and MM was told of no signal. |
| `CallerQueueIsSenders` | `CallersAreSending` | Under the same proviso the caller queue of MM holds exactly the processes that are sending to it, each once. |

Assumption: `SysAssumption`, there is at least one process. Nothing is assumed of
`Wrecks`: the theorems do not depend on what a race leaves, since they stop there.
The properties are proved together (`Inv`): `Block` and `Unblock` relink a process
on the strength of its flags alone, so each handler relies on flags and queues
being in step when it starts, and `do_xit` unlinks the caller from the queue of MM
because it has SENDING. `Requests` adds what the clients can have asked. A handler
whose data nobody else wrote makes its change as one step, whatever ran meanwhile;
one that told MM of a signal only has to keep the types.

### Clock task: `ClockProofs`

| theorem | property | what it says |
|---|---|---|
| `UptimeTheorem` |  | No tick is lost or counted twice between the interrupt and the clock task, for any number of callers and processes. |
| `NeverEarlyTheorem` | `NeverEarly` | No alarm fires before the delay asked for has passed since the request was sent. |
| `NextAlarmTheorem` |  | With the clock task waiting, next_alarm is not later than any alarm, whatever exits and re-arms came between the steps of its loops. |
| `OverlookedTheorem` | `NoAlarmOverlooked` | A tick that finds the clock task waiting never overlooks an expired alarm. |

Assumption: `ClockAssumption`. `IInv` adds to the properties what holds inside the
loops (`Ordered`: the slots passed have no alarm before `next_alarm`, and an alarm
being assigned is the one compared or was turned off), that an alarm is never set
before it is due (`OnTime`), and why: a request was sent in the past, and
`realtime` has caught up with it when it is served (`Messages`).

### Terminal: `TtyProofs`

| theorem | property | what it says |
|---|---|---|
| `CallsAreTracked` |  | The three records of the line, the message being sent, the place of the task and the states of the callers agree after every step, for any ring, caller and key set. |
| `EveryCallIsAnsweredOnce` | `OneAnswer` | Each caller of the terminal gets one reply, and one REVIVE exactly if it was suspended; the line forgets no suspended caller. |

Assumption: `TtyAssumption`. One part of it matters: at most one caller makes
requests that wait for the output. `do_ioctl` keeps one such request and a second
would replace it (`kernel/tty.c:484`). FS, whose process the shell runs in, is the
only one to call the task here, and it waits for each answer; the other requests
of a session may come from any number of callers.
`OneAnswer` is not inductive: the line answers whom its records name with the code
they hold, so `IInv` says whose call each record is. A record holds TASK_REPLY only
while the task is inside `do_read` or `do_write` for its caller (`Reader`,
`Writer`), and REVIVE once the caller is suspended or is being told so; the waiting
ioctl is always of a suspended caller (`Drainer`). The three never name one caller,
since a caller has one request and each record is about another kind. What the ring holds does not matter but
for one fact: a transfer takes no more bytes than are asked for (`TakenLemma`), so
`tty_inleft` does not pass 0.

### Memory manager: `AllocProofs`

| theorem | property | what it says |
|---|---|---|
| `PartitionCorrect` | `BlocksPartitionArena` | The blocks partition the arena. |
| `FreeBlocksAlwaysMerged` |  | No two free blocks touch. |
| `MemoryIsPrivate` | `OthersKeepTheirMemory` | A request changes the memory of its sender only. |
| `AllocatorImplementsHeap` | `ImplementsHeap` | The table implements the abstract heap. |
| `AllocTypeCorrect` |  | The table and the answers keep their types. |
| `RefusalsAreJustified` | `RefusedOnlyWhenFull` | An allocation is refused only when no run of free clicks is long enough or the table is full, for any size of table and arena. |

Assumption: `AllocAssumption`. The invariant is that blocks lie apart inside the
arena and cover it, and that free blocks do not touch. Between the two merges of a
release the last part fails for the released block alone; `MergedBut` carries it
there. That a refusal is justified needs the converse of the first: a run of free
clicks that begins in a free block ends in it, because free blocks do not touch
(`RunFits`). The refinement to `Heap` maps the table to the set of its used
regions.

### Application broker: `ApplicationProofs`

| theorem | property | what it says |
|---|---|---|
| `NoPanicIsReached` | `NoPanic` | The record, the caller and the suspended parent are always what the broker checks them to be. |
| `BlocksAreKept` | `BlocksAreAccounted` | No block of MM is leaked, returned twice or returned while a parent image is in it, whichever step of fork or exec fails. |
| `StatusesStay` | `StatusesAreKept` | The wait table holds exactly the children that ended and were not waited for, with their statuses. |
| `MemoryStaysDivided` | `MemoryIsDivided` | The memory of every program stays divided into data, heap and stack, for any accepted file, arguments and break increments. |
| `ParentGoesOn` | `ParentIsRestored` | The end of a child gives its parent the memory, break, parent pid and record it had at the fork. |
| `PidsStayUnique` |  | Processes and uncollected statuses never share a pid, however often the counter wraps. |
| `OnlyOneRuns` |  | Only the active process can run or call; every other process in use is its suspended parent. |
| `TimeStaysConserved` |  | Every tick charged to a process is billed once: to itself, to its parent when it ends, or to FS. |
| `PidIsFresh` |  | application_pid chooses a pid that nobody has and refuses only when all are taken. |
| `HeapFits` |  | The heap of an accepted program file lies between its data and the stack area. |
| `StackFits` |  | The stack pointer lies in the argument area on a multiple of 16, or the arguments are refused. |

Assumptions: `BrokerAssumption` and `LayoutAssumption`. `IInv` has one part per
subject: where the broker is in a request and what it then holds (`Control`), which
slots are in use (`SlotsInUse`), whose each block is (`BlocksHeld`), pids and
uncollected statuses (`PidsKept`, `EntryReserved`), file records (`RecordsOwned`),
what is saved of a parent (`ParentSaved`) and the ticks (`TimeBilled`). The blocks
can only be accounted for together with `Control`: a failed fork returns its block
in a step of its own, and between the two the block belongs to the request.
`PidIsFresh` is about the loop of `application_pid`: if the first free pid after
the counter were not found, a least pid that the walk skips would exist (`Walk`).
`StackFits` bounds the recursive sum of argument lengths the same way.

### Root device: `RootDiskProofs`

| theorem | property | what it says |
|---|---|---|
| `CopiesAreTrue` | `CopiesMirrorMedium` | The sector buffer of MEM, the block cache and the staged bytes of FS always equal what the card holds, for any size of sector, block and volume, whatever commands fail, finish late or lose power. |
| `OnlyTheVolumeCorrect` | `OnlyTheVolume` | No step changes the card outside the partition of the root volume. |
| `RootImplementsStableStore` | `ImplementsStableStore` | Every step of the root device is a step of a store whose synchronised bytes are stable, or a stutter. |

Assumptions: `GeometryAssumption` and `TableAssumption`. `CopiesMirrorMedium` is not
inductive: the card may still be programming a write the driver gave up on, and
what it finishes is then in no copy only because no command gets past a busy card
(`Busy`). That requests stay in the volume and cached blocks are whole (`InRange`,
`Whole`) makes a copy comparable with the medium at all. For the refinement
`Written` says how far a write is: which bytes are on the medium already and what
the sector buffer will add. The mapping to `StableStore` takes the bytes of the
volume, the sectors in doubt after an unacknowledged write, and the write in
progress.

### What is only model-checked, and why

- Liveness under fairness, which the prover does not do:
  `EveryRunnableProcessRuns`, `RequestsEnd`, `AlarmsGoOff`, and the two liveness
  configurations.
- `VolumeIsSound`, `NoStaleData`, `ExactWhenQuiet` and `ExecutableWhenWhole` of
  `Create`: an operation is a sequence of stores built by folds over paths and
  zones, and what a fold yields for every input needs induction over data, whose
  library theorems the prover cannot instantiate.
- `OwnedOnce`, `OpenIsKept`, `ParentKeepsFiles` and `SizesAreFresh` of `FileDes`,
  and `CwdIsKept` and `PreviousFollows` of `WorkDir`, for the same reason: exit,
  exec and clone are folds over the handles of a record, and resolving, rebasing
  and measuring a path are folds over its names.
- `ImplementsLine` of `Tty`: the transfer selects the characters of a queue with
  `SelectSeq`, about which the library has no theorem and which is recursive.

## Not modelled

- Register contents and window spills, nested exceptions, trace output, the
  probes of `main` before interrupts are enabled.
- The reads of the 52-bit counter and the `milli_*` delays made of them, which
  nothing in the tree calls. `syn_alrm_task`: `main` leaves it stopped, so a
  synchronous alarm is recorded and never forwarded. Tick accounting
  (`cp32_clock_charge`), but for the totals in `Application`.
- The frames of `sendsig` and `sigreturn`, reads and writes of trace, and the
  address translation of `umap`; MM's half of the signal protocol does not exist
  in the tree.
- Echo and the screen, the key matrix, SPI and I2C transfers, the second console,
  serial lines and pseudo terminals, and the sgtty calls, which are compiled out.
- The RAM disk of the recovery build, an array.
- A write past the end of a file after an interrupted truncate may bring back old
  zones (`fs/create.c:793`); `NoStaleData` promises nothing there, as no document
  does. A second waiting ioctl would replace the first (`kernel/tty.c:484`); FS,
  the only caller, waits for each. CLOCK may signal a process that exits between
  the test of its alarm and `cause_sig` (`kernel/clock.c:377`); no program sets an
  alarm.
- Parsing of command lines, printing, the programs under `apps/` and their heap,
  sequential code over sbrk.
