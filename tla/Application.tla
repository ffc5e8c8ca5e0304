---------------------------- MODULE Application ----------------------------
(***************************************************************************)
(* The application broker: the loop of cp32_application_run, in which FS   *)
(* serves one program launched by the shell, and kernel/fork.c, which lets *)
(* that program have one child at a time. Programs run at a fixed address, *)
(* so a fork saves the parent's memory in a block of MM, the child runs in *)
(* its place, and its exit puts the parent back. exec stages the new image *)
(* in a block of MM as well. FS waits for MM inside a request; after exec  *)
(* the new program already runs while FS still gives the block back.       *)
(*                                                                         *)
(* The IPC underneath is Proc; a call of a program is here a request that  *)
(* FS finds when it next receives. Files are in FileDes; of the process    *)
(* record only its owner is kept.  Program files are those of Image.       *)
(***************************************************************************)
EXTENDS Image, FiniteSets, FiniteSetsExt

CONSTANTS NSlots,     \* user slots of the process table (NR_PROCS - LOW_USER - 1)
          PidMin, PidMax,                          \* 100 and 30000
          NWaits,     \* exit statuses kept (8)
          Images,     \* the files of the programs
          Arguments,  \* argument vectors a program can be started with
          Increments, \* arguments of sbrk
          NBlocks,    \* blocks MM could hand out
          Ops,        \* requests programs make
          MaxTicks    \* bound on the ticks charged

Programs == DOMAIN Images
Slots == 1..NSlots
Blocks == 1..NBlocks
Pids == PidMin..PidMax
NoSlot == 0
NoBlock == 0

ASSUME BrokerAssumption ==
  /\ NSlots \in Nat \ {0} /\ NWaits \in Nat \ {0} /\ NBlocks \in Nat
  /\ PidMin \in Nat \ {0} /\ PidMax \in Nat /\ MaxTicks \in Nat
  /\ Images \in [Programs -> File] /\ Arguments \subseteq Seq(Nat) /\ Increments \subseteq Int

VARIABLES
  proc,      \* the process table: flags, pid, pending request, ticks
  broker,    \* where FS is, the request, its result, the block and pid it works with
  app_busy, app_endpoint,
  active,    \* child, parent_pid, heap_floor and heap_break of cp32_application_run
  forked,    \* parent, base, floor, brk, ppid and slot of fork.c
  waits,     \* its table of exit statuses
  image,     \* the fixed-address memory: which program, and what it wrote
  staged,    \* the contents of the blocks
  owned,     \* the blocks MM has handed out to FS
  files,     \* the pid of the active process record, and of the one a fork saved
  next_pid,
  fsTicks,   \* child_utime of FS
  atFork,    \* history: what the parent had when it forked
  unwaited,  \* history: <<pid, status>> of children that ended
  charged    \* history: all ticks charged

vars == <<proc, broker, app_busy, app_endpoint, active, forked, waits, image, staged,
          owned, files, next_pid, fsTicks, atFork, unwaited, charged>>

Nobody == [pid |-> 0, status |-> 0]
NoImage == [prog |-> "none", data |-> 0, sp |-> 0]
Loaded(prog, args) == [prog |-> prog, data |-> 0, sp |-> cp32_exec_stack(args)]
Free == [flags |-> "free", pid |-> 0, req |-> [op |-> "none"], own |-> 0, child |-> 0]
NotForked == [parent |-> NoSlot, base |-> NoBlock, floor |-> 0, brk |-> 0, ppid |-> 0, slot |-> 1]
Gone == [child |-> NoSlot, ppid |-> 0, floor |-> 0, brk |-> 0]
ShellPid == 0 - 1                     \* the pid of FS, outside 100..30000
NoFork == [image |-> NoImage, active |-> Gone, files |-> 0]
Idle == [at |-> "idle", m |-> [op |-> "none"], result |-> 0, base |-> NoBlock, pid |-> 0]

Requests ==
  {r \in [op : {"exit"}, status : 0..1] \cup [op : {"getpid", "getppid", "other", "fork", "badfork"}]
         \cup [op : {"wait"}, pid : Pids \cup {0 - 1, 0}, ptr : BOOLEAN, options : BOOLEAN]
         \cup [op : {"exec"}, prog : Programs, args : Arguments]
         \cup [op : {"sbrk"}, inc : Increments] : r.op \in Ops}

---------------------------------------------------------------------------
(* Process identifiers and slots *)

\* process_pid_free and cp32_fork_pid_used.
Used == {proc[n].pid : n \in {k \in Slots : proc[k].flags # "free"}}
          \cup {waits[i].pid : i \in 1..NWaits}

\* application_pid: the next identifier, round and round, that nobody has.
application_pid(from) ==
  LET after[k \in 0..(PidMax - PidMin + 1)] ==
        IF k = 0 THEN from ELSE IF after[k - 1] < PidMax THEN after[k - 1] + 1 ELSE PidMin
      free == {k \in 1..(PidMax - PidMin + 1) : after[k] \notin Used}
  IN IF free = {} THEN 0 - 1 ELSE after[Min(free)]

FreeSlots == {n \in Slots : proc[n].flags = "free"}

\* cp32_proc_release: of a process that waits for FS; its time goes to FS.
cp32_proc_release(table, n) == [table EXCEPT ![n] = Free]
TimeOf(table, n) == IF table[n].flags = "receiving" THEN table[n].own + table[n].child ELSE 0

---------------------------------------------------------------------------
(* Launch *)

Launch ==
  LET pid == application_pid(next_pid)
      n == Min(FreeSlots)
  IN /\ broker.at = "idle" /\ ~app_busy /\ pid > 0 /\ FreeSlots # {}
     /\ next_pid' = pid
     /\ proc' = [proc EXCEPT ![n] = [Free EXCEPT !.flags = "nomap", !.pid = pid]]
     /\ app_busy' = TRUE /\ app_endpoint' = n
     /\ active' = [child |-> n, ppid |-> ShellPid, floor |-> 0, brk |-> 0]
     /\ broker' = [broker EXCEPT !.at = "load"]
     /\ UNCHANGED <<forked, waits, image, staged, owned, files, fsTicks, atFork, unwaited, charged>>

\* The image is read into place, the stack built, the record cloned; publish.
Load(prog, args) ==
  LET floor == HeapFloor(Images[prog])
  IN /\ broker.at = "load"
     /\ cp32_image_read(Images[prog]) /\ cp32_exec_stack(args) # Refused
     /\ image' = Loaded(prog, args)
     /\ active' = [active EXCEPT !.floor = floor, !.brk = floor]
     /\ files' = [files EXCEPT !.app = proc[active.child].pid]
     /\ proc' = [proc EXCEPT ![active.child].flags = "ready"]
     /\ broker' = [broker EXCEPT !.at = "receive"]
     /\ UNCHANGED <<app_busy, app_endpoint, forked, waits, staged, owned, next_pid, fsTicks,
                    atFork, unwaited, charged>>

\* What is in place when the launch fails: nothing new when the header is
\* refused or not read, nothing at all when a segment is not read, the program
\* when its arguments are too long or there is no room for the record.
Partial(prog, args) ==
  {image} \cup IF cp32_image_read(Images[prog]) THEN {NoImage, Loaded(prog, args)} ELSE {}

LoadFails(prog, args) ==
  /\ broker.at = "load"
  /\ image' \in Partial(prog, args)
  /\ proc' = cp32_proc_release(proc, active.child) /\ fsTicks' = fsTicks + TimeOf(proc, active.child)
  /\ app_busy' = FALSE /\ app_endpoint' = NoSlot /\ active' = Gone /\ broker' = Idle
  /\ files' = [files EXCEPT !.app = 0]
  /\ UNCHANGED <<forked, waits, staged, owned, next_pid, atFork, unwaited, charged>>

---------------------------------------------------------------------------
(* The program. Its calls check that it is the process FS listens to. *)

Call(n, req) ==
  /\ proc[n].flags = "ready"
  /\ req.op = "exit" \/ (app_busy /\ app_endpoint = n)
  /\ proc' = [proc EXCEPT ![n].flags = "sending", ![n].req = req]
  /\ UNCHANGED <<broker, app_busy, app_endpoint, active, forked, waits, image, staged, owned,
                 files, next_pid, fsTicks, atFork, unwaited, charged>>

Compute(n) ==
  /\ proc[n].flags = "ready"
  /\ image' = [image EXCEPT !.data = 1 - @]
  /\ \E t \in {0, 1} :
       /\ charged + t <= MaxTicks /\ charged' = charged + t
       /\ proc' = [proc EXCEPT ![n].own = @ + t]
  /\ UNCHANGED <<broker, app_busy, app_endpoint, active, forked, waits, staged, owned, files,
                 next_pid, fsTicks, atFork, unwaited>>

---------------------------------------------------------------------------
(* The loop of cp32_application_run *)

Receive ==
  /\ broker.at = "receive" /\ proc[app_endpoint].flags = "sending"
  /\ broker' = [Idle EXCEPT !.at = "serve", !.m = proc[app_endpoint].req]
  /\ proc' = [proc EXCEPT ![app_endpoint].flags = "receiving", ![app_endpoint].req = [op |-> "none"]]
  /\ UNCHANGED <<app_busy, app_endpoint, active, forked, waits, image, staged, owned, files,
                 next_pid, fsTicks, atFork, unwaited, charged>>

Answer(r) == broker' = [broker EXCEPT !.at = "reply", !.result = r]

\* The reply, to the child after a fork and to the parent after its exit. A
\* program that exec started gets none.
Reply ==
  /\ broker.at = "reply"
  /\ broker' = [Idle EXCEPT !.at = "receive"]
  /\ app_endpoint' = active.child
  /\ proc' = IF broker.m.op = "exec" /\ broker.result = 0 THEN proc
             ELSE [proc EXCEPT ![active.child].flags = "ready"]
  /\ UNCHANGED <<app_busy, active, forked, waits, image, staged, owned, files,
                 next_pid, fsTicks, atFork, unwaited, charged>>

Query ==
  /\ broker.at = "serve" /\ broker.m.op \in {"getpid", "getppid"}
  /\ Answer(IF broker.m.op = "getpid" THEN proc[active.child].pid ELSE active.ppid)
  /\ UNCHANGED <<proc, app_busy, app_endpoint, active, forked, waits, image, staged, owned,
                 files, next_pid, fsTicks, atFork, unwaited, charged>>

\* Reads, writes and file requests: a count, the end, or an error.
Transfer ==
  /\ broker.at = "serve" /\ broker.m.op = "other"
  /\ \E r \in {0 - 1, 0, 1} : Answer(r)
  /\ UNCHANGED <<proc, app_busy, app_endpoint, active, forked, waits, image, staged, owned,
                 files, next_pid, fsTicks, atFork, unwaited, charged>>

\* application_break.
breakUnchecked(floor, brk, inc) == TRUE
BreakFits(floor, brk, inc) ==
  /\ brk >= floor /\ brk <= CP32_APP_STACK
  /\ IF inc >= 0 THEN inc <= CP32_APP_STACK - brk ELSE 0 - inc <= brk - floor

Sbrk ==
  /\ broker.at = "serve" /\ broker.m.op = "sbrk"
  /\ IF BreakFits(active.floor, active.brk, broker.m.inc)
       THEN active' = [active EXCEPT !.brk = @ + broker.m.inc] /\ Answer(active.brk)
       ELSE UNCHANGED active /\ Answer(0 - 1)
  /\ UNCHANGED <<proc, app_busy, app_endpoint, forked, waits, image, staged, owned, files,
                 next_pid, fsTicks, atFork, unwaited, charged>>

\* cp32_fork_wait: the pointer is checked before the status is given up.
Wait ==
  LET m == broker.m
      found == {i \in 1..NWaits : waits[i].pid # 0 /\ m.pid \in {0 - 1, waits[i].pid}}
      i == Min(found)
  IN /\ broker.at = "serve" /\ m.op = "wait"
     /\ IF m.options \/ (m.pid # 0 - 1 /\ m.pid <= 0)
          THEN Answer(0 - 22) /\ UNCHANGED <<waits, unwaited>>
        ELSE IF forked.parent # NoSlot \/ found = {}
          THEN Answer(0 - 10) /\ UNCHANGED <<waits, unwaited>>
        ELSE IF m.ptr
          THEN Answer(0 - 14) /\ UNCHANGED <<waits, unwaited>>
        ELSE /\ Answer(waits[i].pid)
             /\ waits' = [waits EXCEPT ![i] = Nobody]
             /\ unwaited' = unwaited \ {<<waits[i].pid, waits[i].status>>}
     /\ UNCHANGED <<proc, app_busy, app_endpoint, active, forked, image, staged, owned, files,
                    next_pid, fsTicks, atFork, charged>>

---------------------------------------------------------------------------
(* MM answers a request of FS. Other owners may have taken what there is. *)

Grantable == Blocks \ owned

MMAllocates ==
  /\ broker.at \in {"allocFork", "allocExec"}
  /\ \E b \in Grantable \cup {NoBlock} :
       /\ broker' = [broker EXCEPT !.base = b,
                       !.at = IF @ = "allocFork" THEN "copyFork" ELSE "copyExec"]
       /\ owned' = owned \cup ({b} \ {NoBlock})
  /\ UNCHANGED <<proc, app_busy, app_endpoint, active, forked, waits, image, staged, files,
                 next_pid, fsTicks, atFork, unwaited, charged>>

MMReleases ==
  /\ broker.at = "release"
  /\ owned' = owned \ {broker.base} /\ staged' = [staged EXCEPT ![broker.base] = NoImage]
  /\ broker' = [broker EXCEPT !.at = "reply", !.base = NoBlock]
  /\ UNCHANGED <<proc, app_busy, app_endpoint, active, forked, waits, image, files, next_pid,
                 fsTicks, atFork, unwaited, charged>>

---------------------------------------------------------------------------
(* Fork *)

Fork ==
  LET pid == application_pid(next_pid)
      empty == {i \in 1..NWaits : waits[i].pid = 0}
  IN /\ broker.at = "serve" /\ broker.m.op \in {"fork", "badfork"}
     /\ next_pid' = IF pid > 0 THEN pid ELSE next_pid
     /\ IF broker.m.op = "badfork" THEN Answer(0 - 22)
        ELSE IF forked.parent # NoSlot \/ pid <= 0 \/ empty = {} THEN Answer(0 - 11)
        ELSE broker' = [broker EXCEPT !.at = "allocFork", !.pid = pid]
     /\ UNCHANGED <<proc, app_busy, app_endpoint, active, forked, waits, image, staged, owned,
                    files, fsTicks, atFork, unwaited, charged>>

\* The block is given back, and the caller gets r.
Undo(r) == broker' = [broker EXCEPT !.at = "release", !.result = r]

\* cp32_proc_clone, and the reply 0 the child waits for.
cloneKeepsPid(n, pid) == [proc EXCEPT ![n] = [proc[active.child] EXCEPT !.own = 0, !.child = 0]]
Clone(n, pid) ==
  [proc EXCEPT ![n] = [proc[active.child] EXCEPT !.pid = pid, !.own = 0, !.child = 0]]

\* The last empty entry is reserved for the child's status.
firstEntry == 1
WaitEntry == Max({i \in 1..NWaits : waits[i].pid = 0})

ForkCopy ==
  LET parent == active.child
      n == Min(FreeSlots)
  IN /\ broker.at = "copyFork" /\ broker.base # NoBlock
     /\ staged' = [staged EXCEPT ![broker.base] = image]
     /\ \/ \* cp32_shell_app_files_fork finds no room; or there is no slot, and
           \* cp32_shell_app_files_restore takes the record back
           /\ \E r \in {0 - 23} \cup (IF FreeSlots = {} THEN {0 - 11} ELSE {}) : Undo(r)
           /\ UNCHANGED <<proc, active, forked, files, atFork>>
        \/ /\ FreeSlots # {}
           /\ proc' = Clone(n, broker.pid)
           /\ forked' = [parent |-> parent, base |-> broker.base, floor |-> active.floor,
                         brk |-> active.brk, ppid |-> active.ppid,
                         slot |-> WaitEntry]
           /\ active' = [active EXCEPT !.child = n, !.ppid = proc[parent].pid]
           /\ files' = [app |-> broker.pid, saved |-> files.app]
           /\ atFork' = [image |-> image, active |-> active, files |-> files.app]
           /\ broker' = [broker EXCEPT !.at = "reply", !.result = 0, !.base = NoBlock]
     /\ UNCHANGED <<app_busy, app_endpoint, waits, image, owned, next_pid, fsTicks, unwaited,
                    charged>>

retryForever ==
  /\ broker.at \in {"copyFork", "copyExec"} /\ broker.base = NoBlock
  /\ broker' = [broker EXCEPT !.at = IF @ = "copyFork" THEN "allocFork" ELSE "allocExec"]
  /\ UNCHANGED <<proc, app_busy, app_endpoint, active, forked, waits, image, staged, owned,
                 files, next_pid, fsTicks, atFork, unwaited, charged>>
NoMemory ==
  /\ broker.at \in {"copyFork", "copyExec"} /\ broker.base = NoBlock
  /\ Answer(0 - 12)
  /\ UNCHANGED <<proc, app_busy, app_endpoint, active, forked, waits, image, staged, owned,
                 files, next_pid, fsTicks, atFork, unwaited, charged>>

---------------------------------------------------------------------------
(* exec: application_replace *)

\* The request is checked and the file opened, or an error is the answer.
Exec ==
  /\ broker.at = "serve" /\ broker.m.op = "exec"
  /\ Answer(0 - 2) \/ broker' = [broker EXCEPT !.at = "allocExec"]
  /\ UNCHANGED <<proc, app_busy, app_endpoint, active, forked, waits, image, staged, owned,
                 files, next_pid, fsTicks, atFork, unwaited, charged>>

\* The image is staged; when all of it is there it replaces the program, which
\* is ready to run before its block is given back.
replaceInPlace(new) == [broker EXCEPT !.at = "reply", !.result = 0, !.base = NoBlock]
Committed(new) == [broker EXCEPT !.at = "release", !.result = 0]

ExecCopy ==
  LET file == Images[broker.m.prog]
      new == Loaded(broker.m.prog, broker.m.args)
      floor == HeapFloor(file)
  IN /\ broker.at = "copyExec" /\ broker.base # NoBlock
     /\ \/ \* not an image (ENOEXEC), or a read fails (EIO)
           /\ \E r \in {0 - 5} \cup (IF cp32_image_read(file) THEN {} ELSE {0 - 8}) : Undo(r)
           /\ UNCHANGED <<proc, active, image, staged>>
        \/ \* arguments too long (E2BIG)
           /\ cp32_image_read(file) /\ new.sp = Refused /\ Undo(0 - 7)
           /\ staged' = [staged EXCEPT ![broker.base] = new]
           /\ UNCHANGED <<proc, active, image>>
        \/ /\ cp32_image_read(file) /\ new.sp # Refused
           /\ staged' = [staged EXCEPT ![broker.base] = new]
           /\ image' = staged'[broker.base]
           /\ active' = [active EXCEPT !.floor = floor, !.brk = floor]
           /\ proc' = [proc EXCEPT ![active.child].flags = "ready"]
           /\ broker' = Committed(new)
     /\ UNCHANGED <<app_busy, app_endpoint, forked, waits, owned, files, next_pid, fsTicks,
                    atFork, unwaited, charged>>

---------------------------------------------------------------------------
(* Exit *)

\* cp32_fork_finish: the time of a child goes to its parent, once.
TimeToParent(table, child, parent) ==
  [table EXCEPT ![parent].child = @ + table[child].own + table[child].child,
                ![child].own = 0, ![child].child = 0]

\* What the parent gets back.
keepChildImage == image
SavedImage == staged[forked.base]
SavedRecord == [app |-> files.saved, saved |-> 0]

ChildExit ==
  LET child == active.child
      billed == TimeToParent(proc, child, forked.parent)
  IN /\ broker.at = "serve" /\ broker.m.op = "exit" /\ forked.parent # NoSlot
     /\ waits' = [waits EXCEPT ![forked.slot] = [pid |-> proc[child].pid, status |-> broker.m.status]]
     /\ unwaited' = unwaited \cup {<<proc[child].pid, broker.m.status>>}
     /\ files' = SavedRecord
     /\ fsTicks' = fsTicks + TimeOf(billed, child)
     /\ proc' = cp32_proc_release(billed, child)
     /\ image' = SavedImage
     /\ active' = [child |-> forked.parent, ppid |-> forked.ppid, floor |-> forked.floor,
                   brk |-> forked.brk]
     /\ forked' = NotForked
     /\ broker' = [broker EXCEPT !.at = "release", !.base = forked.base,
                                 !.result = proc[child].pid]
     /\ atFork' = NoFork
     /\ UNCHANGED <<app_busy, app_endpoint, staged, owned, next_pid, charged>>

Exit ==
  /\ broker.at = "serve" /\ broker.m.op = "exit" /\ forked.parent = NoSlot
  /\ waits' = [i \in 1..NWaits |-> Nobody] /\ unwaited' = {}       \* cp32_fork_reset
  /\ files' = [files EXCEPT !.app = 0]
  /\ fsTicks' = fsTicks + TimeOf(proc, active.child)
  /\ proc' = cp32_proc_release(proc, active.child)
  /\ app_busy' = FALSE /\ app_endpoint' = NoSlot /\ active' = Gone /\ broker' = Idle
  /\ UNCHANGED <<forked, image, staged, owned, next_pid, atFork, charged>>

---------------------------------------------------------------------------

Init ==
  /\ proc = [n \in Slots |-> Free] /\ broker = Idle /\ app_busy = FALSE
  /\ app_endpoint = NoSlot /\ active = Gone /\ forked = NotForked
  /\ waits = [i \in 1..NWaits |-> Nobody] /\ image = NoImage
  /\ staged = [b \in Blocks |-> NoImage] /\ owned = {} /\ files = [app |-> 0, saved |-> 0]
  /\ next_pid = PidMin - 1 /\ fsTicks = 0 /\ unwaited = {} /\ charged = 0
  /\ atFork = NoFork

Serve == Receive \/ Reply \/ Query \/ Transfer \/ Sbrk \/ Wait \/ Fork \/ Exec
           \/ ChildExit \/ Exit
Copy == ForkCopy \/ ExecCopy \/ NoMemory
MM == MMAllocates \/ MMReleases
LoadStep == \E prog \in Programs, args \in Arguments : Load(prog, args) \/ LoadFails(prog, args)
Program == \E n \in Slots : Compute(n) \/ \E req \in Requests : Call(n, req)

Next == Launch \/ LoadStep \/ Serve \/ Copy \/ MM \/ Program

Spec == Init /\ [][Next]_vars

\* FS runs when it is ready, and MM serves what it is sent (Proc).
FairSpec == Spec /\ WF_vars(LoadStep \/ Serve \/ Copy) /\ WF_vars(MM)

---------------------------------------------------------------------------
(* Properties *)

InUse == {n \in Slots : proc[n].flags # "free"}

\* The memory of every program, the one that runs and the one a fork suspended,
\* stays divided: its data end below its heap, the break lies between the floor
\* of the heap and the stack, and the arguments are aligned in the area at the
\* top (cp32_image_read, application_break, cp32_exec_stack), through exec in a
\* child, forks in mid-heap and the return to the parent.
Divided(im, floor, brk) ==
  /\ im.prog \in Programs
  /\ CP32_APP_DATA + Images[im.prog].data.memsz <= floor
  /\ floor <= brk /\ brk <= CP32_APP_STACK
  /\ CP32_APP_TOP - StackArea <= im.sp /\ im.sp < CP32_APP_TOP /\ Aligned(im.sp)
MemoryIsDivided ==
  /\ active.child # NoSlot /\ broker.at # "load" => Divided(image, active.floor, active.brk)
  /\ forked.parent # NoSlot => Divided(staged[forked.base], forked.floor, forked.brk)

\* None of the panics of the broker is reached: when FS serves a request, the
\* process record is the active process's ("FS process owner"), that process
\* waits for FS's reply ("exec blocked state", "app reap state"), and so does
\* the parent a child's exit is about to answer ("fork reply").
NoPanic ==
  broker.at \in {"serve", "allocFork", "allocExec", "copyFork", "copyExec"} =>
    /\ files.app = proc[active.child].pid /\ active.child = app_endpoint
    /\ proc[active.child].flags = "receiving"
    /\ forked.parent # NoSlot =>
         proc[forked.parent].flags = "receiving" /\ forked.parent # active.child

\* No two processes, and no process and a status nobody has collected yet,
\* share a pid, however often pids have wrapped (application_pid).
PidsAreUnique ==
  /\ \A i, j \in InUse : proc[i].pid = proc[j].pid => i = j
  /\ \A i \in 1..NWaits : waits[i].pid # 0 =>
       /\ \A n \in InUse : proc[n].pid # waits[i].pid
       /\ \A j \in 1..NWaits : waits[j].pid = waits[i].pid => i = j

\* The blocks FS holds are the one with the image of a suspended parent and the
\* one of the request it is working on: whatever failed, nothing is leaked, and
\* nothing is given back that is still needed.
BlocksAreAccounted ==
  /\ owned = {forked.base, broker.base} \ {NoBlock}
  /\ forked.base # NoBlock => forked.base # broker.base
  /\ forked.base # NoBlock <=> forked.parent # NoSlot

\* The slots in use are the active process's and its suspended parent's; there
\* is one program in the fixed-address memory and only it can run.
OneRuns ==
  /\ InUse = {active.child, forked.parent} \ {NoSlot}
  /\ \A n \in Slots : proc[n].flags \in {"ready", "sending"} =>
       n = active.child /\ n = app_endpoint /\ image # NoImage

\* Statuses are kept until they are waited for: the table holds every child
\* that ended and was not collected, with its own status.
StatusesAreKept ==
  {<<waits[i].pid, waits[i].status>> : i \in {k \in 1..NWaits : waits[k].pid # 0}} = unwaited

Billed(n) == IF n = NoSlot THEN 0 ELSE proc[n].own + proc[n].child

\* A tick is charged once: what FS and the processes in use, the active one and
\* its suspended parent, have been billed adds up to what was charged, through
\* fork, exec, exit and release.
TimeIsConserved == charged = fsTicks + Billed(active.child) + Billed(forked.parent)

\* A parent goes on where it forked: whatever the child wrote, allocated or
\* executed, its memory, its break, its parent and its record are back.
ParentIsRestored ==
  [][(forked.parent # NoSlot /\ forked'.parent = NoSlot) =>
       image' = atFork.image /\ active' = atFork.active /\ files'.app = atFork.files]_vars

\* Every request comes to an end: either the program is gone and the shell has
\* FS back, or a process runs again; the caller itself, the child it forked, the
\* program it became, or the parent it left.
RequestsEnd ==
  \A n \in Slots :
    proc[n].flags = "sending" ~> (broker.at = "idle" \/ \E k \in Slots : proc[k].flags = "ready")

=============================================================================
