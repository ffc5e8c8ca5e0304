------------------------------ MODULE FileDes ------------------------------
(***************************************************************************)
(* Descriptors: the open-file table of fs/filedes.c, the process records of*)
(* fs/fproc.c above it, and what moves handles between them: requests of   *)
(* the application (fs/appfile.c), the shell that launches it, fork, exec  *)
(* and exit (the FS side of kernel/cp32-shell.c). FS serves one request at *)
(* a time and the application waits for the answer, so a request is a step;*)
(* what goes wrong needs many requests.                                    *)
(*                                                                         *)
(* A path is the inode it resolves to, or 0 when there is no such name; an *)
(* inode has at most one name. Lengths count cells, as in Create. A request*)
(* may fail "before" its first store, with some stores made ("middle") or  *)
(* with all but the last ("after"). If a store failed, the device refuses  *)
(* writes from then on; if a read or a clock request did, it stays writable*)
(* and the next requests go on from what was left.                         *)
(***************************************************************************)
EXTENDS Integers, FiniteSets, FiniteSetsExt, Functions

CONSTANTS ProcFds,   \* CP32_FPROC_FDS (4)
          Machines   \* table sizes, and the requests made of each machine

VARIABLE machine

OpenMax == machine.open        \* CP32_OPEN_MAX (8)
NInodes == machine.inodes      \* regular files the volume has room for
MaxLen == machine.len          \* bound on sizes and offsets
Ops == machine.ops             \* the requests made
OpenFlags == machine.flags     \* the flags files are opened with

Flags == [access : {"r", "w", "rw"}, append : BOOLEAN, creat : BOOLEAN, excl : BOOLEAN,
          trunc : BOOLEAN]

ASSUME TableAssumption ==
  /\ ProcFds \in Nat \ {0}
  /\ \A m \in Machines : /\ {m.open, m.inodes} \subseteq Nat \ {0} /\ m.len \in Nat
                         /\ m.flags \subseteq Flags

Dir == 0 - 1                      \* one directory; it has a name for ever
Inodes == 1..NInodes
Slots == 1..OpenMax               \* slot+1 in the code: 0 is "closed"
Fds == 0..(OpenMax - 1)
Locals == 1..ProcFds              \* descriptors 3.. of an application

\* Results below zero (fs/const.h); Err stands for those not told apart.
Err == 0 - 3
NotFound == 0 - 5
Limit == 0 - 10

VARIABLES
  fs,        \* files, references, descriptors; the inodes they are about
  app,       \* cp32_app_state
  suspended, \* the fork parent's record, or Inactive
  shell,     \* the launch in progress: executable and cp32_shell_input_fd
  ro,        \* a store failed: the device refuses writes
  reply      \* answer to the last request, and the open file it was about

vars == <<machine, fs, app, suspended, shell, ro, reply>>

Inactive == [pid |-> FALSE, fds |-> [l \in Locals |-> 0], cloexec |-> {}, input |-> 0]
Quiet == [exe |-> 0, input_fd |-> 0 - 1, busy |-> FALSE]
NoFile == [inode |-> 0, position |-> 0, size |-> 0, access |-> "r", append |-> FALSE,
           pending |-> FALSE]
\* An inode; "cut" once a request failed half-way between it and its name.
NoInode == [used |-> FALSE, named |-> FALSE, links |-> 0, size |-> 0, cut |-> FALSE]
NewInode == [NoInode EXCEPT !.used = TRUE, !.named = TRUE, !.links = 1]

Named(t) == {i \in Inodes : t.ino[i].named}
Paths(t) == Named(t) \cup {0, Dir}
Unused(t) == {i \in Inodes : ~t.ino[i].used}
FreeFds(t) == {fd \in Fds : t.descriptors[fd] = 0}
FreeSlots(t) == {s \in Slots : t.references[s] = 0}
SizeOf(t, i) == IF i = Dir THEN MaxLen ELSE t.ino[i].size

---------------------------------------------------------------------------
(* fs/filedes.c *)

get_file(t, fd) == IF fd \in Fds THEN t.descriptors[fd] ELSE 0

\* cp32_fd_open: the lowest free descriptor and open file; read-only.
cp32_fd_open(t, i) ==
  IF FreeFds(t) = {} \/ FreeSlots(t) = {} THEN [fs |-> t, r |-> Limit]
  ELSE IF i = 0 THEN [fs |-> t, r |-> NotFound]
  ELSE LET fd == Min(FreeFds(t))
           s == Min(FreeSlots(t))
       IN [fs |-> [t EXCEPT !.files[s] = [NoFile EXCEPT !.inode = i, !.size = SizeOf(t, i)],
                            !.references[s] = 1, !.descriptors[fd] = s],
           r |-> fd]

\* cp32_fd_inode_open: the references to i, over all open files.
cp32_fd_inode_open(t, i) ==
  SumFunctionOnSet(t.references, {s \in Slots : t.files[s].inode = i})

\* refresh: the size is read again before it is used.
refresh(t, s) == [t EXCEPT !.files[s].size = SizeOf(t, t.files[s].inode)]

\* cp32_fs_reap_inode: what is left of an inode its last user closed. A count
\* a failed unlink left keeps it; a failed reap (of an inode in "bad") leaks it.
cp32_fs_reap_inode(t, i, bad) ==
  IF t.ino[i].links # 0 THEN t
  ELSE [t EXCEPT !.ino[i] = IF i \in bad THEN [@ EXCEPT !.cut = TRUE] ELSE NoInode]

\* cp32_fd_close. The descriptor goes whatever the reap says.
closeReapsEarly(t, fd, bad) ==
  LET s == t.descriptors[fd]
      i == t.files[s].inode
      t2 == [t EXCEPT !.references[s] = @ - 1, !.descriptors[fd] = 0]
  IN IF t.files[s].pending /\ t2.references[s] = 0
       THEN cp32_fs_reap_inode(t2, i, bad) ELSE t2

cp32_fd_close(t, fd, bad) ==
  LET s == t.descriptors[fd]
      i == t.files[s].inode
      t2 == [t EXCEPT !.references[s] = @ - 1, !.descriptors[fd] = 0]
  IN IF t.files[s].pending /\ cp32_fd_inode_open(t, i) = 1
       THEN cp32_fs_reap_inode(t2, i, bad) ELSE t2

\* cp32_fd_share: one more reference; an occupied target is closed first.
cp32_fd_share(t, source, target, bad) ==
  LET s == t.descriptors[source]
      t2 == IF t.descriptors[target] # 0 THEN cp32_fd_close(t, target, bad) ELSE t
  IN IF target = source THEN t
     ELSE [t2 EXCEPT !.descriptors[target] = s, !.references[s] = @ + 1]

\* cp32_fd_dup: F_DUPFD from 0.
cp32_fd_dup(t, fd) ==
  IF get_file(t, fd) = 0 THEN [fs |-> t, r |-> Err]
  ELSE IF FreeFds(t) = {} THEN [fs |-> t, r |-> Limit]
  ELSE [fs |-> cp32_fd_share(t, fd, Min(FreeFds(t)), {}), r |-> Min(FreeFds(t))]

\* cp32_fd_open_mode. A new file takes the lowest free inode, which stays
\* reserved when its name cannot be stored; the file stays when its mode cannot
\* be, and a failed truncation gives the descriptor back.
cp32_fd_open_mode(t, i, flags, allowed, fault) ==
  LET create == i = 0
      n == IF create THEN Min(Unused(t)) ELSE i
      t2 == IF create THEN [t EXCEPT !.ino[n] = NewInode] ELSE t
      leaked == [t EXCEPT !.ino[n] = [NewInode EXCEPT !.named = FALSE, !.cut = TRUE]]
      opened == cp32_fd_open(t2, n)
      s == opened.fs.descriptors[opened.r]
      cut == [opened.fs EXCEPT !.ino[n].size = 0]
      done == [(IF flags.trunc THEN cut ELSE opened.fs) EXCEPT
                 !.files[s].access = flags.access, !.files[s].append = flags.append]
  IN IF \/ flags.trunc /\ flags.access = "r"
        \/ flags.excl /\ ~flags.creat
        \/ FreeFds(t) = {}
       THEN [fs |-> t, r |-> IF FreeFds(t) = {} THEN Limit ELSE Err]
     ELSE IF create /\ ~flags.creat THEN [fs |-> t, r |-> NotFound]
     ELSE IF create /\ (Unused(t) = {} \/ fault = "before") THEN [fs |-> t, r |-> Err]
     ELSE IF create /\ fault # "none"
       THEN [fs |-> IF fault = "middle" THEN leaked ELSE t2, r |-> Err]
     ELSE IF ~create /\ ((flags.creat /\ flags.excl) \/ i = Dir \/ ~allowed)
       THEN [fs |-> t, r |-> Err]
     ELSE IF opened.r < 0 THEN [fs |-> t2, r |-> opened.r]
     ELSE IF flags.trunc /\ fault # "none"
       THEN [fs |-> cp32_fd_close(IF fault = "after" THEN cut ELSE opened.fs,
                                  opened.r, {}), r |-> Err]
     ELSE [fs |-> done, r |-> opened.r]

\* cp32_fd_read and cp32_fd_readdir: up to n cells at the shared offset.
readUnrefreshed(t, fd, n, fault) ==
  LET s == get_file(t, fd)
      f == t.files[s]
      k == Max({0, Min({n, f.size - f.position})})
  IN IF s = 0 \/ f.access = "w" \/ fault # "none" THEN [fs |-> t, r |-> Err]
     ELSE [fs |-> [t EXCEPT !.files[s].position = @ + k], r |-> k]

cp32_fd_read(t, fd, n, fault) ==
  LET s == get_file(t, fd)
      t2 == refresh(t, s)
      f == t2.files[s]
      k == Max({0, Min({n, f.size - f.position})})
  IN IF s = 0 \/ t.files[s].access = "w" THEN [fs |-> t, r |-> Err]
     ELSE IF fault # "none" THEN [fs |-> IF fault = "before" THEN t ELSE t2, r |-> Err]
     ELSE [fs |-> [t2 EXCEPT !.files[s].position = @ + k], r |-> k]

\* The inode after n cells stored at p: writes may leave a hole.
Stored(t, i, p, n) == [t EXCEPT !.ino[i].size = Max({@, p + n})]

\* cp32_fd_write: at the offset, or at the end as it is now (O_APPEND): the
\* size this open file knows, once it has been read again. The offset is
\* published for the cells that count as written: a write that fails in its
\* second fragment answers with the first.
WriteAt(t, s) == IF t.files[s].append THEN t.files[s].size ELSE t.files[s].position

cp32_fd_write(t, fd, n, fault) ==
  LET s == get_file(t, fd)
      t2 == refresh(t, s)
      i == t.files[s].inode
      p == WriteAt(t2, s)
      done == IF fault = "none" THEN n ELSE IF fault = "middle" THEN n - 1 ELSE 0
  IN IF t.files[s].access = "r" THEN [fs |-> t, r |-> Err]
     ELSE IF fault = "after" THEN [fs |-> Stored(t2, i, p, n), r |-> Err]
     ELSE IF done = 0 THEN [fs |-> t2, r |-> Err]
     ELSE [fs |-> [Stored(t2, i, p, done) EXCEPT !.files[s].position = p + done], r |-> done]

\* cp32_fd_pwrite: an explicit offset; the shared one is not touched.
cp32_fd_pwrite(t, fd, n, offset, fault) ==
  LET s == get_file(t, fd)
      i == t.files[s].inode
  IN IF t.files[s].access = "r" THEN [fs |-> t, r |-> Err]
     ELSE IF fault = "none" THEN [fs |-> Stored(t, i, offset, n), r |-> n]
     ELSE [fs |-> IF fault = "after" THEN Stored(t, i, offset, n) ELSE t, r |-> Err]

\* cp32_fd_truncate: neither offset nor known size changes.
cp32_fd_truncate(t, fd, length, fault) ==
  LET s == get_file(t, fd)
      t2 == [t EXCEPT !.ino[t.files[s].inode].size = length]
  IN IF t.files[s].access = "r" THEN [fs |-> t, r |-> Err]
     ELSE [fs |-> IF fault = "before" THEN t ELSE t2, r |-> IF fault = "none" THEN 0 ELSE Err]

\* cp32_fd_seek and cp32_minix_file_seek: set, current, end (of the size read
\* again); never below zero.
cp32_fd_seek(t, fd, offset, whence) ==
  LET s == get_file(t, fd)
      t2 == IF whence = 2 THEN refresh(t, s) ELSE t
      base == IF whence = 0 THEN 0 ELSE IF whence = 1 THEN t2.files[s].position
              ELSE t2.files[s].size
      p == base + offset
  IN IF p < 0 THEN [fs |-> t2, r |-> Err]
     ELSE [fs |-> [t2 EXCEPT !.files[s].position = p], r |-> p]

\* cp32_fd_defer_unlink, called by unlink before it removes the last name.
cp32_fd_defer_unlink(t, i) ==
  [t EXCEPT !.files = [s \in Slots |->
     IF t.references[s] > 0 /\ t.files[s].inode = i
       THEN [t.files[s] EXCEPT !.pending = TRUE] ELSE t.files[s]]]

\* cp32_minix_unlink, for what it does to descriptors (its stores: Create).
cp32_minix_unlink(t, i, fault) ==
  LET held == cp32_fd_inode_open(t, i) > 0
      t2 == cp32_fd_defer_unlink(t, i)
  IN CASE fault = "none" ->
            [t2 EXCEPT !.ino[i] = IF held THEN [@ EXCEPT !.named = FALSE, !.links = 0]
                                  ELSE NoInode]
       [] fault = "before" -> t2
       [] OTHER -> [t2 EXCEPT !.ino[i].named = FALSE, !.ino[i].cut = TRUE,
                              !.ino[i].links = IF held \/ fault = "middle" THEN 1 ELSE 0]

---------------------------------------------------------------------------
(* fs/fproc.c *)

\* cp32_fproc_exit closes every handle of the record.
cp32_fproc_exit(t, p, bad) ==
  LET shut(h, u) == IF h = 0 THEN u ELSE cp32_fd_close(u, h - 1, bad)
      fds == FoldSet(shut, t, {p.fds[l] : l \in Locals})
  IN [fs |-> shut(p.input, fds), p |-> Inactive]

\* A clone that failed gives back the handles it has got.
keepHandles(t, child) == t
GiveBack(t, child) == cp32_fproc_exit(t, child, {}).fs

\* cp32_fproc_clone: a handle of its own for each of the parent's, or none.
cp32_fproc_clone(t, parent) ==
  LET handle(n) == IF n \in Locals THEN parent.fds[n] ELSE parent.input
      c[n \in 0..(ProcFds + 1)] ==
        IF n = 0 THEN [fs |-> t, p |-> [parent EXCEPT !.fds = [l \in Locals |-> 0],
                                                      !.input = 0], r |-> 0]
        ELSE IF c[n - 1].r < 0 \/ handle(n) = 0 THEN c[n - 1]
        ELSE LET dup == cp32_fd_dup(c[n - 1].fs, handle(n) - 1)
             IN IF dup.r < 0 THEN [c[n - 1] EXCEPT !.r = dup.r]
                ELSE [fs |-> dup.fs, r |-> 0,
                      p |-> IF n \in Locals THEN [c[n - 1].p EXCEPT !.fds[n] = dup.r + 1]
                            ELSE [c[n - 1].p EXCEPT !.input = dup.r + 1]]
      all == c[ProcFds + 1]
  IN IF all.r < 0 THEN [fs |-> GiveBack(all.fs, all.p), p |-> Inactive, r |-> all.r]
     ELSE all

\* cp32_fproc_exec closes what is marked close-on-exec.
cp32_fproc_exec(t, p, bad) ==
  LET shut(h, u) == cp32_fd_close(u, h - 1, bad)
  IN [fs |-> FoldSet(shut, t, {p.fds[l] : l \in p.cloexec} \ {0}),
      p |-> [p EXCEPT !.fds = [l \in Locals |-> IF l \in p.cloexec THEN 0 ELSE p.fds[l]],
                      !.cloexec = {}]]

\* cp32_fproc_dup2: an occupied target keeps its backend descriptor.
cp32_fproc_dup2(t, p, source, target, bad) ==
  LET dup == cp32_fd_dup(t, p.fds[source] - 1)
      p2 == [p EXCEPT !.cloexec = @ \ {target}]
  IN IF source = target THEN [fs |-> t, p |-> p, r |-> target]
     ELSE IF p.fds[target] # 0
       THEN [fs |-> cp32_fd_share(t, p.fds[source] - 1, p.fds[target] - 1, bad),
             p |-> p2, r |-> target]
     ELSE IF dup.r < 0 THEN [fs |-> t, p |-> p, r |-> dup.r]
     ELSE [fs |-> dup.fs, p |-> [p2 EXCEPT !.fds[target] = dup.r + 1], r |-> target]

\* cp32_fproc_dupfd: the lowest free local descriptor from minimum.
cp32_fproc_dupfd(t, p, source, minimum) ==
  LET free == {l \in Locals : l >= minimum /\ p.fds[l] = 0}
      dup == cp32_fd_dup(t, p.fds[source] - 1)
  IN IF free = {} \/ dup.r < 0 THEN [fs |-> t, p |-> p, r |-> Limit]
     ELSE [fs |-> dup.fs, r |-> Min(free),
           p |-> [p EXCEPT !.fds[Min(free)] = dup.r + 1, !.cloexec = @ \ {Min(free)}]]

---------------------------------------------------------------------------
(* Requests of the application: cp32_fproc_file and cp32_shell_app_file. *)

\* How far a request that stores gets, and for which nameless inodes a request
\* that closes fails to give the storage back. Only a failed store or sync makes
\* the device refuse writes (kernel/rootdisk.c:31, 88).
Device == IF ro THEN {"before"} ELSE {"none", "before", "middle", "after"}
Reaps == LET nameless == {i \in Inodes : fs.ino[i].used /\ ~fs.ino[i].named}
         IN IF ro THEN {nameless} ELSE SUBSET nameless
Goes(works) == ro' \in IF works THEN {ro} ELSE {ro, TRUE}

Reply(op, r, s) == reply' = [op |-> op, r |-> r, slot |-> s]
Request(op) == op \in Ops /\ app.pid /\ UNCHANGED <<suspended, shell>>

FreeLocals == {l \in Locals : app.fds[l] = 0}
OpenLocals == {l \in Locals : app.fds[l] # 0}
SlotOf(l) == fs.descriptors[app.fds[l] - 1]
OfFile(l) == fs.files[SlotOf(l)].inode # Dir

\* CP32_APP_OPEN_MODE
OpenMode(i, flags, allowed, fault) ==
  LET o == cp32_fd_open_mode(fs, i, flags, allowed, fault)
      l == Min(FreeLocals)
  IN /\ Request("open_mode")
     /\ IF FreeLocals = {} THEN UNCHANGED <<fs, app, ro>> /\ Reply("open_mode", Limit, 0)
        ELSE /\ fs' = o.fs /\ Goes(fault = "none") /\ Reply("open_mode", o.r, 0)
             /\ app' = IF o.r < 0 THEN app
                       ELSE [app EXCEPT !.fds[l] = o.r + 1, !.cloexec = @ \ {l}]

\* CP32_APP_OPEN and CP32_APP_OPENDIR: a file, a directory; readable, or it
\* is closed again. The close-on-exec bit is not touched.
Open(op, i, allowed) ==
  LET o == cp32_fd_open(fs, i)
      wrong == i # 0 /\ ((op = "opendir") # (i = Dir) \/ ~allowed)
  IN /\ Request(op) /\ UNCHANGED ro
     /\ IF FreeLocals = {} \/ o.r < 0 \/ wrong
          THEN /\ fs' = IF FreeLocals = {} \/ o.r < 0 THEN fs
                        ELSE cp32_fd_close(o.fs, o.r, {})
               /\ UNCHANGED app /\ Reply(op, Err, 0)
          ELSE /\ fs' = o.fs /\ app' = [app EXCEPT !.fds[Min(FreeLocals)] = o.r + 1]
               /\ Reply(op, o.r, 0)

\* CP32_APP_CLOSE
Closed(p, l) == [p EXCEPT !.fds[l] = 0, !.cloexec = @ \ {l}]

Close(l, bad) ==
  /\ Request("close") /\ l \in OpenLocals /\ Goes(bad = {})
  /\ fs' = cp32_fd_close(fs, app.fds[l] - 1, bad)
  /\ app' = Closed(app, l) /\ Reply("close", 0, 0)

\* CP32_APP_DUP and CP32_APP_DUPFD
DupFd(l, minimum) ==
  LET d == cp32_fproc_dupfd(fs, app, l, minimum)
  IN /\ Request("dup") /\ l \in OpenLocals /\ UNCHANGED ro
     /\ fs' = d.fs /\ app' = d.p /\ Reply("dup", d.r, 0)

\* CP32_APP_DUP2
Dup2(l, target, bad) ==
  LET d == cp32_fproc_dup2(fs, app, l, target, bad)
  IN /\ Request("dup2") /\ l \in OpenLocals /\ Goes(bad = {})
     /\ fs' = d.fs /\ app' = d.p /\ Reply("dup2", d.r, 0)

\* cp32_fproc_flags: F_SETFD is the record's, F_SETFL the open file's.
SetFd(l, on) ==
  /\ Request("setfd") /\ l \in OpenLocals /\ UNCHANGED <<fs, ro>>
  /\ app' = [app EXCEPT !.cloexec = IF on THEN @ \cup {l} ELSE @ \ {l}]
  /\ Reply("setfd", 0, SlotOf(l))

SetFl(l, on) ==
  /\ Request("setfl") /\ l \in OpenLocals /\ UNCHANGED <<app, ro>>
  /\ fs' = [fs EXCEPT !.files[SlotOf(l)].append = on]
  /\ Reply("setfl", 0, SlotOf(l))

\* CP32_APP_READ and CP32_APP_READDIR; APP_READ from redirected input. A read
\* fails before or after it has read the inode again; it may have to store the
\* access time.
ReadFaults == {"none", "before", "after"}
ReadVia(op, fd, n, fault) ==
  LET d == cp32_fd_read(fs, fd, n, fault)
  IN /\ Request(op) /\ Goes(fault = "none") /\ UNCHANGED app
     /\ fs' = d.fs /\ Reply(op, d.r, fs.descriptors[fd])
Read(l, n, fault) == l \in OpenLocals /\ ReadVia("read", app.fds[l] - 1, n, fault)
Input(n, fault) == app.input # 0 /\ ReadVia("input", app.input - 1, n, fault)

\* CP32_APP_PREAD: only the known size changes.
PRead(l) ==
  /\ Request("read") /\ l \in OpenLocals /\ OfFile(l) /\ fs.files[SlotOf(l)].access # "w"
  /\ fs' = refresh(fs, SlotOf(l)) /\ UNCHANGED <<app, ro>> /\ Reply("pread", 0, SlotOf(l))

\* CP32_APP_WRITE
Write(l, n, fault) ==
  LET d == cp32_fd_write(fs, app.fds[l] - 1, n, fault)
  IN /\ Request("write") /\ l \in OpenLocals /\ OfFile(l)
     /\ WriteAt(refresh(fs, SlotOf(l)), SlotOf(l)) + n <= MaxLen
     /\ Goes(fault = "none") /\ UNCHANGED app
     /\ fs' = d.fs /\ Reply("write", d.r, SlotOf(l))

\* CP32_APP_PWRITE and CP32_APP_FTRUNCATE
Resize(l, length, fault) ==
  /\ Request("resize") /\ l \in OpenLocals /\ OfFile(l) /\ Goes(fault = "none") /\ UNCHANGED app
  /\ \E d \in {cp32_fd_truncate(fs, app.fds[l] - 1, length, fault)}
              \cup {cp32_fd_pwrite(fs, app.fds[l] - 1, 1, offset, fault) :
                       offset \in {length - 1} \cap Nat} :
       fs' = d.fs /\ Reply("resize", d.r, SlotOf(l))

\* CP32_APP_SEEK_SET, SEEK_CUR and SEEK_END
Seek(l, offset, whence) ==
  LET d == cp32_fd_seek(fs, app.fds[l] - 1, offset, whence)
  IN /\ Request("seek") /\ l \in OpenLocals /\ OfFile(l) /\ d.r <= MaxLen
     /\ fs' = d.fs /\ UNCHANGED <<app, ro>> /\ Reply("seek", d.r, SlotOf(l))

\* CP32_APP_UNLINK
Unlink(i, fault) ==
  /\ Request("unlink") /\ i \in Named(fs) /\ Goes(fault = "none") /\ UNCHANGED app
  /\ fs' = cp32_minix_unlink(fs, i, fault) /\ Reply("unlink", 0, 0)

---------------------------------------------------------------------------
(* The life of a process, seen from FS (kernel/cp32-shell.c). *)

\* cp32_shell_open_file: a regular file, or the descriptor is closed again.
cp32_shell_open_file(t, i) ==
  LET o == cp32_fd_open(t, i)
  IN IF o.r >= 0 /\ i = Dir THEN [fs |-> t, r |-> Err] ELSE o

\* cp32_shell_app_files_start: the application's record from the shell's,
\* which lends it cp32_shell_input_fd.
cp32_shell_app_files_start(t, input_fd) ==
  cp32_fproc_clone(t, [Inactive EXCEPT !.pid = TRUE, !.input = input_fd + 1])

\* The end of cp32_shell_launch.
EndLaunch(t, input_fd, exe, bad) ==
  LET t2 == IF input_fd >= 0 THEN cp32_fd_close(t, input_fd, bad) ELSE t
  IN cp32_fd_close(t2, exe, bad)

\* cp32_shell_launch up to the first instruction of the application. With
\* "redirect", `from' is the file after <; loads is whether
\* cp32_application_run gets as far as the files.
Launch(i, redirect, from, loads) ==
  LET e == cp32_shell_open_file(fs, i)
      q == cp32_shell_open_file(e.fs, from)
      input_fd == IF redirect THEN q.r ELSE shell.input_fd
      t == IF redirect THEN q.fs ELSE e.fs
      c == cp32_shell_app_files_start(t, input_fd)
  IN /\ ~shell.busy /\ UNCHANGED <<suspended, ro>>
     /\ \/ e.r < 0 /\ UNCHANGED <<fs, app, shell>> /\ Reply("launch", e.r, 0)
        \/ /\ e.r >= 0 /\ redirect /\ q.r < 0
           /\ fs' = cp32_fd_close(q.fs, e.r, {})
           /\ shell' = [shell EXCEPT !.input_fd = q.r]
           /\ UNCHANGED app /\ Reply("launch", q.r, 0)
        \/ /\ e.r >= 0 /\ ~(redirect /\ q.r < 0) /\ (~loads \/ c.r < 0)
           /\ fs' = EndLaunch(IF loads THEN c.fs ELSE t, input_fd, e.r, {})
           /\ shell' = [shell EXCEPT !.input_fd = IF input_fd >= 0 THEN 0 - 1 ELSE input_fd]
           /\ UNCHANGED app /\ Reply("launch", 0 - 1, 0)
        \/ /\ e.r >= 0 /\ ~(redirect /\ q.r < 0) /\ loads /\ c.r >= 0
           /\ fs' = c.fs /\ app' = c.p
           /\ shell' = [exe |-> e.r, input_fd |-> input_fd, busy |-> TRUE]
           /\ Reply("launch", 0, 0)

\* cp32_shell_app_files_fork; the kernel may then have no process slot left,
\* and cp32_shell_app_files_restore takes everything back.
Fork(slot) ==
  LET c == cp32_fproc_clone(fs, app)
  IN /\ "fork" \in Ops /\ app.pid /\ ~suspended.pid /\ UNCHANGED <<shell, ro>>
     /\ IF c.r < 0 \/ ~slot
          THEN /\ fs' = IF c.r < 0 THEN c.fs ELSE cp32_fproc_exit(c.fs, c.p, {}).fs
               /\ UNCHANGED <<app, suspended>>
          ELSE fs' = c.fs /\ app' = c.p /\ suspended' = app
     /\ Reply("fork", IF slot THEN c.r ELSE Err, 0)

\* application_replace: a private descriptor for the image, closed before the
\* old image is given up.
Exec(i, loads, bad) ==
  LET e == cp32_fd_open_mode(fs, i, [access |-> "r", append |-> FALSE, creat |-> FALSE,
                                     excl |-> FALSE, trunc |-> FALSE], TRUE, "none")
      x == cp32_fproc_exec(cp32_fd_close(e.fs, e.r, bad), app, bad)
  IN /\ "exec" \in Ops /\ app.pid /\ UNCHANGED <<suspended, shell>>
     /\ IF e.r < 0 THEN UNCHANGED <<fs, app, ro>> /\ Reply("exec", e.r, 0)
        ELSE IF ~loads
          THEN /\ fs' = cp32_fd_close(e.fs, e.r, bad) /\ Goes(bad = {}) /\ UNCHANGED app
               /\ Reply("exec", Err, 0)
          ELSE fs' = x.fs /\ app' = x.p /\ Goes(bad = {}) /\ Reply("exec", 0, 0)

\* cp32_shell_app_files_restore
restoredCleared(parent) == [parent EXCEPT !.cloexec = {}]
Restored(parent) == parent

\* APP_EXIT: a fork's child gives way to its parent; otherwise the launch ends.
Exit(bad) ==
  LET x == cp32_fproc_exit(fs, app, bad)
  IN /\ app.pid /\ Goes(bad = {}) /\ Reply("exit", 0, 0)
     /\ IF suspended.pid
          THEN /\ fs' = x.fs /\ app' = Restored(suspended) /\ suspended' = Inactive
               /\ UNCHANGED shell
          ELSE /\ fs' = EndLaunch(x.fs, shell.input_fd, shell.exe, bad)
               /\ app' = Inactive /\ UNCHANGED suspended
               /\ shell' = [Quiet EXCEPT !.input_fd = IF shell.input_fd >= 0 THEN 0 - 1
                                                      ELSE shell.input_fd]

Init ==
  /\ machine \in Machines
  /\ fs = [files |-> [s \in Slots |-> NoFile], references |-> [s \in Slots |-> 0],
           descriptors |-> [fd \in Fds |-> 0],
           ino |-> [i \in Inodes |-> IF i = 1 THEN [NewInode EXCEPT !.size = MaxLen]
                                     ELSE NoInode]]
  /\ app = Inactive /\ suspended = Inactive /\ shell = Quiet /\ ro = FALSE
  /\ reply = [op |-> "", r |-> 0, slot |-> 0]

Next ==
  /\ \/ \E i \in Paths(fs), redirect \in BOOLEAN, loads \in BOOLEAN :
          \E from \in IF redirect THEN Paths(fs) ELSE {0} : Launch(i, redirect, from, loads)
     \/ \E i \in Paths(fs), flags \in OpenFlags, allowed \in BOOLEAN, fault \in Device :
          OpenMode(i, flags, allowed, fault)
     \/ \E op \in {"open", "opendir"}, i \in Paths(fs), allowed \in BOOLEAN : Open(op, i, allowed)
     \/ \E l \in Locals, bad \in Reaps : Close(l, bad)
     \/ \E l \in Locals, minimum \in Locals : DupFd(l, minimum)
     \/ \E l \in Locals, target \in Locals, bad \in Reaps : Dup2(l, target, bad)
     \/ \E l \in Locals, on \in BOOLEAN : SetFd(l, on) \/ SetFl(l, on)
     \/ \E l \in Locals, n \in 1..2, fault \in ReadFaults : Read(l, n, fault)
     \/ \E n \in 1..2, fault \in ReadFaults : Input(n, fault)
     \/ \E l \in Locals : PRead(l)
     \/ \E l \in Locals, n \in 1..2, fault \in Device : Write(l, n, fault)
     \/ \E l \in Locals, length \in 0..MaxLen, fault \in Device : Resize(l, length, fault)
     \/ \E l \in Locals, offset \in {0 - 1, 0, 1}, whence \in 0..2 : Seek(l, offset, whence)
     \/ \E i \in Inodes, fault \in Device : Unlink(i, fault)
     \/ \E slot \in BOOLEAN : Fork(slot)
     \/ \E i \in Paths(fs), loads \in BOOLEAN, bad \in Reaps : Exec(i, loads, bad)
     \/ \E bad \in Reaps : Exit(bad)
  /\ UNCHANGED machine

Spec == Init /\ [][Next]_vars

---------------------------------------------------------------------------
(* Properties *)

Handles(p) == {p.fds[l] : l \in Locals} \cup {p.input}
HandleCount(p) == Cardinality({l \in Locals : p.fds[l] # 0}) + (IF p.input = 0 THEN 0 ELSE 1)
LaunchFds == IF shell.busy THEN {shell.exe, shell.input_fd} \ {0 - 1} ELSE {}
OpenFds == {fd \in Fds : fs.descriptors[fd] # 0}
OpenSlots == {s \in Slots : fs.references[s] > 0}

FileType == [inode : {0, Dir} \cup Inodes, position : 0..MaxLen, size : 0..MaxLen,
             access : {"r", "w", "rw"}, append : BOOLEAN, pending : BOOLEAN]
ProcType == [pid : BOOLEAN, fds : [Locals -> 0..OpenMax], cloexec : SUBSET Locals,
             input : 0..OpenMax]

\* Every variable has its type, and the count of an open file is the number of
\* descriptors that share it: cp32_fd_share, cp32_fd_close (fs/filedes.c:211).
TypeOK ==
  /\ fs.files \in [Slots -> FileType]
  /\ fs.descriptors \in [Fds -> 0..OpenMax]
  /\ fs.ino \in [Inodes -> [used : BOOLEAN, named : BOOLEAN, links : 0..1, size : 0..MaxLen,
                          cut : BOOLEAN]]
  /\ app \in ProcType /\ suspended \in ProcType /\ ro \in BOOLEAN
  /\ \A s \in Slots :
       fs.references[s] = Cardinality({fd \in Fds : fs.descriptors[fd] = s})

\* Every open backend descriptor has exactly one owner: one local descriptor or
\* the input of the running process or of its suspended parent, or the launch.
\* Fork, its failures, dup2 onto an open descriptor, exec and exit neither
\* leak an entry of the eight nor leave a handle on one that was given away
\* (cp32_fproc_clone, fs/fproc.c:22); nor do they leave a close-on-exec bit on a
\* descriptor that is not open, which the next file opened there would inherit,
\* since CP32_APP_OPEN does not clear it (fs/appfile.c:187).
OwnedOnce ==
  /\ OpenFds = {h - 1 : h \in (Handles(app) \cup Handles(suspended)) \ {0}} \cup LaunchFds
  /\ Cardinality(OpenFds) =
       HandleCount(app) + HandleCount(suspended) + Cardinality(LaunchFds)
  /\ \A p \in {app, suspended} : \A l \in p.cloexec : p.fds[l] # 0

\* Storage lives exactly as long as it is open or has a name: the inode of an
\* open file stays allocated, whoever unlinked it and however many descriptors,
\* open files and processes share it; when its last name is gone every one of
\* its open files knows, so whichever closes last frees it; and a nameless inode
\* is held by an open file, so exit, exec, dup2 and a failed open free it too.
\* The one exception is an inode whose own create, unlink or reap was cut short
\* half-way: it leaks, "rather than retrying/freeing twice" (fs/filedes.c:210),
\* whether or not the device is still writable (fs/create.c:546).
OpenIsKept ==
  /\ \A s \in OpenSlots : fs.files[s].inode # Dir =>
       LET node == fs.ino[fs.files[s].inode]
       IN /\ node.used
          /\ ~node.named /\ node.links = 0 => fs.files[s].pending
  /\ \A i \in Inodes : fs.ino[i].used /\ ~fs.ino[i].named =>
       \/ fs.ino[i].cut
       \/ \E s \in OpenSlots : fs.files[s].inode = i /\ fs.files[s].pending

\* What a suspended parent has open, it finds open: whatever its child does, no
\* handle of the parent comes to mean another open file or another inode
\* (cp32_shell_app_files_fork and _restore, kernel/cp32-shell.c:732-746).
ParentKeepsFiles ==
  [][suspended.pid =>
       LET now == IF suspended'.pid THEN suspended' ELSE app'
       IN /\ now = suspended
          /\ \A h \in Handles(suspended) \ {0} :
               LET s == fs.descriptors[h - 1]
               IN /\ fs'.descriptors[h - 1] = s /\ s # 0
                  /\ fs'.files[s].inode = fs.files[s].inode]_vars

\* No open file acts on a size that another has changed since: the cells a write
\* with O_APPEND answers for start at the end of the file as it then is, also when
\* the write is cut short (cp32_fd_write, line 130),
\* and a read answers "end of file" only at the end of the file as it is, not as
\* it was when it was opened (refresh, line 73).
SizesAreFresh ==
  [][LET s == reply'.slot IN
     /\ (reply'.op = "write" /\ reply'.r > 0 /\ fs.files[s].append) =>
          fs'.files[s].position = SizeOf(fs, fs.files[s].inode) + reply'.r
     /\ (reply'.op \in {"read", "input"} /\ reply'.r = 0) =>
          fs'.files[s].position >= SizeOf(fs', fs'.files[s].inode)]_vars

\* A launch without redirection that loads starts, on the console: "Subsequent
\* launches again use TTY" (docs/application-execution.md:642).
LaunchesUseTty ==
  [][(\E i \in Named(fs) : Launch(i, FALSE, 0, TRUE)) => app'.pid /\ app'.input = 0]_vars

============================================================================
