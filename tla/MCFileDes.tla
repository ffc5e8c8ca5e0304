----------------------------- MODULE MCFileDes -----------------------------
(* Instances of FileDes. *)
EXTENDS FileDes

Flag(access, append, creat, excl, trunc) ==
  [access |-> access, append |-> append, creat |-> creat, excl |-> excl, trunc |-> trunc]

\* Who holds what, in a table that fills up: no data moves.
Owners == [open |-> 4, inodes |-> 2, len |-> 0,
           ops |-> {"open_mode", "open", "close", "dup2", "setfd", "unlink", "fork", "exec"},
           flags |-> {Flag("r", FALSE, TRUE, FALSE, FALSE)}]

\* Offsets and sizes, of one file.
Data == [open |-> 3, inodes |-> 1, len |-> 2,
         ops |-> {"open_mode", "opendir", "close", "dup", "setfl", "read", "input", "write",
                  "resize", "seek"},
         flags |-> {Flag("w", TRUE, TRUE, FALSE, FALSE), Flag("w", TRUE, TRUE, TRUE, FALSE),
                    Flag("rw", FALSE, FALSE, FALSE, TRUE)}]

\* Launches alone.
Launches == [open |-> 3, inodes |-> 1, len |-> 0, ops |-> {}, flags |-> {}]

BothMachines == {Owners, Data}
LaunchMachines == {Launches}

\* Backend numbers are names: two states in which the same owners share the
\* same open files are the same state, provided nothing is owned twice. The
\* last answer is what the action properties look at.
View ==
  LET held(h) == IF h = 0 THEN 0 ELSE fs.descriptors[h - 1]
      hs == [n \in 1..(2 * ProcFds + 4) |->
               IF n <= ProcFds THEN app.fds[n]
               ELSE IF n <= 2 * ProcFds THEN suspended.fds[n - ProcFds]
               ELSE IF n = 2 * ProcFds + 1 THEN app.input
               ELSE IF n = 2 * ProcFds + 2 THEN suspended.input
               ELSE IF ~shell.busy THEN 0
               ELSE IF n = 2 * ProcFds + 3 THEN shell.exe + 1 ELSE Max({0, shell.input_fd + 1})]
      share(n) == {m \in DOMAIN hs : held(hs[m]) = held(hs[n])}
  IN <<machine, [n \in DOMAIN hs |-> IF held(hs[n]) = 0 THEN hs[n]
                            ELSE <<Min(share(n)), fs.files[held(hs[n])]>>],
       fs.ino, app.pid, app.cloexec, suspended.pid, suspended.cloexec, ro,
       shell.busy, shell.input_fd < 0 - 1, OwnedOnce /\ TypeOK>>
=============================================================================
