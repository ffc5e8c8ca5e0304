------------------------------ MODULE WorkDir ------------------------------
(***************************************************************************)
(* Working directories. A process keeps the canonical path of its working  *)
(* directory, not the directory (fs/fproc.h), so whoever moves or removes a*)
(* directory has to look at every record: the shell's, the application's,  *)
(* its suspended fork parent's, and the shell's previous directory.        *)
(* fs/rename.c, cp32_fproc_rmdir (fs/appfile.c), cp32_minix_chdir          *)
(* (fs/stadir.c), cp32_minix_abspath (fs/path.c) and the shell's cd, mv,   *)
(* mkdir and rmdir. The stores of a move or a removal are in Create; here  *)
(* one is a step, which may be cut short wherever it reads, stores or asks *)
(* for the time. A failed store leaves the device read-only; a failed read *)
(* or clock request leaves it writable, and the system goes on.            *)
(*                                                                         *)
(* A path is the sequence of its components, <<>> being the root; each     *)
(* component of name n takes NameLen[n] + 1 characters of a path.          *)
(***************************************************************************)
EXTENDS Integers, Sequences, FiniteSets, SequencesExt, Folds

CONSTANTS NDirs,     \* directories the volume has room for, besides the root
          NameLen,   \* the names in use, and the length of each
          PathMax,   \* CP32_MINIX_PATH_MAX (255)
          Args       \* the paths of requests

Names == DOMAIN NameLen
Root == 0
Dirs == 1..NDirs

ASSUME PathAssumption ==
  /\ NDirs \in Nat /\ PathMax \in Nat
  /\ \A n \in Names : NameLen[n] \in Nat \ {0}
  /\ Names \cap {"", ".", ".."} = {}
  /\ \A arg \in Args :
       /\ arg.absolute \in BOOLEAN
       /\ arg.path \in Seq(Names \cup {".."}) \ {<<>>}

VARIABLES
  tree,      \* <<parent, name>> of each directory; Gone when it does not exist
  shell,     \* cp32_shell_state
  app,       \* cp32_app_state
  suspended, \* the fork parent's record
  previous,  \* cp32_shell_previous
  ro,        \* a store failed: the device refuses writes
  cut        \* a move failed after it had stored the new name

disk == <<tree, ro, cut>>
vars == <<disk, shell, app, suspended, previous>>

Nothing == 0 - 1
Gone == <<Nothing, "">>
NoPath == <<"..">>                  \* the empty string of cp32_shell_previous

\* A record: whether its pid is set, its path, and the directory it changed to.
Inactive == [pid |-> FALSE, cwd |-> <<>>, at |-> Root]

\* A request cut short may leave a directory allocated and without a name: it
\* still counts in the links of its parent p, or no longer.
Leaked(p) == {<<p, ".">>, <<Nothing, ".">>}

Exists(t, d) == d = Root \/ t[d][2] \in Names

\* What keeps d from being removed: its entries, and the links of leaked ones.
\* (The link too many a failed move may leave would only refuse more.)
Children(t, d) == {c \in Dirs : t[c][1] = d}

\* One component of cp32_fs_resolve_path: dot-dot of the root is the root.
Step(t, d, n) ==
  IF d = Nothing THEN Nothing
  ELSE IF n = ".." THEN IF d = Root THEN Root ELSE t[d][1]
  ELSE LET c == {e \in Children(t, d) : t[e][2] = n}
       IN IF c = {} THEN Nothing ELSE CHOOSE e \in c : TRUE

Resolve(t, path) == FoldLeft(LAMBDA d, n : Step(t, d, n), Root, path)

PathLen(path) ==
  IF path = <<>> THEN 1
  ELSE FoldLeft(LAMBDA k, n : k + 1 + (IF n = ".." THEN 2 ELSE NameLen[n]), 0, path)

\* cp32_minix_abspath: an argument is absolute or starts from cwd.
cp32_minix_abspath(cwd, arg) == IF arg.absolute THEN arg.path ELSE cwd \o arg.path
TooLong(path) == PathLen(path) > PathMax

\* The canonical form cp32_minix_chdir makes.
Canonical(path) ==
  FoldLeft(LAMBDA c, n : IF n # ".." THEN Append(c, n)
                         ELSE IF c = <<>> THEN c ELSE Front(c), <<>>, path)

\* cp32_minix_chdir: nothing is published unless the path resolves, and its
\* canonical form to the same directory.
cp32_minix_chdir(t, cwd, arg) ==
  LET full == cp32_minix_abspath(cwd, arg)
      canonical == Canonical(full)
  IN IF TooLong(full) \/ Resolve(t, full) = Nothing
        \/ Resolve(t, canonical) # Resolve(t, full)
       THEN [ok |-> FALSE, cwd |-> cwd] ELSE [ok |-> TRUE, cwd |-> canonical]

Under(path, old) == Len(path) >= Len(old) /\ SubSeq(path, 1, Len(old)) = old

\* rebase: a path at or below old moves with it.
rebase(path, old, new) ==
  IF path # NoPath /\ Under(path, old) THEN new \o SubSeq(path, Len(old) + 1, Len(path))
  ELSE path

\* The records a move or a removal looks at besides the caller's.
Others(other) == {p \in {other, suspended} : p.pid}

---------------------------------------------------------------------------
(* cp32_fproc_move of directories: p is the caller, other the other client. *)

\* What the two paths come to: the directory moved, where to, under which
\* canonical names, and what is there already.
Plan(p, source, destination) ==
  LET old == cp32_minix_abspath(p.cwd, source)
      new == cp32_minix_abspath(p.cwd, destination)
      into == Resolve(tree, Front(new))
      to == Append(Canonical(Front(new)), Last(new))
  IN [long |-> TooLong(old) \/ TooLong(new) \/ TooLong(to),
      dots |-> ".." \in {Last(old), Last(new)},
      dir |-> Resolve(tree, old), from |-> Canonical(old),
      into |-> into, to |-> to, name |-> Last(new),
      target |-> IF into = Nothing THEN Nothing ELSE Step(tree, into, Last(new))]

Ancestor(t, a, d) ==
  LET up[n \in 0..NDirs] == IF n = 0 THEN d ELSE Step(t, up[n - 1], "..")
  IN \E n \in 0..NDirs : up[n] = a

\* A directory in the way is replaced when it is empty and nobody's.
InTheWay(m, users) ==
  /\ m.target \notin {Nothing, m.dir}
  /\ \/ \E u \in users : Resolve(tree, u.cwd) = m.target
     \/ Children(tree, m.target) # {}

\* Every record has room for its new path, or nothing is moved.
Fits(m, users) ==
  \A path \in {u.cwd : u \in users} \cup {previous} : ~TooLong(rebase(path, m.from, m.to))

MoveAllowed(m, users) ==
  /\ ~m.long /\ ~m.dots /\ m.dir # Nothing /\ m.into # Nothing
  /\ ~InTheWay(m, users) /\ Fits(m, users)
  /\ ~Ancestor(tree, m.dir, m.into)

\* cp32_minix_move, once it is allowed. A directory in the way is gone.
Moved(t, m) ==
  [d \in Dirs |-> IF d = m.dir THEN <<m.into, m.name>>
                  ELSE IF d = m.target THEN Gone ELSE t[d]]

\* Records follow a move that succeeded.
Follow(p, m) == IF p.pid THEN [p EXCEPT !.cwd = rebase(@, m.from, m.to)] ELSE p

notFollowing(p, m) == p
FollowSuspended(p, m) == Follow(p, m)
keepPrevious(m) == previous
FollowPrevious(m) == rebase(previous, m.from, m.to)

\* What a move that fails leaves: before the new name is stored, a directory
\* in the way may be gone or leaked; after it, the directory is under its old
\* name, its new one or both (the tree shows one of them, and "cut" is set).
Undone(m) ==
  IF m.target \in {Nothing, m.dir} THEN {tree}
  ELSE {tree} \cup {[tree EXCEPT ![m.target] = left] : left \in {Gone} \cup Leaked(m.into)}

MoveFails(m) ==
  /\ ro' \in BOOLEAN
  /\ \/ tree' \in Undone(m) /\ UNCHANGED cut
     \/ /\ m.target # m.dir
        /\ tree' \in {Moved(tree, m), [Moved(tree, m) EXCEPT ![m.dir] = tree[m.dir]]}
        /\ cut' = TRUE
  /\ UNCHANGED <<shell, app, suspended, previous>>

\* CP32_APP_RENAME of a directory, and the shell's mv. A refused move changes
\* nothing, and no record follows one that fails, wherever it failed.
Move(p, other, source, destination) ==
  LET m == Plan(p, source, destination)
  IN /\ p.pid /\ ~ro /\ MoveAllowed(m, {p} \cup Others(other))
     /\ \/ MoveFails(m)
        \/ /\ tree' = Moved(tree, m)
           /\ shell' = Follow(shell, m) /\ app' = Follow(app, m)
           /\ suspended' = FollowSuspended(suspended, m)
           /\ previous' = FollowPrevious(m)
           /\ UNCHANGED <<ro, cut>>

\* The change of one directory: done, or cut short and what it may then leave.
Changes(d, done, left) ==
  /\ \/ tree' = [tree EXCEPT ![d] = done] /\ UNCHANGED ro
     \/ tree' \in {[tree EXCEPT ![d] = end] : end \in left} /\ ro' \in BOOLEAN
  /\ UNCHANGED <<cut, shell, app, suspended, previous>>

\* CP32_APP_RMDIR (cp32_fproc_rmdir) and the shell's rmdir: an empty directory
\* that is no working directory, by inode and not by path.
RmDir(p, other, arg) ==
  LET path == cp32_minix_abspath(p.cwd, arg)
      d == Resolve(tree, path)
  IN /\ p.pid /\ ~ro /\ ~TooLong(path) /\ Last(path) # ".." /\ d \notin {Nothing, Root}
     /\ \A u \in {p} \cup Others(other) : Resolve(tree, u.cwd) # d
     /\ Children(tree, d) = {}
     /\ Changes(d, Gone, {tree[d], Gone} \cup Leaked(tree[d][1]))

\* CP32_APP_MKDIR and the shell's mkdir. The lowest free inode is taken.
MkDir(p, arg) ==
  LET path == cp32_minix_abspath(p.cwd, arg)
      into == Resolve(tree, Front(path))
      new == <<into, Last(path)>>
      free == {d \in Dirs : tree[d] = Gone}
  IN /\ p.pid /\ ~ro /\ ~TooLong(path) /\ Last(path) # ".." /\ into # Nothing
     /\ Step(tree, into, Last(path)) = Nothing /\ free # {}
     /\ Changes(CHOOSE d \in free : \A e \in free : d <= e,
                new, {Gone, new} \cup Leaked(into))

\* CP32_APP_CHDIR (cp32_fproc_chdir).
AppChdir(arg) ==
  LET c == cp32_minix_chdir(tree, app.cwd, arg)
  IN /\ app.pid /\ c.ok
     /\ app' = [app EXCEPT !.cwd = c.cwd, !.at = Resolve(tree, c.cwd)]
     /\ UNCHANGED <<disk, shell, suspended, previous>>

\* cp32_shell_cd, of a path or of the previous directory.
ShellCd(arg) ==
  LET c == cp32_minix_chdir(tree, shell.cwd, arg)
  IN /\ ~app.pid /\ c.ok
     /\ shell' = [shell EXCEPT !.cwd = c.cwd, !.at = Resolve(tree, c.cwd)]
     /\ previous' = shell.cwd
     /\ UNCHANGED <<disk, app, suspended>>
ShellBack == previous # NoPath /\ ShellCd([absolute |-> TRUE, path |-> previous])

\* A launch and a fork copy the record (cp32_fproc_clone); exit gives it up.
Launch == ~app.pid /\ app' = shell /\ UNCHANGED <<disk, shell, suspended, previous>>
Fork == /\ app.pid /\ ~suspended.pid /\ suspended' = app
        /\ UNCHANGED <<disk, shell, app, previous>>
Exit == /\ app.pid /\ app' = suspended /\ suspended' = Inactive
        /\ UNCHANGED <<disk, shell, previous>>

Init ==
  /\ tree = [d \in Dirs |-> Gone] /\ shell = [Inactive EXCEPT !.pid = TRUE]
  /\ app = Inactive /\ suspended = Inactive /\ previous = NoPath
  /\ ro = FALSE /\ cut = FALSE

Next ==
  \/ \E arg \in Args :
       \/ MkDir(app, arg) \/ (~app.pid /\ MkDir(shell, arg))
       \/ AppChdir(arg) \/ ShellCd(arg)
       \/ RmDir(app, shell, arg) \/ (~app.pid /\ RmDir(shell, app, arg))
  \/ \E source \in Args, destination \in Args :
       \/ Move(app, shell, source, destination)
       \/ ~app.pid /\ Move(shell, app, source, destination)
  \/ ShellBack \/ Launch \/ Fork \/ Exit

Spec == Init /\ [][Next]_vars

---------------------------------------------------------------------------
(* Properties *)

Live == {p \in {shell, app, suspended} : p.pid}

\* Types.
TypeOK ==
  /\ tree \in [Dirs -> {Gone} \cup ({Nothing, Root} \cup Dirs) \X (Names \cup {"."})]
  /\ \A p \in {shell, app, suspended} :
       /\ p.pid \in BOOLEAN /\ p.at \in {Root} \cup Dirs
       /\ p.cwd \in Seq(Names)
  /\ previous = NoPath \/ previous \in Seq(Names)
  /\ ro \in BOOLEAN /\ cut \in BOOLEAN

\* The path of every live process, running or suspended, leads to the directory
\* the process changed to: whoever moves that directory, or one above it, or
\* moves another one onto its name, and whoever removes directories, also when
\* their requests fail half-way (cp32_fproc_move, fs/rename.c:69-72;
\* cp32_fproc_rmdir). The one exception is what the code does not repair: a move
\* that failed after it had stored the new name ("cut") rebases nobody
\* (fs/rename.c:68), though the device may still be writable.
\* No path outgrows the 255 characters of its record, which a move to a longer
\* name could make it do (the dry run of rebase, fs/rename.c:64).
CwdIsKept ==
  /\ \A p \in Live : ~TooLong(p.cwd)
  /\ ~cut => \A p \in Live : Resolve(tree, p.cwd) = p.at

\* The directory cd - goes back to survives the moves of others: unless it was
\* removed or replaced, or that move is cut short, the shell's previous path
\* still leads to it (rebase of previous, fs/rename.c:72).
PreviousFollows ==
  [][(previous # NoPath /\ tree' # tree /\ ~cut') =>
       LET d == Resolve(tree, previous)
       IN d # Nothing /\ Exists(tree', d) => Resolve(tree', previous') = d]_vars

============================================================================
