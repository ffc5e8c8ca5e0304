------------------------------- MODULE Create -------------------------------
(***************************************************************************)
(* The file system image and every operation of fs/create.c that changes   *)
(* it. FS is the only owner of the volume, so an operation is the list of  *)
(* stores it makes, computed from what it reads; the stores are then made  *)
(* one at a time, and after any of them the card may refuse (the device is *)
(* read-only from then on) or power may fail.                              *)
(*                                                                         *)
(* Scaled down: a zone has ZoneCells cells; a cell is a directory entry,   *)
(* a zone pointer, or what a data write covers of one sector. One store    *)
(* stands for the stores that clear a zone nobody refers to yet.           *)
(***************************************************************************)
EXTENDS Integers, Sequences, FiniteSets, SequencesExt, FiniteSetsExt

CONSTANTS ZoneCells,   \* cells of a zone
          NDirect,     \* direct zone pointers of an inode (7)
          LinkMax,     \* 127
          Volumes      \* the volumes, and the calls made on each of them

VARIABLE vol           \* the volume mounted

NInodes == vol.inodes        \* the super block: inodes
NZones == vol.zones          \* and data zones
Paths == vol.paths           \* the paths operations are called with
Kinds == vol.kinds           \* the operations called
MaxLen == vol.len            \* offsets and lengths they are called with
MaxFaults == vol.faults      \* faults in a behaviour

Inodes == 1..NInodes
Zones == 1..NZones
Root == 1
NMap == NDirect + ZoneCells          \* zones one inode can map
MaxSize == NMap * ZoneCells          \* in cells

ASSUME ImageAssumption ==
  /\ {NDirect, LinkMax} \subseteq Nat \ {0}
  /\ ZoneCells \in Nat /\ ZoneCells > 2
  /\ \A v \in Volumes : /\ {v.inodes, v.zones} \subseteq Nat \ {0}
                        /\ v.faults \in Nat /\ v.len \in 0..MaxSize
                        /\ <<>> \notin v.paths

VARIABLES
  d,       \* the image: imap, zmap, inode table, contents of zones
  todo,    \* stores the operation in progress has still to make
  op,      \* what it is, and the inode whose name it removes or which it copies
  ro,      \* a store failed: the device refuses writes
  open,    \* inodes some descriptor holds (fs/filedes.c)
  pend,    \* those marked by cp32_fd_defer_unlink
  faults   \* operations cut short so far

vars == <<vol, d, todo, op, ro, open, pend, faults>>

Idle == [kind |-> "", ino |-> 0]

\* A cell is a pair: the inode number of an entry or a zone number, and a
\* name or the kind of data.
Zero == <<0, "">>
Data == Zero                 \* only what is left over is told from zeros:
Stale == <<1, "stale">>      \* the content of a zone nobody owns,
Old == <<0, "old">>          \* what a file had beyond its EOF
Entry(i, n) == <<i, n>>
Pointer(z) == <<z, "">>

NoInode == [mode |-> "none", exec |-> FALSE, links |-> 0, size |-> 0,
            direct |-> [k \in 0..(NDirect - 1) |-> 0], table |-> 0]

-----------------------------------------------------------------------------
(* Reading the image.                                                      *)

\* cp32_fs_read_map: the zone that holds part k of inode i, 0 for a hole.
MapZone(im, i, k) ==
  IF k < NDirect THEN im.inode[i].direct[k]
  ELSE IF im.inode[i].table = 0 THEN 0
  ELSE im.zone[im.inode[i].table][k - NDirect][1]

\* snapshot_zones: every zone an inode maps, beyond EOF too.
DataZones(im, i) == {MapZone(im, i, k) : k \in 0..(NMap - 1)} \ {0}
Mapped(im, i) == DataZones(im, i) \cup ({im.inode[i].table} \ {0})

\* ... and its checks: allocated, and no zone twice.
SnapshotOk(im, i) ==
  /\ Mapped(im, i) \subseteq im.zmap
  /\ \A j, k \in 0..(NMap - 1) :
       MapZone(im, i, j) = MapZone(im, i, k) /\ j # k => MapZone(im, i, j) = 0
  /\ im.inode[i].table \notin DataZones(im, i)

Cell(im, i, pos) == im.zone[MapZone(im, i, pos \div ZoneCells)][pos % ZoneCells]

\* cp32_minix_file_read: what a file shows at a position.
cp32_minix_file_read(im, i, pos) ==
  IF MapZone(im, i, pos \div ZoneCells) = 0 THEN Zero ELSE Cell(im, i, pos)

\* cp32_fs_open_directory
IsDir(im, i) == /\ i \in im.imap
                /\ im.inode[i].mode = "dir" /\ im.inode[i].links > 0
                /\ im.inode[i].size >= 2
                /\ \A k \in 0..((im.inode[i].size - 1) \div ZoneCells) :
                     MapZone(im, i, k) \in im.zmap

\* cp32_fs_stat_inode: a regular file without links can only be reached
\* through a descriptor.
IsFile(im, i) == /\ i \in im.imap
                 /\ im.inode[i].mode = "file"
                 /\ im.inode[i].links > 0 \/ i \in open

\* cp32_fs_file_inode also checks the direct zones and the table up to EOF.
FileInode(im, i) ==
  LET used == (im.inode[i].size + ZoneCells - 1) \div ZoneCells
      direct == im.inode[i].direct
      held == {k \in DOMAIN direct : k < used /\ direct[k] # 0}
  IN /\ IsFile(im, i)
     /\ \A k \in held : direct[k] \in im.zmap
     /\ \A j, k \in held : direct[j] = direct[k] => j = k
     /\ used > NDirect /\ im.inode[i].table # 0
          => im.inode[i].table \in im.zmap \ {direct[k] : k \in DOMAIN direct}

Slots(im, i) == 2..(im.inode[i].size - 1)

\* One component of cp32_fs_resolve_path: 0 when it is not there. The search
\* gives up at an entry whose inode is not allocated.
Lookup(im, dir, name) ==
  LET at == {s \in Slots(im, dir) : Cell(im, dir, s)[1] # 0 /\ Cell(im, dir, s)[2] = name}
      bad == {s \in Slots(im, dir) : Cell(im, dir, s)[1] # 0
                                      /\ Cell(im, dir, s)[1] \notin im.imap}
  IN IF at = {} \/ \E s \in bad : s <= Min(at) THEN 0
     ELSE Cell(im, dir, Min(at))[1]

Resolve(im, path) ==
  FoldLeft(LAMBDA i, n : IF i # 0 /\ IsDir(im, i) THEN Lookup(im, i, n) ELSE 0,
           Root, path)

\* mutation_location: the directory of a path, the slot of its last name or
\* the slot a new entry takes, and the inode found there (0 if none).
LocationIn(im, dir, name) ==
  LET used == {s \in Slots(im, dir) : Cell(im, dir, s)[1] # 0}
      hits == {s \in used : Cell(im, dir, s)[2] = name}
      empty == Slots(im, dir) \ used
  IN IF dir = 0 \/ ~IsDir(im, dir)
       THEN [ok |-> FALSE, dir |-> 0, slot |-> 0, found |-> 0]
     ELSE IF hits # {}
       THEN [ok |-> TRUE, dir |-> dir, slot |-> Min(hits),
             found |-> Cell(im, dir, Min(hits))[1]]
     ELSE [ok |-> TRUE, dir |-> dir, found |-> 0,
           slot |-> IF empty # {} THEN Min(empty) ELSE im.inode[dir].size]
Location(im, path) == LocationIn(im, Resolve(im, Front(path)), Last(path))

\* find_free_bit; 0 when the map is full.
FreeZone(im, from) == IF \E z \in Zones : z >= from /\ z \notin im.zmap
                        THEN Min({z \in Zones : z >= from /\ z \notin im.zmap})
                        ELSE 0
FreeInode(im) == IF Inodes \subseteq im.imap THEN 0 ELSE Min(Inodes \ im.imap)

\* cp32_minix_space_read, as df shows it.
cp32_minix_space_read(im) == [zones |-> NZones - Cardinality(im.zmap),
                              inodes |-> NInodes - Cardinality(im.imap)]

-----------------------------------------------------------------------------
(* Stores.                                                                 *)

SInode(i, v) == [k |-> "inode", i |-> i, v |-> v]
SReserveInode(i) == [k |-> "imap", i |-> i, v |-> TRUE]
SFreeInode(i) == [k |-> "imap", i |-> i, v |-> FALSE]
SReserve(z) == [k |-> "zmap", i |-> z, v |-> TRUE]
SRelease(z) == [k |-> "zmap", i |-> z, v |-> FALSE]
SCells(z, c, vs) == [k |-> "cells", i |-> z, c |-> c, v |-> vs]
SCell(z, c, v) == SCells(z, c, <<v>>)
zeroZoneStart(z) == SCells(z, 0, <<Zero>>)

SZeroZone(z) == SCells(z, 0, [c \in 1..ZoneCells |-> Zero])
STime(i) == [k |-> "time", i |-> i]

\* Clearing cells from..(to - 1) of a zone in use, a store each.
Clears(z, from, to) == [n \in 1..(to - from) |-> SCell(z, from + n - 1, Zero)]

Garbage == [c \in 0..(ZoneCells - 1) |-> Stale]

\* A shorter file leaves content behind in the zones it keeps.
LeftBehind(im, i, size) ==
  {<<z, c>> \in Mapped(im, i) \X (0..(ZoneCells - 1)) :
     \E k \in 0..(NMap - 1) : MapZone(im, i, k) = z /\ k * ZoneCells + c >= size}

Apply(im, w) ==
  CASE w.k = "inode" ->
         [im EXCEPT !.inode[w.i] = w.v,
                    !.zone = IF w.v.mode = "file" /\ w.v.size < im.inode[w.i].size
                               THEN [z \in Zones |-> [c \in DOMAIN @[z] |->
                                      IF <<z, c>> \in LeftBehind(im, w.i, w.v.size)
                                        THEN Old ELSE @[z][c]]]
                               ELSE @]
    [] w.k = "imap" -> [im EXCEPT !.imap = IF w.v THEN @ \cup {w.i} ELSE @ \ {w.i}]
    [] w.k = "zmap" /\ w.v -> [im EXCEPT !.zmap = @ \cup {w.i}]
    [] w.k = "zmap" /\ ~w.v -> [im EXCEPT !.zmap = @ \ {w.i},
                                          !.zone[w.i] = Garbage]
    [] w.k = "cells" -> [im EXCEPT !.zone[w.i] =
                           [c \in DOMAIN @ |-> IF c - w.c + 1 \in DOMAIN w.v
                                                 THEN w.v[c - w.c + 1] ELSE @[c]]]
    [] w.k = "time" -> im

ApplyAll(im, ws) == FoldLeft(Apply, im, ws)

\* Stores of a first part, then those the next part makes of the result.
Then(im, ws, Rest(_)) == ws \o Rest(ApplyAll(im, ws))

\* The stores that release a set of zones, in some fixed order.
ReleaseAll(zs) == [n \in 1..Cardinality(zs) |-> SRelease(SetToSortSeq(zs, <)[n])]

-----------------------------------------------------------------------------
(* write_inode: one fragment at position pos of inode i.                   *)

Fragment(im, i, pos, v) ==
  LET nd == im.inode[i]
      k == pos \div ZoneCells
      old == MapZone(im, i, k)
      last == MapZone(im, i, nd.size \div ZoneCells)
      z == IF old # 0 THEN old ELSE FreeZone(im, 1)
      newTable == old = 0 /\ k >= NDirect /\ nd.table = 0
      t == IF newTable THEN FreeZone(im, z + 1) ELSE nd.table
      gap == IF pos > nd.size /\ nd.size % ZoneCells # 0 /\ last # 0
               THEN Clears(last, nd.size % ZoneCells,
                           IF nd.size \div ZoneCells = k THEN pos % ZoneCells
                                                         ELSE ZoneCells)
               ELSE <<>>
      alloc == IF old = 0 THEN <<SReserve(z), SZeroZone(z)>> ELSE <<>>
      table == IF newTable THEN <<SReserve(t), SZeroZone(t)>> ELSE <<>>
      size == Max({nd.size, pos + 1})
      publish == IF k < NDirect
                   THEN <<SInode(i, [nd EXCEPT !.direct[k] = z, !.size = size])>>
                   ELSE <<SCell(t, k - NDirect, Pointer(z)),
                          SInode(i, [nd EXCEPT !.table = t, !.size = size])>>
  IN IF pos >= MaxSize \/ ~SnapshotOk(im, i) THEN <<>>
     ELSE IF z = 0 \/ (newTable /\ t = 0) THEN gap
     ELSE gap \o alloc \o table \o <<SCell(z, pos % ZoneCells, v)>> \o publish

\* A write of n fragments; it stops where one finds no space.
WriteInode(im, i, pos, n) ==
  IF pos + n > MaxSize \/ ~FileInode(im, i) THEN <<>>
  ELSE LET first == Fragment(im, i, pos, Data)
           done == first # <<>> /\ Last(first).k = "inode"
       IN Then(im, first, LAMBDA im2 : IF n = 1 \/ ~done THEN <<>>
                                       ELSE Fragment(im2, i, pos + 1, Data))

-----------------------------------------------------------------------------
(* Directory entries.                                                      *)

\* directory_capacity: a new block is added, with an empty entry in it, before
\* anything refers to it.
Capacity(im, dir, slot) ==
  IF slot = im.inode[dir].size /\ slot % ZoneCells = 0
    THEN Fragment(im, dir, slot, Zero) ELSE <<>>

HasCapacity(im, dir, slot) ==
  /\ slot < MaxSize
  /\ slot < im.inode[dir].size \/ slot % ZoneCells # 0

\* directory_store
DirectoryStore(im, dir, slot, e) ==
  <<SCell(MapZone(im, dir, slot \div ZoneCells), slot % ZoneCells, e), STime(dir)>>

\* The entry, and the size that makes it visible when it is past the end.
\* `parent` is the inode image the operation holds.
Publish(im, dir, parent, slot, e) ==
  DirectoryStore(im, dir, slot, e)
  \o IF slot = im.inode[dir].size
       THEN <<SInode(dir, [parent EXCEPT !.size = slot + 1])>> ELSE <<>>

-----------------------------------------------------------------------------
(* Operations: the stores of a call, <<>> when it is refused.              *)

\* create_node with n cells of data (the dot entries of a directory).
CreateNode(im, l, ino, name, n, directory) ==
  LET Body(im2) ==
        LET z == IF n > 0 THEN FreeZone(im2, 1) ELSE 0
            parent == im2.inode[l.dir]
            counted == IF directory THEN [parent EXCEPT !.links = @ + 1] ELSE parent
            node == [NoInode EXCEPT !.mode = IF directory THEN "dir" ELSE "file",
                                    !.links = IF directory THEN 2 ELSE 1,
                                    !.size = n, !.direct[0] = z]
            content == IF directory
                         THEN <<SCells(z, 0, <<Entry(ino, "."), Entry(l.dir, "..")>>)>>
                         ELSE [c \in 1..n |-> SCell(z, c - 1, Data)]
        IN IF ~HasCapacity(im2, l.dir, l.slot) \/ (n > 0 /\ z = 0) THEN <<>>
           ELSE <<SInode(ino, NoInode), SReserveInode(ino)>>
                \o (IF n > 0 THEN <<SReserve(z), SZeroZone(z)>> ELSE <<>>)
                \o content
                \o <<SInode(ino, node)>>
                \o (IF directory THEN <<SInode(l.dir, counted)>> ELSE <<>>)
                \o Publish(im2, l.dir, counted, l.slot, Entry(ino, name))
  IN IF \/ ~l.ok \/ l.found # 0 \/ ino = 0
        \/ (directory /\ im.inode[l.dir].links >= LinkMax)
        \/ (n > 0 /\ FreeZone(im, 1) = 0)
       THEN <<>>
     ELSE Then(im, Capacity(im, l.dir, l.slot), Body)
create_node(im, path, n, directory) ==
  CreateNode(im, Location(im, path), FreeInode(im), Last(path), n, directory)

\* cp32_minix_append of one or two cells. A pointer beyond EOF is refused.
cp32_minix_append(im, path, n) ==
  LET i == Resolve(im, path)
      nd == im.inode[i]
      used == (nd.size + ZoneCells - 1) \div ZoneCells
      next == (nd.size + n + ZoneCells - 1) \div ZoneCells
      grows == next > used
      oldz == MapZone(im, i, used - 1)
      z == FreeZone(im, 1)
      newTable == grows /\ used = NDirect
      t == IF newTable THEN FreeZone(im, z + 1) ELSE nd.table
      At(c) == LET p == nd.size + c - 1
               IN SCell(IF p \div ZoneCells < used THEN oldz ELSE z, p % ZoneCells, Data)
  IN IF \/ i = 0 \/ ~FileInode(im, i) \/ nd.exec \/ nd.size + n > MaxSize
        \/ (nd.size % ZoneCells # 0 /\ oldz = 0)
        \/ (grows /\ used < NDirect /\ nd.direct[used] # 0)
        \/ (grows /\ used > NDirect /\ (nd.table = 0 \/ MapZone(im, i, used) # 0))
        \/ (newTable /\ (nd.table # 0 \/ t = 0))
        \/ (grows /\ z = 0)
       THEN <<>>
     ELSE (IF grows THEN <<SReserve(z)>> ELSE <<>>)
          \o (IF newTable THEN <<SReserve(t)>> ELSE <<>>)
          \o (IF grows THEN <<SZeroZone(z)>> ELSE <<>>)
          \o (IF newTable THEN <<SZeroZone(t)>> ELSE <<>>)
          \o [c \in 1..n |-> At(c)]
          \o (IF grows /\ used >= NDirect
                THEN <<SCell(t, used - NDirect, Pointer(z))>> ELSE <<>>)
          \o <<SInode(i, [nd EXCEPT !.size = @ + n,
                            !.table = IF newTable THEN t ELSE @,
                            !.direct = IF grows /\ used < NDirect
                                         THEN [@ EXCEPT ![used] = z] ELSE @])>>

\* cp32_minix_patch: overwrite existing cells in place.
cp32_minix_patch(im, path, pos) ==
  LET i == Resolve(im, path)
  IN IF i = 0 \/ ~FileInode(im, i) \/ im.inode[i].exec \/ pos >= im.inode[i].size
          \/ MapZone(im, i, pos \div ZoneCells) = 0
       THEN <<>>
     ELSE <<SCell(MapZone(im, i, pos \div ZoneCells), pos % ZoneCells, Data), STime(i)>>

\* cp32_fs_truncate_inode: detach durably, clear, then release.
cp32_fs_truncate_inode(im, i, length) ==
  LET nd == im.inode[i]
      keep == (length + ZoneCells - 1) \div ZoneCells
      freed == {MapZone(im, i, k) : k \in keep..(NMap - 1)} \ {0}
      dropTable == nd.table # 0 /\ keep <= NDirect
      tail == MapZone(im, i, keep - 1)
  IN IF ~FileInode(im, i) \/ length > nd.size \/ ~SnapshotOk(im, i) THEN <<>>
     ELSE IF length = nd.size /\ freed = {} /\ ~dropTable THEN <<STime(i)>>
     ELSE <<SInode(i, [nd EXCEPT !.size = length,
                         !.direct = [k \in DOMAIN @ |-> IF k < keep THEN @[k] ELSE 0],
                         !.table = IF dropTable THEN 0 ELSE @])>>
          \o (IF nd.table # 0 /\ ~dropTable
                THEN Clears(nd.table, keep - NDirect, ZoneCells) ELSE <<>>)
          \o (IF length % ZoneCells # 0 /\ tail # 0
                THEN Clears(tail, length % ZoneCells, ZoneCells) ELSE <<>>)
          \o ReleaseAll(freed)
          \o (IF dropTable THEN <<SRelease(nd.table)>> ELSE <<>>)

\* cp32_fs_resize_inode: growth clears every mapped cell it makes visible.
cp32_fs_resize_inode(im, i, length) ==
  LET nd == im.inode[i]
      first == nd.size \div ZoneCells
      parts == {k \in first..((length - 1) \div ZoneCells) : MapZone(im, i, k) # 0}
      Clear(k) == Clears(MapZone(im, i, k), IF k = first THEN nd.size % ZoneCells ELSE 0,
                         Min({ZoneCells, length - k * ZoneCells}))
  IN IF length > MaxSize \/ ~FileInode(im, i) THEN <<>>
     ELSE IF length <= nd.size THEN cp32_fs_truncate_inode(im, i, length)
     ELSE IF ~SnapshotOk(im, i) THEN <<>>
     ELSE FoldLeft(LAMBDA ws, k : ws \o Clear(k), <<>>, SetToSortSeq(parts, <))
          \o <<SInode(i, [nd EXCEPT !.size = length])>>

\* The count of an inode that may get one more name.
LinkRoom(n) == n \in 1..(LinkMax - 1)

\* cp32_minix_link: the count is durable before the name.
linkNameFirst(im, path, destination) ==
  LET i == Resolve(im, path)
      l == Location(im, destination)
  IN IF i = 0 \/ ~IsFile(im, i) \/ ~LinkRoom(im.inode[i].links)
        \/ ~l.ok \/ l.found # 0 \/ ~HasCapacity(im, l.dir, l.slot)
       THEN <<>>
     ELSE Publish(im, l.dir, im.inode[l.dir], l.slot, Entry(i, Last(destination)))
          \o <<SInode(i, [im.inode[i] EXCEPT !.links = @ + 1])>>

cp32_minix_link(im, path, destination) ==
  LET i == Resolve(im, path)
      l == Location(im, destination)
      Body(im2) ==
        IF ~HasCapacity(im2, l.dir, l.slot) THEN <<>>
        ELSE <<SInode(i, [im2.inode[i] EXCEPT !.links = @ + 1])>>
             \o Publish(im2, l.dir, im2.inode[l.dir], l.slot, Entry(i, Last(destination)))
  IN IF i = 0 \/ ~IsFile(im, i) \/ ~LinkRoom(im.inode[i].links)
        \/ ~l.ok \/ l.found # 0
       THEN <<>>
     ELSE Then(im, Capacity(im, l.dir, l.slot), Body)

\* The end of an inode: detach, release its zones, then its number.
Reclaim(im, i) == <<SInode(i, NoInode)>> \o ReleaseAll(Mapped(im, i)) \o <<SFreeInode(i)>>

\* What outlives the loss of a name.
Survives(im, i) == im.inode[i].links > 1 \/ i \in open

\* cp32_minix_unlink: remove_node without a working directory.
cp32_minix_unlink(im, path) ==
  LET l == Location(im, path)
      i == l.found
      nd == im.inode[i]
      name == DirectoryStore(im, l.dir, l.slot, Zero)
  IN IF ~l.ok \/ i = 0 \/ Resolve(im, path) = 0 \/ ~IsFile(im, i) \/ nd.links = 0
        \/ (nd.links = 1 /\ ~SnapshotOk(im, i))
       THEN <<>>
     ELSE IF Survives(im, i)
       THEN name \o <<SInode(i, [nd EXCEPT !.links = @ - 1])>>
     ELSE name \o Reclaim(im, i)

\* cp32_minix_rmdir: an empty directory whose dot entries are right, and which
\* is neither the root, `cwd`, nor open.
cp32_minix_rmdir(im, path, cwd) ==
  LET l == Location(im, path)
      i == l.found
      parent == im.inode[l.dir]
  IN IF ~l.ok \/ i = 0 \/ Resolve(im, path) = 0
        \/ ~IsDir(im, i) \/ i \in {Root, cwd} \cup open
        \/ im.inode[i].links # 2 \/ ~SnapshotOk(im, i)
        \/ \E s \in Slots(im, i) : Cell(im, i, s)[1] # 0
        \/ Cell(im, i, 0)[1] # i \/ Cell(im, i, 1)[1] # l.dir
        \/ parent.links < 3
       THEN <<>>
     ELSE DirectoryStore(im, l.dir, l.slot, Zero)
          \o <<SInode(i, NoInode), SInode(l.dir, [parent EXCEPT !.links = @ - 1])>>
          \o Tail(Reclaim(im, i))

\* cp32_minix_rename: a regular file; no replacement. Across directories the
\* new name is counted and published before the old one goes.
cp32_minix_rename(im, old, new) ==
  LET a == Location(im, old)
      b == Location(im, new)
      i == a.found
      Body(im2) ==
        LET nd == im2.inode[i]
        IN IF ~HasCapacity(im2, b.dir, b.slot) THEN <<>>
           ELSE <<SInode(i, [nd EXCEPT !.links = @ + 1])>>
                \o Publish(im2, b.dir, im2.inode[b.dir], b.slot, Entry(i, Last(new)))
                \o DirectoryStore(im2, a.dir, a.slot, Zero)
                \o <<SInode(i, nd)>>
  IN IF \/ ~a.ok \/ i = 0 \/ Resolve(im, old) = 0 \/ ~IsFile(im, i)
        \/ ~b.ok \/ b.found # 0
       THEN <<>>
     ELSE IF a.dir = b.dir
       THEN DirectoryStore(im, a.dir, a.slot, Entry(i, Last(new))) \o <<STime(i)>>
     ELSE IF ~LinkRoom(im.inode[i].links) THEN <<>>
     ELSE Then(im, Capacity(im, b.dir, b.slot), Body)

\* The directories on the way from i to the root, by their dot-dot entries.
Ancestors(im, i) ==
  LET up[n \in 0..NInodes] ==
        IF n = 0 THEN i
        ELSE IF IsDir(im, up[n - 1]) THEN Cell(im, up[n - 1], 1)[1] ELSE up[n - 1]
  IN {up[n] : n \in 0..NInodes}

\* The last part of cp32_minix_move: a directory that changes its parent.
Reparent(im, i, a, b, name) ==
  LET Body(im2) ==
        LET from == im2.inode[a.dir]
            to == [im2.inode[b.dir] EXCEPT !.links = @ + 1]
            child == im2.inode[i].direct[0]
        IN IF ~HasCapacity(im2, b.dir, b.slot) \/ to.links > LinkMax THEN <<>>
           ELSE <<SInode(b.dir, to)>>
                \o Publish(im2, b.dir, to, b.slot, Entry(i, name))
                \o <<SCell(child, 1, Entry(b.dir, ".."))>>
                \o DirectoryStore(im2, a.dir, a.slot, Zero)
                \o (IF from.links < 3 THEN <<>>
                    ELSE <<SInode(a.dir, [from EXCEPT !.links = @ - 1]), STime(i)>>)
  IN Then(im, Capacity(im, b.dir, b.slot), Body)

\* cp32_minix_move: replace the target (by unlink or rmdir), then rename.
intoItselfNever(im, i, dir) == FALSE

IntoItself(im, i, dir) == i \in Ancestors(im, dir) \/ Root \notin Ancestors(im, dir)

cp32_minix_move(im, old, new) ==
  LET a == Location(im, old)
      b == Location(im, new)
      i == a.found
      isdir == im.inode[i].mode = "dir"
      Go(im2) ==
        LET b2 == Location(im2, new)
        IN IF ~isdir THEN cp32_minix_rename(im2, old, new)
           ELSE IF ~b2.ok \/ b2.found # 0 THEN <<>>
           ELSE IF a.dir = b2.dir
             THEN DirectoryStore(im2, a.dir, a.slot, Entry(i, Last(new))) \o <<STime(i)>>
           ELSE Reparent(im2, i, a, b2, Last(new))
      replaced == IF isdir THEN cp32_minix_rmdir(im, new, Root) ELSE cp32_minix_unlink(im, new)
  IN IF \/ ~a.ok \/ i = 0 \/ ~b.ok \/ b.found = i
        \/ ~(IsFile(im, i) \/ IsDir(im, i))
        \/ (isdir /\ (i = Root \/ Cell(im, i, 1)[1] # a.dir \/ IntoItself(im, i, b.dir)))
        \/ (isdir /\ a.dir # b.dir /\ b.found = 0 /\ im.inode[b.dir].links >= LinkMax)
        \/ (~isdir /\ a.dir # b.dir /\ im.inode[i].links >= LinkMax)
        \/ (b.found # 0 /\ replaced = <<>>)
       THEN <<>>
     ELSE IF b.found # 0 THEN Then(im, replaced, Go)
     ELSE Go(im)

\* cp32_minix_chmod: only the execute bits matter here.
cp32_minix_chmod(im, path, exec) ==
  LET i == Resolve(im, path)
  IN IF i = 0 \/ ~(IsFile(im, i) \/ IsDir(im, i)) THEN <<>>
     ELSE IF im.inode[i].exec = exec THEN <<STime(i)>>
     ELSE <<SInode(i, [im.inode[i] EXCEPT !.exec = exec]), STime(i)>>

\* The loop of cp32_minix_copy has copied all of it.
copyStopped(im, destination, size) == Resolve(im, destination) # 0

CopyDone(im, destination, size) ==
  Resolve(im, destination) # 0 /\ im.inode[Resolve(im, destination)].size = size

\* cp32_minix_copy: create with the first cell, append the others, and only
\* then publish the execute bits.
cp32_minix_copy(im, source, destination) ==
  LET i == Resolve(im, source)
      size == im.inode[i].size
      first == create_node(im, destination, Min({size, 1}), FALSE)
      Copied[n \in 1..MaxSize] ==      \* stores up to the n-th cell
        IF n = 1 THEN first
        ELSE Then(im, Copied[n - 1],
                  LAMBDA im2 : IF CopyDone(im2, destination, n - 1)
                                 THEN cp32_minix_append(im2, destination, 1) ELSE <<>>)
      Mode(im2) == IF CopyDone(im2, destination, size)
                     THEN cp32_minix_chmod(im2, destination, im.inode[i].exec)
                     ELSE <<>>
  IN IF i = 0 \/ ~FileInode(im, i) \/ first = <<>> THEN <<>>
     ELSE Then(im, Copied[Max({size, 1})], Mode)

\* cp32_update_one: a program in place of the file, or as a new one; same says
\* whether the bytes of the file are already its own. It is not executable
\* from the first store until all of it was written and read back.
UpdateSize == ZoneCells + 1          \* two zones
cp32_update_one(im, path, same) ==
  LET i == Resolve(im, path)
      hidden == IF i = 0 THEN create_node(im, path, 0, FALSE)
                ELSE cp32_minix_chmod(im, path, FALSE)
      At(im2) == Resolve(im2, path)
      Written[n \in 0..UpdateSize] ==
        IF n = 0 THEN Then(im, hidden, LAMBDA im2 : IF At(im2) = 0 THEN <<>>
                                         ELSE cp32_fs_truncate_inode(im2, At(im2), 0))
        ELSE Then(im, Written[n - 1],
                  LAMBDA im2 : IF CopyDone(im2, path, n - 1)
                                 THEN WriteInode(im2, At(im2), n - 1, 1) ELSE <<>>)
      ReadBack(im2) == IF CopyDone(im2, path, UpdateSize)
                         THEN <<STime(At(im2))>> \o cp32_minix_chmod(im2, path, TRUE)
                         ELSE <<>>
  IN IF i # 0 /\ (~FileInode(im, i) \/ im.inode[i].links # 1) THEN <<>>
     ELSE IF i # 0 /\ same /\ im.inode[i].size = UpdateSize
       THEN <<STime(i)>> \o (IF im.inode[i].exec THEN <<>> ELSE cp32_minix_chmod(im, path, TRUE))
     ELSE Then(im, Written[UpdateSize], ReadBack)

\* cp32_fs_reap_inode: only a regular file whose last name is gone.
cp32_fs_reap_inode(im, i) ==
  IF im.inode[i].links # 0 \/ im.inode[i].mode # "file" \/ ~SnapshotOk(im, i)
    THEN <<>> ELSE Reclaim(im, i)

-----------------------------------------------------------------------------
(* Behaviour. The calls come from the shell and, through fs/filedes.c, from *)
(* applications; FS finishes one before it takes the next.                 *)

Init ==
  /\ vol \in Volumes
  /\ d = [imap |-> {Root}, zmap |-> {1},
          inode |-> [i \in Inodes |->
             IF i = Root THEN [NoInode EXCEPT !.mode = "dir", !.links = 2, !.size = 2,
                                              !.direct[0] = 1]
             ELSE NoInode],
          zone |-> [z \in Zones |-> [c \in 0..(ZoneCells - 1) |->
             IF z # 1 THEN Stale
             ELSE IF c < 2 THEN Entry(Root, <<".", "..">>[c + 1]) ELSE Zero]]]
  /\ todo = <<>> /\ op = Idle /\ ro = FALSE
  /\ open = {} /\ pend = {} /\ faults = 0

\* A call that changes the image. A device that refuses writes stops it at its
\* first store.
Call(kind, ws, v) ==
  /\ kind \in Kinds /\ todo = <<>> /\ ~ro /\ ws # <<>>
  /\ todo' = ws /\ op' = [kind |-> kind, ino |-> v]
  /\ UNCHANGED <<d, ro, open, faults>>

\* cp32_fd_defer_unlink, when the last name of an open file goes.
Defer(i) == pend' = IF i \in open /\ IsFile(d, i) /\ d.inode[i].links = 1
                      THEN pend \cup {i} ELSE pend

Make(p) == /\ \/ \E n \in {0, 1} : Call("create", create_node(d, p, n, FALSE), 0)
              \/ Call("mkdir", create_node(d, p, 2, TRUE), 0)
           /\ UNCHANGED pend

Change(p) ==
  /\ \/ \E n \in {1, 2} : Call("append", cp32_minix_append(d, p, n), 0)
     \/ \E c \in 0..(ZoneCells - 1) : Call("patch", cp32_minix_patch(d, p, c), 0)
     \/ \E same \in BOOLEAN : Call("update", cp32_update_one(d, p, same), 0)
     \/ \E x \in BOOLEAN : Call("chmod", cp32_minix_chmod(d, p, x), 0)
     \/ \E n \in 0..MaxLen :
          /\ Resolve(d, p) # 0 /\ ~d.inode[Resolve(d, p)].exec
          /\ Call("truncate", cp32_fs_truncate_inode(d, Resolve(d, p), n), 0)
  /\ UNCHANGED pend

Descriptor(i) ==
  /\ \/ \E pos \in 0..(MaxLen - 1), n \in {1, 2} : Call("write", WriteInode(d, i, pos, n), 0)
     \/ FileInode(d, i) /\ Call("read", <<STime(i)>>, 0)
     \/ \E n \in 0..MaxLen : Call("resize", cp32_fs_resize_inode(d, i, n), 0)
  /\ UNCHANGED pend

Unname(p) ==
  LET i == Location(d, p).found
  IN /\ i # 0
     /\ \/ Call("unlink", cp32_minix_unlink(d, p), i) /\ Defer(i)
        \/ \E cwd \in Inodes : /\ IsDir(d, cwd)
                               /\ Call("rmdir", cp32_minix_rmdir(d, p, cwd), i)
                               /\ UNCHANGED pend

Rename(p, q) ==
  \/ /\ \/ Call("link", cp32_minix_link(d, p, q), 0)
        \/ Call("rename", cp32_minix_rename(d, p, q), 0)
        \/ Call("copy", cp32_minix_copy(d, p, q), Resolve(d, p))
     /\ UNCHANGED pend
  \/ LET i == Location(d, q).found
         dir == Location(d, p).found # 0 /\ d.inode[Location(d, p).found].mode = "dir"
     IN /\ Call(IF dir THEN "movedir" ELSE "move", cp32_minix_move(d, p, q), i)
        /\ IF i = 0 THEN UNCHANGED pend ELSE Defer(i)

Open(p) ==
  LET i == Resolve(d, p)
  IN /\ "open" \in Kinds /\ todo = <<>> /\ i # 0 /\ i \notin open
     /\ FileInode(d, i) \/ IsDir(d, i)
     /\ open' = open \cup {i}
     /\ UNCHANGED <<d, todo, op, ro, pend, faults>>

\* cp32_fd_close of the last descriptor.
Close(i) ==
  /\ todo = <<>> /\ i \in open
  /\ open' = open \ {i} /\ pend' = pend \ {i}
  /\ todo' = IF i \in pend /\ ~ro THEN cp32_fs_reap_inode(d, i) ELSE <<>>
  /\ UNCHANGED <<d, op, ro, faults>>

Store ==
  /\ todo # <<>>
  /\ d' = Apply(d, Head(todo)) /\ todo' = Tail(todo)
  /\ op' = IF todo' = <<>> THEN Idle ELSE op
  /\ UNCHANGED <<ro, open, pend, faults>>

\* The operation is given up: a store fails, on the card or in its readback,
\* and the device refuses writes from now on; or a read between stores fails.
Fail ==
  /\ todo # <<>> /\ faults < MaxFaults
  /\ \/ d' \in {d, Apply(d, Head(todo))} /\ ro' = TRUE
     \/ d' = d /\ ro' = ro
  /\ todo' = <<>> /\ op' = Idle /\ faults' = faults + 1
  /\ UNCHANGED <<open, pend>>

\* Power goes, with a store under way or not; a sector keeps its old or its
\* new content.
PowerFail ==
  /\ faults < MaxFaults
  /\ d' \in {d} \cup {Apply(d, w) : w \in {todo[n] : n \in DOMAIN todo \cap {1}}}
  /\ todo' = <<>> /\ op' = Idle /\ faults' = faults + 1
  /\ ro' = FALSE /\ open' = {} /\ pend' = {}

\* The reboot a read-only device needs.
Reboot ==
  /\ ro /\ todo = <<>>
  /\ ro' = FALSE /\ open' = {} /\ pend' = {}
  /\ UNCHANGED <<d, todo, op, faults>>

Next ==
  /\ \/ \E p \in Paths : Make(p) \/ Change(p) \/ Unname(p) \/ Open(p)
     \/ \E p, q \in Paths : Rename(p, q)
     \/ \E i \in open : Descriptor(i) \/ Close(i)
     \/ Store \/ Fail \/ PowerFail \/ Reboot
  /\ UNCHANGED vol

Spec == Init /\ [][Next]_vars

-----------------------------------------------------------------------------
(* Properties.                                                             *)

DirsOf(im) == {i \in im.imap : im.inode[i].mode = "dir"}
Directories == DirsOf(d)
Files == {i \in d.imap : d.inode[i].mode = "file"}

\* The visible names: directory, slot, inode.
Entries(im) ==
  {e \in UNION {{<<j, s, Cell(im, j, s)[1]>> : s \in Slots(im, j)} : j \in DirsOf(im)} :
     e[3] # 0}
Named(im) == {e[3] : e \in Entries(im)}

\* The image has the shape the readers expect.
TypeOK ==
  /\ d.imap \subseteq Inodes /\ d.zmap \subseteq Zones
  /\ open \subseteq Inodes /\ pend \subseteq open
  /\ \A i \in Inodes : /\ d.inode[i].size \in 0..MaxSize
                       /\ d.inode[i].links \in 0..LinkMax
                       /\ Mapped(d, i) \subseteq Zones

\* However operations are cut short, at every moment: a visible name leads to an
\* allocated inode, no inode has more names than its count, so that removing one
\* never frees what another leads to (create_node and cp32_minix_link count and
\* publish the name last, remove_node removes it first); and zones have one
\* owner and the bitmap knows it, so that none in use is allocated again.
VolumeIsSound ==
  LET entries == Entries(d)
      To(i) == {e \in entries : e[3] = i}
      Below(i) == {e \in entries : e[1] = i /\ e[3] \in Directories}
  IN /\ \A i \in Named(d) : i \in d.imap /\ d.inode[i].mode # "none" /\ d.inode[i].links > 0
     /\ \A i \in Files : d.inode[i].links >= Cardinality(To(i))
     /\ \A i \in Directories : d.inode[i].links >= 2 + Cardinality(Below(i))
     /\ \A i \in Inodes : SnapshotOk(d, i)
     /\ \A i, j \in Inodes : i # j => Mapped(d, i) \cap Mapped(d, j) = {}

\* What a file holds up to EOF was written to it, or is zero: a zone that comes
\* from another file is cleared before it is mapped, however operations are cut
\* short (Stale); and as long as none was, what truncate leaves behind is cleared
\* before EOF moves over it (Old). After an interrupted truncate a write past EOF
\* may show the file its own old zones again (fs/create.c:793).
NoStaleData ==
  \A i \in Files : \A pos \in 0..(d.inode[i].size - 1) :
    LET shown == cp32_minix_file_read(d, i, pos)
    IN shown # Stale /\ (faults = 0 => shown # Old)

\* Without faults every operation, refused half-way for lack of space or not,
\* leaves exact counts and bitmaps, and one tree.
ExactWhenQuiet ==
  LET entries == Entries(d)
      To(i) == {e \in entries : e[3] = i}
      Below(i) == {e \in entries : e[1] = i /\ e[3] \in Directories}
  IN todo = <<>> /\ faults = 0 =>
       /\ d.imap = {Root} \cup Named(d) \cup pend
       /\ cp32_minix_space_read(d) =
            [zones |-> NZones - Cardinality(UNION {Mapped(d, i) : i \in d.imap}),
             inodes |-> NInodes - Cardinality({Root} \cup Named(d) \cup pend)]
       /\ \A i \in Files : d.inode[i].links = Cardinality(To(i))
       /\ \A i \in Directories :
            /\ d.inode[i].links = 2 + Cardinality(Below(i))
            /\ Cell(d, i, 0)[1] = i
            /\ i # Root => {e[1] : e \in To(i)} = {Cell(d, i, 1)[1]}
                           /\ Cardinality(To(i)) = 1
            /\ Root \in Ancestors(d, i)

\* A copy becomes executable only when it is as long as its source, and an
\* updated program only when all of it was written (cp32_minix_copy,
\* cp32_update_one): what is cut short never leaves a partial program that can
\* be run.
WholeSize == IF op.kind = "copy" THEN d.inode[op.ino].size ELSE UpdateSize
ExecutableWhenWhole ==
  [][op.kind \in {"copy", "update"} =>
       \A i \in Inodes : d'.inode[i].exec /\ d'.inode[i] # d.inode[i]
                          => d'.inode[i].size = WholeSize]_vars
=============================================================================
