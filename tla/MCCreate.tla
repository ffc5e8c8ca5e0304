------------------------------ MODULE MCCreate ------------------------------
(* Small images for Create. *)
EXTENDS Create

Volume(inodes, zones, paths, kinds, len, cuts) ==
  [inodes |-> inodes, zones |-> zones, paths |-> paths, kinds |-> kinds,
   len |-> len, faults |-> cuts]

\* Names of files and directories, with a fault.
Names == Volume(3, 5, {<<"a">>, <<"b">>, <<"a", "a">>},
                {"create", "mkdir", "unlink", "rmdir", "link", "rename", "move", "open"}, 2, 1)

\* The content of one file, through direct and indirect zones, with two faults.
Content == Volume(2, 5, {<<"a">>},
                  {"read", "create", "append", "patch", "truncate", "write", "resize",
                   "unlink", "open"}, 7, 2)

\* Copies and updates on a volume that fills up.
Copies == Volume(3, 7, {<<"a">>, <<"b">>},
                 {"create", "chmod", "copy", "update", "unlink"}, 5, 1)

\* Directories that move over and into each other, without and with a fault.
Tree == Volume(4, 8, {<<"a">>, <<"b">>, <<"a", "a">>, <<"a", "b">>},
               {"mkdir", "rmdir", "movedir"}, 2, 0)
FaultyTree == [Tree EXCEPT !.faults = 1]

AllVolumes == {Names, Content, Copies, Tree}
MovingVolumes == {FaultyTree}

\* Zones are alike: between operations only what each inode maps to tells
\* images apart, and how many zones are left.
Shape(i) ==
  <<[d.inode[i] EXCEPT !.direct = <<>>, !.table = @ # 0],
    [k \in 0..(NMap - 1) |-> IF MapZone(d, i, k) = 0 THEN <<>>
                             ELSE d.zone[MapZone(d, i, k)]]>>
View == <<vol, IF todo # <<>> THEN <<d>>
          ELSE <<d.imap, Cardinality(d.zmap), [i \in Inodes |-> Shape(i)]>>,
          todo, op, ro, open, pend, faults>>
=============================================================================
