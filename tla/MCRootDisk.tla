----------------------------- MODULE MCRootDisk -----------------------------
(* A card of four two-byte sectors, blocks of two sectors, one cache slot.  *)
EXTENDS RootDisk, TLC

Part(s, n, b) == [minix |-> TRUE, start |-> s, length |-> n, boot |-> b]
Other == [minix |-> FALSE, start |-> 0, length |-> 0, boot |-> TRUE]

\* A partition that ends in half a block, a raw volume smaller than the card,
\* and tables that must not be mounted: none, two, one past the end of the card.
MCTables ==
  {[signature |-> TRUE, parts |-> <<Other, Part(1, 3, TRUE)>>, super |-> TRUE, zones |-> 1],
   [signature |-> FALSE, parts |-> <<Other, Other>>, super |-> TRUE, zones |-> 1],
   [signature |-> TRUE, parts |-> <<Part(2, 3, TRUE), Other>>, super |-> TRUE, zones |-> 1],
   [signature |-> TRUE, parts |-> <<Part(1, 2, TRUE), Part(3, 1, TRUE)>>, super |-> TRUE, zones |-> 1]}

\* The small card of the liveness run: one partition, one raw volume.
MCTablesSmall ==
  {[signature |-> TRUE, parts |-> <<Other, Part(1, 2, TRUE)>>, super |-> TRUE, zones |-> 1],
   [signature |-> FALSE, parts |-> <<Other, Other>>, super |-> TRUE, zones |-> 1]}

\* Byte values are interchangeable, and so are the contents of a sector
\* buffer that nothing will read again.
Perms == Permutations(Val)
View == <<card, programming, busFailed, table, volume, cached, writeFailed,
          blocks, victim, fs, io,
          IF cached # None \/ (io.op = "write" /\ io.pc # "read")
            THEN sector ELSE <<>> >>
=============================================================================
