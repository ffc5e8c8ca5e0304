--------------------------- MODULE RootDiskProofs ---------------------------
(***************************************************************************)
(* Proofs about the root device, for a card, blocks, a cache and requests  *)
(* of any size: every copy mirrors the medium, nothing outside the volume  *)
(* changes, and the stack implements StableStore.                          *)
(*                                                                         *)
(* CopiesMirrorMedium is not inductive: the card may still be programming  *)
(* a write the driver gave up on, and what it finishes is then in no copy  *)
(* only because no command gets past a busy card (Busy).  That a reply to  *)
(* a write means what StableStore says needs how far a write is (Written): *)
(* which bytes are on the medium, and what the sector buffer will add.     *)
(***************************************************************************)
EXTENDS RootDisk, SequenceTheorems, TLAPS

USE SMTT(30), ZenonT(30)

-----------------------------------------------------------------------------
(* The inductive invariant *)

Mounted == volume # NotMounted
VolumeSectors == volume.start..(volume.start + volume.length - 1)

\* The requests in progress.
FsRequest ==
  {NoFs, [op |-> "write"], [op |-> "sync"]}
    \cup [op : {"read"}, at : Nat, n : Nat, staged : Seq(Val), slot : Slots \cup {None}]
IoRequest ==
  {NoIo, [op |-> "sync"]}
    \cup [op : {"read"}, at : Nat, n : Nat, data : Seq(Val)]
    \cup [op : {"write"}, at : Nat, data : Seq(Val), done : Nat,
          pc : {"read", "write", "verify"}, was : [Lba -> Sector]]

Types ==
  /\ card \in [Lba -> Sector]
  /\ programming \in {NoProgram} \cup [lba : Lba, data : Sector]
  /\ busFailed \in BOOLEAN
  /\ table \in Tables
  /\ volume \in {NotMounted, RootVolume(table)}
  /\ sector \in Sector
  /\ cached \in Lba \cup {None}
  /\ writeFailed \in BOOLEAN
  /\ blocks \in [Slots -> {Invalid} \cup [block : Nat, bytes : Seq(Val)]]
  /\ victim \in Slots
  /\ fs \in FsRequest
  /\ io \in IoRequest

NoBlocks == \A s \in Slots : blocks[s] = Invalid

\* MEM works for the request FS waits for; there is none without a root, and a
\* write only while the card is idle and the cache empty.
Control ==
  /\ io # NoIo => Mounted /\ fs.op = io.op
  /\ ~Mounted => programming = NoProgram /\ ~writeFailed /\ fs = NoFs
  /\ io.op = "write" => ~writeFailed /\ NoBlocks /\ (io.pc # "read" => cached = None)

\* A card that is still programming holds a sector of the volume, and nothing
\* has been read since.
Busy ==
  programming # NoProgram =>
    /\ writeFailed /\ NoBlocks /\ cached = None
    /\ programming.lba \in VolumeSectors
    /\ fs.op = "read" => fs.staged = <<>>
    /\ io.op = "read" => io.data = <<>>

\* Requests stay inside the volume.
InRange ==
  /\ fs.op = "read" => fs.at + fs.n <= Capacity /\ Len(fs.staged) <= fs.n
  /\ io.op = "read" =>
       /\ io.at < Capacity /\ io.at = (io.at \div BlockBytes) * BlockBytes
       /\ io.n = IF BlockBytes > Capacity - io.at THEN Capacity - io.at ELSE BlockBytes
       /\ Len(io.data) <= io.n
       /\ fs.slot \in Slots /\ Len(fs.staged) < fs.n
  /\ io.op = "write" =>
       /\ Len(io.data) \in 1..MaxBytes /\ io.at + Len(io.data) <= Capacity
       /\ io.done <= Len(io.data) /\ (io.pc # "read" => io.done < Len(io.data))

\* A valid block is whole.
Whole ==
  \A s \in Slots : blocks[s] # Invalid =>
    LET at == blocks[s].block * BlockBytes
    IN  /\ at < Capacity
        /\ Len(blocks[s].bytes) = IF BlockBytes > Capacity - at THEN Capacity - at ELSE BlockBytes

Copies ==
  /\ CopiesMirrorMedium
  /\ io.op = "read" => io.data = Medium(io.at, Len(io.data))

\* What position p holds when n bytes of the write are on the medium.
Expected(n, p) ==
  IF p \in MemAt(0)..(MemAt(0) + n - 1) THEN io.data[p - MemAt(0) + 1] ELSE At(io.was, p)

\* How far the write is.
Written ==
  io.op = "write" =>
    /\ \A p \in CardPos :
         io.pc # "verify" \/ p \div SectorBytes # MemLba(io.done) =>
           At(card, p) = Expected(io.done, p)
    /\ io.pc # "read" =>
         \A p \in CardPos : p \div SectorBytes = MemLba(io.done) =>
           sector[p % SectorBytes] = Expected(io.done + ChunkBytes, p)

IInv == Types /\ Control /\ Busy /\ InRange /\ Whole /\ Copies /\ Written

-----------------------------------------------------------------------------
(* Positions *)

\* Quotient and remainder.
LEMMA DivMod ==
    ASSUME NEW B \in Nat \ {0}, NEW a \in Nat
    PROVE  /\ a \div B \in Nat /\ a % B \in 0..(B - 1)
           /\ a = ((a \div B) * B) + (a % B)
OBVIOUS

LEMMA DivUnique ==
    ASSUME NEW B \in Nat \ {0}, NEW q \in Nat, NEW r \in 0..(B - 1)
    PROVE  ((q * B) + r) \div B = q /\ ((q * B) + r) % B = r
OBVIOUS

LEMMA DivBelow ==
    ASSUME NEW B \in Nat \ {0}, NEW a \in Nat, NEW n \in Nat
    PROVE  a < n * B <=> a \div B < n
OBVIOUS

\* Positions that follow a in its sector or block.
LEMMA Within ==
    ASSUME NEW B \in Nat \ {0}, NEW a \in Nat, NEW j \in Nat, (a % B) + j < B
    PROVE  (a + j) \div B = a \div B /\ (a + j) % B = (a % B) + j
<1> DEFINE q == a \div B
           r == a % B
<1>1. q \in Nat /\ r \in 0..(B - 1) /\ a = (q * B) + r BY DivMod, Zenon
<1>2. r + j \in 0..(B - 1) BY <1>1
<1>3. a + j = (q * B) + (r + j) BY <1>1
<1> HIDE DEF q, r
<1>4. ((q * B) + (r + j)) \div B = q /\ ((q * B) + (r + j)) % B = r + j
  BY <1>1, <1>2, DivUnique, Zenon
<1> QED BY <1>3, <1>4, Zenon DEF q, r

\* Block numbers and block sizes multiply to byte positions, which are naturals.
LEMMA TimesNat ==
    ASSUME NEW a \in Nat, NEW b \in Nat
    PROVE  a * b \in Nat
OBVIOUS

\* The index of position p in the n bytes from z on.
LEMMA IndexOf ==
    ASSUME NEW z \in Nat, NEW n \in Nat, NEW p \in z..(z + n - 1)
    PROVE  p - z + 1 \in 1..n
OBVIOUS

LEMMA Sizes ==
    /\ SectorBytes \in Nat \ {0} /\ BlockBytes \in Nat \ {0} /\ Sectors \in Nat \ {0}
    /\ BlockSectors \in Nat \ {0} /\ CacheBlocks \in Nat \ {0} /\ MinSectors \in Nat \ {0}
    /\ MaxSectors \in Nat /\ MaxBytes \in Nat
BY GeometryAssumption DEF BlockBytes

\* A byte of the card lies in one sector.
LEMMA SectorOf ==
    ASSUME NEW p \in CardPos
    PROVE  p \in Nat /\ p \div SectorBytes \in Lba /\ p % SectorBytes \in 0..(SectorBytes - 1)
<1>1. p \in Nat /\ p < Sectors * SectorBytes BY Sizes DEF CardPos
<1>2. p \div SectorBytes \in Nat /\ p % SectorBytes \in 0..(SectorBytes - 1)
  BY <1>1, DivMod, Sizes, Zenon
<1>3. p \div SectorBytes < Sectors BY <1>1, DivBelow, Sizes
<1> QED BY <1>1, <1>2, <1>3, Sizes DEF Lba

\* root_init selects a volume inside the card: the one MINIX partition, or as
\* much of a card without a table as the super block says.
LEMMA VolumeFits ==
    ASSUME NEW t \in Tables, RootVolume(t) # NotMounted
    PROVE  LET v == RootVolume(t)
               p == t.parts[CHOOSE i \in Minix(t) : TRUE]
           IN  /\ v = [start |-> v.start, length |-> v.length]
               /\ v.start \in Nat /\ v.length \in Nat \ {0} /\ v.start + v.length <= Sectors
               /\ t.signature => v.start = p.start /\ v.length = p.length
               /\ ~t.signature => v.start = 0 /\ v.length = t.zones * BlockSectors
<1> DEFINE i == CHOOSE i \in Minix(t) : TRUE
           p == t.parts[i]
           raw == IF Sectors > MaxSectors THEN MaxSectors ELSE Sectors
           v == RootVolume(t)
<1>1. t.zones \in Nat /\ t.zones * BlockSectors \in Nat BY TableAssumption, Sizes
<1>2. raw <= Sectors BY Sizes
<1>3. CASE ~t.signature
  <2>1. v = [start |-> 0, length |-> t.zones * BlockSectors] /\ t.zones * BlockSectors <= raw
    BY <1>3 DEF RootVolume, NotMounted
  <2>2. t.zones * BlockSectors # 0 BY <2>1 DEF NotMounted
  <2> HIDE DEF v
  <2> QED BY <1>1, <1>2, <1>3, <2>1, <2>2, Sizes DEF v
<1>4. CASE t.signature
  <2>1. /\ v = [start |-> p.start, length |-> p.length] /\ p.start + p.length <= Sectors
        /\ p.length >= MinSectors /\ \E j \in Minix(t) : Minix(t) = {j}
    BY <1>4 DEF RootVolume, NotMounted
  <2>2. i \in Minix(t) BY <2>1
  <2>3. i \in DOMAIN t.parts BY <2>2 DEF Minix
  <2>4. t.parts \in Seq([minix : BOOLEAN, boot : BOOLEAN, start : Nat, length : Nat])
    BY TableAssumption
  <2> HIDE DEF i
  <2>5. p \in [minix : BOOLEAN, boot : BOOLEAN, start : Nat, length : Nat]
    <3>1. i \in 1..Len(t.parts) BY <2>3, <2>4, LenProperties, Zenon
    <3> QED BY <3>1, <2>4, ElementOfSeq, Zenon
  <2> HIDE DEF v, p
  <2> QED BY <1>4, <2>1, <2>5, Sizes DEF v, p, i
<1> QED BY <1>3, <1>4

\* The volume of a mounted root.
LEMMA VolumeLemma ==
    ASSUME Types
    PROVE  /\ volume.start \in Nat /\ volume.length \in Nat /\ Capacity \in Nat
           /\ volume.start + volume.length <= Sectors /\ VolumeSectors \subseteq Lba
           /\ Capacity > 0 <=> Mounted
<1>1. CASE volume = NotMounted BY <1>1, Sizes DEF NotMounted, Capacity, Mounted, VolumeSectors
<1>2. CASE volume # NotMounted
  <2>1. table \in Tables /\ volume = RootVolume(table) BY <1>2 DEF Types
  <2>2. /\ volume.start \in Nat /\ volume.length \in Nat \ {0}
        /\ volume.start + volume.length <= Sectors
    BY <1>2, <2>1, VolumeFits, Zenon
  <2>3. volume.length * SectorBytes \in Nat \ {0} BY <2>2, Sizes
  <2> QED BY <1>2, <2>2, <2>3, Sizes DEF Capacity, Mounted, VolumeSectors, Lba
<1> QED BY <1>1, <1>2

\* Byte x of the volume is a byte of the card, in a sector of the volume.
LEMMA InVolume ==
    ASSUME Types, NEW x \in Nat, x < Capacity
    PROVE  /\ volume.start * SectorBytes + x \in CardPos
           /\ (volume.start * SectorBytes + x) \div SectorBytes \in VolumeSectors
           /\ volume.start * SectorBytes \in Nat
<1> DEFINE a == volume.start * SectorBytes
           q == (a + x) \div SectorBytes
<1>1. /\ volume.start \in Nat /\ volume.length \in Nat
      /\ volume.start + volume.length <= Sectors
  BY VolumeLemma
<1>2. a \in Nat /\ a + x \in Nat BY <1>1, Sizes
<1>3. a + x < (volume.start + volume.length) * SectorBytes BY <1>1, <1>2, Sizes DEF Capacity
<1>4. ~(a + x < volume.start * SectorBytes) BY <1>2
<1> HIDE DEF a
<1>5. q \in Nat /\ volume.start + volume.length \in Nat
  <2>1. q \in Nat BY <1>2, DivMod, Sizes, Zenon
  <2> QED BY <1>1, <2>1
<1>6. q < volume.start + volume.length BY <1>2, <1>3, <1>5, DivBelow, Sizes, Zenon
<1>7. ~(q < volume.start) BY <1>1, <1>2, <1>4, DivBelow, Sizes, Zenon
<1>8. (volume.start + volume.length) * SectorBytes <= Sectors * SectorBytes BY <1>1, Sizes
<1>9. q \in VolumeSectors BY <1>1, <1>5, <1>6, <1>7 DEF VolumeSectors
<1>10. a + x \in CardPos BY <1>1, <1>2, <1>3, <1>8, Sizes DEF CardPos
<1> QED BY <1>2, <1>9, <1>10 DEF a

-----------------------------------------------------------------------------
(* Bytes of the volume *)

LEMMA AtVal ==
    ASSUME NEW c \in [Lba -> Sector], NEW p \in CardPos
    PROVE  At(c, p) \in Val
<1>1. p \div SectorBytes \in Lba /\ p % SectorBytes \in 0..(SectorBytes - 1) BY SectorOf, Zenon
<1>2. c[p \div SectorBytes] \in Sector BY <1>1, Zenon
<1> QED BY <1>1, <1>2, Zenon DEF At, Sector

LEMMA MediumSeq ==
    ASSUME Types, NEW at \in Nat, NEW n \in Nat, at + n <= Capacity
    PROVE  /\ Medium(at, n) \in Seq(Val) /\ Len(Medium(at, n)) = n
           /\ \A i \in 1..n : Medium(at, n)[i] = At(card, volume.start * SectorBytes + at + i - 1)
<1> DEFINE a == volume.start * SectorBytes
           e(i) == At(card, a + at + i - 1)
<1>1. card \in [Lba -> Sector] BY DEF Types
<1>2. Capacity \in Nat BY VolumeLemma
<1>3. ASSUME NEW i \in 1..n PROVE e(i) \in Val
  <2>1. at + i - 1 \in Nat /\ at + i - 1 < Capacity BY <1>2
  <2>2. a + (at + i - 1) \in CardPos /\ a \in Nat BY <2>1, InVolume
  <2> HIDE DEF a
  <2>3. a + at + i - 1 = a + (at + i - 1) BY <2>2
  <2> QED BY <1>1, <2>2, <2>3, AtVal, Zenon
<1> HIDE DEF e
<1>4. [i \in 1..n |-> e(i)] \in Seq(Val) BY <1>3
<1>5. Medium(at, n) = [i \in 1..n |-> e(i)] BY Zenon DEF Medium, e
<1>6. Len([i \in 1..n |-> e(i)]) = n BY <1>4
<1> QED BY <1>4, <1>5, <1>6 DEF e

\* Adjacent ranges.
LEMMA MediumJoin ==
    ASSUME Types, NEW at \in Nat, NEW n \in Nat, NEW m \in Nat, at + n + m <= Capacity
    PROVE  Medium(at, n) \o Medium(at + n, m) = Medium(at, n + m)
<1> DEFINE a == volume.start * SectorBytes
           s == Medium(at, n)
           t == Medium(at + n, m)
           u == Medium(at, n + m)
<1>1. Capacity \in Nat /\ a \in Nat BY VolumeLemma, Sizes
<1>2. /\ at + n \in Nat /\ n + m \in Nat /\ at + n <= Capacity
      /\ (at + n) + m <= Capacity /\ at + (n + m) <= Capacity
  BY <1>1
<1>3. /\ s \in Seq(Val) /\ Len(s) = n /\ \A i \in 1..n : s[i] = At(card, a + at + i - 1)
  BY <1>2, MediumSeq, Zenon
<1>4. /\ t \in Seq(Val) /\ Len(t) = m /\ \A i \in 1..m : t[i] = At(card, a + (at + n) + i - 1)
  BY <1>2, MediumSeq, Zenon
<1>5. /\ u \in Seq(Val) /\ Len(u) = n + m
      /\ \A i \in 1..(n + m) : u[i] = At(card, a + at + i - 1)
  BY <1>2, MediumSeq, Zenon
<1> HIDE DEF s, t, u, a
<1>6. /\ s \o t \in Seq(Val) /\ Len(s \o t) = n + m
      /\ \A i \in 1..(n + m) : (s \o t)[i] = IF i <= n THEN s[i] ELSE t[i - n]
  BY <1>3, <1>4, ConcatProperties, Zenon
<1>7. ASSUME NEW i \in 1..(n + m) PROVE (s \o t)[i] = u[i]
  <2>1. CASE i <= n BY <1>3, <1>5, <1>6, <2>1
  <2>2. CASE ~(i <= n)
    <3>1. i - n \in 1..m /\ a + (at + n) + (i - n) - 1 = a + at + i - 1 BY <1>1, <2>2
    <3> QED BY <1>4, <1>5, <1>6, <2>2, <3>1, Zenon
  <2> QED BY <2>1, <2>2, Zenon
<1>8. s \o t = u BY <1>5, <1>6, <1>7, SeqEqual, Zenon
<1> QED BY <1>8 DEF s, t, u

\* Part of a range.
IsPart(at, n, w, c) == SubSeq(Medium(at, n), w + 1, w + c) = Medium(at + w, c)

LEMMA MediumPart ==
    ASSUME Types, NEW at \in Nat, NEW n \in Nat, NEW w \in Nat, NEW c \in Nat,
           w + c <= n, at + n <= Capacity
    PROVE  IsPart(at, n, w, c)
<1> DEFINE a == volume.start * SectorBytes
           s == Medium(at, n)
           t == Medium(at + w, c)
           u == SubSeq(s, w + 1, w + c)
<1>1. Capacity \in Nat /\ a \in Nat BY VolumeLemma, Sizes
<1>2. at + w \in Nat /\ (at + w) + c <= Capacity BY <1>1
<1>3. /\ s \in Seq(Val) /\ Len(s) = n /\ \A i \in 1..n : s[i] = At(card, a + at + i - 1)
  BY MediumSeq, Zenon
<1>4. /\ t \in Seq(Val) /\ Len(t) = c /\ \A i \in 1..c : t[i] = At(card, a + (at + w) + i - 1)
  BY <1>2, MediumSeq, Zenon
<1> HIDE DEF s, t, a
<1>5. u \in Seq(Val) /\ Len(u) = c /\ \A i \in 1..c : u[i] = s[w + i]
  BY <1>3
<1>6. ASSUME NEW i \in 1..c PROVE u[i] = t[i]
  <2>1. w + i \in 1..n /\ a + at + (w + i) - 1 = a + (at + w) + i - 1 BY <1>1
  <2> QED BY <1>3, <1>4, <1>5, <2>1
<1> HIDE DEF u
<1>7. u = t BY <1>4, <1>5, <1>6, SeqEqual, Zenon
<1> QED BY <1>7, Zenon DEF s, t, u, IsPart

\* The part of a sector that a request covers.
LEMMA MediumSector ==
    ASSUME Types, NEW at \in Nat, NEW c \in Nat \ {0}, at + c <= Capacity,
           NEW k, k = volume.start * SectorBytes + at, c <= SectorBytes - (k % SectorBytes)
    PROVE  [i \in 1..c |-> card[k \div SectorBytes][(k % SectorBytes) + i - 1]] = Medium(at, c)
<1> DEFINE a == volume.start * SectorBytes
           w == k % SectorBytes
           l == k \div SectorBytes
<1>1. Capacity \in Nat /\ a \in Nat /\ k \in Nat BY VolumeLemma, Sizes
<1>2. w \in 0..(SectorBytes - 1) BY <1>1, Sizes, DivMod, Zenon
<1>3. ASSUME NEW i \in 1..c PROVE At(card, a + at + i - 1) = card[l][w + i - 1]
  <2> DEFINE j == i - 1
  <2>1. j \in Nat /\ w + j < SectorBytes BY <1>2, Sizes
  <2>2. a + at + i - 1 = k + j /\ w + j = w + i - 1
    <3> HIDE DEF w
    <3> QED BY <1>1, <1>2
  <2> HIDE DEF j
  <2>3. (k + j) \div SectorBytes = l /\ (k + j) % SectorBytes = w + j
    BY <1>1, <2>1, Sizes, Within, Zenon
  <2> QED BY <2>2, <2>3, Zenon DEF At
<1> QED BY <1>3, Zenon DEF Medium

LEMMA MediumEmpty ==
    ASSUME Types, NEW at \in Nat, at <= Capacity
    PROVE  Medium(at, 0) = <<>>
<1>1. at + 0 <= Capacity BY VolumeLemma
<1>2. Medium(at, 0) \in Seq(Val) /\ Len(Medium(at, 0)) = 0 BY <1>1, MediumSeq
<1> QED BY <1>2, EmptySeq, Zenon

-----------------------------------------------------------------------------
(* The requests *)

LEMMA FsReads ==
    ASSUME Types, fs.op = "read"
    PROVE  fs \in [op : {"read"}, at : Nat, n : Nat, staged : Seq(Val), slot : Slots \cup {None}]
BY DEF Types, FsRequest, NoFs

LEMMA IoReads ==
    ASSUME Types, io.op = "read"
    PROVE  io \in [op : {"read"}, at : Nat, n : Nat, data : Seq(Val)]
BY DEF Types, IoRequest, NoIo

LEMMA IoWrites ==
    ASSUME Types, io.op = "write"
    PROVE  io \in [op : {"write"}, at : Nat, data : Seq(Val), done : Nat,
                   pc : {"read", "write", "verify"}, was : [Lba -> Sector]]
BY DEF Types, IoRequest, NoIo

\* When FS makes no request, MEM serves none.
LEMMA IdleIo ==
    ASSUME Types, Control, fs = NoFs
    PROVE  io = NoIo
BY DEF Types, Control, IoRequest, NoIo, NoFs

\* A request ends and leaves the medium and the blocks as they are.
LEMMA Ends ==
    ASSUME IInv, Types', io' = NoIo, fs' = NoFs, UNCHANGED <<card, programming, volume, blocks>>,
           writeFailed => writeFailed', Mounted \/ ~writeFailed',
           cached' = None \/ (cached' = cached /\ sector' = sector)
    PROVE  IInv'
<1>1. Control' BY Zenon DEF IInv, Control, NoIo, NoFs, Mounted
<1>2. Busy' BY DEF IInv, Busy, NoIo, NoFs, NoBlocks, VolumeSectors
<1>3. InRange' BY DEF InRange, NoIo, NoFs
<1>4. Whole' BY DEF IInv, Whole, Capacity
<1>5. Copies'
  <2>1. \A s \in Slots : blocks'[s] # Invalid =>
          blocks'[s].bytes = Medium(blocks[s].block * BlockBytes, Len(blocks[s].bytes))'
    BY Zenon DEF IInv, Copies, CopiesMirrorMedium, Medium
  <2>2. cached' # None => sector' = card'[cached'] BY Zenon DEF IInv, Copies, CopiesMirrorMedium
  <2> QED BY <2>1, <2>2 DEF Copies, CopiesMirrorMedium, NoIo, NoFs
<1>6. Written' BY DEF Written, NoIo
<1> QED BY <1>1, <1>2, <1>3, <1>4, <1>5, <1>6 DEF IInv

\* A request ends with the block cache dropped.
LEMMA Dropped ==
    ASSUME Types', io' = NoIo, fs' = NoFs, NoBlocks',
           cached' = None \/ (sector' = card'[cached'] /\ programming' = NoProgram),
           programming' # NoProgram => writeFailed' /\ programming'.lba \in VolumeSectors',
           Mounted' \/ (programming' = NoProgram /\ ~writeFailed')
    PROVE  IInv'
<1>1. Control' BY Zenon DEF Control, NoIo, NoFs
<1>2. Busy' BY Zenon DEF Busy, NoIo, NoFs
<1>3. InRange' BY DEF InRange, NoIo, NoFs
<1>4. Whole' BY Zenon DEF Whole, NoBlocks
<1>5. Copies' BY Zenon DEF Copies, CopiesMirrorMedium, NoBlocks, NoIo, NoFs
<1>6. Written' BY DEF Written, NoIo
<1> QED BY <1>1, <1>2, <1>3, <1>4, <1>5, <1>6 DEF IInv

\* cp32_cache_invalidate.
LEMMA Invalidated ==
    ASSUME cp32_cache_invalidate
    PROVE  /\ blocks' \in [Slots -> {Invalid} \cup [block : Nat, bytes : Seq(Val)]]
           /\ victim' \in Slots /\ NoBlocks'
BY Sizes DEF cp32_cache_invalidate, Slots, NoBlocks

-----------------------------------------------------------------------------
(* FS *)

LEMMA InitInv == Init => IInv
<1> SUFFICES ASSUME Init PROVE IInv
  OBVIOUS
<1>1. Val # {}
  <2>1. 0 \in Lba /\ 0 \in 0..(SectorBytes - 1) BY Sizes DEF Lba
  <2>2. card[0] \in Sector BY <2>1, Zenon DEF Init
  <2>3. card[0][0] \in Val BY <2>1, <2>2, Zenon DEF Sector
  <2> QED BY <2>3
<1>2. (CHOOSE v \in Val : TRUE) \in Val BY <1>1
<1>3. Types
  <2>1. sector \in Sector BY <1>2, Zenon DEF Init, Sector
  <2>2. blocks \in [Slots -> {Invalid} \cup [block : Nat, bytes : Seq(Val)]] BY DEF Init
  <2>3. victim \in Slots BY Sizes DEF Init, Slots
  <2> QED BY <2>1, <2>2, <2>3, Zenon DEF Init, Types, FsRequest, IoRequest
<1>4. Control BY Zenon DEF Init, Control, NoIo
<1>5. Busy BY Zenon DEF Init, Busy
<1>6. InRange BY DEF Init, InRange, NoIo, NoFs
<1>7. Whole BY DEF Init, Whole
<1>8. Copies BY DEF Init, Copies, CopiesMirrorMedium, NoIo, NoFs
<1>9. Written BY DEF Init, Written, NoIo
<1> QED BY <1>3, <1>4, <1>5, <1>6, <1>7, <1>8, <1>9 DEF IInv

LEMMA FsReadInv ==
    ASSUME IInv, NEW at \in CardPos, NEW n \in 1..MaxBytes, FsRead(at, n)
    PROVE  IInv'
<1>1. /\ fs = NoFs /\ at + n <= Capacity
      /\ fs' = [op |-> "read", at |-> at, n |-> n, staged |-> <<>>, slot |-> None]
  BY Zenon DEF FsRead
<1>2. UNCHANGED <<card, programming, busFailed, table, volume, sector, cached, writeFailed,
                  blocks, victim, io>>
  BY Zenon DEF FsRead, disk, root, cache
<1>3. at \in Nat /\ n \in Nat /\ Capacity \in Nat BY Sizes, VolumeLemma DEF CardPos, IInv
<1>4. io = NoIo BY <1>1, IdleIo DEF IInv
<1>5. Mounted BY <1>1, <1>3, VolumeLemma DEF IInv
<1>6. Types'
  <2>1. fs' \in FsRequest BY <1>1, <1>3 DEF FsRequest
  <2> QED BY <1>2, <2>1, Zenon DEF IInv, Types
<1>7. Control' BY <1>2, <1>4, <1>5, Zenon DEF IInv, Control, NoIo, Mounted
<1>8. Busy' BY <1>1, <1>2, <1>4 DEF IInv, Busy, NoIo, NoBlocks, VolumeSectors
<1>9. InRange' BY <1>1, <1>2, <1>3, <1>4 DEF InRange, NoIo, Capacity
<1>10. Whole' BY <1>2 DEF IInv, Whole, Capacity
<1>11. Copies'
  <2>1. Medium(at, 0) = <<>> BY <1>1, <1>3, MediumEmpty DEF IInv
  <2>2. fs'.staged = Medium(fs.at, Len(fs.staged))'
    <3>1. Medium(fs.at, Len(fs.staged))' = Medium(at, 0) BY <1>1, <1>2 DEF Medium
    <3> QED BY <1>1, <2>1, <3>1
  <2>3. \A s \in Slots : blocks'[s] # Invalid =>
          blocks'[s].bytes = Medium(blocks[s].block * BlockBytes, Len(blocks[s].bytes))'
    BY <1>2, Zenon DEF IInv, Copies, CopiesMirrorMedium, Medium
  <2>4. cached' # None => sector' = card'[cached']
    BY <1>2, Zenon DEF IInv, Copies, CopiesMirrorMedium
  <2>5. io'.op # "read" BY <1>2, <1>4 DEF NoIo
  <2> QED BY <2>2, <2>3, <2>4, <2>5, Zenon DEF Copies, CopiesMirrorMedium
<1>12. Written' BY <1>2, <1>4 DEF Written, NoIo
<1> QED BY <1>6, <1>7, <1>8, <1>9, <1>10, <1>11, <1>12 DEF IInv

LEMMA FsReadDoneInv ==
    ASSUME IInv, FsReadDone
    PROVE  IInv'
<1>1. fs.op = "read" /\ Len(fs.staged) = fs.n /\ fs' = NoFs BY Zenon DEF FsReadDone
<1>2. UNCHANGED <<card, programming, busFailed, table, volume, sector, cached, writeFailed,
                  blocks, victim, io>>
  BY Zenon DEF FsReadDone, disk, root, cache
<1>3. io = NoIo
  <2>1. io.op # "read"
    BY <1>1, FsReads DEF IInv, InRange
  <2> QED BY <1>1, <2>1, Zenon DEF IInv, Control
<1>4. Mounted BY <1>1 DEF IInv, Control, NoFs
<1>5. Types'
  <2>1. fs' \in FsRequest BY <1>1, Zenon DEF FsRequest
  <2> QED BY <1>2, <2>1, Zenon DEF IInv, Types
<1> QED BY <1>1, <1>2, <1>3, <1>4, <1>5, Ends, Zenon

LEMMA FsSyncInv ==
    ASSUME IInv, FsSync
    PROVE  IInv'
<1>1. /\ fs = NoFs /\ Capacity > 0 /\ ~writeFailed
      /\ fs' = [op |-> "sync"] /\ io' = [op |-> "sync"]
  BY Zenon DEF FsSync
<1>2. UNCHANGED <<card, programming, busFailed, table, volume, sector, cached, writeFailed,
                  blocks, victim>>
  BY Zenon DEF FsSync, disk, root, cache
<1>3. Mounted BY <1>1, VolumeLemma DEF IInv
<1>4. Types'
  <2>1. fs' \in FsRequest /\ io' \in IoRequest BY <1>1, Zenon DEF FsRequest, IoRequest
  <2> QED BY <1>2, <2>1, Zenon DEF IInv, Types
<1>5. Control' BY <1>1, <1>2, <1>3 DEF Control, NoIo, Mounted
<1>6. programming' = NoProgram BY <1>1, <1>2, Zenon DEF IInv, Busy
<1>7. Busy' BY <1>6, Zenon DEF Busy
<1>8. InRange' BY <1>1 DEF InRange
<1>9. Whole' BY <1>2 DEF IInv, Whole, Capacity
<1>10. Copies'
  <2>1. \A s \in Slots : blocks'[s] # Invalid =>
          blocks'[s].bytes = Medium(blocks[s].block * BlockBytes, Len(blocks[s].bytes))'
    BY <1>2, Zenon DEF IInv, Copies, CopiesMirrorMedium, Medium
  <2>2. cached' # None => sector' = card'[cached']
    BY <1>2, Zenon DEF IInv, Copies, CopiesMirrorMedium
  <2> QED BY <1>1, <2>1, <2>2 DEF Copies, CopiesMirrorMedium
<1>11. Written' BY <1>1 DEF Written
<1> QED BY <1>4, <1>5, <1>7, <1>8, <1>9, <1>10, <1>11 DEF IInv

LEMMA FsWriteInv ==
    ASSUME IInv, NEW at \in CardPos, NEW m \in 1..MaxBytes, NEW bytes \in [1..m -> Val],
           FsWrite(at, bytes)
    PROVE  IInv'
<1> DEFINE n == IF Len(bytes) > Capacity - at THEN Capacity - at ELSE Len(bytes)
<1>1. fs = NoFs /\ cp32_cache_invalidate BY Zenon DEF FsWrite
<1>2. UNCHANGED <<card, programming, busFailed, table, volume, sector, cached, writeFailed>>
  BY Zenon DEF FsWrite, disk, root
<1>3. io = NoIo BY <1>1, IdleIo DEF IInv
<1>4. /\ blocks' \in [Slots -> {Invalid} \cup [block : Nat, bytes : Seq(Val)]]
      /\ victim' \in Slots /\ NoBlocks'
  BY <1>1, Invalidated
<1>5. ASSUME fs' \in FsRequest, io' \in IoRequest PROVE Types'
  BY <1>2, <1>4, <1>5, Zenon DEF IInv, Types
<1>6. CASE UNCHANGED <<fs, io>>
  <2>1. fs' = NoFs /\ io' = NoIo BY <1>1, <1>3, <1>6
  <2>2. Types' BY <1>5, <2>1, Zenon DEF FsRequest, IoRequest
  <2>3. cached = None \/ (sector = card[cached] /\ programming = NoProgram)
    BY Zenon DEF IInv, Busy, Copies, CopiesMirrorMedium
  <2>4. programming # NoProgram => writeFailed /\ programming.lba \in VolumeSectors
    BY Zenon DEF IInv, Busy
  <2>5. Mounted \/ (programming = NoProgram /\ ~writeFailed) BY Zenon DEF IInv, Control
  <2>6. VolumeSectors' = VolumeSectors /\ Mounted' = Mounted
    BY <1>2, Zenon DEF VolumeSectors, Mounted
  <2> QED BY <1>2, <1>4, <2>1, <2>2, <2>3, <2>4, <2>5, <2>6, Dropped, Zenon
<1>7. CASE /\ ~(Capacity = 0 \/ writeFailed \/ at >= Capacity)
           /\ fs' = [op |-> "write"]
           /\ io' = [op |-> "write", at |-> at, data |-> SubSeq(bytes, 1, n),
                     done |-> 0, pc |-> "read", was |-> card]
  <2>1. at \in Nat /\ Capacity \in Nat /\ m \in 1..MaxBytes /\ MaxBytes \in Nat
    BY Sizes, VolumeLemma DEF CardPos, IInv
  <2>2. bytes \in Seq(Val) /\ Len(bytes) = m BY <2>1
  <2>3. n \in 1..m /\ at + n <= Capacity BY <1>7, <2>1, <2>2
  <2> HIDE DEF n
  <2>4. SubSeq(bytes, 1, n) \in Seq(Val) /\ Len(SubSeq(bytes, 1, n)) = n BY <2>1, <2>2, <2>3
  <2> DEFINE data == SubSeq(bytes, 1, n)
  <2> HIDE DEF data
  <2>5. data \in Seq(Val) /\ Len(data) = n BY <2>4 DEF data
  <2>6. /\ io'.op = "write" /\ io'.at = at /\ io'.data = data /\ io'.done = 0
        /\ io'.pc = "read" /\ io'.was = card
    BY <1>7, Zenon DEF data
  <2>7. Mounted BY <1>7, <2>1, VolumeLemma DEF IInv
  <2>8. Types'
    <3>1. card \in [Lba -> Sector] BY DEF IInv, Types
    <3>2. io' = [op |-> "write", at |-> at, data |-> data, done |-> 0, pc |-> "read",
                 was |-> card]
      BY <1>7, Zenon DEF data
    <3>3. io' \in IoRequest BY <2>1, <2>5, <3>1, <3>2 DEF IoRequest
    <3>4. fs' \in FsRequest BY <1>7, Zenon DEF FsRequest
    <3> QED BY <1>5, <3>3, <3>4, Zenon
  <2>9. Control'
    <3>1. Mounted' /\ ~writeFailed' BY <1>2, <1>7, <2>7, Zenon DEF Mounted
    <3>2. fs'.op = "write" BY <1>7
    <3> QED BY <1>4, <2>6, <3>1, <3>2, Zenon DEF Control
  <2>10. Busy'
    <3>1. programming = NoProgram BY <1>7, Zenon DEF IInv, Busy
    <3> QED BY <1>2, <3>1, Zenon DEF Busy
  <2>11. InRange'
    <3>1. Capacity' = Capacity BY <1>2, Zenon DEF Capacity
    <3>2. fs'.op = "write" BY <1>7
    <3> QED BY <2>1, <2>3, <2>5, <2>6, <3>1, <3>2 DEF InRange
  <2>12. Whole' BY <1>4, Zenon DEF Whole, NoBlocks
  <2>13. Copies'
    <3>1. fs'.op = "write" BY <1>7
    <3>2. cached' # None => sector' = card'[cached']
      BY <1>2, Zenon DEF IInv, Copies, CopiesMirrorMedium
    <3> QED BY <1>4, <2>6, <3>1, <3>2 DEF Copies, CopiesMirrorMedium, NoBlocks
  <2>14. Written'
    <3>1. volume.start * SectorBytes \in Nat BY VolumeLemma, Sizes DEF IInv
    <3>2. MemAt(0)' = volume.start * SectorBytes + at + 0 BY <1>2, <2>6, Zenon DEF MemAt
    <3>3. MemAt(0)' \in Nat
      <4> DEFINE a == volume.start * SectorBytes
      <4>1. a \in Nat /\ MemAt(0)' = a + at + 0 BY <3>1, <3>2
      <4> HIDE DEF a
      <4> QED BY <2>1, <4>1
    <3>4. ASSUME NEW p \in CardPos PROVE At(card, p)' = Expected(io.done, p)'
      <4>1. ~(p \in (MemAt(0)..(MemAt(0) + io.done - 1))')
        <5> DEFINE x == MemAt(0)'
        <5> HIDE DEF x
        <5>1. ~(p \in x..(x + 0 - 1)) BY <3>3 DEF x
        <5> QED BY <2>6, <5>1, Zenon DEF x
      <4>2. At(io.was, p)' = At(card, p)' BY <1>2, <2>6, Zenon DEF At
      <4> QED BY <4>1, <4>2, Zenon DEF Expected
    <3> QED BY <2>6, <3>4, Zenon DEF Written
  <2> QED BY <2>8, <2>9, <2>10, <2>11, <2>12, <2>13, <2>14 DEF IInv
<1> QED BY <1>6, <1>7, Zenon DEF FsWrite

\* Where a read of FS is.
LEMMA NextPosLemma ==
    ASSUME IInv, Reading
    PROVE  /\ Len(fs.staged) \in Nat /\ NextPos \in Nat /\ NextPos < Capacity /\ Mounted
           /\ NextBlock \in Nat /\ NextPos % BlockBytes \in 0..(BlockBytes - 1)
           /\ NextPos = (NextBlock * BlockBytes) + (NextPos % BlockBytes)
           /\ NextBlock * BlockBytes \in Nat /\ NextBlock * BlockBytes < Capacity
           /\ NextPos + (fs.n - Len(fs.staged)) <= Capacity
<1>1. /\ fs.op = "read" /\ Len(fs.staged) < fs.n BY Zenon DEF Reading
<1>2. fs.at \in Nat /\ fs.n \in Nat /\ fs.staged \in Seq(Val) BY <1>1, FsReads DEF IInv
<1>3. Capacity \in Nat /\ fs.at + fs.n <= Capacity
  BY <1>1, VolumeLemma DEF IInv, InRange
<1>4. Len(fs.staged) \in Nat BY <1>2
<1>5. /\ NextPos \in Nat /\ NextPos < Capacity /\ NextPos + (fs.n - Len(fs.staged)) <= Capacity
  BY <1>1, <1>2, <1>3, <1>4 DEF NextPos
<1>6. /\ NextBlock \in Nat /\ NextPos % BlockBytes \in 0..(BlockBytes - 1)
      /\ NextPos = (NextBlock * BlockBytes) + (NextPos % BlockBytes)
  BY <1>5, Sizes, DivMod, Zenon DEF NextBlock
<1>7. NextBlock * BlockBytes \in Nat BY <1>6, Sizes
<1>8. NextBlock * BlockBytes < Capacity
  <2> DEFINE x == NextBlock * BlockBytes
             w == NextPos % BlockBytes
  <2>1. x \in Nat /\ w \in 0..(BlockBytes - 1) /\ NextPos = x + w BY <1>6, <1>7
  <2> HIDE DEF x, w
  <2>2. x < Capacity BY <1>3, <1>5, <2>1, Sizes
  <2> QED BY <2>2 DEF x
<1>9. Mounted BY <1>3, <1>5, VolumeLemma DEF IInv
<1> QED BY <1>4, <1>5, <1>6, <1>7, <1>8, <1>9

LEMMA CacheHitInv ==
    ASSUME IInv, CacheHit
    PROVE  IInv'
<1> DEFINE within == NextPos % BlockBytes
           rest == fs.n - Len(fs.staged)
           chunk == IF rest > BlockBytes - within THEN BlockBytes - within ELSE rest
<1>1. Reading BY Zenon DEF CacheHit
<1>2. UNCHANGED <<card, programming, busFailed, table, volume, sector, cached, writeFailed,
                  blocks, victim, io>>
  BY Zenon DEF CacheHit, disk, root, cache
<1>3. PICK s \in Slots :
        /\ Hit(s)
        /\ fs' = [fs EXCEPT !.staged = @ \o SubSeq(blocks[s].bytes, within + 1, within + chunk)]
  BY Zenon DEF CacheHit
<1> DEFINE at == NextBlock * BlockBytes
           len == Len(blocks[s].bytes)
           done == Len(fs.staged)
<1>4. /\ fs.op = "read" /\ io = NoIo /\ done < fs.n BY <1>1, Zenon DEF Reading
<1>5. fs \in [op : {"read"}, at : Nat, n : Nat, staged : Seq(Val), slot : Slots \cup {None}]
  BY <1>4, FsReads DEF IInv
<1>6. /\ done \in Nat /\ NextPos \in Nat /\ NextPos < Capacity /\ Mounted
      /\ NextBlock \in Nat /\ within \in 0..(BlockBytes - 1)
      /\ NextPos = at + within /\ at \in Nat /\ at < Capacity
      /\ NextPos + rest <= Capacity
  BY <1>1, NextPosLemma, Zenon
<1>7. blocks[s] # Invalid /\ blocks[s].block = NextBlock
  BY <1>3, <1>6 DEF Hit, Invalid, None
<1>8. len = IF BlockBytes > Capacity - at THEN Capacity - at ELSE BlockBytes
  BY <1>7, Zenon DEF IInv, Whole
<1>9. blocks[s].bytes = Medium(at, len)
  BY <1>7, Zenon DEF IInv, Copies, CopiesMirrorMedium
<1>10. Capacity \in Nat BY VolumeLemma DEF IInv
<1>11. fs.n \in Nat /\ fs.at \in Nat /\ NextPos = fs.at + done BY <1>5 DEF NextPos
<1> HIDE DEF within, at, len, done
<1>12. /\ chunk \in Nat /\ len \in Nat /\ within + chunk <= len /\ at + len <= Capacity
       /\ done + chunk <= fs.n /\ fs.at + done + chunk <= Capacity
  <2>1. rest \in Nat /\ rest = fs.n - done /\ BlockBytes \in Nat
    BY <1>4, <1>6, <1>11, Sizes DEF done
  <2>2. at + within + rest <= Capacity BY <1>6, Zenon
  <2>a. chunk = IF rest > BlockBytes - within THEN BlockBytes - within ELSE rest OBVIOUS
  <2> HIDE DEF chunk, rest
  <2>3. len \in Nat /\ at + len <= Capacity /\ (len = BlockBytes \/ len = Capacity - at)
    BY <1>6, <1>8, <1>10, <2>1
  <2>4. chunk \in Nat /\ chunk <= rest /\ within + chunk <= BlockBytes
    BY <1>6, <2>1, <2>a
  <2>5. within + chunk <= len
    <3>1. CASE len = BlockBytes BY <2>4, <3>1, Zenon
    <3>2. CASE len = Capacity - at BY <1>6, <1>10, <2>1, <2>2, <2>4, <3>2
    <3> QED BY <2>3, <3>1, <3>2, Zenon
  <2>6. done + chunk <= fs.n /\ fs.at + done + chunk <= Capacity
    BY <1>6, <1>10, <1>11, <2>1, <2>4
  <2> QED BY <2>3, <2>4, <2>5, <2>6, Zenon
<1> HIDE DEF chunk
<1>13. SubSeq(Medium(at, len), within + 1, within + chunk) = Medium(at + within, chunk)
  <2>1. within \in Nat /\ at \in Nat /\ Types BY <1>6 DEF IInv
  <2>2. chunk \in Nat /\ len \in Nat /\ within + chunk <= len /\ at + len <= Capacity BY <1>12
  <2>3. IsPart(at, len, within, chunk) BY <2>1, <2>2, MediumPart, Zenon
  <2> QED BY <2>3, Zenon DEF IsPart
<1>14. fs.staged = Medium(fs.at, done)
  BY <1>4, Zenon DEF IInv, Copies, CopiesMirrorMedium, done
<1>15. fs' = [fs EXCEPT !.staged = Medium(fs.at, done + chunk)]
  <2>1. Medium(fs.at, done) \o Medium(fs.at + done, chunk) = Medium(fs.at, done + chunk)
    BY <1>6, <1>11, <1>12, MediumJoin, ZenonT(60) DEF IInv
  <2>2. SubSeq(blocks[s].bytes, within + 1, within + chunk) = Medium(fs.at + done, chunk)
    BY <1>6, <1>9, <1>11, <1>13, Zenon
  <2> QED BY <1>3, <1>14, <2>1, <2>2, Zenon
<1>16. /\ Medium(fs.at, done + chunk) \in Seq(Val)
       /\ Len(Medium(fs.at, done + chunk)) = done + chunk
  <2>1. done + chunk \in Nat /\ fs.at + (done + chunk) <= Capacity
    BY <1>6, <1>10, <1>11, <1>12
  <2> QED BY <1>11, <2>1, MediumSeq, Zenon DEF IInv
<1>17. /\ fs'.op = "read" /\ fs'.at = fs.at /\ fs'.n = fs.n /\ fs'.slot = fs.slot
       /\ fs'.staged = Medium(fs.at, done + chunk) /\ Len(fs'.staged) = done + chunk
  BY <1>5, <1>15, <1>16
<1>18. Types'
  <2>1. fs' \in FsRequest BY <1>5, <1>15, <1>16, Zenon DEF FsRequest
  <2> QED BY <1>2, <2>1, Zenon DEF IInv, Types
<1>19. Control' BY <1>2, <1>4, <1>6, Zenon DEF IInv, Control, NoIo, Mounted
<1>20. Busy'
  <2>1. programming = NoProgram BY <1>7, Zenon DEF IInv, Busy, NoBlocks
  <2> QED BY <1>2, <2>1, Zenon DEF Busy
<1>21. InRange'
  <2>1. fs.at + fs.n <= Capacity BY <1>4, Zenon DEF IInv, InRange
  <2>2. Capacity' = Capacity BY <1>2, Zenon DEF Capacity
  <2>3. io'.op = "idle" BY <1>2, <1>4 DEF NoIo
  <2> QED BY <1>12, <1>17, <2>1, <2>2, <2>3 DEF InRange
<1>22. Whole' BY <1>2 DEF IInv, Whole, Capacity
<1>23. Copies'
  <2>1. \A x \in Slots : blocks'[x] # Invalid =>
          blocks'[x].bytes = Medium(blocks[x].block * BlockBytes, Len(blocks[x].bytes))'
    BY <1>2, Zenon DEF IInv, Copies, CopiesMirrorMedium, Medium
  <2>2. cached' # None => sector' = card'[cached']
    BY <1>2, Zenon DEF IInv, Copies, CopiesMirrorMedium
  <2>3. fs'.staged = Medium(fs.at, Len(fs.staged))' BY <1>2, <1>17, Zenon DEF Medium
  <2>4. io'.op # "read" BY <1>2, <1>4 DEF NoIo
  <2> QED BY <2>1, <2>2, <2>3, <2>4, Zenon DEF Copies, CopiesMirrorMedium
<1>24. Written' BY <1>2, <1>4 DEF Written, NoIo
<1> QED BY <1>18, <1>19, <1>20, <1>21, <1>22, <1>23, <1>24 DEF IInv

LEMMA CacheMissInv ==
    ASSUME IInv, CacheMiss
    PROVE  IInv'
<1> DEFINE at == NextBlock * BlockBytes
           n == IF BlockBytes > Capacity - at THEN Capacity - at ELSE BlockBytes
<1>1. Reading BY Zenon DEF CacheMiss
<1>2. UNCHANGED <<card, programming, busFailed, table, volume, sector, cached, writeFailed>>
  BY Zenon DEF CacheMiss, disk, root
<1>3. /\ io' = [op |-> "read", at |-> at, n |-> n, data |-> <<>>]
      /\ fs' = [fs EXCEPT !.slot = victim]
      /\ blocks' = [blocks EXCEPT ![victim] = Invalid]
      /\ victim' = (victim + 1) % CacheBlocks
  BY Zenon DEF CacheMiss, NextVictim
<1>4. /\ fs.op = "read" /\ io = NoIo /\ Len(fs.staged) < fs.n BY <1>1, Zenon DEF Reading
<1>5. fs \in [op : {"read"}, at : Nat, n : Nat, staged : Seq(Val), slot : Slots \cup {None}]
  BY <1>4, FsReads DEF IInv
<1>6. NextBlock \in Nat /\ at \in Nat /\ at < Capacity /\ Mounted BY <1>1, NextPosLemma, Zenon
<1>7. Capacity \in Nat BY VolumeLemma DEF IInv
<1>8. victim \in Slots /\ blocks \in [Slots -> {Invalid} \cup [block : Nat, bytes : Seq(Val)]]
  BY DEF IInv, Types
<1>9. /\ blocks' \in [Slots -> {Invalid} \cup [block : Nat, bytes : Seq(Val)]]
      /\ \A s \in Slots : blocks'[s] # Invalid => blocks'[s] = blocks[s]
  BY <1>3, <1>8
<1>10. at \div BlockBytes = NextBlock
  <2>1. 0 \in 0..(BlockBytes - 1) BY Sizes
  <2>2. ((NextBlock * BlockBytes) + 0) \div BlockBytes = NextBlock
    BY <1>6, <2>1, DivUnique, Sizes, Zenon
  <2> QED BY <1>6, <2>2
<1> HIDE DEF at
<1>11. n \in Nat BY <1>6, <1>7, Sizes
<1> HIDE DEF n
<1>12. /\ fs'.op = "read" /\ fs'.at = fs.at /\ fs'.n = fs.n /\ fs'.slot = victim
       /\ fs'.staged = fs.staged
  BY <1>3, <1>5
<1>13. io'.op = "read" /\ io'.at = at /\ io'.n = n /\ io'.data = <<>> BY <1>3
<1>14. Types'
  <2>1. fs' \in FsRequest BY <1>3, <1>5, <1>8 DEF FsRequest
  <2>2. io' \in IoRequest
    <3>1. <<>> \in Seq(Val) OBVIOUS
    <3> QED BY <1>3, <1>6, <1>11, <3>1 DEF IoRequest
  <2>3. victim' \in Slots
    <3>1. victim + 1 \in Nat BY <1>8, Sizes DEF Slots
    <3>2. (victim + 1) % CacheBlocks \in 0..(CacheBlocks - 1) BY <3>1, DivMod, Sizes, Zenon
    <3> QED BY <1>3, <3>2, Zenon DEF Slots
  <2> QED BY <1>2, <1>9, <2>1, <2>2, <2>3, Zenon DEF IInv, Types
<1>15. Control'
  <2>1. Mounted' BY <1>2, <1>6, Zenon DEF Mounted
  <2> QED BY <1>12, <1>13, <2>1 DEF Control
<1>16. Busy'
  <2>1. NoBlocks => NoBlocks' BY <1>9, Zenon DEF NoBlocks
  <2>2. VolumeSectors' = VolumeSectors BY <1>2, Zenon DEF VolumeSectors
  <2> QED BY <1>2, <1>4, <1>12, <1>13, <2>1, <2>2, Zenon DEF IInv, Busy
<1>17. Capacity' = Capacity BY <1>2, Zenon DEF Capacity
<1>18. InRange'
  <2>1. fs.at + fs.n <= Capacity /\ Len(fs.staged) <= fs.n BY <1>4, Zenon DEF IInv, InRange
  <2>2. at = (at \div BlockBytes) * BlockBytes BY <1>10, Zenon DEF at
  <2>3. n = IF BlockBytes > Capacity - at THEN Capacity - at ELSE BlockBytes BY Zenon DEF n
  <2>4. Len(<<>>) <= n BY <1>11
  <2> QED BY <1>4, <1>6, <1>8, <1>12, <1>13, <1>17, <2>1, <2>2, <2>3, <2>4 DEF InRange
<1>19. Whole' BY <1>9, <1>17, Zenon DEF IInv, Whole
<1>20. Copies'
  <2>1. \A s \in Slots : blocks'[s] # Invalid =>
          blocks'[s].bytes = Medium(blocks[s].block * BlockBytes, Len(blocks[s].bytes))'
    BY <1>2, <1>9, Zenon DEF IInv, Copies, CopiesMirrorMedium, Medium
  <2>2. cached' # None => sector' = card'[cached']
    BY <1>2, Zenon DEF IInv, Copies, CopiesMirrorMedium
  <2>3. fs'.staged = Medium(fs.at, Len(fs.staged))'
    BY <1>2, <1>4, <1>12, Zenon DEF IInv, Copies, CopiesMirrorMedium, Medium
  <2>4. io'.data = Medium(io.at, Len(io.data))'
    <3>1. Medium(at, 0) = <<>> BY <1>6, <1>7, MediumEmpty DEF IInv
    <3>2. Len(io'.data) = 0 BY <1>13
    <3>3. Medium(io.at, Len(io.data))' = Medium(at, 0) BY <1>2, <1>13, <3>2 DEF Medium
    <3> QED BY <1>13, <3>1, <3>3, Zenon
  <2> QED BY <2>1, <2>2, <2>3, <2>4, Zenon DEF Copies, CopiesMirrorMedium
<1>21. Written' BY <1>13 DEF Written
<1> QED BY <1>14, <1>15, <1>16, <1>18, <1>19, <1>20, <1>21 DEF IInv

-----------------------------------------------------------------------------
(* MEM: reads *)

LEMMA RootReadInv ==
    ASSUME IInv, RootRead
    PROVE  IInv'
<1> DEFINE k == Len(io.data)
           l == MemLba(k)
           within == MemAt(k) % SectorBytes
           rest == io.n - k
           chunk == IF rest > SectorBytes - within THEN SectorBytes - within ELSE rest
           Copied(s) == io.data \o [i \in 1..chunk |-> s[within + i - 1]]
<1>1. io.op = "read" /\ k < io.n BY Zenon DEF RootRead
<1>2. UNCHANGED <<table, volume, writeFailed, blocks, victim>> BY Zenon DEF RootRead, cache
<1>3. \/ /\ cached = l /\ io' = [io EXCEPT !.data = Copied(sector)]
         /\ UNCHANGED <<disk, sector, cached, fs>>
      \/ /\ SdReadOk(l, sector) /\ cached' = l
         /\ io' = [io EXCEPT !.data = Copied(sector')] /\ UNCHANGED fs
      \/ SdReadFails(sector) /\ cached' = None /\ MemFails
  BY Zenon DEF RootRead
<1>4. io \in [op : {"read"}, at : Nat, n : Nat, data : Seq(Val)] BY <1>1, IoReads DEF IInv
<1>5. k \in Nat /\ io.at \in Nat /\ io.n \in Nat BY <1>4
<1>6. Capacity \in Nat /\ volume.start * SectorBytes \in Nat BY VolumeLemma, Sizes DEF IInv
<1>7. io.at < Capacity /\ io.at + io.n <= Capacity
  <2>1. /\ io.at < Capacity
        /\ io.n = IF BlockBytes > Capacity - io.at THEN Capacity - io.at ELSE BlockBytes
    BY <1>1, Zenon DEF IInv, InRange
  <2> QED BY <1>5, <1>6, <2>1, Sizes
<1>8. Mounted /\ fs.op = "read"
  <2>1. io # NoIo BY <1>1 DEF NoIo
  <2> QED BY <1>1, <2>1, Zenon DEF IInv, Control
<1>9. MemAt(k) = volume.start * SectorBytes + (io.at + k)
  <2> DEFINE a == volume.start * SectorBytes
  <2>1. a \in Nat /\ MemAt(k) = a + io.at + k BY <1>6 DEF MemAt
  <2> HIDE DEF a, k
  <2>2. MemAt(k) = a + (io.at + k) BY <1>5, <2>1
  <2> QED BY <2>2 DEF a
<1>10. l \in VolumeSectors /\ l \in Lba /\ MemAt(k) \in Nat
  <2>1. io.at + k \in Nat /\ io.at + k < Capacity BY <1>1, <1>5, <1>6, <1>7
  <2>2. MemAt(k) \in CardPos /\ l \in VolumeSectors
    BY <1>9, <2>1, InVolume, Zenon DEF IInv, MemLba
  <2> QED BY <2>2, VolumeLemma, Sizes DEF IInv, CardPos
<1>11. within \in 0..(SectorBytes - 1) BY <1>10, DivMod, Sizes, Zenon
<1> HIDE DEF within, k
<1>12. /\ chunk \in Nat \ {0} /\ k + chunk <= io.n /\ chunk <= SectorBytes - within
       /\ io.at + k + chunk <= Capacity /\ io.at + (k + chunk) <= Capacity
  BY <1>1, <1>5, <1>6, <1>7, <1>11, Sizes
<1> HIDE DEF chunk
<1>13. Copied(card[l]) = Medium(io.at, k + chunk)
  <2>1. [i \in 1..chunk |-> card[l][within + i - 1]] = Medium(io.at + k, chunk)
    <3>1. io.at + k \in Nat /\ (io.at + k) + chunk <= Capacity BY <1>5, <1>12
    <3> QED BY <1>9, <1>12, <3>1, MediumSector, Zenon DEF IInv, MemLba, within
  <2>2. io.data = Medium(io.at, k) BY <1>1, Zenon DEF IInv, Copies, k
  <2>3. chunk \in Nat BY <1>12
  <2>4. Medium(io.at, k) \o Medium(io.at + k, chunk) = Medium(io.at, k + chunk)
    BY <1>5, <1>12, <2>3, MediumJoin, Zenon DEF IInv
  <2> QED BY <2>1, <2>2, <2>4, Zenon
<1>14. /\ Medium(io.at, k + chunk) \in Seq(Val)
       /\ Len(Medium(io.at, k + chunk)) = k + chunk
  <2>1. k + chunk \in Nat BY <1>5, <1>12
  <2> QED BY <1>5, <1>12, <2>1, MediumSeq, Zenon DEF IInv
<1>15. ASSUME UNCHANGED <<card, programming, busFailed, fs>>, programming = NoProgram,
              io' = [io EXCEPT !.data = Medium(io.at, k + chunk)],
              cached' \in Lba, sector' = card[cached']
       PROVE  IInv'
  <2>1. /\ io'.op = "read" /\ io'.at = io.at /\ io'.n = io.n
        /\ io'.data = Medium(io.at, k + chunk) /\ Len(io'.data) = k + chunk
    BY <1>4, <1>14, <1>15
  <2>2. Types'
    <3>1. io' \in IoRequest BY <1>4, <1>14, <1>15, Zenon DEF IoRequest
    <3>2. sector' \in Sector BY <1>15, Zenon DEF IInv, Types
    <3> QED BY <1>2, <1>15, <3>1, <3>2, Zenon DEF IInv, Types
  <2>3. Control'
    <3>1. Mounted' BY <1>2, <1>8, Zenon DEF Mounted
    <3> QED BY <1>8, <1>15, <2>1, <3>1 DEF Control
  <2>4. Busy' BY <1>15, Zenon DEF Busy
  <2>5. Capacity' = Capacity BY <1>2, Zenon DEF Capacity
  <2>6. InRange'
    <3>1. /\ io.at < Capacity /\ io.at = (io.at \div BlockBytes) * BlockBytes
          /\ io.n = IF BlockBytes > Capacity - io.at THEN Capacity - io.at ELSE BlockBytes
          /\ fs.slot \in Slots /\ Len(fs.staged) < fs.n
          /\ fs.at + fs.n <= Capacity /\ Len(fs.staged) <= fs.n
      BY <1>1, <1>8, Zenon DEF IInv, InRange
    <3>2. Len(io'.data) <= io'.n BY <1>12, <2>1, Zenon
    <3>3. io'.op # "write" BY <2>1
    <3> QED BY <1>15, <2>1, <2>5, <3>1, <3>2, <3>3, Zenon DEF InRange
  <2>7. Whole' BY <1>2, <2>5, Zenon DEF IInv, Whole
  <2>8. Copies'
    <3>1. \A s \in Slots : blocks'[s] # Invalid =>
            blocks'[s].bytes = Medium(blocks[s].block * BlockBytes, Len(blocks[s].bytes))'
      BY <1>2, <1>15, Zenon DEF IInv, Copies, CopiesMirrorMedium, Medium
    <3>2. sector' = card'[cached'] BY <1>15, Zenon
    <3>3. fs'.staged = Medium(fs.at, Len(fs.staged))'
      BY <1>2, <1>8, <1>15, Zenon DEF IInv, Copies, CopiesMirrorMedium, Medium
    <3>4. io'.data = Medium(io.at, Len(io.data))'
      BY <1>2, <1>15, <2>1, Zenon DEF Medium
    <3> QED BY <3>1, <3>2, <3>3, <3>4, Zenon DEF Copies, CopiesMirrorMedium
  <2>9. Written' BY <2>1 DEF Written
  <2> QED BY <2>2, <2>3, <2>4, <2>6, <2>7, <2>8, <2>9 DEF IInv
<1>16. CASE /\ cached = l /\ io' = [io EXCEPT !.data = Copied(sector)]
            /\ UNCHANGED <<disk, sector, cached, fs>>
  <2>1. cached # None BY <1>10, <1>16, Sizes DEF Lba, None
  <2>2. sector = card[l] /\ programming = NoProgram
    BY <1>16, <2>1, Zenon DEF IInv, Busy, Copies, CopiesMirrorMedium
  <2>3. io' = [io EXCEPT !.data = Medium(io.at, k + chunk)] BY <1>13, <1>16, <2>2, Zenon
  <2> QED BY <1>10, <1>15, <1>16, <2>2, <2>3, Zenon DEF disk
<1>17. CASE /\ SdReadOk(l, sector) /\ cached' = l
            /\ io' = [io EXCEPT !.data = Copied(sector')] /\ UNCHANGED fs
  <2>1. sector' = card[l] /\ programming = NoProgram /\ UNCHANGED <<card, programming, busFailed>>
    BY <1>17, Zenon DEF SdReadOk, CommandOk, disk
  <2>2. io' = [io EXCEPT !.data = Medium(io.at, k + chunk)] BY <1>13, <1>17, <2>1, Zenon
  <2> QED BY <1>10, <1>15, <1>17, <2>1, <2>2, Zenon
<1>18. CASE SdReadFails(sector) /\ cached' = None /\ MemFails
  <2>1. sector' \in Sector /\ busFailed' \in {busFailed, TRUE} /\ UNCHANGED <<card, programming>>
    BY <1>18, Zenon DEF SdReadFails, BusTimesOut
  <2>2. io' = NoIo /\ fs' = NoFs BY <1>18, Zenon DEF MemFails
  <2>3. Types'
    <3>1. io' \in IoRequest /\ fs' \in FsRequest BY <2>2, Zenon DEF IoRequest, FsRequest
    <3>2. busFailed' \in BOOLEAN BY <2>1, Zenon DEF IInv, Types
    <3> QED BY <1>2, <1>18, <2>1, <3>1, <3>2, Zenon DEF IInv, Types
  <2> QED BY <1>2, <1>8, <1>18, <2>1, <2>2, <2>3, Ends, Zenon
<1> QED BY <1>3, <1>16, <1>17, <1>18, Zenon

LEMMA RootReadReplyInv ==
    ASSUME IInv, RootReadReply
    PROVE  IInv'
<1> DEFINE b == [block |-> io.at \div BlockBytes, bytes |-> io.data]
<1>1. /\ io.op = "read" /\ Len(io.data) = io.n /\ io' = NoIo
      /\ blocks' = [blocks EXCEPT ![fs.slot] = b]
  BY Zenon DEF RootReadReply
<1>2. UNCHANGED <<card, programming, busFailed, table, volume, sector, cached, writeFailed,
                  victim, fs>>
  BY Zenon DEF RootReadReply, disk, root
<1>3. io \in [op : {"read"}, at : Nat, n : Nat, data : Seq(Val)] BY <1>1, IoReads DEF IInv
<1>4. io.at \in Nat /\ io.data \in Seq(Val) BY <1>3
<1>5. /\ io.at < Capacity /\ io.at = (io.at \div BlockBytes) * BlockBytes
      /\ io.n = IF BlockBytes > Capacity - io.at THEN Capacity - io.at ELSE BlockBytes
      /\ fs.slot \in Slots
  BY <1>1, Zenon DEF IInv, InRange
<1>6. io.at \div BlockBytes \in Nat BY <1>4, DivMod, Sizes, Zenon
<1>7. Capacity \in Nat BY VolumeLemma DEF IInv
<1>8. Mounted /\ fs.op = "read"
  <2>1. io # NoIo BY <1>1 DEF NoIo
  <2> QED BY <1>1, <2>1, Zenon DEF IInv, Control
<1>9. programming = NoProgram
  <2>1. io.n > 0 BY <1>4, <1>5, <1>7, Sizes
  <2>2. io.data # <<>> BY <1>1, <2>1
  <2> QED BY <1>1, <2>2, Zenon DEF IInv, Busy
<1>10. /\ blocks' \in [Slots -> {Invalid} \cup [block : Nat, bytes : Seq(Val)]]
       /\ \A s \in Slots : blocks'[s] = b \/ blocks'[s] = blocks[s]
  <2>1. b \in [block : Nat, bytes : Seq(Val)] BY <1>4, <1>6
  <2>2. blocks \in [Slots -> {Invalid} \cup [block : Nat, bytes : Seq(Val)]] BY DEF IInv, Types
  <2> HIDE DEF b
  <2> QED BY <1>1, <1>5, <2>1, <2>2
<1>11. b.block * BlockBytes = io.at /\ b.bytes = io.data /\ Len(b.bytes) = io.n BY <1>1, <1>5
<1> HIDE DEF b
<1>12. Types'
  <2>1. io' \in IoRequest BY <1>1, Zenon DEF IoRequest
  <2> QED BY <1>2, <1>10, <2>1, Zenon DEF IInv, Types
<1>13. Control'
  <2>1. Mounted' BY <1>2, <1>8, Zenon DEF Mounted
  <2> QED BY <1>1, <2>1 DEF Control, NoIo
<1>14. Busy' BY <1>2, <1>9, Zenon DEF Busy
<1>15. Capacity' = Capacity BY <1>2, Zenon DEF Capacity
<1>16. InRange'
  <2>1. fs'.op = "read" => fs'.at + fs'.n <= Capacity /\ Len(fs'.staged) <= fs'.n
    BY <1>2, Zenon DEF IInv, InRange
  <2>2. io'.op = "idle" BY <1>1 DEF NoIo
  <2> QED BY <1>15, <2>1, <2>2 DEF InRange
<1>17. Whole' BY <1>5, <1>10, <1>11, <1>15, Zenon DEF IInv, Whole
<1>18. Copies'
  <2>1. io.data = Medium(io.at, io.n) BY <1>1, Zenon DEF IInv, Copies
  <2>2. ASSUME NEW s \in Slots, blocks'[s] # Invalid
        PROVE  blocks'[s].bytes = Medium(blocks[s].block * BlockBytes, Len(blocks[s].bytes))'
    <3>1. CASE blocks'[s] = b BY <1>2, <1>11, <2>1, <3>1, Zenon DEF Medium
    <3>2. CASE blocks'[s] = blocks[s]
      BY <1>2, <2>2, <3>2, Zenon DEF IInv, Copies, CopiesMirrorMedium, Medium
    <3> QED BY <1>10, <3>1, <3>2, Zenon
  <2>3. cached' # None => sector' = card'[cached']
    BY <1>2, Zenon DEF IInv, Copies, CopiesMirrorMedium
  <2>4. fs'.staged = Medium(fs.at, Len(fs.staged))'
    BY <1>2, <1>8, Zenon DEF IInv, Copies, CopiesMirrorMedium, Medium
  <2>5. io'.op # "read" BY <1>1 DEF NoIo
  <2> QED BY <2>2, <2>3, <2>4, <2>5, Zenon DEF Copies, CopiesMirrorMedium
<1>19. Written' BY <1>1 DEF Written, NoIo
<1> QED BY <1>12, <1>13, <1>14, <1>16, <1>17, <1>18, <1>19 DEF IInv

-----------------------------------------------------------------------------
(* MEM: writes *)

\* Where a write is.
LEMMA WriteAt ==
    ASSUME IInv, io.op = "write", io.done < Len(io.data)
    PROVE  /\ MemAt(0) \in Nat /\ MemAt(io.done) = MemAt(0) + io.done
           /\ MemAt(io.done) \in CardPos /\ MemAt(io.done) \in Nat
           /\ MemLba(io.done) \in VolumeSectors /\ MemLba(io.done) \in Lba
           /\ MemAt(io.done) % SectorBytes \in 0..(SectorBytes - 1)
           /\ io.done \in Nat /\ Len(io.data) \in Nat
           /\ ChunkBytes \in Nat \ {0} /\ io.done + ChunkBytes <= Len(io.data)
           /\ (MemAt(io.done) % SectorBytes) + ChunkBytes <= SectorBytes
           /\ Mounted /\ fs.op = "write" /\ programming = NoProgram /\ NoBlocks /\ ~writeFailed
<1> DEFINE a == volume.start * SectorBytes
           w == MemAt(io.done) % SectorBytes
<1>1. io \in [op : {"write"}, at : Nat, data : Seq(Val), done : Nat,
              pc : {"read", "write", "verify"}, was : [Lba -> Sector]]
  BY IoWrites DEF IInv
<1>2. io.at \in Nat /\ io.done \in Nat /\ Len(io.data) \in Nat BY <1>1
<1>3. a \in Nat /\ Capacity \in Nat BY VolumeLemma, Sizes DEF IInv
<1>4. io.at + Len(io.data) <= Capacity BY Zenon DEF IInv, InRange
<1>5. io.at + io.done \in Nat /\ io.at + io.done < Capacity BY <1>2, <1>3, <1>4
<1>6. MemAt(0) = a + io.at + 0 /\ MemAt(io.done) = a + io.at + io.done BY Zenon DEF MemAt
<1>7. a + (io.at + io.done) \in CardPos /\ (a + (io.at + io.done)) \div SectorBytes \in VolumeSectors
  BY <1>5, InVolume, Zenon DEF IInv
<1> HIDE DEF a
<1>8. /\ MemAt(0) \in Nat /\ MemAt(io.done) = MemAt(0) + io.done /\ MemAt(io.done) \in Nat
      /\ MemAt(io.done) = a + (io.at + io.done)
  BY <1>2, <1>3, <1>6
<1>9. MemAt(io.done) \in CardPos /\ MemLba(io.done) \in VolumeSectors
  BY <1>7, <1>8, Zenon DEF MemLba
<1>10. MemLba(io.done) \in Lba BY <1>9, VolumeLemma DEF IInv
<1>11. w \in 0..(SectorBytes - 1) BY <1>8, DivMod, Sizes, Zenon
<1>12. ChunkBytes = IF Len(io.data) - io.done > SectorBytes - w THEN SectorBytes - w
                    ELSE Len(io.data) - io.done
  BY Zenon DEF ChunkBytes
<1> HIDE DEF w
<1>13. ChunkBytes \in Nat \ {0} /\ io.done + ChunkBytes <= Len(io.data) /\ w + ChunkBytes <= SectorBytes
  BY <1>2, <1>11, <1>12, Sizes
<1>14. Mounted /\ fs.op = "write" /\ NoBlocks /\ ~writeFailed
  <2>1. io # NoIo BY DEF NoIo
  <2> QED BY <2>1, Zenon DEF IInv, Control
<1>15. programming = NoProgram BY <1>14, Zenon DEF IInv, Busy
<1> QED BY <1>2, <1>8, <1>9, <1>10, <1>11, <1>13, <1>14, <1>15, Zenon DEF w

\* However a write fails.
LEMMA WriteFails ==
    ASSUME IInv, io.op = "write", io.done < Len(io.data), RootWriteFailed,
           UNCHANGED <<table, volume>>,
           card' \in [Lba -> Sector], sector' \in Sector, busFailed' \in BOOLEAN,
           \/ programming' = NoProgram
           \/ programming' = [lba |-> MemLba(io.done), data |-> sector]
    PROVE  IInv'
<1>1. /\ cached' = None /\ writeFailed' = TRUE /\ cp32_cache_invalidate
      /\ io' = NoIo /\ fs' = NoFs
  BY Zenon DEF RootWriteFailed, MemFails
<1>2. MemLba(io.done) \in VolumeSectors /\ MemLba(io.done) \in Lba /\ Mounted BY WriteAt
<1>3. /\ blocks' \in [Slots -> {Invalid} \cup [block : Nat, bytes : Seq(Val)]]
      /\ victim' \in Slots /\ NoBlocks'
  BY <1>1, Invalidated
<1>4. /\ programming' \in {NoProgram} \cup [lba : Lba, data : Sector]
      /\ programming' # NoProgram => programming'.lba \in VolumeSectors
  <2>1. sector \in Sector BY DEF IInv, Types
  <2> QED BY <1>2, <2>1
<1>5. Types'
  <2>1. io' \in IoRequest /\ fs' \in FsRequest BY <1>1, Zenon DEF IoRequest, FsRequest
  <2> QED BY <1>1, <1>3, <1>4, <2>1, Zenon DEF IInv, Types
<1>6. VolumeSectors' = VolumeSectors /\ Mounted' BY <1>2, Zenon DEF VolumeSectors, Mounted
<1> QED BY <1>1, <1>3, <1>4, <1>5, <1>6, Dropped, Zenon

\* A step of a write that goes on.
LEMMA WriteGoesOn ==
    ASSUME IInv, io.op = "write", io.done < Len(io.data), UNCHANGED <<table, volume>>,
           UNCHANGED <<programming, busFailed, writeFailed, blocks, victim, fs>>,
           card' \in [Lba -> Sector], sector' \in Sector,
           NEW pc \in {"read", "write", "verify"}, NEW done \in Nat,
           io' = [op |-> "write", at |-> io.at, data |-> io.data, done |-> done,
                  pc |-> pc, was |-> io.was],
           done <= Len(io.data), pc # "read" => done < Len(io.data) /\ cached' = None,
           cached' = None \/ (cached' \in Lba /\ sector' = card'[cached']),
           Written'
    PROVE  IInv'
<1>1. io \in [op : {"write"}, at : Nat, data : Seq(Val), done : Nat,
              pc : {"read", "write", "verify"}, was : [Lba -> Sector]]
  BY IoWrites DEF IInv
<1>2. /\ io'.op = "write" /\ io'.at = io.at /\ io'.data = io.data /\ io'.done = done
      /\ io'.pc = pc /\ io'.was = io.was
  BY Zenon
<1>3. Mounted /\ fs.op = "write" /\ programming = NoProgram /\ NoBlocks /\ ~writeFailed
  BY WriteAt
<1>4. Types'
  <2>1. io' \in IoRequest BY <1>1 DEF IoRequest
  <2> QED BY <2>1, Zenon DEF IInv, Types
<1>5. NoBlocks' BY <1>3, Zenon DEF NoBlocks
<1>6. Control'
  <2>1. Mounted' BY <1>3, Zenon DEF Mounted
  <2> QED BY <1>2, <1>3, <1>5, <2>1, Zenon DEF Control
<1>7. Busy' BY <1>3, Zenon DEF Busy
<1>8. InRange'
  <2>1. Len(io.data) \in 1..MaxBytes /\ io.at + Len(io.data) <= Capacity
    BY Zenon DEF IInv, InRange
  <2>2. Capacity' = Capacity BY Zenon DEF Capacity
  <2>3. fs'.op # "read" /\ io'.op # "read" BY <1>2, <1>3
  <2> QED BY <1>2, <2>1, <2>2, <2>3, Zenon DEF InRange
<1>9. Whole' BY <1>5, Zenon DEF Whole, NoBlocks
<1>10. Copies'
  <2>1. fs'.op # "read" /\ io'.op # "read" BY <1>2, <1>3
  <2> QED BY <1>5, <2>1, Zenon DEF Copies, CopiesMirrorMedium, NoBlocks
<1> QED BY <1>4, <1>6, <1>7, <1>8, <1>9, <1>10, Zenon DEF IInv

\* The buffer after the chunk is merged.
LEMMA MergedLemma ==
    ASSUME IInv, io.op = "write", io.done < Len(io.data), io.pc = "read",
           NEW p \in CardPos, p \div SectorBytes = MemLba(io.done)
    PROVE  /\ Merged(card[MemLba(io.done)]) \in Sector
           /\ Merged(card[MemLba(io.done)])[p % SectorBytes] = Expected(io.done + ChunkBytes, p)
<1> DEFINE l == MemLba(io.done)
           m == MemAt(io.done)
           w == m % SectorBytes
           c == ChunkBytes
           n == io.done
           z == MemAt(0)
           s == card[l]
           i == p % SectorBytes
<1>1. /\ z \in Nat /\ m = z + n /\ m \in Nat /\ l \in Lba /\ w \in 0..(SectorBytes - 1)
      /\ n \in Nat /\ Len(io.data) \in Nat /\ c \in Nat \ {0} /\ n + c <= Len(io.data)
      /\ w + c <= SectorBytes
  BY WriteAt, Zenon
<1>2. i \in 0..(SectorBytes - 1) /\ p \in Nat BY SectorOf, Zenon
<1>3. s \in Sector BY <1>1, Zenon DEF IInv, Types
<1>4. io.data \in Seq(Val) BY IoWrites DEF IInv
<1>5. Merged(s) = [x \in 0..(SectorBytes - 1) |->
                     IF x - w \in 0..(c - 1) THEN io.data[n + x - w + 1] ELSE s[x]]
  <2>1. DOMAIN s = 0..(SectorBytes - 1) BY <1>3, Zenon DEF Sector
  <2> QED BY <2>1, Zenon DEF Merged
<1>6. p = (l * SectorBytes) + i /\ m = (l * SectorBytes) + w
  <2>1. p = ((p \div SectorBytes) * SectorBytes) + i BY <1>2, DivMod, Sizes, Zenon
  <2>2. m = ((m \div SectorBytes) * SectorBytes) + w BY <1>1, DivMod, Sizes, Zenon
  <2> QED BY <2>1, <2>2, Zenon DEF MemLba
<1>7. l * SectorBytes \in Nat
  <2>1. l \in Nat /\ SectorBytes \in Nat
    <3> HIDE DEF l
    <3> QED BY <1>1, Sizes DEF Lba
  <2> QED BY <2>1, TimesNat, Zenon
<1>8. s[i] = Expected(n, p)
  BY Zenon DEF IInv, Written, At
<1>9. Expected(n, p) = IF p \in z..(z + n - 1) THEN io.data[p - z + 1] ELSE At(io.was, p)
  BY Zenon DEF Expected
<1>10. Expected(n + c, p) = IF p \in z..(z + (n + c) - 1) THEN io.data[p - z + 1] ELSE At(io.was, p)
  BY Zenon DEF Expected
<1> DEFINE base == l * SectorBytes
           e == At(io.was, p)
           r == Merged(s)
           x1 == Expected(n, p)
           x2 == Expected(n + c, p)
<1> HIDE DEF l, m, w, c, n, z, s, i
<1>11. p = base + i /\ m = base + w /\ base \in Nat BY <1>6, <1>7
<1> HIDE DEF base, e, r, x1, x2
<1>12. r \in Sector
  <2>1. ASSUME NEW x \in 0..(SectorBytes - 1), x - w \in 0..(c - 1) PROVE io.data[n + x - w + 1] \in Val
    <3>1. n + x - w + 1 \in 1..Len(io.data) BY <1>1, <2>1, Sizes
    <3> QED BY <1>4, <3>1, ElementOfSeq, Zenon
  <2>2. ASSUME NEW x \in 0..(SectorBytes - 1) PROVE s[x] \in Val BY <1>3, Zenon DEF Sector
  <2> QED BY <1>5, <2>1, <2>2, Zenon DEF r, Sector
<1>13. r[i] = IF i - w \in 0..(c - 1) THEN io.data[n + i - w + 1] ELSE s[i]
  BY <1>2, <1>5, Zenon DEF r
<1>14. r[i] = x2
  <2>1. CASE i - w \in 0..(c - 1)
    <3>1. p \in z..(z + (n + c) - 1) /\ n + i - w + 1 = p - z + 1
      BY <1>1, <1>2, <1>11, <2>1, Sizes
    <3> QED BY <1>10, <1>13, <2>1, <3>1, Zenon DEF x2
  <2>2. CASE ~(i - w \in 0..(c - 1))
    <3>1. p \in z..(z + (n + c) - 1) <=> p \in z..(z + n - 1)
      BY <1>1, <1>2, <1>11, <2>2, Sizes
    <3> QED BY <1>8, <1>9, <1>10, <1>13, <2>2, <3>1, Zenon DEF x2
  <2> QED BY <2>1, <2>2, Zenon
<1> QED BY <1>12, <1>14, Zenon DEF r, x2, s, l, i, n, c

LEMMA RootWriteReadInv ==
    ASSUME IInv, RootWriteRead
    PROVE  IInv'
<1>1. io.op = "write" /\ io.pc = "read" /\ io.done < Len(io.data) BY Zenon DEF RootWriteRead
<1>2. UNCHANGED <<table, volume>> BY Zenon DEF RootWriteRead
<1>3. CASE /\ sector' = Merged(card[MemLba(io.done)]) /\ cached' = None
           /\ io' = [io EXCEPT !.pc = "write"]
           /\ UNCHANGED <<disk, writeFailed, cache, fs>>
  <2>1. io \in [op : {"write"}, at : Nat, data : Seq(Val), done : Nat,
                pc : {"read", "write", "verify"}, was : [Lba -> Sector]]
    BY <1>1, IoWrites DEF IInv
  <2>2. io' = [op |-> "write", at |-> io.at, data |-> io.data, done |-> io.done,
               pc |-> "write", was |-> io.was]
    BY <1>3, <2>1
  <2>3. MemAt(io.done) \in CardPos /\ io.done \in Nat BY <1>1, WriteAt
  <2>4. sector' \in Sector BY <1>1, <1>3, <2>3, MergedLemma, Zenon DEF MemLba
  <2>5. UNCHANGED <<card, programming, busFailed, writeFailed, blocks, victim, fs>>
    BY <1>3, Zenon DEF disk, cache
  <2>6. /\ io'.op = "write" /\ io'.at = io.at /\ io'.data = io.data /\ io'.done = io.done
        /\ io'.pc = "write" /\ io'.was = io.was
    BY <2>2, Zenon
  <2>7. Written'
    <3>1. ASSUME NEW p \in CardPos PROVE At(card, p)' = Expected(io.done, p)'
      <4>1. At(card, p) = Expected(io.done, p) BY <1>1, Zenon DEF IInv, Written
      <4> QED BY <1>2, <2>5, <2>6, <4>1, Zenon DEF Expected, MemAt, At
    <3>2. ASSUME NEW p \in CardPos, (p \div SectorBytes = MemLba(io.done))'
          PROVE  sector'[p % SectorBytes] = Expected(io.done + ChunkBytes, p)'
      <4>1. p \div SectorBytes = MemLba(io.done) BY <1>2, <2>6, <3>2, Zenon DEF MemLba, MemAt
      <4>2. sector'[p % SectorBytes] = Expected(io.done + ChunkBytes, p)
        BY <1>1, <1>3, <4>1, MergedLemma, Zenon
      <4>3. ChunkBytes' = ChunkBytes BY <1>2, <2>6, Zenon DEF ChunkBytes, MemAt
      <4> QED BY <1>2, <2>6, <4>2, <4>3, Zenon DEF Expected, MemAt
    <3> QED BY <3>1, <3>2, Zenon DEF Written
  <2>8. card' \in [Lba -> Sector] BY <2>5, Zenon DEF IInv, Types
  <2>9. io.done <= Len(io.data) BY <1>1, Zenon DEF IInv, InRange
  <2> QED BY <1>1, <1>2, <1>3, <2>2, <2>3, <2>4, <2>5, <2>7, <2>8, <2>9, WriteGoesOn, Zenon
<1>4. CASE SdReadFails(sector) /\ RootWriteFailed
  <2>1. sector' \in Sector /\ busFailed' \in {busFailed, TRUE} /\ UNCHANGED <<card, programming>>
    BY <1>4, Zenon DEF SdReadFails, BusTimesOut
  <2>2. busFailed' \in BOOLEAN /\ card' \in [Lba -> Sector] BY <2>1, Zenon DEF IInv, Types
  <2>3. programming' = NoProgram BY <1>1, <2>1, WriteAt
  <2> QED BY <1>1, <1>2, <1>4, <2>1, <2>2, <2>3, WriteFails, Zenon
<1> QED BY <1>3, <1>4, Zenon DEF RootWriteRead

LEMMA RootWriteSectorInv ==
    ASSUME IInv, RootWriteSector
    PROVE  IInv'
<1> DEFINE l == MemLba(io.done)
<1>1. io.op = "write" /\ io.pc = "write" BY Zenon DEF RootWriteSector
<1>2. UNCHANGED <<table, volume, sector>> BY Zenon DEF RootWriteSector
<1>3. io.done < Len(io.data) BY <1>1 DEF IInv, InRange
<1>4. /\ MemAt(io.done) \in CardPos /\ l \in Lba /\ io.done \in Nat /\ programming = NoProgram
  BY <1>1, <1>3, WriteAt
<1>5. card \in [Lba -> Sector] /\ sector \in Sector /\ busFailed \in BOOLEAN
  BY Zenon DEF IInv, Types
<1>6. CASE /\ SdWriteOk(l, sector) /\ io' = [io EXCEPT !.pc = "verify"]
           /\ UNCHANGED <<writeFailed, cached, cache, fs>>
  <2>1. PICK d \in Sector : card' = [card EXCEPT ![l] = d] BY <1>6, Zenon DEF SdWriteOk
  <2>2. card' \in [Lba -> Sector] /\ \A x \in Lba \ {l} : card'[x] = card[x]
    BY <1>4, <1>5, <2>1
  <2>3. io \in [op : {"write"}, at : Nat, data : Seq(Val), done : Nat,
                pc : {"read", "write", "verify"}, was : [Lba -> Sector]]
    BY <1>1, IoWrites DEF IInv
  <2>4. io' = [op |-> "write", at |-> io.at, data |-> io.data, done |-> io.done,
               pc |-> "verify", was |-> io.was]
    BY <1>6, <2>3
  <2>5. UNCHANGED <<programming, busFailed, writeFailed, blocks, victim, fs, cached>>
    BY <1>6, Zenon DEF cache, SdWriteOk
  <2>6. /\ io'.op = "write" /\ io'.at = io.at /\ io'.data = io.data /\ io'.done = io.done
        /\ io'.pc = "verify" /\ io'.was = io.was
    BY <2>4, Zenon
  <2>7. Written'
    <3>1. ASSUME NEW p \in CardPos, (p \div SectorBytes # MemLba(io.done))'
          PROVE  At(card, p)' = Expected(io.done, p)'
      <4>1. p \div SectorBytes # l BY <1>2, <2>6, <3>1, Zenon DEF MemLba, MemAt
      <4>2. At(card, p) = Expected(io.done, p) BY <1>1, <4>1, Zenon DEF IInv, Written
      <4>3. At(card, p)' = At(card, p)
        <5>1. p \div SectorBytes \in Lba BY SectorOf, Zenon
        <5> QED BY <2>2, <4>1, <5>1, Zenon DEF At
      <4> QED BY <1>2, <2>6, <4>2, <4>3, Zenon DEF Expected, MemAt, At
    <3>2. ASSUME NEW p \in CardPos, (p \div SectorBytes = MemLba(io.done))'
          PROVE  sector'[p % SectorBytes] = Expected(io.done + ChunkBytes, p)'
      <4>1. p \div SectorBytes = l BY <1>2, <2>6, <3>2, Zenon DEF MemLba, MemAt
      <4>2. sector[p % SectorBytes] = Expected(io.done + ChunkBytes, p)
        BY <1>1, <4>1 DEF IInv, Written
      <4>3. ChunkBytes' = ChunkBytes BY <1>2, <2>6, Zenon DEF ChunkBytes, MemAt
      <4> QED BY <1>2, <2>6, <4>2, <4>3, Zenon DEF Expected, MemAt
    <3> QED BY <2>6, <3>1, <3>2, Zenon DEF Written
  <2>8. cached' = None BY <1>1, <2>5 DEF IInv, Control
  <2>9. io.done <= Len(io.data) /\ sector' \in Sector
    BY <1>1, <1>2, <1>5, Zenon DEF IInv, InRange
  <2> QED BY <1>1, <1>2, <1>3, <1>4, <2>2, <2>4, <2>5, <2>7, <2>8, <2>9, WriteGoesOn, Zenon
<1>7. CASE SdWriteFails(l, sector) /\ RootWriteFailed
  <2>1. busFailed' \in {busFailed, TRUE} BY <1>7, Zenon DEF SdWriteFails, BusTimesOut
  <2>2. busFailed' \in BOOLEAN /\ sector' \in Sector BY <1>2, <1>5, <2>1, Zenon
  <2>3. card' \in [Lba -> Sector]
    <3>1. card' = card \/ card' = [card EXCEPT ![l] = sector] BY <1>7, Zenon DEF SdWriteFails
    <3> QED BY <1>4, <1>5, <3>1
  <2>4. programming' = NoProgram \/ programming' = [lba |-> l, data |-> sector]
    BY <1>4, <1>7, Zenon DEF SdWriteFails
  <2> QED BY <1>1, <1>2, <1>3, <1>7, <2>2, <2>3, <2>4, WriteFails, Zenon
<1> QED BY <1>6, <1>7, Zenon DEF RootWriteSector

LEMMA RootWriteVerifyInv ==
    ASSUME IInv, RootWriteVerify
    PROVE  IInv'
<1> DEFINE l == MemLba(io.done)
           c == ChunkBytes
<1>1. io.op = "write" /\ io.pc = "verify" BY Zenon DEF RootWriteVerify
<1>2. UNCHANGED <<table, volume, sector>> BY Zenon DEF RootWriteVerify
<1>3. io.done < Len(io.data) BY <1>1 DEF IInv, InRange
<1>4. card \in [Lba -> Sector] /\ sector \in Sector /\ busFailed \in BOOLEAN
  BY Zenon DEF IInv, Types
<1>5. CASE /\ card[l] = sector /\ cached' = l
           /\ io' = [io EXCEPT !.pc = "read", !.done = @ + c]
           /\ UNCHANGED <<disk, writeFailed, cache, fs>>
  <2> DEFINE m == MemAt(io.done)
             w == m % SectorBytes
             z == MemAt(0)
             n == io.done
  <2>1. io \in [op : {"write"}, at : Nat, data : Seq(Val), done : Nat,
                pc : {"read", "write", "verify"}, was : [Lba -> Sector]]
    BY <1>1, IoWrites DEF IInv
  <2>2. io' = [op |-> "write", at |-> io.at, data |-> io.data, done |-> io.done + c,
               pc |-> "read", was |-> io.was]
    BY <1>5, <2>1, Zenon
  <2>3. UNCHANGED <<card, programming, busFailed, writeFailed, blocks, victim, fs>>
    BY <1>5, Zenon DEF disk, cache
  <2>4. /\ io'.op = "write" /\ io'.at = io.at /\ io'.data = io.data /\ io'.done = io.done + c
        /\ io'.pc = "read" /\ io'.was = io.was
    BY <2>2, Zenon
  <2>5. /\ z \in Nat /\ m = z + n /\ m \in Nat /\ l \in Lba /\ w \in 0..(SectorBytes - 1)
        /\ n \in Nat /\ c \in Nat \ {0} /\ n + c <= Len(io.data) /\ w + c <= SectorBytes
    BY <1>1, <1>3, WriteAt, Zenon
  <2>6. ASSUME NEW p \in CardPos PROVE At(card, p) = Expected(n + c, p)
    <3>1. CASE p \div SectorBytes = l
      BY <1>1, <1>5, <3>1 DEF IInv, Written, At
    <3>2. CASE p \div SectorBytes # l
      <4>1. At(card, p) = Expected(n, p) BY <1>1, <3>2, Zenon DEF IInv, Written
      <4>2. ~(p \in m..(m + c - 1))
        <5> SUFFICES ASSUME p \in m..(m + c - 1) PROVE FALSE
          OBVIOUS
        <5> DEFINE j == p - m
        <5> HIDE DEF m, w, c
        <5>1. j \in Nat /\ w + j < SectorBytes /\ p = m + j
          <6>1. m \in Nat /\ w \in Nat /\ c \in Nat /\ w + c <= SectorBytes /\ SectorBytes \in Nat
            BY <2>5, Sizes
          <6> QED BY <6>1
        <5> HIDE DEF j
        <5>2. (m + j) \div SectorBytes = m \div SectorBytes
          BY <2>5, <5>1, Within, Sizes, Zenon DEF w
        <5> QED BY <3>2, <5>1, <5>2, Zenon DEF MemLba, m
      <4>3. p \in z..(z + (n + c) - 1) <=> p \in z..(z + n - 1)
        <5>1. p \in Nat BY SectorOf, Zenon
        <5> HIDE DEF m, w, c, z, n
        <5> QED BY <2>5, <4>2, <5>1
      <4> QED BY <4>1, <4>3, Zenon DEF Expected
    <3> QED BY <3>1, <3>2, Zenon
  <2>7. Written'
    <3>1. ASSUME NEW p \in CardPos PROVE At(card, p)' = Expected(io.done, p)'
      BY <1>2, <2>3, <2>4, <2>6, Zenon DEF Expected, MemAt, At
    <3> QED BY <2>4, <3>1, Zenon DEF Written
  <2>8. n + c \in Nat /\ card' \in [Lba -> Sector] /\ sector' \in Sector /\ sector' = card'[cached']
    <3>1. n + c \in Nat
      <4> HIDE DEF n, c
      <4> QED BY <2>5
    <3> QED BY <1>2, <1>4, <1>5, <2>3, <3>1, Zenon
  <2> QED BY <1>1, <1>2, <1>3, <1>5, <2>2, <2>3, <2>5, <2>7, <2>8, WriteGoesOn, Zenon
<1>6. CASE /\ (CommandOk(l) /\ card[l] # sector /\ UNCHANGED busFailed) \/ BusTimesOut
           /\ UNCHANGED <<card, programming>> /\ RootWriteFailed
  <2>1. busFailed' \in {busFailed, TRUE} BY <1>6, Zenon DEF BusTimesOut
  <2>2. busFailed' \in BOOLEAN /\ card' \in [Lba -> Sector] /\ sector' \in Sector
    BY <1>2, <1>4, <1>6, <2>1, Zenon
  <2>3. programming' = NoProgram BY <1>1, <1>3, <1>6, WriteAt
  <2> QED BY <1>1, <1>2, <1>3, <1>6, <2>2, <2>3, WriteFails, Zenon
<1> QED BY <1>5, <1>6, Zenon DEF RootWriteVerify

LEMMA RootWriteReplyInv ==
    ASSUME IInv, RootWriteReply
    PROVE  IInv'
<1>1. /\ io.op = "write" /\ cp32_cache_invalidate /\ io' = NoIo /\ fs' = NoFs
  BY Zenon DEF RootWriteReply
<1>2. UNCHANGED <<card, programming, busFailed, table, volume, sector, cached, writeFailed>>
  BY Zenon DEF RootWriteReply, disk, root
<1>3. /\ blocks' \in [Slots -> {Invalid} \cup [block : Nat, bytes : Seq(Val)]]
      /\ victim' \in Slots /\ NoBlocks'
  BY <1>1, Invalidated
<1>4. Types'
  <2>1. io' \in IoRequest /\ fs' \in FsRequest BY <1>1, Zenon DEF IoRequest, FsRequest
  <2> QED BY <1>2, <1>3, <2>1, Zenon DEF IInv, Types
<1>5. Mounted /\ ~writeFailed
  <2>1. io # NoIo BY <1>1 DEF NoIo
  <2> QED BY <1>1, <2>1, Zenon DEF IInv, Control
<1>6. programming = NoProgram BY <1>5, Zenon DEF IInv, Busy
<1>7. cached = None \/ sector = card[cached] BY Zenon DEF IInv, Copies, CopiesMirrorMedium
<1>8. Mounted' BY <1>2, <1>5, Zenon DEF Mounted
<1> QED BY <1>1, <1>2, <1>3, <1>4, <1>6, <1>7, <1>8, Dropped, Zenon

LEMMA RootSyncInv ==
    ASSUME IInv, RootSync
    PROVE  IInv'
<1>1. /\ io.op = "sync" /\ io' = NoIo /\ fs' = NoFs BY Zenon DEF RootSync, MemFails
<1>2. UNCHANGED <<card, programming, table, volume, sector, blocks, victim>>
  BY Zenon DEF RootSync, cache
<1>3. /\ busFailed' \in {busFailed, TRUE}
      /\ \/ cached' = cached /\ writeFailed' = writeFailed
         \/ cached' = None /\ writeFailed' = TRUE
  BY Zenon DEF RootSync, SdSync, BusTimesOut
<1>4. Mounted
  <2>1. io # NoIo BY <1>1 DEF NoIo
  <2> QED BY <2>1, Zenon DEF IInv, Control
<1>5. Types'
  <2>1. io' \in IoRequest /\ fs' \in FsRequest BY <1>1, Zenon DEF IoRequest, FsRequest
  <2>2. busFailed' \in BOOLEAN /\ writeFailed' \in BOOLEAN /\ cached' \in Lba \cup {None}
    BY <1>3, Zenon DEF IInv, Types
  <2> QED BY <1>2, <2>1, <2>2, Zenon DEF IInv, Types
<1>6. writeFailed => writeFailed' BY <1>3, Zenon
<1> QED BY <1>1, <1>2, <1>3, <1>4, <1>5, <1>6, Ends, Zenon

-----------------------------------------------------------------------------
(* The card and the boot *)

LEMMA CardFinishesInv ==
    ASSUME IInv, CardFinishes
    PROVE  IInv'
<1>1. /\ programming # NoProgram /\ programming' = NoProgram
      /\ card' = [card EXCEPT ![programming.lba] = programming.data]
  BY Zenon DEF CardFinishes
<1>2. UNCHANGED <<busFailed, table, volume, sector, cached, writeFailed, blocks, victim, fs, io>>
  BY Zenon DEF CardFinishes, root, cache
<1>3. /\ writeFailed /\ NoBlocks /\ cached = None
      /\ fs.op = "read" => fs.staged = <<>>
      /\ io.op = "read" => io.data = <<>>
  BY <1>1, Zenon DEF IInv, Busy
<1>4. io.op # "write" BY <1>3, Zenon DEF IInv, Control
<1>5. Types'
  <2>1. programming \in [lba : Lba, data : Sector] BY <1>1 DEF IInv, Types
  <2>2. card' \in [Lba -> Sector] BY <1>1, <2>1 DEF IInv, Types
  <2> QED BY <1>1, <1>2, <2>2, Zenon DEF IInv, Types
<1>6. Control' BY <1>1, <1>2, <1>4, Zenon DEF IInv, Control, Mounted
<1>7. Busy' BY <1>1, Zenon DEF Busy
<1>8. InRange' BY <1>2, Zenon DEF IInv, InRange, Capacity
<1>9. NoBlocks' BY <1>2, <1>3, Zenon DEF NoBlocks
<1>10. Whole' BY <1>9, Zenon DEF Whole, NoBlocks
<1>11. Copies'
  <2>1. ASSUME NEW at PROVE Medium(at, 0)' = <<>> BY DEF Medium
  <2>2. fs'.op = "read" => fs'.staged = Medium(fs.at, Len(fs.staged))'
    <3> SUFFICES ASSUME fs.op = "read" PROVE fs'.staged = Medium(fs.at, Len(fs.staged))'
      BY <1>2, Zenon
    <3>1. fs'.staged = <<>> /\ Len(fs'.staged) = 0 BY <1>2, <1>3
    <3> QED BY <2>1, <3>1 DEF Medium
  <2>3. io'.op = "read" => io'.data = Medium(io.at, Len(io.data))'
    <3> SUFFICES ASSUME io.op = "read" PROVE io'.data = Medium(io.at, Len(io.data))'
      BY <1>2, Zenon
    <3>1. io'.data = <<>> /\ Len(io'.data) = 0 BY <1>2, <1>3
    <3> QED BY <2>1, <3>1 DEF Medium
  <2>4. cached' = None BY <1>2, <1>3, Zenon
  <2> QED BY <1>9, <2>2, <2>3, <2>4, Zenon DEF Copies, CopiesMirrorMedium, NoBlocks
<1>12. Written' BY <1>2, <1>4, Zenon DEF Written
<1> QED BY <1>5, <1>6, <1>7, <1>8, <1>10, <1>11, <1>12 DEF IInv

LEMMA RootInitInv ==
    ASSUME IInv, cp32_root_init
    PROVE  IInv'
<1>1. /\ volume = NotMounted /\ RootVolume(table) # NotMounted /\ busFailed' = FALSE
      /\ volume' = RootVolume(table) /\ cached' = None /\ writeFailed' = FALSE
  BY Zenon DEF cp32_root_init
<1>2. UNCHANGED <<card, programming, table, sector, blocks, victim, fs, io>>
  BY Zenon DEF cp32_root_init, cache
<1>3. programming = NoProgram /\ fs = NoFs BY <1>1, Zenon DEF IInv, Control, Mounted
<1>4. io = NoIo BY <1>3, IdleIo DEF IInv
<1>5. NoBlocks
  <2> SUFFICES ASSUME NEW s \in Slots, blocks[s] # Invalid PROVE FALSE
    BY Zenon DEF NoBlocks
  <2>1. blocks[s].block \in Nat BY DEF IInv, Types
  <2>2. blocks[s].block * BlockBytes < Capacity BY Zenon DEF IInv, Whole
  <2>3. Capacity = 0 BY <1>1, Sizes DEF Capacity, NotMounted
  <2>4. blocks[s].block * BlockBytes \in Nat BY <2>1, Sizes
  <2> QED BY <2>2, <2>3, <2>4
<1>6. Types' BY <1>1, <1>2, Zenon DEF IInv, Types
<1>7. NoBlocks' /\ Mounted' BY <1>1, <1>2, <1>5, Zenon DEF NoBlocks, Mounted
<1> QED BY <1>1, <1>2, <1>3, <1>4, <1>6, <1>7, Dropped, Zenon

LEMMA PowerFailsInv ==
    ASSUME IInv, PowerFails
    PROVE  IInv'
<1>1. /\ programming' = NoProgram /\ busFailed' = FALSE /\ volume' = NotMounted
      /\ cached' = None /\ writeFailed' = FALSE /\ cp32_cache_invalidate
      /\ fs' = NoFs /\ io' = NoIo /\ UNCHANGED table
  BY Zenon DEF PowerFails
<1>2. /\ blocks' \in [Slots -> {Invalid} \cup [block : Nat, bytes : Seq(Val)]]
      /\ victim' \in Slots /\ NoBlocks'
  BY <1>1, Invalidated
<1>3. card' \in [Lba -> Sector]
  <2> DEFINE torn == {l \in Lba : \/ l = programming.lba
                                  \/ io.op = "write" /\ io.pc = "write" /\ l = MemLba(io.done)}
  <2>1. PICK c \in [torn -> Sector] :
          card' = [l \in Lba |-> IF l \in torn THEN c[l] ELSE card[l]]
    BY Zenon DEF PowerFails
  <2> HIDE DEF torn
  <2>2. card \in [Lba -> Sector] BY DEF IInv, Types
  <2> QED BY <2>1, <2>2
<1>4. sector' \in Sector
  <2>1. 0 \in 0..(SectorBytes - 1) BY Sizes
  <2>2. sector \in Sector BY DEF IInv, Types
  <2>3. sector[0] \in Val BY <2>1, <2>2, Zenon DEF Sector
  <2>4. (CHOOSE v \in Val : TRUE) \in Val BY <2>3
  <2> QED BY <2>4, Zenon DEF PowerFails, Sector
<1>5. Types'
  <2>1. io' \in IoRequest /\ fs' \in FsRequest BY <1>1, Zenon DEF IoRequest, FsRequest
  <2>2. writeFailed' \in BOOLEAN /\ busFailed' \in BOOLEAN BY <1>1, Zenon
  <2> QED BY <1>1, <1>2, <1>3, <1>4, <2>1, <2>2, Zenon DEF IInv, Types
<1> QED BY <1>1, <1>2, <1>5, Dropped, Zenon

-----------------------------------------------------------------------------
(* The invariant *)

LEMMA NextInv == IInv /\ [Next]_vars => IInv'
<1> SUFFICES ASSUME IInv, [Next]_vars PROVE IInv'
  OBVIOUS
<1>1. CASE UNCHANGED vars
  <2>1. UNCHANGED <<card, programming, busFailed, table, volume, sector, cached, writeFailed,
                    blocks, victim, fs, io>>
    BY <1>1, Zenon DEF vars
  <2>2. Types' BY <2>1, Zenon DEF IInv, Types
  <2>3. Control' BY <2>1, Zenon DEF IInv, Control, Mounted, NoBlocks
  <2>4. Busy' BY <2>1, Zenon DEF IInv, Busy, VolumeSectors, NoBlocks
  <2>5. InRange' BY <2>1, Zenon DEF IInv, InRange, Capacity
  <2>6. Whole' BY <2>1, Zenon DEF IInv, Whole, Capacity
  <2>7. Copies' BY <2>1, ZenonT(60) DEF IInv, Copies, CopiesMirrorMedium, Medium
  <2>8. Written' BY <2>1, Zenon DEF IInv, Written, Expected, MemLba, MemAt, ChunkBytes, At
  <2> QED BY <2>2, <2>3, <2>4, <2>5, <2>6, <2>7, <2>8 DEF IInv
<1>2. CASE Next
  BY <1>2, FsReadInv, FsWriteInv, FsSyncInv, CacheHitInv, CacheMissInv, FsReadDoneInv,
     RootReadInv, RootReadReplyInv, RootWriteReadInv, RootWriteSectorInv, RootWriteVerifyInv,
     RootWriteReplyInv, RootSyncInv, CardFinishesInv, RootInitInv, PowerFailsInv, Zenon
     DEF Next, Serve
<1> QED BY <1>1, <1>2

\* IInv holds in every reachable state of the root device.
THEOREM Invariance == Spec => []IInv
BY InitInv, NextInv, PTL DEF Spec

\* Whatever the geometry of the card and the cache: the blocks of the FS cache,
\* the sector buffer of rootdisk.c and the bytes staged by cp32_cache_read equal
\* the medium in every reachable state, late and torn writes included.
THEOREM CopiesAreTrue == Spec => []CopiesMirrorMedium
<1>1. IInv => CopiesMirrorMedium BY DEF IInv, Copies
<1> QED BY <1>1, Invariance, PTL

-----------------------------------------------------------------------------
(* What changes on the card *)

\* The sectors a step may change: the one MEM writes, the one the card programs.
LEMMA CardChanges ==
    ASSUME IInv, Next, NEW l \in Lba, card'[l] # card[l]
    PROVE  Mounted /\ l \in VolumeSectors
<1>1. card \in [Lba -> Sector] BY DEF IInv, Types
<1>2. ASSUME programming # NoProgram, l = programming.lba PROVE Mounted /\ l \in VolumeSectors
  BY <1>2, Zenon DEF IInv, Busy, Control
<1>3. ASSUME io.op = "write", io.pc = "write", l = MemLba(io.done)
      PROVE  Mounted /\ l \in VolumeSectors
  <2>1. io.done < Len(io.data) BY <1>3 DEF IInv, InRange
  <2> QED BY <1>3, <2>1, WriteAt, Zenon
<1>4. CASE RootWriteSector
  <2>1. io.op = "write" /\ io.pc = "write" BY <1>4, Zenon DEF RootWriteSector
  <2>2. l = MemLba(io.done)
    <3>1. card' = card \/ \E d : card' = [card EXCEPT ![MemLba(io.done)] = d]
      BY <1>4, Zenon DEF RootWriteSector, SdWriteOk, SdWriteFails
    <3> QED BY <1>1, <3>1
  <2> QED BY <1>3, <2>1, <2>2, Zenon
<1>5. CASE CardFinishes
  <2>1. programming # NoProgram /\ card' = [card EXCEPT ![programming.lba] = programming.data]
    BY <1>5, Zenon DEF CardFinishes
  <2>2. l = programming.lba BY <1>1, <2>1
  <2> QED BY <1>2, <2>1, <2>2, Zenon
<1>6. CASE PowerFails
  <2> DEFINE torn == {x \in Lba : \/ x = programming.lba
                                  \/ io.op = "write" /\ io.pc = "write" /\ x = MemLba(io.done)}
  <2>1. PICK c \in [torn -> Sector] :
          card' = [x \in Lba |-> IF x \in torn THEN c[x] ELSE card[x]]
    BY <1>6, Zenon DEF PowerFails
  <2>2. l \in torn
    <3> HIDE DEF torn
    <3> QED BY <2>1
  <2>3. l = programming.lba => programming # NoProgram BY Sizes DEF NoProgram, Lba, None
  <2> QED BY <1>2, <1>3, <2>2, <2>3, Zenon
<1>7. CASE card' = card BY <1>7
<1>8. \/ card' = card \/ RootWriteSector \/ CardFinishes \/ PowerFails
  <2>1. Serve => card' = card \/ RootWriteSector
    BY Zenon DEF Serve, CacheHit, CacheMiss, FsReadDone, RootRead, RootReadReply, RootWriteRead,
       RootWriteVerify, RootWriteReply, RootSync, disk, SdReadOk, SdReadFails
  <2> QED BY <2>1, Zenon DEF Next, FsRead, FsWrite, FsSync, cp32_root_init, disk
<1> QED BY <1>4, <1>5, <1>6, <1>7, <1>8, Zenon

\* Whatever sector 0 says: cp32_root_write and a write the card finishes late
\* change no sector outside the partition (or the raw volume) that
\* cp32_root_init selected.
THEOREM OnlyTheVolumeCorrect == Spec => OnlyTheVolume
<1> DEFINE A == \A l \in Lba : card'[l] # card[l] =>
                  IF table.signature
                    THEN LET p == table.parts[CHOOSE i \in Minix(table) : TRUE]
                         IN l \in p.start..(p.start + p.length - 1)
                    ELSE l < table.zones * BlockSectors
<1>1. IInv /\ [Next]_vars => [A]_vars
  <2> SUFFICES ASSUME IInv, Next, NEW l \in Lba, card'[l] # card[l]
               PROVE  IF table.signature
                        THEN LET p == table.parts[CHOOSE i \in Minix(table) : TRUE]
                             IN l \in p.start..(p.start + p.length - 1)
                        ELSE l < table.zones * BlockSectors
    BY Zenon
  <2> DEFINE q == table.parts[CHOOSE i \in Minix(table) : TRUE]
  <2>1. Mounted /\ l \in VolumeSectors BY CardChanges, Zenon
  <2>2. table \in Tables /\ volume = RootVolume(table) /\ RootVolume(table) # NotMounted
    BY <2>1, Zenon DEF IInv, Types, Mounted
  <2>3. /\ volume.start \in Nat /\ volume.length \in Nat
        /\ table.signature => volume.start = q.start /\ volume.length = q.length
        /\ ~table.signature => volume.start = 0 /\ volume.length = table.zones * BlockSectors
    <3>1. volume.start \in Nat /\ volume.length \in Nat BY VolumeLemma, Zenon DEF IInv
    <3> QED BY <2>2, <3>1, VolumeFits, Zenon
  <2>4. l \in volume.start..(volume.start + volume.length - 1) BY <2>1, Zenon DEF VolumeSectors
  <2> HIDE DEF q
  <2>5. CASE table.signature
    <3>1. l \in q.start..(q.start + q.length - 1) BY <2>3, <2>4, <2>5, Zenon
    <3> QED BY <2>5, <3>1, Zenon DEF q
  <2>6. CASE ~table.signature
    <3> DEFINE z == table.zones * BlockSectors
    <3>1. volume.length = z /\ volume.start = 0 BY <2>3, <2>6
    <3> HIDE DEF z
    <3>2. l < z BY <2>3, <2>4, <3>1
    <3> QED BY <2>6, <3>2, Zenon DEF z
  <2> QED BY <2>5, <2>6
<1> QED BY <1>1, Invariance, PTL DEF Spec, OnlyTheVolume

-----------------------------------------------------------------------------
(* StableStore *)

\* A position of the card is in a sector.
LEMMA NoDoubt == {p \in CardPos : p \div SectorBytes = None} = {}
<1> SUFFICES ASSUME NEW p \in CardPos PROVE p \div SectorBytes # None
  OBVIOUS
<1>1. p \div SectorBytes \in Lba BY SectorOf, Zenon
<1> QED BY <1>1, Sizes DEF Lba, None

LEMMA DiskType ==
    ASSUME NEW c \in [Lba -> Sector]
    PROVE  [p \in CardPos |-> At(c, p)] \in [CardPos -> Val]
BY AtVal, Zenon

\* A write being served is a call.
LEMMA NotNoCall ==
    ASSUME NEW f, NEW c
    PROVE  [new |-> f, was |-> [p \in CardPos |-> At(c, p)]] # [new |-> <<>>, was |-> <<>>]
<1>1. 0 \in CardPos
  <2>1. Sectors * SectorBytes \in Nat \ {0} BY Sizes
  <2> DEFINE n == Sectors * SectorBytes
  <2> HIDE DEF n
  <2>2. 0 \in 0..(n - 1) BY <2>1 DEF n
  <2> QED BY <2>2 DEF n, CardPos
<1>2. DOMAIN [p \in CardPos |-> At(c, p)] = CardPos BY Zenon
<1>3. DOMAIN <<>> = {} OBVIOUS
<1>4. [p \in CardPos |-> At(c, p)] # <<>> BY <1>1, <1>2, <1>3, Zenon
<1> QED BY <1>4

\* Sector MemLba(io.done) is one the write names.
LEMMA InTouched ==
    ASSUME IInv, io.op = "write", io.done < Len(io.data),
           NEW p \in CardPos, p \div SectorBytes = MemLba(io.done)
    PROVE  \E q \in MemAt(0)..(MemAt(0) + Len(io.data) - 1) : SameSector(p, q)
<1> DEFINE z == MemAt(0)
           m == MemAt(io.done)
           n == Len(io.data)
<1>1. z \in Nat /\ io.done \in Nat /\ m = z + io.done /\ n \in Nat BY WriteAt, Zenon
<1>2. m \in z..(z + n - 1)
  <2>1. io.done < n OBVIOUS
  <2> HIDE DEF z, m, n
  <2> QED BY <1>1, <2>1
<1>3. SameSector(p, m) BY Zenon DEF SameSector, MemLba
<1> QED BY <1>2, <1>3, Zenon

\* Any failure of a write is StableStore's Fail.
LEMMA FailRefines ==
    ASSUME IInv, io.op = "write", io.done < Len(io.data), RootWriteFailed,
           card' \in [Lba -> Sector], \A l \in Lba \ {MemLba(io.done)} : card'[l] = card[l],
           programming' = NoProgram \/ programming'.lba = MemLba(io.done)
    PROVE  Store!Fail
<1>1. writeFailed' = TRUE /\ io' = NoIo BY Zenon DEF RootWriteFailed, MemFails
<1>2. ASSUME NEW p \in CardPos,
             ~\E q \in MemAt(0)..(MemAt(0) + Len(io.data) - 1) : SameSector(p, q)
      PROVE  At(card, p) = At(card, p)'
  <2>1. p \div SectorBytes # MemLba(io.done) BY <1>2, InTouched, Zenon
  <2>2. p \div SectorBytes \in Lba BY SectorOf, Zenon
  <2> QED BY <2>1, <2>2, Zenon DEF At
<1>3. ASSUME NEW p \in Doubt'
      PROVE  /\ p \in CardPos
             /\ \E q \in MemAt(0)..(MemAt(0) + Len(io.data) - 1) : SameSector(p, q)
  <2>1. p \in CardPos /\ p \div SectorBytes = programming'.lba BY <1>3, Zenon DEF Doubt
  <2>2. programming' # NoProgram BY <2>1, NoDoubt DEF NoProgram
  <2> QED BY <2>1, <2>2, InTouched, Zenon
<1>4. [p \in CardPos |-> At(card, p)]' \in [CardPos -> Val] BY DiskType, Zenon
<1>5. io'.op = "idle" BY <1>1 DEF NoIo
<1> QED
  BY <1>1, <1>2, <1>3, <1>4, <1>5, NotNoCall, Zenon
     DEF Store!Fail, Store!NoCall, Store!AgreeOutside, Store!Touched

\* A step that leaves the medium and the write alone.
LEMMA Stutters ==
    ASSUME UNCHANGED <<card, programming, writeFailed>>,
           \/ io.op # "write" /\ io'.op # "write"
           \/ /\ io.op = "write" /\ io'.op = "write" /\ UNCHANGED volume
              /\ io'.at = io.at /\ io'.data = io.data /\ io'.was = io.was
    PROVE  UNCHANGED Store!vars
<1>1. Doubt' = Doubt BY Zenon DEF Doubt
<1>2. [p \in CardPos |-> At(card, p)]' = [p \in CardPos |-> At(card, p)] BY Zenon DEF At
<1>3. CASE io.op # "write" /\ io'.op # "write" BY <1>1, <1>2, <1>3, Zenon DEF Store!vars
<1>4. CASE /\ io.op = "write" /\ io'.op = "write" /\ UNCHANGED volume
           /\ io'.at = io.at /\ io'.data = io.data /\ io'.was = io.was
  <2>1. MemAt(0)' = MemAt(0) BY <1>4, Zenon DEF MemAt
  <2>2. [p \in CardPos |-> At(io.was, p)]' = [p \in CardPos |-> At(io.was, p)]
    BY <1>4, Zenon DEF At
  <2> QED BY <1>1, <1>2, <1>4, <2>1, <2>2, Zenon DEF Store!vars
<1> QED BY <1>3, <1>4, Zenon

\* store() hands a write to MEM: Begin, or nothing.
LEMMA FsWriteRefines ==
    ASSUME IInv, NEW at \in CardPos, NEW m \in 1..MaxBytes, NEW bytes \in [1..m -> Val],
           FsWrite(at, bytes)
    PROVE  Store!Begin \/ UNCHANGED Store!vars
<1>1. fs = NoFs /\ UNCHANGED <<card, programming, volume, writeFailed>>
  BY Zenon DEF FsWrite, disk, root
<1>2. io = NoIo BY <1>1, IdleIo DEF IInv
<1>3. io.op = "idle" BY <1>2 DEF NoIo
<1>4. CASE io' = io BY <1>1, <1>3, <1>4, Stutters
<1>5. CASE io' # io
  <2>1. io'.op = "write" /\ io'.was = card /\ ~writeFailed
    <3>1. /\ ~(Capacity = 0 \/ writeFailed \/ at >= Capacity)
          /\ \E d : io' = [op |-> "write", at |-> at, data |-> d, done |-> 0, pc |-> "read",
                           was |-> card]
      BY <1>5, Zenon DEF FsWrite
    <3> QED BY <3>1
  <2>2. IInv' BY FsWriteInv, Zenon
  <2>3. /\ io'.at \in Nat /\ io'.data \in Seq(Val)
    <3>1. io' \in IoRequest BY <2>2, Zenon DEF IInv, Types
    <3> QED BY <2>1, <3>1 DEF IoRequest, NoIo
  <2>4. Len(io'.data) \in 1..MaxBytes /\ io'.at + Len(io'.data) <= Capacity
    BY <1>1, <2>1, <2>2, Zenon DEF IInv, InRange, Capacity
  <2> DEFINE a == volume.start * SectorBytes
             z == MemAt(0)'
             n == Len(io'.data)
             new == [p \in z..(z + n - 1) |-> io'.data[p - z + 1]]
  <2>5. a \in Nat /\ Capacity \in Nat BY VolumeLemma, Sizes DEF IInv
  <2>6. z = a + io'.at + 0 BY <1>1, Zenon DEF MemAt
  <2>7. io'.at < Capacity /\ n \in Nat BY <2>3, <2>4, <2>5, Sizes
  <2>8. a + io'.at \in CardPos BY <2>3, <2>7, InVolume, Zenon DEF IInv
  <2> HIDE DEF a, z, n
  <2>9. z = a + io'.at /\ z \in Nat BY <2>3, <2>5, <2>6
  <2>10. new \in [z..(z + n - 1) -> Val]
    <3> SUFFICES ASSUME NEW p \in z..(z + n - 1) PROVE io'.data[p - z + 1] \in Val
      BY Zenon
    <3>1. p - z + 1 \in 1..Len(io'.data) BY <2>7, <2>9, IndexOf, Zenon DEF n
    <3> QED BY <2>3, <3>1, ElementOfSeq, Zenon
  <2>11. z \in CardPos /\ n \in 1..MaxBytes BY <2>4, <2>8, <2>9, Zenon DEF n
  <2>12. (IF io.op = "write"
            THEN [new |-> [p \in MemAt(0)..(MemAt(0) + Len(io.data) - 1) |-> io.data[p - MemAt(0) + 1]],
                  was |-> [p \in CardPos |-> At(io.was, p)]]
            ELSE [new |-> <<>>, was |-> <<>>])' = [new |-> new, was |-> [p \in CardPos |-> At(card, p)]]
    BY <2>1, Zenon DEF z, n
  <2> HIDE DEF new
  <2>13. /\ Doubt' = Doubt
         /\ [p \in CardPos |-> At(card, p)]' = [p \in CardPos |-> At(card, p)]
    BY <1>1, Zenon DEF Doubt, At
  <2>14. io.op # "write" BY <1>3
  <2> QED BY <1>1, <2>1, <2>10, <2>11, <2>12, <2>13, <2>14, Zenon DEF Store!Begin, Store!NoCall
<1> QED BY <1>4, <1>5, Zenon

\* The steps of a write.
LEMMA WriteRefines ==
    ASSUME IInv, RootWriteRead \/ RootWriteSector \/ RootWriteVerify \/ RootWriteReply
    PROVE  Store!Next \/ UNCHANGED Store!vars
<1>1. io.op = "write"
  BY Zenon DEF RootWriteRead, RootWriteSector, RootWriteVerify, RootWriteReply
<1>2. card \in [Lba -> Sector] /\ sector \in Sector BY Zenon DEF IInv, Types
<1>3. io \in [op : {"write"}, at : Nat, data : Seq(Val), done : Nat,
              pc : {"read", "write", "verify"}, was : [Lba -> Sector]]
  BY <1>1, IoWrites DEF IInv
<1>4. ASSUME io.done < Len(io.data), RootWriteFailed, UNCHANGED <<card, programming>>
      PROVE  Store!Next
  <2>1. programming = NoProgram BY <1>1, <1>4, WriteAt
  <2> QED BY <1>1, <1>2, <1>4, <2>1, FailRefines, Zenon DEF Store!Next
<1>5. ASSUME NEW pc, NEW done, io' = [io EXCEPT !.pc = pc, !.done = done],
             UNCHANGED <<card, programming, writeFailed, volume>>
      PROVE  UNCHANGED Store!vars
  <2>1. io'.op = "write" /\ io'.at = io.at /\ io'.data = io.data /\ io'.was = io.was
    BY <1>3, <1>5
  <2> QED BY <1>1, <1>5, <2>1, Stutters, Zenon
<1>6. CASE RootWriteRead
  <2>1. io.done < Len(io.data) BY <1>6, Zenon DEF RootWriteRead
  <2>2. CASE SdReadFails(sector) /\ RootWriteFailed BY <1>4, <2>1, <2>2, Zenon DEF SdReadFails
  <2>3. CASE io' = [io EXCEPT !.pc = "write"] /\ UNCHANGED <<disk, writeFailed>>
    <3>1. io' = [io EXCEPT !.pc = "write", !.done = io.done] BY <1>3, <2>3, Zenon
    <3> QED BY <1>5, <1>6, <2>3, <3>1, Zenon DEF RootWriteRead, disk
  <2> QED BY <1>6, <2>2, <2>3, Zenon DEF RootWriteRead
<1>7. CASE RootWriteVerify
  <2>1. io.done < Len(io.data) BY <1>7 DEF RootWriteVerify, IInv, InRange
  <2>2. CASE UNCHANGED <<card, programming>> /\ RootWriteFailed BY <1>4, <2>1, <2>2, Zenon
  <2>3. CASE /\ io' = [io EXCEPT !.pc = "read", !.done = @ + ChunkBytes]
             /\ UNCHANGED <<disk, writeFailed>>
    BY <1>5, <1>7, <2>3, Zenon DEF RootWriteVerify, disk
  <2> QED BY <1>7, <2>2, <2>3, Zenon DEF RootWriteVerify
<1>8. CASE RootWriteSector
  <2> DEFINE l == MemLba(io.done)
  <2>1. io.done < Len(io.data) BY <1>8 DEF RootWriteSector, IInv, InRange
  <2>2. l \in Lba /\ programming = NoProgram BY <1>1, <2>1, WriteAt
  <2>3. CASE SdWriteFails(l, sector) /\ RootWriteFailed
    <3>1. card' = card \/ card' = [card EXCEPT ![l] = sector] BY <2>3, Zenon DEF SdWriteFails
    <3>2. card' \in [Lba -> Sector] /\ \A x \in Lba \ {l} : card'[x] = card[x]
      BY <1>2, <2>2, <3>1
    <3>3. programming' = NoProgram \/ programming' = [lba |-> l, data |-> sector]
      BY <2>2, <2>3, Zenon DEF SdWriteFails
    <3>4. programming' = NoProgram \/ programming'.lba = l BY <3>3
    <3> QED BY <1>1, <2>1, <2>3, <3>2, <3>4, FailRefines, Zenon DEF Store!Next
  <2>4. CASE SdWriteOk(l, sector) /\ io' = [io EXCEPT !.pc = "verify"] /\ UNCHANGED writeFailed
    <3>1. PICK d \in Sector : card' = [card EXCEPT ![l] = d] BY <2>4, Zenon DEF SdWriteOk
    <3>2. card' \in [Lba -> Sector] /\ \A x \in Lba \ {l} : card'[x] = card[x]
      BY <1>2, <2>2, <3>1
    <3>3. io'.op = "write" /\ io'.at = io.at /\ io'.data = io.data /\ io'.was = io.was
      BY <1>3, <2>4
    <3>4. UNCHANGED <<programming, volume>> BY <1>8, <2>4, Zenon DEF SdWriteOk, RootWriteSector
    <3>5. MemAt(0)' = MemAt(0) /\ Doubt' = Doubt BY <3>3, <3>4, Zenon DEF MemAt, Doubt
    <3>6. [p \in CardPos |-> At(card, p)]' \in [CardPos -> Val] BY <3>2, DiskType, Zenon
    <3>7. [p \in CardPos |-> At(io.was, p)]' = [p \in CardPos |-> At(io.was, p)]
      BY <3>3, Zenon DEF At
    <3>8. ASSUME NEW p \in CardPos,
                 ~\E q \in MemAt(0)..(MemAt(0) + Len(io.data) - 1) : SameSector(p, q)
          PROVE  At(card, p) = At(card, p)'
      <4>1. p \div SectorBytes # l BY <1>1, <2>1, <3>8, InTouched, Zenon
      <4>2. p \div SectorBytes \in Lba BY SectorOf, Zenon
      <4> QED BY <3>2, <4>1, <4>2, Zenon DEF At
    <3>9. Store!Progress
      BY <1>1, <2>4, <3>3, <3>5, <3>6, <3>7, <3>8, NotNoCall, Zenon
         DEF Store!Progress, Store!NoCall, Store!AgreeOutside, Store!Touched
    <3> QED BY <3>9, Zenon DEF Store!Next
  <2> QED BY <1>8, <2>3, <2>4, Zenon DEF RootWriteSector
<1>9. CASE RootWriteReply
  <2>1. io.pc = "read" /\ io.done = Len(io.data) /\ io' = NoIo BY <1>9, Zenon DEF RootWriteReply
  <2>2. UNCHANGED <<card, programming, writeFailed>>
    BY <1>9, Zenon DEF RootWriteReply, disk, root
  <2>3. io'.op # "write" BY <2>1 DEF NoIo
  <2>4. Doubt' = Doubt BY <2>2, Zenon DEF Doubt
  <2>5. ASSUME NEW p \in CardPos
        PROVE  At(card, p)' = IF p \in MemAt(0)..(MemAt(0) + Len(io.data) - 1)
                                THEN io.data[p - MemAt(0) + 1] ELSE At(io.was, p)
    <3>1. At(card, p) = Expected(io.done, p) BY <1>1, <2>1, Zenon DEF IInv, Written
    <3>2. At(card, p)' = At(card, p) BY <2>2, Zenon DEF At
    <3> QED BY <2>1, <3>1, <3>2, Zenon DEF Expected
  <2>6. Store!Ack
    BY <1>1, <2>2, <2>3, <2>4, <2>5, NotNoCall, Zenon DEF Store!Ack, Store!NoCall
  <2> QED BY <2>6, Zenon DEF Store!Next
<1> QED BY <1>6, <1>7, <1>8, <1>9

\* The steps of the card and of the power.
LEMMA CardRefines ==
    ASSUME IInv, CardFinishes \/ PowerFails
    PROVE  Store!Next
<1>1. card \in [Lba -> Sector] BY DEF IInv, Types
<1>2. IInv' BY CardFinishesInv, PowerFailsInv, Zenon
<1>3. card' \in [Lba -> Sector] BY <1>2, Zenon DEF IInv, Types
<1>4. [p \in CardPos |-> At(card, p)]' \in [CardPos -> Val] BY <1>3, DiskType, Zenon
<1>5. programming' = NoProgram BY Zenon DEF CardFinishes, PowerFails
<1>6. Doubt' = {}
  <2>1. programming'.lba = None BY <1>5 DEF NoProgram
  <2> QED BY <2>1, NoDoubt, Zenon DEF Doubt
<1>7. CASE CardFinishes
  <2>1. /\ programming # NoProgram /\ UNCHANGED <<volume, writeFailed, io>>
        /\ card' = [card EXCEPT ![programming.lba] = programming.data]
    BY <1>7, Zenon DEF CardFinishes, root
  <2>2. writeFailed BY <2>1, Zenon DEF IInv, Busy
  <2>3. io.op # "write" BY <2>2, Zenon DEF IInv, Control
  <2>4. \A x \in Lba : x # programming.lba => card'[x] = card[x] BY <1>1, <2>1
  <2>5. ASSUME NEW p \in CardPos, p \notin Doubt PROVE At(card, p) = At(card, p)'
    <3>1. p \div SectorBytes # programming.lba BY <2>5, Zenon DEF Doubt
    <3>2. p \div SectorBytes \in Lba BY SectorOf, Zenon
    <3> QED BY <2>4, <3>1, <3>2, Zenon DEF At
  <2>6. Store!Late
    BY <1>4, <1>6, <2>1, <2>2, <2>3, <2>5, Zenon DEF Store!Late, Store!AgreeOutside
  <2> QED BY <2>6, Zenon DEF Store!Next
<1>8. CASE PowerFails
  <2> DEFINE torn == {x \in Lba : \/ x = programming.lba
                                  \/ io.op = "write" /\ io.pc = "write" /\ x = MemLba(io.done)}
  <2>1. io' = NoIo /\ writeFailed' = FALSE BY <1>8, Zenon DEF PowerFails
  <2>2. \A x \in Lba : x \notin torn => card'[x] = card[x]
    <3>1. PICK c \in [torn -> Sector] :
            card' = [x \in Lba |-> IF x \in torn THEN c[x] ELSE card[x]]
      BY <1>8, Zenon DEF PowerFails
    <3> HIDE DEF torn
    <3> QED BY <3>1
  <2>3. io'.op # "write" BY <2>1 DEF NoIo
  <2>4. ASSUME NEW p \in CardPos, p \notin Doubt,
               \/ io.op # "write"
               \/ ~\E q \in MemAt(0)..(MemAt(0) + Len(io.data) - 1) : SameSector(p, q)
        PROVE  At(card, p) = At(card, p)'
    <3>1. p \div SectorBytes # programming.lba BY <2>4, Zenon DEF Doubt
    <3>2. p \div SectorBytes \in Lba BY SectorOf, Zenon
    <3>3. ~(io.op = "write" /\ io.pc = "write" /\ p \div SectorBytes = MemLba(io.done))
      <4> SUFFICES ASSUME io.op = "write", io.pc = "write", p \div SectorBytes = MemLba(io.done)
                   PROVE  FALSE
        OBVIOUS
      <4>1. io.done < Len(io.data) BY DEF IInv, InRange
      <4> QED BY <2>4, <4>1, InTouched, Zenon
    <3> QED BY <2>2, <3>1, <3>2, <3>3, Zenon DEF At
  <2>5. Store!Reboot
    <3>1. CASE io.op = "write"
      BY <1>4, <1>6, <2>1, <2>3, <2>4, <3>1, Zenon
         DEF Store!Reboot, Store!NoCall, Store!AgreeOutside, Store!Touched
    <3>2. CASE io.op # "write"
      BY <1>4, <1>6, <2>1, <2>3, <2>4, <3>2, Zenon
         DEF Store!Reboot, Store!NoCall, Store!AgreeOutside, Store!Touched
    <3> QED BY <3>1, <3>2, Zenon
  <2> QED BY <2>5, Zenon DEF Store!Next
<1> QED BY <1>7, <1>8, Zenon

\* Reads, synchronisation and the boot.
LEMMA ReadRefines ==
    ASSUME IInv,
           \/ \E at \in CardPos, n \in 1..MaxBytes : FsRead(at, n)
           \/ FsSync \/ CacheHit \/ CacheMiss \/ FsReadDone \/ RootRead \/ RootReadReply
           \/ RootSync \/ cp32_root_init
    PROVE  Store!Next \/ UNCHANGED Store!vars
<1>1. CASE RootSync
  <2>1. io.op = "sync" /\ io' = NoIo /\ UNCHANGED <<card, programming>>
    BY <1>1, Zenon DEF RootSync, MemFails
  <2>2. io.op # "write" /\ io'.op # "write" BY <2>1 DEF NoIo
  <2>3. CASE UNCHANGED writeFailed BY <2>1, <2>2, <2>3, Stutters, Zenon
  <2>4. CASE writeFailed' = TRUE
    <3>1. Doubt' = Doubt /\ [p \in CardPos |-> At(card, p)]' = [p \in CardPos |-> At(card, p)]
      BY <2>1, Zenon DEF Doubt, At
    <3>2. Store!Refuse BY <2>2, <2>4, <3>1, Zenon DEF Store!Refuse, Store!NoCall
    <3> QED BY <3>2, Zenon DEF Store!Next
  <2> QED BY <1>1, <2>3, <2>4, Zenon DEF RootSync
<1>2. CASE cp32_root_init
  <2>1. volume = NotMounted /\ writeFailed' = FALSE /\ UNCHANGED <<card, programming, io, fs>>
    BY <1>2, Zenon DEF cp32_root_init
  <2>2. ~writeFailed /\ fs = NoFs BY <2>1, Zenon DEF IInv, Control, Mounted
  <2>3. writeFailed' = writeFailed BY <2>1, <2>2, Zenon DEF IInv, Types
  <2>4. io = NoIo BY <2>2, IdleIo DEF IInv
  <2>5. io.op # "write" BY <2>4 DEF NoIo
  <2> QED BY <2>1, <2>3, <2>5, Stutters, Zenon
<1>3. CASE \/ \E at \in CardPos, n \in 1..MaxBytes : FsRead(at, n)
           \/ FsSync \/ CacheHit \/ CacheMiss \/ FsReadDone \/ RootRead \/ RootReadReply
  <2>1. UNCHANGED <<card, programming, writeFailed>>
    BY <1>3, Zenon DEF FsRead, FsSync, CacheHit, CacheMiss, FsReadDone, RootRead, RootReadReply,
       disk, root, SdReadOk, SdReadFails
  <2>2. io.op # "write"
    <3>1. io.op = "read" \/ fs = NoFs \/ fs.op = "read"
      BY <1>3, Zenon DEF FsRead, FsSync, CacheHit, CacheMiss, Reading, FsReadDone, RootRead,
         RootReadReply
    <3>2. fs = NoFs => io = NoIo BY IdleIo DEF IInv
    <3>3. fs.op = "read" => io = NoIo \/ io.op = "read" BY Zenon DEF IInv, Control
    <3> QED BY <3>1, <3>2, <3>3 DEF NoIo
  <2>3. io'.op # "write"
    <3>1. CASE RootRead
      <4>1. io.op = "read" /\ (io' = NoIo \/ \E d : io' = [io EXCEPT !.data = d])
        BY <3>1, Zenon DEF RootRead, MemFails
      <4>2. io \in [op : {"read"}, at : Nat, n : Nat, data : Seq(Val)]
        BY <4>1, IoReads DEF IInv
      <4> QED BY <4>1, <4>2 DEF NoIo
    <3>2. CASE CacheMiss
      <4>1. \E at, n : io' = [op |-> "read", at |-> at, n |-> n, data |-> <<>>]
        BY <3>2, Zenon DEF CacheMiss
      <4> QED BY <4>1
    <3>3. CASE io' = io BY <2>2, <3>3, Zenon
    <3>4. CASE io' = NoIo \/ io' = [op |-> "sync"] BY <3>4 DEF NoIo
    <3> QED BY <1>3, <3>1, <3>2, <3>3, <3>4, Zenon
            DEF FsRead, FsSync, CacheHit, FsReadDone, RootReadReply
  <2> QED BY <2>1, <2>2, <2>3, Stutters, Zenon
<1> QED BY <1>1, <1>2, <1>3, Zenon

\* Whatever the geometry, the tables and the requests: FS, MEM, rootdisk.c and
\* the card together are a StableStore.  An acknowledged write is on the card and
\* changed nothing else, and after one that fails (or is refused by the card) no
\* other is accepted until the next boot.
THEOREM RootImplementsStableStore == Spec => ImplementsStableStore
<1>1. Init => Store!Init
  <2> SUFFICES ASSUME Init PROVE Store!Init
    OBVIOUS
  <2>1. [p \in CardPos |-> At(card, p)] \in [CardPos -> Val] BY DiskType, Zenon DEF Init
  <2>2. io.op # "write" BY DEF Init, NoIo
  <2>3. programming.lba = None BY DEF Init, NoProgram
  <2>4. Doubt = {} BY <2>3, NoDoubt, Zenon DEF Doubt
  <2> QED BY <2>1, <2>2, <2>4, Zenon DEF Init, Store!Init, Store!NoCall
<1>2. IInv /\ [Next]_vars => [Store!Next]_(Store!vars)
  <2> SUFFICES ASSUME IInv, [Next]_vars PROVE Store!Next \/ UNCHANGED Store!vars
    BY Zenon
  <2>1. CASE UNCHANGED vars
    <3>1. UNCHANGED <<card, programming, writeFailed, volume, io>> BY <2>1, Zenon DEF vars
    <3> QED BY <3>1, Stutters, Zenon
  <2>2. CASE Next
    <3>1. Store!Begin => Store!Next BY Zenon DEF Store!Next
    <3> QED BY <2>2, <3>1, FsWriteRefines, WriteRefines, CardRefines, ReadRefines, Zenon
            DEF Next, Serve
  <2> QED BY <2>1, <2>2, Zenon
<1> QED BY <1>1, <1>2, Invariance, PTL DEF Spec, ImplementsStableStore, Store!Spec

=============================================================================
