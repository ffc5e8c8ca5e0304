------------------------------ MODULE RootDisk ------------------------------
(***************************************************************************)
(* The root device from the file system's block cache down to the SD card: *)
(*   fs/cache.c      clean blocks in the FS process                        *)
(*   kernel/memory.c the MEM task, which serves FS one request at a time   *)
(*   kernel/rootdisk.c the volume, the one-sector buffer, verified writes  *)
(*   drivers/sd_spi.c, kernel/sdcard.c, drivers/spi_fifo.c  the card       *)
(* A position is a byte; SectorBytes and BlockSectors are scaled down.     *)
(* Faults: any card command may fail, a write may be accepted and finish   *)
(* after the driver gave up on it, may store something else, and power may *)
(* fail at any step.                                                       *)
(***************************************************************************)
EXTENDS Integers, Sequences

CONSTANTS Sectors,       \* sectors of the card (cp32_sdcard_sectors)
          SectorBytes,   \* 512 in the code
          BlockSectors,  \* sectors of a cached block (1024 / 512)
          CacheBlocks,   \* blocks[4] in the code
          MinSectors,    \* the smallest volume root_init accepts (4)
          MaxSectors,    \* the largest (0x7ffffe00 / 512)
          Val,           \* values of a byte
          Tables,        \* the contents of sector 0 that are considered
          MaxBytes       \* bound: the longest request of FS

ASSUME GeometryAssumption ==
  /\ {Sectors, SectorBytes, BlockSectors, CacheBlocks, MinSectors} \subseteq Nat \ {0}
  /\ {MaxSectors, MaxBytes} \subseteq Nat

\* What root_init reads from sector 0: the boot signature, the partition
\* entries, and whether a file system begins there and how long it is.
ASSUME TableAssumption ==
  Tables \subseteq
    [signature : BOOLEAN, super : BOOLEAN, zones : Nat,
     parts : Seq([minix : BOOLEAN, boot : BOOLEAN, start : Nat, length : Nat])]

None == -1
Lba == 0..(Sectors - 1)
Sector == [0..(SectorBytes - 1) -> Val]
CardPos == 0..(Sectors * SectorBytes - 1)
BlockBytes == BlockSectors * SectorBytes
Slots == 0..(CacheBlocks - 1)

VARIABLES
  card,          \* the medium: [Lba -> Sector]
  programming,   \* accepted write the card has not finished, or NoProgram
  busFailed,     \* controller.failed: latched by a transfer time-out
  table,         \* what sector 0 describes (fixed)
  volume,        \* volume_start and capacity (sectors); 0 = no root
  sector,        \* the sector buffer
  cached,        \* cached and cached_lba: the sector it holds, or None
  writeFailed,   \* write_failed
  blocks,        \* FS: [Slots -> cached block]
  victim,        \* FS: next slot to replace
  fs,            \* the FS request in progress
  io             \* the MEM request in progress

disk == <<card, programming, busFailed>>
root == <<volume, sector, cached, writeFailed>>
cache == <<blocks, victim>>
vars == <<card, programming, busFailed, table, volume, sector, cached,
          writeFailed, blocks, victim, fs, io>>

NoProgram == [lba |-> None, data |-> <<>>]
NotMounted == [start |-> 0, length |-> 0]
Invalid == [block |-> None, bytes |-> <<>>]
NoFs == [op |-> "idle"]
NoIo == [op |-> "idle"]

Capacity == volume.length * SectorBytes

\* The byte at card position p.
At(c, p) == c[p \div SectorBytes][p % SectorBytes]

\* Bytes at..at+n-1 of the volume as they are on the medium.
Medium(at, n) ==
  [i \in 1..n |-> At(card, volume.start * SectorBytes + at + i - 1)]

-----------------------------------------------------------------------------
(* The volume that sector 0 selects: cp32_root_init.                        *)

Minix(t) == {i \in DOMAIN t.parts : t.parts[i].minix}

\* One primary MINIX partition, or a raw volume when there is no table.
RootVolume(t) ==
  LET p == t.parts[CHOOSE i \in Minix(t) : TRUE]
      raw == IF Sectors > MaxSectors THEN MaxSectors ELSE Sectors
  IN IF Sectors < MinSectors \/ ~t.super THEN NotMounted
     ELSE IF ~t.signature /\ t.zones * BlockSectors <= raw
            THEN [start |-> 0, length |-> t.zones * BlockSectors]
     ELSE IF /\ t.signature
             /\ \E i \in Minix(t) : Minix(t) = {i}
             /\ p.boot
             /\ p.start > 0 /\ p.length >= MinSectors
             /\ p.start + p.length <= Sectors
             /\ p.length <= MaxSectors
             /\ t.zones * BlockSectors <= p.length
            THEN [start |-> p.start, length |-> p.length]
     ELSE NotMounted

-----------------------------------------------------------------------------
(* The card: cp32_sd_read, cp32_sd_write, cp32_sd_sync.                     *)

\* command() waits for the card to release the line; a card that is still
\* programming makes every command fail, so nothing is read meanwhile.
commandAnyTime(l) == ~busFailed /\ l \in Lba

CommandOk(l) == ~busFailed /\ programming = NoProgram /\ l \in Lba

\* A transfer that times out in the controller fails all later ones too.
BusTimesOut == busFailed' \in {busFailed, TRUE}

\* A failed transfer leaves anything in the buffer it was filling.
SdReadFails(buffer) == /\ buffer' \in Sector
                       /\ BusTimesOut
                       /\ UNCHANGED <<card, programming>>

SdReadOk(l, buffer) == /\ CommandOk(l)
                       /\ buffer' = card[l]
                       /\ UNCHANGED disk

\* Status 0: data accepted, busy released, CMD13 clean. The medium may still
\* hold something else.
SdWriteOk(l, data) == /\ CommandOk(l)
                      /\ \E d \in Sector : card' = [card EXCEPT ![l] = d]
                      /\ UNCHANGED <<programming, busFailed>>

\* Every other outcome: refused, rejected, busy for too long (the card goes
\* on programming), finished with a bad status.
SdWriteFails(l, data) ==
  /\ \/ UNCHANGED <<card, programming>>
     \/ /\ CommandOk(l)
        /\ card' = [card EXCEPT ![l] = data] /\ UNCHANGED programming
     \/ /\ CommandOk(l)
        /\ programming' = [lba |-> l, data |-> data] /\ UNCHANGED card
  /\ BusTimesOut

\* The card completes the write the driver no longer waits for.
CardFinishes ==
  /\ programming # NoProgram
  /\ card' = [card EXCEPT ![programming.lba] = programming.data]
  /\ programming' = NoProgram
  /\ UNCHANGED <<busFailed, table, root, cache, fs, io>>

-----------------------------------------------------------------------------
(* Requests of the file system.                                             *)

cp32_cache_invalidate == /\ blocks' = [s \in Slots |-> Invalid]
                         /\ victim' = 0

\* store(): drop the cache, have MEM write, drop the cache again. MEM refuses
\* when there is no root or an earlier write failed, and cuts at the end.
FsWrite(at, bytes) ==
  LET n == IF Len(bytes) > Capacity - at THEN Capacity - at ELSE Len(bytes)
  IN /\ fs = NoFs
     /\ cp32_cache_invalidate
     /\ IF Capacity = 0 \/ writeFailed \/ at >= Capacity
          THEN UNCHANGED <<fs, io>>
          ELSE /\ fs' = [op |-> "write"]
               /\ io' = [op |-> "write", at |-> at, data |-> SubSeq(bytes, 1, n),
                         done |-> 0, pc |-> "read", was |-> card]
     /\ UNCHANGED <<disk, table, root>>

\* cp32_cache_read of n bytes; out of range requests are refused.
FsRead(at, n) ==
  /\ fs = NoFs
  /\ at + n <= Capacity
  /\ fs' = [op |-> "read", at |-> at, n |-> n, staged |-> <<>>, slot |-> None]
  /\ UNCHANGED <<disk, table, root, cache, io>>

FsSync ==
  /\ fs = NoFs
  /\ Capacity > 0 /\ ~writeFailed
  /\ fs' = [op |-> "sync"]
  /\ io' = [op |-> "sync"]
  /\ UNCHANGED <<disk, table, root, cache>>

Reading == fs.op = "read" /\ io = NoIo /\ Len(fs.staged) < fs.n
NextPos == fs.at + Len(fs.staged)

NextBlock == NextPos \div BlockBytes
Hit(s) == blocks[s].block = NextBlock

\* Copy what the cached block holds of the rest of the request.
CacheHit ==
  /\ Reading
  /\ \E s \in Slots :
       LET within == NextPos % BlockBytes
           rest == fs.n - Len(fs.staged)
           chunk == IF rest > BlockBytes - within THEN BlockBytes - within ELSE rest
       IN /\ Hit(s)
          /\ fs' = [fs EXCEPT !.staged =
                      @ \o SubSeq(blocks[s].bytes, within + 1, within + chunk)]
  /\ UNCHANGED <<disk, table, root, cache, io>>

NextVictim == (victim + 1) % CacheBlocks

\* Replace the oldest slot: it is invalid until the whole block has arrived.
CacheMiss ==
  /\ Reading
  /\ ~\E s \in Slots : Hit(s)
  /\ LET at == NextBlock * BlockBytes
         n == IF BlockBytes > Capacity - at THEN Capacity - at ELSE BlockBytes
     IN io' = [op |-> "read", at |-> at, n |-> n, data |-> <<>>]
  /\ fs' = [fs EXCEPT !.slot = victim]
  /\ blocks' = [blocks EXCEPT ![victim] = Invalid]
  /\ victim' = NextVictim
  /\ UNCHANGED <<disk, table, root>>

FsReadDone ==
  /\ fs.op = "read" /\ Len(fs.staged) = fs.n
  /\ fs' = NoFs
  /\ UNCHANGED <<disk, table, root, cache, io>>

-----------------------------------------------------------------------------
(* MEM: cp32_mem_request over cp32_root_read and cp32_root_write.           *)

memAtRaw(k) == io.at + k

MemAt(k) == volume.start * SectorBytes + io.at + k
MemLba(k) == MemAt(k) \div SectorBytes

\* The request ends with an error: the staged bytes and the slot are dropped.
MemFails == /\ io' = NoIo
            /\ fs' = NoFs

\* Read the sector a chunk lies in, unless the buffer holds it.
RootRead ==
  /\ io.op = "read" /\ Len(io.data) < io.n
  /\ LET k == Len(io.data)
         l == MemLba(k)
         within == MemAt(k) % SectorBytes
         rest == io.n - k
         chunk == IF rest > SectorBytes - within THEN SectorBytes - within ELSE rest
         Copied(s) == io.data \o [i \in 1..chunk |-> s[within + i - 1]]
     IN \/ /\ cached = l
           /\ io' = [io EXCEPT !.data = Copied(sector)]
           /\ UNCHANGED <<disk, sector, cached, fs>>
        \/ /\ cached # l
           /\ SdReadOk(l, sector)
           /\ cached' = l
           /\ io' = [io EXCEPT !.data = Copied(sector')]
           /\ UNCHANGED fs
        \/ /\ cached # l
           /\ SdReadFails(sector)
           /\ cached' = None
           /\ MemFails
  /\ UNCHANGED <<table, volume, writeFailed, cache>>

\* The block has arrived: it becomes valid.
RootReadReply ==
  /\ io.op = "read" /\ Len(io.data) = io.n
  /\ blocks' = [blocks EXCEPT ![fs.slot] =
                  [block |-> io.at \div BlockBytes, bytes |-> io.data]]
  /\ io' = NoIo
  /\ UNCHANGED <<disk, table, root, victim, fs>>

\* The write is uncertain: nothing staged survives and no write follows.
failedOnce == /\ cached' = None
              /\ UNCHANGED writeFailed
              /\ cp32_cache_invalidate
              /\ MemFails

RootWriteFailed == /\ cached' = None
                   /\ writeFailed' = TRUE
                   /\ cp32_cache_invalidate
                   /\ MemFails

ChunkBytes == LET within == MemAt(io.done) % SectorBytes
                  rest == Len(io.data) - io.done
              IN IF rest > SectorBytes - within THEN SectorBytes - within ELSE rest

\* The sector with the bytes of this chunk replaced.
Merged(s) ==
  LET within == MemAt(io.done) % SectorBytes
  IN [i \in DOMAIN s |-> IF i - within \in 0..(ChunkBytes - 1)
                           THEN io.data[io.done + i - within + 1]
                           ELSE s[i]]

RootWriteRead ==
  /\ io.op = "write" /\ io.pc = "read" /\ io.done < Len(io.data)
  /\ \/ /\ CommandOk(MemLba(io.done))
        /\ sector' = Merged(card[MemLba(io.done)])
        /\ cached' = None
        /\ io' = [io EXCEPT !.pc = "write"]
        /\ UNCHANGED <<disk, writeFailed, cache, fs>>
     \/ /\ SdReadFails(sector)
        /\ RootWriteFailed
  /\ UNCHANGED <<table, volume>>

RootWriteSector ==
  /\ io.op = "write" /\ io.pc = "write"
  /\ \/ /\ SdWriteOk(MemLba(io.done), sector)
        /\ io' = [io EXCEPT !.pc = "verify"]
        /\ UNCHANGED <<writeFailed, cached, cache, fs>>
     \/ /\ SdWriteFails(MemLba(io.done), sector)
        /\ RootWriteFailed
  /\ UNCHANGED <<table, volume, sector>>

\* Read back into `verify` and compare.
RootWriteVerify ==
  /\ io.op = "write" /\ io.pc = "verify"
  /\ \/ /\ CommandOk(MemLba(io.done)) /\ card[MemLba(io.done)] = sector
        /\ cached' = MemLba(io.done)
        /\ io' = [io EXCEPT !.pc = "read", !.done = @ + ChunkBytes]
        /\ UNCHANGED <<disk, writeFailed, cache, fs>>
     \/ /\ \/ CommandOk(MemLba(io.done)) /\ card[MemLba(io.done)] # sector
                                         /\ UNCHANGED busFailed
           \/ BusTimesOut
        /\ UNCHANGED <<card, programming>>
        /\ RootWriteFailed
  /\ UNCHANGED <<table, volume, sector>>

\* Every chunk is verified: store() drops the cache and returns OK.
RootWriteReply ==
  /\ io.op = "write" /\ io.pc = "read" /\ io.done = Len(io.data)
  /\ cp32_cache_invalidate
  /\ io' = NoIo
  /\ fs' = NoFs
  /\ UNCHANGED <<disk, table, root>>

\* CMD13 answers with a clean status.
SdSync == CommandOk(0) /\ UNCHANGED busFailed

\* cp32_root_sync: a refused CMD13 latches the failure.
RootSync ==
  /\ io.op = "sync"
  /\ \/ SdSync /\ UNCHANGED <<cached, writeFailed>>
     \/ /\ BusTimesOut
        /\ cached' = None
        /\ writeFailed' = TRUE
  /\ MemFails
  /\ UNCHANGED <<card, programming, table, volume, sector, cache>>

-----------------------------------------------------------------------------
(* Boot and power failure.                                                  *)

\* cp32_root_init: the card answers and sector 0 selects a volume, or not.
cp32_root_init ==
  /\ volume = NotMounted
  /\ RootVolume(table) # NotMounted
  /\ busFailed' = FALSE
  /\ volume' = RootVolume(table)
  /\ cached' = None
  /\ writeFailed' = FALSE
  /\ UNCHANGED <<card, programming, table, sector, cache, fs, io>>

\* A sector that was being written may be left with anything in it.
PowerFails ==
  /\ LET torn == {l \in Lba : \/ l = programming.lba
                              \/ io.op = "write" /\ io.pc = "write"
                                                 /\ l = MemLba(io.done)}
     IN \E c \in [torn -> Sector] :
          card' = [l \in Lba |-> IF l \in torn THEN c[l] ELSE card[l]]
  /\ programming' = NoProgram
  /\ busFailed' = FALSE
  /\ volume' = NotMounted
  /\ sector' = [i \in 0..(SectorBytes - 1) |-> CHOOSE v \in Val : TRUE]
  /\ cached' = None
  /\ writeFailed' = FALSE
  /\ cp32_cache_invalidate
  /\ fs' = NoFs
  /\ io' = NoIo
  /\ UNCHANGED table

Init ==
  /\ card \in [Lba -> Sector]
  /\ programming = NoProgram
  /\ busFailed = FALSE
  /\ table \in Tables
  /\ volume = NotMounted
  /\ sector = [i \in 0..(SectorBytes - 1) |-> CHOOSE v \in Val : TRUE]
  /\ cached = None
  /\ writeFailed = FALSE
  /\ blocks = [s \in Slots |-> Invalid]
  /\ victim = 0
  /\ fs = NoFs
  /\ io = NoIo

\* One step of the request that FS or MEM is working on.
Serve == \/ CacheHit \/ CacheMiss \/ FsReadDone
         \/ RootRead \/ RootReadReply
         \/ RootWriteRead \/ RootWriteSector \/ RootWriteVerify \/ RootWriteReply
         \/ RootSync

Next ==
  \/ \E at \in CardPos, n \in 1..MaxBytes : FsRead(at, n)
  \/ \E at \in CardPos, n \in 1..MaxBytes : \E b \in [1..n -> Val] : FsWrite(at, b)
  \/ FsSync
  \/ Serve
  \/ CardFinishes
  \/ cp32_root_init
  \/ PowerFails

Spec == Init /\ [][Next]_vars

\* FS and MEM never stop in the middle of a request: every loop over the
\* card is bounded by a count of transfers.
FairSpec == Spec /\ WF_vars(Serve)

-----------------------------------------------------------------------------
(* Properties.                                                              *)

TypeOK ==
  /\ card \in [Lba -> Sector]
  /\ sector \in Sector
  /\ cached \in Lba \cup {None}
  /\ victim \in Slots
  /\ \A s \in Slots : Len(blocks[s].bytes) <= BlockBytes

\* Every copy equals the medium at all times, after failed, late and torn writes
\* too: the valid blocks of the cache, the sector in the buffer, and what FS has
\* staged of a read through both. store() and cp32_root_write drop a copy before
\* a write can make it stale, and no read gets past a card that is busy.
CopiesMirrorMedium ==
  /\ \A s \in Slots : blocks[s] # Invalid =>
       blocks[s].bytes = Medium(blocks[s].block * BlockBytes, Len(blocks[s].bytes))
  /\ cached # None => sector = card[cached]
  /\ fs.op = "read" => fs.staged = Medium(fs.at, Len(fs.staged))

\* No sector outside the selected volume ever changes: neither the partition
\* table nor a neighbouring partition (cp32_root_init, cp32_root_write).
OnlyTheVolume ==
  [][\A l \in Lba : card'[l] # card[l] =>
       IF table.signature
         THEN LET p == table.parts[CHOOSE i \in Minix(table) : TRUE]
              IN l \in p.start..(p.start + p.length - 1)
         ELSE l < table.zones * BlockSectors]_vars

\* Every request FS makes is answered (cp32_mem_request, cp32_cache_read).
RequestsEnd == [](fs # NoFs => <>(fs = NoFs))

\* The stack is a StableStore: an acknowledged write is on the card and
\* changed nothing else, a failed one makes the root read-only until reboot.
SameSector(p, q) == p \div SectorBytes = q \div SectorBytes
Doubt == {p \in CardPos : p \div SectorBytes = programming.lba}
Store == INSTANCE StableStore WITH
  Pos <- CardPos,
  disk <- [p \in CardPos |-> At(card, p)],
  ro <- writeFailed,
  call <- IF io.op = "write"
            THEN [new |-> [p \in MemAt(0)..(MemAt(0) + Len(io.data) - 1) |->
                             io.data[p - MemAt(0) + 1]],
                  was |-> [p \in CardPos |-> At(io.was, p)]]
            ELSE [new |-> <<>>, was |-> <<>>],
  doubt <- Doubt
ImplementsStableStore == Store!Spec
=============================================================================
