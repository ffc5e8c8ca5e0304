------------------------------- MODULE Alloc -------------------------------
(***************************************************************************)
(* MM's memory allocator (mm/alloc.c) and the requests it serves            *)
(* (mm/main.c): a table of blocks, first fit, splitting, and coalescing of  *)
(* the free neighbours on release.                                          *)
(*                                                                         *)
(* One action is one request: mm_task handles a message to its end before   *)
(* it receives the next.  reply is the answer it sends.                     *)
(***************************************************************************)
EXTENDS Integers, FiniteSetsExt

CONSTANTS
    CP32_MAX_MEM_BLOCKS,    \* entries of the table
    MemBase, MemSize,       \* mem[1], in clicks
    MAX_CLICKS,             \* the largest request
    Owner,                  \* endpoints of live processes
    NoOwner,                \* the owner -1 of a free block
    Argument                \* the numbers a request can carry

ASSUME AllocAssumption ==
    /\ CP32_MAX_MEM_BLOCKS \in Nat \ {0}
    /\ MemBase \in Nat \ {0} /\ MemSize \in Nat \ {0} /\ MAX_CLICKS \in Nat
    /\ Argument \subseteq Nat

VARIABLES
    cp32_mem_blocks,
    cp32_mem_allocator_ready,
    reply

vars == <<cp32_mem_blocks, cp32_mem_allocator_ready, reply>>

Entries == 0 .. (CP32_MAX_MEM_BLOCKS - 1)

Arena == MemBase .. (MemBase + MemSize - 1)

Block == [base : Nat, size : Nat, owner : Owner \cup {NoOwner}, used : BOOLEAN]

cp32_mem_allocator_init ==
    [i \in Entries |-> [base |-> IF i = 0 THEN MemBase ELSE 0,
                        size |-> IF i = 0 THEN MemSize ELSE 0,
                        owner |-> NoOwner, used |-> FALSE]]

-----------------------------------------------------------------------------
(* Allocation *)

\* Mutant of Fits: a block in use is taken.
FitsInUse(b, clicks) == {i \in Entries : b[i].size >= clicks}

Fits(b, clicks) == {i \in Entries : ~b[i].used /\ b[i].size >= clicks}

\* Mutant of Spare: the search ends one entry too early.
SpareShort(b) == {j \in Entries \ {0, CP32_MAX_MEM_BLOCKS - 1} : b[j].size = 0}

\* Entries that can take the rest of a split block.
Spare(b) == {j \in Entries \ {0} : b[j].size = 0}

\* Mutant of Split: the rest keeps the base of the whole.
SplitSameBase(b, i, j, clicks, owner) ==
    [b EXCEPT ![j] = [b[i] EXCEPT !.size = @ - clicks],
              ![i] = [@ EXCEPT !.size = clicks, !.owner = owner, !.used = TRUE]]

Split(b, i, j, clicks, owner) ==
    [b EXCEPT ![j] = [b[i] EXCEPT !.base = @ + clicks, !.size = @ - clicks],
              ![i] = [@ EXCEPT !.size = clicks, !.owner = owner, !.used = TRUE]]

\* First fit.  An exact fit needs a spare entry too, for a rest of size 0.
cp32_mem_alloc(b, clicks, owner) ==
    IF Fits(b, clicks) = {} \/ Spare(b) = {}
    THEN [blocks |-> b, base |-> 0]
    ELSE LET i == Min(Fits(b, clicks))
         IN  [blocks |-> Split(b, i, Min(Spare(b)), clicks, owner), base |-> b[i].base]

-----------------------------------------------------------------------------
(* Release *)

\* The block i ends where the block j starts.
Ends(b, i, j) == b[i].base + b[i].size = b[j].base

Neighbours(b, i) ==
    {j \in Entries \ {i} : ~b[j].used /\ b[j].size # 0 /\ (Ends(b, j, i) \/ Ends(b, i, j))}

\* The block i absorbs the block j.
Absorb(b, i, j) ==
    [b EXCEPT ![i].size = @ + b[j].size, ![j].base = 0, ![j].size = 0]

\* One turn of the coalescing loop: the table and the entry of the free block.
Merge(m) ==
    LET b == m.blocks
        j == Min(Neighbours(b, m.at))
    IN  IF Neighbours(b, m.at) = {} THEN m
        ELSE IF Ends(b, j, m.at) THEN [blocks |-> Absorb(b, j, m.at), at |-> j]
        ELSE [blocks |-> Absorb(b, m.at, j), at |-> m.at]

\* A free block has at most one free neighbour on either side, so that the loop
\* ends after two turns; FreeBlocksMerged would not hold otherwise.
Coalesce(b, i) == Merge(Merge([blocks |-> b, at |-> i])).blocks

Holding(b, base) == {i \in Entries : b[i].used /\ b[i].base = base}

\* Mutant of cp32_mem_free: anybody may release a block.
freeAnyOwner(b, base, owner) ==
    LET i == Min(Holding(b, base))
    IN  IF base = 0 \/ Holding(b, base) = {} THEN [blocks |-> b, type |-> "EINVAL"]
        ELSE [blocks |-> Coalesce([b EXCEPT ![i].used = FALSE, ![i].owner = NoOwner], i),
              type |-> "OK"]

cp32_mem_free(b, base, owner) ==
    LET i == Min(Holding(b, base))
    IN  IF base = 0 \/ Holding(b, base) = {} THEN [blocks |-> b, type |-> "EINVAL"]
        ELSE IF b[i].owner # owner THEN [blocks |-> b, type |-> "EACCES"]
        ELSE [blocks |-> Coalesce([b EXCEPT ![i].used = FALSE, ![i].owner = NoOwner], i),
              type |-> "OK"]

-----------------------------------------------------------------------------
(* The requests *)

\* Static storage; the owner of an unused entry is never read.
Init ==
    /\ cp32_mem_blocks = [i \in Entries |-> [base |-> 0, size |-> 0,
                                             owner |-> NoOwner, used |-> FALSE]]
    /\ cp32_mem_allocator_ready = FALSE
    /\ reply = [type |-> "none", base |-> 0]

\* A request the size check refuses does not initialise the table.
Allocate(source, clicks) ==
    IF clicks = 0 \/ clicks > MAX_CLICKS
    THEN /\ reply' = [type |-> "ENOMEM", base |-> 0]
         /\ UNCHANGED <<cp32_mem_blocks, cp32_mem_allocator_ready>>
    ELSE LET b == IF cp32_mem_allocator_ready THEN cp32_mem_blocks
                  ELSE cp32_mem_allocator_init
             r == cp32_mem_alloc(b, clicks, source)
         IN  /\ cp32_mem_blocks' = r.blocks
             /\ cp32_mem_allocator_ready' = TRUE
             /\ reply' = [type |-> IF r.base # 0 THEN "OK" ELSE "ENOMEM", base |-> r.base]

Release(source, base) ==
    LET r == cp32_mem_free(cp32_mem_blocks, base, source)
    IN  /\ cp32_mem_blocks' = r.blocks
        /\ reply' = [type |-> r.type, base |-> base]
        /\ UNCHANGED cp32_mem_allocator_ready

BadRequest(a) ==
    /\ reply' = [type |-> "E_BAD_FCN", base |-> a]
    /\ UNCHANGED <<cp32_mem_blocks, cp32_mem_allocator_ready>>

cp32_mm_handle_request(source, a) ==
    Allocate(source, a) \/ Release(source, a) \/ BadRequest(a)

Next == \E source \in Owner, a \in Argument : cp32_mm_handle_request(source, a)

Spec == Init /\ [][Next]_vars

-----------------------------------------------------------------------------
(* Properties *)

Covers(r, c) == r.base <= c /\ c < r.base + r.size

Held(b, o) == {c \in Arena : \E i \in Entries : b[i].used /\ b[i].owner = o /\ Covers(b[i], c)}

\* Every run of clicks nobody holds.
FreeRun(b, clicks) ==
    \E first \in Arena :
      /\ first + clicks <= MemBase + MemSize
      /\ \A c \in Arena : Covers([base |-> first, size |-> clicks], c)
                            => \A o \in Owner : c \notin Held(b, o)

\* Sizes and bases stay natural numbers: no subtraction of Split goes below zero
\* (the C fields are unsigned and would wrap).
TypeOK ==
    /\ cp32_mem_blocks \in [Entries -> Block]
    /\ cp32_mem_allocator_ready \in BOOLEAN
    /\ reply.base \in Nat

\* Splitting and merging never lose a click and never put one in two blocks:
\* whichever entries of the table they use, the blocks partition the arena.
BlocksPartitionArena ==
    cp32_mem_allocator_ready =>
      /\ \A i \in Entries : cp32_mem_blocks[i].size # 0 =>
           /\ MemBase <= cp32_mem_blocks[i].base
           /\ cp32_mem_blocks[i].base + cp32_mem_blocks[i].size <= MemBase + MemSize
      /\ \A c \in Arena : \E i \in Entries :
           /\ Covers(cp32_mem_blocks[i], c)
           /\ \A j \in Entries \ {i} : ~Covers(cp32_mem_blocks[j], c)

\* Release "does not permanently fragment the CP32 heap" (the comment in
\* cp32_mem_free): no two free blocks ever touch, in whatever order the blocks
\* were granted and returned.
FreeBlocksMerged ==
    \A i, j \in Entries :
      LET b == cp32_mem_blocks
      IN  /\ i # j
          /\ ~b[i].used /\ b[i].size # 0
          /\ ~b[j].used /\ b[j].size # 0
          => ~Ends(b, i, j)

\* A request of acceptable size is refused only when no run of free clicks is
\* long enough or every entry of the table is in use: the search of
\* cp32_mem_alloc, which begins at entry 1 for the rest of a split, misses nothing.
RefusedOnlyWhenFull ==
    [][\A source \in Owner, clicks \in Argument \ {0} :
         /\ Allocate(source, clicks)
         /\ clicks <= MAX_CLICKS
         /\ reply'.type = "ENOMEM"
         => \/ ~FreeRun(cp32_mem_blocks, clicks)
            \/ \A i \in Entries : cp32_mem_blocks'[i].size # 0]_vars

\* A request changes the clicks of the process that sent it and of nobody else:
\* "callers may only release the beginning of a block they own".
OthersKeepTheirMemory ==
    [][\A source \in Owner, a \in Argument :
         cp32_mm_handle_request(source, a) =>
           \A o \in Owner \ {source} : Held(cp32_mem_blocks', o) = Held(cp32_mem_blocks, o)]_vars

\* The regions in use, as a client of MM knows them.
Region(r) == [base |-> r.base, size |-> r.size, owner |-> r.owner]

Regions(b) == {Region(b[i]) : i \in {e \in Entries : b[e].used}}

Abstract == INSTANCE Heap WITH live <- Regions(cp32_mem_blocks)

\* The table implements the abstract heap: a grant is a region no other
\* process holds, and only a release ends it, whatever blocks are split or merged.
ImplementsHeap == Abstract!Spec
=============================================================================
