---------------------------- MODULE AllocProofs ----------------------------
(***************************************************************************)
(* Proofs about MM's allocator, for every size of the table and the arena:  *)
(* the blocks always partition the arena, free blocks never touch, and the  *)
(* table implements the abstract heap.                                      *)
(*                                                                         *)
(* The inductive invariant is Tidy and FreeBlocksMerged.  The difficulty is *)
(* the release: between its merges the block being released may touch other *)
(* free blocks, so the lemmas on Merge carry MergedBut instead.             *)
(***************************************************************************)
EXTENDS Alloc, WellFoundedInduction, TLAPS

USE SMTT(30), ZenonT(30)

\* A free block, as opposed to an empty entry.
FreeBlock(b, i) == ~b[i].used /\ b[i].size # 0

Apart(b, i, j) ==
    b[i].base + b[i].size <= b[j].base \/ b[j].base + b[j].size <= b[i].base

InArena(b, i) == MemBase <= b[i].base /\ b[i].base + b[i].size <= MemBase + MemSize

\* A split leaves the lower part in its entry and the lower of two merged blocks
\* absorbs the other, so that entry 0 always holds the bottom of the arena.
Bottom(b) == b[0].base = MemBase /\ b[0].size # 0

\* The table of a ready allocator.
Tidy(b) ==
    /\ b \in [Entries -> Block]
    /\ \A i \in Entries : b[i].used => b[i].size # 0 /\ b[i].owner \in Owner
    /\ \A i \in Entries : b[i].size # 0 => InArena(b, i)
    /\ \A i, j \in Entries : i # j /\ b[i].size # 0 /\ b[j].size # 0 => Apart(b, i, j)
    /\ \A c \in Arena : \E i \in Entries : Covers(b[i], c)
    /\ Bottom(b)

\* No two free blocks touch, the block k left aside.
MergedBut(b, k) ==
    \A i, j \in Entries \ {k} : i # j /\ FreeBlock(b, i) /\ FreeBlock(b, j) => ~Ends(b, i, j)

NoneBelow(b, k) == \A j \in Entries \ {k} : FreeBlock(b, j) => ~Ends(b, j, k)

NoneAbove(b, k) == \A j \in Entries \ {k} : FreeBlock(b, j) => ~Ends(b, k, j)

Merged(b) ==
    \A i, j \in Entries : i # j /\ FreeBlock(b, i) /\ FreeBlock(b, j) => ~Ends(b, i, j)

-----------------------------------------------------------------------------
(* First entries *)

\* The search loops end at an entry that qualifies when there is one.
LEMMA MinEntry ==
    ASSUME NEW B \in SUBSET Entries, B # {}
    PROVE  Min(B) \in B
<1> DEFINE R == OpToRel(<, Nat)
<1>0. B \in SUBSET Nat BY AllocAssumption DEF Entries
<1>1. \E x \in B : \A y \in B : ~(<<y, x>> \in R)
  <2>1. IsWellFoundedOn(R, Nat) BY NatLessThanWellFounded, Zenon
  <2> HIDE DEF R
  <2> QED BY <1>0, <2>1, WFMin, Zenon
<1>2. \A x, y \in Nat : <<y, x>> \in R <=> y < x
  BY DEF OpToRel
<1> HIDE DEF R
<1>3. PICK x \in B : \A y \in B : ~(<<y, x>> \in R) BY <1>1
<1>4. x \in Nat /\ \A y \in B : y \in Nat BY <1>0
<1>5. \A y \in B : ~(y < x) BY <1>2, <1>3, <1>4, Zenon
<1>6. \A y \in B : x <= y BY <1>4, <1>5
<1> QED BY <1>6 DEF Min

-----------------------------------------------------------------------------
(* Splitting *)

\* What the entries hold after a block was split.
LEMMA SplitFields ==
    ASSUME NEW b \in [Entries -> Block], NEW i \in Entries, NEW j \in Entries, i # j,
           NEW n \in Nat, n <= b[i].size, ~b[i].used, NEW o \in Owner
    PROVE  \A c : c = Split(b, i, j, n, o) =>
               /\ c \in [Entries -> Block]
               /\ c[i].base = b[i].base /\ c[i].size = n /\ c[i].owner = o /\ c[i].used
               /\ c[j].base = b[i].base + n /\ c[j].size = b[i].size - n
               /\ c[j].owner = b[i].owner /\ ~c[j].used
               /\ \A k \in Entries \ {i, j} : c[k] = b[k]
<1> SUFFICES ASSUME NEW c, c = Split(b, i, j, n, o)
             PROVE  /\ c \in [Entries -> Block]
                    /\ c[i].base = b[i].base /\ c[i].size = n /\ c[i].owner = o /\ c[i].used
                    /\ c[j].base = b[i].base + n /\ c[j].size = b[i].size - n
                    /\ c[j].owner = b[i].owner /\ ~c[j].used
                    /\ \A k \in Entries \ {i, j} : c[k] = b[k]
  OBVIOUS
<1> DEFINE r == [b[i] EXCEPT !.base = @ + n, !.size = @ - n]
           g == [b[i] EXCEPT !.size = n, !.owner = o, !.used = TRUE]
<1>1. b[i] \in Block OBVIOUS
<1>2. b[i].base \in Nat /\ b[i].size \in Nat /\ b[i].size - n \in Nat
  BY <1>1 DEF Block
<1>3. /\ r \in Block /\ r.base = b[i].base + n /\ r.size = b[i].size - n
      /\ r.owner = b[i].owner /\ ~r.used
  <2>1. b[i].base + n \in Nat BY <1>2
  <2>2. r \in Block BY <1>1, <1>2, <2>1, Zenon DEF Block
  <2>3. r.base = b[i].base + n BY <1>1 DEF Block
  <2>4. r.size = b[i].size - n BY <1>1 DEF Block
  <2>5. r.owner = b[i].owner BY <1>1 DEF Block
  <2>6. ~r.used BY <1>1 DEF Block
  <2> QED BY <2>2, <2>3, <2>4, <2>5, <2>6
<1>4. g \in Block /\ g.base = b[i].base /\ g.size = n /\ g.owner = o /\ g.used
  BY <1>1, <1>2, Zenon DEF Block
<1>5. c = [[b EXCEPT ![j] = r] EXCEPT ![i] = g] BY DEF Split
<1> HIDE DEF r, g
<1>6. c \in [Entries -> Block] BY <1>3, <1>4, <1>5
<1>7. c[i] = g /\ c[j] = r /\ \A k \in Entries \ {i, j} : c[k] = b[k] BY <1>5
<1> QED BY <1>3, <1>4, <1>6, <1>7

\* Granting part of a free block keeps the table in order.
LEMMA SplitLemma ==
    ASSUME NEW b, Tidy(b), Merged(b), NEW i \in Entries, NEW j \in Entries,
           NEW n \in Nat \ {0}, n <= b[i].size, ~b[i].used, b[j].size = 0, NEW o \in Owner
    PROVE  Tidy(Split(b, i, j, n, o)) /\ Merged(Split(b, i, j, n, o))
<1> DEFINE c == Split(b, i, j, n, o)
<1>0. /\ b \in [Entries -> Block]
      /\ \A k \in Entries : b[k] \in Block /\ b[k].base \in Nat /\ b[k].size \in Nat
  BY DEF Tidy, Block
<1>1. i # j BY <1>0
<1>2. /\ c \in [Entries -> Block]
      /\ c[i].base = b[i].base /\ c[i].size = n /\ c[i].owner = o /\ c[i].used
      /\ c[j].base = b[i].base + n /\ c[j].size = b[i].size - n
      /\ c[j].owner = b[i].owner /\ ~c[j].used
      /\ \A k \in Entries \ {i, j} : c[k] = b[k]
  BY <1>0, <1>1, SplitFields
<1> HIDE DEF c
<1>3. \A k \in Entries : c[k].used => c[k].size # 0 /\ c[k].owner \in Owner
  BY <1>2 DEF Tidy
<1>4. \A k \in Entries : c[k].size # 0 => InArena(c, k)
  BY <1>0, <1>2, AllocAssumption DEF Tidy, InArena
<1>5. \A k, l \in Entries : k # l /\ c[k].size # 0 /\ c[l].size # 0 => Apart(c, k, l)
  BY <1>0, <1>2 DEF Tidy, Apart
<1>6. \A x \in Arena : \E k \in Entries : Covers(c[k], x)
  <2> SUFFICES ASSUME NEW x \in Arena PROVE \E k \in Entries : Covers(c[k], x)
    OBVIOUS
  <2>0. x \in Int BY AllocAssumption DEF Arena
  <2>1. PICK k \in Entries : Covers(b[k], x) BY DEF Tidy
  <2>2. CASE k = i
    <3>1. Covers(c[i], x) \/ Covers(c[j], x)
      BY <1>0, <1>2, <2>0, <2>1, <2>2 DEF Covers
    <3> QED BY <3>1
  <2>3. k # j BY <1>0, <2>0, <2>1 DEF Covers
  <2>4. CASE k # i BY <1>2, <2>1, <2>3, <2>4
  <2> QED BY <2>2, <2>4
<1>7. Merged(c)
  <2> SUFFICES ASSUME NEW k \in Entries, NEW l \in Entries, k # l,
                      FreeBlock(c, k), FreeBlock(c, l), Ends(c, k, l)
               PROVE  FALSE
    BY DEF Merged
  <2>1. k # i /\ l # i BY <1>2 DEF FreeBlock
  <2>2. CASE k = j
    <3>1. FreeBlock(b, i) /\ FreeBlock(b, l) /\ Ends(b, i, l) /\ l # i
      BY <1>0, <1>2, <2>1, <2>2 DEF FreeBlock, Ends
    <3> QED BY <3>1 DEF Merged
  <2>3. CASE l = j
    <3>1. b[k].size # 0 /\ b[i].size # 0 /\ c[k] = b[k] /\ k # i
      BY <1>0, <1>2, <2>1, <2>3 DEF FreeBlock
    <3>2. Apart(b, k, i) BY <3>1 DEF Tidy
    <3> QED BY <1>0, <1>2, <2>3, <3>1, <3>2 DEF Apart, Ends
  <2>4. CASE k # j /\ l # j
    <3>1. FreeBlock(b, k) /\ FreeBlock(b, l) /\ Ends(b, k, l)
      BY <1>2, <2>1, <2>4 DEF FreeBlock, Ends
    <3> QED BY <3>1 DEF Merged
  <2> QED BY <2>2, <2>3, <2>4
<1>8. Bottom(c)
  <2>1. 0 \in Entries /\ Bottom(b) BY AllocAssumption DEF Entries, Tidy
  <2> QED BY <1>2, <2>1 DEF Bottom
<1>9. Tidy(c) BY <1>2, <1>3, <1>4, <1>5, <1>6, <1>8 DEF Tidy
<1> QED BY <1>7, <1>9 DEF c

-----------------------------------------------------------------------------
(* Merging *)

\* What the entries hold after a block absorbed another.
LEMMA AbsorbFields ==
    ASSUME NEW b \in [Entries -> Block], NEW i \in Entries, NEW j \in Entries, i # j,
           ~b[i].used, ~b[j].used
    PROVE  \A c : c = Absorb(b, i, j) =>
               /\ c \in [Entries -> Block]
               /\ c[i].base = b[i].base /\ c[i].size = b[i].size + b[j].size /\ ~c[i].used
               /\ c[j].size = 0 /\ ~c[j].used
               /\ \A k \in Entries \ {i, j} : c[k] = b[k]
<1> SUFFICES ASSUME NEW c, c = Absorb(b, i, j)
             PROVE  /\ c \in [Entries -> Block]
                    /\ c[i].base = b[i].base /\ c[i].size = b[i].size + b[j].size /\ ~c[i].used
                    /\ c[j].size = 0 /\ ~c[j].used
                    /\ \A k \in Entries \ {i, j} : c[k] = b[k]
  OBVIOUS
<1> DEFINE g == [b[i] EXCEPT !.size = @ + b[j].size]
           e == [[b[j] EXCEPT !.base = 0] EXCEPT !.size = 0]
<1>1. b[i] \in Block /\ b[j] \in Block OBVIOUS
<1>2. b[i].size + b[j].size \in Nat BY <1>1 DEF Block
<1>3. g \in Block /\ g.base = b[i].base /\ g.size = b[i].size + b[j].size /\ ~g.used
  BY <1>1, <1>2 DEF Block
<1>4. e \in Block /\ e.size = 0 /\ ~e.used BY <1>1, Zenon DEF Block
<1>5. c = [[b EXCEPT ![i] = g] EXCEPT ![j] = e] BY Zenon DEF Absorb
<1> HIDE DEF g, e
<1>6. c \in [Entries -> Block] BY <1>3, <1>4, <1>5
<1>7. c[i] = g /\ c[j] = e /\ \A k \in Entries \ {i, j} : c[k] = b[k] BY <1>5
<1> QED BY <1>3, <1>4, <1>6, <1>7

\* A free block absorbs the free block that starts where it ends, while one of
\* the two is the block being released.
LEMMA AbsorbLemma ==
    ASSUME NEW b, Tidy(b), NEW i \in Entries, NEW j \in Entries, i # j,
           FreeBlock(b, i), FreeBlock(b, j), Ends(b, i, j),
           NEW k \in {i, j}, MergedBut(b, k)
    PROVE  \A c : c = Absorb(b, i, j) =>
               /\ Tidy(c) /\ FreeBlock(c, i) /\ MergedBut(c, i)
               /\ k = i => NoneAbove(c, i) /\ (NoneBelow(b, k) => NoneBelow(c, i))
               /\ k = j => NoneBelow(c, i) /\ (NoneAbove(b, k) => NoneAbove(c, i))
               /\ \A e \in Entries : c[e].used <=> b[e].used
               /\ \A e \in Entries : b[e].used => c[e] = b[e]
<1> SUFFICES ASSUME NEW c, c = Absorb(b, i, j)
             PROVE  /\ Tidy(c) /\ FreeBlock(c, i) /\ MergedBut(c, i)
                    /\ k = i => NoneAbove(c, i) /\ (NoneBelow(b, k) => NoneBelow(c, i))
                    /\ k = j => NoneBelow(c, i) /\ (NoneAbove(b, k) => NoneAbove(c, i))
                    /\ \A e \in Entries : c[e].used <=> b[e].used
                    /\ \A e \in Entries : b[e].used => c[e] = b[e]
  OBVIOUS
<1>0. /\ b \in [Entries -> Block]
      /\ \A e \in Entries : b[e] \in Block /\ b[e].base \in Nat /\ b[e].size \in Nat
  BY DEF Tidy, Block
<1>1. /\ c \in [Entries -> Block]
      /\ c[i].base = b[i].base /\ c[i].size = b[i].size + b[j].size /\ ~c[i].used
      /\ c[j].size = 0 /\ ~c[j].used
      /\ \A e \in Entries \ {i, j} : c[e] = b[e]
  BY <1>0, AbsorbFields DEF FreeBlock
<1>2. \A e \in Entries : (c[e].used <=> b[e].used) /\ (b[e].used => c[e] = b[e])
  BY <1>1 DEF FreeBlock
<1>3. \A e \in Entries : c[e].used => c[e].size # 0 /\ c[e].owner \in Owner
  BY <1>2 DEF Tidy
<1>4. \A e \in Entries : c[e].size # 0 => InArena(c, e)
  <2>1. InArena(b, i) /\ InArena(b, j) BY DEF Tidy, FreeBlock
  <2>2. InArena(c, i) BY <1>0, <1>1, <2>1, AllocAssumption DEF InArena, Ends
  <2> QED BY <1>1, <2>2 DEF Tidy, InArena
<1>5. \A e, f \in Entries : e # f /\ c[e].size # 0 /\ c[f].size # 0 => Apart(c, e, f)
  <2> SUFFICES ASSUME NEW e \in Entries, NEW f \in Entries, e # f,
                      c[e].size # 0, c[f].size # 0
               PROVE  Apart(c, e, f)
    OBVIOUS
  <2>1. e # j /\ f # j BY <1>1
  <2>2. ASSUME NEW g \in Entries \ {i, j}, b[g].size # 0
        PROVE  Apart(c, i, g) /\ Apart(c, g, i)
    <3>1. Apart(b, i, g) /\ Apart(b, j, g) BY <2>2 DEF Tidy, FreeBlock
    <3>2. b[g].base \in Nat /\ b[g].size \in Nat BY <1>0
    <3> QED BY <1>0, <1>1, <2>2, <3>1, <3>2 DEF Apart, Ends, FreeBlock
  <2>3. CASE e = i BY <1>1, <2>1, <2>2, <2>3
  <2>4. CASE f = i BY <1>1, <2>1, <2>2, <2>4
  <2>5. CASE e # i /\ f # i BY <1>1, <2>1, <2>5 DEF Tidy, Apart
  <2> QED BY <2>3, <2>4, <2>5
<1>6. \A x \in Arena : \E e \in Entries : Covers(c[e], x)
  <2> SUFFICES ASSUME NEW x \in Arena PROVE \E e \in Entries : Covers(c[e], x)
    OBVIOUS
  <2>0. x \in Int BY AllocAssumption DEF Arena
  <2>1. PICK e \in Entries : Covers(b[e], x) BY DEF Tidy
  <2>2. CASE e \in {i, j}
    <3>1. Covers(c[i], x) BY <1>0, <1>1, <2>0, <2>1, <2>2 DEF Covers, Ends
    <3> QED BY <3>1
  <2>3. CASE e \notin {i, j} BY <1>1, <2>1, <2>3
  <2> QED BY <2>2, <2>3
<1>7. Tidy(c)
  <2>1. 0 \in Entries /\ Bottom(b) /\ InArena(b, i)
    BY AllocAssumption DEF Entries, Tidy, FreeBlock
  <2>2. 0 # j BY <1>0, <2>1, AllocAssumption DEF Bottom, InArena, Ends, FreeBlock
  <2>3. Bottom(c) BY <1>0, <1>1, <2>1, <2>2 DEF Bottom
  <2> QED BY <1>1, <1>3, <1>4, <1>5, <1>6, <2>3 DEF Tidy
<1>8. FreeBlock(c, i) BY <1>0, <1>1 DEF FreeBlock
<1>9. \A e \in Entries \ {i} : FreeBlock(c, e) => e # j /\ FreeBlock(b, e) /\ c[e] = b[e]
  BY <1>1 DEF FreeBlock
<1>10. MergedBut(c, i) BY <1>9 DEF MergedBut, Ends
<1>11. \A e \in Entries \ {i} : FreeBlock(c, e) =>
         (Ends(c, e, i) => Ends(b, e, i)) /\ (Ends(c, i, e) => Ends(b, j, e))
  BY <1>0, <1>1, <1>9 DEF Ends
<1>12. k = i => NoneAbove(c, i) /\ (NoneBelow(b, k) => NoneBelow(c, i))
  BY <1>9, <1>11 DEF MergedBut, NoneAbove, NoneBelow
<1>13. k = j => NoneBelow(c, i) /\ (NoneAbove(b, k) => NoneAbove(c, i))
  BY <1>9, <1>11 DEF MergedBut, NoneAbove, NoneBelow
<1> QED BY <1>2, <1>7, <1>8, <1>10, <1>12, <1>13

\* The blocks in use are the same in two tables.
SameUsed(b, c) ==
    \A e \in Entries : (c[e].used <=> b[e].used) /\ (b[e].used => c[e] = b[e])

\* One turn of the coalescing loop: it merges the free neighbour on one side for
\* good, and leaves the other side as it was.
LEMMA MergeLemma ==
    ASSUME NEW b, Tidy(b), NEW i \in Entries, FreeBlock(b, i), MergedBut(b, i)
    PROVE  \E c, k :
             /\ Merge([blocks |-> b, at |-> i]) = [blocks |-> c, at |-> k]
             /\ k \in Entries /\ Tidy(c) /\ FreeBlock(c, k) /\ MergedBut(c, k)
             /\ SameUsed(b, c)
             /\ \/ NoneBelow(c, k) /\ NoneAbove(c, k)
                \/ /\ ~NoneBelow(b, i) /\ NoneBelow(c, k)
                   /\ NoneAbove(b, i) => NoneAbove(c, k)
                \/ /\ ~NoneAbove(b, i) /\ NoneAbove(c, k)
                   /\ NoneBelow(b, i) => NoneBelow(c, k)
<1> DEFINE N == Neighbours(b, i)
           j == Min(N)
<1>0. Merge([blocks |-> b, at |-> i]) =
        IF N = {} THEN [blocks |-> b, at |-> i]
        ELSE IF Ends(b, j, i) THEN [blocks |-> Absorb(b, j, i), at |-> j]
        ELSE [blocks |-> Absorb(b, i, j), at |-> i]
  BY DEF Merge
<1>1. N \subseteq Entries BY DEF Neighbours
<1>2. CASE N = {}
  <2>1. NoneBelow(b, i) /\ NoneAbove(b, i)
    BY <1>2 DEF Neighbours, NoneBelow, NoneAbove, FreeBlock
  <2>2. SameUsed(b, b) BY DEF SameUsed
  <2>3. Merge([blocks |-> b, at |-> i]) = [blocks |-> b, at |-> i] BY <1>0, <1>2
  <2> QED BY <2>1, <2>2, <2>3
<1>3. CASE N # {}
  <2>1. j \in N BY <1>1, <1>3, MinEntry
  <2>2. j \in Entries /\ j # i /\ FreeBlock(b, j) /\ (Ends(b, j, i) \/ Ends(b, i, j))
    BY <2>1 DEF Neighbours, FreeBlock
  <2> HIDE DEF j, N
  <2>3. CASE Ends(b, j, i)
    <3> DEFINE c == Absorb(b, j, i)
    <3>1. Merge([blocks |-> b, at |-> i]) = [blocks |-> c, at |-> j] BY <1>0, <1>3, <2>3
    <3>2. /\ Tidy(c) /\ FreeBlock(c, j) /\ MergedBut(c, j)
          /\ NoneBelow(c, j) /\ (NoneAbove(b, i) => NoneAbove(c, j))
          /\ SameUsed(b, c)
      BY <2>2, <2>3, AbsorbLemma DEF SameUsed
    <3>3. ~NoneBelow(b, i) BY <2>2, <2>3 DEF NoneBelow
    <3> HIDE DEF c
    <3> QED BY <2>2, <3>1, <3>2, <3>3
  <2>4. CASE ~Ends(b, j, i)
    <3> DEFINE c == Absorb(b, i, j)
    <3>0. Ends(b, i, j) BY <2>2, <2>4
    <3>1. Merge([blocks |-> b, at |-> i]) = [blocks |-> c, at |-> i] BY <1>0, <1>3, <2>4
    <3>2. /\ Tidy(c) /\ FreeBlock(c, i) /\ MergedBut(c, i)
          /\ NoneAbove(c, i) /\ (NoneBelow(b, i) => NoneBelow(c, i))
          /\ SameUsed(b, c)
      BY <2>2, <3>0, AbsorbLemma DEF SameUsed
    <3>3. ~NoneAbove(b, i) BY <2>2, <3>0 DEF NoneAbove
    <3> HIDE DEF c
    <3> QED BY <3>1, <3>2, <3>3
  <2> QED BY <2>3, <2>4, Zenon
<1> QED BY <1>2, <1>3

\* Two turns of the loop merge whatever touches the released block.
LEMMA CoalesceLemma ==
    ASSUME NEW b, Tidy(b), NEW i \in Entries, FreeBlock(b, i), MergedBut(b, i)
    PROVE  /\ Tidy(Coalesce(b, i)) /\ Merged(Coalesce(b, i))
           /\ SameUsed(b, Coalesce(b, i))
<1>1. PICK c, k :
             /\ Merge([blocks |-> b, at |-> i]) = [blocks |-> c, at |-> k]
             /\ k \in Entries /\ Tidy(c) /\ FreeBlock(c, k) /\ MergedBut(c, k)
             /\ SameUsed(b, c)
             /\ NoneBelow(c, k) \/ NoneAbove(c, k)
  BY MergeLemma, Zenon
<1>2. PICK d, l :
             /\ Merge([blocks |-> c, at |-> k]) = [blocks |-> d, at |-> l]
             /\ l \in Entries /\ Tidy(d) /\ FreeBlock(d, l) /\ MergedBut(d, l)
             /\ SameUsed(c, d)
             /\ NoneBelow(d, l) /\ NoneAbove(d, l)
  <2>1. PICK d, l :
             /\ Merge([blocks |-> c, at |-> k]) = [blocks |-> d, at |-> l]
             /\ l \in Entries /\ Tidy(d) /\ FreeBlock(d, l) /\ MergedBut(d, l)
             /\ SameUsed(c, d)
             /\ \/ NoneBelow(d, l) /\ NoneAbove(d, l)
                \/ /\ ~NoneBelow(c, k) /\ NoneBelow(d, l)
                   /\ NoneAbove(c, k) => NoneAbove(d, l)
                \/ /\ ~NoneAbove(c, k) /\ NoneAbove(d, l)
                   /\ NoneBelow(c, k) => NoneBelow(d, l)
    BY <1>1, MergeLemma, Zenon
  <2> QED BY <1>1, <2>1
<1>3. Coalesce(b, i) = d BY <1>1, <1>2 DEF Coalesce
<1>4. Merged(d) BY <1>2 DEF Merged, MergedBut, NoneBelow, NoneAbove
<1>5. SameUsed(b, d) BY <1>1, <1>2 DEF SameUsed
<1> QED BY <1>2, <1>3, <1>4, <1>5

-----------------------------------------------------------------------------
(* The operations *)

\* The table of a fresh allocator is one free block.
LEMMA InitLemma ==
    LET b == cp32_mem_allocator_init
    IN  /\ Tidy(b) /\ Merged(b)
        /\ \A i \in Entries : ~b[i].used
<1> DEFINE b == cp32_mem_allocator_init
<1>1. /\ 0 \in Entries /\ b \in [Entries -> Block]
      /\ b[0].base = MemBase /\ b[0].size = MemSize
      /\ \A i \in Entries : ~b[i].used
      /\ \A i \in Entries \ {0} : b[i].size = 0
  BY AllocAssumption DEF cp32_mem_allocator_init, Entries, Block
<1> HIDE DEF b
<1>2. \A i \in Entries : b[i].size # 0 => InArena(b, i)
  BY <1>1, AllocAssumption DEF InArena
<1>3. \A c \in Arena : Covers(b[0], c)
  BY <1>1, AllocAssumption DEF Arena, Covers
<1>4. Tidy(b) BY <1>1, <1>2, <1>3, AllocAssumption DEF Tidy, Bottom
<1>5. Merged(b) BY <1>1 DEF Merged, FreeBlock
<1> QED BY <1>1, <1>4, <1>5 DEF b

\* A grant adds one region, of clicks nobody held, and a refusal adds none.
LEMMA AllocLemma ==
    ASSUME NEW b, Tidy(b), Merged(b), NEW n \in Nat \ {0}, NEW o \in Owner
    PROVE  LET c == cp32_mem_alloc(b, n, o).blocks
           IN  /\ Tidy(c) /\ Merged(c) /\ cp32_mem_alloc(b, n, o).base \in Nat
               /\ \A x \in Owner \ {o} : Held(c, x) = Held(b, x)
               /\ \/ c = b
                  \/ \E i \in Entries :
                       /\ c[i].used /\ ~b[i].used
                       /\ \A e \in Entries \ {i} :
                            (c[e].used <=> b[e].used) /\ (b[e].used => c[e] = b[e])
<1> DEFINE r == cp32_mem_alloc(b, n, o)
<1>0. b \in [Entries -> Block] /\ \A k \in Entries : b[k].base \in Nat /\ b[k].size \in Nat
  BY DEF Tidy, Block
<1>1. CASE Fits(b, n) = {} \/ Spare(b) = {}
  <2>1. r.blocks = b /\ r.base = 0 BY <1>1 DEF cp32_mem_alloc
  <2> QED BY <2>1
<1>2. CASE Fits(b, n) # {} /\ Spare(b) # {}
  <2> DEFINE i == Min(Fits(b, n))
             j == Min(Spare(b))
             c == Split(b, i, j, n, o)
  <2>1. Fits(b, n) \subseteq Entries /\ Spare(b) \subseteq Entries BY DEF Fits, Spare
  <2>2. i \in Fits(b, n) /\ j \in Spare(b) BY <1>2, <2>1, MinEntry
  <2>3. r.blocks = c /\ r.base = b[i].base BY <1>2 DEF cp32_mem_alloc
  <2> HIDE DEF i, j, r
  <2>4. i \in Entries /\ ~b[i].used /\ n <= b[i].size /\ j \in Entries /\ b[j].size = 0
    BY <1>0, <2>2 DEF Fits, Spare
  <2>5. Tidy(c) /\ Merged(c) BY <2>4, SplitLemma
  <2>6. i # j BY <1>0, <2>4
  <2>7. /\ c[i].owner = o /\ c[i].used /\ ~c[j].used
        /\ \A k \in Entries \ {i, j} : c[k] = b[k]
    BY <1>0, <2>4, <2>6, SplitFields
  <2> HIDE DEF c
  <2>8. ~b[j].used BY <2>4 DEF Tidy
  <2>9. \A e \in Entries \ {i} : (c[e].used <=> b[e].used) /\ (b[e].used => c[e] = b[e])
    BY <2>7, <2>8
  <2>10. \A x \in Owner \ {o} : Held(c, x) = Held(b, x)
    BY <2>4, <2>7, <2>8 DEF Held
  <2>11. r.base \in Nat BY <1>0, <2>3, <2>4, Zenon
  <2> QED BY <2>3, <2>4, <2>5, <2>7, <2>9, <2>10, <2>11 DEF r
<1> QED BY <1>1, <1>2

\* A release ends one region of the caller, or nothing happens.
LEMMA FreeLemma ==
    ASSUME NEW b, Tidy(b), Merged(b), NEW base \in Nat, NEW o \in Owner
    PROVE  LET c == cp32_mem_free(b, base, o).blocks
           IN  /\ Tidy(c) /\ Merged(c)
               /\ \A x \in Owner \ {o} : Held(c, x) = Held(b, x)
               /\ \/ c = b
                  \/ \E i \in Entries :
                       /\ b[i].used /\ ~c[i].used
                       /\ \A e \in Entries \ {i} :
                            (c[e].used <=> b[e].used) /\ (b[e].used => c[e] = b[e])
<1> DEFINE r == cp32_mem_free(b, base, o)
           i == Min(Holding(b, base))
           a == [b EXCEPT ![i].used = FALSE, ![i].owner = NoOwner]
<1>0. b \in [Entries -> Block] /\ \A k \in Entries : b[k] \in Block
  BY DEF Tidy
<1>1. CASE base = 0 \/ Holding(b, base) = {} \/ b[i].owner # o
  <2>1. r.blocks = b BY <1>1 DEF cp32_mem_free
  <2> QED BY <2>1
<1>2. CASE base # 0 /\ Holding(b, base) # {} /\ b[i].owner = o
  <2>1. Holding(b, base) \subseteq Entries BY DEF Holding
  <2>2. i \in Holding(b, base) BY <1>2, <2>1, MinEntry
  <2>3. r.blocks = Coalesce(a, i) BY <1>2 DEF cp32_mem_free
  <2>4. i \in Entries /\ b[i].used BY <2>2 DEF Holding
  <2> HIDE DEF i, r
  <2> DEFINE f == [[b[i] EXCEPT !.used = FALSE] EXCEPT !.owner = NoOwner]
  <2>5. f \in Block /\ f.base = b[i].base /\ f.size = b[i].size /\ ~f.used
    <3>1. b[i] \in Block BY <1>0, <2>4
    <3> QED BY <3>1, Zenon DEF Block
  <2>6. a = [b EXCEPT ![i] = f] BY <1>0, <2>4, Zenon
  <2> HIDE DEF a, f
  <2>7. a \in [Entries -> Block] /\ a[i] = f /\ \A k \in Entries \ {i} : a[k] = b[k]
    BY <1>0, <2>4, <2>5, <2>6
  <2>8. \A k \in Entries : a[k].base = b[k].base /\ a[k].size = b[k].size
    BY <2>5, <2>7
  <2>9. Tidy(a)
    <3>1. \A k \in Entries : a[k].used => a[k].size # 0 /\ a[k].owner \in Owner
      BY <2>5, <2>7 DEF Tidy
    <3>2. \A k \in Entries : a[k].size # 0 => InArena(a, k)
      BY <2>8 DEF Tidy, InArena
    <3>3. \A k, l \in Entries : k # l /\ a[k].size # 0 /\ a[l].size # 0 => Apart(a, k, l)
      BY <2>8 DEF Tidy, Apart
    <3>4. \A x \in Arena : \E k \in Entries : Covers(a[k], x)
      BY <2>8 DEF Tidy, Covers
    <3>5. Bottom(a)
      <4>1. 0 \in Entries BY AllocAssumption DEF Entries
      <4> QED BY <2>8, <4>1 DEF Tidy, Bottom
    <3> QED BY <2>7, <3>1, <3>2, <3>3, <3>4, <3>5 DEF Tidy
  <2>10. FreeBlock(a, i) BY <2>4, <2>5, <2>7 DEF FreeBlock, Tidy
  <2>11. MergedBut(a, i) BY <2>7 DEF MergedBut, Merged, FreeBlock, Ends
  <2> DEFINE c == Coalesce(a, i)
  <2>12. Tidy(c) /\ Merged(c) /\ SameUsed(a, c)
    BY <2>4, <2>9, <2>10, <2>11, CoalesceLemma
  <2> HIDE DEF c
  <2>13. ~c[i].used BY <2>4, <2>10, <2>12 DEF SameUsed, FreeBlock
  <2>14. \A e \in Entries \ {i} : (c[e].used <=> b[e].used) /\ (b[e].used => c[e] = b[e])
    BY <2>7, <2>12 DEF SameUsed
  <2>15. \A x \in Owner \ {o} : Held(c, x) = Held(b, x)
    BY <1>2, <2>4, <2>13, <2>14, Zenon DEF Held
  <2> QED BY <2>3, <2>4, <2>12, <2>13, <2>14, <2>15 DEF r, c
<1> QED BY <1>1, <1>2

-----------------------------------------------------------------------------
(* The inductive invariant *)

IInv ==
    /\ reply.base \in Nat
    /\ cp32_mem_allocator_ready \in BOOLEAN
    /\ cp32_mem_blocks \in [Entries -> Block]
    /\ cp32_mem_allocator_ready => Tidy(cp32_mem_blocks) /\ Merged(cp32_mem_blocks)
    /\ ~cp32_mem_allocator_ready =>
         \A i \in Entries : ~cp32_mem_blocks[i].used /\ cp32_mem_blocks[i].size = 0

\* The regions in use, seen from the entries, when one block was granted
\* (c after b) or, read backwards, returned.
OneMore(b, c) ==
    \E i \in Entries :
      /\ c[i].used /\ ~b[i].used
      /\ \A e \in Entries \ {i} : (c[e].used <=> b[e].used) /\ (b[e].used => c[e] = b[e])

\* What one request does to the table: the invariant survives, the memory of the
\* other processes stays, and at most one region comes or goes.
LEMMA RequestLemma ==
    ASSUME IInv, NEW source \in Owner, NEW a \in Argument, cp32_mm_handle_request(source, a)
    PROVE  /\ IInv'
           /\ \A x \in Owner \ {source} : Held(cp32_mem_blocks', x) = Held(cp32_mem_blocks, x)
           /\ \/ \A e \in Entries : /\ cp32_mem_blocks'[e].used <=> cp32_mem_blocks[e].used
                                    /\ cp32_mem_blocks[e].used
                                         => cp32_mem_blocks'[e] = cp32_mem_blocks[e]
              \/ Tidy(cp32_mem_blocks') /\ OneMore(cp32_mem_blocks, cp32_mem_blocks')
              \/ /\ \E i \in Entries :
                      /\ cp32_mem_blocks[i].used /\ ~cp32_mem_blocks'[i].used
                      /\ \A e \in Entries \ {i} :
                           /\ cp32_mem_blocks'[e].used <=> cp32_mem_blocks[e].used
                           /\ cp32_mem_blocks[e].used
                                => cp32_mem_blocks'[e] = cp32_mem_blocks[e]
                 /\ Tidy(cp32_mem_blocks)
<1> DEFINE b == cp32_mem_blocks
<1>0. a \in Nat BY AllocAssumption
<1>1. CASE BadRequest(a)
  <2>1. /\ b' = b /\ cp32_mem_allocator_ready' = cp32_mem_allocator_ready
        /\ reply'.base = a
    BY <1>1 DEF BadRequest
  <2>2. IInv' BY <1>0, <2>1 DEF IInv, Tidy, Merged, Bottom, InArena, Apart, FreeBlock, Ends, Covers
  <2> QED BY <2>1, <2>2
<1>2. CASE Allocate(source, a) /\ (a = 0 \/ a > MAX_CLICKS)
  <2>1. /\ b' = b /\ cp32_mem_allocator_ready' = cp32_mem_allocator_ready
        /\ reply'.base = 0
    BY <1>2 DEF Allocate
  <2>2. IInv' BY <2>1 DEF IInv, Tidy, Merged, Bottom, InArena, Apart, FreeBlock, Ends, Covers
  <2> QED BY <2>1, <2>2
<1>3. CASE Allocate(source, a) /\ ~(a = 0 \/ a > MAX_CLICKS)
  <2> DEFINE t == IF cp32_mem_allocator_ready THEN b ELSE cp32_mem_allocator_init
             c == cp32_mem_alloc(t, a, source).blocks
  <2>1. /\ b' = c /\ cp32_mem_allocator_ready' = TRUE
        /\ reply'.base = cp32_mem_alloc(t, a, source).base
    BY <1>3 DEF Allocate
  <2>2. Tidy(t) /\ Merged(t) BY InitLemma DEF IInv
  <2>3. /\ \A e \in Entries : (t[e].used <=> b[e].used) /\ (b[e].used => t[e] = b[e])
        /\ \A x \in Owner : Held(t, x) = Held(b, x)
    <3>1. \A e \in Entries : (t[e].used <=> b[e].used) /\ (b[e].used => t[e] = b[e])
      BY InitLemma DEF IInv
    <3> HIDE DEF t
    <3> QED BY <3>1 DEF Held
  <2>4. a \in Nat \ {0} BY <1>0, <1>3
  <2> HIDE DEF t
  <2>5. /\ Tidy(c) /\ Merged(c) /\ cp32_mem_alloc(t, a, source).base \in Nat
        /\ \A x \in Owner \ {source} : Held(c, x) = Held(t, x)
        /\ c = t \/ OneMore(t, c)
    BY <2>2, <2>4, AllocLemma DEF OneMore
  <2> HIDE DEF c
  <2>6. IInv' BY <2>1, <2>5 DEF IInv, Tidy, Merged, Bottom, InArena, Apart, FreeBlock, Ends, Covers
  <2>7. \A x \in Owner \ {source} : Held(b', x) = Held(b, x) BY <2>1, <2>3, <2>5, Zenon
  <2>8. CASE c = t BY <2>1, <2>3, <2>6, <2>7, <2>8
  <2>9. CASE OneMore(t, c)
    <3>1. OneMore(b, c) BY <2>3, <2>9 DEF OneMore
    <3> QED BY <2>1, <2>5, <2>6, <2>7, <3>1
  <2> QED BY <2>5, <2>8, <2>9, Zenon
<1>4. CASE Release(source, a) /\ ~cp32_mem_allocator_ready
  <2>1. Holding(b, a) = {} BY <1>4 DEF IInv, Holding
  <2>2. cp32_mem_free(b, a, source).blocks = b BY <2>1 DEF cp32_mem_free
  <2>3. /\ b' = b /\ cp32_mem_allocator_ready' = cp32_mem_allocator_ready
        /\ reply'.base = a
    BY <1>4, <2>2 DEF Release
  <2>4. IInv' BY <1>0, <2>3 DEF IInv, Tidy, Merged, Bottom, InArena, Apart, FreeBlock, Ends, Covers
  <2> QED BY <2>3, <2>4
<1>5. CASE Release(source, a) /\ cp32_mem_allocator_ready
  <2> DEFINE c == cp32_mem_free(b, a, source).blocks
  <2>1. /\ b' = c /\ cp32_mem_allocator_ready' = cp32_mem_allocator_ready
        /\ reply'.base = a
    BY <1>5 DEF Release
  <2>2. Tidy(b) /\ Merged(b) BY <1>5 DEF IInv
  <2>3. /\ Tidy(c) /\ Merged(c)
        /\ \A x \in Owner \ {source} : Held(c, x) = Held(b, x)
        /\ \/ c = b
           \/ \E i \in Entries :
                /\ b[i].used /\ ~c[i].used
                /\ \A e \in Entries \ {i} : (c[e].used <=> b[e].used) /\ (b[e].used => c[e] = b[e])
    BY <1>0, <2>2, FreeLemma
  <2> HIDE DEF c
  <2>4. IInv'
    BY <1>0, <1>5, <2>1, <2>3 DEF IInv, Tidy, Merged, Bottom, InArena, Apart, FreeBlock, Ends, Covers
  <2> QED BY <2>1, <2>2, <2>3, <2>4
<1> QED BY <1>1, <1>2, <1>3, <1>4, <1>5 DEF cp32_mm_handle_request

\* The invariant holds in every reachable state.
LEMMA Invariance == Spec => []IInv
<1>1. Init => IInv
  <2> SUFFICES ASSUME Init PROVE IInv OBVIOUS
  <2>1. \A i \in Entries : cp32_mem_blocks[i] = [base |-> 0, size |-> 0,
                                                owner |-> NoOwner, used |-> FALSE]
    BY DEF Init
  <2>2. cp32_mem_blocks \in [Entries -> Block] BY DEF Init, Block
  <2>3. ~cp32_mem_allocator_ready /\ cp32_mem_allocator_ready \in BOOLEAN BY Zenon DEF Init
  <2>4. reply.base \in Nat BY DEF Init
  <2> QED BY <2>1, <2>2, <2>3, <2>4 DEF IInv
<1>2. IInv /\ [Next]_vars => IInv'
  <2>1. IInv /\ Next => IInv' BY RequestLemma DEF Next
  <2>2. IInv /\ UNCHANGED vars => IInv'
    BY DEF IInv, vars, Tidy, Merged, Bottom, InArena, Apart, FreeBlock, Ends, Covers
  <2> QED BY <2>1, <2>2
<1> QED BY <1>1, <1>2, PTL DEF Spec

-----------------------------------------------------------------------------
(* The theorems *)

\* The table, its flag and the answers keep their types.
THEOREM AllocTypeCorrect == Spec => []TypeOK
<1>1. IInv => TypeOK BY DEF IInv, TypeOK
<1> QED BY <1>1, Invariance, PTL

\* cp32_mem_alloc and cp32_mem_free keep the blocks a partition of the arena,
\* whatever the sizes of table and arena and the order of the requests.
THEOREM PartitionCorrect == Spec => []BlocksPartitionArena
<1>1. ASSUME IInv PROVE BlocksPartitionArena
  <2> DEFINE b == cp32_mem_blocks
  <2> SUFFICES ASSUME cp32_mem_allocator_ready PROVE BlocksPartitionArena
    BY DEF BlocksPartitionArena
  <2>0. Tidy(b) /\ \A k \in Entries : b[k].base \in Nat /\ b[k].size \in Nat
    BY <1>1 DEF IInv, Block
  <2>1. \A i \in Entries : b[i].size # 0 => InArena(b, i) BY <2>0 DEF Tidy
  <2>2. ASSUME NEW c \in Arena
        PROVE  \E i \in Entries : Covers(b[i], c) /\ \A j \in Entries \ {i} : ~Covers(b[j], c)
    <3>1. PICK i \in Entries : Covers(b[i], c) BY <2>0 DEF Tidy
    <3>2. c \in Int BY AllocAssumption DEF Arena
    <3>3. ASSUME NEW j \in Entries \ {i}, Covers(b[j], c) PROVE FALSE
      <4>1. b[i].size # 0 /\ b[j].size # 0 BY <2>0, <3>1, <3>2, <3>3 DEF Covers
      <4>2. Apart(b, i, j) BY <2>0, <4>1 DEF Tidy
      <4> QED BY <2>0, <3>1, <3>2, <3>3, <4>2 DEF Apart, Covers
    <3> QED BY <3>1, <3>3
  <2> QED BY <2>1, <2>2 DEF BlocksPartitionArena, InArena
<1> QED BY <1>1, Invariance, PTL

\* The coalescing loop of cp32_mem_free leaves no two free blocks that touch.
THEOREM FreeBlocksAlwaysMerged == Spec => []FreeBlocksMerged
<1>1. IInv => FreeBlocksMerged
  BY DEF IInv, FreeBlocksMerged, Merged, FreeBlock
<1> QED BY <1>1, Invariance, PTL

\* No request changes the memory of a process other than its sender.
THEOREM MemoryIsPrivate == Spec => OthersKeepTheirMemory
<1>1. IInv /\ [Next]_vars =>
        [\A source \in Owner, a \in Argument :
           cp32_mm_handle_request(source, a) =>
             \A o \in Owner \ {source} :
               Held(cp32_mem_blocks', o) = Held(cp32_mem_blocks, o)]_vars
  BY RequestLemma
<1> QED BY <1>1, Invariance, PTL DEF Spec, OthersKeepTheirMemory

\* In a tidy table a run of free clicks lies in one free block.  Two blocks that
\* share the run would be free and touch.
LEMMA RunFits ==
    ASSUME NEW b, Tidy(b), Merged(b), NEW n \in Nat \ {0}, FreeRun(b, n)
    PROVE  Fits(b, n) # {}
<1>1. PICK first \in Arena :
        /\ first + n <= MemBase + MemSize
        /\ \A c \in Arena : Covers([base |-> first, size |-> n], c)
                              => \A o \in Owner : c \notin Held(b, o)
  BY DEF FreeRun
<1>2. \A k \in Entries : b[k].base \in Nat /\ b[k].size \in Nat BY DEF Tidy, Block
<1>3. first \in Nat /\ MemBase <= first /\ MemBase + MemSize \in Nat
  BY AllocAssumption DEF Arena
<1>4. ASSUME NEW c \in Arena, first <= c, c < first + n
      PROVE  \E k \in Entries : Covers(b[k], c) /\ FreeBlock(b, k)
  <2>1. \A o \in Owner : c \notin Held(b, o) BY <1>1, <1>4 DEF Covers
  <2>2. PICK k \in Entries : Covers(b[k], c) BY DEF Tidy
  <2>3. ~b[k].used BY <2>1, <2>2 DEF Tidy, Held
  <2>4. c \in Int BY AllocAssumption DEF Arena
  <2>5. b[k].size # 0 BY <1>2, <2>2, <2>4 DEF Covers
  <2> QED BY <2>2, <2>3, <2>5 DEF FreeBlock
<1>5. PICK i \in Entries : Covers(b[i], first) /\ FreeBlock(b, i) BY <1>3, <1>4
<1> DEFINE end == b[i].base + b[i].size
<1>6. end \in Nat /\ first < end /\ b[i].base <= first BY <1>2, <1>3, <1>5 DEF Covers
<1>7. CASE end < first + n
  <2>1. end \in Arena BY <1>1, <1>3, <1>6, <1>7, AllocAssumption DEF Arena
  <2>2. PICK j \in Entries : Covers(b[j], end) /\ FreeBlock(b, j)
    BY <1>3, <1>4, <1>6, <1>7, <2>1
  <2>3. i # j BY <1>2, <2>2 DEF Covers
  <2>4. Apart(b, i, j) BY <1>5, <2>2, <2>3, Zenon DEF Tidy, FreeBlock
  <2>5. Ends(b, i, j) BY <1>2, <1>5, <2>2, <2>4 DEF Apart, Covers, Ends, FreeBlock
  <2> QED BY <1>5, <2>2, <2>3, <2>5, Zenon DEF Merged
<1>8. CASE ~(end < first + n)
  <2>1. b[i].size >= n BY <1>2, <1>3, <1>6, <1>8
  <2> QED BY <1>5, <2>1 DEF Fits, FreeBlock
<1> QED BY <1>7, <1>8

\* cp32_mem_alloc refuses a request only when no run of free clicks is long
\* enough or the table is full, whatever its size and that of the arena.
THEOREM RefusalsAreJustified == Spec => RefusedOnlyWhenFull
<1> DEFINE Justified ==
      \A source \in Owner, clicks \in Argument \ {0} :
        /\ Allocate(source, clicks)
        /\ clicks <= MAX_CLICKS
        /\ reply'.type = "ENOMEM"
        => \/ ~FreeRun(cp32_mem_blocks, clicks)
           \/ \A i \in Entries : cp32_mem_blocks'[i].size # 0
<1>1. ASSUME IInv PROVE Justified
  <2> SUFFICES ASSUME NEW source \in Owner, NEW n \in Argument \ {0}, Allocate(source, n),
                      n <= MAX_CLICKS, reply'.type = "ENOMEM", FreeRun(cp32_mem_blocks, n)
               PROVE  \A i \in Entries : cp32_mem_blocks'[i].size # 0
    OBVIOUS
  <2> DEFINE b == IF cp32_mem_allocator_ready THEN cp32_mem_blocks ELSE cp32_mem_allocator_init
             r == cp32_mem_alloc(b, n, source)
  <2>1. n \in Nat \ {0} BY AllocAssumption
  <2>2. cp32_mem_blocks' = r.blocks /\ r.base = 0
    BY <2>1, AllocAssumption DEF Allocate
  <2>3. Tidy(b) /\ Merged(b) BY <1>1, InitLemma DEF IInv
  <2>4. FreeRun(b, n)
    <3>1. CASE cp32_mem_allocator_ready BY <3>1
    <3>2. CASE ~cp32_mem_allocator_ready
      <4>1. \A o \in Owner : Held(b, o) = {} BY <3>2, InitLemma DEF Held
      <4> QED BY <4>1 DEF FreeRun
    <3> QED BY <3>1, <3>2
  <2> HIDE DEF b
  <2>5. Fits(b, n) # {} BY <2>1, <2>3, <2>4, RunFits
  <2>6. CASE Spare(b) = {}
    <3>1. r.blocks = b BY <2>6 DEF cp32_mem_alloc
    <3>2. \A i \in Entries : b[i].size # 0 BY <2>3, <2>6 DEF Spare, Tidy, Bottom
    <3> QED BY <2>2, <3>1, <3>2, Zenon
  <2>7. CASE Spare(b) # {}
    <3> DEFINE i == Min(Fits(b, n))
    <3>1. Fits(b, n) \subseteq Entries BY DEF Fits
    <3>2. i \in Fits(b, n) BY <2>5, <3>1, MinEntry, Zenon
    <3>3. r.base = b[i].base BY <2>5, <2>7 DEF cp32_mem_alloc
    <3> HIDE DEF i, r
    <3>4. i \in Entries /\ b[i].size # 0
      <4>1. i \in Entries /\ b[i].size \in Nat /\ b[i].size >= n
        BY <2>3, <3>2 DEF Fits, Tidy, Block
      <4> QED BY <2>1, <4>1
    <3>5. b[i].base >= MemBase /\ b[i].base \in Nat BY <2>3, <3>4 DEF Tidy, InArena, Block
    <3> QED BY <2>2, <3>3, <3>5, AllocAssumption
  <2> QED BY <2>6, <2>7
<1>2. IInv => [Justified]_vars BY <1>1
<1> QED BY <1>2, Invariance, PTL DEF RefusedOnlyWhenFull

\* The table of blocks implements the abstract heap.
THEOREM AllocatorImplementsHeap == Spec => ImplementsHeap
<1>1. Init => Abstract!Init
  BY DEF Init, Abstract!Init, Regions
<1>2. IInv /\ [Next]_vars => [Abstract!Next]_(Regions(cp32_mem_blocks))
  <2> DEFINE b == cp32_mem_blocks
             R == Regions(cp32_mem_blocks)
  <2> SUFFICES ASSUME IInv, [Next]_vars PROVE Abstract!Next \/ R' = R
    OBVIOUS
  <2>1. CASE UNCHANGED vars BY <2>1 DEF vars, Regions
  <2>2. CASE Next
    <3>1. PICK source \in Owner, a \in Argument : cp32_mm_handle_request(source, a)
      BY <2>2 DEF Next
    <3>2. CASE \A e \in Entries : (b'[e].used <=> b[e].used) /\ (b[e].used => b'[e] = b[e])
      BY <3>2 DEF Regions
    <3>3. CASE Tidy(b') /\ OneMore(b, b')
      <4>1. PICK i \in Entries :
              /\ b'[i].used /\ ~b[i].used
              /\ \A e \in Entries \ {i} :
                   (b'[e].used <=> b[e].used) /\ (b[e].used => b'[e] = b[e])
        BY <3>3 DEF OneMore
      <4> DEFINE g == Region(b'[i])
      <4>2. R' = R \cup {g} BY <4>1, Zenon DEF Regions
      <4>3. /\ b'[i] \in Block /\ b'[i].base \in Nat /\ b'[i].size \in Nat \ {0}
            /\ b'[i].owner \in Owner /\ InArena(b', i)
        BY <3>3, <4>1 DEF Tidy, Block
      <4>4. g.base = b'[i].base /\ g.size = b'[i].size BY DEF Region
      <4>5. g \in Abstract!Region
        <5>1. b'[i].base \in Arena BY <4>3, AllocAssumption DEF InArena, Arena
        <5> QED BY <4>3, <5>1 DEF Abstract!Region, Region
      <4>6. Abstract!Clicks(g) \subseteq Arena
        BY <4>3, <4>4, AllocAssumption DEF Abstract!Clicks, InArena, Arena
      <4>7. \A x \in R : Abstract!Clicks(g) \cap Abstract!Clicks(x) = {}
        <5> SUFFICES ASSUME NEW x \in R PROVE Abstract!Clicks(g) \cap Abstract!Clicks(x) = {}
          OBVIOUS
        <5>1. PICK e \in Entries : b[e].used /\ x = Region(b[e]) BY DEF Regions
        <5>2. e # i /\ b'[e] = b[e] /\ b'[e].used BY <4>1, <5>1, Zenon
        <5>3. b'[e].size # 0 /\ b'[e].base \in Nat /\ b'[e].size \in Nat
          BY <3>3, <5>2, Zenon DEF Tidy, Block
        <5>4. Apart(b', i, e) BY <3>3, <4>3, <5>2, <5>3 DEF Tidy
        <5>5. x.base = b'[e].base /\ x.size = b'[e].size BY <5>1, <5>2 DEF Region
        <5> HIDE DEF g
        <5> QED BY <4>3, <4>4, <5>3, <5>4, <5>5 DEF Abstract!Clicks, Apart
      <4>8. g.base \in Abstract!Clicks(g) BY <4>3, <4>4 DEF Abstract!Clicks
      <4>9. g \in R' \ R BY <4>2, <4>7, <4>8
      <4> HIDE DEF g
      <4> QED BY <4>2, <4>5, <4>6, <4>7, <4>9, Zenon DEF Abstract!Next, Abstract!Grant
    <3>4. CASE /\ Tidy(b)
               /\ \E i \in Entries :
                    /\ b[i].used /\ ~b'[i].used
                    /\ \A e \in Entries \ {i} :
                         (b'[e].used <=> b[e].used) /\ (b[e].used => b'[e] = b[e])
      <4>1. PICK i \in Entries :
              /\ b[i].used /\ ~b'[i].used
              /\ \A e \in Entries \ {i} :
                   (b'[e].used <=> b[e].used) /\ (b[e].used => b'[e] = b[e])
        BY <3>4
      <4>2. \A e \in Entries \ {i} : b[e].used => Region(b[e]) # Region(b[i])
        <5> SUFFICES ASSUME NEW e \in Entries \ {i}, b[e].used, Region(b[e]) = Region(b[i])
                     PROVE  FALSE
          OBVIOUS
        <5>1. \A k \in {e, i} : b[k].size # 0 /\ b[k].base \in Nat /\ b[k].size \in Nat
          BY <3>4, <4>1, Zenon DEF Tidy, Block
        <5>2. Apart(b, i, e) BY <3>4, <4>1, <5>1 DEF Tidy
        <5>3. b[e].base = b[i].base BY DEF Region
        <5> QED BY <5>1, <5>2, <5>3 DEF Apart
      <4>3. R' = R \ {Region(b[i])} BY <4>1, <4>2 DEF Regions
      <4>4. Region(b[i]) \in R BY <4>1 DEF Regions
      <4> QED BY <4>3, <4>4 DEF Abstract!Next, Abstract!Return
    <3> QED BY <3>1, <3>2, <3>3, <3>4, RequestLemma
  <2> QED BY <2>1, <2>2
<1> QED BY <1>1, <1>2, Invariance, PTL DEF Spec, ImplementsHeap, Abstract!Spec
=============================================================================
