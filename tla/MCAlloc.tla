------------------------------ MODULE MCAlloc ------------------------------
(* The allocator on an arena of six clicks and a table of four entries. *)
EXTENDS Alloc, TLC

CONSTANTS FS, U

MCOwner == {FS, U}

MCArgument == 0 .. 7

\* The last answer decides nothing.
View == <<cp32_mem_blocks, cp32_mem_allocator_ready>>

Symmetry == Permutations(MCOwner)
=============================================================================
