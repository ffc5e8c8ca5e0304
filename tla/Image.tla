------------------------------- MODULE Image -------------------------------
(***************************************************************************)
(* Program files: mm/image.c, which accepts or refuses the ELF header of a *)
(* program and copies its two segments to the fixed application slot, and  *)
(* mm/exec.c, which lays out the arguments at the top of its stack.        *)
(*                                                                         *)
(* A file is a record of its header fields.  magic stands for the          *)
(* identification, machine and table-size fields, kind for the type, the   *)
(* physical address and the access flags of a segment; the rest are words. *)
(* The words are unsigned and of 32 bits; every sum of the code is one of  *)
(* words the checks before it have bounded, so none of them wraps.         *)
(***************************************************************************)
EXTENDS Integers, Sequences

CONSTANTS CP32_APP_TEXT, CP32_APP_TEXT_END,               \* where the code goes
          CP32_APP_DATA, CP32_APP_STACK, CP32_APP_TOP,    \* data and heap, then stack
          StackArea,      \* bytes at the top of the stack for the arguments (512)
          VectorMax,      \* CP32_EXEC_VECTOR_MAX
          Environment     \* the lengths of the environment strings

EhdrSize == 52
PhdrSize == 32
Aligned(n) == n % 16 = 0

ASSUME LayoutAssumption ==
  /\ CP32_APP_TEXT \in Nat /\ CP32_APP_TEXT_END \in Nat /\ CP32_APP_TEXT < CP32_APP_TEXT_END
  /\ CP32_APP_DATA \in Nat /\ CP32_APP_STACK \in Nat /\ CP32_APP_TOP \in Nat
  /\ CP32_APP_DATA < CP32_APP_STACK /\ StackArea \in Nat \ {0}
  /\ CP32_APP_STACK + StackArea <= CP32_APP_TOP
  /\ Aligned(CP32_APP_STACK) /\ Aligned(CP32_APP_TOP) /\ Aligned(StackArea)
  /\ VectorMax \in Nat /\ Environment \in Seq(Nat)

Segment == [kind : BOOLEAN, offset : Nat, address : Nat, filesz : Nat, memsz : Nat, align : Nat]
File == [size : Nat, magic : BOOLEAN, phoff : Nat, entry : Nat, text : Segment, data : Segment]

---------------------------------------------------------------------------
(* cp32_image_read *)

HeaderOK(f) ==
  /\ f.size >= EhdrSize /\ f.magic
  /\ f.phoff >= EhdrSize /\ f.phoff <= f.size /\ f.size - f.phoff >= 2 * PhdrSize

PowerOfTwo(n) == \E e \in 0..n : n = 2^e

\* Segment s of f, to be loaded at base; code must have bytes in the file.
SegmentOK(f, s, base, limit) ==
  /\ s.kind /\ s.address = base
  /\ s.memsz # 0 /\ s.filesz <= s.memsz /\ s.memsz <= limit - s.address
  /\ s.offset >= f.phoff + 2 * PhdrSize /\ s.offset <= f.size
  /\ s.filesz <= f.size - s.offset
  /\ s.align > 1 => PowerOfTwo(s.align) /\ (s.address - s.offset) % s.align = 0

Overlap(s, t) == s.offset < t.offset + t.filesz /\ t.offset < s.offset + s.filesz

cp32_image_read(f) ==
  /\ HeaderOK(f)
  /\ SegmentOK(f, f.text, CP32_APP_TEXT, CP32_APP_TEXT_END) /\ f.text.filesz # 0
  /\ SegmentOK(f, f.data, CP32_APP_DATA, CP32_APP_STACK)
  /\ ~Overlap(f.text, f.data)
  /\ f.entry >= f.text.address /\ f.entry - f.text.address < f.text.filesz

\* The heap of a program starts at the first multiple of 16 behind its data.
RoundUp(n) == ((n + 15) \div 16) * 16
HeapFloor(f) == RoundUp(CP32_APP_DATA + f.data.memsz)

---------------------------------------------------------------------------
(* cp32_exec_stack, for argument strings of the given lengths *)

\* argc, the two vectors with their null words, and the strings.
StackBytes(lengths) ==
  LET total[n \in 0..Len(lengths)] ==
        IF n = 0 THEN (Len(lengths) + 3) * 4 ELSE total[n - 1] + lengths[n] + 1
  IN total[Len(lengths)]

\* Too many strings, or strings too long, are refused; else the stack pointer.
Refused == 0 - 2
cp32_exec_stack(arguments) ==
  LET strings == arguments \o Environment
      total == RoundUp(StackBytes(strings))
  IN IF Len(strings) > VectorMax \/ total > StackArea THEN Refused
     ELSE CP32_APP_TOP - total

=============================================================================
