------------------------------ MODULE TtyLine ------------------------------
(***************************************************************************)
(* What a terminal line promises its reader, whatever ring, counters and   *)
(* flags keep it: typed characters form one queue, the unfinished end of   *)
(* which may still be edited; a read takes its bytes from the front, in    *)
(* order and once, and in canonical mode never looks past one line break.  *)
(***************************************************************************)
EXTENDS Integers, Sequences, FiniteSets

CONSTANTS Size,         \* the cells of the queue
          MaxAsk,       \* the largest read
          Cells         \* what a cell may hold: [ch, eot, eof]

VARIABLES line,         \* the typed characters not read yet
          canon,        \* the line is in canonical mode
          want,         \* the bytes the pending read still asks for
          got,          \* the bytes it was given
          told,         \* the message being sent to a caller: [status, n]
          typed,        \* the keys of which one may be taken now
          quoted,       \* the next key is an ordinary character
          alert,        \* the line is to be looked at again
          purge         \* a request to drop the input is at hand

(* The last five belong to the line's surroundings and change freely; they *)
(* are why a step may happen to the line.                                  *)
lineVars == <<line, canon, want, got>>

LineInit ==
    /\ line = <<>>
    /\ canon = TRUE
    /\ want = 0
    /\ got = <<>>

Finished(cells) == \E i \in 1..Len(cells) : cells[i].eot

(* The characters of some cells; an end of file is a break and no byte. *)
Bytes(cells) ==
    LET kept == SelectSeq(cells, LAMBDA c : ~c.eof)
    IN  [i \in 1..Len(kept) |-> kept[i].ch]

Type ==
    /\ Len(line) < Size
    /\ UNCHANGED <<canon, want, got>>
    /\ Len(line') = Len(line) + 1
    /\ \E c \in Cells : c.ch \in typed /\ line' = Append(line, c)

(* Only the end that holds no line break may be erased, by a key. *)
Erase(n) ==
    /\ canon /\ ~quoted
    /\ IF n = Len(line) - 1 THEN typed \cap {"erase", "kill"} # {} ELSE "kill" \in typed
    /\ n <= Len(line)
    /\ ~Finished(SubSeq(line, n + 1, Len(line)))
    /\ line' = SubSeq(line, 1, n)
    /\ UNCHANGED <<canon, want, got>>

(* The input is dropped by INTR, which has the line looked at again, and   *)
(* by a request that says so, once it is granted.                          *)
Flush ==
    /\ \/ "intr" \in typed /\ ~quoted /\ alert'
       \/ purge /\ told'.status = "OK"
    /\ line' = <<>>
    /\ UNCHANGED <<canon, want, got>>

(* Leaving canonical mode finishes what was typed, in order and complete. *)
SetMode(mode) ==
    /\ told'.status = "OK"
    /\ canon' = mode
    /\ \/ purge /\ line' = <<>>
       \/ line' = IF mode THEN line
                  ELSE [i \in 1..Len(line) |-> [line[i] EXCEPT !.eot = TRUE]]
    /\ UNCHANGED <<want, got>>

Ask(n) ==
    /\ want = 0
    /\ want' = n
    /\ got' = <<>>
    /\ UNCHANGED <<line, canon>>

(* The reader is given the first n cells, and is done (it is told how many *)
(* bytes it got, and got is empty again) or still waits for the rest.      *)
Give(n) ==
    LET front == SubSeq(line, 1, n)
    IN  /\ n <= Len(line)
        /\ want > 0
        /\ Finished(line)
        /\ Len(Bytes(front)) <= want
        /\ canon => ~Finished(SubSeq(line, 1, n - 1))
        /\ line' = SubSeq(line, n + 1, Len(line))
        /\ \/ /\ want' = 0
              /\ got' = <<>>
              /\ Finished(front) \/ Len(Bytes(front)) = want
              /\ told'.status = "count"
              /\ told'.n = Len(got) + Len(Bytes(front))
           \/ /\ want' = want - Len(Bytes(front))
              /\ want' > 0
              /\ got' = got \o Bytes(front)
              /\ ~canon
        /\ UNCHANGED canon

(* A read also ends without taking more: enough came, time ran out, its    *)
(* buffer is gone, or it would have to wait.  Only a cancelled read takes  *)
(* the typed input with it.                                                *)
EndRead ==
    /\ want > 0
    /\ want' = 0
    /\ got' = <<>>
    /\ line' = IF told'.status = "EINTR" THEN <<>> ELSE line
    /\ told'.status = "count" => told'.n = Len(got)
    /\ UNCHANGED canon

LineNext ==
    \/ Type
    \/ \E n \in 0..Size : Erase(n) \/ Give(n)
    \/ \E n \in 1..MaxAsk : Ask(n)
    \/ \E mode \in BOOLEAN : SetMode(mode)
    \/ Flush
    \/ EndRead

LineSpec == LineInit /\ [][LineNext]_lineVars
=============================================================================
