---------------------------- MODULE StableStore ----------------------------
(***************************************************************************)
(* What the root device promises to the file system, independent of card,  *)
(* sector buffer and block cache: one request at a time; a write that is    *)
(* acknowledged is on the medium and has touched nothing else; a write      *)
(* that is not may have left anything in the sectors it names, and after    *)
(* it the store takes no more writes until the next boot.                   *)
(***************************************************************************)
EXTENDS Integers

CONSTANTS Pos,          \* byte positions of the medium
          Val,          \* values of a byte
          MaxBytes,     \* bound: the longest write
          SameSector(_, _)  \* TRUE when two positions share a sector

VARIABLES disk,         \* [Pos -> Val]
          ro,           \* a write has failed since the last boot
          call,         \* the write being served, or NoCall
          doubt         \* positions a failed write may still change

NoCall == [new |-> <<>>, was |-> <<>>]

vars == <<disk, ro, call, doubt>>

Touched(new) == {p \in Pos : \E q \in DOMAIN new : SameSector(p, q)}

AgreeOutside(d, e, S) == \A p \in Pos \ S : d[p] = e[p]

Init == /\ disk \in [Pos -> Val]
        /\ ro = FALSE
        /\ call = NoCall
        /\ doubt = {}

\* A write is accepted: `new` gives the bytes of the positions it names.
Begin == /\ call = NoCall
         /\ ~ro
         /\ \E at \in Pos, n \in 1..MaxBytes :
              \E new \in [at..(at + n - 1) -> Val] :
                 call' = [new |-> new, was |-> disk]
         /\ UNCHANGED <<disk, ro, doubt>>

\* While it is served the sectors it names may hold anything.
Progress == /\ call # NoCall
            /\ disk' \in [Pos -> Val]
            /\ AgreeOutside(disk, disk', Touched(call.new))
            /\ UNCHANGED <<ro, call, doubt>>

\* Acknowledged: exactly the requested bytes differ from what was there.
Ack == /\ call # NoCall
       /\ disk' = [p \in Pos |-> IF p \in DOMAIN call.new THEN call.new[p]
                                                         ELSE call.was[p]]
       /\ call' = NoCall
       /\ UNCHANGED <<ro, doubt>>

\* Not acknowledged: read-only from here on, the sectors are in doubt.
Fail == /\ call # NoCall
        /\ disk' \in [Pos -> Val]
        /\ AgreeOutside(disk, disk', Touched(call.new))
        /\ ro' = TRUE
        /\ doubt' \subseteq Touched(call.new)
        /\ call' = NoCall

\* The medium finishes, late, a write that was reported as failed.
Late == /\ ro
        /\ disk' \in [Pos -> Val]
        /\ AgreeOutside(disk, disk', doubt)
        /\ doubt' \subseteq doubt
        /\ UNCHANGED <<ro, call>>

\* A synchronisation that the device refuses also ends the writes.
Refuse == /\ call = NoCall
          /\ ro' = TRUE
          /\ UNCHANGED <<disk, call, doubt>>

\* Power fails and comes back.
Reboot == /\ disk' \in [Pos -> Val]
          /\ AgreeOutside(disk, disk', Touched(call.new) \cup doubt)
          /\ ro' = FALSE
          /\ call' = NoCall
          /\ doubt' = {}

Next == Begin \/ Progress \/ Ack \/ Fail \/ Late \/ Refuse \/ Reboot

Spec == Init /\ [][Next]_vars
=============================================================================
