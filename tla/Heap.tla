-------------------------------- MODULE Heap --------------------------------
(***************************************************************************)
(* What MM promises its clients: the regions it has granted and not taken   *)
(* back lie in the arena and share no click.                                *)
(***************************************************************************)
EXTENDS Integers

CONSTANTS
    Arena,      \* the clicks MM hands out
    Owner       \* the endpoints it hands them to

VARIABLE live   \* the regions granted and not returned

Region == [base : Arena, size : Nat \ {0}, owner : Owner]

Clicks(r) == r.base .. (r.base + r.size - 1)

Init == live = {}

Grant(r) ==
    /\ Clicks(r) \subseteq Arena
    /\ \A x \in live : Clicks(r) \cap Clicks(x) = {}
    /\ live' = live \cup {r}

Return(r) == live' = live \ {r}

Next ==
    \/ \E r \in live' \ live : r \in Region /\ Grant(r)
    \/ \E r \in live : Return(r)

Spec == Init /\ [][Next]_live
=============================================================================
