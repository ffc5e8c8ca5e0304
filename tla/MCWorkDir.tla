----------------------------- MODULE MCWorkDir -----------------------------
(* An instance of WorkDir: two names, one longer than the other. Requests   *)
(* give an absolute path of up to two names, a name in the working          *)
(* directory, its parent, or a name in its parent.                          *)
EXTENDS WorkDir, TLC

Lengths == "a" :> 1 @@ "bbb" :> 3
Paths ==
  [absolute : {TRUE}, path : {<<"a">>, <<"bbb">>, <<"a", "bbb">>, <<"bbb", "a">>,
                             <<"bbb", "bbb">>}]
    \cup [absolute : {FALSE}, path : {<<"bbb">>, <<"..">>, <<"..", "a">>}]

\* Nothing is written after a failed store, and a directory may have two names
\* after a move that was cut short: those states are checked, and left.
Goes == ~ro /\ ~cut
=============================================================================
