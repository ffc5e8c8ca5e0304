------------------------------- MODULE MCTty -------------------------------
(* Instances of the terminal task: the shell's own calls in canonical      *)
(* mode, and the task's whole interface with two callers and raw modes.    *)
EXTENDS Tty

Raw == [icanon |-> FALSE, ixon |-> TRUE, vmin |-> 1, vtime |-> 0, b0 |-> FALSE]
RawPair == [icanon |-> FALSE, ixon |-> FALSE, vmin |-> 2, vtime |-> 1, b0 |-> FALSE]
HangUp == [Default EXCEPT !.b0 = TRUE]
RawTimed == [icanon |-> FALSE, ixon |-> TRUE, vmin |-> 0, vtime |-> 1, b0 |-> FALSE]

Session(requests, keys, attributes) ==
    [requests |-> requests, keys |-> keys, attributes |-> attributes,
     unmappable |-> {}, display |-> {FALSE}]

Asks(fs, mm) == [c \in Clients |-> IF c = "fs" THEN fs ELSE mm]

(* The reads of cp32-shell.c, with the keys that edit a line. *)
Shell == Session(Asks({"read"}, {}), {"a", "nl", "erase", "eof", "lnext"}, {})

(* A second reader, whose buffer may be gone; signals and flow control. *)
Pair == [Session(Asks({"read", "write"}, {"read"}), {"nl", "intr", "stop", "start"}, {})
            EXCEPT !.unmappable = {"mm"}, !.display = {TRUE}]

(* Raw reads under MIN and TIME, while another caller changes the mode. *)
Modes == Session(Asks({"read", "readnb"}, {"setattr", "getattr", "cancel"}), {"a"},
                 {RawPair, RawTimed})

(* Writes held by STOP, and the requests that wait for them. *)
Drains == Session(Asks({"write", "writenb"},
                       {"setattrw", "setattrf", "drain", "flush", "stop", "start",
                        "open", "close", "cancel", "other"}),
                  {"kill"}, {Raw, HangUp})

AllSessions == {Shell, Pair, Modes, Drains}

(* For liveness, and for a queue that overflows in raw mode. *)
LiveSessions == {Session(Asks({"read", "write"}, {}), {"a", "nl", "erase", "stop", "start"}, {})}
RawSessions == {Session(Asks({"read", "setattr"}, {}), {"a"}, {Raw})}

(* Who last read, wrote or drained is never looked at once it is done. *)
Live(n, x) == IF n = 0 THEN Nobody ELSE x
View ==
    <<session,
      [tty EXCEPT !.inproc = Live(tty.inleft, @), !.inrepcode = Live(tty.inleft, @),
                  !.outproc = Live(tty.outleft, @), !.outrepcode = Live(tty.outleft, @),
                  !.ioproc = IF tty.ioreq.op = "none" THEN Nobody ELSE @],
      pc, ret, cur, drained, client, int, mapped, faulted, ticks>>
=============================================================================
