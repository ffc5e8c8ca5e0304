-------------------------------- MODULE Tty --------------------------------
(***************************************************************************)
(* The terminal task (kernel/tty.c): the console line with its input ring, *)
(* the reads, writes and ioctls it serves, the replies and later REVIVEs,  *)
(* and the timer tick that raises tty_events at any moment of its work.    *)
(*                                                                         *)
(* The task is preemptible: a step ends wherever an interrupt could change *)
(* what the next one reads.  The tick only touches tty_events, tty_min and *)
(* the timer list; everything else belongs to the task.  A reply is a      *)
(* blocking send, so no step of the task is taken while one is in the mail.*)
(***************************************************************************)
EXTENDS Integers, Sequences, FiniteSets

CONSTANTS
    Clients,        \* processes that call the task
    BufLen,         \* TTY_IN_BYTES
    MaxCount,       \* the largest read
    Batch,          \* key events taken in one poll (eight)
    MaxOpens,       \* opens of the line
    MaxTicks,       \* ticks during one round of the task
    Sessions        \* what is typed and asked for: the records of "session"

VARIABLE session

Unmappable == session.unmappable    \* callers whose buffers may lose their mapping
Requests == session.requests        \* the requests each caller makes, see Ops
Attributes == session.attributes    \* the attributes TCSETS may install
Keys == session.keys                \* the characters that are typed
DisplayStates == session.display    \* whether the display may come up faulty

Ops == {"read", "readnb", "write", "writenb", "getattr", "setattr", "setattrw",
        "setattrf", "drain", "flush", "stop", "start", "open", "close", "cancel",
        "other"}

Waits == {"setattrw", "setattrf", "drain"}

AllKeys == UNION {s.keys : s \in Sessions}

ASSUME TtyAssumption ==
    /\ BufLen \in Nat \ {0}
    /\ MaxCount \in Nat \ {0}
    /\ \A s \in Sessions :
          /\ s.requests \in [Clients -> SUBSET Ops]
          /\ s.unmappable \subseteq Clients
          /\ s.display \subseteq BOOLEAN
          /\ \A a \in s.attributes : a.vmin < BufLen   \* c_cc[VMIN] is a byte
          /\ \A c, e \in Clients :        \* FS alone asks to wait for the output
                s.requests[c] \cap Waits # {} /\ s.requests[e] \cap Waits # {} => c = e

VARIABLES tty, pc, ret, cur, drained, client, int, mapped, faulted, ticks

work == <<tty, pc, ret, cur, drained, client, int, mapped, faulted, ticks>>

vars == <<session, work>>

(* What the properties tell apart of a termios; b0 is an output speed of B0. *)
Default == [icanon |-> TRUE, ixon |-> TRUE, vmin |-> 1, vtime |-> 0, b0 |-> FALSE]

Nul == [ch |-> "nul", eot |-> FALSE, eof |-> FALSE]

Cells == [ch : AllKeys \cup {"nul"}, eot : BOOLEAN, eof : BOOLEAN]

Nobody == "nobody"

NoRequest == [op |-> "none", n |-> 0, attr |-> Default, whom |-> Nobody]

---------------------------------------------------------------------------
(* The line.  "mail" is the message the task is sending. *)

Mail(type, to, status, n) == <<[type |-> type, to |-> to, status |-> status, n |-> n]>>

tty_reply(t, type, to, status) == [t EXCEPT !.mail = Mail(type, to, status, 0)]

(* The counted answer of a read, and the end of that read. *)
AnswerRead(t) ==
    [t EXCEPT !.mail = Mail(t.inrepcode, t.inproc, "count", Len(t.incum)),
              !.inleft = 0, !.incum = <<>>]

Slot(i) == i % BufLen

(* The queued cells, oldest first. *)
Queue(t) == [i \in 1..t.incount |-> t.inbuf[Slot(t.intail + i - 1)]]

Clear(t) ==
    [t EXCEPT !.incount = 0, !.eotct = 0, !.intail = t.inhead,
              !.inbuf = [i \in 0..BufLen - 1 |-> Nul]]

tty_icancel(t) == Clear(t)

settimer(t, on) == [t EXCEPT !.timer = on]

BreaksIn(q) == Cardinality({i \in DOMAIN q : q[i].eot})

BytesIn(q) == Cardinality({i \in DOMAIN q : ~q[i].eof})

takesPastBreaks(t, k) ==
    LET q == SubSeq(Queue(t), 1, k)
    IN  /\ BytesIn(q) < t.inleft
        /\ k < t.incount
        /\ BreaksIn(q) < t.eotct

(* Taking goes on while bytes are wanted and a line break is queued; in   *)
(* canonical mode the first break ends it.                                 *)
TakeMore(t, k) ==
    LET q == SubSeq(Queue(t), 1, k)
    IN  /\ BytesIn(q) < t.inleft
        /\ k < t.incount
        /\ BreaksIn(q) < t.eotct
        /\ ~(t.attr.icanon /\ BreaksIn(q) > 0)

Taken(t) ==
    CHOOSE k \in 0..t.incount :
        ~TakeMore(t, k) /\ \A j \in 0..k - 1 : TakeMore(t, j)

in_transfer(t) ==
    LET k == Taken(t)
        q == SubSeq(Queue(t), 1, k)
        chars == SelectSeq(q, LAMBDA c : ~c.eof)
        gone == {Slot(t.intail + i) : i \in 0..k - 1}
        ends == t.attr.icanon /\ BreaksIn(q) > 0
        moved == [t EXCEPT
                    !.inbuf = [i \in 0..BufLen - 1 |-> IF i \in gone THEN Nul ELSE @[i]],
                    !.intail = Slot(@ + k),
                    !.incount = @ - k,
                    !.eotct = @ - BreaksIn(q),
                    !.inleft = IF ends THEN 0 ELSE @ - BytesIn(q),
                    !.incum = @ \o [i \in 1..Len(chars) |-> chars[i].ch]]
    IN  IF t.inleft = 0 \/ t.eotct < t.min THEN t
        ELSE IF t.inproc \notin mapped
        THEN [tty_reply(t, t.inrepcode, t.inproc, "EFAULT")
                EXCEPT !.inleft = 0, !.incum = <<>>]
        ELSE IF moved.inleft = 0 THEN AnswerRead(moved) ELSE moved

LastCell(t) == t.inbuf[Slot(t.inhead + BufLen - 1)]

Erasable(t) == t.incount > 0 /\ ~LastCell(t).eot

(* The line without its last n cells. *)
Erased(t, n) ==
    LET gone == {Slot(t.inhead + BufLen - i) : i \in 1..n}
    IN  [t EXCEPT !.inhead = Slot(@ + BufLen - n), !.incount = @ - n,
                  !.inbuf = [i \in 0..BufLen - 1 |-> IF i \in gone THEN Nul ELSE @[i]]]

back_over(t) == IF Erasable(t) THEN Erased(t, 1) ELSE t

(* KILL: back_over until it refuses. *)
KillLine(t) ==
    Erased(t, CHOOSE n \in 0..t.incount :
                  ~Erasable(Erased(t, n)) /\ \A m \in 0..n - 1 : Erasable(Erased(t, m)))

sigchar(t) == [Clear(t) EXCEPT !.inhibited = FALSE, !.events = TRUE]

Stored(t, cell) ==
    LET raw == ~t.attr.icanon
        timed == raw /\ t.attr.vmin > 0 /\ t.attr.vtime > 0
        c == [cell EXCEPT !.eot = @ \/ raw]
        full == t.incount = BufLen
        kept == [t EXCEPT !.inbuf[t.inhead] = c, !.inhead = Slot(@ + 1),
                          !.incount = @ + 1, !.eotct = @ + IF c.eot THEN 1 ELSE 0]
    IN  IF full THEN t
        ELSE IF timed THEN settimer(kept, TRUE) ELSE kept

(* What a character means once it is not an escape: IXON, then ISIG, then  *)
(* the queue.  A character protected by LNEXT compares equal to nothing.   *)
Controls(t, k, cell) ==
    LET resumed == [t EXCEPT !.inhibited = FALSE, !.events = TRUE]
    IN  IF t.attr.ixon /\ k = "stop" THEN [t EXCEPT !.inhibited = TRUE, !.events = TRUE]
        ELSE IF t.attr.ixon /\ k = "start" /\ t.inhibited THEN resumed
        ELSE IF k = "intr" THEN sigchar(t)
        ELSE Stored(t, cell)

in_process(t, k) ==
    LET cell == [ch |-> k, eot |-> t.attr.icanon /\ k \in {"nl", "eof"},
                 eof |-> t.attr.icanon /\ k = "eof"]
    IN  IF t.escaped
        THEN Stored([t EXCEPT !.escaped = FALSE], [ch |-> k, eot |-> FALSE, eof |-> FALSE])
        ELSE IF k = "lnext" THEN [t EXCEPT !.escaped = TRUE]
        ELSE IF k = "reprint" THEN t
        ELSE IF t.attr.icanon /\ k = "erase" THEN back_over(t)
        ELSE IF t.attr.icanon /\ k = "kill" THEN KillLine(t)
        ELSE Controls(t, k, cell)

EffectiveMin(a) ==
    IF a.icanon THEN 1 ELSE IF a.vmin = 0 /\ a.vtime > 0 THEN 1 ELSE a.vmin

setattr(t) ==
    LET raw == ~t.attr.icanon
        used == {Slot(t.intail + i) : i \in 0..t.incount - 1}
        broken == [t EXCEPT
                    !.eotct = IF raw THEN t.incount ELSE @,
                    !.inbuf = [i \in 0..BufLen - 1 |->
                                 IF raw /\ i \in used THEN [@[i] EXCEPT !.eot = TRUE]
                                                      ELSE @[i]]]
        timed == [settimer(broken, FALSE) EXCEPT !.min = EffectiveMin(t.attr)]
        ready == IF t.attr.ixon THEN timed
                 ELSE [timed EXCEPT !.inhibited = FALSE, !.events = TRUE]
    IN  IF t.attr.b0 THEN sigchar(ready) ELSE ready

Install(t, a) == setattr([t EXCEPT !.attr = a])

dev_ioctl(t) ==
    LET t1 == IF t.ioreq.op = "setattrf" THEN tty_icancel(t) ELSE t
        t2 == IF t.ioreq.op = "drain" THEN t ELSE Install(t1, t.ioreq.attr)
    IN  IF t.outleft > 0 \/ t.ioreq.op = "none" THEN t
        ELSE [tty_reply(t2, "REVIVE", t.ioproc, "OK") EXCEPT !.ioreq = NoRequest]

cp32_console_write(t) ==
    LET status == IF faulted THEN "EIO"
                  ELSE IF t.outproc \notin mapped THEN "EFAULT" ELSE "count"
    IN  IF t.outleft = 0 \/ t.inhibited THEN t
        ELSE [tty_reply(t, t.outrepcode, t.outproc, status) EXCEPT !.outleft = 0]

---------------------------------------------------------------------------
(* The task. *)

Free == tty.mail = <<>>         \* the task is not blocked in a send

Goto(label) == pc' = label

Events(then) ==                 \* call handle_events, then go on at "then"
    /\ pc' = "events"
    /\ ret' = then

TtyOnly == UNCHANGED <<client, int, mapped, faulted>>

(* The loop looks at tty_events before it receives. *)
Loop ==
    /\ Free /\ pc = "main"
    /\ IF tty.events THEN Events("main") ELSE Goto("receive") /\ UNCHANGED ret
    /\ ticks' = IF tty.events THEN ticks ELSE 0
    /\ TtyOnly /\ UNCHANGED <<tty, cur, drained>>

StartEvents ==
    /\ Free /\ pc = "events"
    /\ tty' = [tty EXCEPT !.events = FALSE]
    /\ drained' = 0
    /\ Goto("devread")
    /\ TtyOnly /\ UNCHANGED <<ret, cur, ticks>>

(* One key event of the batch, whatever was typed, goes through in_process *)
(* and is gone from the controller; a full queue is offered to the reader  *)
(* at once.                                                                *)
cp32_console_read ==
    /\ Free /\ pc = "devread"
    /\ drained < Batch
    /\ \E k \in Keys : tty' = in_process(tty, k)
    /\ drained' = drained + 1
    /\ Goto(IF tty'.incount = BufLen /\ tty'.incount > tty.incount
            THEN "overflow" ELSE "devread")
    /\ UNCHANGED <<ret, cur, client, int, mapped, faulted, ticks>>

Overflow ==
    /\ Free /\ pc = "overflow"
    /\ tty' = in_transfer(tty)
    /\ Goto("devread")
    /\ TtyOnly /\ UNCHANGED <<ret, cur, drained, ticks>>

(* The poll ends when nothing is left, the bus fails or the batch is full. *)
PollEnds ==
    /\ Free /\ pc = "devread"
    /\ drained' = 0
    /\ Goto("devwrite")
    /\ TtyOnly /\ UNCHANGED <<tty, ret, cur, ticks>>

DevWrite ==
    /\ Free /\ pc = "devwrite"
    /\ tty' = cp32_console_write(tty)
    /\ Goto("ioctl")
    /\ TtyOnly /\ UNCHANGED <<ret, cur, drained, ticks>>

DevIoctl ==
    /\ Free /\ pc = "ioctl"
    /\ tty' = dev_ioctl(tty)
    /\ Goto(IF tty'.events THEN "events" ELSE "transfer")
    /\ TtyOnly /\ UNCHANGED <<ret, cur, drained, ticks>>

Transfer ==
    /\ Free /\ pc = "transfer"
    /\ tty' = in_transfer(tty)
    /\ Goto("enough")
    /\ TtyOnly /\ UNCHANGED <<ret, cur, drained, ticks>>

Enough ==
    /\ Free /\ pc = "enough"
    /\ tty' = IF Len(tty.incum) >= tty.min /\ tty.inleft > 0 THEN AnswerRead(tty) ELSE tty
    /\ Goto(ret)
    /\ ret' = "main"
    /\ TtyOnly /\ UNCHANGED <<cur, drained, ticks>>

handle_events == StartEvents \/ cp32_console_read \/ Overflow \/ PollEnds
                    \/ DevWrite \/ DevIoctl \/ Transfer \/ Enough

(* do_read after its checks: the timers of MIN and TIME, then the queue.   *)
do_read(t, c, r) ==
    LET asked == [t EXCEPT !.inrepcode = "TASK_REPLY", !.inproc = c, !.inleft = r.n]
    IN  IF t.inleft > 0 THEN tty_reply(t, "TASK_REPLY", c, "EIO")
        ELSE IF r.n <= 0 THEN tty_reply(t, "TASK_REPLY", c, "EINVAL")
        ELSE IF c \notin mapped THEN tty_reply(t, "TASK_REPLY", c, "EFAULT")
        ELSE IF t.attr.icanon \/ t.attr.vtime = 0 THEN asked
        ELSE IF t.attr.vmin = 0 THEN [settimer(asked, TRUE) EXCEPT !.min = 1]
        ELSE IF t.eotct = 0 THEN [settimer(asked, FALSE) EXCEPT !.min = t.attr.vmin]
        ELSE asked

do_write(t, c, r) ==
    IF t.outleft > 0 THEN tty_reply(t, "TASK_REPLY", c, "EIO")
    ELSE IF r.n <= 0 THEN tty_reply(t, "TASK_REPLY", c, "EINVAL")
    ELSE IF c \notin mapped THEN tty_reply(t, "TASK_REPLY", c, "EFAULT")
    ELSE [t EXCEPT !.outrepcode = "TASK_REPLY", !.outproc = c, !.outleft = r.n]

(* "getattr" stands for every request that leaves the line as it is, and   *)
(* "flush" for those that drop its input (the console cancels no output).  *)
do_ioctl(t, c, r) ==
    LET ok(u) == tty_reply(u, "TASK_REPLY", c, "OK")
        waits == r.op \in Waits /\ t.outleft > 0
    IN  IF r.op # "drain" /\ c \notin mapped THEN tty_reply(t, "TASK_REPLY", c, "EFAULT")
        ELSE IF waits
        THEN [tty_reply(t, "TASK_REPLY", c, "SUSPEND") EXCEPT !.ioreq = r, !.ioproc = c]
        ELSE IF r.op \in {"getattr", "drain"} THEN ok(t)
        ELSE IF r.op \in {"setattr", "setattrw"} THEN ok(Install(t, r.attr))
        ELSE IF r.op = "setattrf" THEN ok(Install(tty_icancel(t), r.attr))
        ELSE IF r.op = "flush" THEN ok(tty_icancel(t))
        ELSE ok([t EXCEPT !.inhibited = (r.op = "stop"), !.events = TRUE])

do_open(t, c) == [tty_reply(t, "TASK_REPLY", c, "OK") EXCEPT !.openct = @ + 1]

do_close(t, c) ==
    LET t1 == [tty_reply(t, "TASK_REPLY", c, "OK") EXCEPT !.openct = @ - 1]
    IN  IF t1.openct = 0 THEN Install(tty_icancel(t1), Default) ELSE t1

R_BIT == 4
W_BIT == 2

Bit(mode, b) == (mode \div b) % 2 = 1

(* CANCEL's COUNT is a mode: which call of r.whom is to be forgotten.  A   *)
(* wait for the output to drain is forgotten under any mode.               *)
CancelsRead(t, r) == Bit(r.n, R_BIT) /\ t.inleft # 0 /\ t.inproc = r.whom
CancelsWrite(t, r) == Bit(r.n, W_BIT) /\ t.outleft # 0 /\ t.outproc = r.whom
CancelsWait(t, r) == t.ioreq.op # "none" /\ t.ioproc = r.whom

Cancels(t, r) == CancelsRead(t, r) \/ CancelsWrite(t, r) \/ CancelsWait(t, r)

do_cancel(t, c, r) ==
    LET t1 == IF CancelsRead(t, r)
              THEN [tty_icancel(t) EXCEPT !.inleft = 0, !.incum = <<>>] ELSE t
        t2 == IF CancelsWrite(t, r) THEN [t1 EXCEPT !.outleft = 0] ELSE t1
        t3 == IF CancelsWait(t, r) THEN [t2 EXCEPT !.ioreq = NoRequest] ELSE t2
    IN  tty_reply([t3 EXCEPT !.events = TRUE], "TASK_REPLY", c, "EINTR")

(* One request.  The sender of CANCEL answers the process whose call it    *)
(* cancels, so that client goes on; reads and writes continue in           *)
(* handle_events.                                                          *)
Dispatch(c) ==
    LET r == client[c].req
        waiting == [client EXCEPT ![c].st = "waiting"]
        failed == tty'.mail # <<>>
    IN  /\ Free /\ pc = "receive"
        /\ client[c].st = "sending"
        /\ client' = IF r.op = "cancel" /\ Cancels(tty, r)
                     THEN [waiting EXCEPT ![r.whom].st = "idle"] ELSE waiting
        /\ CASE r.op \in {"read", "readnb"} ->
                  /\ tty' = do_read(tty, c, r)
                  /\ Goto(IF failed THEN "main" ELSE "read")
                  /\ UNCHANGED ret
             [] r.op \in {"write", "writenb"} ->
                  /\ tty' = do_write(tty, c, r)
                  /\ IF failed THEN Goto("main") /\ UNCHANGED ret ELSE Events("writetail")
             [] r.op = "open" -> tty' = do_open(tty, c) /\ Goto("main") /\ UNCHANGED ret
             [] r.op = "close" -> tty' = do_close(tty, c) /\ Goto("main") /\ UNCHANGED ret
             [] r.op = "cancel" -> tty' = do_cancel(tty, c, r) /\ Goto("main") /\ UNCHANGED ret
             [] r.op = "other" -> /\ tty' = tty_reply(tty, "TASK_REPLY", c, "EINVAL")
                                  /\ Goto("main") /\ UNCHANGED ret
             [] OTHER -> tty' = do_ioctl(tty, c, r) /\ Goto("main") /\ UNCHANGED ret
        /\ cur' = IF pc' = "main" THEN Nobody ELSE c
        /\ UNCHANGED <<drained, int, mapped, faulted, ticks>>

(* do_read empties the queue before it polls the device ... *)
ReadQueue ==
    /\ Free /\ pc = "read"
    /\ tty' = in_transfer(tty)
    /\ Events("readtail")
    /\ TtyOnly /\ UNCHANGED <<cur, drained, ticks>>

readTailSuspendsAll ==
    /\ Free /\ pc = "readtail"
    /\ tty' = [tty_reply(tty, "TASK_REPLY", cur, "SUSPEND") EXCEPT !.inrepcode = "REVIVE"]
    /\ Goto("main")
    /\ cur' = Nobody
    /\ TtyOnly /\ UNCHANGED <<ret, drained, ticks>>

(* ... and a call that is not done by now is broken off or suspended. *)
ReadTail ==
    LET r == client[cur].req
    IN  /\ Free /\ pc = "readtail"
        /\ tty' = IF tty.inleft = 0 THEN tty
                  ELSE IF r.op = "readnb"
                  THEN [tty_reply(tty, "TASK_REPLY", cur, "EAGAIN")
                          EXCEPT !.inleft = 0, !.incum = <<>>]
                  ELSE [tty_reply(tty, "TASK_REPLY", cur, "SUSPEND")
                          EXCEPT !.inrepcode = "REVIVE"]
        /\ Goto("main")
        /\ cur' = Nobody
        /\ TtyOnly /\ UNCHANGED <<ret, drained, ticks>>

WriteTail ==
    LET r == client[cur].req
    IN  /\ Free /\ pc = "writetail"
        /\ tty' = IF tty.outleft = 0 THEN tty
                  ELSE IF r.op = "writenb"
                  THEN [tty_reply(tty, "TASK_REPLY", cur, "EAGAIN") EXCEPT !.outleft = 0]
                  ELSE [tty_reply(tty, "TASK_REPLY", cur, "SUSPEND")
                          EXCEPT !.outrepcode = "REVIVE"]
        /\ Goto("main")
        /\ cur' = Nobody
        /\ TtyOnly /\ UNCHANGED <<ret, drained, ticks>>

(* receive(ANY) takes a queued caller before a blocked interrupt. *)
HardInt ==
    /\ Free /\ pc = "receive"
    /\ int
    /\ \A c \in Clients : client[c].st # "sending"
    /\ int' = FALSE
    /\ Goto("main")
    /\ UNCHANGED <<tty, ret, cur, drained, client, mapped, faulted, ticks>>

tty_task ==
    \/ Loop
    \/ handle_events
    \/ \E c \in Clients : Dispatch(c)
    \/ ReadQueue
    \/ ReadTail
    \/ WriteTail
    \/ HardInt

---------------------------------------------------------------------------
(* The interrupt, the keyboard and the callers. *)

(* The timer interrupt asks for a poll; an expired TIME timer also lets    *)
(* the read end with what it has.                                          *)
cp32_tty_poll_tick ==
    /\ ticks < MaxTicks
    /\ ticks' = ticks + 1
    /\ tty' = [tty EXCEPT !.events = TRUE]
    /\ int' = TRUE
    /\ UNCHANGED <<pc, ret, cur, drained, client, mapped, faulted>>

tty_wakeup ==
    /\ tty.timer
    /\ tty' = [settimer(tty, FALSE) EXCEPT !.min = 0, !.events = TRUE]
    /\ int' = TRUE
    /\ UNCHANGED <<pc, ret, cur, drained, client, mapped, faulted, ticks>>

Sizes(op) ==
    IF op \in {"read", "readnb"} THEN 0..MaxCount
    ELSE IF op \in {"write", "writenb"} THEN 0..1
    ELSE IF op = "cancel" THEN {R_BIT, W_BIT} ELSE {1}

(* The send half of sendrec(TTY). *)
Call(c, op, n, a, whom) ==
    /\ client[c].st = "idle"
    /\ op \in {"setattr", "setattrw", "setattrf"} \/ a = Default
    /\ IF op = "cancel" THEN whom # c ELSE whom = c
    /\ op = "open" => tty.openct < MaxOpens
    /\ op = "close" => tty.openct > 0
    /\ op \in {"open", "close"} =>
          \A d \in Clients : client[d].req.op \notin {"open", "close"}
    /\ client' = [client EXCEPT ![c] =
                    [st |-> "sending", req |-> [op |-> op, n |-> n, attr |-> a, whom |-> whom]]]
    /\ UNCHANGED <<tty, pc, ret, cur, drained, int, mapped, faulted, ticks>>

(* The receive half, and the second receive after SUSPEND. *)
cp32_shell_tty_io(c) ==
    /\ tty.mail # <<>>
    /\ tty.mail[1].to = c
    /\ tty' = [tty EXCEPT !.mail = <<>>]
    /\ client' = [client EXCEPT ![c] =
                    IF tty.mail[1].status = "SUSPEND" THEN [@ EXCEPT !.st = "suspended"]
                    ELSE [st |-> "idle", req |-> NoRequest]]
    /\ UNCHANGED <<pc, ret, cur, drained, int, mapped, faulted, ticks>>

Remap(c) ==
    /\ c \in Unmappable
    /\ mapped' = IF c \in mapped THEN mapped \ {c} ELSE mapped \cup {c}
    /\ UNCHANGED <<tty, pc, ret, cur, drained, client, int, faulted, ticks>>

tty_init ==
    [inbuf |-> [i \in 0..BufLen - 1 |-> Nul], inhead |-> 0, intail |-> 0,
     incount |-> 0, eotct |-> 0, min |-> 1, attr |-> Default, timer |-> FALSE,
     escaped |-> FALSE, inhibited |-> FALSE, events |-> FALSE, openct |-> 0,
     inrepcode |-> "TASK_REPLY", inproc |-> Nobody, inleft |-> 0, incum |-> <<>>,
     outrepcode |-> "TASK_REPLY", outproc |-> Nobody, outleft |-> 0,
     ioreq |-> NoRequest, ioproc |-> Nobody, mail |-> <<>>]

Init ==
    /\ session \in Sessions
    /\ tty = tty_init
    /\ pc = "main"
    /\ ret = "main"
    /\ cur = Nobody
    /\ drained = 0
    /\ client = [c \in Clients |-> [st |-> "idle", req |-> NoRequest]]
    /\ int = FALSE
    /\ mapped = Clients
    /\ faulted \in DisplayStates
    /\ ticks = 0

Next ==
    /\ \/ tty_task
       \/ cp32_tty_poll_tick
       \/ tty_wakeup
       \/ \E c, whom \in Clients : \E op \in Requests[c] :
             \E n \in Sizes(op), a \in Attributes \cup {Default} : Call(c, op, n, a, whom)
       \/ \E c \in Clients : cp32_shell_tty_io(c) \/ Remap(c)
    /\ UNCHANGED session

Spec == Init /\ [][Next]_vars

---------------------------------------------------------------------------
(* Properties. *)

Labels == {"main", "receive", "events", "devread", "overflow", "devwrite", "ioctl",
           "transfer", "enough", "read", "readtail", "writetail"}

(* The line, the task's place in its loop and the callers have their types *)
(* (tty_t and the locals of tty_task).                                     *)
TypeOK ==
    /\ tty.inbuf \in [0..BufLen - 1 -> Cells]
    /\ tty.inhead \in 0..BufLen - 1 /\ tty.intail \in 0..BufLen - 1
    /\ tty.incount \in 0..BufLen /\ tty.eotct \in 0..BufLen
    /\ tty.inleft \in 0..MaxCount /\ Len(tty.incum) <= MaxCount
    /\ tty.openct \in 0..MaxOpens
    /\ pc \in Labels /\ ret \in Labels
    /\ \A c \in Clients : client[c].st \in {"idle", "sending", "waiting", "suspended"}

(* A caller gets one TASK_REPLY, and one REVIVE exactly if that reply was  *)
(* SUSPEND (the protocol cp32_shell_tty_io checks): a read finished by     *)
(* late input, by the timer, by cancel or by a full queue is answered once.*)
(* And a suspended caller is remembered by the line as one to revive: no   *)
(* path through do_read, do_write, do_ioctl or handle_events forgets it.   *)
OneAnswer ==
    /\ \A i \in 1..Len(tty.mail) :
           LET m == tty.mail[i]
           IN  /\ m.type = "TASK_REPLY" => client[m.to].st = "waiting"
               /\ m.type = "REVIVE" => client[m.to].st = "suspended" /\ m.status # "SUSPEND"
    /\ \A c \in Clients :
           client[c].st = "suspended" =>
               \/ tty.inleft > 0 /\ tty.inproc = c /\ tty.inrepcode = "REVIVE"
               \/ tty.outleft > 0 /\ tty.outproc = c /\ tty.outrepcode = "REVIVE"
               \/ tty.ioreq.op # "none" /\ tty.ioproc = c
               \/ tty.mail # <<>> /\ tty.mail[1].to = c

(* The request r, when it is answered OK, may drop the typed input. *)
Drops(r) ==
    \/ r.op \in {"flush", "setattrf"}
    \/ r.op = "close" /\ tty.openct = 1
    \/ r.op \in {"setattr", "setattrw"} /\ r.attr.b0

Line == INSTANCE TtyLine WITH
    Size <- BufLen, MaxAsk <- MaxCount, Cells <- Cells,
    line <- Queue(tty), canon <- tty.attr.icanon, want <- tty.inleft, got <- tty.incum,
    told <- IF Free THEN [status |-> "none", n |-> 0] ELSE tty.mail[1],
    typed <- IF pc = "devread" THEN Keys ELSE {}, quoted <- tty.escaped,
    alert <- tty.events,
    purge <- \/ pc = "receive" /\ \E c \in Clients :
                    client[c].st = "sending" /\ Drops(client[c].req)
             \/ pc = "ioctl" /\ Drops(tty.ioreq)

(* The ring, its counters and the transfer loop implement the queue that   *)
(* a reader is promised: bytes in order, once, up to one line break, with  *)
(* a reply that counts them.  Typed input is lost only to the editing keys *)
(* of canonical mode, to INTR, to a cancelled read and to a request that   *)
(* says so (tty_icancel, sigchar): no poll, transfer, timeout, failed copy *)
(* or request of another kind drops or repeats a character.                *)
ImplementsLine == Line!LineSpec

(* With ordinary characters typed, a poll in raw mode takes no event that  *)
(* it has no room for: in_process means to keep it with the device,        *)
(* "No space; discard in canonical mode, keep in raw mode." (tty.c:939).   *)
RawInputIsKept ==
    [][ (drained' > drained /\ ~tty.attr.icanon) => tty.incount < BufLen ]_vars

(* The scheduler runs every ready process; ticks go on; receive takes a    *)
(* queued caller first; a poll now and then finds no new key, since people *)
(* type slower than the task polls.                                        *)
Fairness ==
    /\ SF_work(drained = 0 /\ PollEnds)
    /\ WF_work(tty_task)
    /\ WF_work(cp32_tty_poll_tick)
    /\ WF_work(tty_wakeup)
    /\ \A c \in Clients : WF_work(cp32_shell_tty_io(c)) /\ SF_work(Dispatch(c))

FairSpec == Spec /\ Fairness

(* Every request is answered, with its result or with SUSPEND. *)
RequestsAreAnswered ==
    \A c \in Clients : client[c].st = "sending" ~> client[c].st \in {"idle", "suspended"}

Complete(c) ==
    /\ client[c].st = "suspended"
    /\ client[c].req.op = "read"
    /\ tty.eotct >= tty.min

(* A suspended read and the input it waits for do not stay side by side.   *)
InputReachesReader == \A c \in Clients : Complete(c) ~> ~Complete(c)
=============================================================================
