------------------------------- MODULE Clock -------------------------------
(***************************************************************************)
(* The clock task (kernel/clock.c): uptime, the wall clock and the alarms, *)
(* beside the tick interrupt that counts ticks and looks at next_alarm     *)
(* while the task is rewriting it, and SYSTASK, which turns alarms off     *)
(* when a process exits or executes.                                       *)
(*                                                                         *)
(* The task can be preempted anywhere, so its loops over the process table *)
(* take one step per process.  Time is counted in ticks from boot.         *)
(***************************************************************************)
EXTENDS Integers

CONSTANTS
    NProcs,         \* process table slots, 0 .. NProcs - 1
    Callers,        \* processes that send requests
    Ops,            \* the requests they send
    Deltas,         \* the alarm delays they ask for, 0 turns an alarm off
    Times,          \* the times they set, in seconds
    HZ,             \* ticks in a second
    SCHED_RATE,     \* ticks in a quantum
    MaxTicks,       \* ticks after which uptime stands still, though interrupts come
    MaxDelta        \* the longest delay

ASSUME ClockAssumption ==
    /\ NProcs \in Nat \ {0} /\ HZ \in Nat \ {0} /\ SCHED_RATE \in Nat \ {0}
    /\ MaxTicks \in Nat /\ MaxDelta \in Nat
    /\ Deltas \subseteq 0..MaxDelta
    /\ Times \subseteq Nat

VARIABLES
    realtime, pending_ticks, next_alarm, p_alarm, boot_time, sched_ticks,
    pc,             \* where the task is
    i,              \* the slot that its loop is at
    seen,           \* the alarm its loop has just compared
    mc,             \* the message being served
    int,            \* p_int_blocked of CLOCK
    caller,         \* the request each caller waits with, or Nothing
    ticks,          \* history: ticks since boot
    due,            \* history: the tick before which the alarm is early
    missed          \* history: interrupts in a row that overlooked an expired alarm

vars == <<realtime, pending_ticks, next_alarm, p_alarm, boot_time, sched_ticks,
          pc, i, seen, mc, int, caller, ticks, due, missed>>

Procs == 0..NProcs - 1
Never == MaxTicks + MaxDelta + 1            \* LONG_MAX

(* What caller c may send now; a field that a request does not use is 0. *)
Requests(c) ==
    LET R(op, p, d, t) == [op |-> op, from |-> c, proc |-> p, delta |-> d, time |-> t,
                           sent |-> IF op \in {"SET_ALARM", "SET_SYNC_AL"} THEN ticks ELSE 0]
    IN  {r \in {R(op, 0, 0, 0) : op \in {"GET_UPTIME", "GET_TIME"}}
              \cup {R("SET_TIME", 0, 0, t) : t \in Times}
              \cup {R(op, p, d, 0) : op \in {"SET_ALARM", "SET_SYNC_AL"}, p \in Procs, d \in Deltas}
           : r.op \in Ops}
Nothing == [op |-> "none"]
HardInt == [op |-> "HARD_INT"]

Goto(label) == pc' = label

---------------------------------------------------------------------------
(* The interrupt. *)

handlerMissesEqual(now) == next_alarm < now

AlarmDue(now) == next_alarm <= now

Serving == pc # "receive" /\ pc # "blocked" /\ mc = HardInt

(* interrupt(CLOCK): a task blocked in receive gets the message at once.   *)
(* An interrupt held by "switching" is delivered by unhold in the same     *)
(* way (module Proc).                                                      *)
interrupt ==
    IF pc = "blocked" THEN mc' = HardInt /\ Goto("dispatch") /\ UNCHANGED int
                      ELSE int' = TRUE /\ UNCHANGED <<mc, pc>>

(* "ready" says whether another process is ready to run. *)
clock_handler(ready) ==
    LET tick == IF ticks < MaxTicks THEN 1 ELSE 0
        now == realtime + pending_ticks + tick
        told == AlarmDue(now) \/ (sched_ticks = 1 /\ ready)
        expired == \E p \in Procs : p_alarm[p] # 0 /\ p_alarm[p] <= now
    IN  /\ ticks' = ticks + tick
        /\ pending_ticks' = pending_ticks + tick
        /\ \/ told /\ interrupt /\ UNCHANGED sched_ticks
           \/ /\ ~told
              /\ sched_ticks' = IF sched_ticks = 1 THEN SCHED_RATE ELSE sched_ticks - 1
              /\ UNCHANGED <<int, mc, pc>>
        /\ missed' = IF tick = 1 /\ expired /\ ~told /\ ~int /\ ~Serving THEN missed + 1 ELSE 0
        /\ UNCHANGED <<realtime, next_alarm, p_alarm, boot_time, i, seen, caller, due>>

(* do_xit and do_exec of SYSTASK, cp32_proc_clone: the slot has no alarm.  *)
AlarmOff(p) ==
    /\ p_alarm[p] # 0
    /\ p_alarm' = [p_alarm EXCEPT ![p] = 0]
    /\ UNCHANGED <<realtime, pending_ticks, next_alarm, boot_time, sched_ticks, pc, i, seen, mc,
                   int, caller, ticks, due, missed>>

(* A caller's sendrec: handed over at once if the task is blocked. *)
Send(r) ==
    /\ caller[r.from] = Nothing
    /\ caller' = [caller EXCEPT ![r.from] = r]
    /\ IF pc = "blocked" THEN mc' = r /\ Goto("dispatch") ELSE UNCHANGED <<mc, pc>>
    /\ UNCHANGED <<realtime, pending_ticks, next_alarm, p_alarm, boot_time, sched_ticks,
                   i, seen, int, ticks, due, missed>>

---------------------------------------------------------------------------
(* The task. *)

TaskKeeps == UNCHANGED <<pending_ticks, ticks, missed>>

(* receive(ANY): queued callers, then a blocked interrupt, else it blocks. *)
Receive ==
    LET waiting == {c \in Callers : caller[c] # Nothing}
    IN  /\ pc = "receive"
        /\ \/ \E c \in waiting : mc' = caller[c] /\ Goto("dispatch") /\ UNCHANGED int
           \/ waiting = {} /\ int /\ mc' = HardInt /\ int' = FALSE /\ Goto("dispatch")
           \/ waiting = {} /\ ~int /\ Goto("blocked") /\ UNCHANGED <<mc, int>>
        /\ TaskKeeps
        /\ UNCHANGED <<realtime, next_alarm, p_alarm, boot_time, sched_ticks, i, seen, caller, due>>

(* The lock makes taking over the pending ticks one step. *)
cp32_clock_task_dispatch ==
    /\ pc = "dispatch"
    /\ realtime' = realtime + pending_ticks
    /\ pending_ticks' = 0
    /\ Goto(mc.op)
    /\ UNCHANGED <<next_alarm, p_alarm, boot_time, sched_ticks, i, seen, mc, int, caller,
                   ticks, due, missed>>

do_clocktick ==
    /\ pc = "HARD_INT"
    /\ IF next_alarm <= realtime
       THEN next_alarm' = Never /\ i' = 0 /\ Goto("scan")
       ELSE Goto("quantum") /\ UNCHANGED <<next_alarm, i>>
    /\ TaskKeeps
    /\ UNCHANGED <<realtime, p_alarm, boot_time, sched_ticks, mc, int, caller, seen, due>>

(* One slot of a loop: p_alarm is compared, and assigned to next_alarm    *)
(* from a second read or from the first, as the compiler chose; SYSTASK    *)
(* may have turned the alarm off between them.                             *)
compareStays(lower, stop) ==
    IF i = NProcs THEN Goto(stop) /\ i' = 0 /\ UNCHANGED seen
    ELSE IF p_alarm[i] # 0 /\ p_alarm[i] < next_alarm
    THEN seen' = p_alarm[i] /\ Goto(lower) /\ UNCHANGED i
    ELSE UNCHANGED <<i, seen, pc>>

Compare(lower, stop) ==
    IF i = NProcs THEN Goto(stop) /\ i' = 0 /\ UNCHANGED seen
    ELSE IF p_alarm[i] # 0 /\ p_alarm[i] < next_alarm
    THEN seen' = p_alarm[i] /\ Goto(lower) /\ UNCHANGED i
    ELSE i' = i + 1 /\ UNCHANGED <<seen, pc>>

Lower(loop) ==
    /\ next_alarm' \in {seen, p_alarm[i]}
    /\ seen' = 0 /\ i' = i + 1
    /\ Goto(loop)

(* An expired alarm fires, a later one may be the next. *)
Scan ==
    /\ \/ /\ pc = "scan"
          /\ IF i < NProcs /\ p_alarm[i] # 0 /\ p_alarm[i] <= realtime
             THEN Goto("fire") /\ UNCHANGED <<i, seen>>
             ELSE Compare("scan_lower", "quantum")
          /\ UNCHANGED next_alarm
       \/ pc = "scan_lower" /\ Lower("scan")
    /\ TaskKeeps
    /\ UNCHANGED <<realtime, p_alarm, boot_time, sched_ticks, mc, int, caller, due>>

(* cause_sig or the watchdog function. *)
Fire ==
    /\ pc = "fire"
    /\ p_alarm' = [p_alarm EXCEPT ![i] = 0]
    /\ i' = i + 1
    /\ Goto("scan")
    /\ TaskKeeps
    /\ UNCHANGED <<realtime, next_alarm, boot_time, sched_ticks, mc, int, caller, seen, due>>

Quantum ==
    /\ pc = "quantum"
    /\ sched_ticks' = IF sched_ticks = 1 THEN SCHED_RATE ELSE sched_ticks
    /\ mc' = Nothing
    /\ Goto("receive")
    /\ TaskKeeps
    /\ UNCHANGED <<realtime, next_alarm, p_alarm, boot_time, i, int, caller, seen, due>>

(* GET_UPTIME and GET_TIME only report. *)
do_get ==
    /\ pc \in {"GET_UPTIME", "GET_TIME"}
    /\ Goto("reply")
    /\ TaskKeeps
    /\ UNCHANGED <<realtime, next_alarm, p_alarm, boot_time, sched_ticks, i, mc, int, caller, seen, due>>

do_get_time == boot_time + realtime \div HZ

do_set_time ==
    /\ pc = "SET_TIME"
    /\ boot_time' = mc.time - realtime \div HZ
    /\ Goto("reply")
    /\ TaskKeeps
    /\ UNCHANGED <<realtime, next_alarm, p_alarm, sched_ticks, i, mc, int, caller, seen, due>>

alarmFromBefore(r) == IF r.delta = 0 THEN 0 ELSE realtime + r.delta - 1

AlarmTime(r) == IF r.delta = 0 THEN 0 ELSE realtime + r.delta

(* do_setalarm and do_setsyn_alrm differ in the function called. *)
common_setalarm ==
    /\ pc \in {"SET_ALARM", "SET_SYNC_AL"}
    /\ p_alarm' = [p_alarm EXCEPT ![mc.proc] = AlarmTime(mc)]
    /\ due' = [due EXCEPT ![mc.proc] = mc.sent + mc.delta]
    /\ Goto("reset")
    /\ TaskKeeps
    /\ UNCHANGED <<realtime, next_alarm, boot_time, sched_ticks, i, mc, int, seen, caller>>

Reset ==
    /\ pc = "reset"
    /\ next_alarm' = Never
    /\ i' = 0
    /\ Goto("recompute")
    /\ TaskKeeps
    /\ UNCHANGED <<realtime, p_alarm, boot_time, sched_ticks, mc, int, caller, seen, due>>

Recompute ==
    /\ \/ pc = "recompute" /\ Compare("recompute_lower", "reply") /\ UNCHANGED next_alarm
       \/ pc = "recompute_lower" /\ Lower("recompute")
    /\ TaskKeeps
    /\ UNCHANGED <<realtime, p_alarm, boot_time, sched_ticks, mc, int, caller, due>>

Reply ==
    /\ pc = "reply"
    /\ caller' = [caller EXCEPT ![mc.from] = Nothing]
    /\ mc' = Nothing
    /\ Goto("receive")
    /\ TaskKeeps
    /\ UNCHANGED <<realtime, next_alarm, p_alarm, boot_time, sched_ticks, i, int, seen, due>>

clock_task ==
    \/ Receive
    \/ cp32_clock_task_dispatch
    \/ do_clocktick \/ Scan \/ Fire \/ Quantum
    \/ do_get \/ do_set_time
    \/ common_setalarm \/ Reset \/ Recompute
    \/ Reply

Init ==
    /\ realtime = 0 /\ pending_ticks = 0 /\ ticks = 0
    /\ next_alarm = Never
    /\ p_alarm = [p \in Procs |-> 0]
    /\ boot_time = 0
    /\ sched_ticks = SCHED_RATE
    /\ pc = "receive" /\ i = 0 /\ seen = 0 /\ mc = Nothing
    /\ int = FALSE
    /\ caller = [c \in Callers |-> Nothing]
    /\ due = [p \in Procs |-> 0]
    /\ missed = 0

Next ==
    \/ \E ready \in BOOLEAN : clock_handler(ready)
    \/ clock_task
    \/ \E p \in Procs : AlarmOff(p)
    \/ \E c \in Callers : \E r \in Requests(c) : Send(r)

Spec == Init /\ [][Next]_vars

---------------------------------------------------------------------------
(* Properties. *)

Labels == {"receive", "blocked", "scan_lower", "recompute_lower",
           "dispatch", "HARD_INT", "GET_UPTIME", "GET_TIME", "SET_TIME",
           "SET_ALARM", "SET_SYNC_AL", "scan", "fire", "quantum", "reset", "recompute", "reply"}

(* The clock's counters are in range; the quantum is never left at zero. *)
TypeOK ==
    /\ realtime \in Nat /\ pending_ticks \in Nat /\ ticks \in Nat
    /\ next_alarm \in Int /\ boot_time \in Int
    /\ p_alarm \in [Procs -> Nat]
    /\ sched_ticks \in 1..SCHED_RATE
    /\ pc \in Labels
    /\ i \in 0..NProcs
    /\ int \in BOOLEAN

(* No tick is lost or counted twice between the interrupt and the task:    *)
(* get_uptime, realtime plus pending_ticks, is the number of ticks.        *)
UptimeIsExact == realtime + pending_ticks = ticks

(* An alarm fires, as a signal or a call, at the earliest when the delay   *)
(* has passed since its request was sent.                                  *)
NeverEarly == pc = "fire" => ticks >= due[i]

(* With the task waiting, no alarm lies before next_alarm, whatever exits, *)
(* re-arms and scans happened: the interrupt need not look further.        *)
NextAlarmIsFirst ==
    pc \in {"receive", "blocked"} => \A p \in Procs : p_alarm[p] # 0 => next_alarm <= p_alarm[p]

(* A tick that comes while the task waits never overlooks an expired alarm:*)
(* the task has the interrupt when the handler returns.                    *)
NoAlarmOverlooked ==
    [][(ticks' # ticks /\ pc \in {"receive", "blocked"}) =>
         \A p \in Procs : (p_alarm[p] # 0 /\ p_alarm[p] <= ticks') =>
            (int' \/ mc' = HardInt)]_vars

(* A tick that comes while the task recomputes next_alarm may overlook one,*)
(* and the next tick does not: "rare race only delays do_clocktick() by    *)
(* one tick" (clock.c:610).                                                *)
DelaysOneTick == missed <= 1

(* Ticks go on and the scheduler runs the task.  A request takes           *)
(* microseconds and a tick is 1/60 second, so ticks do not all come within *)
(* requests.  The one caller there is, FS, runs again only after a reply,  *)
(* so it is not queued at every receive.                                   *)
FairSpec ==
    /\ Spec
    /\ WF_vars(\E ready \in BOOLEAN : clock_handler(ready))
    /\ WF_vars(clock_task)
    /\ SF_vars(pc \in {"receive", "blocked"} /\ \E ready \in BOOLEAN : clock_handler(ready))
    /\ SF_vars(Receive /\ mc' = HardInt)

(* An alarm that comes due goes off or is taken back. *)
AlarmsGoOff ==
    \A p \in Procs, t \in 1..MaxTicks : (p_alarm[p] = t) ~> (p_alarm[p] # t)
=============================================================================
