---------------------------- MODULE ClockProofs ----------------------------
(* The safety of the clock task, for any number of processes and callers.  *)
EXTENDS Clock, TLAPS

USE SMTT(30), ZenonT(30)

AlarmOps == {"SET_ALARM", "SET_SYNC_AL"}
RequestOps == AlarmOps \cup {"GET_UPTIME", "GET_TIME", "SET_TIME"}

(* A request was sent in the past, by a caller, about a process. *)
Good(r) ==
    /\ r.op \in RequestOps
    /\ r.proc \in Procs /\ r.delta \in Nat
    /\ r.sent \in Nat /\ r.sent <= ticks

Waiting == pc \in {"receive", "blocked"}
Looping == pc \in {"scan", "scan_lower", "fire", "recompute", "recompute_lower"}

First(p) == p_alarm[p] # 0 => next_alarm <= p_alarm[p]

Types ==
    /\ realtime \in Nat /\ pending_ticks \in Nat /\ ticks \in Nat
    /\ next_alarm \in Nat
    /\ p_alarm \in [Procs -> Nat] /\ due \in [Procs -> Nat]
    /\ pc \in Labels /\ i \in Nat /\ seen \in Nat
    /\ DOMAIN caller = Callers

Messages ==
    /\ \A c \in Callers : caller[c] = Nothing \/ Good(caller[c])
    /\ ~Waiting => (mc = HardInt \/ Good(mc))
    /\ pc \in RequestOps => Good(mc)
    /\ pc \in AlarmOps => mc.sent <= realtime

(* No alarm is set before it is due, nor about to fire before. *)
OnTime ==
    /\ \A p \in Procs : p_alarm[p] # 0 => due[p] <= p_alarm[p]
    /\ pc = "fire" => i \in Procs /\ due[i] <= ticks

(* next_alarm is first of all alarms, or in a loop of those passed. *)
Ordered ==
    /\ (~Looping /\ pc # "reset") => \A p \in Procs : First(p)
    /\ Looping => (i <= NProcs /\ \A p \in Procs : p < i => First(p))
    /\ pc \in {"scan_lower", "recompute_lower"} =>
         i \in Procs /\ p_alarm[i] \in {0, seen} /\ seen < next_alarm

IInv == Types /\ UptimeIsExact /\ Messages /\ OnTime /\ Ordered
(* What a caller sends is a good request. *)
LEMMA RequestsAreGood ==
    ASSUME Types, NEW c \in Callers, NEW r \in Requests(c)
    PROVE  Good(r) /\ r.from = c
<1>1. 0 \in Procs
  BY ClockAssumption DEF Procs
<1>2. Deltas \subseteq Nat
  BY ClockAssumption
<1> QED
  BY <1>1, <1>2 DEF Requests, Good, Types, RequestOps, AlarmOps

(* The task starts with no alarms, no requests and no ticks. *)
LEMMA InitInv == Init => IInv
BY ClockAssumption DEF Init, IInv, Types, UptimeIsExact, Messages, OnTime, Ordered,
   Waiting, First, Labels, AlarmOps, RequestOps, Never

(* Every step of the interrupt, the task, SYSTASK and the callers keeps    *)
(* the invariant.                                                          *)
LEMMA StepInv == IInv /\ [Next]_vars => IInv'
<1> SUFFICES ASSUME IInv, [Next]_vars PROVE IInv'
  OBVIOUS
<1>a. Types /\ UptimeIsExact /\ Messages /\ OnTime /\ Ordered
  BY DEF IInv
<1>n. NProcs \in Nat /\ Never \in Nat
  BY ClockAssumption DEF Never
<1>1. ASSUME NEW ready \in BOOLEAN, clock_handler(ready) PROVE IInv'
  <2>1. Types'
    BY <1>a, <1>1 DEF clock_handler, interrupt, Goto, Types, Labels
  <2>2. UptimeIsExact'
    BY <1>a, <1>1 DEF clock_handler, Types, UptimeIsExact
  <2>3. Messages'
    BY <1>a, <1>1 DEF clock_handler, interrupt, Goto, Types, Messages, Good, Waiting,
       AlarmOps, RequestOps
  <2>4. OnTime'
    BY <1>a, <1>1 DEF clock_handler, interrupt, Goto, Types, OnTime
  <2>5. Ordered'
    BY <1>a, <1>n, <1>1, Zenon DEF clock_handler, interrupt, AlarmDue, Goto, HardInt,
       Nothing, Types, Ordered, First, Looping, Procs, Messages, Good, AlarmOps,
       RequestOps, Waiting
  <2> QED
    BY <2>1, <2>2, <2>3, <2>4, <2>5 DEF IInv
<1>2. ASSUME NEW q \in Procs, AlarmOff(q) PROVE IInv'
  <2>1. Types'
    BY <1>a, <1>n, <1>2, Zenon DEF AlarmOff, Types, Procs, Labels, Messages, Good,
       RequestOps, AlarmOps, Waiting, Ordered, Looping
  <2>2. UptimeIsExact'
    BY <1>a, <1>2 DEF AlarmOff, UptimeIsExact
  <2>3. Messages'
    BY <1>a, <1>2 DEF AlarmOff, Messages, Good, Waiting
  <2>4. OnTime'
    BY <1>a, <1>2 DEF AlarmOff, OnTime
  <2>5. Ordered'
    BY <1>a, <1>2 DEF AlarmOff, Ordered, First, Looping
  <2> QED
    BY <2>1, <2>2, <2>3, <2>4, <2>5 DEF IInv
<1>3. ASSUME NEW c \in Callers, NEW r \in Requests(c), Send(r) PROVE IInv'
  <2>g. Good(r) /\ r.from = c
    BY <1>a, RequestsAreGood
  <2>1. Types'
    BY <1>a, <1>3 DEF Send, Goto, Types, Labels
  <2>2. UptimeIsExact'
    BY <1>a, <1>3 DEF Send, UptimeIsExact
  <2>3. Messages'
    BY <1>a, <1>3, <2>g DEF Send, Goto, Messages, Good, Waiting, AlarmOps
  <2>4. OnTime'
    BY <1>a, <1>3 DEF Send, Goto, OnTime
  <2>5. Ordered'
    BY <1>a, <1>n, <1>3, <2>g, Zenon DEF Send, Goto, Nothing, Types, Ordered, First,
       Looping, Procs, Messages, Good, AlarmOps, RequestOps, Waiting
  <2> QED
    BY <2>1, <2>2, <2>3, <2>4, <2>5 DEF IInv
<1>4. CASE Receive
  <2>1. Types'
    BY <1>a, <1>4 DEF Receive, Goto, TaskKeeps, Types, Labels
  <2>2. UptimeIsExact'
    BY <1>a, <1>4 DEF Receive, TaskKeeps, UptimeIsExact
  <2>3. Messages'
    BY <1>a, <1>4 DEF Receive, Goto, TaskKeeps, Messages, Good, Waiting, AlarmOps,
       RequestOps
  <2>4. OnTime'
    BY <1>a, <1>4 DEF Receive, Goto, OnTime
  <2>5. Ordered'
    BY <1>a, <1>4 DEF Receive, Goto, Ordered, First, Looping
  <2> QED
    BY <2>1, <2>2, <2>3, <2>4, <2>5 DEF IInv
<1>5. CASE cp32_clock_task_dispatch
  <2>1. Types'
    BY <1>a, <1>5 DEF cp32_clock_task_dispatch, Goto, HardInt, Types, Labels, Messages,
       Good, RequestOps, AlarmOps, Waiting
  <2>2. UptimeIsExact'
    BY <1>a, <1>5 DEF cp32_clock_task_dispatch, UptimeIsExact
  <2>3. Messages'
    BY <1>a, <1>5 DEF cp32_clock_task_dispatch, Goto, HardInt, UptimeIsExact, Messages,
       Good, Waiting, AlarmOps, RequestOps
  <2>4. OnTime'
    BY <1>a, <1>5 DEF cp32_clock_task_dispatch, Goto, HardInt, Messages, Good, AlarmOps,
       RequestOps, OnTime, Waiting
  <2>5. Ordered'
    BY <1>a, <1>5 DEF cp32_clock_task_dispatch, Goto, HardInt, Ordered, First, Looping,
       Messages, Good, AlarmOps, RequestOps, Waiting
  <2> QED
    BY <2>1, <2>2, <2>3, <2>4, <2>5 DEF IInv
<1>6. CASE do_clocktick
  <2>1. Types'
    BY <1>a, <1>n, <1>6 DEF do_clocktick, Goto, TaskKeeps, Types, Labels
  <2>2. UptimeIsExact'
    BY <1>a, <1>6 DEF do_clocktick, TaskKeeps, UptimeIsExact
  <2>3. Messages'
    BY <1>a, <1>6 DEF do_clocktick, Goto, TaskKeeps, Messages, Good, Waiting, AlarmOps,
       RequestOps
  <2>4. OnTime'
    BY <1>a, <1>6 DEF do_clocktick, Goto, OnTime
  <2>5. Ordered'
    BY <1>a, <1>n, <1>6 DEF do_clocktick, Goto, Ordered, First, Looping, Procs
  <2> QED
    BY <2>1, <2>2, <2>3, <2>4, <2>5 DEF IInv
<1>7. CASE Scan
  <2>1. Types'
    <3>1. CASE pc = "scan"
      <4>1. CASE i = NProcs
        BY <1>a, <1>7, <3>1, <4>1 DEF Scan, Compare, Goto, TaskKeeps, Types, Labels
      <4>2. CASE i # NProcs
        <5>1. i \in Procs /\ p_alarm[i] \in Nat /\ i + 1 \in Nat
          BY <1>a, <1>n, <3>1, <4>2 DEF Types, Ordered, Looping, Procs
        <5> QED
          BY <1>a, <1>7, <3>1, <5>1 DEF Scan, Compare, Goto, TaskKeeps, Types, Labels
      <4> QED
        BY <4>1, <4>2
    <3>2. CASE pc = "scan_lower"
      <4>1. i \in Procs /\ p_alarm[i] \in Nat /\ seen \in Nat
        BY <1>a, <3>2 DEF Ordered, Types
      <4> QED
        BY <1>a, <1>7, <3>2, <4>1 DEF Scan, Lower, Goto, TaskKeeps, Types, Labels
    <3> QED
      BY <1>7, <3>1, <3>2 DEF Scan
  <2>2. UptimeIsExact'
    BY <1>a, <1>7 DEF Scan, TaskKeeps, UptimeIsExact
  <2>3. Messages'
    BY <1>a, <1>7 DEF Scan, Compare, Lower, Goto, TaskKeeps, Messages, Good, Waiting,
       AlarmOps, RequestOps
  <2>4. OnTime'
    BY <1>a, <1>n, <1>7 DEF Scan, Compare, Lower, Goto, TaskKeeps, Types, UptimeIsExact,
       OnTime, Procs
  <2>5. Ordered'
    <3>1. CASE pc = "scan"
      <4>1. CASE i = NProcs
        BY <1>a, <1>n, <1>7, <4>1 DEF Scan, Compare, Goto, Ordered, First, Procs
      <4>2. CASE i # NProcs
        <5>1. i \in Procs /\ i < NProcs
          BY <1>a, <1>n, <3>1, <4>2 DEF Types, Ordered, Looping, Procs
        <5> QED
          BY <1>a, <1>n, <1>7, <3>1, <5>1 DEF Scan, Compare, Goto, TaskKeeps, Types,
             Ordered, First, Looping
      <4> QED
        BY <4>1, <4>2
    <3>2. CASE pc = "scan_lower"
      <4>1. i \in Procs /\ p_alarm[i] \in {0, seen} /\ seen < next_alarm
        BY <1>a, <3>2 DEF Ordered
      <4>2. next_alarm' <= seen /\ next_alarm' \in Nat /\ (p_alarm[i] # 0 => next_alarm' = p_alarm[i])
        BY <1>a, <1>7, <3>2, <4>1 DEF Scan, Lower, Types
      <4> QED
        BY <1>a, <1>n, <1>7, <3>2, <4>1 DEF Scan, Lower, Goto, TaskKeeps, Types, Ordered,
           First, Looping, Procs
    <3> QED
      BY <1>7, <3>1, <3>2 DEF Scan
  <2> QED
    BY <2>1, <2>2, <2>3, <2>4, <2>5 DEF IInv
<1>8. CASE Fire
  <2>1. Types'
    BY <1>a, <1>8 DEF Fire, Goto, TaskKeeps, Types, Labels, OnTime
  <2>2. UptimeIsExact'
    BY <1>a, <1>8 DEF Fire, TaskKeeps, UptimeIsExact
  <2>3. Messages'
    BY <1>a, <1>8 DEF Fire, Goto, TaskKeeps, Messages, Good, Waiting, AlarmOps, RequestOps
  <2>4. OnTime'
    BY <1>a, <1>8 DEF Fire, Goto, OnTime
  <2>5. Ordered'
    BY <1>a, <1>n, <1>8 DEF Fire, Goto, Types, OnTime, Ordered, First, Looping, Procs
  <2> QED
    BY <2>1, <2>2, <2>3, <2>4, <2>5 DEF IInv
<1>9. CASE Quantum
  <2>1. Types'
    BY <1>a, <1>9 DEF Quantum, Goto, TaskKeeps, Types, Labels
  <2>2. UptimeIsExact'
    BY <1>a, <1>9 DEF Quantum, TaskKeeps, UptimeIsExact
  <2>3. Messages'
    BY <1>a, <1>9 DEF Quantum, Goto, TaskKeeps, Messages, Good, Waiting, AlarmOps,
       RequestOps
  <2>4. OnTime'
    BY <1>a, <1>9 DEF Quantum, Goto, OnTime
  <2>5. Ordered'
    BY <1>a, <1>9 DEF Quantum, Goto, Ordered, First, Looping
  <2> QED
    BY <2>1, <2>2, <2>3, <2>4, <2>5 DEF IInv
<1>10. CASE do_get
  <2>1. Types'
    BY <1>a, <1>10 DEF do_get, Goto, TaskKeeps, Types, Labels
  <2>2. UptimeIsExact'
    BY <1>a, <1>10 DEF do_get, TaskKeeps, UptimeIsExact
  <2>3. Messages'
    BY <1>a, <1>10 DEF do_get, Goto, TaskKeeps, Messages, Good, AlarmOps, RequestOps
  <2>4. OnTime'
    BY <1>a, <1>10 DEF do_get, Goto, OnTime
  <2>5. Ordered'
    BY <1>a, <1>10 DEF do_get, Goto, Ordered, First, Looping
  <2> QED
    BY <2>1, <2>2, <2>3, <2>4, <2>5 DEF IInv
<1>11. CASE do_set_time
  <2>1. Types'
    BY <1>a, <1>n, <1>11, Zenon DEF do_set_time, Goto, TaskKeeps, Types, Procs, Labels,
       Messages, Good, RequestOps, AlarmOps, Waiting, Ordered, Looping
  <2>2. UptimeIsExact'
    BY <1>a, <1>11 DEF do_set_time, TaskKeeps, UptimeIsExact
  <2>3. Messages'
    BY <1>a, <1>11 DEF do_set_time, Goto, TaskKeeps, Messages, Good, AlarmOps, RequestOps
  <2>4. OnTime'
    BY <1>a, <1>11 DEF do_set_time, Goto, OnTime
  <2>5. Ordered'
    BY <1>a, <1>11 DEF do_set_time, Goto, Ordered, First, Looping
  <2> QED
    BY <2>1, <2>2, <2>3, <2>4, <2>5 DEF IInv
<1>12. CASE common_setalarm
  <2>1. Types'
    BY <1>a, <1>12 DEF common_setalarm, AlarmTime, Goto, TaskKeeps, Types, Labels,
       Messages, Good, RequestOps, AlarmOps
  <2>2. UptimeIsExact'
    BY <1>a, <1>12 DEF common_setalarm, TaskKeeps, UptimeIsExact
  <2>3. Messages'
    BY <1>a, <1>12 DEF common_setalarm, TaskKeeps, Messages, Good, AlarmOps, RequestOps
  <2>4. OnTime'
    BY <1>a, <1>12 DEF common_setalarm, AlarmTime, Goto, Types, Messages, Good, AlarmOps,
       RequestOps, OnTime
  <2>5. Ordered'
    BY <1>12 DEF common_setalarm, Goto, Ordered, Looping
  <2> QED
    BY <2>1, <2>2, <2>3, <2>4, <2>5 DEF IInv
<1>13. CASE Reset
  <2>1. Types'
    BY <1>a, <1>n, <1>13 DEF Reset, Goto, TaskKeeps, Types, Labels
  <2>2. UptimeIsExact'
    BY <1>a, <1>13 DEF Reset, TaskKeeps, UptimeIsExact
  <2>3. Messages'
    BY <1>a, <1>13 DEF Reset, Goto, TaskKeeps, Messages, Good, Waiting, AlarmOps, RequestOps
  <2>4. OnTime'
    BY <1>a, <1>13 DEF Reset, Goto, OnTime
  <2>5. Ordered'
    BY <1>n, <1>13 DEF Reset, Goto, Ordered, Looping, Procs
  <2> QED
    BY <2>1, <2>2, <2>3, <2>4, <2>5 DEF IInv
<1>14. CASE Recompute
  <2>1. Types'
    BY <1>a, <1>n, <1>14 DEF Recompute, Compare, Lower, Goto, TaskKeeps, Types, Procs,
       Labels, Messages, AlarmOps, Ordered, Looping
  <2>2. UptimeIsExact'
    BY <1>a, <1>14 DEF Recompute, TaskKeeps, UptimeIsExact
  <2>3. Messages'
    BY <1>a, <1>14 DEF Recompute, Compare, Lower, Goto, TaskKeeps, Messages, Good,
       Waiting, AlarmOps, RequestOps
  <2>4. OnTime'
    BY <1>a, <1>14 DEF Recompute, Compare, Lower, Goto, OnTime
  <2>5. Ordered'
    <3>1. CASE pc = "recompute"
      <4>1. CASE i = NProcs
        BY <1>a, <1>n, <1>14, <4>1 DEF Recompute, Compare, Goto, Ordered, First, Procs
      <4>2. CASE i # NProcs
        <5>1. i \in Procs /\ i < NProcs
          BY <1>a, <1>n, <3>1, <4>2 DEF Types, Ordered, Looping, Procs
        <5> QED
          BY <1>a, <1>n, <1>14, <3>1, <5>1 DEF Recompute, Compare, Goto, Types, Ordered,
             First, Looping
      <4> QED
        BY <4>1, <4>2
    <3>2. CASE pc = "recompute_lower"
      <4>1. i \in Procs /\ p_alarm[i] \in {0, seen} /\ seen < next_alarm
        BY <1>a, <3>2 DEF Ordered
      <4>2. next_alarm' <= seen /\ next_alarm' \in Nat /\ (p_alarm[i] # 0 => next_alarm' = p_alarm[i])
        BY <1>a, <1>14, <3>2, <4>1 DEF Recompute, Lower, Types
      <4> QED
        BY <1>a, <1>n, <1>14, <3>2 DEF Recompute, Lower, Goto, Types, Ordered, First,
           Looping, Procs
    <3> QED
      BY <1>14, <3>1, <3>2 DEF Recompute
  <2> QED
    BY <2>1, <2>2, <2>3, <2>4, <2>5 DEF IInv
<1>15. CASE Reply
  <2>1. Types'
    BY <1>a, <1>15 DEF Reply, Goto, TaskKeeps, Types, Labels
  <2>2. UptimeIsExact'
    BY <1>a, <1>15 DEF Reply, TaskKeeps, UptimeIsExact
  <2>3. Messages'
    BY <1>a, <1>15 DEF Reply, Goto, TaskKeeps, Messages, Good, Waiting, AlarmOps, RequestOps
  <2>4. OnTime'
    BY <1>a, <1>15 DEF Reply, Goto, OnTime
  <2>5. Ordered'
    BY <1>a, <1>n, <1>15, Zenon DEF Reply, Goto, TaskKeeps, Nothing, Types, Ordered,
       First, Looping, Procs, Messages, Good, AlarmOps, RequestOps, Waiting
  <2> QED
    BY <2>1, <2>2, <2>3, <2>4, <2>5 DEF IInv
<1>16. CASE UNCHANGED vars
  BY <1>16 DEF vars, IInv, Types, UptimeIsExact, Messages, OnTime, Ordered, Good,
     Waiting, Looping, First
<1> QED
  BY <1>1, <1>2, <1>3, <1>4, <1>5, <1>6, <1>7, <1>8, <1>9, <1>10, <1>11, <1>12, <1>13,
     <1>14, <1>15, <1>16 DEF Next, clock_task

(* The invariant holds in every state of every behaviour. *)
THEOREM Invariance == Spec => []IInv
BY InitInv, StepInv, PTL DEF Spec

(* get_uptime counts every tick of clock_handler exactly once. *)
THEOREM UptimeTheorem == Spec => []UptimeIsExact
<1>1. IInv => UptimeIsExact
  BY DEF IInv
<1> QED
  BY <1>1, Invariance, PTL

(* do_clocktick fires no alarm before the delay asked for has passed. *)
THEOREM NeverEarlyTheorem == Spec => []NeverEarly
<1>1. IInv => NeverEarly
  BY DEF IInv, OnTime, NeverEarly
<1> QED
  BY <1>1, Invariance, PTL

(* With the task waiting, next_alarm of do_clocktick and common_setalarm   *)
(* is before every alarm.                                                  *)
THEOREM NextAlarmTheorem == Spec => []NextAlarmIsFirst
<1>1. IInv => NextAlarmIsFirst
  BY DEF IInv, Ordered, First, Looping, NextAlarmIsFirst
<1> QED
  BY <1>1, Invariance, PTL

(* clock_handler overlooks no expired alarm while the task waits. *)
THEOREM OverlookedTheorem == Spec => NoAlarmOverlooked
<1> DEFINE Noticed == (ticks' # ticks /\ pc \in {"receive", "blocked"}) =>
             \A p \in Procs : (p_alarm[p] # 0 /\ p_alarm[p] <= ticks') =>
                (int' \/ mc' = HardInt)
<1>1. IInv /\ [Next]_vars => [Noticed]_vars
  <2> SUFFICES ASSUME IInv, Next, ticks' # ticks, pc \in {"receive", "blocked"},
                      NEW p \in Procs, p_alarm[p] # 0, p_alarm[p] <= ticks'
               PROVE  int' = TRUE \/ mc' = HardInt
    BY Zenon DEF vars
  <2>1. PICK ready \in BOOLEAN : clock_handler(ready)
    BY DEF Next, clock_task, TaskKeeps, AlarmOff, Send, Receive,
       cp32_clock_task_dispatch, do_clocktick, Scan, Fire, Quantum, do_get, do_set_time,
       common_setalarm, Reset, Recompute, Reply
  <2>2. next_alarm <= p_alarm[p] /\ ticks' <= realtime + pending_ticks + 1
    BY <2>1 DEF IInv, Types, UptimeIsExact, Ordered, First, Looping, clock_handler
  <2>3. AlarmDue(realtime + pending_ticks + (IF ticks < MaxTicks THEN 1 ELSE 0))
    BY <2>1, <2>2 DEF AlarmDue, clock_handler, IInv, Types
  <2> QED
    BY <2>1, <2>3 DEF clock_handler, interrupt
<1> QED
  BY <1>1, Invariance, PTL DEF Spec, NoAlarmOverlooked
=============================================================================
