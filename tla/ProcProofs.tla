----------------------------- MODULE ProcProofs -----------------------------
(***************************************************************************)
(* The safety theorems of Proc, for every set of processes and every set of *)
(* calls: the invariant Inv holds of the boot memory; every trap, every     *)
(* timer interrupt and every change of a user's descriptor preserves it;    *)
(* and it implies the properties of Proc.                                   *)
(***************************************************************************)
EXTENDS ProcIpc

USE SMTT(30), ZenonT(30)

-----------------------------------------------------------------------------
(* The inductive invariant *)

\* The owner, and the frame an interrupt would return to if it found all the
\* queues empty.
Owner(s) ==
    /\ s.running = s.proc_ptr /\ s.running = s.current_proc /\ Runnable(s, s.running)
    /\ \/ s.irq_return_proc = s.running
       \/ s.irq_return_proc = FS /\ Runnable(s, FS)

Inv(s) ==
    /\ s \in KType /\ Ipc(s) /\ ReadyQueues(s, {s.current_proc}) /\ Frames(s, {})
    /\ Quiet(s) /\ Owner(s)

\* A trap or an interrupt as a whole: what it does to the calls that wait, and
\* who is billed.
Steps(s, t) ==
    /\ Serves(s, t, s.running)
    /\ \A d \in Proc : Fifo(s.p_callerq[d], t.p_callerq[d])
    /\ t.p_flags[s.running] \subseteq {SENDING, RECEIVING}
    /\ SENDING \in t.p_flags[s.running] => P_SLOT_FREE \notin s.p_flags[t.p_sendto[s.running]]
    /\ Bills(s, t)

\* The choice of the next owner ends no call.
LEMMA StepsFrom ==
    ASSUME NEW s, NEW t, NEW z, Moves(s, t, s.running),
           t.p_flags[s.running] \subseteq {SENDING, RECEIVING},
           z.p_flags = t.p_flags, z.p_getfrom = t.p_getfrom, z.p_sendto = t.p_sendto,
           z.p_callerq = t.p_callerq, z.copied = t.copied, Bills(t, z)
    PROVE  Steps(s, z)
BY DEF Steps, Moves, Bills, Serves, Served, Ended

\* What a step leaves alone that Inv looks at.
LEMMA InvSame ==
    ASSUME NEW s, NEW t \in KType, Inv(s),
           t.p_flags = s.p_flags, t.p_getfrom = s.p_getfrom, t.p_sendto = s.p_sendto,
           t.p_callerq = s.p_callerq, t.p_blocked_frame = s.p_blocked_frame,
           t.held = s.held, t.rdy = s.rdy, t.blocked_return_proc = s.blocked_return_proc,
           t.irq_return_proc = s.irq_return_proc, OwnerSame(s, t),
           \A p \in Proc : t.p_int_blocked[p] => s.p_int_blocked[p] \/ ~Accepts(s, p, HARDWARE)
    PROVE  Inv(t)
<1>1. s \in KType /\ Ipc(s) BY Zenon DEF Inv
<1>2. Ipc(t) BY <1>1, IpcFields, Zenon
<1>3. ReadyQueues(t, {t.current_proc})
  <2>1. s.current_proc \in Proc /\ t.current_proc = s.current_proc
    BY <1>1, Zenon DEF KType, OwnerSame
  <2> QED BY <1>1, <2>1, ReadyQueuesAway, Zenon DEF Inv
<1>4. Frames(t, {}) BY DEF Inv, Frames, FrameKept, Blocked
<1>5. Quiet(t) BY Zenon DEF Inv, Quiet, OwnerSame
<1>6. Owner(t) BY Zenon DEF Inv, Owner, OwnerSame, Runnable
<1> QED BY <1>2, <1>3, <1>4, <1>5, <1>6, Zenon DEF Inv

\* A trap: the call, the next owner, the return.
LEMMA DispatchLemma ==
    ASSUME NEW s, Inv(s), s.running \notin {IDLE, HARDWARE},
           NEW function \in {SEND, RECEIVE, BOTH}, NEW src_dest \in Proc \cup {ANY}
    PROVE  LET t == cp32_task_ipc_dispatch(s, s.proc_ptr, function, src_dest)
           IN  Inv(t) /\ Steps(s, t)
<1> DEFINE own == s.proc_ptr
           c == [s EXCEPT !.copied = {}]
           t == sys_call(c, function, src_dest)
           u == IF Blocked(t, own) THEN sched(t, FALSE)
                ELSE [t EXCEPT !.proc_ptr = own, !.current_proc = own]
           r == [u EXCEPT !.irq_return_proc = u.proc_ptr]
           z == [r EXCEPT !.running = r.irq_return_proc]
<1>1. own \in Proc \ {IDLE, HARDWARE} /\ own = s.current_proc /\ Runnable(s, own) /\ s \in KType
  BY Zenon DEF Inv, Owner, KType
<1>2. /\ c \in KType /\ Mid(c, own) /\ Runnable(c, own) /\ c.copied = {}
      /\ c.p_flags = s.p_flags /\ c.p_getfrom = s.p_getfrom /\ c.p_sendto = s.p_sendto
      /\ c.p_callerq = s.p_callerq /\ c.bill_ptr = s.bill_ptr
  <2>1. c \in KType BY <1>1, Zenon DEF KType
  <2>2. /\ c.p_flags = s.p_flags /\ c.p_getfrom = s.p_getfrom /\ c.p_sendto = s.p_sendto
        /\ c.p_callerq = s.p_callerq /\ c.p_int_blocked = s.p_int_blocked
        /\ c.p_blocked_frame = s.p_blocked_frame /\ c.held = s.held /\ c.rdy = s.rdy
        /\ c.blocked_return_proc = s.blocked_return_proc
        /\ c.irq_return_proc = s.irq_return_proc /\ OwnerSame(s, c)
        /\ c.copied = {} /\ c.bill_ptr = s.bill_ptr
    BY <1>1, Zenon DEF KType, OwnerSame
  <2> HIDE DEF c
  <2>3. Inv(c) BY <2>1, <2>2, InvSame, Zenon
  <2>4. Runnable(c, own) /\ c.proc_ptr = own /\ c.current_proc = own
    BY <1>1, <2>2, Zenon DEF Runnable, OwnerSame
  <2>5. c.p_blocked_frame[own] = "none"
    BY <1>1, <2>3, <2>4 DEF Inv, Frames, FrameKept, Blocked, Runnable
  <2>6. Frames(c, {own}) BY <2>3, Zenon DEF Inv, Frames
  <2> QED BY <2>1, <2>2, <2>3, <2>4, <2>5, <2>6, Zenon DEF Inv, Mid, Runnable
<1> HIDE DEF c
<1>3. Done(t, own) /\ Moves(c, t, own)
  <2> HIDE DEF own
  <2> QED BY <1>1, <1>2, SysCallLemma, Zenon
<1> HIDE DEF t
<1>4. Moves(s, t, own) BY <1>2, <1>3 DEF Moves, Serves, Served, Ended
<1>5. /\ u \in KType /\ Ipc(u) /\ Frames(u, {}) /\ Quiet(u) /\ IpcSame(t, u) /\ Bills(t, u)
      /\ u.proc_ptr = u.current_proc /\ Runnable(u, u.proc_ptr)
      /\ ReadyQueues(u, {u.proc_ptr})
  <2>1. CASE Blocked(t, own)
    <3>1. u = sched(t, FALSE) BY <2>1, Zenon
    <3>2. t \in KType /\ ReadyQueues(t, {t.current_proc}) /\ Runnable(t, IDLE)
          /\ t.last_selected_fs \in {NIL, FS}
      BY <1>3, Zenon DEF Done, Ipc, Quiet
    <3> HIDE DEF u
    <3>3. /\ u \in KType /\ IpcSame(t, u) /\ Bills(t, u)
          /\ u.switching = t.switching /\ u.halted = t.halted
          /\ u.proc_ptr = u.current_proc /\ Runnable(u, u.proc_ptr)
          /\ ReadyQueues(u, {u.proc_ptr})
          /\ u.last_selected_fs \in {NIL, FS}
      BY <3>1, <3>2, SchedLemma, Zenon
    <3>4. Ipc(u) BY <1>3, <3>2, <3>3, IpcFields, Zenon DEF Done, IpcSame
    <3>5. Frames(u, {}) BY <1>3, <3>3 DEF Done, IpcSame, Frames, FrameKept, Blocked
    <3>6. Quiet(u) BY <1>3, <3>3, Zenon DEF Done, IpcSame, Quiet
    <3> QED BY <3>3, <3>4, <3>5, <3>6, Zenon
  <2>2. CASE ~Blocked(t, own)
    <3>1. u = t
      <4>1. t \in KType /\ t.proc_ptr = own /\ t.current_proc = own BY <1>3, Zenon DEF Done
      <4>2. [t EXCEPT !.proc_ptr = t.proc_ptr, !.current_proc = t.current_proc] = t
        BY <4>1, Zenon DEF KType
      <4> HIDE DEF own
      <4> QED BY <2>2, <4>1, <4>2, Zenon
    <3>2. Runnable(t, own) BY <1>3, <2>2, Zenon DEF Done, Blocked, Runnable
    <3> HIDE DEF u
    <3> QED BY <1>3, <3>1, <3>2, Zenon DEF Done, IpcSame, Bills
  <2> QED BY <2>1, <2>2, Zenon
<1> HIDE DEF u
<1>6. u.proc_ptr \in Proc BY <1>5, Zenon DEF KType
<1>7. /\ r \in KType /\ r.p_flags = u.p_flags /\ r.irq_return_proc = u.proc_ptr
      /\ r.proc_ptr = u.proc_ptr /\ r.current_proc = u.current_proc
  BY <1>5, <1>6, Zenon DEF KType
<1>8. cp32_irq_return_frame_check(r)
  BY <1>5, <1>6, <1>7, Zenon DEF cp32_irq_return_frame_check, Runnable
<1>9. cp32_task_ipc_dispatch(s, own, function, src_dest) = z
  BY <1>1, <1>8, Zenon DEF cp32_task_ipc_dispatch, c, t, u
<1>10. /\ z \in KType
      /\ z.p_flags = u.p_flags /\ z.p_getfrom = u.p_getfrom /\ z.p_sendto = u.p_sendto
      /\ z.p_callerq = u.p_callerq /\ z.p_int_blocked = u.p_int_blocked
      /\ z.p_blocked_frame = u.p_blocked_frame /\ z.held = u.held /\ z.rdy = u.rdy
      /\ z.blocked_return_proc = u.blocked_return_proc
      /\ z.switching = u.switching /\ z.halted = u.halted
      /\ z.last_selected_fs = u.last_selected_fs
      /\ z.proc_ptr = u.proc_ptr /\ z.current_proc = u.proc_ptr
      /\ z.irq_return_proc = u.proc_ptr /\ z.running = u.proc_ptr
      /\ z.copied = u.copied /\ z.bill_ptr = u.bill_ptr
  BY <1>5, <1>6, ZenonT(60) DEF KType
<1> HIDE DEF z
<1>11. Ipc(z) BY <1>5, <1>10, IpcFields, Zenon
<1>12. ReadyQueues(z, {z.current_proc}) BY <1>5, <1>6, <1>10, ReadyQueuesAway, Zenon
<1>13. Frames(z, {}) BY <1>5, <1>10 DEF Frames, FrameKept, Blocked
<1>14. Quiet(z) BY <1>5, <1>10, Zenon DEF Quiet
<1>15. Owner(z)
  <2>1. Runnable(z, z.running) BY <1>5, <1>10, Zenon DEF Runnable
  <2>2. z.running = z.proc_ptr /\ z.running = z.current_proc /\ z.irq_return_proc = z.running
    BY <1>10, Zenon
  <2> QED BY <2>1, <2>2, Zenon DEF Owner
<1>16. Inv(z) BY <1>10, <1>11, <1>12, <1>13, <1>14, <1>15, Zenon DEF Inv
<1>17. Steps(s, z)
  <2>1. own = s.running BY Zenon DEF Inv, Owner
  <2>2. /\ z.p_flags = t.p_flags /\ z.p_getfrom = t.p_getfrom /\ z.p_sendto = t.p_sendto
        /\ z.p_callerq = t.p_callerq /\ z.copied = t.copied
    BY <1>5, <1>10, Zenon DEF IpcSame
  <2>3. Bills(t, z) BY <1>5, <1>10, Zenon DEF Bills, Runnable
  <2>4. t.p_flags[s.running] \subseteq {SENDING, RECEIVING} BY <1>3, <2>1, Zenon DEF Done
  <2> HIDE DEF own
  <2> QED BY <1>4, <2>1, <2>2, <2>3, <2>4, StepsFrom, Zenon
<1> QED BY <1>9, <1>16, <1>17, Zenon

-----------------------------------------------------------------------------
(* The timer interrupt *)

\* The notices of one interrupt, between b and s: they end calls in RECEIVE only.
Told(b, s) ==
    /\ Moves(b, s, b.running) /\ s.running = b.running
    /\ \A p \in Proc : SENDING \in s.p_flags[p] <=> SENDING \in b.p_flags[p]

\* interrupt() wakes a task that waits for it, or leaves the notice pending.
LEMMA InterruptLemma ==
    ASSUME NEW s, Inv(s), NEW task \in {TTY, CLOCK}, NEW b \in KType, Told(b, s)
    PROVE  Inv(interrupt(s, task)) /\ Told(b, interrupt(s, task))
<1> DEFINE t == interrupt(s, task)
           own == s.current_proc
<1>1. task \in Proc \ {IDLE, HARDWARE} /\ task # FS /\ HARDWARE \in Proc
  BY ProcAssumption, Zenon DEF Proc
<1>2. /\ s \in KType /\ Ipc(s) /\ ReadyQueues(s, {own}) /\ Frames(s, {}) /\ ~s.switching
      /\ Runnable(s, own) /\ own \in Proc
  BY Zenon DEF Inv, Quiet, Owner, KType
<1>3. CASE P_SLOT_FREE \in s.p_flags[task] BY <1>3, Zenon DEF interrupt
<1>4. CASE P_SLOT_FREE \notin s.p_flags[task] /\ Accepts(s, task, HARDWARE)
  <2> DEFINE c == copy_message(s, HARDWARE, task)
             w == [c EXCEPT !.p_int_blocked[task] = FALSE]
  <2>1. t = cp32_complete_blocked_frame(w, task) BY <1>2, <1>4, Zenon DEF interrupt
  <2> HIDE DEF t, own
  <2>2. /\ c \in KType
        /\ c.p_flags = s.p_flags /\ c.p_getfrom = s.p_getfrom /\ c.p_sendto = s.p_sendto
        /\ c.p_callerq = s.p_callerq /\ c.p_int_blocked = s.p_int_blocked
        /\ c.p_blocked_frame = s.p_blocked_frame /\ c.held = s.held /\ c.rdy = s.rdy
        /\ c.blocked_return_proc = s.blocked_return_proc /\ OwnerSame(s, c)
        /\ c.irq_return_proc = s.irq_return_proc
        /\ c.copied = s.copied \cup {<<HARDWARE, task>>} /\ c.bill_ptr = s.bill_ptr
    BY <1>1, <1>2, CopyLemma, ZenonT(40)
  <2> HIDE DEF c
  <2>3. w \in KType BY <2>2, ZenonT(60) DEF KType
  <2>4. /\ w.p_flags = s.p_flags /\ w.p_getfrom = s.p_getfrom /\ w.p_sendto = s.p_sendto
        /\ w.p_callerq = s.p_callerq
        /\ w.p_int_blocked = [s.p_int_blocked EXCEPT ![task] = FALSE]
        /\ w.p_blocked_frame = s.p_blocked_frame /\ w.held = s.held /\ w.rdy = s.rdy
        /\ w.blocked_return_proc = s.blocked_return_proc /\ OwnerSame(s, w)
        /\ w.irq_return_proc = s.irq_return_proc
        /\ w.copied = s.copied \cup {<<HARDWARE, task>>} /\ w.bill_ptr = s.bill_ptr
    BY <2>2 DEF KType, OwnerSame
  <2> HIDE DEF w
  <2>5. Inv(w)
    <3>1. \A p \in Proc : w.p_int_blocked[p] => s.p_int_blocked[p]
      <4>1. s.p_int_blocked \in [Proc -> BOOLEAN] BY <1>2, KFields, Zenon
      <4> QED BY <1>1, <2>4, <4>1, Zenon
    <3> QED BY <2>3, <2>4, <3>1, InvSame, Zenon
  <2>6. Receiving(w, task) BY <1>4, <2>4, Zenon DEF Accepts, Receiving
  <2>7. SENDING \notin w.p_flags[task] /\ Blocked(w, task) /\ ~Runnable(w, task)
    BY <2>6 DEF Receiving, Blocked, Runnable, SENDING, RECEIVING
  <2>8. task # own /\ w.current_proc = own /\ Runnable(w, own)
    BY <1>2, <2>4, <2>7, Zenon DEF own, Runnable, OwnerSame
  <2>9. w.p_blocked_frame[task] # "mismatch"
    BY <1>1, <2>5, <2>7, Zenon DEF Inv, Frames, FrameKept
  <2>10. ReadyQueues(w, {own} \cup {task})
    BY <1>1, <2>3, <2>5, <2>7, <2>8, ReadyQueuesBlocked, Zenon DEF Inv
  <2>11. /\ t \in KType /\ ReadyQueues(t, {own}) /\ Woken(w, t, task) /\ OwnerSame(w, t)
         /\ t.irq_return_proc = w.irq_return_proc /\ t.bill_ptr = w.bill_ptr
    <3>1. task \in Proc \ ({own} \cup {IDLE, HARDWARE}) BY <1>1, <2>8, Zenon
    <3> QED BY <1>1, <2>1, <2>3, <2>9, <2>10, <3>1, CompleteLemma, Zenon
  <2>12. Ipc(t) BY <1>1, <2>3, <2>5, <2>7, <2>11, IpcWake, Zenon DEF Inv
  <2>13. Frames(t, {})
    <3>1. task \in Proc /\ task \notin {} BY <1>1, Zenon
    <3>2. Frames(w, {}) BY <2>5, Zenon DEF Inv
    <3> QED BY <2>3, <2>11, <3>1, <3>2, FramesWoken, Zenon
  <2>14. Quiet(t) /\ t.current_proc = own
    BY <2>5, <2>8, <2>11, Zenon DEF Inv, Quiet, Woken, OwnerSame
  <2>15. Owner(t)
    <3>1. \A p \in Proc : Runnable(w, p) => Runnable(t, p)
      <4>1. w.p_flags \in [Proc -> SUBSET Flags] BY <2>3, KFields, Zenon
      <4> QED BY <2>11, <4>1 DEF Woken, Runnable
    <3>2. FS \in Proc BY ProcAssumption, Zenon DEF Proc
    <3>3. w.running = own BY <2>5, <2>8, Zenon DEF Inv, Owner
    <3> QED BY <1>2, <2>5, <2>11, <3>1, <3>2, <3>3, Zenon DEF Inv, Owner, OwnerSame
  <2>16. Inv(t) BY <2>11, <2>12, <2>13, <2>14, <2>15, Zenon DEF Inv
  <2>17. Told(b, t)
    <3>1. b.running \in Proc /\ task # b.running /\ t.running = b.running
      <4>1. s.running = own BY Zenon DEF Inv, Owner, own
      <4> QED BY <2>4, <2>8, <2>11, <4>1, Zenon DEF Told, OwnerSame, KType
    <3>2. Delivers(s, t, HARDWARE, task) BY <2>4, <2>11, Zenon DEF Delivers, Woken
    <3>3. SENDING \notin b.p_flags[task] BY <1>1, <2>4, <2>7, Zenon DEF Told
    <3>4. Serves(b, t, b.running)
      <4>1. Serves(b, s, b.running) BY Zenon DEF Told, Moves
      <4>2. task \in Proc \ {b.running} BY <1>1, <3>1, Zenon
      <4> QED BY <1>1, <1>2, <1>4, <2>11, <3>1, <3>2, <3>3, <4>1, <4>2, ServesDeliver, ZenonT(60)
    <3>5. \A p \in Proc : SENDING \in t.p_flags[p] <=> SENDING \in s.p_flags[p]
      <4>1. s.p_flags \in [Proc -> SUBSET Flags] BY <1>2, KFields, Zenon
      <4> QED BY <1>1, <2>4, <2>7, <3>2, <4>1, Zenon DEF Delivers
    <3>6. t.p_callerq = s.p_callerq /\ t.bill_ptr = s.bill_ptr /\ t.p_sendto = s.p_sendto
      BY <2>4, <2>11, Zenon DEF Woken
    <3> QED BY <3>1, <3>4, <3>5, <3>6, Zenon DEF Told, Moves
  <2> QED BY <2>16, <2>17, Zenon DEF t
<1>5. CASE P_SLOT_FREE \notin s.p_flags[task] /\ ~Accepts(s, task, HARDWARE)
  <2>1. t = [s EXCEPT !.p_int_blocked[task] = TRUE] BY <1>2, <1>5, Zenon DEF interrupt
  <2> HIDE DEF t, own
  <2>2. t \in KType BY <1>2, <2>1, Zenon DEF KType
  <2>3. /\ t.p_flags = s.p_flags /\ t.p_getfrom = s.p_getfrom /\ t.p_sendto = s.p_sendto
        /\ t.p_callerq = s.p_callerq
        /\ t.p_int_blocked = [s.p_int_blocked EXCEPT ![task] = TRUE]
        /\ t.p_blocked_frame = s.p_blocked_frame /\ t.held = s.held /\ t.rdy = s.rdy
        /\ t.blocked_return_proc = s.blocked_return_proc /\ OwnerSame(s, t)
        /\ t.irq_return_proc = s.irq_return_proc
        /\ t.copied = s.copied /\ t.bill_ptr = s.bill_ptr
    BY <1>2, <2>1, Zenon DEF KType, OwnerSame
  <2>4. \A p \in Proc : t.p_int_blocked[p] => s.p_int_blocked[p] \/ ~Accepts(s, p, HARDWARE)
    <3>1. s.p_int_blocked \in [Proc -> BOOLEAN] BY <1>2, KFields, Zenon
    <3> QED BY <1>1, <1>5, <2>3, <3>1, Zenon
  <2>5. Inv(t) BY <2>2, <2>3, <2>4, InvSame, Zenon
  <2>6. Told(b, t)
    <3>1. CallsSame(s, t) /\ t.running = s.running BY <2>3, Zenon DEF CallsSame, OwnerSame
    <3>2. Moves(b, t, b.running) BY <3>1, MovesSame, Zenon DEF Told
    <3> QED BY <3>1, <3>2, Zenon DEF Told, CallsSame
  <2> QED BY <2>5, <2>6, Zenon DEF t
<1> QED BY <1>3, <1>4, <1>5, Zenon

\* clock_handler's notifications.
LEMMA NotifyLemma ==
    ASSUME NEW s, Inv(s), NEW poll \in BOOLEAN, NEW wakeup \in BOOLEAN, NEW tick \in BOOLEAN,
           NEW b \in KType, Told(b, s)
    PROVE  Inv(Notify(s, poll, wakeup, tick)) /\ Told(b, Notify(s, poll, wakeup, tick))
<1> DEFINE a == IF poll THEN interrupt(s, TTY) ELSE s
           c == IF wakeup THEN interrupt(a, TTY) ELSE a
<1>1. Inv(a) /\ Told(b, a)
  <2>1. Inv(interrupt(s, TTY)) /\ Told(b, interrupt(s, TTY)) BY InterruptLemma, Zenon
  <2> QED BY <2>1, Zenon
<1> HIDE DEF a
<1>2. Inv(c) /\ Told(b, c)
  <2>1. Inv(interrupt(a, TTY)) /\ Told(b, interrupt(a, TTY)) BY <1>1, InterruptLemma, Zenon
  <2> QED BY <1>1, <2>1, Zenon
<1> HIDE DEF c
<1>3. Inv(interrupt(c, CLOCK)) /\ Told(b, interrupt(c, CLOCK)) BY <1>2, InterruptLemma, Zenon
<1>4. Notify(s, poll, wakeup, tick) = IF tick THEN interrupt(c, CLOCK) ELSE c
  BY Zenon DEF Notify, a, c
<1> QED BY <1>2, <1>3, <1>4, Zenon

\* The CPU goes to one process that both owner globals and the published
\* return frame name.
LEMMA SelectLemma ==
    ASSUME NEW s, Inv(s)
    PROVE  LET t == Select(s)
           IN  /\ t \in KType /\ Ipc(t) /\ Frames(t, {}) /\ Quiet(t)
               /\ ReadyQueues(t, {t.current_proc}) /\ Runnable(t, t.proc_ptr)
               /\ t.current_proc = t.proc_ptr /\ t.irq_return_proc = t.proc_ptr
               /\ IpcSame(s, t) /\ Bills(s, t)
<1> DEFINE busy == \E q \in Queues : s.rdy[q] # <<>>
           t == IF busy THEN sched(s, TRUE) ELSE s
           fs == t.last_selected_fs
           u == IF fs # NIL /\ t.proc_ptr \in {IDLE, FS} /\ Runnable(t, FS)
                THEN [t EXCEPT !.proc_ptr = fs, !.current_proc = fs, !.irq_return_proc = fs]
                ELSE t
<1>1. FS \in Proc /\ FS \notin {IDLE, HARDWARE} BY ProcAssumption, Zenon DEF Proc
<1>2. /\ s \in KType /\ Ipc(s) /\ ReadyQueues(s, {s.current_proc}) /\ Frames(s, {})
      /\ Quiet(s) /\ Owner(s) /\ Runnable(s, IDLE) /\ s.last_selected_fs \in {NIL, FS}
  BY Zenon DEF Inv, Quiet, Ipc
<1>3. /\ t \in KType /\ Ipc(t) /\ Frames(t, {}) /\ Quiet(t)
      /\ ReadyQueues(t, {t.current_proc}) /\ Runnable(t, t.proc_ptr)
      /\ t.current_proc = t.proc_ptr /\ t.irq_return_proc = t.proc_ptr
      /\ t.proc_ptr \in {IDLE, FS} /\ Runnable(t, FS) => t.proc_ptr = FS
      /\ IpcSame(s, t) /\ Bills(s, t)
  <2>1. CASE busy
    <3>1. t = sched(s, TRUE) BY <2>1, Zenon
    <3>2. \E q \in Queues : s.rdy[q] # <<>> BY <2>1, Zenon
    <3> HIDE DEF t, busy
    <3>3. /\ t \in KType /\ IpcSame(s, t) /\ Bills(s, t)
          /\ t.switching = s.switching /\ t.halted = s.halted
          /\ t.proc_ptr = t.current_proc /\ Runnable(t, t.proc_ptr)
          /\ ReadyQueues(t, {t.proc_ptr})
          /\ t.last_selected_fs \in {NIL, FS}
          /\ t.proc_ptr # IDLE /\ t.irq_return_proc = t.proc_ptr
      BY <1>2, <3>1, <3>2, SchedLemma, Zenon
    <3>4. Ipc(t) BY <1>2, <3>3, IpcFields, Zenon DEF IpcSame
    <3>5. Frames(t, {}) BY <1>2, <3>3, Zenon DEF IpcSame, Frames, FrameKept, Blocked
    <3>6. Quiet(t) BY <1>2, <3>3, Zenon DEF IpcSame, Quiet
    <3> QED BY <3>3, <3>4, <3>5, <3>6
  <2>2. CASE ~busy
    <3>1. t = s BY <2>2, Zenon
    <3>2. Runnable(s, FS) => s.current_proc = FS
      <4> SUFFICES ASSUME Runnable(s, FS), s.current_proc # FS PROVE FALSE OBVIOUS
      <4> DEFINE q == proc_queue(FS)
                 S == {p \in Proc \ ({IDLE, HARDWARE} \cup {s.current_proc}) :
                         proc_queue(p) = q /\ Runnable(s, p)}
                 v == s.rdy[q]
      <4>1. q \in Queues BY <1>1, ProcQueueType, Zenon
      <4>2. v = <<>> BY <2>2, <4>1, Zenon
      <4>3. FS \in S BY <1>1, Zenon
      <4>4. Lists(v, S) BY <1>2, <4>1, Zenon DEF ReadyQueues
      <4>5. v \in Seq(Proc) BY <1>2, <4>1, Zenon DEF KType
      <4> HIDE DEF S, v
      <4> QED BY <4>2, <4>3, <4>4, <4>5, ListsEmpty, Zenon
    <3>3. s.irq_return_proc = s.running BY <1>2, <3>2, Zenon DEF Owner
    <3> HIDE DEF t
    <3>4. IpcSame(s, s) /\ Bills(s, s) BY Zenon DEF IpcSame, Bills
    <3> QED BY <1>2, <3>1, <3>2, <3>3, <3>4, Zenon DEF Owner
  <2> QED BY <2>1, <2>2, Zenon
<1> HIDE DEF t
<1>4. u = t
  <2>1. CASE fs # NIL /\ t.proc_ptr \in {IDLE, FS} /\ Runnable(t, FS)
    <3>1. /\ fs = FS /\ t.proc_ptr = FS /\ t.current_proc = FS /\ t.irq_return_proc = FS
      BY <1>3, <2>1, Zenon DEF Quiet
    <3>2. [t EXCEPT !.proc_ptr = t.proc_ptr, !.current_proc = t.current_proc,
                    !.irq_return_proc = t.irq_return_proc] = t
      BY <1>3, Zenon DEF KType
    <3>3. u = [t EXCEPT !.proc_ptr = fs, !.current_proc = fs, !.irq_return_proc = fs]
      BY <2>1, Zenon
    <3> HIDE DEF fs, u
    <3> QED BY <3>1, <3>2, <3>3, Zenon
  <2>2. CASE ~(fs # NIL /\ t.proc_ptr \in {IDLE, FS} /\ Runnable(t, FS)) BY <2>2, Zenon
  <2> QED BY <2>1, <2>2, Zenon
<1>5. t.irq_return_proc \in Proc /\ Runnable(t, t.irq_return_proc) BY <1>3, Zenon DEF KType
<1>6. Select(s) = IF u.irq_return_proc \in Proc /\ Runnable(u, u.irq_return_proc) THEN u
                  ELSE [u EXCEPT !.irq_return_proc = u.proc_ptr]
  BY Zenon DEF Select, t
<1> HIDE DEF u
<1>7. Select(s) = t BY <1>4, <1>5, <1>6, Zenon
<1> QED BY <1>3, <1>7, Zenon

\* A whole interrupt, from entry to the restored frame.
LEMMA IrqLemma ==
    ASSUME NEW s, Inv(s), NEW poll \in BOOLEAN, NEW wakeup \in BOOLEAN, NEW tick \in BOOLEAN
    PROVE  Inv(irq_level1(s, poll, wakeup, tick)) /\ Steps(s, irq_level1(s, poll, wakeup, tick))
<1> DEFINE c == SaveInterrupted(s)
           n == Notify(c, poll, wakeup, tick)
           t == Select(n)
           z == [t EXCEPT !.running = t.irq_return_proc]
<1>1. s \in KType /\ s.proc_ptr \in Proc /\ s.p_blocked_frame[s.proc_ptr] = "none"
  <2>1. s \in KType /\ s.proc_ptr \in Proc /\ Runnable(s, s.proc_ptr)
    BY Zenon DEF Inv, Owner, KType
  <2>2. FrameKept(s, s.proc_ptr) BY <2>1, Zenon DEF Inv, Frames
  <2> QED BY <2>1, <2>2, Zenon DEF FrameKept, Blocked, Runnable
<1>2. Inv(c) /\ Told(s, c)
  <2> DEFINE F == [s.p_blocked_frame EXCEPT
                     ![s.proc_ptr] = IF @ = "valid" THEN "mismatch" ELSE @]
  <2>1. F = s.p_blocked_frame
    <3>1. s.p_blocked_frame \in [Proc -> {"none", "valid", "mismatch"}] BY <1>1, KFields, Zenon
    <3> QED BY <1>1, <3>1, Zenon
  <2>2. c = [s EXCEPT !.p_blocked_frame = F, !.copied = {}]
    BY <1>1, Zenon DEF SaveInterrupted, KType
  <2> HIDE DEF F, c
  <2>3. c \in KType BY <1>1, <2>1, <2>2, ZenonT(60) DEF KType
  <2>4. /\ c.p_flags = s.p_flags /\ c.p_getfrom = s.p_getfrom /\ c.p_sendto = s.p_sendto
        /\ c.p_callerq = s.p_callerq /\ c.p_int_blocked = s.p_int_blocked
        /\ c.p_blocked_frame = s.p_blocked_frame /\ c.held = s.held /\ c.rdy = s.rdy
        /\ c.blocked_return_proc = s.blocked_return_proc
        /\ c.irq_return_proc = s.irq_return_proc /\ OwnerSame(s, c)
        /\ c.copied = {} /\ c.bill_ptr = s.bill_ptr
    BY <1>1, <2>1, <2>2, Zenon DEF KType, OwnerSame
  <2>5. Inv(c) BY <2>3, <2>4, InvSame, Zenon
  <2>6. Told(s, c)
    <3>1. Serves(s, c, s.running) BY <2>4, ServesStart, Zenon
    <3>2. SENDING \notin c.p_flags[s.running] BY <2>4, Zenon DEF Inv, Owner, Runnable
    <3> QED BY <2>4, <3>1, <3>2, Zenon DEF Told, Moves, Fifo, OwnerSame
  <2> QED BY <2>5, <2>6, Zenon
<1> HIDE DEF c
<1>3. Inv(n) /\ Told(s, n) BY <1>1, <1>2, NotifyLemma, Zenon
<1> HIDE DEF n
<1>4. unhold(n) = n BY <1>3, Zenon DEF Inv, Quiet, unhold, UnholdHead
<1>5. /\ t \in KType /\ Ipc(t) /\ Frames(t, {}) /\ Quiet(t)
      /\ ReadyQueues(t, {t.current_proc}) /\ Runnable(t, t.proc_ptr)
      /\ t.current_proc = t.proc_ptr /\ t.irq_return_proc = t.proc_ptr
      /\ IpcSame(n, t) /\ Bills(n, t)
  BY <1>3, SelectLemma, Zenon
<1> HIDE DEF t
<1>6. irq_level1(s, poll, wakeup, tick) = z
  BY <1>4, Zenon DEF irq_level1, cp32_timer_irq_dispatch, c, n, t
<1>7. t.proc_ptr \in Proc BY <1>5, Zenon DEF KType
<1>8. /\ z \in KType
      /\ z.p_flags = t.p_flags /\ z.p_getfrom = t.p_getfrom /\ z.p_sendto = t.p_sendto
      /\ z.p_callerq = t.p_callerq /\ z.p_int_blocked = t.p_int_blocked
      /\ z.p_blocked_frame = t.p_blocked_frame /\ z.held = t.held /\ z.rdy = t.rdy
      /\ z.blocked_return_proc = t.blocked_return_proc
      /\ z.switching = t.switching /\ z.halted = t.halted
      /\ z.last_selected_fs = t.last_selected_fs
      /\ z.proc_ptr = t.proc_ptr /\ z.current_proc = t.proc_ptr
      /\ z.irq_return_proc = t.proc_ptr /\ z.running = t.proc_ptr
      /\ z.copied = t.copied /\ z.bill_ptr = t.bill_ptr
  BY <1>5, <1>7, ZenonT(60) DEF KType
<1> HIDE DEF z
<1>9. Ipc(z) BY <1>5, <1>8, IpcFields, Zenon
<1>10. ReadyQueues(z, {z.current_proc}) BY <1>5, <1>7, <1>8, ReadyQueuesAway, Zenon
<1>11. Frames(z, {}) BY <1>5, <1>8 DEF Frames, FrameKept, Blocked
<1>12. Quiet(z) BY <1>5, <1>8, Zenon DEF Quiet
<1>13. Owner(z) BY <1>5, <1>8, Zenon DEF Owner, Runnable
<1>14. Inv(z) BY <1>8, <1>9, <1>10, <1>11, <1>12, <1>13, Zenon DEF Inv
<1>15. Steps(s, z)
  <2>1. /\ z.p_flags = n.p_flags /\ z.p_getfrom = n.p_getfrom /\ z.p_sendto = n.p_sendto
        /\ z.p_callerq = n.p_callerq /\ z.copied = n.copied
    BY <1>5, <1>8, Zenon DEF IpcSame
  <2>2. Bills(n, z) BY <1>5, <1>8, Zenon DEF Bills, Runnable
  <2>3. n.p_flags[s.running] \subseteq {SENDING, RECEIVING}
    BY <1>3, Zenon DEF Told, Inv, Owner, Runnable
  <2>4. Moves(s, n, s.running) BY <1>3, Zenon DEF Told
  <2> QED BY <2>1, <2>2, <2>3, <2>4, StepsFrom, Zenon
<1> QED BY <1>6, <1>14, <1>15, Zenon

-----------------------------------------------------------------------------
(* User processes *)

\* The memory t differs from s in the descriptor p, which nothing links.
Rebuilt(s, t, p) ==
    /\ \A x \in Proc \ {p} : /\ t.p_flags[x] = s.p_flags[x]
                             /\ t.p_getfrom[x] = s.p_getfrom[x]
                             /\ t.p_sendto[x] = s.p_sendto[x]
                             /\ t.p_blocked_frame[x] = s.p_blocked_frame[x]
    /\ t.p_callerq = s.p_callerq /\ t.p_int_blocked = s.p_int_blocked
    /\ s.p_callerq[p] = <<>> /\ (~s.p_int_blocked[p] \/ RECEIVING \notin t.p_flags[p])
    /\ SENDING \notin s.p_flags[p] /\ SENDING \notin t.p_flags[p]

\* Free or not mapped yet.
Dead(s, p) == s.p_flags[p] \cap {P_SLOT_FREE, NO_MAP} # {}

\* ... and a step of FS did that: no message is copied, only a process that is
\* reaped or executes leaves RECEIVE, and a dead descriptor is not billed.
Remade(s, t, p) ==
    /\ Rebuilt(s, t, p) /\ t.copied = {} /\ s.running = FS
    /\ RECEIVING \in s.p_flags[p] => t.p_flags[p] = {P_SLOT_FREE} \/ Replaced(s, t, p)
    /\ Dead(t, p) => /\ ~Blocked(t, p)
                     /\ t.bill_ptr # p \/ (t.bill_ptr = s.bill_ptr /\ Dead(s, p))
    /\ t.bill_ptr \in {s.bill_ptr, FS}

\* A descriptor without links may be rebuilt in any state but SENDING.
LEMMA IpcRebuilt ==
    ASSUME NEW s \in KType, NEW t \in KType, Ipc(s), NEW p \in Proc \ {IDLE, HARDWARE},
           Rebuilt(s, t, p)
    PROVE  Ipc(t)
<1>1. p \in Proc OBVIOUS
<1>2. \A x \in Proc : /\ SENDING \in t.p_flags[x] <=> SENDING \in s.p_flags[x]
                      /\ SENDING \in s.p_flags[x] => x # p /\ t.p_sendto[x] = s.p_sendto[x]
  BY Zenon DEF Rebuilt
<1>3. CallerQueues(t)
  <2> SUFFICES ASSUME NEW d \in Proc
               PROVE  Lists(t.p_callerq[d],
                            {x \in Proc : SENDING \in t.p_flags[x] /\ t.p_sendto[x] = d})
    BY Zenon DEF CallerQueues
  <2>1. {x \in Proc : SENDING \in t.p_flags[x] /\ t.p_sendto[x] = d}
         = {x \in Proc : SENDING \in s.p_flags[x] /\ s.p_sendto[x] = d}
    BY <1>2, Zenon
  <2> QED BY <2>1, Zenon DEF Ipc, CallerQueues, Rebuilt
<1>4. ASSUME NEW C \in SUBSET Proc, SendCycle(t, C) PROVE FALSE
  <2>1. SendCycle(s, C) BY <1>2, <1>4, Zenon DEF SendCycle
  <2> QED BY <2>1, Zenon DEF Ipc
<1>5. ASSUME NEW x \in Proc, Missed(t, x) PROVE FALSE
  <2>1. CASE x = p
    <3>1. RECEIVING \in t.p_flags[p] BY <1>5, <2>1, Zenon DEF Missed, Receiving
    <3>2. t.p_callerq[p] = <<>> /\ ~t.p_int_blocked[p] BY <3>1, Zenon DEF Rebuilt
    <3>3. Range(t.p_callerq[p]) = {} BY <3>2 DEF Range
    <3> QED BY <1>5, <2>1, <3>2, <3>3, Zenon DEF Missed
  <2>2. CASE x # p
    <3>1. /\ t.p_flags[x] = s.p_flags[x] /\ t.p_getfrom[x] = s.p_getfrom[x]
          /\ t.p_callerq[x] = s.p_callerq[x] /\ t.p_int_blocked[x] = s.p_int_blocked[x]
      BY <2>2, Zenon DEF Rebuilt
    <3>2. Missed(s, x) BY <1>5, <3>1, Zenon DEF Missed, Receiving
    <3> QED BY <3>2, Zenon DEF Ipc
  <2> QED BY <2>1, <2>2, Zenon
<1>6. Paired(t) BY <1>2, Zenon DEF Ipc, Paired, Rebuilt
<1>7. Runnable(t, IDLE) /\ Runnable(t, HARDWARE)
  <2>1. IDLE \in Proc \ {p} /\ HARDWARE \in Proc \ {p} BY ProcAssumption, Zenon DEF Proc
  <2> QED BY <2>1, Zenon DEF Ipc, Runnable, Rebuilt
<1> QED BY <1>3, <1>4, <1>5, <1>6, <1>7, Zenon DEF Ipc

\* FS rebuilds a descriptor that did not run: everything but the ready queues
\* of the invariant holds, and those hold of the others.
LEMMA InvRebuilt ==
    ASSUME NEW s, Inv(s), s.running = FS, NEW p \in Slots, ~Runnable(s, p),
           NEW t \in KType, Rebuilt(s, t, p), FrameKept(t, p),
           t.rdy = s.rdy, t.held = s.held, OwnerSame(s, t),
           t.irq_return_proc = s.irq_return_proc,
           t.blocked_return_proc # NIL =>
             t.blocked_return_proc = s.blocked_return_proc /\ t.blocked_return_proc # p
    PROVE  /\ Ipc(t) /\ Frames(t, {}) /\ Quiet(t) /\ Owner(t)
           /\ ReadyQueues(t, {FS} \cup {p}) /\ t.current_proc = FS /\ FS \in Proc
           /\ p \in Proc \ ({FS} \cup {IDLE, HARDWARE})
<1>1. p \in Proc /\ p \notin {IDLE, HARDWARE, FS} /\ FS \in Proc \ {p}
  BY ProcAssumption, Zenon DEF Slots, Proc
<1>2. s \in KType /\ Ipc(s) /\ Frames(s, {}) /\ Quiet(s) /\ Owner(s) /\ s.current_proc = FS
  BY Zenon DEF Inv, Owner
<1>3. Ipc(t) BY <1>1, <1>2, IpcRebuilt, Zenon
<1>4. Frames(t, {})
  <2>1. ASSUME NEW x \in Proc, x # p PROVE FrameKept(t, x) /\ (Blocked(t, x) <=> Blocked(s, x))
    BY <1>2, <2>1 DEF Frames, FrameKept, Blocked, Rebuilt
  <2>2. t.blocked_return_proc # NIL => t.blocked_return_proc \in Proc BY Zenon DEF KType
  <2> QED BY <1>2, <2>1, <2>2, Zenon DEF Frames
<1>5. Quiet(t) BY <1>2, Zenon DEF Quiet, OwnerSame
<1>6. Owner(t)
  <2>1. Runnable(t, FS) <=> Runnable(s, FS) BY <1>1, Zenon DEF Runnable, Rebuilt
  <2> QED BY <1>2, <2>1, Zenon DEF Owner, OwnerSame
<1>7. ReadyQueues(t, {FS} \cup {p})
  <2>1. ReadyQueues(s, {FS} \cup {p}) BY <1>1, <1>2, ReadyQueuesBlocked, Zenon DEF Inv
  <2> SUFFICES ASSUME NEW r \in Queues
               PROVE  Lists(t.rdy[r], {x \in Proc \ ({IDLE, HARDWARE} \cup ({FS} \cup {p})) :
                                         proc_queue(x) = r /\ Runnable(t, x)})
    BY Zenon DEF ReadyQueues
  <2>2. {x \in Proc \ ({IDLE, HARDWARE} \cup ({FS} \cup {p})) :
           proc_queue(x) = r /\ Runnable(t, x)}
         = {x \in Proc \ ({IDLE, HARDWARE} \cup ({FS} \cup {p})) :
              proc_queue(x) = r /\ Runnable(s, x)}
    BY Zenon DEF Runnable, Rebuilt
  <2> QED BY <2>1, <2>2, Zenon DEF ReadyQueues
<1> QED BY <1>1, <1>2, <1>3, <1>4, <1>5, <1>6, <1>7, Zenon DEF OwnerSame

\* A descriptor rebuilt in a state that does not run stays out of the queues.
LEMMA InvRebuiltStopped ==
    ASSUME NEW s, Inv(s), s.running = FS, NEW p \in Slots, ~Runnable(s, p),
           NEW t \in KType, Rebuilt(s, t, p), FrameKept(t, p), ~Runnable(t, p),
           t.rdy = s.rdy, t.held = s.held, OwnerSame(s, t),
           t.irq_return_proc = s.irq_return_proc,
           t.blocked_return_proc # NIL =>
             t.blocked_return_proc = s.blocked_return_proc /\ t.blocked_return_proc # p
    PROVE  Inv(t)
<1>1. /\ Ipc(t) /\ Frames(t, {}) /\ Quiet(t) /\ Owner(t)
      /\ ReadyQueues(t, {FS} \cup {p}) /\ t.current_proc = FS /\ p \in Proc
  BY InvRebuilt, Zenon
<1>2. ReadyQueues(t, {FS}) BY <1>1, ReadyQueuesBlocked, Zenon
<1> QED BY <1>1, <1>2, Zenon DEF Inv

\* What the handlers check before they touch a descriptor.
LEMMA SlotLemma ==
    ASSUME NEW s, Inv(s), s.running = FS, NEW p \in Slots,
           s.p_flags[p] \in {{P_SLOT_FREE}, {NO_MAP}, {RECEIVING}}
    PROVE  /\ s \in KType /\ p \in Proc /\ MM \in Proc /\ ~Runnable(s, p)
           /\ SENDING \notin s.p_flags[p]
           /\ s.irq_return_proc # p
           /\ s.p_flags[p] # {RECEIVING} => s.blocked_return_proc # p
<1>1. p \in Proc /\ p # FS /\ MM \in Proc /\ p # NIL BY ProcAssumption, Zenon DEF Slots, Proc
<1>2. s \in KType /\ Owner(s) /\ Frames(s, {}) BY Zenon DEF Inv
<1>3. ~Runnable(s, p) /\ SENDING \notin s.p_flags[p]
  BY Zenon DEF Runnable, SENDING, RECEIVING, P_SLOT_FREE, NO_MAP
<1>4. s.irq_return_proc # p BY <1>1, <1>2, Zenon DEF Owner
<1>5. s.p_flags[p] # {RECEIVING} => ~Blocked(s, p)
  BY Zenon DEF Blocked, SENDING, RECEIVING, P_SLOT_FREE, NO_MAP
<1> QED BY <1>1, <1>2, <1>3, <1>4, <1>5, Zenon DEF Frames

\* The descriptor p as memset and the new flags leave it.
LEMMA ClearedLemma ==
    ASSUME NEW s, Inv(s), s.running = FS, NEW p \in Slots, process_detached(s, p),
           s.p_flags[p] \in {{P_SLOT_FREE}, {NO_MAP}, {RECEIVING}},
           NEW flags \in {{P_SLOT_FREE}, {NO_MAP}}, NEW getfrom \in {MM, ANY}
    PROVE  LET t == Cleared(s, p, flags, getfrom)
           IN  /\ t \in KType /\ Rebuilt(s, t, p) /\ FrameKept(t, p) /\ ~Runnable(t, p)
               /\ t.rdy = s.rdy /\ t.held = s.held /\ OwnerSame(s, t)
               /\ t.irq_return_proc = s.irq_return_proc
               /\ t.blocked_return_proc = s.blocked_return_proc
<1> DEFINE t == Cleared(s, p, flags, getfrom)
<1>1. s \in KType /\ p \in Proc /\ MM \in Proc /\ SENDING \notin s.p_flags[p]
  BY SlotLemma, Zenon
<1>2. s.p_callerq[p] = <<>> /\ ~s.p_int_blocked[p] BY Zenon DEF process_detached
<1>3. flags \in SUBSET Flags /\ getfrom \in Proc \cup {ANY} /\ <<>> \in Seq(Proc)
  BY <1>1 DEF Flags
<1>4. t \in KType BY <1>1, <1>3, ZenonT(60) DEF Cleared, KType
<1>5. /\ t.p_flags = [s.p_flags EXCEPT ![p] = flags]
      /\ t.p_getfrom = [s.p_getfrom EXCEPT ![p] = getfrom]
      /\ t.p_sendto = [s.p_sendto EXCEPT ![p] = MM]
      /\ t.p_callerq = [s.p_callerq EXCEPT ![p] = <<>>]
      /\ t.p_int_blocked = [s.p_int_blocked EXCEPT ![p] = FALSE]
      /\ t.p_blocked_frame = [s.p_blocked_frame EXCEPT ![p] = "none"]
      /\ t.rdy = s.rdy /\ t.held = s.held /\ OwnerSame(s, t)
      /\ t.irq_return_proc = s.irq_return_proc
      /\ t.blocked_return_proc = s.blocked_return_proc
  BY <1>1 DEF Cleared, KType, OwnerSame
<1> HIDE DEF t
<1>6. /\ s.p_flags \in [Proc -> SUBSET Flags] /\ s.p_getfrom \in [Proc -> Proc \cup {ANY}]
      /\ s.p_sendto \in [Proc -> Proc]
      /\ s.p_callerq \in [Proc -> Seq(Proc)] /\ s.p_int_blocked \in [Proc -> BOOLEAN]
      /\ s.p_blocked_frame \in [Proc -> {"none", "valid", "mismatch"}]
  BY <1>1, KFields, Zenon
<1>7. t.p_callerq = s.p_callerq
  <2>1. [s.p_callerq EXCEPT ![p] = s.p_callerq[p]] = s.p_callerq
    BY <1>1, <1>6, ExceptSame, Zenon
  <2> QED BY <1>2, <1>5, <2>1, Zenon
<1>8. t.p_int_blocked = s.p_int_blocked
  <2>1. [s.p_int_blocked EXCEPT ![p] = s.p_int_blocked[p]] = s.p_int_blocked
    BY <1>1, <1>6, ExceptSame, Zenon
  <2>2. s.p_int_blocked[p] = FALSE BY <1>1, <1>2, <1>6, Zenon
  <2> QED BY <1>5, <2>1, <2>2, Zenon
<1>9. t.p_flags[p] = flags /\ t.p_blocked_frame[p] = "none" BY <1>1, <1>5, <1>6, Zenon
<1>10. \A x \in Proc \ {p} : /\ t.p_flags[x] = s.p_flags[x]
                             /\ t.p_getfrom[x] = s.p_getfrom[x]
                             /\ t.p_sendto[x] = s.p_sendto[x]
                             /\ t.p_blocked_frame[x] = s.p_blocked_frame[x]
  BY <1>5, <1>6, Zenon
<1>11. SENDING \notin flags /\ flags # {} /\ flags \cap {SENDING, RECEIVING} = {}
  BY Zenon DEF SENDING, RECEIVING, P_SLOT_FREE, NO_MAP
<1>12. Rebuilt(s, t, p) BY <1>1, <1>2, <1>7, <1>8, <1>9, <1>10, <1>11, ZenonT(60) DEF Rebuilt
<1>13. FrameKept(t, p) /\ ~Runnable(t, p) BY <1>9, <1>11, Zenon DEF FrameKept, Blocked, Runnable
<1> QED BY <1>4, <1>5, <1>12, <1>13, ZenonT(40) DEF t

\* ... with the flags given, and no message.
LEMMA ClearedFlags ==
    ASSUME NEW s \in KType, NEW p \in Slots, NEW flags, NEW getfrom
    PROVE  LET t == Cleared(s, p, flags, getfrom)
           IN  t.copied = {} /\ t.bill_ptr = s.bill_ptr /\ t.p_flags[p] = flags
<1>1. p \in Proc BY Zenon DEF Slots, Proc
<1> QED BY <1>1, Zenon DEF Cleared, KType

\* A free descriptor becomes reserved.
LEMMA ReserveLemma ==
    ASSUME NEW s, Inv(s), s.running = FS, NEW p \in Slots, Free(s, p)
    PROVE  Inv(cp32_proc_reserve(s, p)) /\ Remade(s, cp32_proc_reserve(s, p), p)
<1>1. process_detached(s, p) /\ s.p_flags[p] = {P_SLOT_FREE} BY Zenon DEF Free
<1>2. ~Runnable(s, p) /\ s.blocked_return_proc # p
  BY <1>1, SlotLemma, Zenon DEF P_SLOT_FREE, RECEIVING
<1> DEFINE t == Cleared(s, p, {NO_MAP}, ANY)
<1>3. /\ t \in KType /\ Rebuilt(s, t, p) /\ FrameKept(t, p) /\ ~Runnable(t, p)
      /\ t.rdy = s.rdy /\ t.held = s.held /\ OwnerSame(s, t)
      /\ t.irq_return_proc = s.irq_return_proc
      /\ t.blocked_return_proc = s.blocked_return_proc
  BY <1>1, ClearedLemma, Zenon
<1>4. t.copied = {} /\ t.bill_ptr = s.bill_ptr /\ t.p_flags[p] = {NO_MAP}
  <2>1. s \in KType BY Zenon DEF Inv
  <2> QED BY <2>1, ClearedFlags
<1> HIDE DEF t
<1>5. Inv(t) BY <1>2, <1>3, InvRebuiltStopped, Zenon
<1>6. Remade(s, t, p)
  <2>1. RECEIVING \notin s.p_flags[p] /\ Dead(s, p) /\ ~Blocked(t, p)
    BY <1>1, <1>4, Zenon DEF Dead, Blocked, P_SLOT_FREE, NO_MAP, SENDING, RECEIVING
  <2> QED BY <1>3, <1>4, <2>1, Zenon DEF Remade
<1> QED BY <1>5, <1>6, Zenon DEF cp32_proc_reserve, t

\* A descriptor goes back to the pool, and no pointer keeps it.
LEMMA ReleaseLemma ==
    ASSUME NEW s, Inv(s), s.running = FS, NEW p \in Slots, process_detached(s, p),
           s.p_flags[p] \in {{NO_MAP}, {RECEIVING}}
    PROVE  Inv(cp32_proc_release(s, p)) /\ Remade(s, cp32_proc_release(s, p), p)
<1>1. ~Runnable(s, p) /\ s.irq_return_proc # p /\ s \in KType BY SlotLemma, Zenon
<1> DEFINE c == Cleared(s, p, {P_SLOT_FREE}, MM)
           t == [c EXCEPT !.bill_ptr = IF @ = p THEN FS ELSE @,
                          !.irq_return_proc = IF @ = p THEN NIL ELSE @,
                          !.blocked_return_proc = IF @ = p THEN NIL ELSE @]
<1>2. /\ c \in KType /\ Rebuilt(s, c, p) /\ FrameKept(c, p) /\ ~Runnable(c, p)
      /\ c.rdy = s.rdy /\ c.held = s.held /\ OwnerSame(s, c)
      /\ c.irq_return_proc = s.irq_return_proc
      /\ c.blocked_return_proc = s.blocked_return_proc
  BY ClearedLemma, Zenon
<1>3. cp32_proc_release(s, p) = t BY Zenon DEF cp32_proc_release
<1>4. c.copied = {} /\ c.bill_ptr = s.bill_ptr /\ c.p_flags[p] = {P_SLOT_FREE}
  BY <1>1, ClearedFlags
<1> HIDE DEF c
<1>5. FS \in Proc BY ProcAssumption, Zenon DEF Proc
<1>6. t \in KType
  <2> DEFINE bill == IF c.bill_ptr = p THEN FS ELSE c.bill_ptr
             back == IF c.irq_return_proc = p THEN NIL ELSE c.irq_return_proc
             blocked == IF c.blocked_return_proc = p THEN NIL ELSE c.blocked_return_proc
  <2>1. bill \in Proc /\ back \in Proc \cup {NIL} /\ blocked \in Proc \cup {NIL}
    BY <1>2, <1>5, Zenon DEF KType
  <2>2. t = [c EXCEPT !.bill_ptr = bill, !.irq_return_proc = back,
                      !.blocked_return_proc = blocked]
    OBVIOUS
  <2> HIDE DEF bill, back, blocked, t
  <2> QED BY <1>2, <2>1, <2>2, ZenonT(60) DEF KType
<1>7. /\ t.p_flags = c.p_flags /\ t.p_getfrom = c.p_getfrom /\ t.p_sendto = c.p_sendto
      /\ t.p_callerq = c.p_callerq /\ t.p_int_blocked = c.p_int_blocked
      /\ t.p_blocked_frame = c.p_blocked_frame
      /\ t.rdy = c.rdy /\ t.held = c.held /\ OwnerSame(c, t)
      /\ t.irq_return_proc = IF c.irq_return_proc = p THEN NIL ELSE c.irq_return_proc
      /\ t.blocked_return_proc
           = IF c.blocked_return_proc = p THEN NIL ELSE c.blocked_return_proc
      /\ t.copied = c.copied /\ t.bill_ptr = IF c.bill_ptr = p THEN FS ELSE c.bill_ptr
  BY <1>2, Zenon DEF KType, OwnerSame
<1> HIDE DEF t
<1>8. Rebuilt(s, t, p) BY <1>2, <1>7 DEF Rebuilt
<1>9. FrameKept(t, p) /\ ~Runnable(t, p) BY <1>2, <1>7, Zenon DEF FrameKept, Blocked, Runnable
<1>10. t.irq_return_proc = s.irq_return_proc BY <1>1, <1>2, <1>7, Zenon
<1>11. t.rdy = s.rdy /\ t.held = s.held /\ OwnerSame(s, t) BY <1>2, <1>7, Zenon DEF OwnerSame
<1>12. t.blocked_return_proc # NIL =>
         t.blocked_return_proc = s.blocked_return_proc /\ t.blocked_return_proc # p
  BY <1>2, <1>7, Zenon
<1>13. Inv(t) BY <1>1, <1>6, <1>8, <1>9, <1>10, <1>11, <1>12, InvRebuiltStopped, Zenon
<1>14. Remade(s, t, p)
  <2>1. t.p_flags[p] = {P_SLOT_FREE} /\ t.copied = {} BY <1>7, <1>4, Zenon
  <2>2. t.bill_ptr \in {s.bill_ptr, FS} /\ t.bill_ptr # p
    <3>1. p # FS BY ProcAssumption, Zenon DEF Slots
    <3> QED BY <1>7, <1>4, <3>1, Zenon
  <2>3. ~Blocked(t, p) BY <2>1, Zenon DEF Blocked, P_SLOT_FREE, SENDING, RECEIVING
  <2> QED BY <1>8, <2>1, <2>2, <2>3, Zenon DEF Remade
<1> QED BY <1>3, <1>13, <1>14, Zenon

\* A reserved descriptor starts to run: it is queued once.
LEMMA PublishLemma ==
    ASSUME NEW s, Inv(s), s.running = FS, NEW p \in Slots, process_detached(s, p),
           s.p_flags[p] = {NO_MAP}
    PROVE  Inv(cp32_proc_publish(s, p)) /\ Remade(s, cp32_proc_publish(s, p), p)
<1> DEFINE w == [s EXCEPT !.p_flags[p] = {}, !.copied = {}]
           t == ready(w, p)
<1>1. /\ ~Runnable(s, p) /\ s \in KType /\ p \in Proc /\ SENDING \notin s.p_flags[p]
      /\ s.blocked_return_proc # p
  BY SlotLemma, Zenon DEF NO_MAP, RECEIVING
<1>2. w \in KType BY <1>1, Zenon DEF KType
<1>3. /\ w.p_flags = [s.p_flags EXCEPT ![p] = {}]
      /\ w.p_getfrom = s.p_getfrom /\ w.p_sendto = s.p_sendto
      /\ w.p_callerq = s.p_callerq /\ w.p_int_blocked = s.p_int_blocked
      /\ w.p_blocked_frame = s.p_blocked_frame
      /\ w.rdy = s.rdy /\ w.held = s.held /\ OwnerSame(s, w)
      /\ w.irq_return_proc = s.irq_return_proc
      /\ w.blocked_return_proc = s.blocked_return_proc
      /\ w.copied = {} /\ w.bill_ptr = s.bill_ptr
  BY <1>1, Zenon DEF KType, OwnerSame
<1> HIDE DEF w
<1>4. w.p_flags[p] = {} /\ \A x \in Proc \ {p} : w.p_flags[x] = s.p_flags[x]
  <2>1. s.p_flags \in [Proc -> SUBSET Flags] BY <1>1, KFields, Zenon
  <2> QED BY <1>1, <1>3, <2>1, Zenon
<1>5. Rebuilt(s, w, p) BY <1>1, <1>3, <1>4, Zenon DEF Rebuilt, process_detached
<1>6. FrameKept(w, p)
  <2>1. FrameKept(s, p) /\ ~Blocked(s, p)
    BY <1>1, Zenon DEF Inv, Frames, Blocked, NO_MAP, SENDING, RECEIVING
  <2> QED BY <1>3, <1>4, <2>1, Zenon DEF FrameKept, Blocked
<1>7. /\ Ipc(w) /\ Frames(w, {}) /\ Quiet(w) /\ Owner(w)
      /\ ReadyQueues(w, {FS} \cup {p}) /\ w.current_proc = FS
      /\ p \in Proc \ ({FS} \cup {IDLE, HARDWARE})
  BY <1>1, <1>2, <1>3, <1>5, <1>6, InvRebuilt, ZenonT(40)
<1>8. Runnable(w, p) BY <1>4, Zenon DEF Runnable
<1>9. /\ t \in KType /\ ReadyQueues(t, {FS}) /\ IpcSame(w, t) /\ OwnerSame(w, t)
      /\ t.irq_return_proc = w.irq_return_proc /\ t.bill_ptr = w.bill_ptr
  BY <1>2, <1>7, <1>8, ReadyLemma, ZenonT(40)
<1> HIDE DEF t
<1>10. Ipc(t) BY <1>2, <1>7, <1>9, IpcFields, Zenon DEF IpcSame
<1>11. Frames(t, {}) BY <1>7, <1>9 DEF IpcSame, Frames, FrameKept, Blocked
<1>12. Quiet(t) BY <1>7, <1>9, Zenon DEF IpcSame, OwnerSame, Quiet
<1>13. Owner(t) BY <1>7, <1>9, Zenon DEF IpcSame, OwnerSame, Owner, Runnable
<1>14. ReadyQueues(t, {t.current_proc}) BY <1>7, <1>9, Zenon DEF OwnerSame
<1>15. Inv(t) BY <1>9, <1>10, <1>11, <1>12, <1>13, <1>14, Zenon DEF Inv
<1>16. Remade(s, t, p)
  <2>1. Rebuilt(s, t, p) BY <1>5, <1>9 DEF Rebuilt, IpcSame
  <2>2. ~Dead(t, p) BY <1>4, <1>9, Zenon DEF Dead, IpcSame
  <2>3. RECEIVING \notin s.p_flags[p] BY Zenon DEF NO_MAP, RECEIVING
  <2> QED BY <1>3, <1>9, <2>1, <2>2, <2>3, ZenonT(40) DEF Remade, IpcSame
<1> QED BY <1>15, <1>16, Zenon DEF cp32_proc_publish, t, w

\* The commit of exec wakes the process without a message: it is queued once.
LEMMA ReplaceLemma ==
    ASSUME NEW s, Inv(s), s.running = FS, NEW p \in Slots, AwaitsFS(s, p),
           s.p_callerq[p] = <<>>, s.blocked_return_proc # p
    PROVE  Inv(application_replace(s, p)) /\ Remade(s, application_replace(s, p), p)
<1> DEFINE w == [s EXCEPT !.p_flags[p] = {}, !.p_getfrom[p] = ANY, !.p_sendto[p] = MM,
                          !.p_blocked_frame[p] = "none", !.copied = {}]
           t == ready(w, p)
<1>1. /\ ~Runnable(s, p) /\ s \in KType /\ p \in Proc /\ MM \in Proc
      /\ SENDING \notin s.p_flags[p]
  BY SlotLemma, Zenon DEF AwaitsFS
<1>2. w \in KType BY <1>1, ZenonT(60) DEF KType
<1>3. /\ w.p_flags = [s.p_flags EXCEPT ![p] = {}]
      /\ w.p_getfrom = [s.p_getfrom EXCEPT ![p] = ANY]
      /\ w.p_sendto = [s.p_sendto EXCEPT ![p] = MM]
      /\ w.p_callerq = s.p_callerq /\ w.p_int_blocked = s.p_int_blocked
      /\ w.p_blocked_frame = [s.p_blocked_frame EXCEPT ![p] = "none"]
      /\ w.rdy = s.rdy /\ w.held = s.held /\ OwnerSame(s, w)
      /\ w.irq_return_proc = s.irq_return_proc
      /\ w.blocked_return_proc = s.blocked_return_proc
      /\ w.copied = {} /\ w.bill_ptr = s.bill_ptr
  BY <1>1 DEF KType, OwnerSame
<1> HIDE DEF w
<1>4. /\ w.p_flags[p] = {} /\ w.p_blocked_frame[p] = "none"
      /\ \A x \in Proc \ {p} : /\ w.p_flags[x] = s.p_flags[x]
                               /\ w.p_getfrom[x] = s.p_getfrom[x]
                               /\ w.p_sendto[x] = s.p_sendto[x]
                               /\ w.p_blocked_frame[x] = s.p_blocked_frame[x]
  <2>1. /\ s.p_flags \in [Proc -> SUBSET Flags] /\ s.p_getfrom \in [Proc -> Proc \cup {ANY}]
        /\ s.p_sendto \in [Proc -> Proc]
        /\ s.p_blocked_frame \in [Proc -> {"none", "valid", "mismatch"}]
    BY <1>1, KFields, Zenon
  <2> QED BY <1>1, <1>3, <2>1, Zenon
<1>5. Rebuilt(s, w, p) BY <1>1, <1>3, <1>4, Zenon DEF Rebuilt
<1>6. FrameKept(w, p) BY <1>4, Zenon DEF FrameKept, Blocked
<1>7. /\ Ipc(w) /\ Frames(w, {}) /\ Quiet(w) /\ Owner(w)
      /\ ReadyQueues(w, {FS} \cup {p}) /\ w.current_proc = FS
      /\ p \in Proc \ ({FS} \cup {IDLE, HARDWARE})
  BY <1>1, <1>2, <1>3, <1>5, <1>6, InvRebuilt, ZenonT(40)
<1>8. Runnable(w, p) BY <1>4, Zenon DEF Runnable
<1>9. /\ t \in KType /\ ReadyQueues(t, {FS}) /\ IpcSame(w, t) /\ OwnerSame(w, t)
      /\ t.irq_return_proc = w.irq_return_proc /\ t.bill_ptr = w.bill_ptr
  BY <1>2, <1>7, <1>8, ReadyLemma, ZenonT(40)
<1> HIDE DEF t
<1>10. Ipc(t) BY <1>2, <1>7, <1>9, IpcFields, Zenon DEF IpcSame
<1>11. Frames(t, {}) BY <1>7, <1>9 DEF IpcSame, Frames, FrameKept, Blocked
<1>12. Quiet(t) BY <1>7, <1>9, Zenon DEF IpcSame, OwnerSame, Quiet
<1>13. Owner(t) BY <1>7, <1>9, Zenon DEF IpcSame, OwnerSame, Owner, Runnable
<1>14. ReadyQueues(t, {t.current_proc}) BY <1>7, <1>9, Zenon DEF OwnerSame
<1>15. Inv(t) BY <1>9, <1>10, <1>11, <1>12, <1>13, <1>14, Zenon DEF Inv
<1>16. t = application_replace(s, p) BY Zenon DEF application_replace, t, w
<1>17. Remade(s, t, p)
  <2>1. Rebuilt(s, t, p) BY <1>5, <1>9 DEF Rebuilt, IpcSame
  <2>2. ~Dead(t, p) BY <1>4, <1>9, Zenon DEF Dead, IpcSame
  <2>3. Replaced(s, t, p) BY <1>16, Zenon DEF Replaced
  <2> QED BY <1>3, <1>9, <2>1, <2>2, <2>3, ZenonT(40) DEF Remade, IpcSame
<1> QED BY <1>15, <1>16, <1>17, Zenon

\* The child of a fork waits for FS as its parent does, with the parent's
\* snapshot.
LEMMA CloneLemma ==
    ASSUME NEW s, Inv(s), s.running = FS, NEW parent \in Slots, NEW child \in Slots,
           AwaitsFS(s, parent), Free(s, child)
    PROVE  /\ Inv(cp32_proc_clone(s, parent, child))
           /\ Remade(s, cp32_proc_clone(s, parent, child), child)
<1> DEFINE t == cp32_proc_clone(s, parent, child)
           g == s.p_getfrom[parent]
           d == s.p_sendto[parent]
           f == s.p_blocked_frame[parent]
<1>1. /\ s \in KType /\ child \in Proc /\ ~Runnable(s, child) /\ SENDING \notin s.p_flags[child]
      /\ s.blocked_return_proc # child
  BY SlotLemma, Zenon DEF Free, P_SLOT_FREE, RECEIVING
<1>2. parent \in Proc BY Zenon DEF Slots, Proc
<1>3. s.p_callerq[child] = <<>> /\ ~s.p_int_blocked[child] BY Zenon DEF Free, process_detached
<1>4. /\ s.p_flags \in [Proc -> SUBSET Flags] /\ s.p_getfrom \in [Proc -> Proc \cup {ANY}]
      /\ s.p_sendto \in [Proc -> Proc]
      /\ s.p_callerq \in [Proc -> Seq(Proc)] /\ s.p_int_blocked \in [Proc -> BOOLEAN]
      /\ s.p_blocked_frame \in [Proc -> {"none", "valid", "mismatch"}]
  BY <1>1, KFields, Zenon
<1>5. f = "valid"
  <2>1. FrameKept(s, parent) BY <1>2, Zenon DEF Inv, Frames
  <2>2. Blocked(s, parent) BY Zenon DEF AwaitsFS, Blocked
  <2> QED BY <2>1, <2>2, Zenon DEF FrameKept
<1>6. /\ g \in Proc \cup {ANY} /\ d \in Proc /\ f \in {"none", "valid", "mismatch"}
      /\ {RECEIVING} \in SUBSET Flags /\ <<>> \in Seq(Proc)
  BY <1>2, <1>4 DEF Flags
<1>7. t = [s EXCEPT !.p_flags[child] = {RECEIVING}, !.p_getfrom[child] = g,
                    !.p_sendto[child] = d, !.p_callerq[child] = <<>>,
                    !.p_int_blocked[child] = FALSE, !.p_blocked_frame[child] = f,
                    !.copied = {}]
  BY Zenon DEF cp32_proc_clone
<1> HIDE DEF t, g, d, f
<1>8. t \in KType BY <1>1, <1>6, <1>7, ZenonT(60) DEF KType
<1>9. /\ t.p_flags = [s.p_flags EXCEPT ![child] = {RECEIVING}]
      /\ t.p_getfrom = [s.p_getfrom EXCEPT ![child] = g]
      /\ t.p_sendto = [s.p_sendto EXCEPT ![child] = d]
      /\ t.p_callerq = [s.p_callerq EXCEPT ![child] = <<>>]
      /\ t.p_int_blocked = [s.p_int_blocked EXCEPT ![child] = FALSE]
      /\ t.p_blocked_frame = [s.p_blocked_frame EXCEPT ![child] = f]
      /\ t.rdy = s.rdy /\ t.held = s.held /\ OwnerSame(s, t)
      /\ t.irq_return_proc = s.irq_return_proc
      /\ t.blocked_return_proc = s.blocked_return_proc
      /\ t.copied = {} /\ t.bill_ptr = s.bill_ptr
  BY <1>1, <1>7 DEF KType, OwnerSame
<1>10. t.p_callerq = s.p_callerq
  <2>1. [s.p_callerq EXCEPT ![child] = s.p_callerq[child]] = s.p_callerq
    BY <1>1, <1>4, ExceptSame, Zenon
  <2> QED BY <1>3, <1>9, <2>1, Zenon
<1>11. t.p_int_blocked = s.p_int_blocked
  <2>1. [s.p_int_blocked EXCEPT ![child] = s.p_int_blocked[child]] = s.p_int_blocked
    BY <1>1, <1>4, ExceptSame, Zenon
  <2>2. s.p_int_blocked[child] = FALSE BY <1>1, <1>3, <1>4, Zenon
  <2> QED BY <1>9, <2>1, <2>2, Zenon
<1>12. t.p_flags[child] = {RECEIVING} /\ t.p_blocked_frame[child] = "valid"
  BY <1>1, <1>4, <1>5, <1>9, Zenon
<1>13. \A x \in Proc \ {child} : /\ t.p_flags[x] = s.p_flags[x]
                                 /\ t.p_getfrom[x] = s.p_getfrom[x]
                                 /\ t.p_sendto[x] = s.p_sendto[x]
                                 /\ t.p_blocked_frame[x] = s.p_blocked_frame[x]
  BY <1>4, <1>9
<1>14. Rebuilt(s, t, child)
  BY <1>1, <1>3, <1>10, <1>11, <1>12, <1>13, Zenon DEF Rebuilt, SENDING, RECEIVING
<1>15. FrameKept(t, child) /\ ~Runnable(t, child)
  BY <1>12, Zenon DEF FrameKept, Blocked, Runnable
<1>16. Inv(t) BY <1>1, <1>8, <1>9, <1>14, <1>15, InvRebuiltStopped, ZenonT(60)
<1>17. Remade(s, t, child)
  <2>1. ~Dead(t, child) BY <1>12, Zenon DEF Dead, P_SLOT_FREE, NO_MAP, RECEIVING
  <2>2. RECEIVING \notin s.p_flags[child] BY Zenon DEF Free, P_SLOT_FREE, RECEIVING
  <2> QED BY <1>9, <1>14, <2>1, <2>2, Zenon DEF Remade
<1> QED BY <1>16, <1>17, Zenon DEF t

-----------------------------------------------------------------------------
(* The theorems *)

\* main() leaves a memory the invariant holds of.
LEMMA BootLemma == Inv(BootMemory)
<1> DEFINE s == BootMemory
<1>1. {IDLE, HARDWARE, FS, MM} \subseteq Proc /\ {IDLE, HARDWARE, FS, MM} \subseteq Booted
  BY ProcAssumption, Zenon DEF Proc, Booted
<1>2. s \in KType
  <2> DEFINE flags == [p \in Proc |-> IF p \in Booted THEN {}
                                       ELSE IF p \in Reserved THEN {P_STOP} ELSE {P_SLOT_FREE}]
             mm == [p \in Proc |-> MM]
             empty == [p \in Proc |-> <<>>]
             clear == [p \in Proc |-> FALSE]
             none == [p \in Proc |-> "none"]
  <2>1. flags \in [Proc -> SUBSET Flags] BY Zenon DEF Flags
  <2>2. mm \in [Proc -> Proc] /\ mm \in [Proc -> Proc \cup {ANY}] BY <1>1, Zenon
  <2>3. empty \in [Proc -> Seq(Proc)] OBVIOUS
  <2>4. clear \in [Proc -> BOOLEAN] OBVIOUS
  <2>5. none \in [Proc -> {"none", "valid", "mismatch"}] OBVIOUS
  <2>6. TASK_Q \in Queues /\ <<>> \in Seq(Proc) /\ BootQueue \in [Queues -> Seq(Proc)]
    BY BootAssumption DEF Queues, NQ, TASK_Q
  <2>7. s = [p_flags |-> flags, p_getfrom |-> mm, p_sendto |-> mm, p_callerq |-> empty,
             p_int_blocked |-> clear, p_blocked_frame |-> none, copied |-> {},
             held |-> <<>>, rdy |-> BootQueue, next_queue |-> TASK_Q, switching |-> FALSE,
             proc_ptr |-> IDLE, current_proc |-> IDLE, bill_ptr |-> IDLE,
             irq_return_proc |-> FS, blocked_return_proc |-> NIL, last_selected_fs |-> NIL,
             running |-> IDLE, halted |-> FALSE]
    BY Zenon DEF BootMemory
  <2> HIDE DEF flags, mm, empty, clear, none
  <2> QED BY <1>1, <2>1, <2>2, <2>3, <2>4, <2>5, <2>6, <2>7, Zenon DEF KType
<1>3. /\ \A p \in Proc : s.p_flags[p] = IF p \in Booted THEN {}
                                       ELSE IF p \in Reserved THEN {P_STOP} ELSE {P_SLOT_FREE}
      /\ \A p \in Proc : s.p_callerq[p] = <<>> /\ ~s.p_int_blocked[p]
                        /\ s.p_blocked_frame[p] = "none"
      /\ s.held = <<>> /\ s.rdy = BootQueue /\ ~s.switching /\ ~s.halted
      /\ s.proc_ptr = IDLE /\ s.current_proc = IDLE /\ s.running = IDLE
      /\ s.irq_return_proc = FS /\ s.blocked_return_proc = NIL /\ s.last_selected_fs = NIL
  BY Zenon DEF BootMemory
<1> HIDE DEF s
<1>4. /\ \A p \in Proc : SENDING \notin s.p_flags[p] /\ RECEIVING \notin s.p_flags[p]
      /\ \A p \in Proc : Runnable(s, p) <=> p \in Booted
  BY <1>3 DEF Runnable, SENDING, RECEIVING, P_STOP, P_SLOT_FREE
<1>5. Ipc(s)
  <2>1. CallerQueues(s)
    <3> SUFFICES ASSUME NEW d \in Proc
                 PROVE  Lists(s.p_callerq[d],
                              {p \in Proc : SENDING \in s.p_flags[p] /\ s.p_sendto[p] = d})
      BY Zenon DEF CallerQueues
    <3>1. {p \in Proc : SENDING \in s.p_flags[p] /\ s.p_sendto[p] = d} = {} BY <1>4, Zenon
    <3>2. Lists(<<>>, {}) BY DEF Lists, Range, IsInjective
    <3> QED BY <1>3, <3>1, <3>2, Zenon
  <2>2. \A C \in SUBSET Proc : ~SendCycle(s, C) BY <1>4, Zenon DEF SendCycle
  <2>3. \A p \in Proc : ~Missed(s, p)
    <3>1. \A p \in Proc : ~Receiving(s, p) BY <1>4, Zenon DEF Receiving
    <3> QED BY <3>1, Zenon DEF Missed
  <2>4. Paired(s) BY <1>4, Zenon DEF Paired
  <2>5. Runnable(s, IDLE) /\ Runnable(s, HARDWARE) BY <1>1, <1>4, Zenon
  <2> QED BY <2>1, <2>2, <2>3, <2>4, <2>5, Zenon DEF Ipc
<1>6. ReadyQueues(s, {s.current_proc})
  <2> SUFFICES ASSUME NEW q \in Queues
               PROVE  Lists(s.rdy[q], {p \in Proc \ ({IDLE, HARDWARE} \cup {s.current_proc}) :
                                         proc_queue(p) = q /\ Runnable(s, p)})
    BY Zenon DEF ReadyQueues
  <2>1. {p \in Proc \ ({IDLE, HARDWARE} \cup {s.current_proc}) : proc_queue(p) = q /\ Runnable(s, p)}
         = {p \in Booted \ {IDLE, HARDWARE} : proc_queue(p) = q}
    BY <1>3, <1>4, Zenon DEF Booted, Proc
  <2> QED BY <1>3, <2>1, BootAssumption, Zenon
<1>7. Frames(s, {})
  <2>1. \A p \in Proc : ~Blocked(s, p) BY <1>4, Zenon DEF Blocked
  <2> QED BY <1>3, <2>1, Zenon DEF Frames, FrameKept
<1>8. Quiet(s) BY <1>3, Zenon DEF Quiet
<1>9. Owner(s) BY <1>1, <1>3, <1>4, Zenon DEF Owner
<1>10. Inv(s) BY <1>2, <1>5, <1>6, <1>7, <1>8, <1>9, Zenon DEF Inv
<1> QED BY <1>10, Zenon DEF s

\* Every step preserves the invariant, and is a trap or an interrupt, or a step
\* of FS on one descriptor.
LEMMA StepLemma ==
    ASSUME Inv(k), Next
    PROVE  Inv(k') /\ (Steps(k, k') \/ \E p \in Slots : Remade(k, k', p))
<1>1. ASSUME NEW f \in {SEND, RECEIVE, BOTH}, NEW e \in Proc \cup {ANY}, TaskIpc(f, e)
      PROVE  Inv(k') /\ Steps(k, k')
  <2>1. k.running \notin {IDLE, HARDWARE} BY <1>1, ProcAssumption, Zenon DEF TaskIpc
  <2> QED BY <1>1, <2>1, DispatchLemma, Zenon DEF TaskIpc
<1>2. ASSUME NEW poll \in BOOLEAN, NEW wakeup \in BOOLEAN, NEW tick \in BOOLEAN,
             TimerIrq(poll, wakeup, tick)
      PROVE  Inv(k') /\ Steps(k, k')
  BY <1>2, IrqLemma, Zenon DEF TimerIrq
<1>3. ASSUME NEW p \in Slots, Reserve(p) PROVE Inv(k') /\ Remade(k, k', p)
  BY <1>3, ReserveLemma, Zenon DEF Reserve, FsRuns
<1>4. ASSUME NEW p \in Slots, Publish(p) PROVE Inv(k') /\ Remade(k, k', p)
  BY <1>4, PublishLemma, Zenon DEF Publish, FsRuns
<1>5. ASSUME NEW p \in Slots, Release(p) PROVE Inv(k') /\ Remade(k, k', p)
  <2>1. k.p_flags[p] \in {{NO_MAP}, {RECEIVING}} BY <1>5, Zenon DEF Release, AwaitsFS
  <2> QED BY <1>5, <2>1, ReleaseLemma, Zenon DEF Release, FsRuns
<1>6. ASSUME NEW parent \in Slots, NEW child \in Slots, Clone(parent, child)
      PROVE  Inv(k') /\ Remade(k, k', child)
  BY <1>6, CloneLemma, Zenon DEF Clone, FsRuns
<1>7. ASSUME NEW p \in Slots, Replace(p) PROVE Inv(k') /\ Remade(k, k', p)
  BY <1>7, ReplaceLemma, Zenon DEF Replace, FsRuns
<1> QED BY <1>1, <1>2, <1>3, <1>4, <1>5, <1>6, <1>7, Zenon DEF Next, Tick

\* A dead descriptor has no call and is not billed, and nobody sends to a free one.
Sealed(s) ==
    \A p \in Proc :
      /\ Dead(s, p) => ~Blocked(s, p) /\ s.bill_ptr # p
      /\ P_SLOT_FREE \in s.p_flags[p] => \A q \in Proc : ~SendsTo(s, q, p)

\* An empty caller queue is one to which nobody sends.
LEMMA NobodySends ==
    ASSUME NEW s \in KType, CallerQueues(s), NEW d \in Proc
    PROVE  (s.p_callerq[d] = <<>>) <=> (\A q \in Proc : ~SendsTo(s, q, d))
<1> DEFINE u == s.p_callerq[d]
           S == {p \in Proc : SENDING \in s.p_flags[p] /\ s.p_sendto[p] = d}
<1>1. Lists(u, S) BY Zenon DEF CallerQueues
<1>2. u \in Seq(Proc)
  <2>1. s.p_callerq \in [Proc -> Seq(Proc)] BY KFields, Zenon
  <2> QED BY <2>1, Zenon
<1>3. (S = {}) <=> (\A q \in Proc : ~SendsTo(s, q, d)) BY Zenon DEF SendsTo
<1> HIDE DEF u, S
<1>4. (u = <<>>) <=> (S = {}) BY <1>1, <1>2, ListsEmpty, Zenon
<1> QED BY <1>3, <1>4, Zenon DEF u

\* main() bills IDLE, and nobody sends yet.
LEMMA SealedBoot == Sealed(BootMemory)
<1> DEFINE s == BootMemory
<1>1. /\ \A p \in Proc : s.p_flags[p] = IF p \in Booted THEN {}
                                       ELSE IF p \in Reserved THEN {P_STOP} ELSE {P_SLOT_FREE}
      /\ s.bill_ptr = IDLE
  BY Zenon DEF BootMemory
<1> HIDE DEF s
<1>2. IDLE \in Booted BY ProcAssumption, Zenon DEF Booted
<1>3. \A p \in Proc : SENDING \notin s.p_flags[p] /\ RECEIVING \notin s.p_flags[p]
  BY <1>1 DEF SENDING, RECEIVING, P_STOP, P_SLOT_FREE
<1>4. Sealed(s) BY <1>1, <1>2, <1>3, Zenon DEF Sealed, Dead, Blocked, SendsTo
<1> QED BY <1>4, Zenon DEF s

\* A trap or an interrupt neither makes a descriptor dead nor revives one.
LEMMA SealedSteps ==
    ASSUME NEW s, NEW t, Inv(s), Inv(t), Sealed(s), Steps(s, t)
    PROVE  Sealed(t)
<1> DEFINE own == s.running
<1>1. own \in Proc /\ s.p_flags[own] = {} /\ t.bill_ptr \in Proc
  BY ZenonT(40) DEF Inv, Owner, Runnable, KType
<1>2. \A p \in Proc \ {own} : Served(s, t, p) BY Zenon DEF Steps, Serves
<1>3. /\ t.p_flags[own] \subseteq {SENDING, RECEIVING}
      /\ SENDING \in t.p_flags[own] => P_SLOT_FREE \notin s.p_flags[t.p_sendto[own]]
  BY Zenon DEF Steps
<1> HIDE DEF own
<1>4. ASSUME NEW p \in Proc, Dead(t, p) PROVE p # own /\ Dead(s, p) /\ Served(s, t, p)
  <2>1. p # own BY <1>3, <1>4, Zenon DEF Dead, SENDING, RECEIVING, P_SLOT_FREE, NO_MAP
  <2>2. Served(s, t, p) BY <1>2, <2>1, Zenon
  <2>3. t.p_flags[p] \ {SENDING, RECEIVING} = s.p_flags[p] \ {SENDING, RECEIVING}
    BY <2>2, Zenon DEF Served
  <2>4. Dead(s, p) BY <1>4, <2>3, Zenon DEF Dead, SENDING, RECEIVING, P_SLOT_FREE, NO_MAP
  <2> QED BY <2>1, <2>2, <2>4, Zenon
<1>5. ASSUME NEW p \in Proc, Dead(t, p) PROVE ~Blocked(t, p) /\ t.bill_ptr # p
  <2>1. Dead(s, p) /\ Served(s, t, p) BY <1>4, <1>5, Zenon
  <2>2. ~Blocked(s, p) /\ s.bill_ptr # p BY <2>1, Zenon DEF Sealed
  <2>3. ~Blocked(t, p) BY <2>1, <2>2, Zenon DEF Blocked, Served
  <2>4. t.bill_ptr # p BY <1>5, <2>2, Zenon DEF Steps, Bills, Runnable, Dead
  <2> QED BY <2>3, <2>4, Zenon
<1>6. ASSUME NEW p \in Proc, P_SLOT_FREE \in t.p_flags[p], NEW q \in Proc, SendsTo(t, q, p)
      PROVE  FALSE
  <2>1. Dead(t, p) BY <1>6, Zenon DEF Dead
  <2>2. Served(s, t, p) BY <1>4, <2>1, Zenon
  <2>3. P_SLOT_FREE \in s.p_flags[p]
    BY <1>6, <2>2, Zenon DEF Served, SENDING, RECEIVING, P_SLOT_FREE
  <2>4. q # own BY <1>3, <1>6, <2>3, Zenon DEF SendsTo
  <2>5. SendsTo(s, q, p)
    <3>1. Served(s, t, q) BY <1>2, <1>6, <2>4, Zenon
    <3> QED BY <1>6, <3>1, Zenon DEF Served, SendsTo
  <2> QED BY <2>3, <2>5, Zenon DEF Sealed
<1> QED BY <1>5, <1>6, Zenon DEF Sealed

\* FS changes one descriptor, to which nobody sends.
LEMMA SealedRemade ==
    ASSUME NEW s, NEW t, Inv(s), Inv(t), Sealed(s), NEW p \in Slots, Remade(s, t, p)
    PROVE  Sealed(t)
<1>1. p \in Proc /\ p # FS /\ FS \in Proc BY ProcAssumption, Zenon DEF Slots, Proc
<1>2. Rebuilt(s, t, p) BY Zenon DEF Remade
<1>3. Runnable(t, FS) BY <1>1, <1>2, ZenonT(40) DEF Inv, Owner, Runnable, Rebuilt, Remade
<1>4. \A q \in Proc : ~SendsTo(s, q, p)
  <2>1. s \in KType /\ CallerQueues(s) BY Zenon DEF Inv, Ipc
  <2>2. s.p_callerq[p] = <<>> BY <1>2, Zenon DEF Rebuilt
  <2> QED BY <1>1, <2>1, <2>2, NobodySends, Zenon
<1>5. \A q \in Proc, x \in Proc : SendsTo(t, q, x) => SendsTo(s, q, x)
  BY <1>2, Zenon DEF SendsTo, Rebuilt
<1>6. ASSUME NEW x \in Proc, Dead(t, x) PROVE ~Blocked(t, x) /\ t.bill_ptr # x
  <2>1. x # FS BY <1>3, <1>6, Zenon DEF Runnable, Dead
  <2>2. CASE x = p BY <1>1, <1>6, <2>2, Zenon DEF Remade, Sealed
  <2>3. CASE x # p
    <3>1. t.p_flags[x] = s.p_flags[x] BY <1>2, <2>3, Zenon DEF Rebuilt
    <3>2. ~Blocked(s, x) /\ s.bill_ptr # x BY <1>6, <3>1, Zenon DEF Sealed, Dead
    <3> QED BY <2>1, <3>1, <3>2, Zenon DEF Blocked, Remade
  <2> QED BY <2>2, <2>3, Zenon
<1>7. ASSUME NEW x \in Proc, P_SLOT_FREE \in t.p_flags[x], NEW q \in Proc, SendsTo(t, q, x)
      PROVE  FALSE
  <2>1. SendsTo(s, q, x) BY <1>5, <1>7, Zenon
  <2>2. x # p BY <1>4, <2>1, Zenon
  <2>3. P_SLOT_FREE \in s.p_flags[x] BY <1>2, <1>7, <2>2, Zenon DEF Rebuilt
  <2> QED BY <2>1, <2>3, Zenon DEF Sealed
<1> QED BY <1>6, <1>7, Zenon DEF Sealed

IInv == Inv(k) /\ Sealed(k)

\* IInv is inductive.
LEMMA Invariance == Spec => []IInv
<1>1. Init => IInv BY BootLemma, SealedBoot, Zenon DEF Init, IInv
<1>2. IInv /\ [Next]_k => IInv'
  <2> SUFFICES ASSUME IInv, [Next]_k PROVE Inv(k') /\ Sealed(k') BY Zenon DEF IInv
  <2>1. Inv(k) /\ Sealed(k) BY Zenon DEF IInv
  <2>2. CASE k' = k BY <2>1, <2>2, Zenon
  <2>3. CASE Next
    <3>1. Inv(k') /\ (Steps(k, k') \/ \E p \in Slots : Remade(k, k', p))
      BY <2>1, <2>3, StepLemma, Zenon
    <3> QED BY <2>1, <3>1, SealedSteps, SealedRemade, Zenon
  <2> QED BY <2>2, <2>3, Zenon
<1> QED BY <1>1, <1>2, PTL DEF Spec

\* Every field of the kernel memory keeps its type under every trap and every
\* timer interrupt (proc.c, irq.S, clock.c).
THEOREM TypeCorrect == Spec => []TypeOK
<1>1. IInv => TypeOK BY Zenon DEF IInv, Inv, TypeOK
<1> QED BY <1>1, Invariance, PTL

\* No runnable process is ever lost or queued twice, for any number of
\* processes (ready, unready, pick_proc, sched, the wake paths).
THEOREM ReadyQueuesCorrect == Spec => []ReadyQueueOK
<1>1. IInv => ReadyQueueOK BY Zenon DEF IInv, Inv, ReadyQueueOK
<1> QED BY <1>1, Invariance, PTL

\* The registers on the CPU always belong to the runnable process that
\* proc_ptr and current_proc name, and no return check fails
\* (cp32_task_ipc_dispatch, cp32_timer_irq_dispatch, irq_level1).
THEOREM OwnerCorrect == Spec => []OwnerOK
<1>1. IInv => OwnerOK BY Zenon DEF IInv, Inv, Owner, Quiet, OwnerOK
<1> QED BY <1>1, Invariance, PTL

\* The caller queues list exactly the blocked senders (mini_send, mini_rec).
THEOREM CallerQueuesCorrect == Spec => []CallerQueueOK
<1>1. IInv => CallerQueueOK BY Zenon DEF IInv, Inv, Ipc, CallerQueueOK
<1> QED BY <1>1, Invariance, PTL

\* No set of senders ever waits for one another: mini_send's walk is a
\* complete deadlock check for SEND.
THEOREM SendsNeverDeadlock == Spec => []NoSendCycle
<1>1. IInv => NoSendCycle BY Zenon DEF IInv, Inv, Ipc, NoSendCycle
<1> QED BY <1>1, Invariance, PTL

\* Nobody sleeps in RECEIVE next to a sender or an interrupt it would accept
\* (mini_send, mini_rec, interrupt).
THEOREM RendezvousNeverMissed == Spec => []NoMissedRendezvous
<1>1. IInv => NoMissedRendezvous BY Zenon DEF IInv, Inv, Ipc, NoMissedRendezvous
<1> QED BY <1>1, Invariance, PTL

\* The snapshot of a blocked call matches its frame until the call completes
\* (cp32_save_blocked_frame, cp32_complete_blocked_frame, irq_level1's save).
THEOREM BlockedFramesCorrect == Spec => []BlockedFrameOK
<1>1. IInv => BlockedFrameOK BY Zenon DEF IInv, Inv, Frames, BlockedFrameOK
<1> QED BY <1>1, Invariance, PTL

\* No queue and no pointer of the kernel ever holds a descriptor that is free or
\* not mapped, for any number of user processes (cp32_proc_release,
\* process_detached, cp32_proc_reserve).
THEOREM DeadSlotsCorrect == Spec => []DeadSlotsUnlinked
<1>1. ASSUME IInv, NEW p \in Slots, Dead(k, p)
      PROVE  /\ ~proc_is_ready_queued(k, p) /\ p \notin Range(k.held)
             /\ \A d \in Proc : p \notin Range(k.p_callerq[d])
             /\ p \notin {k.running, k.proc_ptr, k.current_proc, k.bill_ptr,
                          k.irq_return_proc, k.blocked_return_proc}
  <2>1. p \in Proc /\ p # NIL BY ProcAssumption, Zenon DEF Slots, Proc
  <2>2. ~Blocked(k, p) /\ k.bill_ptr # p /\ ~Runnable(k, p)
    BY <1>1, <2>1, Zenon DEF IInv, Sealed, Dead, Runnable
  <2>3. ReadyQueues(k, {k.current_proc}) /\ Quiet(k) /\ Owner(k) /\ CallerQueues(k)
        /\ Frames(k, {})
    BY <1>1, Zenon DEF IInv, Inv, Ipc
  <2>4. ~proc_is_ready_queued(k, p)
    BY <2>2, <2>3, Zenon DEF proc_is_ready_queued, ReadyQueues, Lists
  <2>5. p \notin Range(k.held) BY <2>3 DEF Quiet, Range
  <2>6. \A d \in Proc : p \notin Range(k.p_callerq[d])
    BY <2>2, <2>3, Zenon DEF CallerQueues, Lists, Blocked
  <2>7. p \notin {k.running, k.proc_ptr, k.current_proc, k.irq_return_proc}
    BY <2>2, <2>3, Zenon DEF Owner
  <2>8. k.blocked_return_proc # p BY <2>1, <2>2, <2>3, Zenon DEF Frames
  <2> QED BY <2>2, <2>4, <2>5, <2>6, <2>7, <2>8, ZenonT(60)
<1>2. ASSUME IInv, NEW p \in Slots, P_SLOT_FREE \in k.p_flags[p]
      PROVE  k.p_callerq[p] = <<>>
  <2>1. p \in Proc BY Zenon DEF Slots, Proc
  <2>2. k \in KType /\ CallerQueues(k) BY <1>2, Zenon DEF IInv, Inv, Ipc
  <2>3. \A q \in Proc : ~SendsTo(k, q, p) BY <1>2, <2>1, Zenon DEF IInv, Sealed
  <2> QED BY <2>1, <2>2, <2>3, NobodySends, Zenon
<1>3. IInv => DeadSlotsUnlinked BY <1>1, <1>2, Zenon DEF DeadSlotsUnlinked, Dead
<1> QED BY <1>3, Invariance, PTL

\* A call ends only with its message, and every message goes into a call that
\* ends or into that of the running process, for any processes and calls; a
\* process that is reaped, or whose exec FS commits, gets none (mini_send,
\* mini_rec, interrupt, cp32_proc_release, application_replace).
THEOREM CallsEndCorrectly == Spec => CallsEndWithTheirMessage
<1>1. IInv /\ [Next]_k => [CallsEnd(k, k')]_k
  <2> SUFFICES ASSUME IInv, Next PROVE CallsEnd(k, k') OBVIOUS
  <2>1. Inv(k) BY Zenon DEF IInv
  <2>2. CASE Steps(k, k')
    <3>1. k.running \in Proc /\ k.p_flags[k.running] = {}
      BY <2>1, Zenon DEF Inv, Owner, Runnable, KType
    <3>2. \A p \in Proc \ {k.running} : Served(k, k', p) BY <2>2, Zenon DEF Steps, Serves
    <3>3. \A m \in k'.copied : m[2] = k.running \/ Ended(k, k', m[2])
      BY <2>2, Zenon DEF Steps, Serves
    <3> QED BY <3>1, <3>2, <3>3, Zenon DEF CallsEnd, Served, Ended
  <2>3. ASSUME NEW p \in Slots, Remade(k, k', p) PROVE CallsEnd(k, k')
    <3>1. /\ \A x \in Proc \ {p} : k'.p_flags[x] = k.p_flags[x]
          /\ SENDING \notin k.p_flags[p] /\ k'.copied = {}
          /\ RECEIVING \in k.p_flags[p] =>
               k'.p_flags[p] = {P_SLOT_FREE} \/ Replaced(k, k', p)
      BY <2>3, Zenon DEF Remade, Rebuilt
    <3> QED BY <3>1, Zenon DEF CallsEnd
  <2> QED BY <2>1, <2>2, <2>3, StepLemma, Zenon
<1> QED BY <1>1, Invariance, PTL DEF Spec, CallsEndWithTheirMessage

\* The senders of every queue stay in the order of their calls (mini_send's
\* append, mini_rec's unlink).
THEOREM SendersKeepTheirOrder == Spec => CallerQueueFifo
<1>1. ASSUME NEW u \in Seq(Proc), NEW v, Fifo(u, v) PROVE KeepsOrder(u, v)
  <2>1. Len(u) \in Nat /\ DOMAIN u = 1 .. Len(u) BY LenProperties, Zenon
  <2>2. ASSUME NEW w \in Seq(Proc), Len(w) >= Len(u), \A i \in 1 .. Len(u) : w[i] = u[i]
        PROVE  Len(w) >= Len(u) /\ SubSeq(w, 1, Len(u)) = u
    <3>1. Len(w) \in Nat BY LenProperties, Zenon
    <3>2. /\ SubSeq(w, 1, Len(u)) \in Seq(Proc)
          /\ Len(SubSeq(w, 1, Len(u))) = Len(u)
          /\ \A i \in 1 .. Len(u) : SubSeq(w, 1, Len(u))[i] = w[i]
      BY <2>1, <2>2, <3>1, SubSeqProperties
    <3> QED BY <2>2, <3>2, SeqEqual, Zenon
  <2>3. CASE v = u BY <2>1, <2>2, <2>3 DEF KeepsOrder
  <2>4. ASSUME NEW x \in Proc, v = Append(u, x) PROVE KeepsOrder(u, v)
    <3>1. /\ Append(u, x) \in Seq(Proc) /\ Len(Append(u, x)) = Len(u) + 1
          /\ \A i \in 1 .. Len(u) : Append(u, x)[i] = u[i]
      BY AppendProperties
    <3> QED BY <2>1, <2>2, <2>4, <3>1 DEF KeepsOrder
  <2> QED BY <1>1, <2>3, <2>4, Zenon DEF Fifo, KeepsOrder
<1>2. IInv /\ [Next]_k => [\A d \in Proc : KeepsOrder(k.p_callerq[d], k'.p_callerq[d])]_k
  <2> SUFFICES ASSUME IInv, Next, NEW d \in Proc
               PROVE  KeepsOrder(k.p_callerq[d], k'.p_callerq[d])
    OBVIOUS
  <2>1. Inv(k) /\ k.p_callerq[d] \in Seq(Proc) BY KFields, Zenon DEF IInv, Inv
  <2>2. Fifo(k.p_callerq[d], k'.p_callerq[d])
    <3>1. Steps(k, k') \/ \E p \in Slots : Remade(k, k', p) BY <2>1, StepLemma, Zenon
    <3> QED BY <3>1, Zenon DEF Steps, Remade, Rebuilt, Fifo
  <2> QED BY <1>1, <2>1, <2>2, Zenon
<1> QED BY <1>2, Invariance, PTL DEF Spec, CallerQueueFifo
=============================================================================
