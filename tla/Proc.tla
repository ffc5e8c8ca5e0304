-------------------------------- MODULE Proc --------------------------------
(***************************************************************************)
(* The CP32 kernel core: message passing, the three ready queues and the    *)
(* two places where the CPU changes hands, the SYSCALL trap and the timer   *)
(* interrupt, and the descriptors of user processes (kernel/proc.c,         *)
(* kernel/irq.S, the scheduling half of kernel/clock.c, the boot state of   *)
(* kernel/main.c, kernel/process.c, the clone of kernel/fork.c, the commit  *)
(* of exec in kernel/application.c).                                        *)
(*                                                                         *)
(* A trap or an interrupt runs a chain of C functions with interrupts       *)
(* excluded, so one action is one whole chain.  Each C function is an       *)
(* operator from the kernel memory before the call to the kernel memory     *)
(* after it, and an action composes them in the order the code calls them.  *)
(* The memory is the record k; its fields carry the names of the C globals  *)
(* and of the fields of struct proc.                                        *)
(*                                                                         *)
(* Data that no property tells apart is abstracted: of a message only its   *)
(* m_source, of a saved frame only whether the blocked-call snapshot taken  *)
(* from it still matches, of p_messbuf nothing (every buffer is mapped).    *)
(***************************************************************************)
EXTENDS Integers, Sequences, FiniteSetsExt, Functions

CONSTANTS
    Tasks,      \* endpoints with p_nr < 0
    Servers,    \* endpoints with 0 <= p_nr < LOW_USER
    Users,      \* endpoints with p_nr >= LOW_USER
    IDLE, HARDWARE, CLOCK, TTY,   \* the tasks the scheduler and the ISR name
    MM, FS,     \* the two servers; MM is endpoint 0
    Reserved,   \* descriptors booted with P_STOP
    BootQueue,  \* ready queues that main() builds
    Calls,      \* <<caller, function, src_dest>>: the calls processes may make
    ANY, NIL

Proc == Tasks \cup Servers \cup Users

TASK_Q == 0
SERVER_Q == 1
USER_Q == 2
NQ == 3
Queues == 0 .. (NQ - 1)

P_SLOT_FREE == "P_SLOT_FREE"
NO_MAP == "NO_MAP"
SENDING == "SENDING"
RECEIVING == "RECEIVING"
P_STOP == "P_STOP"
Flags == {P_SLOT_FREE, NO_MAP, SENDING, RECEIVING, P_STOP}

SEND == "SEND"
RECEIVE == "RECEIVE"
BOTH == "BOTH"

isidlehardware(p) == p \in {IDLE, HARDWARE}

proc_queue(p) ==
    IF p \in Tasks THEN TASK_Q ELSE IF p \in Servers THEN SERVER_Q ELSE USER_Q

Booted == (Tasks \cup Servers) \ Reserved

ASSUME ProcAssumption ==
    /\ Tasks \cap Servers = {} /\ Tasks \cap Users = {} /\ Servers \cap Users = {}
    /\ {IDLE, HARDWARE, CLOCK, TTY} \subseteq Tasks \ Reserved
    /\ CLOCK \notin {IDLE, HARDWARE} /\ TTY \notin {IDLE, HARDWARE}
    /\ {MM, FS} \subseteq Servers \ Reserved
    /\ Reserved \subseteq Proc
    /\ ANY \notin Proc /\ NIL \notin Proc
    /\ Calls \subseteq (Proc \ {IDLE, HARDWARE}) \X {SEND, RECEIVE, BOTH} \X (Proc \cup {ANY})

\* The sequence u lists the members of S, each once.
Lists(u, S) == IsInjective(u) /\ Range(u) = S

\* main() enqueues every booted descriptor of a class once, IDLE and HARDWARE apart.
ASSUME BootAssumption ==
    /\ BootQueue \in [Queues -> Seq(Proc)]
    /\ \A q \in Queues :
         Lists(BootQueue[q], {p \in Booted \ {IDLE, HARDWARE} : proc_queue(p) = q})

VARIABLE k

-----------------------------------------------------------------------------
(* Kernel memory *)

KType ==
    [p_flags : [Proc -> SUBSET Flags],
     p_getfrom : [Proc -> Proc \cup {ANY}],
     p_sendto : [Proc -> Proc],
     p_callerq : [Proc -> Seq(Proc)],       \* the list p_callerq / p_sendlink
     p_int_blocked : [Proc -> BOOLEAN],
     p_blocked_frame : [Proc -> {"none", "valid", "mismatch"}],
     copied : SUBSET (Proc \X Proc),        \* <<m_source, receiver>> of the last step
     held : Seq(Proc),                      \* held_head .. held_tail
     rdy : [Queues -> Seq(Proc)],           \* rdy_head .. rdy_tail
     next_queue : Queues,
     switching : BOOLEAN,
     proc_ptr : Proc,
     current_proc : Proc,
     bill_ptr : Proc,
     irq_return_proc : Proc \cup {NIL},
     blocked_return_proc : Proc \cup {NIL},
     last_selected_fs : Proc \cup {NIL},
     running : Proc,                        \* whose registers are on the CPU
     halted : BOOLEAN]                      \* exception_dump was reached

Blocked(s, p) == s.p_flags[p] \cap {SENDING, RECEIVING} # {}

Runnable(s, p) == s.p_flags[p] = {}

\* In RECEIVE only: a SENDREC whose request is still queued does not accept.
Receiving(s, p) == s.p_flags[p] \cap {SENDING, RECEIVING} = {RECEIVING}

\* Mutant of Accepts: the receiver's choice of source is ignored.
AcceptsAny(s, p, src) == Receiving(s, p)

Accepts(s, p, src) == Receiving(s, p) /\ s.p_getfrom[p] \in {ANY, src}

-----------------------------------------------------------------------------
(* Ready queues *)

\* The list u without its i-th descriptor.
Unlink(u, i) == SubSeq(u, 1, i - 1) \o SubSeq(u, i + 1, Len(u))

proc_is_ready_queued(s, p) ==
    \E q \in Queues : p \in Range(s.rdy[q])

\* The four handoff gates are all open after main().
blocked_handoff_eligible(s, p) ==
    /\ p = s.blocked_return_proc
    /\ Blocked(s, p)
    /\ s.proc_ptr = p /\ s.current_proc = p
    /\ s.p_blocked_frame[p] = "valid"

ready(s, p) ==
    IF blocked_handoff_eligible(s, p) \/ proc_is_ready_queued(s, p)
    THEN s
    ELSE [s EXCEPT !.rdy[proc_queue(p)] = Append(@, p),
                   !.irq_return_proc = IF p = FS /\ Runnable(s, p) THEN p ELSE @]

unready(s, p) ==
    LET q == proc_queue(p)
        at == {i \in DOMAIN s.rdy[q] : s.rdy[q][i] = p}
    IN  IF at = {} THEN s ELSE [s EXCEPT !.rdy[q] = Unlink(@, Min(at))]

\* A queue without the blocked descriptors in front of its first runnable one.
DropBlocked(s, q) ==
    LET live == {i \in DOMAIN s.rdy[q] : Runnable(s, s.rdy[q][i])}
    IN  IF live = {} THEN <<>> ELSE SubSeq(s.rdy[q], Min(live), Len(s.rdy[q]))

\* The class pick_proc tries after `offset` empty ones.
Class(s, offset) == (s.next_queue + offset) % NQ

\* Mutant of NextQueue: no advance.
NextQueueFixed(q) == q

\* The class the next pick starts from.
NextQueue(q) == (q + 1) % NQ

\* active is cp32_irq_dispatch_active.
pick_proc(s, active) ==
    LET busy == {o \in Queues : DropBlocked(s, Class(s, o)) # <<>>}
        q == Class(s, Min(busy))
        rp == Head(DropBlocked(s, q))
        passed == {Class(s, o) : o \in {x \in Queues : x < Min(busy)}}
    IN  IF busy = {}
        THEN [s EXCEPT !.rdy = [x \in Queues |-> <<>>],
                       !.proc_ptr = IDLE, !.current_proc = IDLE, !.bill_ptr = IDLE]
        ELSE [s EXCEPT
                !.rdy = [x \in Queues |-> IF x = q THEN Tail(DropBlocked(s, q))
                                          ELSE IF x \in passed THEN <<>> ELSE @[x]],
                !.next_queue = NextQueue(q),
                !.proc_ptr = rp,
                !.current_proc = rp,
                !.irq_return_proc = IF active \/ rp = FS THEN rp ELSE @,
                !.last_selected_fs = IF rp = FS THEN rp ELSE @,
                !.bill_ptr = IF rp \in Users THEN rp ELSE @]

\* Mutant of sched: only a user goes back to its queue (the MINIX original).
schedUsersOnly(s, active) ==
    pick_proc(IF Runnable(s, s.current_proc) /\ s.current_proc \in Users
              THEN ready(s, s.current_proc) ELSE s, active)

\* Mutant of sched: the selection is never published to the interrupt return.
schedUnpublished(s, active) ==
    pick_proc(IF Runnable(s, s.current_proc) /\ ~isidlehardware(s.current_proc)
              THEN ready(s, s.current_proc) ELSE s, FALSE)

sched(s, active) ==
    pick_proc(IF Runnable(s, s.current_proc) /\ ~isidlehardware(s.current_proc)
              THEN ready(s, s.current_proc) ELSE s, active)

-----------------------------------------------------------------------------
(* Blocked calls and their completion *)

cp32_save_blocked_frame(s, p) ==
    [s EXCEPT !.p_blocked_frame[p] = "valid"]

\* Mutant of cp32_complete_blocked_frame: the snapshot is not dropped.
completeKeepsSnapshot(s, p) ==
    LET woken == [s EXCEPT !.p_flags[p] = @ \ {SENDING, RECEIVING},
                           !.blocked_return_proc = IF @ = p THEN NIL ELSE @]
    IN  IF s.p_blocked_frame[p] = "mismatch" THEN s
        ELSE IF Runnable(woken, p) THEN ready(woken, p) ELSE woken

\* A snapshot that no longer matches p_reg leaves the process blocked.
cp32_complete_blocked_frame(s, p) ==
    LET woken == [s EXCEPT !.p_flags[p] = @ \ {SENDING, RECEIVING},
                           !.p_blocked_frame[p] = "none",
                           !.blocked_return_proc = IF @ = p THEN NIL ELSE @]
    IN  IF s.p_blocked_frame[p] = "mismatch" THEN s
        ELSE IF Runnable(woken, p) THEN ready(woken, p) ELSE woken

\* The receiver gets the message under the true identity of its sender.
copy_message(s, sender, receiver) ==
    [s EXCEPT !.copied = @ \cup {<<sender, receiver>>}]

-----------------------------------------------------------------------------
(* SEND *)

\* The endpoints the deadlock walk visits: dest, and from every SENDING
\* process the one it sends to.  It is the least set closed under that step.
SendChain(s, dest) ==
    {r \in Proc : \A C \in SUBSET Proc :
        (/\ dest \in C
         /\ \A x \in C : SENDING \in s.p_flags[x] => s.p_sendto[x] \in C) => r \in C}

\* The i-th entry of dest's caller queue is a sender that waits for dest.
SenderLinked(s, dest, i) ==
    LET sender == s.p_callerq[dest][i]
    IN  /\ SENDING \in s.p_flags[sender] /\ s.p_sendto[sender] = dest
        /\ P_SLOT_FREE \notin s.p_flags[sender]

\* Mutant of mini_send_refused: the walk stops after one step.
refusedOneStep(s, caller, dest) ==
    \/ dest \notin Proc
    \/ dest = caller
    \/ SENDING \in s.p_flags[caller]
    \/ SENDING \in s.p_flags[dest] /\ s.p_sendto[dest] = caller
    \/ P_SLOT_FREE \in s.p_flags[dest]

mini_send_refused(s, caller, dest) ==
    \/ dest \notin Proc
    \/ dest = caller
    \/ SENDING \in s.p_flags[caller]
    \/ \E r \in SendChain(s, dest) : r = caller \/ P_SLOT_FREE \in s.p_flags[r]
    \/ \A r \in SendChain(s, dest) : SENDING \in s.p_flags[r]
    \/ /\ ~Accepts(s, dest, caller)
       /\ \E i \in DOMAIN s.p_callerq[dest] : ~SenderLinked(s, dest, i)

\* Mutant of mini_send: a new sender goes to the front of the queue.
mini_sendPushes(s, caller, dest) ==
    IF Accepts(s, dest, caller)
    THEN cp32_complete_blocked_frame(copy_message(s, caller, dest), dest)
    ELSE [s EXCEPT !.p_flags[caller] = @ \cup {SENDING},
                   !.p_sendto[caller] = dest,
                   !.p_callerq[dest] = <<caller>> \o @]

mini_send(s, caller, dest) ==
    IF Accepts(s, dest, caller)
    THEN cp32_complete_blocked_frame(copy_message(s, caller, dest), dest)
    ELSE LET u == IF Runnable(s, caller) THEN unready(s, caller) ELSE s
         IN  [u EXCEPT !.p_flags[caller] = @ \cup {SENDING},
                       !.p_sendto[caller] = dest,
                       !.p_callerq[dest] = Append(@, caller)]

-----------------------------------------------------------------------------
(* RECEIVE *)

\* Mutant of Matching: only the head of the queue is compared.
MatchingHead(s, caller, src) ==
    {i \in DOMAIN s.p_callerq[caller] : i = 1 /\ src \in {ANY, s.p_callerq[caller][i]}}

\* Positions of p_callerq that hold a sender the call may take.
Matching(s, caller, src) ==
    {i \in DOMAIN s.p_callerq[caller] : src \in {ANY, s.p_callerq[caller][i]}}

mini_rec_refused(s, caller, src) ==
    \/ src \notin Proc \cup {ANY}
    \/ RECEIVING \in s.p_flags[caller]
    \/ /\ SENDING \notin s.p_flags[caller]
       /\ \E i \in DOMAIN s.p_callerq[caller] :
            /\ ~SenderLinked(s, caller, i)
            /\ \A j \in Matching(s, caller, src) : i <= j

\* Mutant of TakeSender: the sender is not unlinked.
TakeSenderLinked(s, caller, i) ==
    LET sender == s.p_callerq[caller][i]
        t == [copy_message(s, sender, caller) EXCEPT !.p_flags[sender] = @ \ {SENDING}]
    IN  IF RECEIVING \in s.p_flags[sender] THEN t
        ELSE cp32_complete_blocked_frame(t, sender)

\* Take the message of the i-th queued sender.  Only a plain SEND is finished
\* by that; a SENDREC goes on waiting for its reply.
TakeSender(s, caller, i) ==
    LET sender == s.p_callerq[caller][i]
        t == [copy_message(s, sender, caller) EXCEPT
                !.p_callerq[caller] = Unlink(@, i),
                !.p_flags[sender] = @ \ {SENDING}]
    IN  IF RECEIVING \in s.p_flags[sender] THEN t
        ELSE cp32_complete_blocked_frame(t, sender)

mini_rec(s, caller, src) ==
    LET m == Matching(s, caller, src)
        sending == SENDING \in s.p_flags[caller]
        u == IF Runnable(s, caller) THEN unready(s, caller) ELSE s
    IN  IF ~sending /\ m # {}
        THEN TakeSender(s, caller, Min(m))
        ELSE IF ~sending /\ s.p_int_blocked[caller] /\ src \in {ANY, HARDWARE}
        THEN [copy_message(s, HARDWARE, caller) EXCEPT !.p_int_blocked[caller] = FALSE]
        ELSE [u EXCEPT !.p_getfrom[caller] = src,
                       !.p_flags[caller] = @ \cup {RECEIVING}]

-----------------------------------------------------------------------------
(* The SYSCALL trap *)

\* sys_call's report label.
Report(s, rp, ok) ==
    IF ok /\ Blocked(s, rp)
    THEN [cp32_save_blocked_frame(s, rp) EXCEPT
            !.blocked_return_proc = rp, !.current_proc = rp]
    ELSE [s EXCEPT !.blocked_return_proc = IF @ = rp THEN NIL ELSE @]

Receive(s, rp, src) ==
    IF mini_rec_refused(s, rp, src) THEN Report(s, rp, FALSE)
    ELSE Report(mini_rec(s, rp, src), rp, TRUE)

\* A refused half changes nothing and ends the call with its error code.
sys_call(s, function, src_dest) ==
    LET rp == s.proc_ptr
        sent == mini_send(s, rp, src_dest)
    IN  IF function = RECEIVE THEN Receive(s, rp, src_dest)
        ELSE IF mini_send_refused(s, rp, src_dest) THEN Report(s, rp, FALSE)
        ELSE IF function = SEND THEN Report(sent, rp, TRUE)
        ELSE Receive(sent, rp, src_dest)

cp32_irq_return_frame_check(s) ==
    /\ s.irq_return_proc \in Proc
    /\ Runnable(s, s.irq_return_proc)
    /\ s.current_proc = s.irq_return_proc
    /\ s.proc_ptr = s.irq_return_proc

\* The entry checks, the call, the choice of the next owner and RFE into the
\* published frame.  Either check failing ends in exception_dump.
cp32_task_ipc_dispatch(s, owner, function, src_dest) ==
    LET t == sys_call([s EXCEPT !.copied = {}], function, src_dest)
        u == IF Blocked(t, owner) THEN sched(t, FALSE)
             ELSE [t EXCEPT !.proc_ptr = owner, !.current_proc = owner]
        r == [u EXCEPT !.irq_return_proc = u.proc_ptr]
    IN  IF owner = s.current_proc /\ Runnable(s, owner) /\ cp32_irq_return_frame_check(r)
        THEN [r EXCEPT !.running = r.irq_return_proc]
        ELSE [s EXCEPT !.halted = TRUE]

-----------------------------------------------------------------------------
(* Interrupt notifications *)

interrupt(s, task) ==
    IF P_SLOT_FREE \in s.p_flags[task] THEN s
    ELSE IF s.switching
    THEN IF task \in Range(s.held) THEN s
         ELSE [s EXCEPT !.held = Append(@, task)]
    ELSE IF Accepts(s, task, HARDWARE)
    THEN cp32_complete_blocked_frame(
           [copy_message(s, HARDWARE, task) EXCEPT !.p_int_blocked[task] = FALSE], task)
    ELSE [s EXCEPT !.p_int_blocked[task] = TRUE]

\* One turn of unhold's loop.  Only CLOCK and TTY are ever notified, so the
\* held list has at most two entries and two turns empty it.
UnholdHead(s) ==
    IF s.switching \/ s.held = <<>> THEN s
    ELSE interrupt([s EXCEPT !.held = Tail(@)], Head(s.held))

unhold(s) == UnholdHead(UnholdHead(s))

-----------------------------------------------------------------------------
(* The timer interrupt *)

\* irq.S stores the interrupted registers in proc_ptr's frame.
SaveInterrupted(s) ==
    [s EXCEPT !.p_blocked_frame[s.proc_ptr] = IF @ = "valid" THEN "mismatch" ELSE @,
              !.copied = {}]

\* clock_handler's notifications: cp32_tty_poll_tick and tty_wakeup may each
\* notify TTY, an alarm or the end of the quantum notifies CLOCK.
Notify(s, poll, wakeup, tick) ==
    LET a == IF poll THEN interrupt(s, TTY) ELSE s
        b == IF wakeup THEN interrupt(a, TTY) ELSE a
    IN  IF tick THEN interrupt(b, CLOCK) ELSE b

\* The selection half of cp32_timer_irq_dispatch.
Select(s) ==
    LET t == IF \E q \in Queues : s.rdy[q] # <<>> THEN sched(s, TRUE) ELSE s
        fs == t.last_selected_fs
        u == IF fs # NIL /\ t.proc_ptr \in {IDLE, FS} /\ Runnable(t, FS)
             THEN [t EXCEPT !.proc_ptr = fs, !.current_proc = fs, !.irq_return_proc = fs]
             ELSE t
    IN  IF u.irq_return_proc \in Proc /\ Runnable(u, u.irq_return_proc) THEN u
        ELSE [u EXCEPT !.irq_return_proc = u.proc_ptr]

cp32_timer_irq_dispatch(s, poll, wakeup, tick) ==
    Select(unhold(Notify(s, poll, wakeup, tick)))

\* From interrupt entry to the restore of the published frame.
irq_level1(s, poll, wakeup, tick) ==
    LET t == cp32_timer_irq_dispatch(SaveInterrupted(s), poll, wakeup, tick)
    IN  [t EXCEPT !.running = t.irq_return_proc]

-----------------------------------------------------------------------------
(* User processes.  FS creates and reaps them, with interrupts masked. *)

\* The reusable descriptors: every user except the booted LOW_USER.
Slots == Users \ Reserved

\* Nothing in the kernel links p.  Of a sender that is the last of its queue
\* p_sendlink is NIL too.
process_detached(s, p) ==
    /\ p \notin {s.proc_ptr, s.current_proc}
    /\ ~proc_is_ready_queued(s, p)
    /\ p \notin Range(s.held)
    /\ ~s.p_int_blocked[p]
    /\ s.p_callerq[p] = <<>>
    /\ \A d \in Proc : \A i \in DOMAIN s.p_callerq[d] :
         s.p_callerq[d][i] = p => i = Len(s.p_callerq[d])

Free(s, p) == s.p_flags[p] = {P_SLOT_FREE} /\ process_detached(s, p)

\* p waits for the reply of FS and sends to nobody.
AwaitsFS(s, p) == s.p_flags[p] = {RECEIVING} /\ s.p_getfrom[p] = FS

\* The descriptor cleared by memset and given new flags; no message is copied.
Cleared(s, p, flags, getfrom) ==
    [s EXCEPT !.p_flags[p] = flags,
              !.p_getfrom[p] = getfrom,
              !.p_sendto[p] = MM,
              !.p_callerq[p] = <<>>,
              !.p_int_blocked[p] = FALSE,
              !.p_blocked_frame[p] = "none",
              !.copied = {}]

cp32_proc_reserve(s, p) == Cleared(s, p, {NO_MAP}, ANY)

cp32_proc_publish(s, p) == ready([s EXCEPT !.p_flags[p] = {}, !.copied = {}], p)

\* cp32_proc_clone, and cp32_fork_start that lets the child wait for the
\* reply: the same masked section.
cp32_proc_clone(s, parent, child) ==
    [s EXCEPT !.p_flags[child] = {RECEIVING},
              !.p_getfrom[child] = s.p_getfrom[parent],
              !.p_sendto[child] = s.p_sendto[parent],
              !.p_callerq[child] = <<>>,
              !.p_int_blocked[child] = FALSE,
              !.p_blocked_frame[child] = s.p_blocked_frame[parent],
              !.copied = {}]

\* The commit of exec, a masked section too: the call of the old program gets
\* no answer, its snapshot is dropped, and the new program is queued.
application_replace(s, p) ==
    ready([s EXCEPT !.p_flags[p] = {},
                    !.p_getfrom[p] = ANY,
                    !.p_sendto[p] = MM,
                    !.p_blocked_frame[p] = "none",
                    !.copied = {}], p)

\* Mutant of cp32_proc_release: the global pointers keep the dead descriptor.
releaseKeepsPointers(s, p) == Cleared(s, p, {P_SLOT_FREE}, MM)

cp32_proc_release(s, p) ==
    [Cleared(s, p, {P_SLOT_FREE}, MM) EXCEPT
       !.bill_ptr = IF @ = p THEN FS ELSE @,
       !.irq_return_proc = IF @ = p THEN NIL ELSE @,
       !.blocked_return_proc = IF @ = p THEN NIL ELSE @]

-----------------------------------------------------------------------------
(* The system *)

BootMemory ==
    [p_flags |-> [p \in Proc |-> IF p \in Booted THEN {}
                                 ELSE IF p \in Reserved THEN {P_STOP} ELSE {P_SLOT_FREE}],
     p_getfrom |-> [p \in Proc |-> MM],
     p_sendto |-> [p \in Proc |-> MM],
     p_callerq |-> [p \in Proc |-> <<>>],
     p_int_blocked |-> [p \in Proc |-> FALSE],
     p_blocked_frame |-> [p \in Proc |-> "none"],
     copied |-> {},
     held |-> <<>>,
     rdy |-> BootQueue,
     next_queue |-> TASK_Q,
     switching |-> FALSE,
     proc_ptr |-> IDLE, current_proc |-> IDLE, bill_ptr |-> IDLE,
     irq_return_proc |-> FS,
     blocked_return_proc |-> NIL,
     last_selected_fs |-> NIL,
     running |-> IDLE,
     halted |-> FALSE]

Init == k = BootMemory

\* The running process executes SYSCALL.  The idle loop never does.
TaskIpc(function, src_dest) ==
    /\ ~k.halted
    /\ <<k.running, function, src_dest>> \in Calls
    /\ k' = cp32_task_ipc_dispatch(k, k.proc_ptr, function, src_dest)

TimerIrq(poll, wakeup, tick) ==
    /\ ~k.halted
    /\ k' = irq_level1(k, poll, wakeup, tick)

Tick == \E poll, wakeup, tick \in BOOLEAN : TimerIrq(poll, wakeup, tick)

FsRuns == ~k.halted /\ k.running = FS

Reserve(p) ==
    /\ FsRuns /\ Free(k, p)
    /\ k' = cp32_proc_reserve(k, p)

Publish(p) ==
    /\ FsRuns /\ k.p_flags[p] = {NO_MAP} /\ process_detached(k, p)
    /\ k' = cp32_proc_publish(k, p)

Clone(parent, child) ==
    /\ FsRuns /\ AwaitsFS(k, parent) /\ parent # child /\ Free(k, child)
    /\ k' = cp32_proc_clone(k, parent, child)

\* application_replace tests the descriptor.  Since p called, FS has been blocked
\* in its own call to MM, for the staging block; the pointer is not p's any more.
Replace(p) ==
    /\ FsRuns /\ AwaitsFS(k, p) /\ k.p_callerq[p] = <<>>
    /\ k.blocked_return_proc # p
    /\ k' = application_replace(k, p)

Release(p) ==
    /\ FsRuns /\ process_detached(k, p)
    /\ k.p_flags[p] = {NO_MAP} \/ AwaitsFS(k, p)
    /\ k' = cp32_proc_release(k, p)

Next ==
    \/ \E f \in {SEND, RECEIVE, BOTH}, e \in Proc \cup {ANY} : TaskIpc(f, e)
    \/ Tick
    \/ \E p \in Slots : Reserve(p) \/ Publish(p) \/ Replace(p) \/ Release(p)
    \/ \E parent, child \in Slots : Clone(parent, child)

Spec == Init /\ [][Next]_k

-----------------------------------------------------------------------------
(* Safety *)

\* Every chain of a trap, of an interrupt and of a descriptor change keeps the
\* fields of the kernel memory in their ranges.
TypeOK == k \in KType

\* The ready queues hold the runnable processes that are not in away.
ReadyQueues(s, away) ==
    \A q \in Queues :
      Lists(s.rdy[q], {p \in Proc \ ({IDLE, HARDWARE} \cup away) :
                         proc_queue(p) = q /\ Runnable(s, p)})

CallerQueues(s) ==
    \A d \in Proc :
      Lists(s.p_callerq[d], {p \in Proc : SENDING \in s.p_flags[p] /\ s.p_sendto[p] = d})

\* A set of senders, each waiting for another of the set.
SendCycle(s, C) ==
    C # {} /\ \A p \in C : SENDING \in s.p_flags[p] /\ s.p_sendto[p] \in C

\* Somebody p waits for is waiting for p.
Missed(s, p) ==
    /\ Receiving(s, p)
    /\ \/ \E q \in Range(s.p_callerq[p]) : s.p_getfrom[p] \in {ANY, q}
       \/ s.p_int_blocked[p] /\ s.p_getfrom[p] \in {ANY, HARDWARE}

FrameKept(s, p) ==
    s.p_blocked_frame[p] = IF Blocked(s, p) THEN "valid" ELSE "none"

\* No process is lost and none is queued twice: the owner of the CPU is in no
\* queue, every other runnable process is in the queue of its class exactly
\* once, and a queue holds runnable processes only, so that pick_proc never
\* has to drop one (ready, unready, pick_proc and every wake path).
ReadyQueueOK == ReadyQueues(k, {k.current_proc})

\* The registers on the CPU belong to the process both owner globals name, and
\* that process is runnable: the next trap or interrupt saves its frame into
\* the right descriptor and no return check ends in exception_dump.
OwnerOK ==
    /\ ~k.halted
    /\ k.running = k.proc_ptr
    /\ k.running = k.current_proc
    /\ Runnable(k, k.running)

\* The caller queues are exactly the blocked senders: a process is linked once,
\* in the queue of the endpoint it sends to, if and only if it is SENDING
\* (mini_send's append, mini_rec's unlink).
CallerQueueOK == CallerQueues(k)

\* mini_send's walk refuses every call that would close a cycle of senders
\* waiting for one another, however the calls interleave.
NoSendCycle == \A C \in SUBSET Proc : ~SendCycle(k, C)

\* Rendezvous is never missed: nobody waits in RECEIVE while a sender it
\* accepts waits in its caller queue, or while an interrupt it accepts is
\* pending (the two orders of mini_send / mini_rec and of interrupt / mini_rec).
NoMissedRendezvous == \A p \in Proc : ~Missed(k, p)

\* Every blocked call keeps a snapshot that still matches its saved frame, so
\* cp32_complete_blocked_frame never leaves a served process asleep, and a
\* process that is not blocked has none.
BlockedFrameOK ==
    /\ \A p \in Proc : FrameKept(k, p)
    /\ k.blocked_return_proc # NIL => Blocked(k, k.blocked_return_proc)

\* A descriptor that is free or not mapped yet is dead everywhere: no queue and
\* none of the pointers the next interrupt follows holds it, and nobody is left
\* waiting to send to a free one.  Neither a reap nor a cancelled start leaves a
\* frame that is still returned to (cp32_proc_release, process_detached).
DeadSlotsUnlinked ==
    \A p \in Slots :
      /\ k.p_flags[p] \cap {P_SLOT_FREE, NO_MAP} # {} =>
           /\ ~proc_is_ready_queued(k, p) /\ p \notin Range(k.held)
           /\ \A d \in Proc : p \notin Range(k.p_callerq[d])
           /\ p \notin {k.running, k.proc_ptr, k.current_proc, k.bill_ptr,
                        k.irq_return_proc, k.blocked_return_proc}
      /\ P_SLOT_FREE \in k.p_flags[p] => k.p_callerq[p] = <<>>

-----------------------------------------------------------------------------
(* Action properties *)

\* FS replaces the program that waits for it.
Replaced(s, t, p) ==
    s.running = FS /\ AwaitsFS(s, p) /\ t = application_replace(s, p)

\* Between s and t every call that ends has its message, and every message
\* ends a call or goes to the process that runs.
CallsEnd(s, t) ==
    /\ \A p \in Proc :
         /\ (SENDING \in s.p_flags[p] /\ SENDING \notin t.p_flags[p])
              => <<p, s.p_sendto[p]>> \in t.copied
         /\ (RECEIVING \in s.p_flags[p] /\ RECEIVING \notin t.p_flags[p])
              => \/ t.p_flags[p] = {P_SLOT_FREE} \/ Replaced(s, t, p)
                 \/ /\ SENDING \notin s.p_flags[p]
                    /\ \E src \in Proc : /\ {m \in t.copied : m[2] = p} = {<<src, p>>}
                                        /\ s.p_getfrom[p] \in {ANY, src}
    /\ \A m \in t.copied :
         \/ m[2] = s.running
         \/ RECEIVING \in s.p_flags[m[2]] /\ RECEIVING \notin t.p_flags[m[2]]

\* A process leaves SEND only when its message reached the process it was sent
\* to, and leaves RECEIVE only with one message, from a source it selected, or
\* when FS reaps it or commits its exec.  And a message is copied only into a
\* call that is over after the step, or into the call of the running process: a
\* receive buffer is never overwritten (mini_send, mini_rec, interrupt,
\* application_replace).
CallsEndWithTheirMessage == [][CallsEnd(k, k')]_k

\* v is u with new senders behind, or without one of its senders.
KeepsOrder(u, v) ==
    \/ Len(v) >= Len(u) /\ SubSeq(v, 1, Len(u)) = u
    \/ \E i \in DOMAIN u : v = Unlink(u, i)

\* Waiting senders keep their order: a step puts a new one behind them or takes
\* one out, so nobody who calls later overtakes in a receiver that takes ANY
\* (mini_send's append, mini_rec's unlink).
CallerQueueFifo == [][\A d \in Proc : KeepsOrder(k.p_callerq[d], k'.p_callerq[d])]_k

-----------------------------------------------------------------------------
(* Liveness *)

\* ENABLED <<Tick>>_k, written out.
TickEnabled ==
    ~k.halted /\ \E poll, wakeup, tick \in BOOLEAN : irq_level1(k, poll, wakeup, tick) # k

\* WF_k(Tick).  The tick fires again and again: its handler rearms the timer,
\* and neither a trap nor a masked section lasts forever.
TimerFairness == []<>~TickEnabled \/ []<><<Tick>>_k

LiveSpec == Spec /\ TimerFairness

\* pick_proc starves nobody: a runnable process of any class gets the CPU, whatever
\* the other classes do ("a busy task class cannot starve servers/users").
EveryRunnableProcessRuns ==
    \A p \in Proc \ {IDLE, HARDWARE} : Runnable(k, p) ~> k.running = p
=============================================================================
