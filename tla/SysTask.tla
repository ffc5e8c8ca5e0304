------------------------------- MODULE SysTask -------------------------------
(***************************************************************************)
(* The system task (kernel/system.c): one loop that serves the requests    *)
(* MM and FS make about other processes, and cause_sig() and inform(),     *)
(* which CLOCK also calls.  A process is blocked by the flags of its       *)
(* descriptor: it is to be in a ready queue exactly when it has none.      *)
(*                                                                         *)
(* Only do_fork and the message of inform() run with interrupts masked     *)
(* (lock_ready and lock_unready set the variable switching and mask        *)
(* nothing).  So a handler is two steps, between which any process may     *)
(* run: SYS takes the request up, and SYS is done with it; the same for an *)
(* alarm that CLOCK turns into a signal.  The change is made at the second *)
(* step.  That is what the code does unless something else writes, between *)
(* the two, what the handler reads and writes, or a timer interrupt comes  *)
(* while it relinks a ready queue.  Then the outcome is that of a data     *)
(* race: anything may be left in the descriptors and the queues.           *)
(*                                                                         *)
(* inform() ends in lock_pick_proc(), which makes another process the      *)
(* owner of the CPU that the calling task runs on.  What the task does     *)
(* from then on it does in that process's name; the model stops there too. *)
(*                                                                         *)
(* mm/main.c serves only memory requests.  MM's half of the signal, fork   *)
(* and exec protocol is the one system.c is written for, and is external.  *)
(***************************************************************************)
EXTENDS Integers, FiniteSets, Sequences, FiniteSetsExt

CONSTANTS NProcs,    \* user slots
          MaxPend,   \* bound: signals raised and not finished, of all processes
          Asked,     \* the requests MM and FS make
          Wrecks     \* what a data race may leave of k

VARIABLES k,         \* descriptors, queues and MM
          sys,       \* the client whose request SYS is serving, or "receiving"
          asked,     \* the request each client is blocked on
          clock,     \* the process whose alarm CLOCK is serving, or 0
          torn       \* there was a data race

vars == <<k, sys, asked, clock, torn>>

\* There is a process to begin with.
ASSUME SysAssumption == NProcs \in Nat \ {0}

Procs == 1 .. NProcs

P_SLOT_FREE == "P_SLOT_FREE"
NO_MAP == "NO_MAP"
SENDING == "SENDING"
RECEIVING == "RECEIVING"
P_STOP == "P_STOP"
PENDING == "PENDING"
SIG_PENDING == "SIG_PENDING"
Flags == {P_SLOT_FREE, NO_MAP, SENDING, RECEIVING, P_STOP, PENDING, SIG_PENDING}

SIGALRM == "SIGALRM"
SIGTRAP == "SIGTRAP"
SIGINT == "SIGINT"
Signals == {SIGALRM, SIGTRAP, SIGINT}

MM == "MM"
FS == "FS"
Clients == {MM, FS}

SYS_FORK == "SYS_FORK"
SYS_NEWMAP == "SYS_NEWMAP"
SYS_EXEC == "SYS_EXEC"
SYS_XIT == "SYS_XIT"
SYS_GETSP == "SYS_GETSP"
SYS_TIMES == "SYS_TIMES"
SYS_KILL == "SYS_KILL"
SYS_ENDSIG == "SYS_ENDSIG"
T_STOP == "T_STOP"
T_RESUME == "T_RESUME"
\* do_getsp and do_times read a descriptor and change nothing.
Queries == {SYS_GETSP, SYS_TIMES}
AllRequests == Queries \cup {SYS_FORK, SYS_NEWMAP, SYS_EXEC, SYS_XIT, SYS_KILL,
                             SYS_ENDSIG, T_STOP, T_RESUME}

None == [type |-> "none", p1 |-> 0, p2 |-> 0, sigs |-> {}]
Message == [type : AllRequests \cup {"none"},
            p1 : Procs \cup {0},
            p2 : Procs \cup {0},
            sigs : SUBSET Signals]

-----------------------------------------------------------------------------
(* Flags and the ready queues.                                             *)

live(s, p) == P_SLOT_FREE \notin s.p_flags[p]

\* A process that was runnable leaves its queue when a flag is added.
Block(s, p, F) ==
    [s EXCEPT !.p_flags[p] = @ \cup F,
              !.ready = IF s.p_flags[p] = {} THEN @ \ {p} ELSE @]

\* It returns when the last flag goes; ready() ignores one already queued.
Unblock(s, p, F) ==
    LET left == s.p_flags[p] \ F
    IN  [s EXCEPT !.p_flags[p] = left,
                  !.ready = IF left = {} THEN @ \cup {p} ELSE @]

-----------------------------------------------------------------------------
(* Signals.                                                                *)

\* MM blocks in receive(ANY) only between two requests.
MMFree(s) == s.mm = "any"

\* The first process with pending signals.  Its KSIG is built in m, the buffer
\* SYS receives its requests in, and reaches MM, which is receiving.
inform(s) ==
    LET p == Min({q \in Procs : PENDING \in s.p_flags[q]})
    IN  [s EXCEPT !.mm = "working",
                  !.sig_procs = @ - 1,
                  !.p_pending[p] = {},
                  !.p_flags[p] = @ \ {PENDING},
                  !.astray = TRUE]

\* cause_sig up to its test of MM's state.
Mark(s, p, sig) ==
    IF sig \in s.p_pending[p] THEN s
    ELSE LET t == [s EXCEPT !.p_pending[p] = @ \cup {sig},
                            !.p_pendcount[p] = @ + 1]
         IN  IF PENDING \in t.p_flags[p] THEN t
             ELSE [Block(t, p, {PENDING, SIG_PENDING}) EXCEPT !.sig_procs = @ + 1]

\* The call is the first for p since MM was last told, and MM is receiving.
Informs(s, p, sig) ==
    /\ sig \notin s.p_pending[p]
    /\ PENDING \notin s.p_flags[p]
    /\ MMFree(s)

cause_sig(s, p, sig) ==
    LET t == Mark(s, p, sig)
    IN  IF Informs(s, p, sig) THEN inform(t) ELSE t

-----------------------------------------------------------------------------
(* The handlers: the state after a request, the same state for an error.   *)

\* cp32_proc_clone: the parent waits for MM, the child's slot is free.
do_fork(s, r) ==
    IF s.p_flags[r.p1] = {RECEIVING} /\ s.p_flags[r.p2] = {P_SLOT_FREE}
    THEN [s EXCEPT !.p_flags[r.p2] = {NO_MAP, RECEIVING},
                   !.p_pending[r.p2] = {},
                   !.p_pendcount[r.p2] = 0,
                   !.p_alarm[r.p2] = FALSE]
    ELSE s

do_newmap(s, r) ==
    IF NO_MAP \in s.p_flags[r.p1] THEN Unblock(s, r.p1, {NO_MAP}) ELSE s

\* A traced program is signalled before it is published.
do_exec(s, r) ==
    IF s.p_flags[r.p1] \cap {P_SLOT_FREE, SENDING, RECEIVING} = {RECEIVING}
    THEN LET t == IF SIGTRAP \in r.sigs THEN cause_sig(s, r.p1, SIGTRAP) ELSE s
         IN  Unblock([t EXCEPT !.p_alarm[r.p1] = FALSE], r.p1, {RECEIVING})
    ELSE s

\* The walk along p_sendlink that takes the process out of the list.
Unlink(u, p) ==
    LET i == CHOOSE j \in DOMAIN u : u[j] = p
    IN  SubSeq(u, 1, i - 1) \o SubSeq(u, i + 1, Len(u))

exitKeepsCount(s, r) ==
    [s EXCEPT !.p_flags[r.p1] = {P_SLOT_FREE},
              !.ready = IF s.p_flags[r.p1] = {} THEN @ \ {r.p1} ELSE @,
              !.callerq = IF SENDING \in s.p_flags[r.p1]
                          THEN Unlink(@, r.p1) ELSE @,
              !.p_alarm[r.p1] = FALSE,
              !.p_pending[r.p1] = {},
              !.p_pendcount[r.p1] = 0]

exitStaysQueued(s, r) ==
    [s EXCEPT !.p_flags[r.p1] = {P_SLOT_FREE},
              !.ready = @ \ {r.p1},
              !.sig_procs = IF PENDING \in s.p_flags[r.p1] THEN @ - 1 ELSE @,
              !.p_alarm[r.p1] = FALSE,
              !.p_pending[r.p1] = {},
              !.p_pendcount[r.p1] = 0]

\* Whatever the process was doing: it leaves the ready queue or the queue of
\* the process it was sending to, and its signals are dropped.
do_xit(s, r) ==
    [s EXCEPT !.p_flags[r.p1] = {P_SLOT_FREE},
              !.ready = IF s.p_flags[r.p1] = {} THEN @ \ {r.p1} ELSE @,
              !.callerq = IF SENDING \in s.p_flags[r.p1]
                          THEN Unlink(@, r.p1) ELSE @,
              !.sig_procs = IF PENDING \in s.p_flags[r.p1] THEN @ - 1 ELSE @,
              !.p_alarm[r.p1] = FALSE,
              !.p_pending[r.p1] = {},
              !.p_pendcount[r.p1] = 0]

do_kill(s, r) == cause_sig(s, r.p1, CHOOSE sig \in r.sigs : TRUE)

do_endsig(s, r) ==
    LET n == s.p_pendcount[r.p1]
        t == [s EXCEPT !.p_pendcount[r.p1] = n - 1]
    IN  CASE n = 0 -> s
          [] n = 1 -> Unblock(t, r.p1, {SIG_PENDING})
          [] n > 1 -> t

\* do_trace: T_STOP, then T_RESUME and T_STEP.
Stop(s, r) == IF live(s, r.p1) THEN Block(s, r.p1, {P_STOP}) ELSE s
Resume(s, r) == IF live(s, r.p1) THEN Unblock(s, r.p1, {P_STOP}) ELSE s

\* sys_task's dispatch.
Dispatch(s, r) ==
    CASE r.type = SYS_FORK -> do_fork(s, r)
      [] r.type = SYS_NEWMAP -> do_newmap(s, r)
      [] r.type = SYS_EXEC -> do_exec(s, r)
      [] r.type = SYS_XIT -> do_xit(s, r)
      [] r.type = SYS_KILL -> do_kill(s, r)
      [] r.type = SYS_ENDSIG -> do_endsig(s, r)
      [] r.type = T_STOP -> Stop(s, r)
      [] r.type = T_RESUME -> Resume(s, r)
      [] r.type \in Queries -> s

-----------------------------------------------------------------------------
(* What runs with interrupts open.                                         *)

\* Besides the processes: the descriptor and caller queue of MM, and the count
\* of signalled processes.
MMSlot == 0
SigProcs == -1

\* What a handler reads before, and writes after, a point where it can be
\* preempted: the process of the request, and for a signal or an exit also MM
\* and the count.  do_fork is masked.
Uses(r) ==
    IF r.type \in Queries \cup {SYS_FORK} THEN {}
    ELSE {r.p1} \cup IF r.type \in {SYS_XIT, SYS_KILL} \/ r.sigs # {}
                     THEN {MMSlot, SigProcs} ELSE {}

SysUses == IF sys = "receiving" THEN {} ELSE Uses(asked[sys])
ClockUses == IF clock = 0 THEN {} ELSE {clock, MMSlot, SigProcs}

\* A step writes X, and would leave t, while a handler that uses U is not done.
Writes(X, U, t) ==
    IF X \cap U = {} THEN k' = t /\ torn' = FALSE
    ELSE k' \in Wrecks /\ torn' = TRUE

-----------------------------------------------------------------------------
(* Steps.                                                                  *)

Raised == MapThenSumSet(LAMBDA p : k.p_pendcount[p], Procs)

Init ==
    /\ k = [p_flags |-> [p \in Procs |-> IF p = 1 THEN {} ELSE {P_SLOT_FREE}],
            p_pending |-> [p \in Procs |-> {}],
            p_pendcount |-> [p \in Procs |-> 0],
            p_alarm |-> [p \in Procs |-> FALSE],
            ready |-> {1}, sig_procs |-> 0, callerq |-> <<>>,
            mm |-> "any", astray |-> FALSE]
    /\ sys = "receiving"
    /\ asked = [c \in Clients |-> None]
    /\ clock = 0
    /\ torn = FALSE

\* A running process sends a request to MM and waits for the answer, or asks
\* CLOCK for an alarm.
CallMM(p) ==
    /\ p \in k.ready
    /\ Writes({p, MMSlot}, SysUses \cup ClockUses,
              IF MMFree(k)
              THEN [Block(k, p, {RECEIVING}) EXCEPT !.mm = "working"]
              ELSE [Block(k, p, {SENDING, RECEIVING}) EXCEPT !.callerq = Append(@, p)])
    /\ UNCHANGED <<sys, asked, clock>>

SetAlarm(p) ==
    /\ p \in k.ready /\ ~k.p_alarm[p]
    /\ clock = 0
    /\ Writes({p}, SysUses, [k EXCEPT !.p_alarm[p] = TRUE])
    /\ UNCHANGED <<sys, asked, clock>>

MMWorks == k.mm = "working" /\ asked[MM] = None

\* MM answers a process that waits for it.
MMReplies(p) ==
    /\ MMWorks
    /\ RECEIVING \in k.p_flags[p]
    /\ k.p_flags[p] \cap {SENDING, NO_MAP} = {}
    /\ Writes({p}, SysUses \cup ClockUses, Unblock(k, p, {RECEIVING}))
    /\ UNCHANGED <<sys, asked, clock>>

\* receive(ANY): the first caller is taken, or MM waits.
MMReceives ==
    /\ MMWorks
    /\ Writes({MMSlot} \cup {k.callerq[i] : i \in DOMAIN k.callerq \cap {1}},
              SysUses \cup ClockUses,
              IF k.callerq = <<>> THEN [k EXCEPT !.mm = "any"]
              ELSE Unblock([k EXCEPT !.callerq = Tail(@)], Head(k.callerq), {SENDING}))
    /\ UNCHANGED <<sys, asked, clock>>

Ask(c, type, p1, p2, sigs) ==
    /\ type \in Asked
    /\ asked[c] = None
    /\ asked' = [asked EXCEPT ![c] = [type |-> type, p1 |-> p1, p2 |-> p2, sigs |-> sigs]]
    /\ UNCHANGED <<k, sys, clock, torn>>

MMAsks(p) ==
    /\ MMWorks
    /\ \/ live(k, p) /\ Ask(MM, SYS_XIT, p, 0, {})
       \/ \E child \in Procs \ {p} : Ask(MM, SYS_FORK, p, child, {})
       \/ \E type \in {SYS_NEWMAP, SYS_ENDSIG, T_STOP, T_RESUME} : Ask(MM, type, p, 0, {})
       \/ /\ Raised < MaxPend
          /\ \E traced \in {{}, {SIGTRAP}} : Ask(MM, SYS_EXEC, p, 0, traced)

FSAsks(p) ==
    \/ Raised < MaxPend /\ Ask(FS, SYS_KILL, p, 0, {SIGINT})
    \/ \E type \in Queries : Ask(FS, type, p, 0, {})

\* receive(ANY, &m), and the dispatch on m.m_type begins.
SysReceives(c) ==
    /\ sys = "receiving"
    /\ asked[c] # None
    /\ sys' = c
    /\ UNCHANGED <<k, asked, clock, torn>>

\* The handler is done, and the reply to m.m_source is sent.
SysServes ==
    /\ sys # "receiving"
    /\ LET r == asked[sys]
       IN  Writes(IF r.type = SYS_FORK THEN {r.p1, r.p2} ELSE Uses(r), ClockUses,
                  Dispatch(k, r))
    /\ asked' = [asked EXCEPT ![sys] = None]
    /\ sys' = "receiving"
    /\ UNCHANGED clock

\* do_clocktick: the alarm of p has expired.
ClockExpires(p) ==
    /\ k.p_alarm[p] /\ clock = 0
    /\ Raised < MaxPend
    /\ clock' = p
    /\ UNCHANGED <<k, sys, asked, torn>>

\* cause_sig, and p_alarm is cleared.
ClockSignals ==
    /\ clock # 0
    /\ Writes(ClockUses, SysUses,
              [cause_sig(k, clock, SIGALRM) EXCEPT !.p_alarm[clock] = FALSE])
    /\ clock' = 0
    /\ UNCHANGED <<sys, asked>>

\* A timer interrupt while a handler relinks a ready queue: sched() relinks
\* the same queue.
TickTears ==
    /\ SysUses \cup ClockUses # {}
    /\ k' \in Wrecks /\ torn' = TRUE
    /\ UNCHANGED <<sys, asked, clock>>

\* Nothing is said of what follows a data race, or a task that lost its name.
Intact == ~torn /\ ~k.astray

Next ==
    \/ /\ Intact
       /\ \/ SysServes \/ ClockSignals \/ MMReceives \/ TickTears
          \/ \E c \in Clients : SysReceives(c)
          \/ \E p \in Procs : \/ CallMM(p) \/ SetAlarm(p) \/ MMReplies(p)
                              \/ MMAsks(p) \/ FSAsks(p) \/ ClockExpires(p)
    \/ ~Intact /\ UNCHANGED vars

Spec == Init /\ [][Next]_vars

-----------------------------------------------------------------------------
(* Properties.                                                             *)

\* As long as no handler was preempted by a step on the same process, on MM's
\* queue or on sig_procs, and none in the middle of relinking a queue, and MM
\* was not told of a signal: whatever exec, trace, signal, map and exit requests
\* overlap, a process is in a ready queue exactly when no flag blocks it (the
\* lock_ready and lock_unready calls of system.c), so none runs while it is
\* stopped or signalled and none is left out when its last flag goes; and
\* sig_procs counts the processes with signals MM was not told of, also when
\* one of them exits.
FlagsInStep ==
    Intact =>
        /\ \A p \in Procs : p \in k.ready <=> k.p_flags[p] = {}
        /\ k.sig_procs = Cardinality({p \in Procs : PENDING \in k.p_flags[p]})

\* Under the same proviso the queue on MM holds exactly the processes that are
\* sending to it: do_xit takes out the one that exits, wherever it stands.
CallersAreSending ==
    Intact =>
        /\ IsInjective(k.callerq)
        /\ Range(k.callerq) = {p \in Procs : SENDING \in k.p_flags[p]}

=============================================================================
