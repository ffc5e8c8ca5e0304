------------------------------ MODULE ProcIpc ------------------------------
(***************************************************************************)
(* What the operators of Proc do to the queues, for every set of processes:*)
(* ready, unready, pick_proc, sched and the completion of a blocked call to*)
(* the ready queues, a call that starts to wait or ends to the caller      *)
(* queues and the invariant of message passing; and then what SEND, RECEIVE*)
(* and the SYSCALL trap as a whole do to that invariant and to the calls   *)
(* that wait.                                                              *)
(***************************************************************************)
EXTENDS Proc, SequenceTheorems, WellFoundedInduction, TLAPS

USE SMTT(30), ZenonT(30)

-----------------------------------------------------------------------------
(* Sequences that list a set *)

\* A new member goes to the end.
LEMMA ListsAppend ==
    ASSUME NEW T, NEW u \in Seq(T), NEW S, NEW p \in T, Lists(u, S), p \notin S
    PROVE  Append(u, p) \in Seq(T) /\ Lists(Append(u, p), S \cup {p})
<1> DEFINE v == Append(u, p)
<1>1. /\ v \in Seq(T) /\ Len(v) = Len(u) + 1 /\ Len(u) \in Nat
      /\ \A i \in 1 .. Len(u) : v[i] = u[i]
      /\ v[Len(u) + 1] = p
  BY AppendProperties, LenProperties
<1>2. DOMAIN u = 1 .. Len(u) /\ DOMAIN v = 1 .. (Len(u) + 1)
  BY <1>1, LenProperties, Zenon
<1>3. Range(v) = S \cup {p}
  BY <1>1, <1>2 DEF Lists, Range
<1>4. IsInjective(v)
  BY <1>1, <1>2 DEF Lists, Range, IsInjective
<1> QED BY <1>1, <1>3, <1>4, Zenon DEF Lists

\* Taking out the i-th member leaves the others.
LEMMA ListsUnlink ==
    ASSUME NEW T, NEW u \in Seq(T), NEW S, NEW i \in DOMAIN u, Lists(u, S)
    PROVE  Unlink(u, i) \in Seq(T) /\ Lists(Unlink(u, i), S \ {u[i]})
<1> DEFINE a == SubSeq(u, 1, i - 1)
           b == SubSeq(u, i + 1, Len(u))
           v == Unlink(u, i)
<1>1. Len(u) \in Nat /\ DOMAIN u = 1 .. Len(u) /\ i \in 1 .. Len(u)
  BY LenProperties, Zenon
<1>2. /\ a \in Seq(T) /\ Len(a) = i - 1 /\ \A j \in 1 .. (i - 1) : a[j] = u[j]
  BY <1>1, SubSeqProperties
<1>3. /\ b \in Seq(T) /\ Len(b) = Len(u) - i
      /\ \A j \in 1 .. (Len(u) - i) : b[j] = u[i + j]
  BY <1>1, SubSeqProperties
<1>4. /\ v \in Seq(T) /\ Len(v) = Len(u) - 1 /\ DOMAIN v = 1 .. (Len(u) - 1)
      /\ \A j \in 1 .. (Len(u) - 1) : v[j] = IF j < i THEN u[j] ELSE u[j + 1]
  <2>1. v = a \o b BY Zenon DEF Unlink
  <2> HIDE DEF a, b, v
  <2>2. /\ v \in Seq(T) /\ Len(v) = Len(a) + Len(b)
        /\ \A j \in 1 .. (Len(a) + Len(b)) : v[j] = IF j <= Len(a) THEN a[j] ELSE b[j - Len(a)]
    BY <1>2, <1>3, <2>1, ConcatProperties, Zenon
  <2>3. DOMAIN v = 1 .. Len(v) BY <2>2, LenProperties, Zenon
  <2>4. Len(v) = Len(u) - 1 BY <1>1, <1>2, <1>3, <2>2
  <2>5. ASSUME NEW j \in 1 .. (Len(u) - 1) PROVE v[j] = IF j < i THEN u[j] ELSE u[j + 1]
    <3>1. j \in 1 .. (Len(a) + Len(b)) BY <1>1, <1>2, <1>3
    <3>2. CASE j < i BY <1>1, <1>2, <2>2, <3>1, <3>2
    <3>3. CASE ~(j < i)
      <4>1. v[j] = b[j - Len(a)] BY <1>1, <1>2, <2>2, <3>1, <3>3
      <4>2. j - Len(a) \in 1 .. (Len(u) - i) /\ i + (j - Len(a)) = j + 1
        BY <1>1, <1>2, <3>3
      <4> QED BY <1>3, <3>3, <4>1, <4>2, Zenon
    <3> QED BY <3>2, <3>3, Zenon
  <2> QED BY <2>2, <2>3, <2>4, <2>5, Zenon
<1> HIDE DEF a, b, v
<1>5. Range(v) = S \ {u[i]}
  <2>1. ASSUME NEW x \in Range(v) PROVE x \in S \ {u[i]}
    <3>1. PICK j \in 1 .. (Len(u) - 1) : x = IF j < i THEN u[j] ELSE u[j + 1]
      BY <1>4, Zenon DEF Range
    <3> QED BY <1>1, <3>1 DEF Lists, Range, IsInjective
  <2>2. ASSUME NEW x \in S \ {u[i]} PROVE x \in Range(v)
    <3>1. PICK j \in 1 .. Len(u) : x = u[j] /\ j # i
      BY <1>1, Zenon DEF Lists, Range
    <3>2. CASE j < i
      <4>1. j \in DOMAIN v /\ v[j] = x BY <1>1, <1>4, <3>1, <3>2
      <4> QED BY <4>1, Zenon DEF Range
    <3>3. CASE j > i
      <4>1. j - 1 \in DOMAIN v /\ v[j - 1] = x BY <1>1, <1>4, <3>1, <3>3
      <4> QED BY <4>1, Zenon DEF Range
    <3> QED BY <1>1, <3>1, <3>2, <3>3
  <2> QED BY <2>1, <2>2, Zenon
<1>6. IsInjective(v)
  <2>1. SUFFICES ASSUME NEW x \in 1 .. (Len(u) - 1), NEW y \in 1 .. (Len(u) - 1), v[x] = v[y]
                 PROVE  x = y
    BY <1>4, Zenon DEF IsInjective
  <2> DEFINE at(j) == IF j < i THEN j ELSE j + 1
  <2>2. at(x) \in DOMAIN u /\ at(y) \in DOMAIN u /\ u[at(x)] = u[at(y)]
    BY <1>1, <1>4, <2>1
  <2>3. at(x) = at(y) BY <2>2, Zenon DEF Lists, IsInjective
  <2> QED BY <1>1, <2>3
<1> QED BY <1>4, <1>5, <1>6, Zenon DEF Lists, v

\* Taking the head leaves the rest.
LEMMA ListsTail ==
    ASSUME NEW T, NEW u \in Seq(T), NEW S, Lists(u, S), u # <<>>
    PROVE  /\ Tail(u) \in Seq(T) /\ Head(u) \in S /\ Head(u) \in T
           /\ Lists(Tail(u), S \ {Head(u)})
<1> DEFINE v == Tail(u)
<1>1. /\ Len(u) \in Nat /\ Len(u) > 0 /\ DOMAIN u = 1 .. Len(u)
      /\ v \in Seq(T) /\ Len(v) = Len(u) - 1 /\ Head(u) = u[1]
      /\ \A i \in 1 .. (Len(u) - 1) : v[i] = u[i + 1]
  BY HeadTailProperties, EmptySeq, LenProperties
<1>2. DOMAIN v = 1 .. (Len(u) - 1)
  BY <1>1, LenProperties, Zenon
<1> HIDE DEF v
<1>3. IsInjective(v)
  <2> SUFFICES ASSUME NEW i \in 1 .. (Len(u) - 1), NEW j \in 1 .. (Len(u) - 1), v[i] = v[j]
               PROVE  i = j
    BY <1>2, Zenon DEF IsInjective
  <2>1. /\ i + 1 \in DOMAIN u /\ j + 1 \in DOMAIN u
        /\ u[i + 1] = u[j + 1] /\ i \in Int /\ j \in Int
    BY <1>1
  <2>2. i + 1 = j + 1 BY <2>1, Zenon DEF Lists, IsInjective
  <2> QED BY <2>1, <2>2
<1>4. Range(v) = S \ {u[1]}
  <2>1. ASSUME NEW x \in Range(v) PROVE x \in S \ {u[1]}
    <3>1. PICK j \in 1 .. (Len(u) - 1) : x = u[j + 1]
      BY <1>1, <1>2, Zenon DEF Range
    <3> QED BY <1>1, <3>1 DEF Lists, Range, IsInjective
  <2>2. ASSUME NEW x \in S \ {u[1]} PROVE x \in Range(v)
    <3>1. PICK j \in 1 .. Len(u) : x = u[j] /\ j # 1
      BY <1>1, Zenon DEF Lists, Range
    <3>2. j - 1 \in DOMAIN v /\ v[j - 1] = x BY <1>1, <1>2, <3>1
    <3> QED BY <3>2, Zenon DEF Range
  <2> QED BY <2>1, <2>2, Zenon
<1>5. u[1] \in S /\ u[1] \in T
  BY <1>1 DEF Lists, Range
<1> QED BY <1>1, <1>3, <1>4, <1>5, Zenon DEF Lists, v

\* The empty queue lists the empty set.
LEMMA ListsEmpty ==
    ASSUME NEW T, NEW u \in Seq(T), NEW S, Lists(u, S)
    PROVE  (u = <<>>) <=> (S = {})
<1>1. Len(u) \in Nat /\ DOMAIN u = 1 .. Len(u)
  BY LenProperties, Zenon
<1>2. (u = <<>>) <=> (Len(u) = 0)
  BY EmptySeq, Zenon
<1>3. (S = {}) <=> (DOMAIN u = {})
  BY Zenon DEF Lists, Range
<1> QED BY <1>1, <1>2, <1>3

\* Every nonempty set of positions has a first one.
LEMMA MinNat ==
    ASSUME NEW B \in SUBSET Nat, B # {}
    PROVE  Min(B) \in B /\ \A y \in B : Min(B) <= y
<1> DEFINE R == OpToRel(<, Nat)
<1>1. \E x \in B : \A y \in B : ~(<<y, x>> \in R)
  <2>1. IsWellFoundedOn(R, Nat) BY NatLessThanWellFounded, Zenon
  <2> HIDE DEF R
  <2> QED BY <2>1, WFMin, Zenon
<1>2. \A x, y \in Nat : <<y, x>> \in R <=> y < x
  BY Zenon DEF OpToRel
<1> HIDE DEF R
<1>3. \E x \in B : \A y \in B : x <= y
  <2>1. PICK x \in B : \A y \in B : ~(<<y, x>> \in R) BY <1>1, Zenon
  <2>2. \A y \in B : ~(y < x) BY <1>2, <2>1, Zenon
  <2>3. \A y \in B : x <= y BY <2>2
  <2> QED BY <2>3, Zenon
<1> QED BY <1>3, Zenon DEF Min

-----------------------------------------------------------------------------
(* Ready queues *)

\* Every process belongs to one of the three queues.
LEMMA ProcQueueType == \A p \in Proc : proc_queue(p) \in Queues
BY DEF proc_queue, Queues, NQ, TASK_Q, SERVER_Q, USER_Q

\* The fields that message passing owns.
IpcSame(s, t) ==
    /\ t.p_flags = s.p_flags /\ t.p_getfrom = s.p_getfrom /\ t.p_sendto = s.p_sendto
    /\ t.p_callerq = s.p_callerq /\ t.p_int_blocked = s.p_int_blocked
    /\ t.p_blocked_frame = s.p_blocked_frame /\ t.copied = s.copied /\ t.held = s.held
    /\ t.blocked_return_proc = s.blocked_return_proc

\* The fields that say who owns the CPU.
OwnerSame(s, t) ==
    /\ t.switching = s.switching /\ t.halted = s.halted /\ t.running = s.running
    /\ t.proc_ptr = s.proc_ptr /\ t.current_proc = s.current_proc
    /\ t.last_selected_fs = s.last_selected_fs

\* The process that is billed: the one before, or one that runs.
Bills(s, t) == t.bill_ptr = s.bill_ptr \/ Runnable(t, t.bill_ptr)

\* ready() on a process that is in no queue puts it into the queue of its class.
LEMMA ReadyLemma ==
    ASSUME NEW s \in KType, NEW X, NEW p \in Proc \ (X \cup {IDLE, HARDWARE}),
           Runnable(s, p), ReadyQueues(s, X \cup {p})
    PROVE  LET t == ready(s, p)
           IN  /\ t \in KType /\ ReadyQueues(t, X)
               /\ IpcSame(s, t) /\ OwnerSame(s, t) /\ t.bill_ptr = s.bill_ptr
               /\ t.irq_return_proc = IF p = FS THEN FS ELSE s.irq_return_proc
<1> DEFINE t == ready(s, p)
           q == proc_queue(p)
<1>0. p \in Proc OBVIOUS
<1>1. q \in Queues BY ProcQueueType, Zenon
<1>2. ~Blocked(s, p) BY Zenon DEF Runnable, Blocked
<1>3. ~proc_is_ready_queued(s, p)
  BY Zenon DEF proc_is_ready_queued, ReadyQueues, Lists
<1>4. t = [s EXCEPT !.rdy[q] = Append(@, p),
                    !.irq_return_proc = IF p = FS THEN p ELSE @]
  BY <1>2, <1>3, Zenon DEF ready, blocked_handoff_eligible
<1>5. Append(s.rdy[q], p) \in Seq(Proc)
  BY <1>1, AppendProperties DEF KType
<1> HIDE DEF t, q
<1>6. t \in KType
  BY <1>0, <1>1, <1>4, <1>5, ZenonT(60) DEF KType
<1>7. /\ IpcSame(s, t) /\ OwnerSame(s, t) /\ t.bill_ptr = s.bill_ptr
      /\ t.irq_return_proc = IF p = FS THEN FS ELSE s.irq_return_proc
      /\ t.rdy = [s.rdy EXCEPT ![q] = Append(s.rdy[q], p)]
  BY <1>4, Zenon DEF KType, IpcSame, OwnerSame
<1>8. ReadyQueues(t, X)
  <2> SUFFICES ASSUME NEW r \in Queues
               PROVE  Lists(t.rdy[r], {x \in Proc \ ({IDLE, HARDWARE} \cup X) :
                                         proc_queue(x) = r /\ Runnable(t, x)})
    BY Zenon DEF ReadyQueues
  <2> DEFINE S(Y) == {x \in Proc \ ({IDLE, HARDWARE} \cup Y) :
                        proc_queue(x) = r /\ Runnable(s, x)}
  <2>1. Lists(s.rdy[r], S(X \cup {p})) BY Zenon DEF ReadyQueues
  <2>2. s.rdy[r] \in Seq(Proc) /\ DOMAIN s.rdy = Queues BY Zenon DEF KType
  <2>3. CASE r = q
    <3>1. S(X) = S(X \cup {p}) \cup {p} /\ p \notin S(X \cup {p}) BY <2>3, Zenon DEF q
    <3> DEFINE u == s.rdy[r]
               W == S(X \cup {p})
    <3>2. u \in Seq(Proc) /\ Lists(u, W) /\ p \notin W BY <2>1, <2>2, <3>1, Zenon
    <3> HIDE DEF u, W
    <3>3. Lists(Append(u, p), W \cup {p}) BY <1>0, <3>2, ListsAppend, Zenon
    <3>4. Lists(Append(s.rdy[r], p), S(X)) BY <3>1, <3>3, Zenon DEF u, W
    <3> QED BY <1>7, <2>2, <2>3, <3>4, Zenon DEF Runnable, IpcSame
  <2>4. CASE r # q
    <3>1. S(X) = S(X \cup {p}) BY <2>4, Zenon DEF q
    <3> QED BY <1>7, <2>1, <2>2, <2>4, <3>1, ZenonT(60) DEF Runnable, IpcSame
  <2> QED BY <2>3, <2>4, Zenon
<1> QED BY <1>6, <1>7, <1>8, Zenon DEF t

\* unready() on a process that is in no queue changes nothing.
LEMMA UnreadyLemma ==
    ASSUME NEW s \in KType, NEW X, NEW p \in X, p \in Proc, ReadyQueues(s, X)
    PROVE  unready(s, p) = s
<1>1. p \notin Range(s.rdy[proc_queue(p)])
  BY ProcQueueType, Zenon DEF ReadyQueues, Lists
<1> QED BY <1>1, Zenon DEF unready, Range

\* Under ReadyQueues every head is runnable: pick_proc has nothing to drop.
LEMMA DropLemma ==
    ASSUME NEW s \in KType, NEW X, ReadyQueues(s, X), NEW q \in Queues
    PROVE  DropBlocked(s, q) = s.rdy[q]
<1> DEFINE u == s.rdy[q]
           live == {i \in DOMAIN u : Runnable(s, u[i])}
<1>1. u \in Seq(Proc) BY Zenon DEF KType
<1>2. Len(u) \in Nat /\ DOMAIN u = 1 .. Len(u) BY <1>1, LenProperties, Zenon
<1>3. live = DOMAIN u BY Zenon DEF ReadyQueues, Lists, Range
<1>4. CASE live = {}
  <2>1. u = <<>> BY <1>1, <1>2, <1>3, <1>4, EmptySeq
  <2> QED BY <1>4, <2>1, Zenon DEF DropBlocked
<1>5. CASE live # {}
  <2> HIDE DEF u, live
  <2>1. live \subseteq Nat BY <1>2, <1>3
  <2>2. Min(live) \in live /\ \A y \in live : Min(live) <= y BY <1>5, <2>1, MinNat, Zenon
  <2>3. Min(live) = 1
    <3> DEFINE m == Min(live)
    <3>1. m \in 1 .. Len(u) /\ \A y \in 1 .. Len(u) : m <= y BY <1>2, <1>3, <2>2, Zenon
    <3> HIDE DEF m
    <3>2. m = 1 BY <1>2, <3>1
    <3> QED BY <3>2, Zenon DEF m
  <2>4. SubSeq(u, 1, Len(u)) = u
    <3>1. /\ SubSeq(u, 1, Len(u)) \in Seq(Proc)
          /\ Len(SubSeq(u, 1, Len(u))) = Len(u)
          /\ \A i \in 1 .. Len(u) : SubSeq(u, 1, Len(u))[i] = u[i]
      BY <1>1, <1>2, SubSeqProperties
    <3> QED BY <1>1, <3>1, SeqEqual, Zenon
  <2>5. DropBlocked(s, q) = SubSeq(u, Min(live), Len(u)) BY <1>5, Zenon DEF DropBlocked, u, live
  <2> QED BY <2>3, <2>4, <2>5, Zenon DEF u
<1> QED BY <1>4, <1>5, Zenon

\* pick_proc tries the three classes, each once.
LEMMA ClassType ==
    ASSUME NEW s \in KType
    PROVE  /\ \A o \in Queues : Class(s, o) \in Queues
           /\ \A q \in Queues : \E o \in Queues : Class(s, o) = q
<1>1. s.next_queue \in {0, 1, 2} BY DEF KType, Queues, NQ
<1>2. CASE s.next_queue = 0 BY <1>2 DEF Class, Queues, NQ
<1>3. CASE s.next_queue = 1 BY <1>3 DEF Class, Queues, NQ
<1>4. CASE s.next_queue = 2 BY <1>4 DEF Class, Queues, NQ
<1> QED BY <1>1, <1>2, <1>3, <1>4, Zenon

\* pick_proc on queues that hold every runnable process.
LEMMA PickLemma ==
    ASSUME NEW s \in KType, NEW active \in BOOLEAN, ReadyQueues(s, {}), Runnable(s, IDLE),
           s.last_selected_fs \in {NIL, FS}
    PROVE  LET t == pick_proc(s, active)
           IN  /\ t \in KType /\ IpcSame(s, t) /\ Bills(s, t)
               /\ t.switching = s.switching /\ t.halted = s.halted /\ t.running = s.running
               /\ t.proc_ptr = t.current_proc /\ Runnable(t, t.proc_ptr)
               /\ ReadyQueues(t, {t.proc_ptr})
               /\ t.last_selected_fs \in {NIL, FS}
               /\ (\E q \in Queues : s.rdy[q] # <<>>) =>
                    t.proc_ptr # IDLE /\ (active => t.irq_return_proc = t.proc_ptr)
<1> DEFINE t == pick_proc(s, active)
           busy == {o \in Queues : DropBlocked(s, Class(s, o)) # <<>>}
<1>1. busy = {o \in Queues : s.rdy[Class(s, o)] # <<>>}
  BY DropLemma, ClassType, Zenon
<1>2. CASE busy = {}
  <2>1. \A q \in Queues : s.rdy[q] = <<>> BY <1>1, <1>2, ClassType, Zenon
  <2>2. s.rdy = [x \in Queues |-> <<>>] BY <2>1, Zenon DEF KType
  <2>3. t = [s EXCEPT !.rdy = s.rdy, !.proc_ptr = IDLE, !.current_proc = IDLE, !.bill_ptr = IDLE]
    BY <1>2, <2>2, Zenon DEF pick_proc
  <2>4. IDLE \in Proc BY ProcAssumption, Zenon DEF Proc
  <2> HIDE DEF t, busy
  <2>5. t \in KType BY <2>3, <2>4, Zenon DEF KType
  <2>6. /\ IpcSame(s, t) /\ t.bill_ptr = IDLE
        /\ t.switching = s.switching /\ t.halted = s.halted /\ t.running = s.running
        /\ t.proc_ptr = IDLE /\ t.current_proc = IDLE
        /\ t.last_selected_fs = s.last_selected_fs /\ t.rdy = s.rdy
    BY <2>3, Zenon DEF KType, IpcSame
  <2>7. ReadyQueues(t, {IDLE}) BY <2>6, Zenon DEF ReadyQueues, Runnable, IpcSame
  <2> QED BY <2>1, <2>5, <2>6, <2>7, Zenon DEF t, Runnable, IpcSame, Bills
<1>3. CASE busy # {}
  <2> DEFINE q == Class(s, Min(busy))
             rp == Head(s.rdy[q])
             passed == {Class(s, o) : o \in {x \in Queues : x < Min(busy)}}
             v == [s.rdy EXCEPT ![q] = Tail(@)]
  <2>1. Min(busy) \in busy /\ \A y \in busy : Min(busy) <= y
    <3>1. busy \subseteq Nat BY DEF Queues, NQ
    <3> HIDE DEF busy
    <3> QED BY <1>3, <3>1, MinNat, Zenon
  <2>2. q \in Queues /\ s.rdy[q] # <<>> BY <1>1, <2>1, ClassType, Zenon
  <2>3. \A x \in passed : s.rdy[x] = <<>> BY <1>1, <2>1 DEF Queues, NQ
  <2>4. DropBlocked(s, q) = s.rdy[q] BY <2>2, DropLemma, Zenon
  <2>5. t = [s EXCEPT
                !.rdy = [x \in Queues |-> IF x = q THEN Tail(s.rdy[q])
                                          ELSE IF x \in passed THEN <<>> ELSE @[x]],
                !.next_queue = NextQueue(q),
                !.proc_ptr = rp,
                !.current_proc = rp,
                !.irq_return_proc = IF active \/ rp = FS THEN rp ELSE @,
                !.last_selected_fs = IF rp = FS THEN rp ELSE @,
                !.bill_ptr = IF rp \in Users THEN rp ELSE @]
    BY <1>3, <2>4, Zenon DEF pick_proc
  <2> HIDE DEF t, busy
  <2>6. [x \in Queues |-> IF x = q THEN Tail(s.rdy[q])
                          ELSE IF x \in passed THEN <<>> ELSE s.rdy[x]] = v
    BY <2>2, <2>3, Zenon DEF KType
  <2> DEFINE S(X) == {p \in Proc \ ({IDLE, HARDWARE} \cup X) :
                        proc_queue(p) = q /\ Runnable(s, p)}
  <2>7. /\ Tail(s.rdy[q]) \in Seq(Proc) /\ rp \in S({}) /\ rp \in Proc
        /\ Lists(Tail(s.rdy[q]), S({}) \ {rp})
    <3> DEFINE u == s.rdy[q]
               W == S({})
    <3>1. u \in Seq(Proc) /\ Lists(u, W) /\ u # <<>> BY <2>2, Zenon DEF KType, ReadyQueues
    <3> HIDE DEF u, W
    <3>2. /\ Tail(u) \in Seq(Proc) /\ Head(u) \in W /\ Head(u) \in Proc
          /\ Lists(Tail(u), W \ {Head(u)})
      BY <3>1, ListsTail, Zenon
    <3> QED BY <3>2, Zenon DEF u, W
  <2>8. v \in [Queues -> Seq(Proc)] BY <2>2, <2>7, Zenon DEF KType
  <2>9. NextQueue(q) \in Queues BY <2>2 DEF NextQueue, Queues, NQ
  <2> HIDE DEF q, rp, v, passed
  <2>10. t = [s EXCEPT !.rdy = v, !.next_queue = NextQueue(q),
                !.proc_ptr = rp, !.current_proc = rp,
                !.irq_return_proc = IF active \/ rp = FS THEN rp ELSE @,
                !.last_selected_fs = IF rp = FS THEN rp ELSE @,
                !.bill_ptr = IF rp \in Users THEN rp ELSE @]
    BY <2>5, <2>6, Zenon
  <2>11. t \in KType
    <3> DEFINE back == IF active \/ rp = FS THEN rp ELSE s.irq_return_proc
               fs == IF rp = FS THEN rp ELSE s.last_selected_fs
               bill == IF rp \in Users THEN rp ELSE s.bill_ptr
    <3>1. /\ rp \in Proc /\ back \in Proc \cup {NIL} /\ fs \in Proc \cup {NIL}
          /\ bill \in Proc
      BY <2>7, Zenon DEF KType
    <3>2. t = [s EXCEPT !.rdy = v, !.next_queue = NextQueue(q), !.proc_ptr = rp,
                 !.current_proc = rp, !.irq_return_proc = back,
                 !.last_selected_fs = fs, !.bill_ptr = bill]
      BY <2>10, Zenon
    <3> HIDE DEF back, fs, bill
    <3> QED BY <2>8, <2>9, <3>1, <3>2, ZenonT(60) DEF KType
  <2>12. /\ IpcSame(s, t) /\ t.bill_ptr \in {rp, s.bill_ptr}
         /\ t.switching = s.switching /\ t.halted = s.halted /\ t.running = s.running
         /\ t.proc_ptr = rp /\ t.current_proc = rp /\ t.rdy = v
         /\ t.irq_return_proc = IF active \/ rp = FS THEN rp ELSE s.irq_return_proc
         /\ t.last_selected_fs = IF rp = FS THEN rp ELSE s.last_selected_fs
    BY <2>10, Zenon DEF KType, IpcSame
  <2>13. ReadyQueues(t, {rp})
    <3> SUFFICES ASSUME NEW r \in Queues
                 PROVE  Lists(t.rdy[r], {p \in Proc \ ({IDLE, HARDWARE} \cup {rp}) :
                                           proc_queue(p) = r /\ Runnable(t, p)})
      BY Zenon DEF ReadyQueues
    <3>1. CASE r = q
      <4>1. S({}) \ {rp} = {p \in Proc \ ({IDLE, HARDWARE} \cup {rp}) :
                               proc_queue(p) = r /\ Runnable(t, p)}
        BY <2>12, <3>1, Zenon DEF Runnable, IpcSame
      <4>2. t.rdy[r] = Tail(s.rdy[q]) BY <2>2, <2>12, <3>1, Zenon DEF v, KType
      <4> HIDE DEF S
      <4> QED BY <2>7, <4>1, <4>2, Zenon
    <3>2. CASE r # q
      <4>1. t.rdy[r] = s.rdy[r] BY <2>2, <2>12, <3>2, Zenon DEF v, KType
      <4>2. proc_queue(rp) = q BY <2>7, Zenon
      <4>3. {p \in Proc \ ({IDLE, HARDWARE} \cup {rp}) : proc_queue(p) = r /\ Runnable(t, p)}
             = {p \in Proc \ ({IDLE, HARDWARE} \cup {}) : proc_queue(p) = r /\ Runnable(s, p)}
        BY <2>12, <3>2, <4>2, Zenon DEF Runnable, IpcSame
      <4> QED BY <4>1, <4>3, Zenon DEF ReadyQueues
    <3> QED BY <3>1, <3>2, Zenon
  <2>14. rp # IDLE /\ Runnable(t, rp) BY <2>7, <2>12, Zenon DEF Runnable, IpcSame
  <2> QED BY <2>11, <2>12, <2>13, <2>14, Zenon DEF t, Bills
<1> QED BY <1>2, <1>3, Zenon

\* sched() on an owner that is in no queue.
LEMMA SchedLemma ==
    ASSUME NEW s \in KType, NEW active \in BOOLEAN,
           ReadyQueues(s, {s.current_proc}), Runnable(s, IDLE),
           s.last_selected_fs \in {NIL, FS}
    PROVE  LET t == sched(s, active)
           IN  /\ t \in KType /\ IpcSame(s, t) /\ Bills(s, t)
               /\ t.switching = s.switching /\ t.halted = s.halted /\ t.running = s.running
               /\ t.proc_ptr = t.current_proc /\ Runnable(t, t.proc_ptr)
               /\ ReadyQueues(t, {t.proc_ptr})
               /\ t.last_selected_fs \in {NIL, FS}
               /\ (\E q \in Queues : s.rdy[q] # <<>>) =>
                    t.proc_ptr # IDLE /\ (active => t.irq_return_proc = t.proc_ptr)
<1> DEFINE p == s.current_proc
           again == Runnable(s, p) /\ ~isidlehardware(p)
           u == IF again THEN ready(s, p) ELSE s
<1>1. p \in Proc BY Zenon DEF KType
<1>2. /\ u \in KType /\ IpcSame(s, u) /\ OwnerSame(s, u) /\ ReadyQueues(u, {})
      /\ u.bill_ptr = s.bill_ptr
      /\ (\E q \in Queues : s.rdy[q] # <<>>) => \E q \in Queues : u.rdy[q] # <<>>
  <2>1. CASE again
    <3>1. p \notin {} \cup {IDLE, HARDWARE} BY <2>1, Zenon DEF isidlehardware
    <3>2. ReadyQueues(s, {} \cup {p})
      <4>1. {} \cup {p} = {p} OBVIOUS
      <4> QED BY <4>1, Zenon
    <3> HIDE DEF p, u
    <3>3. LET t == ready(s, p)
          IN  /\ t \in KType /\ ReadyQueues(t, {}) /\ IpcSame(s, t) /\ OwnerSame(s, t)
              /\ t.bill_ptr = s.bill_ptr
      BY <1>1, <2>1, <3>1, <3>2, ReadyLemma, Zenon
    <3>4. u = ready(s, p) BY <2>1, Zenon DEF u
    <3>5. \E q \in Queues : u.rdy[q] # <<>>
      <4> DEFINE q == proc_queue(p)
                 S == {x \in Proc \ ({IDLE, HARDWARE} \cup {}) :
                         proc_queue(x) = q /\ Runnable(u, x)}
      <4>1. q \in Queues BY <1>1, ProcQueueType, Zenon
      <4>2. p \in S BY <1>1, <2>1, <3>1, <3>3, <3>4, Zenon DEF Runnable, IpcSame
      <4>3. Lists(u.rdy[q], S) /\ u.rdy[q] \in Seq(Proc)
        <5>1. u \in KType /\ ReadyQueues(u, {}) BY <3>3, <3>4, Zenon
        <5>2. Lists(u.rdy[q], S) BY <4>1, <5>1, Zenon DEF ReadyQueues
        <5>3. u.rdy[q] \in Seq(Proc) BY <4>1, <5>1, Zenon DEF KType
        <5> QED BY <5>2, <5>3, Zenon
      <4> HIDE DEF S, q
      <4> QED BY <4>1, <4>2, <4>3, ListsEmpty, Zenon
    <3> QED BY <3>3, <3>4, <3>5, Zenon
  <2>2. CASE ~again
    <3>1. u = s BY <2>2, Zenon
    <3>2. ReadyQueues(s, {}) BY <2>2, Zenon DEF ReadyQueues, isidlehardware
    <3> QED BY <3>1, <3>2, Zenon DEF IpcSame, OwnerSame
  <2> QED BY <2>1, <2>2, Zenon
<1>3. sched(s, active) = pick_proc(u, active) BY Zenon DEF sched
<1> HIDE DEF p, u, again
<1>4. Runnable(u, IDLE) /\ u.last_selected_fs \in {NIL, FS}
  BY <1>2, Zenon DEF Runnable, IpcSame, OwnerSame
<1> DEFINE t == pick_proc(u, active)
<1>5. /\ t \in KType /\ IpcSame(u, t) /\ Bills(u, t)
      /\ t.switching = u.switching /\ t.halted = u.halted /\ t.running = u.running
      /\ t.proc_ptr = t.current_proc /\ Runnable(t, t.proc_ptr)
      /\ ReadyQueues(t, {t.proc_ptr})
      /\ t.last_selected_fs \in {NIL, FS}
      /\ (\E q \in Queues : u.rdy[q] # <<>>) =>
           t.proc_ptr # IDLE /\ (active => t.irq_return_proc = t.proc_ptr)
  BY <1>2, <1>4, PickLemma, Zenon
<1> HIDE DEF t
<1>6. IpcSame(s, t) /\ Bills(s, t) BY <1>2, <1>5, Zenon DEF IpcSame, Bills
<1>7. t.switching = s.switching /\ t.halted = s.halted /\ t.running = s.running
  BY <1>2, <1>5, Zenon DEF OwnerSame
<1>8. t = sched(s, active) BY <1>3, Zenon DEF t
<1> QED BY <1>2, <1>5, <1>6, <1>7, <1>8, Zenon

-----------------------------------------------------------------------------
(* Completion of a blocked call *)

\* t is s with the call of p over.
Woken(s, t, p) ==
    /\ t.p_flags = [s.p_flags EXCEPT ![p] = @ \ {SENDING, RECEIVING}]
    /\ t.p_blocked_frame = [s.p_blocked_frame EXCEPT ![p] = "none"]
    /\ t.blocked_return_proc = IF s.blocked_return_proc = p THEN NIL
                                ELSE s.blocked_return_proc
    /\ t.p_getfrom = s.p_getfrom /\ t.p_sendto = s.p_sendto /\ t.p_callerq = s.p_callerq
    /\ t.p_int_blocked = s.p_int_blocked /\ t.copied = s.copied /\ t.held = s.held

\* cp32_complete_blocked_frame wakes p and queues it once.
LEMMA CompleteLemma ==
    ASSUME NEW s \in KType, NEW X, NEW p \in Proc \ (X \cup {IDLE, HARDWARE}),
           ReadyQueues(s, X \cup {p}), s.p_blocked_frame[p] # "mismatch"
    PROVE  LET t == cp32_complete_blocked_frame(s, p)
           IN  /\ t \in KType /\ ReadyQueues(t, X)
               /\ Woken(s, t, p) /\ OwnerSame(s, t) /\ t.bill_ptr = s.bill_ptr
               /\ \/ t.irq_return_proc = s.irq_return_proc
                  \/ p = FS /\ t.irq_return_proc = FS /\ Runnable(t, FS)
<1> DEFINE t == cp32_complete_blocked_frame(s, p)
           w == [s EXCEPT !.p_flags[p] = @ \ {SENDING, RECEIVING},
                          !.p_blocked_frame[p] = "none",
                          !.blocked_return_proc = IF @ = p THEN NIL ELSE @]
<1>0. p \in Proc /\ p \notin X \cup {IDLE, HARDWARE} OBVIOUS
<1>1. t = IF Runnable(w, p) THEN ready(w, p) ELSE w
  BY Zenon DEF cp32_complete_blocked_frame
<1>2. w \in KType
  <2>1. s.p_flags[p] \ {SENDING, RECEIVING} \in SUBSET Flags BY <1>0, Zenon DEF KType
  <2> QED BY <1>0, <2>1, Zenon DEF KType
<1>3. Woken(s, w, p) /\ OwnerSame(s, w) /\ w.rdy = s.rdy
      /\ w.irq_return_proc = s.irq_return_proc /\ w.bill_ptr = s.bill_ptr
  BY Zenon DEF KType, Woken, OwnerSame
<1> HIDE DEF t, w
<1>4. \A x \in Proc \ {p} : Runnable(w, x) <=> Runnable(s, x)
  BY <1>3 DEF Woken, Runnable, KType
<1>5. ReadyQueues(w, X \cup {p})
  <2> SUFFICES ASSUME NEW r \in Queues
               PROVE  Lists(w.rdy[r], {x \in Proc \ ({IDLE, HARDWARE} \cup (X \cup {p})) :
                                         proc_queue(x) = r /\ Runnable(w, x)})
    BY Zenon DEF ReadyQueues
  <2>1. {x \in Proc \ ({IDLE, HARDWARE} \cup (X \cup {p})) : proc_queue(x) = r /\ Runnable(w, x)}
         = {x \in Proc \ ({IDLE, HARDWARE} \cup (X \cup {p})) : proc_queue(x) = r /\ Runnable(s, x)}
    BY <1>4, Zenon
  <2> QED BY <1>3, <2>1, Zenon DEF ReadyQueues
<1>6. CASE Runnable(w, p)
  <2>1. t = ready(w, p) BY <1>1, <1>6, Zenon
  <2>2. /\ t \in KType /\ ReadyQueues(t, X) /\ IpcSame(w, t) /\ OwnerSame(w, t)
        /\ t.bill_ptr = w.bill_ptr
        /\ t.irq_return_proc = IF p = FS THEN FS ELSE w.irq_return_proc
    BY <1>0, <1>2, <1>5, <1>6, <2>1, ReadyLemma, Zenon
  <2>3. Woken(s, t, p) BY <1>3, <2>2, Zenon DEF Woken, IpcSame
  <2>4. OwnerSame(s, t) BY <1>3, <2>2, Zenon DEF OwnerSame
  <2>5. Runnable(t, p) BY <1>6, <2>2, Zenon DEF Runnable, IpcSame
  <2> QED BY <1>3, <2>2, <2>3, <2>4, <2>5, Zenon DEF t
<1>7. CASE ~Runnable(w, p)
  <2>1. t = w BY <1>1, <1>7, Zenon
  <2>2. ReadyQueues(w, X)
    <3> SUFFICES ASSUME NEW r \in Queues
                 PROVE  Lists(w.rdy[r], {x \in Proc \ ({IDLE, HARDWARE} \cup X) :
                                           proc_queue(x) = r /\ Runnable(w, x)})
      BY Zenon DEF ReadyQueues
    <3>1. {x \in Proc \ ({IDLE, HARDWARE} \cup (X \cup {p})) : proc_queue(x) = r /\ Runnable(w, x)}
           = {x \in Proc \ ({IDLE, HARDWARE} \cup X) : proc_queue(x) = r /\ Runnable(w, x)}
      BY <1>7, Zenon
    <3> QED BY <1>5, <3>1, Zenon DEF ReadyQueues
  <2> QED BY <1>2, <1>3, <2>1, <2>2, Zenon DEF t
<1> QED BY <1>6, <1>7, Zenon

-----------------------------------------------------------------------------
(* The invariant of message passing *)

\* A call that still sends and then receives, receives from the one it sends to.
Paired(s) ==
    \A p \in Proc : {SENDING, RECEIVING} \subseteq s.p_flags[p] => s.p_getfrom[p] = s.p_sendto[p]

Ipc(s) ==
    /\ CallerQueues(s)
    /\ \A C \in SUBSET Proc : ~SendCycle(s, C)
    /\ \A p \in Proc : ~Missed(s, p)
    /\ Paired(s)
    /\ Runnable(s, IDLE) /\ Runnable(s, HARDWARE)

\* The types of the fields of a descriptor.
LEMMA KFields ==
    ASSUME NEW s \in KType
    PROVE  /\ s.p_flags \in [Proc -> SUBSET Flags]
           /\ s.p_getfrom \in [Proc -> Proc \cup {ANY}]
           /\ s.p_sendto \in [Proc -> Proc]
           /\ s.p_callerq \in [Proc -> Seq(Proc)]
           /\ s.p_int_blocked \in [Proc -> BOOLEAN]
           /\ s.p_blocked_frame \in [Proc -> {"none", "valid", "mismatch"}]
BY Zenon DEF KType

\* Overwriting a value with itself.
LEMMA ExceptSame ==
    ASSUME NEW S, NEW T, NEW f \in [S -> T], NEW x \in S
    PROVE  [f EXCEPT ![x] = f[x]] = f
OBVIOUS

\* p sends to d.
SendsTo(s, p, d) == p \in Proc /\ SENDING \in s.p_flags[p] /\ s.p_sendto[p] = d

\* What RECEIVE finds in the caller queue, said of the flags.
LEMMA MatchingLemma ==
    ASSUME NEW s \in KType, CallerQueues(s), NEW x \in Proc, NEW src
    PROVE  (Matching(s, x, src) # {}) <=> \E p \in Proc : SendsTo(s, p, x) /\ src \in {ANY, p}
<1>1. Range(s.p_callerq[x]) = {p \in Proc : SendsTo(s, p, x)}
  BY Zenon DEF CallerQueues, Lists, SendsTo
<1>2. (Matching(s, x, src) # {}) <=> \E p \in Range(s.p_callerq[x]) : src \in {ANY, p}
  BY Zenon DEF Matching, Range
<1> QED BY <1>1, <1>2, Zenon

\* A rendezvous is missed when RECEIVE would find something to take.
LEMMA MissedLemma ==
    ASSUME NEW s \in KType, NEW x \in Proc
    PROVE  Missed(s, x) <=>
             /\ Receiving(s, x)
             /\ \/ Matching(s, x, s.p_getfrom[x]) # {}
                \/ s.p_int_blocked[x] /\ s.p_getfrom[x] \in {ANY, HARDWARE}
<1>1. (Matching(s, x, s.p_getfrom[x]) # {})
        <=> \E q \in Range(s.p_callerq[x]) : s.p_getfrom[x] \in {ANY, q}
  BY Zenon DEF Matching, Range
<1> QED BY <1>1, Zenon DEF Missed

\* Every queued sender passes the link checks of mini_send and mini_rec.
LEMMA LinkedLemma ==
    ASSUME NEW s \in KType, CallerQueues(s), NEW d \in Proc, NEW i \in DOMAIN s.p_callerq[d]
    PROVE  SendsTo(s, s.p_callerq[d][i], d)
<1>1. s.p_callerq[d][i] \in Range(s.p_callerq[d]) BY Zenon DEF Range
<1> QED BY <1>1, Zenon DEF CallerQueues, Lists, SendsTo

\* Steps that change no flag and link nobody.
LEMMA IpcFields ==
    ASSUME NEW s \in KType, NEW t \in KType, Ipc(s),
           t.p_flags = s.p_flags, t.p_getfrom = s.p_getfrom, t.p_sendto = s.p_sendto,
           t.p_callerq = s.p_callerq,
           \A p \in Proc : t.p_int_blocked[p] => s.p_int_blocked[p] \/ ~Accepts(s, p, HARDWARE)
    PROVE  Ipc(t)
<1>1. CallerQueues(t) BY Zenon DEF Ipc, CallerQueues
<1>2. \A C \in SUBSET Proc : ~SendCycle(t, C) BY Zenon DEF Ipc, SendCycle
<1>3. ASSUME NEW p \in Proc, Missed(t, p) PROVE FALSE
  <2>1. Receiving(s, p) /\ ~Missed(s, p) BY <1>3, Zenon DEF Missed, Receiving, Ipc
  <2>2. Matching(t, p, t.p_getfrom[p]) = Matching(s, p, s.p_getfrom[p]) BY Zenon DEF Matching
  <2>3. t.p_int_blocked[p] /\ s.p_getfrom[p] \in {ANY, HARDWARE}
    BY <1>3, <2>1, <2>2, MissedLemma, Zenon
  <2>4. Accepts(s, p, HARDWARE) BY <2>1, <2>3, Zenon DEF Accepts
  <2> QED BY <2>1, <2>3, <2>4, MissedLemma, Zenon
<1>4. Paired(t) BY Zenon DEF Ipc, Paired
<1>5. Runnable(t, IDLE) /\ Runnable(t, HARDWARE) BY Zenon DEF Ipc, Runnable
<1> QED BY <1>1, <1>2, <1>3, <1>4, <1>5, Zenon DEF Ipc

\* A receiver that gets its message.
LEMMA IpcWake ==
    ASSUME NEW s \in KType, NEW t \in KType, Ipc(s), NEW p \in Proc \ {IDLE, HARDWARE},
           SENDING \notin s.p_flags[p], Woken(s, t, p)
    PROVE  Ipc(t)
<1>1. p \in Proc OBVIOUS
<1>2. /\ \A x \in Proc : SENDING \in t.p_flags[x] <=> SENDING \in s.p_flags[x]
      /\ \A x \in Proc \ {p} : t.p_flags[x] = s.p_flags[x]
      /\ RECEIVING \notin t.p_flags[p]
      /\ t.p_getfrom = s.p_getfrom /\ t.p_sendto = s.p_sendto /\ t.p_callerq = s.p_callerq
      /\ t.p_int_blocked = s.p_int_blocked
  BY DEF Woken, KType
<1>3. CallerQueues(t)
  <2> SUFFICES ASSUME NEW d \in Proc
               PROVE  Lists(t.p_callerq[d],
                            {x \in Proc : SENDING \in t.p_flags[x] /\ t.p_sendto[x] = d})
    BY Zenon DEF CallerQueues
  <2>1. {x \in Proc : SENDING \in t.p_flags[x] /\ t.p_sendto[x] = d}
         = {x \in Proc : SENDING \in s.p_flags[x] /\ s.p_sendto[x] = d}
    BY <1>2, Zenon
  <2> QED BY <1>2, <2>1, Zenon DEF Ipc, CallerQueues
<1>4. \A C \in SUBSET Proc : ~SendCycle(t, C)
  <2> SUFFICES ASSUME NEW C \in SUBSET Proc, SendCycle(t, C) PROVE FALSE OBVIOUS
  <2>1. SendCycle(s, C) BY <1>2, Zenon DEF SendCycle
  <2> QED BY <2>1, Zenon DEF Ipc
<1>5. ASSUME NEW x \in Proc, Missed(t, x) PROVE FALSE
  <2>1. x # p BY <1>2, <1>5, Zenon DEF Missed, Receiving
  <2>2. Receiving(s, x) BY <1>2, <1>5, <2>1, Zenon DEF Missed, Receiving
  <2>3. Matching(t, x, t.p_getfrom[x]) = Matching(s, x, s.p_getfrom[x])
    BY <1>2, Zenon DEF Matching
  <2>4. Missed(s, x) BY <1>2, <1>5, <2>2, <2>3, MissedLemma
  <2> QED BY <2>4, Zenon DEF Ipc
<1>6. Paired(t) BY <1>2, Zenon DEF Ipc, Paired
<1>7. Runnable(t, IDLE) /\ Runnable(t, HARDWARE)
  <2>1. IDLE \in Proc \ {p} /\ HARDWARE \in Proc \ {p} BY ProcAssumption, Zenon DEF Proc
  <2> QED BY <1>2, <2>1, Zenon DEF Ipc, Runnable
<1> QED BY <1>3, <1>4, <1>5, <1>6, <1>7, Zenon DEF Ipc

\* A sender that starts to wait: mini_send's walk found no way back to it.
LEMMA IpcBlockSend ==
    ASSUME NEW s \in KType, NEW t \in KType, Ipc(s),
           NEW own \in Proc \ {IDLE, HARDWARE}, NEW dest \in Proc,
           Runnable(s, own), ~mini_send_refused(s, own, dest), ~Accepts(s, dest, own),
           t.p_flags = [s.p_flags EXCEPT ![own] = {SENDING}],
           t.p_sendto = [s.p_sendto EXCEPT ![own] = dest],
           t.p_callerq = [s.p_callerq EXCEPT ![dest] = Append(@, own)],
           t.p_getfrom = s.p_getfrom, t.p_int_blocked = s.p_int_blocked
    PROVE  Ipc(t)
<1>1. own \in Proc OBVIOUS
<1>2. /\ \A x \in Proc \ {own} : t.p_flags[x] = s.p_flags[x] /\ t.p_sendto[x] = s.p_sendto[x]
      /\ t.p_flags[own] = {SENDING} /\ t.p_sendto[own] = dest
      /\ s.p_flags[own] = {}
  <2>1. s.p_flags \in [Proc -> SUBSET Flags] /\ s.p_sendto \in [Proc -> Proc] BY KFields, Zenon
  <2> QED BY <1>1, <2>1, Zenon DEF Runnable
<1>3. CallerQueues(t)
  <2> SUFFICES ASSUME NEW d \in Proc
               PROVE  Lists(t.p_callerq[d],
                            {x \in Proc : SENDING \in t.p_flags[x] /\ t.p_sendto[x] = d})
    BY Zenon DEF CallerQueues
  <2> DEFINE S == {x \in Proc : SENDING \in s.p_flags[x] /\ s.p_sendto[x] = d}
             u == s.p_callerq[d]
  <2>1. Lists(u, S) /\ u \in Seq(Proc)
    <3>1. CallerQueues(s) BY Zenon DEF Ipc
    <3>2. Lists(u, S) BY <3>1, Zenon DEF CallerQueues
    <3> QED BY <3>2, KFields
  <2>2. CASE d = dest
    <3>1. {x \in Proc : SENDING \in t.p_flags[x] /\ t.p_sendto[x] = d} = S \cup {own}
      BY <1>2, <2>2
    <3>2. own \notin S BY <1>2, Zenon
    <3>3. t.p_callerq[d] = Append(u, own) BY <2>2, KFields
    <3> HIDE DEF S, u
    <3>4. Lists(Append(u, own), S \cup {own}) BY <1>1, <2>1, <3>2, ListsAppend, Zenon
    <3> QED BY <3>1, <3>3, <3>4, Zenon
  <2>3. CASE d # dest
    <3>1. {x \in Proc : SENDING \in t.p_flags[x] /\ t.p_sendto[x] = d} = S
      BY <1>2, <2>3, Zenon
    <3>2. t.p_callerq[d] = u BY <2>3 DEF KType
    <3> QED BY <2>1, <3>1, <3>2, Zenon
  <2> QED BY <2>2, <2>3, Zenon
<1>4. ASSUME NEW C \in SUBSET Proc, SendCycle(t, C) PROVE FALSE
  <2>1. CASE own \notin C
    <3>1. SendCycle(s, C) BY <1>2, <1>4, <2>1, Zenon DEF SendCycle
    <3> QED BY <3>1, Zenon DEF Ipc
  <2>2. CASE own \in C
    <3> DEFINE chain == SendChain(s, dest)
               D == C \cap chain
    <3>1. dest \in chain BY Zenon DEF SendChain
    <3>2. \A x \in chain : SENDING \in s.p_flags[x] => s.p_sendto[x] \in chain
      <4> SUFFICES ASSUME NEW x \in chain, SENDING \in s.p_flags[x]
                   PROVE  s.p_sendto[x] \in chain
        OBVIOUS
      <4>1. x \in Proc /\ s.p_sendto[x] \in Proc BY Zenon DEF SendChain, KType
      <4>2. ASSUME NEW B \in SUBSET Proc, dest \in B,
                   \A y \in B : SENDING \in s.p_flags[y] => s.p_sendto[y] \in B
            PROVE  s.p_sendto[x] \in B
        <5>1. x \in B BY <4>2, Zenon DEF SendChain
        <5> QED BY <4>2, <5>1, Zenon
      <4> QED BY <4>1, <4>2, Zenon DEF SendChain
    <3>3. own \notin chain BY Zenon DEF mini_send_refused
    <3> HIDE DEF chain
    <3>4. dest \in C BY <1>2, <1>4, <2>2, Zenon DEF SendCycle
    <3>5. \A p \in D : SENDING \in s.p_flags[p] /\ s.p_sendto[p] \in D
      <4> SUFFICES ASSUME NEW p \in D
                   PROVE  SENDING \in s.p_flags[p] /\ s.p_sendto[p] \in D
        OBVIOUS
      <4>1. p \in Proc \ {own} /\ p \in C /\ p \in chain BY <3>3, Zenon
      <4>2. SENDING \in s.p_flags[p] /\ s.p_sendto[p] \in C
        BY <1>2, <1>4, <4>1, Zenon DEF SendCycle
      <4> QED BY <3>2, <4>1, <4>2, Zenon
    <3>6. SendCycle(s, D) /\ D \in SUBSET Proc BY <3>1, <3>4, <3>5, Zenon DEF SendCycle
    <3> QED BY <3>6, Zenon DEF Ipc
  <2> QED BY <2>1, <2>2, Zenon
<1>5. ASSUME NEW x \in Proc, Missed(t, x) PROVE FALSE
  <2>1. x # own BY <1>2, <1>5, Zenon DEF Missed, Receiving, SENDING, RECEIVING
  <2>2. Receiving(s, x) BY <1>2, <1>5, <2>1, Zenon DEF Missed, Receiving
  <2>3. ~Missed(s, x) BY Zenon DEF Ipc
  <2>4. PICK p \in Proc : SendsTo(t, p, x) /\ t.p_getfrom[x] \in {ANY, p}
    <3>1. Matching(t, x, t.p_getfrom[x]) # {} BY <1>5, <2>2, <2>3, <1>2, MissedLemma, Zenon
    <3> QED BY <1>3, <3>1, MatchingLemma, Zenon
  <2>5. ~(SendsTo(s, p, x) /\ s.p_getfrom[x] \in {ANY, p})
    <3>1. Matching(s, x, s.p_getfrom[x]) = {} BY <2>2, <2>3, MissedLemma, Zenon
    <3>2. CallerQueues(s) BY Zenon DEF Ipc
    <3>3. ~\E y \in Proc : SendsTo(s, y, x) /\ s.p_getfrom[x] \in {ANY, y}
      BY ONLY <3>1, <3>2, s \in KType, x \in Proc, MatchingLemma
    <3> QED BY ONLY <3>3, p \in Proc
  <2>6. p = own /\ x = dest BY <1>2, <2>4, <2>5, Zenon DEF SendsTo
  <2>7. Accepts(s, dest, own) BY <2>2, <2>4, <2>6, Zenon DEF Accepts
  <2> QED BY <2>7, Zenon
<1>6. Paired(t)
  <2> SUFFICES ASSUME NEW p \in Proc, {SENDING, RECEIVING} \subseteq t.p_flags[p]
               PROVE  t.p_getfrom[p] = t.p_sendto[p]
    BY Zenon DEF Paired
  <2>1. p # own BY <1>2, Zenon DEF SENDING, RECEIVING
  <2> QED BY <1>2, <2>1, Zenon DEF Ipc, Paired
<1>7. Runnable(t, IDLE) /\ Runnable(t, HARDWARE)
  <2>1. IDLE \in Proc \ {own} /\ HARDWARE \in Proc \ {own} BY ProcAssumption, Zenon DEF Proc
  <2> QED BY <1>2, <2>1, Zenon DEF Ipc, Runnable
<1> QED BY <1>3, <1>4, <1>5, <1>6, <1>7, Zenon DEF Ipc

\* A receiver that starts to wait, having found nobody and no interrupt.
LEMMA IpcBlockReceive ==
    ASSUME NEW s \in KType, NEW t \in KType, Ipc(s),
           NEW own \in Proc \ {IDLE, HARDWARE}, NEW src \in Proc \cup {ANY},
           \/ /\ SENDING \notin s.p_flags[own] /\ Matching(s, own, src) = {}
              /\ ~(s.p_int_blocked[own] /\ src \in {ANY, HARDWARE})
           \/ SENDING \in s.p_flags[own] /\ s.p_sendto[own] = src,
           t.p_flags = [s.p_flags EXCEPT ![own] = @ \cup {RECEIVING}],
           t.p_getfrom = [s.p_getfrom EXCEPT ![own] = src],
           t.p_sendto = s.p_sendto, t.p_callerq = s.p_callerq,
           t.p_int_blocked = s.p_int_blocked
    PROVE  Ipc(t)
<1>1. own \in Proc OBVIOUS
<1>2. /\ \A x \in Proc \ {own} : t.p_flags[x] = s.p_flags[x] /\ t.p_getfrom[x] = s.p_getfrom[x]
      /\ t.p_flags[own] = s.p_flags[own] \cup {RECEIVING} /\ t.p_getfrom[own] = src
      /\ \A x \in Proc : SENDING \in t.p_flags[x] <=> SENDING \in s.p_flags[x]
      /\ t.p_callerq = s.p_callerq
  <2>1. s.p_flags \in [Proc -> SUBSET Flags] /\ s.p_getfrom \in [Proc -> Proc \cup {ANY}]
    BY KFields, Zenon
  <2>2. /\ \A x \in Proc \ {own} : t.p_flags[x] = s.p_flags[x] /\ t.p_getfrom[x] = s.p_getfrom[x]
        /\ t.p_flags[own] = s.p_flags[own] \cup {RECEIVING} /\ t.p_getfrom[own] = src
    BY <1>1, <2>1, Zenon
  <2> QED BY <1>1, <2>2 DEF SENDING, RECEIVING
<1>3. CallerQueues(t)
  <2> SUFFICES ASSUME NEW d \in Proc
               PROVE  Lists(t.p_callerq[d],
                            {x \in Proc : SENDING \in t.p_flags[x] /\ t.p_sendto[x] = d})
    BY Zenon DEF CallerQueues
  <2>1. {x \in Proc : SENDING \in t.p_flags[x] /\ t.p_sendto[x] = d}
         = {x \in Proc : SENDING \in s.p_flags[x] /\ s.p_sendto[x] = d}
    BY <1>2, Zenon
  <2> QED BY <2>1, Zenon DEF Ipc, CallerQueues
<1>4. ASSUME NEW C \in SUBSET Proc, SendCycle(t, C) PROVE FALSE
  <2>1. SendCycle(s, C) BY <1>2, <1>4, Zenon DEF SendCycle
  <2> QED BY <2>1, Zenon DEF Ipc
<1>5. ASSUME NEW x \in Proc, Missed(t, x) PROVE FALSE
  <2>1. Matching(t, x, t.p_getfrom[x]) = Matching(s, x, t.p_getfrom[x])
    BY <1>2, Zenon DEF Matching
  <2>2. CASE x = own
    <3>1. SENDING \notin s.p_flags[own]
      BY <1>2, <1>5, <2>2 DEF Missed, Receiving, SENDING, RECEIVING
    <3>2. \/ Matching(t, own, src) # {}
          \/ t.p_int_blocked[own] /\ src \in {ANY, HARDWARE}
      BY <1>1, <1>2, <1>5, <2>2, MissedLemma, Zenon
    <3>3. Matching(t, own, src) = Matching(s, own, src) BY <1>2, <2>1, <2>2, Zenon
    <3> QED BY <3>1, <3>2, <3>3, Zenon
  <2>3. CASE x # own
    <3>1. Receiving(s, x) /\ t.p_getfrom[x] = s.p_getfrom[x]
      BY <1>2, <1>5, <2>3, Zenon DEF Missed, Receiving
    <3>2. \/ Matching(s, x, s.p_getfrom[x]) # {}
          \/ s.p_int_blocked[x] /\ s.p_getfrom[x] \in {ANY, HARDWARE}
      <4>1. \/ Matching(t, x, t.p_getfrom[x]) # {}
            \/ t.p_int_blocked[x] /\ t.p_getfrom[x] \in {ANY, HARDWARE}
        BY <1>5, MissedLemma, Zenon
      <4> QED BY <2>1, <3>1, <4>1, Zenon
    <3>3. Missed(s, x) BY <3>1, <3>2, MissedLemma, Zenon
    <3> QED BY <3>3, Zenon DEF Ipc
  <2> QED BY <2>2, <2>3, Zenon
<1>6. Paired(t)
  <2> SUFFICES ASSUME NEW p \in Proc, {SENDING, RECEIVING} \subseteq t.p_flags[p]
               PROVE  t.p_getfrom[p] = t.p_sendto[p]
    BY Zenon DEF Paired
  <2>1. CASE p = own BY <1>2, <2>1, Zenon
  <2>2. CASE p # own BY <1>2, <2>2 DEF Ipc, Paired
  <2> QED BY <2>1, <2>2, Zenon
<1>7. Runnable(t, IDLE) /\ Runnable(t, HARDWARE)
  <2>1. IDLE \in Proc \ {own} /\ HARDWARE \in Proc \ {own} BY ProcAssumption, Zenon DEF Proc
  <2> QED BY <1>2, <2>1, Zenon DEF Ipc, Runnable
<1> QED BY <1>3, <1>4, <1>5, <1>6, <1>7, Zenon DEF Ipc

\* A queued sender q whose message the running process takes.
LEMMA IpcTake ==
    ASSUME NEW s \in KType, NEW t \in KType, Ipc(s),
           NEW own \in Proc \ {IDLE, HARDWARE}, Runnable(s, own),
           NEW i \in DOMAIN s.p_callerq[own], NEW q, q = s.p_callerq[own][i],
           t.p_flags = [s.p_flags EXCEPT ![q] = @ \ {SENDING}],
           t.p_callerq = [s.p_callerq EXCEPT ![own] = Unlink(@, i)],
           t.p_getfrom = s.p_getfrom, t.p_sendto = s.p_sendto,
           t.p_int_blocked = s.p_int_blocked
    PROVE  Ipc(t)
<1>1. own \in Proc /\ own # HARDWARE /\ own # ANY BY ProcAssumption, Zenon
<1>2. q \in Proc /\ SENDING \in s.p_flags[q] /\ s.p_sendto[q] = own
  <2>1. CallerQueues(s) BY Zenon DEF Ipc
  <2> QED BY <2>1, LinkedLemma DEF SendsTo
<1>3. /\ \A x \in Proc \ {q} : t.p_flags[x] = s.p_flags[x]
      /\ t.p_flags[q] = s.p_flags[q] \ {SENDING}
      /\ \A x \in Proc : SENDING \in t.p_flags[x] <=> SENDING \in s.p_flags[x] /\ x # q
      /\ \A x \in Proc : RECEIVING \in t.p_flags[x] <=> RECEIVING \in s.p_flags[x]
  <2>1. s.p_flags \in [Proc -> SUBSET Flags] BY KFields, Zenon
  <2>2. /\ \A x \in Proc \ {q} : t.p_flags[x] = s.p_flags[x]
        /\ t.p_flags[q] = s.p_flags[q] \ {SENDING}
    BY <1>2, <2>1, Zenon
  <2> QED BY <1>2, <2>2, Zenon DEF SENDING, RECEIVING
<1>4. CallerQueues(t)
  <2> SUFFICES ASSUME NEW d \in Proc
               PROVE  Lists(t.p_callerq[d],
                            {x \in Proc : SENDING \in t.p_flags[x] /\ t.p_sendto[x] = d})
    BY Zenon DEF CallerQueues
  <2> DEFINE S == {x \in Proc : SENDING \in s.p_flags[x] /\ s.p_sendto[x] = d}
             u == s.p_callerq[d]
  <2>1. Lists(u, S) /\ u \in Seq(Proc) BY Zenon DEF Ipc, CallerQueues, KType
  <2>2. CASE d = own
    <3>1. {x \in Proc : SENDING \in t.p_flags[x] /\ t.p_sendto[x] = d} = S \ {q}
      BY <1>3, <2>2
    <3>2. t.p_callerq[d] = Unlink(u, i) /\ i \in DOMAIN u /\ q = u[i] BY <2>2 DEF KType
    <3> HIDE DEF S, u
    <3>3. Lists(Unlink(u, i), S \ {u[i]}) BY <2>1, <3>2, ListsUnlink, Zenon
    <3> QED BY <3>1, <3>2, <3>3, Zenon
  <2>3. CASE d # own
    <3>1. {x \in Proc : SENDING \in t.p_flags[x] /\ t.p_sendto[x] = d} = S
      BY <1>2, <1>3, <2>3
    <3>2. t.p_callerq[d] = u BY <1>1, <2>3 DEF KType
    <3> QED BY <2>1, <3>1, <3>2, ZenonT(60)
  <2> QED BY <2>2, <2>3, Zenon
<1>5. ASSUME NEW C \in SUBSET Proc, SendCycle(t, C) PROVE FALSE
  <2>1. SendCycle(s, C) BY <1>3, <1>5, Zenon DEF SendCycle
  <2> QED BY <2>1, Zenon DEF Ipc
<1>6. ASSUME NEW x \in Proc, Missed(t, x) PROVE FALSE
  <2>1. CallerQueues(s) /\ ~Missed(s, x) BY Zenon DEF Ipc
  <2>2. Matching(t, x, t.p_getfrom[x]) # {} =>
          \E p \in Proc \ {q} : SendsTo(s, p, x) /\ s.p_getfrom[x] \in {ANY, p}
    <3> HAVE Matching(t, x, t.p_getfrom[x]) # {}
    <3>1. PICK p \in Proc : SendsTo(t, p, x) /\ t.p_getfrom[x] \in {ANY, p}
      BY <1>4, MatchingLemma, Zenon
    <3> QED BY <1>3, <3>1, Zenon DEF SendsTo
  <2>3. CASE x # q
    <3>1. Receiving(s, x) BY <1>3, <1>6, <2>3, Zenon DEF Missed, Receiving
    <3>2. Matching(s, x, s.p_getfrom[x]) = {} BY <2>1, <3>1, MissedLemma, Zenon
    <3>3. ~\E p \in Proc : SendsTo(s, p, x) /\ s.p_getfrom[x] \in {ANY, p}
      BY <2>1, <3>2, MatchingLemma
    <3>4. Matching(t, x, t.p_getfrom[x]) = {} BY <2>2, <3>3, Zenon
    <3>5. s.p_int_blocked[x] /\ s.p_getfrom[x] \in {ANY, HARDWARE}
      BY <1>6, <3>4, MissedLemma, Zenon
    <3> QED BY <2>1, <3>1, <3>5, MissedLemma, Zenon
  <2>4. CASE x = q
    <3>1. RECEIVING \in s.p_flags[q] BY <1>3, <1>6, <2>4, Zenon DEF Missed, Receiving
    <3>2. s.p_getfrom[q] = own BY <1>2, <3>1 DEF Ipc, Paired
    <3>3. SENDING \notin s.p_flags[own] BY Zenon DEF Runnable
    <3>4. Matching(t, x, t.p_getfrom[x]) = {} BY <1>1, <2>2, <2>4, <3>2, <3>3, Zenon DEF SendsTo
    <3>5. s.p_getfrom[x] \in {ANY, HARDWARE} BY <1>6, <3>4, MissedLemma, Zenon
    <3> QED BY <1>1, <2>4, <3>2, <3>5, Zenon
  <2> QED BY <2>3, <2>4, Zenon
<1>7. Paired(t)
  <2> SUFFICES ASSUME NEW p \in Proc, {SENDING, RECEIVING} \subseteq t.p_flags[p]
               PROVE  t.p_getfrom[p] = t.p_sendto[p]
    BY Zenon DEF Paired
  <2>1. {SENDING, RECEIVING} \subseteq s.p_flags[p] BY <1>3
  <2> QED BY <2>1, Zenon DEF Ipc, Paired
<1>8. Runnable(t, IDLE) /\ Runnable(t, HARDWARE)
  <2>1. IDLE \in Proc /\ HARDWARE \in Proc BY ProcAssumption, Zenon DEF Proc
  <2> QED BY <1>2, <1>3, <2>1, Zenon DEF Ipc, Runnable
<1> QED BY <1>4, <1>5, <1>6, <1>7, <1>8, Zenon DEF Ipc


-----------------------------------------------------------------------------
(* Inside a trap *)

\* Outside SYSTASK nothing sets switching, so nothing is ever held.
Quiet(s) ==
    /\ ~s.switching /\ s.held = <<>> /\ ~s.halted
    /\ s.last_selected_fs \in {NIL, FS}

Frames(s, away) ==
    /\ \A p \in Proc \ away : FrameKept(s, p)
    /\ s.blocked_return_proc # NIL => Blocked(s, s.blocked_return_proc)

\* What holds between the parts of a call of own: own is in no queue, and the
\* snapshot of its own call is not taken yet.
Mid(s, own) ==
    /\ s \in KType /\ Ipc(s) /\ ReadyQueues(s, {own}) /\ Frames(s, {own}) /\ Quiet(s)
    /\ s.p_blocked_frame[own] = "none"
    /\ s.p_flags[own] \subseteq {SENDING, RECEIVING}
    /\ s.proc_ptr = own /\ s.current_proc = own

\* Blocking the process that is away changes no queue.
LEMMA ReadyQueuesAway ==
    ASSUME NEW s \in KType, NEW t \in KType, NEW own \in Proc, ReadyQueues(s, {own}),
           t.rdy = s.rdy, \A x \in Proc \ {own} : t.p_flags[x] = s.p_flags[x]
    PROVE  ReadyQueues(t, {own})
<1> SUFFICES ASSUME NEW r \in Queues
             PROVE  Lists(t.rdy[r], {x \in Proc \ ({IDLE, HARDWARE} \cup {own}) :
                                       proc_queue(x) = r /\ Runnable(t, x)})
  BY Zenon DEF ReadyQueues
<1>1. {x \in Proc \ ({IDLE, HARDWARE} \cup {own}) : proc_queue(x) = r /\ Runnable(t, x)}
       = {x \in Proc \ ({IDLE, HARDWARE} \cup {own}) : proc_queue(x) = r /\ Runnable(s, x)}
  BY Zenon DEF Runnable
<1> QED BY <1>1, Zenon DEF ReadyQueues

\* Adding a process that is not runnable to the ones away changes nothing.
LEMMA ReadyQueuesBlocked ==
    ASSUME NEW s \in KType, NEW X, NEW p \in Proc, ~Runnable(s, p)
    PROVE  ReadyQueues(s, X) <=> ReadyQueues(s, X \cup {p})
<1>1. ASSUME NEW r \in Queues
      PROVE  {x \in Proc \ ({IDLE, HARDWARE} \cup X) : proc_queue(x) = r /\ Runnable(s, x)}
              = {x \in Proc \ ({IDLE, HARDWARE} \cup (X \cup {p})) :
                   proc_queue(x) = r /\ Runnable(s, x)}
  OBVIOUS
<1> QED BY <1>1, Zenon DEF ReadyQueues

\* Waking p keeps everyone's snapshot in step.
LEMMA FramesWoken ==
    ASSUME NEW s \in KType, NEW t \in KType, NEW p \in Proc, NEW away, p \notin away,
           Frames(s, away), Woken(s, t, p)
    PROVE  Frames(t, away)
<1>1. /\ \A x \in Proc \ {p} : /\ t.p_flags[x] = s.p_flags[x]
                               /\ t.p_blocked_frame[x] = s.p_blocked_frame[x]
      /\ t.p_flags[p] = s.p_flags[p] \ {SENDING, RECEIVING}
      /\ t.p_blocked_frame[p] = "none"
  <2>1. s.p_flags \in [Proc -> SUBSET Flags]
        /\ s.p_blocked_frame \in [Proc -> {"none", "valid", "mismatch"}]
    BY KFields, Zenon
  <2> QED BY <2>1, Zenon DEF Woken
<1>2. ASSUME NEW x \in Proc \ away PROVE FrameKept(t, x)
  <2>1. CASE x = p
    <3>1. ~Blocked(t, p) BY <1>1, Zenon DEF Blocked
    <3> QED BY <1>1, <2>1, <3>1, Zenon DEF FrameKept
  <2>2. CASE x # p
    <3>1. FrameKept(s, x) BY Zenon DEF Frames
    <3>2. Blocked(t, x) <=> Blocked(s, x) BY <1>1, <2>2, Zenon DEF Blocked
    <3> QED BY <1>1, <2>2, <3>1, <3>2, Zenon DEF FrameKept
  <2> QED BY <2>1, <2>2, Zenon
<1>3. t.blocked_return_proc # NIL => Blocked(t, t.blocked_return_proc)
  <2> HAVE t.blocked_return_proc # NIL
  <2>1. t.blocked_return_proc = s.blocked_return_proc /\ s.blocked_return_proc # p
    BY Zenon DEF Woken
  <2>2. s.blocked_return_proc \in Proc BY <2>1, Zenon DEF KType
  <2>3. Blocked(s, s.blocked_return_proc) BY <2>1, Zenon DEF Frames
  <2> QED BY <1>1, <2>1, <2>2, <2>3, Zenon DEF Blocked
<1> QED BY <1>2, <1>3, Zenon DEF Frames

-----------------------------------------------------------------------------
(* What a step does to the calls that wait *)

\* The receiver p of s has been served in t.
Ended(s, t, p) == RECEIVING \in s.p_flags[p] /\ RECEIVING \notin t.p_flags[p]

\* Between s and t the call of p went on waiting, or ended with its message.
Served(s, t, p) ==
    /\ t.p_flags[p] \ {SENDING, RECEIVING} = s.p_flags[p] \ {SENDING, RECEIVING}
    /\ SENDING \in t.p_flags[p] => SENDING \in s.p_flags[p]
    /\ RECEIVING \in t.p_flags[p] => RECEIVING \in s.p_flags[p]
    /\ t.p_sendto[p] = s.p_sendto[p] /\ t.p_getfrom[p] = s.p_getfrom[p]
    /\ SENDING \in s.p_flags[p] /\ SENDING \notin t.p_flags[p]
         => <<p, s.p_sendto[p]>> \in t.copied
    /\ Ended(s, t, p)
         => /\ SENDING \notin s.p_flags[p]
            /\ \E src \in Proc : /\ {m \in t.copied : m[2] = p} = {<<src, p>>}
                                 /\ s.p_getfrom[p] \in {ANY, src}

\* ... and so did every call but that of own, into whose call anything is copied.
Serves(s, t, own) ==
    /\ \A p \in Proc \ {own} : Served(s, t, p)
    /\ \A m \in t.copied : m[2] = own \/ Ended(s, t, m[2])

\* The receiver dest gets a message from src.
Delivers(s, t, src, dest) ==
    /\ t.p_flags = [s.p_flags EXCEPT ![dest] = @ \ {SENDING, RECEIVING}]
    /\ t.p_getfrom = s.p_getfrom /\ t.p_sendto = s.p_sendto
    /\ t.copied = s.copied \cup {<<src, dest>>}

LEMMA ServesDeliver ==
    ASSUME NEW b \in KType, NEW s \in KType, NEW t \in KType,
           NEW own \in Proc, NEW dest \in Proc \ {own}, NEW src \in Proc,
           Serves(b, s, own), Delivers(s, t, src, dest),
           Accepts(s, dest, src), SENDING \notin b.p_flags[dest]
    PROVE  Serves(b, t, own)
<1>1. /\ \A p \in Proc \ {dest} : t.p_flags[p] = s.p_flags[p]
      /\ t.p_flags[dest] = s.p_flags[dest] \ {SENDING, RECEIVING}
  <2>1. s.p_flags \in [Proc -> SUBSET Flags] BY KFields, Zenon
  <2> QED BY <2>1, Zenon DEF Delivers
<1>2. RECEIVING \in s.p_flags[dest] BY Zenon DEF Accepts, Receiving
<1>3. Ended(b, t, dest) /\ RECEIVING \in b.p_flags[dest]
  <2>1. Served(b, s, dest) BY Zenon DEF Serves
  <2>2. RECEIVING \in b.p_flags[dest] BY <1>2, <2>1, Zenon DEF Served
  <2> QED BY <1>1, <2>2, Zenon DEF Ended
<1>4. \A m \in s.copied : m[2] # dest
  BY <1>2, Zenon DEF Serves, Ended
<1>5. \A p \in Proc \ {dest} : {m \in t.copied : m[2] = p} = {m \in s.copied : m[2] = p}
  BY DEF Delivers
<1>6. {m \in t.copied : m[2] = dest} = {<<src, dest>>}
  BY <1>4 DEF Delivers
<1>7. ASSUME NEW p \in Proc \ {own} PROVE Served(b, t, p)
  <2>1. Served(b, s, p) BY Zenon DEF Serves
  <2>2. CASE p = dest
    <3>1. b.p_getfrom[dest] \in {ANY, src} BY <2>1, <2>2, Zenon DEF Accepts, Served
    <3> QED BY <1>1, <1>3, <1>6, <2>1, <2>2, <3>1, Zenon DEF Served, Delivers, Ended
  <2>3. CASE p # dest
    <3>1. {m \in t.copied : m[2] = p} = {m \in s.copied : m[2] = p} BY <1>5, <2>3, Zenon
    <3>2. t.p_flags[p] = s.p_flags[p] /\ t.p_sendto[p] = s.p_sendto[p]
          /\ t.p_getfrom[p] = s.p_getfrom[p] /\ s.copied \subseteq t.copied
      BY <1>1, <2>3, Zenon DEF Delivers
    <3> QED BY <2>1, <3>1, <3>2, Zenon DEF Served, Ended
  <2> QED BY <2>2, <2>3, Zenon
<1>8. ASSUME NEW m \in t.copied PROVE m[2] = own \/ Ended(b, t, m[2])
  <2>1. CASE m = <<src, dest>> BY <1>3, <2>1, Zenon
  <2>2. CASE m \in s.copied
    <3>1. m[2] \in Proc BY <2>2, Zenon DEF KType
    <3> QED BY <1>1, <1>4, <2>2, <3>1, Zenon DEF Serves, Ended
  <2> QED BY <2>1, <2>2, Zenon DEF Delivers
<1> QED BY <1>7, <1>8, Zenon DEF Serves

\* The message of the queued sender q is taken by own.
Takes(s, t, own, q) ==
    /\ t.p_flags = [s.p_flags EXCEPT ![q] = @ \ {SENDING}]
    /\ t.p_getfrom = s.p_getfrom /\ t.p_sendto = s.p_sendto
    /\ t.copied = s.copied \cup {<<q, own>>}

LEMMA ServesTake ==
    ASSUME NEW b \in KType, NEW s \in KType, NEW t \in KType,
           NEW own \in Proc, NEW q \in Proc \ {own},
           Serves(b, s, own), Takes(s, t, own, q), SendsTo(s, q, own)
    PROVE  Serves(b, t, own)
<1>1. /\ \A p \in Proc \ {q} : t.p_flags[p] = s.p_flags[p]
      /\ t.p_flags[q] = s.p_flags[q] \ {SENDING}
  <2>1. s.p_flags \in [Proc -> SUBSET Flags] BY KFields, Zenon
  <2> QED BY <2>1, Zenon DEF Takes
<1>2. \A p \in Proc : RECEIVING \in t.p_flags[p] <=> RECEIVING \in s.p_flags[p]
  BY <1>1, Zenon DEF SENDING, RECEIVING
<1>3. ASSUME NEW p \in Proc \ {own} PROVE Served(b, t, p)
  <2>1. Served(b, s, p) BY Zenon DEF Serves
  <2>2. {m \in t.copied : m[2] = p} = {m \in s.copied : m[2] = p} BY DEF Takes
  <2>3. t.p_sendto[p] = s.p_sendto[p] /\ t.p_getfrom[p] = s.p_getfrom[p]
        /\ s.copied \subseteq t.copied
    BY Zenon DEF Takes
  <2>4. Ended(b, t, p) <=> Ended(b, s, p) BY <1>2, Zenon DEF Ended
  <2>5. CASE p # q BY <1>1, <2>1, <2>2, <2>3, <2>4, <2>5, Zenon DEF Served
  <2>6. CASE p = q
    <3>1. <<q, b.p_sendto[q]>> \in t.copied BY <2>1, <2>6, Zenon DEF Takes, SendsTo, Served
    <3> QED BY <1>1, <1>2, <2>1, <2>2, <2>3, <2>4, <2>6, <3>1, Zenon DEF Served
  <2> QED BY <2>5, <2>6, Zenon
<1>4. ASSUME NEW m \in t.copied PROVE m[2] = own \/ Ended(b, t, m[2])
  <2>1. CASE m = <<q, own>> BY <2>1, Zenon
  <2>2. CASE m \in s.copied
    <3>1. m[2] \in Proc BY <2>2, Zenon DEF KType
    <3> QED BY <1>2, <2>2, <3>1, Zenon DEF Serves, Ended
  <2> QED BY <2>1, <2>2, Zenon DEF Takes
<1> QED BY <1>3, <1>4, Zenon DEF Serves

\* Only the call of own changes, or a message is copied into it.
Stays(s, t, own) ==
    /\ \A p \in Proc \ {own} : /\ t.p_flags[p] = s.p_flags[p]
                               /\ t.p_sendto[p] = s.p_sendto[p]
                               /\ t.p_getfrom[p] = s.p_getfrom[p]
    /\ t.copied = s.copied \/ \E src \in Proc : t.copied = s.copied \cup {<<src, own>>}

LEMMA ServesStay ==
    ASSUME NEW b \in KType, NEW s \in KType, NEW t \in KType, NEW own \in Proc,
           Serves(b, s, own), Stays(s, t, own)
    PROVE  Serves(b, t, own)
<1>1. ASSUME NEW p \in Proc \ {own} PROVE Served(b, t, p)
  <2>1. Served(b, s, p) BY Zenon DEF Serves
  <2>2. {m \in t.copied : m[2] = p} = {m \in s.copied : m[2] = p} BY DEF Stays
  <2>3. /\ t.p_flags[p] = s.p_flags[p] /\ t.p_sendto[p] = s.p_sendto[p]
        /\ t.p_getfrom[p] = s.p_getfrom[p] /\ s.copied \subseteq t.copied
    BY Zenon DEF Stays
  <2> QED BY <2>1, <2>2, <2>3, Zenon DEF Served, Ended
<1>2. ASSUME NEW m \in t.copied PROVE m[2] = own \/ Ended(b, t, m[2])
  <2>1. m \in s.copied \/ m[2] = own BY DEF Stays
  <2>2. m[2] \in Proc BY Zenon DEF KType
  <2> QED BY <2>1, <2>2, Zenon DEF Serves, Ended, Stays
<1> QED BY <1>1, <1>2, Zenon DEF Serves

\* Before anything is copied nobody has been served.
LEMMA ServesStart ==
    ASSUME NEW s, NEW t, NEW own, t.copied = {},
           t.p_flags = s.p_flags, t.p_sendto = s.p_sendto, t.p_getfrom = s.p_getfrom
    PROVE  Serves(s, t, own)
BY Zenon DEF Serves, Served, Ended

\* A queue of waiting senders gets a new last one or loses one.
Fifo(u, v) ==
    \/ v = u
    \/ \E x \in Proc : v = Append(u, x)
    \/ \E i \in DOMAIN u : v = Unlink(u, i)

\* The halves of a call of own, between b and t: the calls they serve, the
\* queues they change, and nobody is left to send to a free descriptor.
Moves(b, t, own) ==
    /\ Serves(b, t, own)
    /\ \A d \in Proc : Fifo(b.p_callerq[d], t.p_callerq[d])
    /\ SENDING \in t.p_flags[own] => P_SLOT_FREE \notin b.p_flags[t.p_sendto[own]]
    /\ t.bill_ptr = b.bill_ptr

\* The fields that Moves looks at.
CallsSame(s, t) ==
    /\ t.p_flags = s.p_flags /\ t.p_getfrom = s.p_getfrom /\ t.p_sendto = s.p_sendto
    /\ t.p_callerq = s.p_callerq /\ t.copied = s.copied /\ t.bill_ptr = s.bill_ptr

LEMMA MovesSame ==
    ASSUME NEW b, NEW s, NEW t, NEW own, Moves(b, s, own), CallsSame(s, t)
    PROVE  Moves(b, t, own)
BY DEF Moves, CallsSame, Serves, Served, Ended

LEMMA MovesStay ==
    ASSUME NEW b \in KType, NEW s \in KType, NEW t \in KType, NEW own \in Proc,
           Moves(b, s, own), Stays(s, t, own), t.p_callerq = s.p_callerq,
           t.bill_ptr = s.bill_ptr, t.p_sendto = s.p_sendto,
           SENDING \in t.p_flags[own] => SENDING \in s.p_flags[own]
    PROVE  Moves(b, t, own)
<1>1. Serves(b, t, own) BY ServesStay, Zenon DEF Moves
<1> QED BY <1>1, Zenon DEF Moves

-----------------------------------------------------------------------------
(* SEND, and the taking of a sender *)

\* A copied message touches no kernel state.
LEMMA CopyLemma ==
    ASSUME NEW s \in KType, NEW a \in Proc, NEW b \in Proc
    PROVE  LET c == copy_message(s, a, b)
           IN  /\ c \in KType
               /\ c.p_flags = s.p_flags /\ c.p_getfrom = s.p_getfrom /\ c.p_sendto = s.p_sendto
               /\ c.p_callerq = s.p_callerq /\ c.p_int_blocked = s.p_int_blocked
               /\ c.p_blocked_frame = s.p_blocked_frame /\ c.held = s.held /\ c.rdy = s.rdy
               /\ c.blocked_return_proc = s.blocked_return_proc /\ OwnerSame(s, c)
               /\ c.irq_return_proc = s.irq_return_proc
               /\ c.copied = s.copied \cup {<<a, b>>} /\ c.bill_ptr = s.bill_ptr
<1> DEFINE c == copy_message(s, a, b)
           W == s.copied \cup {<<a, b>>}
<1>1. W \in SUBSET (Proc \X Proc) BY DEF KType
<1>2. c = [s EXCEPT !.copied = W] BY Zenon DEF copy_message
<1> HIDE DEF W, c
<1>3. c \in KType BY <1>1, <1>2, Zenon DEF KType
<1>4. /\ c.p_flags = s.p_flags /\ c.p_getfrom = s.p_getfrom /\ c.p_sendto = s.p_sendto
      /\ c.p_callerq = s.p_callerq /\ c.p_int_blocked = s.p_int_blocked
      /\ c.p_blocked_frame = s.p_blocked_frame /\ c.held = s.held /\ c.rdy = s.rdy
      /\ c.blocked_return_proc = s.blocked_return_proc /\ OwnerSame(s, c)
      /\ c.irq_return_proc = s.irq_return_proc
      /\ c.copied = W /\ c.bill_ptr = s.bill_ptr
  BY <1>2, Zenon DEF KType, OwnerSame
<1> QED BY <1>3, <1>4, Zenon DEF c, W

\* SEND, both ways it can go.
LEMMA SendLemma ==
    ASSUME NEW own \in Proc \ {IDLE, HARDWARE}, NEW s, Mid(s, own), Runnable(s, own),
           NEW dest \in Proc, ~mini_send_refused(s, own, dest), s.copied = {}
    PROVE  LET t == mini_send(s, own, dest)
           IN  /\ Mid(t, own) /\ Moves(s, t, own)
               /\ Runnable(t, own) => t.p_callerq = s.p_callerq
               /\ \/ Runnable(t, own)
                  \/ t.p_flags[own] = {SENDING} /\ t.p_sendto[own] = dest
<1> DEFINE t == mini_send(s, own, dest)
<1>1. own \in Proc /\ own \notin {IDLE, HARDWARE} OBVIOUS
<1>2. s \in KType /\ Ipc(s) /\ ReadyQueues(s, {own}) /\ Frames(s, {own}) BY Zenon DEF Mid
<1>3. dest # own BY Zenon DEF mini_send_refused
<1>4. Serves(s, s, own) BY ServesStart, Zenon
<1>5. CASE Accepts(s, dest, own)
  <2> DEFINE c == copy_message(s, own, dest)
  <2>1. t = cp32_complete_blocked_frame(c, dest) BY <1>5, Zenon DEF mini_send
  <2>2. c \in KType BY <1>1, <1>2, CopyLemma, Zenon
  <2>3. /\ c.p_flags = s.p_flags /\ c.p_getfrom = s.p_getfrom /\ c.p_sendto = s.p_sendto
        /\ c.p_callerq = s.p_callerq /\ c.p_int_blocked = s.p_int_blocked
        /\ c.p_blocked_frame = s.p_blocked_frame /\ c.held = s.held /\ c.rdy = s.rdy
        /\ c.blocked_return_proc = s.blocked_return_proc /\ OwnerSame(s, c)
        /\ c.copied = s.copied \cup {<<own, dest>>} /\ c.bill_ptr = s.bill_ptr
    BY <1>1, <1>2, CopyLemma
  <2> HIDE DEF t, c
  <2>4. Receiving(s, dest) BY <1>5, Zenon DEF Accepts
  <2>5. SENDING \notin c.p_flags[dest] /\ Blocked(s, dest) /\ ~Runnable(c, dest)
    BY <2>3, <2>4 DEF Receiving, Blocked, Runnable, SENDING, RECEIVING
  <2>6. dest \notin {IDLE, HARDWARE}
    BY <1>2, <2>3, <2>5, Zenon DEF Ipc, Runnable
  <2>7. c.p_blocked_frame[dest] # "mismatch"
    <3>1. FrameKept(s, dest) BY <1>2, <1>3, Zenon DEF Frames
    <3> QED BY <2>3, <2>5, <3>1, Zenon DEF FrameKept
  <2>8. Ipc(c) /\ Frames(c, {own})
    <3>1. Ipc(c) BY <1>2, <2>2, <2>3, IpcFields, Zenon
    <3>2. Frames(c, {own}) BY <1>2, <2>3 DEF Frames, FrameKept, Blocked
    <3> QED BY <3>1, <3>2, Zenon
  <2>9. ReadyQueues(c, {own} \cup {dest})
    <3>1. ReadyQueues(c, {own}) BY <1>1, <1>2, <2>2, <2>3, ReadyQueuesAway, Zenon
    <3> QED BY <2>2, <2>5, <3>1, ReadyQueuesBlocked, Zenon
  <2>10. /\ t \in KType /\ ReadyQueues(t, {own}) /\ Woken(c, t, dest) /\ OwnerSame(c, t)
         /\ t.bill_ptr = c.bill_ptr
    <3>1. dest \in Proc \ ({own} \cup {IDLE, HARDWARE}) BY <1>3, <2>6, Zenon
    <3> QED BY <2>1, <2>2, <2>7, <2>9, <3>1, CompleteLemma, Zenon
  <2>11. Ipc(t) BY <2>2, <2>5, <2>6, <2>8, <2>10, IpcWake, Zenon
  <2>12. Frames(t, {own}) BY <1>3, <2>2, <2>8, <2>10, FramesWoken, Zenon
  <2>13. t.p_flags[own] = s.p_flags[own] /\ t.p_blocked_frame[own] = s.p_blocked_frame[own]
    <3>1. c.p_flags \in [Proc -> SUBSET Flags]
          /\ c.p_blocked_frame \in [Proc -> {"none", "valid", "mismatch"}]
      BY <2>2, KFields, Zenon
    <3> QED BY <1>1, <1>3, <2>3, <2>10, <3>1 DEF Woken
  <2>14. Quiet(t) /\ t.proc_ptr = own /\ t.current_proc = own
    BY <2>3, <2>10, Zenon DEF Mid, Quiet, OwnerSame, Woken
  <2>15. Mid(t, own) BY <2>10, <2>11, <2>12, <2>13, <2>14, Zenon DEF Mid
  <2>16. Moves(s, t, own) /\ t.p_callerq = s.p_callerq
    <3>1. Delivers(s, t, own, dest) BY <2>3, <2>10, Zenon DEF Delivers, Woken
    <3>2. Serves(s, t, own)
      BY <1>1, <1>2, <1>3, <1>5, <1>4, <2>3, <2>5, <2>10, <3>1, ServesDeliver, Zenon
    <3>3. t.p_callerq = s.p_callerq /\ t.bill_ptr = s.bill_ptr BY <2>3, <2>10, Zenon DEF Woken
    <3>4. SENDING \notin t.p_flags[own] BY <2>13, Zenon DEF Runnable
    <3> QED BY <3>2, <3>3, <3>4, Zenon DEF Moves, Fifo
  <2> QED BY <2>13, <2>15, <2>16, Zenon DEF t, Runnable
<1>6. CASE ~Accepts(s, dest, own)
  <2>1. unready(s, own) = s BY <1>1, <1>2, UnreadyLemma, Zenon
  <2>2. t = [s EXCEPT !.p_flags[own] = @ \cup {SENDING},
                      !.p_sendto[own] = dest,
                      !.p_callerq[dest] = Append(@, own)]
    BY <1>6, <2>1, Zenon DEF mini_send
  <2>3. s.p_flags[own] \cup {SENDING} = {SENDING} /\ {SENDING} \in SUBSET Flags
    BY Zenon DEF Runnable, Flags
  <2>4. Append(s.p_callerq[dest], own) \in Seq(Proc)
    <3>1. s.p_callerq[dest] \in Seq(Proc) BY <1>2, KFields, Zenon
    <3> QED BY <1>1, <3>1, AppendProperties, Zenon
  <2> HIDE DEF t
  <2>5. t \in KType BY <1>1, <1>2, <2>2, <2>3, <2>4, Zenon DEF KType
  <2>6. /\ t.p_flags = [s.p_flags EXCEPT ![own] = {SENDING}]
        /\ t.p_sendto = [s.p_sendto EXCEPT ![own] = dest]
        /\ t.p_callerq = [s.p_callerq EXCEPT ![dest] = Append(@, own)]
        /\ t.p_getfrom = s.p_getfrom /\ t.p_int_blocked = s.p_int_blocked
        /\ t.p_blocked_frame = s.p_blocked_frame /\ t.rdy = s.rdy /\ t.held = s.held
        /\ t.blocked_return_proc = s.blocked_return_proc /\ OwnerSame(s, t)
        /\ t.copied = s.copied /\ t.bill_ptr = s.bill_ptr
    BY <1>2, <2>2, <2>3, Zenon DEF KType, OwnerSame
  <2>7. /\ \A x \in Proc \ {own} : t.p_flags[x] = s.p_flags[x]
        /\ t.p_flags[own] = {SENDING} /\ t.p_sendto[own] = dest
    <3>1. s.p_flags \in [Proc -> SUBSET Flags] /\ s.p_sendto \in [Proc -> Proc]
      BY <1>2, KFields, Zenon
    <3> QED BY <1>1, <2>6, <3>1, Zenon
  <2>8. Ipc(t) BY <1>1, <1>2, <1>6, <2>5, <2>6, IpcBlockSend, Zenon
  <2>9. ReadyQueues(t, {own}) BY <1>1, <1>2, <2>5, <2>6, <2>7, ReadyQueuesAway, Zenon
  <2>10. Frames(t, {own})
    <3>1. \A x \in Proc \ {own} : FrameKept(t, x)
      BY <1>2, <2>6, <2>7, Zenon DEF Frames, FrameKept, Blocked
    <3>2. t.blocked_return_proc # NIL => Blocked(t, t.blocked_return_proc)
      <4>1. t.blocked_return_proc # NIL => t.blocked_return_proc \in Proc
        BY <2>5, Zenon DEF KType
      <4>2. Blocked(t, own) BY <2>7, Zenon DEF Blocked
      <4> QED BY <1>2, <2>6, <2>7, <4>1, <4>2 DEF Frames, Blocked
    <3> QED BY <3>1, <3>2, Zenon DEF Frames
  <2>11. /\ Quiet(t) /\ t.proc_ptr = own /\ t.current_proc = own
         /\ t.p_blocked_frame[own] = "none"
    BY <2>6, Zenon DEF Mid, Quiet, OwnerSame
  <2>12. Mid(t, own) BY <2>5, <2>7, <2>8, <2>9, <2>10, <2>11, Zenon DEF Mid
  <2>13. Moves(s, t, own)
    <3>1. Stays(s, t, own)
      <4>1. s.p_sendto \in [Proc -> Proc] BY <1>2, KFields, Zenon
      <4> QED BY <1>1, <2>6, <2>7, <4>1, Zenon DEF Stays
    <3>2. Serves(s, t, own) BY <1>1, <1>2, <1>4, <2>5, <3>1, ServesStay, Zenon
    <3>3. P_SLOT_FREE \notin s.p_flags[dest]
      <4>1. dest \in SendChain(s, dest) BY Zenon DEF SendChain
      <4> QED BY <4>1, Zenon DEF mini_send_refused
    <3>4. ASSUME NEW d \in Proc PROVE Fifo(s.p_callerq[d], t.p_callerq[d])
      <4>1. s.p_callerq \in [Proc -> Seq(Proc)] BY <1>2, KFields, Zenon
      <4>2. CASE d = dest BY <1>1, <2>6, <4>1, <4>2, Zenon DEF Fifo
      <4>3. CASE d # dest BY <2>6, <4>1, <4>3, Zenon DEF Fifo
      <4> QED BY <4>2, <4>3, Zenon
    <3> QED BY <2>6, <2>7, <3>2, <3>3, <3>4, Zenon DEF Moves
  <2> QED BY <2>7, <2>12, <2>13, Zenon DEF t, Runnable
<1> QED BY <1>5, <1>6, Zenon

\* The calls mini_rec may be made for: a process that runs, or the second
\* half of a SENDREC whose first half waits.
RecReady(s, own, src) ==
    \/ Runnable(s, own)
    \/ s.p_flags[own] = {SENDING} /\ s.p_sendto[own] = src

\* A queued sender is taken: it runs again, or goes on waiting for its reply.
LEMMA TakeLemma ==
    ASSUME NEW own \in Proc \ {IDLE, HARDWARE}, NEW s, Mid(s, own), Runnable(s, own),
           NEW i \in DOMAIN s.p_callerq[own],
           NEW b \in KType, Moves(b, s, own), s.p_callerq = b.p_callerq
    PROVE  Mid(TakeSender(s, own, i), own) /\ Moves(b, TakeSender(s, own, i), own)
<1> DEFINE t == TakeSender(s, own, i)
           q == s.p_callerq[own][i]
           c == copy_message(s, q, own)
           w == [c EXCEPT !.p_callerq[own] = Unlink(@, i), !.p_flags[q] = @ \ {SENDING}]
<1>1. own \in Proc /\ own \notin {IDLE, HARDWARE} OBVIOUS
<1>2. s \in KType /\ Ipc(s) /\ ReadyQueues(s, {own}) /\ Frames(s, {own}) BY Zenon DEF Mid
<1>3. q \in Proc /\ SENDING \in s.p_flags[q] /\ q # own /\ q \notin {IDLE, HARDWARE}
  <2>1. CallerQueues(s) BY <1>2, Zenon DEF Ipc
  <2>2. q \in Proc /\ SENDING \in s.p_flags[q]
    BY <1>1, <1>2, <2>1, LinkedLemma, Zenon DEF SendsTo
  <2> QED BY <1>2, <2>2, Zenon DEF Ipc, Runnable
<1>4. t = IF RECEIVING \in s.p_flags[q] THEN w ELSE cp32_complete_blocked_frame(w, q)
  BY Zenon DEF TakeSender
<1> HIDE DEF t
<1>5. /\ c \in KType
      /\ c.p_flags = s.p_flags /\ c.p_getfrom = s.p_getfrom /\ c.p_sendto = s.p_sendto
      /\ c.p_callerq = s.p_callerq /\ c.p_int_blocked = s.p_int_blocked
      /\ c.p_blocked_frame = s.p_blocked_frame /\ c.held = s.held /\ c.rdy = s.rdy
      /\ c.blocked_return_proc = s.blocked_return_proc /\ OwnerSame(s, c)
      /\ c.irq_return_proc = s.irq_return_proc
      /\ c.copied = s.copied \cup {<<q, own>>} /\ c.bill_ptr = s.bill_ptr
  <2> HIDE DEF q
  <2> QED BY <1>1, <1>2, <1>3, CopyLemma, Zenon
<1> HIDE DEF c
<1>6. Unlink(s.p_callerq[own], i) \in Seq(Proc)
  <2> DEFINE u == s.p_callerq[own]
             S == {x \in Proc : SENDING \in s.p_flags[x] /\ s.p_sendto[x] = own}
  <2>1. u \in Seq(Proc) BY <1>1, <1>2, KFields, Zenon
  <2>2. Lists(u, S) /\ i \in DOMAIN u BY <1>1, <1>2, Zenon DEF Ipc, CallerQueues
  <2> HIDE DEF u, S
  <2>3. Unlink(u, i) \in Seq(Proc) BY <2>1, <2>2, ListsUnlink, Zenon
  <2> QED BY <2>3, Zenon DEF u
<1>7. w \in KType
  <2>1. c.p_flags[q] \ {SENDING} \in SUBSET Flags BY <1>3, <1>5, KFields, Zenon
  <2>2. Unlink(c.p_callerq[own], i) \in Seq(Proc) BY <1>5, <1>6, Zenon
  <2> HIDE DEF q
  <2> QED BY <1>1, <1>3, <1>5, <2>1, <2>2, Zenon DEF KType
<1>8. /\ w.p_flags = [s.p_flags EXCEPT ![q] = @ \ {SENDING}]
      /\ w.p_callerq = [s.p_callerq EXCEPT ![own] = Unlink(@, i)]
      /\ w.p_getfrom = s.p_getfrom /\ w.p_sendto = s.p_sendto
      /\ w.p_int_blocked = s.p_int_blocked
      /\ w.p_blocked_frame = s.p_blocked_frame /\ w.held = s.held /\ w.rdy = s.rdy
      /\ w.blocked_return_proc = s.blocked_return_proc /\ OwnerSame(s, w)
      /\ w.copied = s.copied \cup {<<q, own>>} /\ w.bill_ptr = s.bill_ptr
  <2> HIDE DEF q
  <2> QED BY <1>5, Zenon DEF KType, OwnerSame
<1> HIDE DEF w
<1>9. q = s.p_callerq[own][i] OBVIOUS
<1> HIDE DEF q
<1>10. Ipc(w)
  <2>1. /\ w.p_flags = [s.p_flags EXCEPT ![q] = @ \ {SENDING}]
        /\ w.p_callerq = [s.p_callerq EXCEPT ![own] = Unlink(@, i)]
        /\ w.p_getfrom = s.p_getfrom /\ w.p_sendto = s.p_sendto
        /\ w.p_int_blocked = s.p_int_blocked
    BY <1>8, Zenon
  <2> QED BY <1>2, <1>7, <1>9, <2>1, IpcTake
<1>11. /\ \A x \in Proc \ {q} : w.p_flags[x] = s.p_flags[x]
       /\ w.p_flags[q] = s.p_flags[q] \ {SENDING}
  <2>1. s.p_flags \in [Proc -> SUBSET Flags] BY <1>2, KFields, Zenon
  <2> QED BY <1>3, <1>8, <2>1, ZenonT(40)
<1>12. Quiet(w) /\ w.proc_ptr = own /\ w.current_proc = own /\ w.p_blocked_frame[own] = "none"
       /\ w.p_flags[own] = s.p_flags[own]
  BY <1>1, <1>3, <1>8, <1>11, Zenon DEF Mid, Quiet, OwnerSame
<1>13. FrameKept(s, q) /\ Blocked(s, q) BY <1>2, <1>3 DEF Frames, Blocked
<1>14. ReadyQueues(w, {own} \cup {q})
  <2>1. ~Runnable(s, q) BY <1>3, Zenon DEF Runnable
  <2>2. ReadyQueues(s, {own} \cup {q}) BY <1>2, <1>3, <2>1, ReadyQueuesBlocked, Zenon
  <2> SUFFICES ASSUME NEW r \in Queues
               PROVE  Lists(w.rdy[r], {x \in Proc \ ({IDLE, HARDWARE} \cup ({own} \cup {q})) :
                                         proc_queue(x) = r /\ Runnable(w, x)})
    BY Zenon DEF ReadyQueues
  <2>3. {x \in Proc \ ({IDLE, HARDWARE} \cup ({own} \cup {q})) : proc_queue(x) = r /\ Runnable(w, x)}
         = {x \in Proc \ ({IDLE, HARDWARE} \cup ({own} \cup {q})) : proc_queue(x) = r /\ Runnable(s, x)}
    BY <1>11, Zenon DEF Runnable
  <2> QED BY <1>8, <2>2, <2>3, Zenon DEF ReadyQueues
<1>15. SendsTo(s, q, own)
  <2>1. CallerQueues(s) BY <1>2, Zenon DEF Ipc
  <2> QED BY <1>1, <1>2, <1>9, <2>1, LinkedLemma, Zenon
<1>16. ASSUME NEW v \in KType, Takes(s, v, own, q), v.p_callerq = w.p_callerq,
              v.bill_ptr = s.bill_ptr, v.p_flags[own] = s.p_flags[own]
       PROVE  Moves(b, v, own)
  <2>1. Serves(b, v, own)
    <3>1. Serves(b, s, own) BY Zenon DEF Moves
    <3> QED BY <1>1, <1>2, <1>3, <1>15, <1>16, <3>1, ServesTake, Zenon
  <2>2. ASSUME NEW d \in Proc PROVE Fifo(b.p_callerq[d], v.p_callerq[d])
    <3>1. s.p_callerq \in [Proc -> Seq(Proc)] BY <1>2, KFields, Zenon
    <3>2. CASE d = own BY <1>1, <1>8, <1>16, <3>1, <3>2 DEF Fifo
    <3>3. CASE d # own BY <1>8, <1>16, <3>1, <3>3 DEF Fifo
    <3> QED BY <3>2, <3>3, Zenon
  <2>3. SENDING \notin v.p_flags[own] BY <1>16, Zenon DEF Runnable
  <2> QED BY <1>16, <2>1, <2>2, <2>3, Zenon DEF Moves
<1>17. CASE RECEIVING \in s.p_flags[q]
  <2>1. t = w BY <1>4, <1>17, Zenon
  <2>2. RECEIVING \in w.p_flags[q] BY <1>11, <1>17, Zenon DEF SENDING, RECEIVING
  <2>3. \A x \in Proc : Blocked(w, x) <=> Blocked(s, x)
    BY <1>11, <1>13, <2>2, Zenon DEF Blocked
  <2>4. Frames(w, {own})
    <3>1. \A x \in Proc \ {own} : FrameKept(w, x)
      BY <1>2, <1>8, <2>3, Zenon DEF Frames, FrameKept
    <3>2. w.blocked_return_proc # NIL => w.blocked_return_proc \in Proc BY <1>7, Zenon DEF KType
    <3> QED BY <1>2, <1>8, <2>3, <3>1, <3>2, Zenon DEF Frames
  <2>5. ReadyQueues(w, {own})
    <3>1. ~Runnable(w, q) BY <2>2, Zenon DEF Runnable
    <3> QED BY <1>3, <1>7, <1>14, <3>1, ReadyQueuesBlocked, Zenon
  <2>6. Mid(w, own) BY <1>7, <1>10, <1>12, <2>4, <2>5, Zenon DEF Mid
  <2>7. Takes(s, w, own, q) BY <1>8, Zenon DEF Takes
  <2>8. Moves(b, w, own) BY <1>7, <1>8, <1>12, <1>16, <2>7, Zenon
  <2> QED BY <2>1, <2>6, <2>8, Zenon DEF t
<1>18. CASE RECEIVING \notin s.p_flags[q]
  <2>1. t = cp32_complete_blocked_frame(w, q) BY <1>4, <1>18, Zenon
  <2>2. w.p_blocked_frame[q] # "mismatch" BY <1>8, <1>13, Zenon DEF FrameKept
  <2>3. /\ t \in KType /\ ReadyQueues(t, {own}) /\ Woken(w, t, q) /\ OwnerSame(w, t)
        /\ t.bill_ptr = w.bill_ptr
    <3>1. q \in Proc \ ({own} \cup {IDLE, HARDWARE}) BY <1>3, Zenon
    <3> QED BY <1>7, <1>14, <2>1, <2>2, <3>1, CompleteLemma, Zenon
  <2>4. w.p_flags[q] \ {SENDING, RECEIVING} = s.p_flags[q] \ {SENDING, RECEIVING}
    BY <1>11, Zenon
  <2>5. SENDING \notin w.p_flags[q] BY <1>11, Zenon
  <2>6. Ipc(t) BY <1>3, <1>7, <1>10, <2>3, <2>5, IpcWake, Zenon
  <2>7. Woken([s EXCEPT !.p_callerq = w.p_callerq, !.copied = w.copied], t, q)
    <3> DEFINE z == [s EXCEPT !.p_callerq = w.p_callerq, !.copied = w.copied]
    <3>1. /\ z.p_flags = s.p_flags /\ z.p_getfrom = s.p_getfrom /\ z.p_sendto = s.p_sendto
          /\ z.p_callerq = w.p_callerq /\ z.p_int_blocked = s.p_int_blocked
          /\ z.p_blocked_frame = s.p_blocked_frame /\ z.held = s.held /\ z.copied = w.copied
          /\ z.blocked_return_proc = s.blocked_return_proc
      BY <1>2, Zenon DEF KType
    <3> HIDE DEF z
    <3>2. t.p_flags = [s.p_flags EXCEPT ![q] = @ \ {SENDING, RECEIVING}]
      <4>1. s.p_flags \in [Proc -> SUBSET Flags] BY <1>2, KFields, Zenon
      <4>2. t.p_flags = [w.p_flags EXCEPT ![q] = @ \ {SENDING, RECEIVING}]
        BY <2>3, Zenon DEF Woken
      <4> QED BY <1>3, <1>8, <2>4, <4>1, <4>2, ZenonT(40)
    <3>3. Woken(z, t, q) BY <1>8, <2>3, <3>1, <3>2, Zenon DEF Woken
    <3> QED BY <3>3, Zenon DEF z
  <2>8. Frames(t, {own})
    <3> DEFINE z == [s EXCEPT !.p_callerq = w.p_callerq, !.copied = w.copied]
    <3>1. z \in KType BY <1>2, <1>7, Zenon DEF KType
    <3>2. /\ z.p_flags = s.p_flags /\ z.p_blocked_frame = s.p_blocked_frame
          /\ z.blocked_return_proc = s.blocked_return_proc
      BY <1>2, Zenon DEF KType
    <3>3. Woken(z, t, q) BY <2>7, Zenon
    <3> HIDE DEF z
    <3>4. Frames(z, {own}) BY <1>2, <3>2, Zenon DEF Frames, FrameKept, Blocked
    <3> QED BY <1>3, <2>3, <3>1, <3>3, <3>4, FramesWoken, Zenon
  <2>9. t.p_flags[own] = w.p_flags[own] /\ t.p_blocked_frame[own] = w.p_blocked_frame[own]
    <3>1. w.p_flags \in [Proc -> SUBSET Flags]
          /\ w.p_blocked_frame \in [Proc -> {"none", "valid", "mismatch"}]
      BY <1>7, KFields, Zenon
    <3> QED BY <1>1, <1>3, <2>3, <3>1, Zenon DEF Woken
  <2>10. Quiet(t) /\ t.proc_ptr = own /\ t.current_proc = own
    BY <1>12, <2>3, Zenon DEF Quiet, OwnerSame, Woken
  <2>11. Mid(t, own) BY <1>12, <2>3, <2>6, <2>8, <2>9, <2>10, ZenonT(40) DEF Mid, Runnable
  <2>12. Takes(s, t, own, q)
    <3>1. s.p_flags \in [Proc -> SUBSET Flags] BY <1>2, KFields, Zenon
    <3>2. t.p_flags = [s.p_flags EXCEPT ![q] = @ \ {SENDING}]
      <4>1. t.p_flags = [w.p_flags EXCEPT ![q] = @ \ {SENDING, RECEIVING}]
        BY <2>3, Zenon DEF Woken
      <4>2. w.p_flags[q] \ {SENDING, RECEIVING} = w.p_flags[q] BY <1>11, <1>18, Zenon
      <4>3. w.p_flags \in [Proc -> SUBSET Flags] BY <1>7, KFields, Zenon
      <4>4. t.p_flags = w.p_flags BY <1>3, <4>1, <4>2, <4>3, ExceptSame
      <4> QED BY <1>8, <4>4, ZenonT(40)
    <3> QED BY <1>8, <2>3, <3>2, ZenonT(40) DEF Takes, Woken
  <2>13. t.p_callerq = w.p_callerq /\ t.bill_ptr = s.bill_ptr
    BY <1>8, <2>3, ZenonT(40) DEF Woken
  <2>14. Moves(b, t, own) BY <1>12, <1>16, <2>3, <2>9, <2>12, <2>13, Zenon
  <2> QED BY <2>11, <2>14, Zenon DEF t
<1> QED BY <1>17, <1>18, Zenon

-----------------------------------------------------------------------------
(* The SYSCALL trap *)

\* RECEIVE: a sender, a pending interrupt, or a wait.
LEMMA ReceiveLemma ==
    ASSUME NEW own \in Proc \ {IDLE, HARDWARE}, NEW s, Mid(s, own),
           NEW src \in Proc \cup {ANY}, RecReady(s, own, src),
           NEW b \in KType, Moves(b, s, own), Runnable(s, own) => s.p_callerq = b.p_callerq
    PROVE  Mid(mini_rec(s, own, src), own) /\ Moves(b, mini_rec(s, own, src), own)
<1> DEFINE t == mini_rec(s, own, src)
           m == Matching(s, own, src)
           sending == SENDING \in s.p_flags[own]
<1>1. own \in Proc /\ own \notin {IDLE, HARDWARE} OBVIOUS
<1>2. s \in KType /\ Ipc(s) /\ ReadyQueues(s, {own}) /\ Frames(s, {own}) BY Zenon DEF Mid
<1>3. HARDWARE \in Proc BY ProcAssumption, Zenon DEF Proc
<1>4. CASE ~sending /\ m # {}
  <2>1. t = TakeSender(s, own, Min(m)) BY <1>4, Zenon DEF mini_rec
  <2>2. Min(m) \in m
    <3>1. m \in SUBSET Nat
      <4>1. s.p_callerq[own] \in Seq(Proc) BY <1>1, <1>2, KFields, Zenon
      <4>2. DOMAIN s.p_callerq[own] \subseteq Nat BY <4>1, LenProperties
      <4> QED BY <4>2, Zenon DEF Matching
    <3> HIDE DEF m
    <3> QED BY <1>4, <3>1, MinNat, Zenon
  <2>3. Min(m) \in DOMAIN s.p_callerq[own] BY <2>2, Zenon DEF Matching
  <2>4. Runnable(s, own) /\ s.p_callerq = b.p_callerq BY <1>4, Zenon DEF RecReady
  <2> HIDE DEF t, m
  <2> QED BY <1>1, <2>1, <2>3, <2>4, TakeLemma, Zenon DEF t
<1>5. CASE ~(~sending /\ m # {}) /\ ~sending /\ s.p_int_blocked[own] /\ src \in {ANY, HARDWARE}
  <2> DEFINE c == copy_message(s, HARDWARE, own)
  <2>1. t = [c EXCEPT !.p_int_blocked[own] = FALSE] BY <1>5, Zenon DEF mini_rec
  <2>2. /\ c \in KType
        /\ c.p_flags = s.p_flags /\ c.p_getfrom = s.p_getfrom /\ c.p_sendto = s.p_sendto
        /\ c.p_callerq = s.p_callerq /\ c.p_int_blocked = s.p_int_blocked
        /\ c.p_blocked_frame = s.p_blocked_frame /\ c.held = s.held /\ c.rdy = s.rdy
        /\ c.blocked_return_proc = s.blocked_return_proc /\ OwnerSame(s, c)
        /\ c.irq_return_proc = s.irq_return_proc
        /\ c.copied = s.copied \cup {<<HARDWARE, own>>} /\ c.bill_ptr = s.bill_ptr
    BY <1>1, <1>2, <1>3, CopyLemma, Zenon
  <2> HIDE DEF t, c
  <2>3. t \in KType BY <2>1, <2>2, Zenon DEF KType
  <2>4. /\ t.p_flags = s.p_flags /\ t.p_getfrom = s.p_getfrom /\ t.p_sendto = s.p_sendto
        /\ t.p_callerq = s.p_callerq /\ t.p_int_blocked = [s.p_int_blocked EXCEPT ![own] = FALSE]
        /\ t.p_blocked_frame = s.p_blocked_frame /\ t.held = s.held /\ t.rdy = s.rdy
        /\ t.blocked_return_proc = s.blocked_return_proc /\ OwnerSame(s, t)
        /\ t.copied = s.copied \cup {<<HARDWARE, own>>} /\ t.bill_ptr = s.bill_ptr
    BY <2>1, <2>2, Zenon DEF KType, OwnerSame
  <2>5. Ipc(t)
    <3>1. \A p \in Proc : t.p_int_blocked[p] => s.p_int_blocked[p]
      <4>1. s.p_int_blocked \in [Proc -> BOOLEAN] BY <1>2, KFields, Zenon
      <4> QED BY <1>1, <2>4, <4>1, Zenon
    <3> QED BY <1>2, <2>3, <2>4, <3>1, IpcFields, Zenon
  <2>6. ReadyQueues(t, {own}) BY <1>1, <1>2, <2>3, <2>4, ReadyQueuesAway, Zenon
  <2>7. Frames(t, {own}) BY <1>2, <2>4 DEF Frames, FrameKept, Blocked
  <2>8. Mid(t, own) BY <2>3, <2>4, <2>5, <2>6, <2>7, Zenon DEF Mid, Quiet, OwnerSame
  <2>9. Stays(s, t, own) BY <1>3, <2>4, Zenon DEF Stays
  <2>10. Moves(b, t, own) BY <1>1, <1>2, <2>3, <2>4, <2>9, MovesStay, Zenon
  <2> QED BY <2>8, <2>10, Zenon DEF t
<1>6. CASE ~(~sending /\ m # {}) /\ ~(~sending /\ s.p_int_blocked[own] /\ src \in {ANY, HARDWARE})
  <2>1. unready(s, own) = s BY <1>1, <1>2, UnreadyLemma, Zenon
  <2>2. t = [s EXCEPT !.p_getfrom[own] = src, !.p_flags[own] = @ \cup {RECEIVING}]
    BY <1>6, <2>1, Zenon DEF mini_rec
  <2>3. s.p_flags[own] \cup {RECEIVING} \in SUBSET Flags
    <3>1. s.p_flags[own] \in SUBSET Flags BY <1>1, <1>2, KFields, Zenon
    <3>2. RECEIVING \in Flags BY Zenon DEF Flags
    <3> QED BY <3>1, <3>2, Zenon
  <2>4. \/ /\ SENDING \notin s.p_flags[own] /\ Matching(s, own, src) = {}
           /\ ~(s.p_int_blocked[own] /\ src \in {ANY, HARDWARE})
        \/ SENDING \in s.p_flags[own] /\ s.p_sendto[own] = src
    BY <1>6, Zenon DEF RecReady, Runnable
  <2> HIDE DEF t, m, sending
  <2>5. t \in KType BY <1>1, <1>2, <2>2, <2>3, ZenonT(60) DEF KType
  <2>6. /\ t.p_flags = [s.p_flags EXCEPT ![own] = @ \cup {RECEIVING}]
        /\ t.p_getfrom = [s.p_getfrom EXCEPT ![own] = src]
        /\ t.p_sendto = s.p_sendto /\ t.p_callerq = s.p_callerq
        /\ t.p_int_blocked = s.p_int_blocked
        /\ t.p_blocked_frame = s.p_blocked_frame /\ t.rdy = s.rdy /\ t.held = s.held
        /\ t.blocked_return_proc = s.blocked_return_proc /\ OwnerSame(s, t)
        /\ t.copied = s.copied /\ t.bill_ptr = s.bill_ptr
    BY <1>2, <2>2, Zenon DEF KType, OwnerSame
  <2>7. /\ \A x \in Proc \ {own} : t.p_flags[x] = s.p_flags[x]
        /\ t.p_flags[own] = s.p_flags[own] \cup {RECEIVING}
    <3>1. s.p_flags \in [Proc -> SUBSET Flags] BY <1>2, KFields, Zenon
    <3> QED BY <1>1, <2>6, <3>1, Zenon
  <2>8. Ipc(t) BY <1>1, <1>2, <2>4, <2>5, <2>6, IpcBlockReceive, Zenon
  <2>9. ReadyQueues(t, {own}) BY <1>1, <1>2, <2>5, <2>6, <2>7, ReadyQueuesAway, Zenon
  <2>10. Frames(t, {own})
    <3>1. \A x \in Proc \ {own} : FrameKept(t, x)
      BY <1>2, <2>6, <2>7, Zenon DEF Frames, FrameKept, Blocked
    <3>2. t.blocked_return_proc # NIL => Blocked(t, t.blocked_return_proc)
      <4>1. t.blocked_return_proc # NIL => t.blocked_return_proc \in Proc
        BY <2>5, Zenon DEF KType
      <4>2. Blocked(t, own) BY <2>7, Zenon DEF Blocked
      <4> QED BY <1>2, <2>6, <2>7, <4>1, <4>2, Zenon DEF Frames, Blocked
    <3> QED BY <3>1, <3>2, Zenon DEF Frames
  <2>11. /\ Quiet(t) /\ t.proc_ptr = own /\ t.current_proc = own
         /\ t.p_blocked_frame[own] = "none"
         /\ t.p_flags[own] \subseteq {SENDING, RECEIVING}
    BY <2>6, <2>7, Zenon DEF Mid, Quiet, OwnerSame
  <2>12. Mid(t, own) BY <2>5, <2>8, <2>9, <2>10, <2>11, Zenon DEF Mid
  <2>13. Stays(s, t, own)
    <3>1. s.p_getfrom \in [Proc -> Proc \cup {ANY}] BY <1>2, KFields, Zenon
    <3> QED BY <1>1, <2>6, <2>7, <3>1, Zenon DEF Stays
  <2>14. SENDING \in t.p_flags[own] => SENDING \in s.p_flags[own]
    BY <2>7, Zenon DEF SENDING, RECEIVING
  <2>15. Moves(b, t, own) BY <1>1, <1>2, <2>5, <2>6, <2>13, <2>14, MovesStay, Zenon
  <2> QED BY <2>12, <2>15, Zenon DEF t
<1> QED BY <1>4, <1>5, <1>6, Zenon

\* What holds when sys_call returns: the caller's snapshot is in step too.
Done(s, own) ==
    /\ s \in KType /\ Ipc(s) /\ ReadyQueues(s, {own}) /\ Frames(s, {}) /\ Quiet(s)
    /\ s.p_flags[own] \subseteq {SENDING, RECEIVING}
    /\ s.proc_ptr = own /\ s.current_proc = own

\* sys_call's report label snapshots a call that waits.
LEMMA ReportLemma ==
    ASSUME NEW own \in Proc \ {IDLE, HARDWARE}, NEW s, Mid(s, own), NEW ok \in BOOLEAN,
           ok \/ Runnable(s, own)
    PROVE  Done(Report(s, own, ok), own) /\ CallsSame(s, Report(s, own, ok))
<1> DEFINE t == Report(s, own, ok)
<1>1. own \in Proc /\ own # NIL BY ProcAssumption, Zenon
<1>2. s \in KType /\ Ipc(s) /\ ReadyQueues(s, {own}) /\ Frames(s, {own}) BY Zenon DEF Mid
<1>3. CASE Blocked(s, own)
  <2>1. ok BY <1>3, Zenon DEF Blocked, Runnable
  <2>2. t = [s EXCEPT !.p_blocked_frame[own] = "valid",
                      !.blocked_return_proc = own, !.current_proc = own]
    BY <1>2, <1>3, <2>1, Zenon DEF Report, cp32_save_blocked_frame, KType
  <2> HIDE DEF t
  <2>3. t \in KType BY <1>1, <1>2, <2>2, Zenon DEF KType
  <2>4. /\ t.p_flags = s.p_flags /\ t.p_getfrom = s.p_getfrom /\ t.p_sendto = s.p_sendto
        /\ t.p_callerq = s.p_callerq /\ t.p_int_blocked = s.p_int_blocked
        /\ t.p_blocked_frame = [s.p_blocked_frame EXCEPT ![own] = "valid"]
        /\ t.held = s.held /\ t.rdy = s.rdy /\ t.blocked_return_proc = own
        /\ t.switching = s.switching /\ t.halted = s.halted
        /\ t.last_selected_fs = s.last_selected_fs
        /\ t.proc_ptr = s.proc_ptr /\ t.current_proc = own
        /\ t.copied = s.copied /\ t.bill_ptr = s.bill_ptr
    BY <1>2, <2>2, Zenon DEF KType
  <2>5. Ipc(t) BY <1>2, <2>3, <2>4, IpcFields, Zenon
  <2>6. ReadyQueues(t, {own}) BY <1>1, <1>2, <2>3, <2>4, ReadyQueuesAway, Zenon
  <2>7. Frames(t, {})
    <3>1. /\ \A x \in Proc \ {own} : t.p_blocked_frame[x] = s.p_blocked_frame[x]
          /\ t.p_blocked_frame[own] = "valid"
      <4>1. s.p_blocked_frame \in [Proc -> {"none", "valid", "mismatch"}]
        BY <1>2, KFields, Zenon
      <4> QED BY <1>1, <2>4, <4>1, Zenon
    <3>2. \A x \in Proc : Blocked(t, x) <=> Blocked(s, x) BY <2>4, Zenon DEF Blocked
    <3>3. FrameKept(t, own) BY <1>1, <1>3, <3>1, <3>2, Zenon DEF FrameKept
    <3>4. \A x \in Proc \ {own} : FrameKept(t, x)
      BY <1>2, <3>1, <3>2, Zenon DEF Frames, FrameKept
    <3>5. Blocked(t, t.blocked_return_proc) BY <1>1, <1>3, <2>4, <3>2, Zenon
    <3> QED BY <3>3, <3>4, <3>5, Zenon DEF Frames
  <2>8. Done(t, own) BY <2>3, <2>4, <2>5, <2>6, <2>7, Zenon DEF Mid, Done, Quiet
  <2> QED BY <2>4, <2>8, Zenon DEF t, CallsSame
<1>4. CASE ~Blocked(s, own)
  <2>1. t = [s EXCEPT !.blocked_return_proc = IF @ = own THEN NIL ELSE @]
    BY <1>4, Zenon DEF Report
  <2> HIDE DEF t
  <2>2. t \in KType BY <1>2, <2>1, Zenon DEF KType
  <2>3. /\ t.p_flags = s.p_flags /\ t.p_getfrom = s.p_getfrom /\ t.p_sendto = s.p_sendto
        /\ t.p_callerq = s.p_callerq /\ t.p_int_blocked = s.p_int_blocked
        /\ t.p_blocked_frame = s.p_blocked_frame /\ t.held = s.held /\ t.rdy = s.rdy
        /\ t.blocked_return_proc \in {NIL, s.blocked_return_proc} /\ OwnerSame(s, t)
        /\ t.copied = s.copied /\ t.bill_ptr = s.bill_ptr
    BY <1>2, <2>1, Zenon DEF KType, OwnerSame
  <2>4. Ipc(t) BY <1>2, <2>2, <2>3, IpcFields, Zenon
  <2>5. ReadyQueues(t, {own}) BY <1>1, <1>2, <2>2, <2>3, ReadyQueuesAway, Zenon
  <2>6. Frames(t, {})
    <3>1. \A x \in Proc : Blocked(t, x) <=> Blocked(s, x) BY <2>3, Zenon DEF Blocked
    <3>2. FrameKept(t, own) BY <1>1, <1>4, <2>3, <3>1, Zenon DEF FrameKept, Mid
    <3>3. \A x \in Proc \ {own} : FrameKept(t, x) BY <1>2, <2>3, <3>1 DEF Frames, FrameKept
    <3>4. t.blocked_return_proc # NIL => Blocked(t, t.blocked_return_proc)
      <4>1. t.blocked_return_proc # NIL => t.blocked_return_proc \in Proc
        BY <2>2, Zenon DEF KType
      <4> QED BY <1>2, <2>3, <3>1, <4>1, Zenon DEF Frames
    <3> QED BY <3>2, <3>3, <3>4, Zenon DEF Frames
  <2>7. Done(t, own) BY <2>2, <2>3, <2>4, <2>5, <2>6, Zenon DEF Mid, Done, Quiet, OwnerSame
  <2> QED BY <2>3, <2>7, Zenon DEF t, CallsSame
<1> QED BY <1>3, <1>4, Zenon

\* The receiving half of a call, refused or not.
LEMMA ReceiveReportLemma ==
    ASSUME NEW own \in Proc \ {IDLE, HARDWARE}, NEW s, Mid(s, own),
           NEW src \in Proc \cup {ANY}, RecReady(s, own, src),
           NEW b \in KType, Moves(b, s, own), Runnable(s, own) => s.p_callerq = b.p_callerq
    PROVE  Done(Receive(s, own, src), own) /\ Moves(b, Receive(s, own, src), own)
<1>1. CASE mini_rec_refused(s, own, src)
  <2>1. Runnable(s, own)
    BY <1>1, Zenon DEF mini_rec_refused, RecReady, SENDING, RECEIVING
  <2> DEFINE t == Report(s, own, FALSE)
  <2>2. Done(t, own) /\ CallsSame(s, t) BY <2>1, ReportLemma, Zenon
  <2>3. Receive(s, own, src) = t BY <1>1, Zenon DEF Receive
  <2> HIDE DEF t
  <2>4. Moves(b, t, own) BY <2>2, MovesSame, Zenon
  <2> QED BY <2>2, <2>3, <2>4, Zenon
<1>2. CASE ~mini_rec_refused(s, own, src)
  <2> DEFINE r == mini_rec(s, own, src)
             t == Report(r, own, TRUE)
  <2>1. Mid(r, own) /\ Moves(b, r, own) BY ReceiveLemma, Zenon
  <2>2. Receive(s, own, src) = t BY <1>2, Zenon DEF Receive
  <2> HIDE DEF r
  <2>3. Done(t, own) /\ CallsSame(r, t) BY <2>1, ReportLemma, Zenon
  <2> HIDE DEF t
  <2>4. Moves(b, t, own) BY <2>1, <2>3, MovesSame, Zenon
  <2> QED BY <2>2, <2>3, <2>4, Zenon
<1> QED BY <1>1, <1>2, Zenon

\* sys_call as a whole: SEND, RECEIVE, or one after the other.
LEMMA SysCallLemma ==
    ASSUME NEW own \in Proc \ {IDLE, HARDWARE}, NEW s, Mid(s, own), Runnable(s, own),
           NEW function \in {SEND, RECEIVE, BOTH}, NEW src_dest \in Proc \cup {ANY},
           s.copied = {}
    PROVE  LET t == sys_call(s, function, src_dest)
           IN  Done(t, own) /\ Moves(s, t, own)
<1> DEFINE t == sys_call(s, function, src_dest)
<1>1. s.proc_ptr = own /\ s \in KType BY Zenon DEF Mid
<1>2. Moves(s, s, own)
  <2>1. Serves(s, s, own) BY ServesStart, Zenon
  <2> QED BY <2>1, Zenon DEF Moves, Fifo, Runnable
<1>3. CASE function = RECEIVE
  <2>1. RecReady(s, own, src_dest) BY Zenon DEF RecReady
  <2>2. t = Receive(s, own, src_dest) BY <1>1, <1>3, Zenon DEF sys_call
  <2> HIDE DEF t
  <2>3. Done(t, own) /\ Moves(s, t, own)
    BY <1>1, <1>2, <2>1, <2>2, ReceiveReportLemma, Zenon
  <2> QED BY <2>3, Zenon DEF t
<1>4. CASE function # RECEIVE /\ mini_send_refused(s, own, src_dest)
  <2>1. t = Report(s, own, FALSE) BY <1>1, <1>4, Zenon DEF sys_call
  <2> HIDE DEF t
  <2>2. Done(t, own) /\ CallsSame(s, t) BY <2>1, ReportLemma, Zenon
  <2>3. Moves(s, t, own) BY <1>2, <2>2, MovesSame, Zenon
  <2> QED BY <2>2, <2>3, Zenon DEF t
<1>5. CASE function # RECEIVE /\ ~mini_send_refused(s, own, src_dest)
  <2> DEFINE sent == mini_send(s, own, src_dest)
  <2>1. src_dest \in Proc BY <1>5, Zenon DEF mini_send_refused
  <2>2. /\ Mid(sent, own) /\ RecReady(sent, own, src_dest) /\ Moves(s, sent, own)
        /\ Runnable(sent, own) => sent.p_callerq = s.p_callerq
    BY <1>5, <2>1, SendLemma DEF RecReady
  <2> HIDE DEF sent
  <2>3. CASE function = SEND
    <3>1. t = Report(sent, own, TRUE) BY <1>1, <1>5, <2>3, Zenon DEF sys_call, sent
    <3> HIDE DEF t
    <3>2. Done(t, own) /\ CallsSame(sent, t) BY <2>2, <3>1, ReportLemma, Zenon
    <3>3. Moves(s, t, own) BY <2>2, <3>2, MovesSame, Zenon
    <3> QED BY <3>2, <3>3, Zenon DEF t
  <2>4. CASE function # SEND
    <3>1. t = Receive(sent, own, src_dest) BY <1>1, <1>5, <2>4, Zenon DEF sys_call, sent
    <3> HIDE DEF t
    <3>2. Done(t, own) /\ Moves(s, t, own) BY <1>1, <2>2, <3>1, ReceiveReportLemma, Zenon
    <3> QED BY <3>2, Zenon DEF t
  <2> QED BY <2>3, <2>4, Zenon
<1> QED BY <1>3, <1>4, <1>5, Zenon
=============================================================================
