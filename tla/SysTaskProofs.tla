--------------------------- MODULE SysTaskProofs ---------------------------
(***************************************************************************)
(* Proofs about the system task: whatever requests are served, the flags,  *)
(* the ready queues, the count of signalled processes and the caller queue *)
(* of MM stay in step, as long as there was no data race and MM was told   *)
(* of no signal.                                                           *)
(*                                                                         *)
(* The three facts are proved together, because each handler that adds or  *)
(* takes a flag relies on the queues being in step when it starts: Block   *)
(* and Unblock relink a process on the strength of its flags alone, and    *)
(* do_xit unlinks a process from the caller queue because it has SENDING.  *)
(* A handler that tells MM of a signal only has to keep the types.         *)
(***************************************************************************)
EXTENDS SysTask, SequenceTheorems, FiniteSetTheorems, TLAPS

USE SMTT(30), ZenonT(30)

-----------------------------------------------------------------------------
(* The invariant *)

KType ==
    [p_flags : [Procs -> SUBSET Flags],
     p_pending : [Procs -> SUBSET Signals],
     p_pendcount : [Procs -> Nat],
     p_alarm : [Procs -> BOOLEAN],
     ready : SUBSET Procs,
     sig_procs : Int,
     callerq : Seq(Procs),
     mm : {"any", "working"},
     astray : BOOLEAN]

Pending(s) == {p \in Procs : PENDING \in s.p_flags[p]}
Senders(s) == {p \in Procs : SENDING \in s.p_flags[p]}

\* The sequence u lists the members of S, each once.
Lists(u, S) == IsInjective(u) /\ Range(u) = S

Queued(s) == \A p \in Procs : p \in s.ready <=> s.p_flags[p] = {}
Callers(s) == Lists(s.callerq, Senders(s))
Signalled(s) == s.sig_procs = Cardinality(Pending(s))

Inv(s) == s \in KType /\ Queued(s) /\ Callers(s) /\ Signalled(s)

\* What a handler leaves: the same, unless it told MM of a signal.
Kept(s) == s \in KType /\ (s.astray \/ Inv(s))

\* What MM and FS can have asked.
Request ==
    {r \in Message :
        /\ r.p1 \in Procs /\ r.type \in AllRequests
        /\ r.type = SYS_FORK => r.p2 \in Procs
        /\ r.type = SYS_KILL => r.sigs # {}}

Requests ==
    /\ asked \in [Clients -> Message]
    /\ \A c \in Clients : asked[c] # None => asked[c] \in Request
    /\ sys \in Clients \cup {"receiving"}
    /\ sys # "receiving" => asked[sys] # None
    /\ clock \in Procs \cup {0}

IInv == Requests /\ (Intact => Inv(k))

-----------------------------------------------------------------------------
(* Sequences that list a set *)

\* A new member goes to the end.
LEMMA ListsAppend ==
    ASSUME NEW T, NEW u \in Seq(T), NEW S, NEW p \in T, Lists(u, S), p \notin S
    PROVE  Append(u, p) \in Seq(T) /\ Lists(Append(u, p), S \cup {p})
<1> DEFINE v == Append(u, p)
<1>1. /\ v \in Seq(T) /\ Len(v) = Len(u) + 1 /\ Len(u) \in Nat
      /\ \A i \in 1 .. Len(u) : v[i] = u[i]
      /\ v[Len(u) + 1] = p
  BY AppendProperties, LenProperties
<1>2. DOMAIN u = 1 .. Len(u) /\ DOMAIN v = 1 .. (Len(u) + 1)
  BY <1>1, LenProperties
<1>3. Range(v) = S \cup {p}
  BY <1>1, <1>2 DEF Lists, Range
<1>4. IsInjective(v)
  BY <1>1, <1>2 DEF Lists, Range, IsInjective
<1> QED BY <1>1, <1>3, <1>4 DEF Lists

Without(u, i) == SubSeq(u, 1, i - 1) \o SubSeq(u, i + 1, Len(u))

\* Taking out the i-th member leaves the others.
LEMMA ListsRemove ==
    ASSUME NEW T, NEW u \in Seq(T), NEW S, NEW i \in DOMAIN u, Lists(u, S)
    PROVE  Without(u, i) \in Seq(T) /\ Lists(Without(u, i), S \ {u[i]})
<1> DEFINE a == SubSeq(u, 1, i - 1)
           b == SubSeq(u, i + 1, Len(u))
           v == Without(u, i)
<1>1. Len(u) \in Nat /\ DOMAIN u = 1 .. Len(u) /\ i \in 1 .. Len(u)
  BY LenProperties
<1>2. /\ a \in Seq(T) /\ Len(a) = i - 1 /\ \A j \in 1 .. (i - 1) : a[j] = u[j]
  BY <1>1, SubSeqProperties
<1>3. /\ b \in Seq(T) /\ Len(b) = Len(u) - i
      /\ \A j \in 1 .. (Len(u) - i) : b[j] = u[i + j]
  BY <1>1, SubSeqProperties
<1>4. /\ v \in Seq(T) /\ Len(v) = Len(u) - 1 /\ DOMAIN v = 1 .. (Len(u) - 1)
      /\ \A j \in 1 .. (Len(u) - 1) : v[j] = IF j < i THEN u[j] ELSE u[j + 1]
  <2>1. v = a \o b BY DEF Without
  <2> HIDE DEF a, b, v
  <2>2. /\ v \in Seq(T) /\ Len(v) = Len(a) + Len(b)
        /\ \A j \in 1 .. (Len(a) + Len(b)) : v[j] = IF j <= Len(a) THEN a[j] ELSE b[j - Len(a)]
    BY <1>2, <1>3, <2>1, ConcatProperties, Zenon
  <2>3. DOMAIN v = 1 .. Len(v) BY <2>2, LenProperties
  <2>4. Len(v) = Len(u) - 1 BY <1>1, <1>2, <1>3, <2>2
  <2>5. ASSUME NEW j \in 1 .. (Len(u) - 1) PROVE v[j] = IF j < i THEN u[j] ELSE u[j + 1]
    <3>1. j \in 1 .. (Len(a) + Len(b)) BY <1>1, <1>2, <1>3
    <3>2. CASE j < i BY <1>1, <1>2, <2>2, <3>1, <3>2
    <3>3. CASE ~(j < i)
      <4>1. v[j] = b[j - Len(a)] BY <1>1, <1>2, <2>2, <3>1, <3>3
      <4>2. j - Len(a) \in 1 .. (Len(u) - i) /\ i + (j - Len(a)) = j + 1
        BY <1>1, <1>2, <3>3
      <4> QED BY <1>3, <3>3, <4>1, <4>2
    <3> QED BY <3>2, <3>3
  <2> QED BY <2>2, <2>3, <2>4, <2>5
<1> HIDE DEF a, b, v
<1>5. Range(v) = S \ {u[i]}
  <2>1. ASSUME NEW x \in Range(v) PROVE x \in S \ {u[i]}
    <3>1. PICK j \in 1 .. (Len(u) - 1) : x = IF j < i THEN u[j] ELSE u[j + 1]
      BY <1>4 DEF Range
    <3> QED BY <1>1, <3>1 DEF Lists, Range, IsInjective
  <2>2. ASSUME NEW x \in S \ {u[i]} PROVE x \in Range(v)
    <3>1. PICK j \in 1 .. Len(u) : x = u[j] /\ j # i
      BY <1>1 DEF Lists, Range
    <3>2. CASE j < i
      <4>1. j \in DOMAIN v /\ v[j] = x BY <1>1, <1>4, <3>1, <3>2
      <4> QED BY <4>1 DEF Range
    <3>3. CASE j > i
      <4>1. j - 1 \in DOMAIN v /\ v[j - 1] = x BY <1>1, <1>4, <3>1, <3>3
      <4> QED BY <4>1 DEF Range
    <3> QED BY <1>1, <3>1, <3>2, <3>3
  <2> QED BY <2>1, <2>2
<1>6. IsInjective(v)
  <2>1. SUFFICES ASSUME NEW x \in 1 .. (Len(u) - 1), NEW y \in 1 .. (Len(u) - 1), v[x] = v[y]
                 PROVE  x = y
    BY <1>4 DEF IsInjective
  <2> DEFINE at(j) == IF j < i THEN j ELSE j + 1
  <2>2. at(x) \in DOMAIN u /\ at(y) \in DOMAIN u /\ u[at(x)] = u[at(y)]
    BY <1>1, <1>4, <2>1
  <2>3. at(x) = at(y) BY <2>2 DEF Lists, IsInjective
  <2> QED BY <1>1, <2>3
<1> QED BY <1>4, <1>5, <1>6 DEF Lists, v

\* Unlink finds the member and takes it out.
LEMMA ListsUnlink ==
    ASSUME NEW T, NEW u \in Seq(T), NEW S, NEW p \in S, Lists(u, S)
    PROVE  Unlink(u, p) \in Seq(T) /\ Lists(Unlink(u, p), S \ {p})
<1> DEFINE i == CHOOSE j \in DOMAIN u : u[j] = p
<1>1. i \in DOMAIN u /\ u[i] = p
  BY Zenon DEF Lists, Range
<1>2. Unlink(u, p) = Without(u, i)
  BY Zenon DEF Unlink, Without
<1> HIDE DEF i
<1>3. Without(u, i) \in Seq(T) /\ Lists(Without(u, i), S \ {u[i]})
  BY <1>1, ListsRemove, Zenon
<1> QED BY <1>1, <1>2, <1>3, Zenon

\* Taking the head leaves the rest.
LEMMA ListsTail ==
    ASSUME NEW T, NEW u \in Seq(T), NEW S, Lists(u, S), u # <<>>
    PROVE  /\ Tail(u) \in Seq(T) /\ Head(u) \in S /\ Head(u) \in T
           /\ Lists(Tail(u), S \ {Head(u)})
<1> DEFINE v == Tail(u)
<1>1. /\ Len(u) \in Nat /\ Len(u) > 0 /\ DOMAIN u = 1 .. Len(u)
      /\ v \in Seq(T) /\ Len(v) = Len(u) - 1 /\ Head(u) = u[1]
      /\ \A i \in 1 .. (Len(u) - 1) : v[i] = u[i + 1]
  BY HeadTailProperties, EmptySeq, LenProperties
<1>2. DOMAIN v = 1 .. (Len(u) - 1)
  BY <1>1, LenProperties
<1> HIDE DEF v
<1>3. IsInjective(v)
  <2> SUFFICES ASSUME NEW i \in 1 .. (Len(u) - 1), NEW j \in 1 .. (Len(u) - 1), v[i] = v[j]
               PROVE  i = j
    BY <1>2 DEF IsInjective
  <2>1. /\ i + 1 \in DOMAIN u /\ j + 1 \in DOMAIN u
        /\ u[i + 1] = u[j + 1] /\ i \in Int /\ j \in Int
    BY <1>1
  <2>2. i + 1 = j + 1 BY <2>1 DEF Lists, IsInjective
  <2> QED BY <2>1, <2>2
<1>4. Range(v) = S \ {u[1]}
  <2>1. ASSUME NEW x \in Range(v) PROVE x \in S \ {u[1]}
    <3>1. PICK j \in 1 .. (Len(u) - 1) : x = u[j + 1]
      BY <1>1, <1>2, Zenon DEF Range
    <3>2. j + 1 \in DOMAIN u /\ 1 \in DOMAIN u /\ j + 1 # 1 BY <1>1
    <3> QED BY <3>1, <3>2, Zenon DEF Lists, Range, IsInjective
  <2>2. ASSUME NEW x \in S \ {u[1]} PROVE x \in Range(v)
    <3>1. PICK j \in 1 .. Len(u) : x = u[j] /\ j # 1
      BY <1>1 DEF Lists, Range
    <3>2. j - 1 \in DOMAIN v /\ v[j - 1] = x BY <1>1, <1>2, <3>1
    <3> QED BY <3>2 DEF Range
  <2> QED BY <2>1, <2>2
<1>5. u[1] \in S /\ u[1] \in T
  BY <1>1 DEF Lists, Range
<1> QED BY <1>1, <1>3, <1>4, <1>5 DEF Lists, v

-----------------------------------------------------------------------------
(* Counting *)

\* Processes are finitely many.
LEMMA Finite ==
    \A S \in SUBSET Procs : IsFiniteSet(S) /\ Cardinality(S) \in Nat
<1>1. IsFiniteSet(Procs)
  <2>1. 1 \in Int /\ NProcs \in Int BY SysAssumption
  <2> QED BY <2>1, FS_Interval, Zenon DEF Procs
<1> QED BY <1>1, FS_Subset, FS_CardinalityType, Zenon

-----------------------------------------------------------------------------
(* Steps that move flags *)

\* t is s with the flags of p set to G, and p in its queue if there are none.
FlagsOnly(s, t, p, G) ==
    /\ t \in KType
    /\ t.p_flags = [s.p_flags EXCEPT ![p] = G]
    /\ t.ready = IF G = {} THEN s.ready \cup {p} ELSE s.ready \ {p}
    /\ t.sig_procs = s.sig_procs /\ t.callerq = s.callerq /\ t.mm = s.mm
    /\ t.p_pending = s.p_pending /\ t.p_pendcount = s.p_pendcount
    /\ t.astray = s.astray

\* That is what Block does in a state where the queues are in step.
LEMMA BlockFlags ==
    ASSUME NEW s \in KType, Queued(s), NEW p \in Procs, NEW F \in SUBSET Flags, F # {}
    PROVE  FlagsOnly(s, Block(s, p, F), p, s.p_flags[p] \cup F)
<1> DEFINE t == Block(s, p, F)
           G == s.p_flags[p] \cup F
<1>1. /\ t \in KType
      /\ t.p_flags = [s.p_flags EXCEPT ![p] = G]
      /\ t.ready = IF s.p_flags[p] = {} THEN s.ready \ {p} ELSE s.ready
      /\ t.sig_procs = s.sig_procs /\ t.callerq = s.callerq /\ t.mm = s.mm
      /\ t.p_pending = s.p_pending /\ t.p_pendcount = s.p_pendcount
      /\ t.astray = s.astray
  BY Zenon DEF Block, KType
<1>2. p \in s.ready <=> s.p_flags[p] = {} BY Zenon DEF Queued
<1>3. G # {} BY Zenon
<1> HIDE DEF t, G
<1>4. t.ready = s.ready \ {p}
  <2>1. CASE s.p_flags[p] = {} BY <1>1, <2>1, Zenon
  <2>2. CASE s.p_flags[p] # {}
    <3>1. s.ready = s.ready \ {p} BY <1>2, <2>2, Zenon
    <3> QED BY <1>1, <2>2, <3>1, Zenon
  <2> QED BY <2>1, <2>2, Zenon
<1>5. FlagsOnly(s, t, p, G) BY <1>1, <1>3, <1>4, Zenon DEF FlagsOnly
<1> QED BY <1>5, Zenon DEF t, G

\* And Unblock.
LEMMA UnblockFlags ==
    ASSUME NEW s \in KType, Queued(s), NEW p \in Procs, NEW F \in SUBSET Flags
    PROVE  FlagsOnly(s, Unblock(s, p, F), p, s.p_flags[p] \ F)
<1> DEFINE t == Unblock(s, p, F)
           G == s.p_flags[p] \ F
<1>1. /\ t \in KType
      /\ t.p_flags = [s.p_flags EXCEPT ![p] = G]
      /\ t.ready = IF G = {} THEN s.ready \cup {p} ELSE s.ready
      /\ t.sig_procs = s.sig_procs /\ t.callerq = s.callerq /\ t.mm = s.mm
      /\ t.p_pending = s.p_pending /\ t.p_pendcount = s.p_pendcount
      /\ t.astray = s.astray
  BY Zenon DEF Unblock, KType
<1>2. G # {} => p \notin s.ready BY Zenon DEF Queued
<1> HIDE DEF t, G
<1>3. G # {} => t.ready = s.ready \ {p}
  <2> SUFFICES ASSUME G # {} PROVE t.ready = s.ready \ {p} OBVIOUS
  <2>1. s.ready = s.ready \ {p} BY <1>2, Zenon
  <2> QED BY <1>1, <2>1, Zenon
<1>4. FlagsOnly(s, t, p, G)
  <2>1. CASE G = {} BY <1>1, <2>1, Zenon DEF FlagsOnly
  <2>2. CASE G # {} BY <1>1, <1>3, <2>2, Zenon DEF FlagsOnly
  <2> QED BY <2>1, <2>2, Zenon
<1> QED BY <1>4, Zenon DEF t, G

\* A process gets or loses flags other than PENDING and SENDING.
LEMMA FlagStep ==
    ASSUME NEW s, NEW t, NEW p \in Procs, NEW G, Inv(s), FlagsOnly(s, t, p, G),
           PENDING \in G <=> PENDING \in s.p_flags[p],
           SENDING \in G <=> SENDING \in s.p_flags[p]
    PROVE  Inv(t)
<1>1. /\ t \in KType
      /\ t.p_flags = [s.p_flags EXCEPT ![p] = G]
      /\ t.ready = IF G = {} THEN s.ready \cup {p} ELSE s.ready \ {p}
      /\ t.sig_procs = s.sig_procs /\ t.callerq = s.callerq
  BY Zenon DEF FlagsOnly
<1>2. /\ s.p_flags \in [Procs -> SUBSET Flags] /\ s.ready \in SUBSET Procs
  BY DEF Inv, KType
<1>3. /\ t.p_flags[p] = G /\ \A q \in Procs \ {p} : t.p_flags[q] = s.p_flags[q]
  BY <1>1, <1>2
<1>4. Pending(t) = Pending(s) /\ Senders(t) = Senders(s)
  BY <1>3 DEF Pending, Senders
<1>5. Queued(t)
  BY <1>1, <1>2, <1>3 DEF Queued, Inv
<1>6. Callers(t) /\ Signalled(t)
  BY <1>1, <1>4, Zenon DEF Callers, Signalled, Inv
<1> QED BY <1>1, <1>5, <1>6, Zenon DEF Inv

\* Blocking a process on a message or a trace keeps the invariant.
LEMMA BlockStep ==
    ASSUME NEW s, Inv(s), NEW p \in Procs, NEW F \in SUBSET {RECEIVING, P_STOP}, F # {}
    PROVE  Inv(Block(s, p, F))
<1> DEFINE G == s.p_flags[p] \cup F
<1>1. s \in KType /\ Queued(s) /\ F \in SUBSET Flags
  BY Zenon DEF Inv, Flags
<1>2. FlagsOnly(s, Block(s, p, F), p, G)
  BY <1>1, BlockFlags, Zenon
<1>3. /\ PENDING \in G <=> PENDING \in s.p_flags[p]
      /\ SENDING \in G <=> SENDING \in s.p_flags[p]
  BY Zenon DEF PENDING, SENDING, RECEIVING, P_STOP
<1> HIDE DEF G
<1> QED BY <1>2, <1>3, FlagStep, Zenon

\* So does taking such a flag, or NO_MAP, or SIG_PENDING.
LEMMA UnblockStep ==
    ASSUME NEW s, Inv(s), NEW p \in Procs,
           NEW F \in SUBSET {RECEIVING, P_STOP, NO_MAP, SIG_PENDING}
    PROVE  Inv(Unblock(s, p, F))
<1> DEFINE G == s.p_flags[p] \ F
<1>1. s \in KType /\ Queued(s) /\ F \in SUBSET Flags
  BY Zenon DEF Inv, Flags
<1>2. FlagsOnly(s, Unblock(s, p, F), p, G)
  BY <1>1, UnblockFlags, Zenon
<1>3. /\ PENDING \in G <=> PENDING \in s.p_flags[p]
      /\ SENDING \in G <=> SENDING \in s.p_flags[p]
  BY Zenon DEF PENDING, SENDING, SIG_PENDING, RECEIVING, P_STOP, NO_MAP
<1> HIDE DEF G
<1> QED BY <1>2, <1>3, FlagStep, Zenon

\* Alarms, pending signals and the state of MM touch neither queue.
LEMMA SameStep ==
    ASSUME NEW s, NEW t \in KType, Inv(s), t.p_flags = s.p_flags, t.ready = s.ready,
           t.sig_procs = s.sig_procs, t.callerq = s.callerq
    PROVE  Inv(t)
<1>1. Pending(t) = Pending(s) /\ Senders(t) = Senders(s)
  BY Zenon DEF Pending, Senders
<1> QED BY <1>1, Zenon DEF Inv, Queued, Callers, Signalled

\* An alarm is set or cleared.
LEMMA AlarmStep ==
    ASSUME NEW s, Kept(s), NEW p \in Procs, NEW b \in BOOLEAN
    PROVE  Kept([s EXCEPT !.p_alarm[p] = b])
<1>1. PICK t : t = [s EXCEPT !.p_alarm[p] = b] BY Zenon
<1>2. s \in KType BY Zenon DEF Kept
<1>3. /\ t \in KType /\ t.p_flags = s.p_flags /\ t.ready = s.ready
      /\ t.sig_procs = s.sig_procs /\ t.callerq = s.callerq /\ t.astray = s.astray
  BY <1>1, <1>2, Zenon DEF KType
<1>4. Kept(t) BY <1>3, SameStep, Zenon DEF Kept
<1> QED BY <1>1, <1>4, Zenon

\* MM gets a request: it no longer waits in receive; or it waits.
LEMMA MMStep ==
    ASSUME NEW s, Inv(s), NEW w \in {"any", "working"}
    PROVE  Inv([s EXCEPT !.mm = w])
<1>1. PICK t : t = [s EXCEPT !.mm = w] BY Zenon
<1>2. s \in KType BY Zenon DEF Inv
<1>3. /\ t \in KType /\ t.p_flags = s.p_flags /\ t.ready = s.ready
      /\ t.sig_procs = s.sig_procs /\ t.callerq = s.callerq
  BY <1>1, <1>2, Zenon DEF KType
<1>4. Inv(t) BY <1>3, SameStep, Zenon
<1> QED BY <1>1, <1>4, Zenon

-----------------------------------------------------------------------------
(* cause_sig *)

\* cause_sig up to its test of MM's state.
LEMMA MarkStep ==
    ASSUME NEW s, Inv(s), NEW p \in Procs, NEW sig \in Signals
    PROVE  Inv(Mark(s, p, sig))
<1>1. s \in KType /\ Queued(s) BY Zenon DEF Inv
<1>2. CASE sig \in s.p_pending[p] BY <1>2, Zenon DEF Mark
<1>3. CASE sig \notin s.p_pending[p]
  <2>1. PICK t : t = [s EXCEPT !.p_pending[p] = @ \cup {sig}, !.p_pendcount[p] = @ + 1] BY Zenon
  <2>2. s.p_pending[p] \cup {sig} \in SUBSET Signals /\ s.p_pendcount[p] + 1 \in Nat
    <3>1. s.p_pending \in [Procs -> SUBSET Signals] /\ s.p_pendcount \in [Procs -> Nat]
      BY <1>1, Zenon DEF KType
    <3> QED BY <3>1
  <2>3. /\ t \in KType /\ t.p_flags = s.p_flags /\ t.ready = s.ready
        /\ t.sig_procs = s.sig_procs /\ t.callerq = s.callerq
    BY <1>1, <2>1, <2>2, Zenon DEF KType
  <2>4. Inv(t) BY <2>3, SameStep, Zenon
  <2>5. CASE PENDING \in s.p_flags[p]
    <3>1. Mark(s, p, sig) = t BY <1>3, <2>1, <2>3, <2>5, Zenon DEF Mark
    <3> QED BY <2>4, <3>1, Zenon
  <2>6. CASE PENDING \notin s.p_flags[p]
    <3> DEFINE F == {PENDING, SIG_PENDING}
               G == t.p_flags[p] \cup F
    <3>1. PICK u : u = Block(t, p, F) BY Zenon
    <3>2. PICK w : w = [u EXCEPT !.sig_procs = @ + 1] BY Zenon
    <3>3. Mark(s, p, sig) = w BY <1>3, <2>1, <2>3, <2>6, <3>1, <3>2, Zenon DEF Mark
    <3>4. FlagsOnly(t, u, p, G)
      <4>1. Queued(t) BY <2>4, Zenon DEF Inv
      <4>2. F \in SUBSET Flags /\ F # {} BY Zenon DEF Flags
      <4> QED BY <2>3, <3>1, <4>1, <4>2, BlockFlags, Zenon
    <3> HIDE DEF F
    <3>5. /\ u \in KType /\ u.p_flags = [t.p_flags EXCEPT ![p] = G]
          /\ u.ready = IF G = {} THEN t.ready \cup {p} ELSE t.ready \ {p}
          /\ u.sig_procs = t.sig_procs /\ u.callerq = t.callerq
      BY <3>4, Zenon DEF FlagsOnly
    <3>6. /\ w.p_flags = u.p_flags /\ w.ready = u.ready /\ w.sig_procs = u.sig_procs + 1
          /\ w.callerq = u.callerq
      BY <3>5, <3>2, Zenon DEF KType
    <3>7. w \in KType
      <4>1. u.sig_procs \in Int BY <3>5, Zenon DEF KType
      <4>2. u.sig_procs + 1 \in Int BY <4>1
      <4> QED BY <3>5, <3>2, <4>2, Zenon DEF KType
    <3>8. /\ w.p_flags[p] = G /\ \A q \in Procs \ {p} : w.p_flags[q] = s.p_flags[q]
      <4>1. t.p_flags \in [Procs -> SUBSET Flags] BY <2>3, Zenon DEF KType
      <4> HIDE DEF G
      <4> QED BY <2>3, <3>5, <3>6, <4>1, ZenonT(60)
    <3>9. /\ PENDING \in G /\ G # {}
          /\ SENDING \in G <=> SENDING \in s.p_flags[p]
      BY <2>3, Zenon DEF F, PENDING, SIG_PENDING, SENDING
    <3> HIDE DEF G
    <3>10. Pending(w) = Pending(s) \cup {p} /\ Senders(w) = Senders(s)
      BY <3>8, <3>9, Zenon DEF Pending, Senders
    <3>11. Signalled(w)
      <4>1. p \notin Pending(s) /\ Pending(s) \in SUBSET Procs BY <2>6, Zenon DEF Pending
      <4>2. IsFiniteSet(Pending(s)) BY <4>1, Finite, Zenon
      <4>3. Cardinality(Pending(s) \cup {p}) = Cardinality(Pending(s)) + 1
        BY <4>1, <4>2, FS_AddElement, Zenon
      <4>4. s.sig_procs = Cardinality(Pending(s)) BY Zenon DEF Inv, Signalled
      <4> QED BY <2>3, <3>5, <3>6, <3>10, <4>3, <4>4, Zenon DEF Signalled
    <3>12. Queued(w)
      <4>1. w.ready = s.ready \ {p} BY <2>3, <3>5, <3>6, <3>9, Zenon
      <4> QED BY <1>1, <3>8, <3>9, <4>1, Zenon DEF Queued
    <3>13. Callers(w)
      BY <2>3, <3>5, <3>6, <3>10, Zenon DEF Callers, Inv
    <3> QED BY <3>3, <3>7, <3>11, <3>12, <3>13, Zenon DEF Inv
  <2> QED BY <2>5, <2>6, Zenon
<1> QED BY <1>2, <1>3, Zenon

\* inform leaves a task that runs under another's name.
LEMMA informStep ==
    ASSUME NEW s \in KType
    PROVE  Kept(inform(s))
<1>1. PICK p : p = Min({q \in Procs : PENDING \in s.p_flags[q]}) BY Zenon
<1>2. PICK t : t = [s EXCEPT !.mm = "working", !.sig_procs = @ - 1, !.p_pending[p] = {},
                            !.p_flags[p] = @ \ {PENDING}, !.astray = TRUE]
  BY Zenon
<1>3. inform(s) = t BY <1>1, <1>2, Zenon DEF inform
<1>4. s.sig_procs - 1 \in Int
  <2>1. s.sig_procs \in Int BY Zenon DEF KType
  <2> QED BY <2>1
<1>5. /\ [s.p_flags EXCEPT ![p] = @ \ {PENDING}] \in [Procs -> SUBSET Flags]
      /\ [s.p_pending EXCEPT ![p] = {}] \in [Procs -> SUBSET Signals]
  <2>1. s.p_flags \in [Procs -> SUBSET Flags] /\ s.p_pending \in [Procs -> SUBSET Signals]
    BY Zenon DEF KType
  <2>2. p \in Procs => s.p_flags[p] \ {PENDING} \in SUBSET Flags BY <2>1, Zenon
  <2> QED BY <2>1, <2>2, Zenon
<1>6. t \in KType /\ t.astray BY <1>2, <1>4, <1>5, Zenon DEF KType
<1> QED BY <1>3, <1>6, Zenon DEF Kept

\* cause_sig: the signal is recorded, and MM is told when it is receiving.
LEMMA cause_sigStep ==
    ASSUME NEW s, Inv(s), NEW p \in Procs, NEW sig \in Signals
    PROVE  Kept(cause_sig(s, p, sig))
<1>1. PICK t : t = Mark(s, p, sig) BY Zenon
<1>2. Inv(t) /\ t \in KType BY <1>1, MarkStep, Zenon DEF Inv
<1>3. CASE Informs(s, p, sig)
  BY <1>1, <1>2, <1>3, informStep, Zenon DEF cause_sig
<1>4. CASE ~Informs(s, p, sig)
  BY <1>1, <1>2, <1>4, Zenon DEF cause_sig, Kept
<1> QED BY <1>3, <1>4, Zenon

-----------------------------------------------------------------------------
(* Handlers *)

\* do_fork: the child starts blocked, with no signal and in no queue.
LEMMA do_forkStep ==
    ASSUME NEW s, Inv(s), NEW r, r.p1 \in Procs, r.p2 \in Procs
    PROVE  Inv(do_fork(s, r))
<1>1. s \in KType BY Zenon DEF Inv
<1>2. CASE ~(s.p_flags[r.p1] = {RECEIVING} /\ s.p_flags[r.p2] = {P_SLOT_FREE})
  BY <1>2, Zenon DEF do_fork
<1>3. CASE s.p_flags[r.p1] = {RECEIVING} /\ s.p_flags[r.p2] = {P_SLOT_FREE}
  <2>1. PICK c : c = r.p2 BY Zenon
  <2>2. PICK t : t = [s EXCEPT !.p_flags[c] = {NO_MAP, RECEIVING}, !.p_pending[c] = {},
                               !.p_pendcount[c] = 0, !.p_alarm[c] = FALSE]
    BY Zenon
  <2>3. do_fork(s, r) = t BY <1>3, <2>1, <2>2, Zenon DEF do_fork
  <2>4. c \in Procs /\ s.p_flags[c] = {P_SLOT_FREE} BY <1>3, <2>1, Zenon
  <2>5. /\ t.p_flags = [s.p_flags EXCEPT ![c] = {NO_MAP, RECEIVING}]
        /\ t.ready = s.ready /\ t.sig_procs = s.sig_procs /\ t.callerq = s.callerq
    BY <1>1, <2>2, Zenon DEF KType
  <2>6. t \in KType
    <3>1. {NO_MAP, RECEIVING} \in SUBSET Flags /\ {} \in SUBSET Signals BY Zenon DEF Flags
    <3>2. 0 \in Nat OBVIOUS
    <3> QED BY <1>1, <2>2, <3>1, <3>2, Zenon DEF KType
  <2>7. /\ t.p_flags[c] = {NO_MAP, RECEIVING}
        /\ \A q \in Procs \ {c} : t.p_flags[q] = s.p_flags[q]
    <3>1. s.p_flags \in [Procs -> SUBSET Flags] BY <1>1, Zenon DEF KType
    <3> QED BY <2>4, <2>5, <3>1, Zenon
  <2>8. /\ PENDING \notin t.p_flags[c] /\ PENDING \notin s.p_flags[c]
        /\ SENDING \notin t.p_flags[c] /\ SENDING \notin s.p_flags[c]
        /\ t.p_flags[c] # {} /\ s.p_flags[c] # {}
    BY <2>4, <2>7, Zenon DEF PENDING, SENDING, P_SLOT_FREE, NO_MAP, RECEIVING
  <2>9. Pending(t) = Pending(s) /\ Senders(t) = Senders(s)
    BY <2>7, <2>8, Zenon DEF Pending, Senders
  <2>10. Queued(t) BY <2>4, <2>5, <2>7, <2>8, Zenon DEF Queued, Inv
  <2>11. Callers(t) /\ Signalled(t)
    BY <2>5, <2>9, Zenon DEF Callers, Signalled, Inv
  <2> QED BY <2>3, <2>6, <2>10, <2>11, Zenon DEF Inv
<1> QED BY <1>2, <1>3, Zenon

\* do_xit: the caller queue, the ready queue and the count forget the process.
LEMMA do_xitStep ==
    ASSUME NEW s, Inv(s), NEW r, r.p1 \in Procs
    PROVE  Inv(do_xit(s, r))
<1>1. PICK p : p = r.p1 BY Zenon
<1> DEFINE F == s.p_flags[p]
           R == IF F = {} THEN s.ready \ {p} ELSE s.ready
           Q == IF SENDING \in F THEN Unlink(s.callerq, p) ELSE s.callerq
           N == IF PENDING \in F THEN s.sig_procs - 1 ELSE s.sig_procs
<1>2. s \in KType /\ p \in Procs BY <1>1, Zenon DEF Inv
<1>3. PICK t : t = [s EXCEPT !.p_flags[p] = {P_SLOT_FREE}, !.ready = R, !.callerq = Q,
                            !.sig_procs = N, !.p_alarm[p] = FALSE, !.p_pending[p] = {},
                            !.p_pendcount[p] = 0]
  BY Zenon
<1>4. do_xit(s, r) = t BY <1>1, <1>3 DEF do_xit
<1>5. Q \in Seq(Procs) /\ Lists(Q, Senders(s) \ {p})
  <2>1. s.callerq \in Seq(Procs) BY <1>2, Zenon DEF KType
  <2>2. Lists(s.callerq, Senders(s)) BY Zenon DEF Inv, Callers
  <2>3. CASE SENDING \notin F
    <3>1. p \notin Senders(s) BY <2>3, Zenon DEF Senders
    <3>2. Senders(s) \ {p} = Senders(s) BY <3>1, Zenon
    <3>3. Q = s.callerq BY <2>3, Zenon
    <3> QED BY <2>1, <2>2, <3>2, <3>3, Zenon
  <2>4. CASE SENDING \in F
    <3>1. p \in Senders(s) BY <1>2, <2>4, Zenon DEF Senders
    <3>2. Q = Unlink(s.callerq, p) BY <2>4, Zenon
    <3> HIDE DEF Q
    <3> QED BY <2>1, <2>2, <3>1, <3>2, ListsUnlink, Zenon
  <2> QED BY <2>3, <2>4, Zenon
<1>6. N \in Int /\ N = Cardinality(Pending(s) \ {p})
  <2>1. Pending(s) \in SUBSET Procs BY Zenon DEF Pending
  <2>2. IsFiniteSet(Pending(s)) BY <2>1, Finite, Zenon
  <2>3. /\ s.sig_procs = Cardinality(Pending(s)) /\ s.sig_procs \in Int
        /\ p \in Pending(s) <=> PENDING \in F
    BY <1>2, Zenon DEF Inv, Signalled, KType, Pending
  <2>4. Cardinality(Pending(s) \ {p})
          = IF p \in Pending(s) THEN Cardinality(Pending(s)) - 1 ELSE Cardinality(Pending(s))
    BY <2>2, FS_RemoveElement, Zenon
  <2> HIDE DEF F
  <2> QED BY <2>3, <2>4
<1>7. R = s.ready \ {p}
  <2>1. p \in s.ready <=> F = {} BY <1>2, Zenon DEF Inv, Queued
  <2>2. CASE F = {} BY <2>2, Zenon
  <2>3. CASE F # {}
    <3>1. s.ready \ {p} = s.ready BY <2>1, <2>3, Zenon
    <3> QED BY <2>3, <3>1, Zenon
  <2> QED BY <2>2, <2>3, Zenon
<1> HIDE DEF F, R, Q, N
<1>8. /\ t.p_flags = [s.p_flags EXCEPT ![p] = {P_SLOT_FREE}]
      /\ t.ready = R /\ t.callerq = Q /\ t.sig_procs = N
  BY <1>2, <1>3, Zenon DEF KType
<1>9. t \in KType
  <2>1. {P_SLOT_FREE} \in SUBSET Flags /\ {} \in SUBSET Signals BY Zenon DEF Flags
  <2>2. 0 \in Nat OBVIOUS
  <2>3. R \in SUBSET Procs BY <1>2, <1>7, Zenon DEF KType
  <2> QED BY <1>2, <1>3, <1>5, <1>6, <2>1, <2>2, <2>3, ZenonT(60) DEF KType
<1>10. /\ t.p_flags[p] = {P_SLOT_FREE}
       /\ \A q \in Procs \ {p} : t.p_flags[q] = s.p_flags[q]
  <2>1. s.p_flags \in [Procs -> SUBSET Flags] BY <1>2, Zenon DEF KType
  <2> QED BY <1>2, <1>8, <2>1, Zenon
<1>11. PENDING \notin t.p_flags[p] /\ SENDING \notin t.p_flags[p] /\ t.p_flags[p] # {}
  BY <1>10, Zenon DEF PENDING, SENDING, P_SLOT_FREE
<1>12. Pending(t) = Pending(s) \ {p} /\ Senders(t) = Senders(s) \ {p}
  BY <1>10, <1>11, Zenon DEF Pending, Senders
<1>13. Queued(t) BY <1>7, <1>8, <1>10, <1>11, Zenon DEF Queued, Inv
<1>14. Callers(t) BY <1>5, <1>8, <1>12, Zenon DEF Callers
<1>15. Signalled(t) BY <1>6, <1>8, <1>12, Zenon DEF Signalled
<1> QED BY <1>4, <1>9, <1>13, <1>14, <1>15, Zenon DEF Inv

\* do_newmap and do_trace.
LEMMA FlagHandlers ==
    ASSUME NEW s, Inv(s), NEW r, r.p1 \in Procs
    PROVE  Inv(do_newmap(s, r)) /\ Inv(Stop(s, r)) /\ Inv(Resume(s, r))
<1>1. Inv(do_newmap(s, r))
  BY UnblockStep, Zenon DEF do_newmap
<1>2. Inv(Stop(s, r)) /\ Inv(Resume(s, r))
  BY BlockStep, UnblockStep, Zenon DEF Stop, Resume
<1> QED BY <1>1, <1>2, Zenon

\* do_exec: the traced program is signalled, then the receive is replaced.
LEMMA do_execStep ==
    ASSUME NEW s, Inv(s), NEW r, r.p1 \in Procs
    PROVE  Kept(do_exec(s, r))
<1>1. CASE s.p_flags[r.p1] \cap {P_SLOT_FREE, SENDING, RECEIVING} # {RECEIVING}
  BY <1>1, Zenon DEF do_exec, Kept, Inv
<1>2. CASE s.p_flags[r.p1] \cap {P_SLOT_FREE, SENDING, RECEIVING} = {RECEIVING}
  <2>1. PICK t : t = IF SIGTRAP \in r.sigs THEN cause_sig(s, r.p1, SIGTRAP) ELSE s BY Zenon
  <2>2. SIGTRAP \in Signals BY Zenon DEF Signals
  <2>3. Kept(t) BY <2>1, <2>2, cause_sigStep, Zenon DEF Kept, Inv
  <2>4. PICK u : u = [t EXCEPT !.p_alarm[r.p1] = FALSE] BY Zenon
  <2>5. Kept(u) BY <2>3, <2>4, AlarmStep, Zenon
  <2>6. PICK w : w = Unblock(u, r.p1, {RECEIVING}) BY Zenon
  <2>7. do_exec(s, r) = w BY <1>2, <2>1, <2>4, <2>6, Zenon DEF do_exec
  <2>8. u \in KType BY <2>5, Zenon DEF Kept
  <2>9. w \in KType /\ w.astray = u.astray
    BY <2>6, <2>8, Zenon DEF Unblock, KType
  <2>10. Inv(u) => Inv(w) BY <2>6, UnblockStep, Zenon
  <2> QED BY <2>5, <2>7, <2>9, <2>10, Zenon DEF Kept
<1> QED BY <1>1, <1>2, Zenon

\* do_endsig: one signal less, and the flag goes with the last.
LEMMA do_endsigStep ==
    ASSUME NEW s, Inv(s), NEW r, r.p1 \in Procs
    PROVE  Inv(do_endsig(s, r))
<1>1. PICK p : p = r.p1 BY Zenon
<1>2. PICK n : n = s.p_pendcount[p] BY Zenon
<1>3. PICK u : u = [s EXCEPT !.p_pendcount[p] = n - 1] BY Zenon
<1>4. s \in KType /\ p \in Procs BY <1>1, Zenon DEF Inv
<1>5. n \in Nat
  <2>1. s.p_pendcount \in [Procs -> Nat] BY <1>4, Zenon DEF KType
  <2> QED BY <1>2, <1>4, <2>1, Zenon
<1>6. CASE n = 0
  <2>1. do_endsig(s, r) = s BY <1>1, <1>2, <1>6 DEF do_endsig
  <2> QED BY <2>1, Zenon
<1>7. CASE n # 0
  <2>1. n - 1 \in Nat BY <1>5, <1>7
  <2>2. /\ u \in KType /\ u.p_flags = s.p_flags /\ u.ready = s.ready
        /\ u.sig_procs = s.sig_procs /\ u.callerq = s.callerq
    BY <1>3, <1>4, <2>1, Zenon DEF KType
  <2>3. Inv(u) BY <2>2, SameStep, Zenon
  <2>4. Inv(Unblock(u, p, {SIG_PENDING})) BY <1>4, <2>3, UnblockStep, Zenon
  <2>5. CASE n = 1
    <3>1. n # 0 /\ ~(n > 1) BY <2>5
    <3>2. do_endsig(s, r) = Unblock(u, p, {SIG_PENDING})
      BY <1>1, <1>2, <1>3, <2>5, <3>1, Zenon DEF do_endsig
    <3> QED BY <2>4, <3>2, Zenon
  <2>6. CASE n > 1
    <3>1. n # 0 /\ n # 1 BY <1>5, <2>6
    <3>2. do_endsig(s, r) = u
      BY <1>1, <1>2, <1>3, <2>6, <3>1, Zenon DEF do_endsig
    <3> QED BY <2>3, <3>2, Zenon
  <2> QED BY <1>5, <1>7, <2>5, <2>6
<1> QED BY <1>6, <1>7, Zenon

\* The dispatch of sys_task.
LEMMA DispatchStep ==
    ASSUME NEW s, Inv(s), NEW r \in Request
    PROVE  Kept(Dispatch(s, r))
<1>1. /\ r.p1 \in Procs /\ r.type \in AllRequests /\ r.sigs \in SUBSET Signals
      /\ r.type = SYS_FORK => r.p2 \in Procs
      /\ r.type = SYS_KILL => r.sigs # {}
  BY Zenon DEF Request, Message
<1>2. \A t : Inv(t) => Kept(t) BY Zenon DEF Kept, Inv
<1>3. /\ \A x \in {SYS_FORK, SYS_NEWMAP, SYS_EXEC, SYS_XIT, SYS_KILL, SYS_ENDSIG, T_STOP, T_RESUME} :
            x \notin Queries
      /\ SYS_FORK \notin {SYS_NEWMAP, SYS_EXEC, SYS_XIT, SYS_KILL, SYS_ENDSIG, T_STOP, T_RESUME}
      /\ SYS_NEWMAP \notin {SYS_FORK, SYS_EXEC, SYS_XIT, SYS_KILL, SYS_ENDSIG, T_STOP, T_RESUME}
      /\ SYS_EXEC \notin {SYS_FORK, SYS_NEWMAP, SYS_XIT, SYS_KILL, SYS_ENDSIG, T_STOP, T_RESUME}
      /\ SYS_XIT \notin {SYS_FORK, SYS_NEWMAP, SYS_EXEC, SYS_KILL, SYS_ENDSIG, T_STOP, T_RESUME}
      /\ SYS_KILL \notin {SYS_FORK, SYS_NEWMAP, SYS_EXEC, SYS_XIT, SYS_ENDSIG, T_STOP, T_RESUME}
      /\ SYS_ENDSIG \notin {SYS_FORK, SYS_NEWMAP, SYS_EXEC, SYS_XIT, SYS_KILL, T_STOP, T_RESUME}
      /\ T_STOP \notin {SYS_FORK, SYS_NEWMAP, SYS_EXEC, SYS_XIT, SYS_KILL, SYS_ENDSIG, T_RESUME}
      /\ T_RESUME \notin {SYS_FORK, SYS_NEWMAP, SYS_EXEC, SYS_XIT, SYS_KILL, SYS_ENDSIG, T_STOP}
  BY DEF Queries, SYS_FORK, SYS_NEWMAP, SYS_EXEC, SYS_XIT, SYS_KILL, SYS_ENDSIG, T_STOP,
         T_RESUME, SYS_GETSP, SYS_TIMES
<1>4. CASE r.type \in Queries
  <2>1. Dispatch(s, r) = s BY <1>3, <1>4, Zenon DEF Dispatch
  <2> QED BY <1>2, <2>1, Zenon
<1>5. CASE r.type = SYS_FORK
  <2>1. Dispatch(s, r) = do_fork(s, r) BY <1>3, <1>5, Zenon DEF Dispatch
  <2> QED BY <1>1, <1>2, <1>5, <2>1, do_forkStep, Zenon
<1>6. CASE r.type = SYS_NEWMAP
  <2>1. Dispatch(s, r) = do_newmap(s, r) BY <1>3, <1>6, Zenon DEF Dispatch
  <2> QED BY <1>1, <1>2, <2>1, FlagHandlers, Zenon
<1>7. CASE r.type = SYS_EXEC
  <2>1. Dispatch(s, r) = do_exec(s, r) BY <1>3, <1>7, Zenon DEF Dispatch
  <2> QED BY <1>1, <2>1, do_execStep, Zenon
<1>8. CASE r.type = SYS_XIT
  <2>1. Dispatch(s, r) = do_xit(s, r) BY <1>3, <1>8, Zenon DEF Dispatch
  <2> QED BY <1>1, <1>2, <2>1, do_xitStep, Zenon
<1>9. CASE r.type = SYS_KILL
  <2>1. PICK sig : sig = CHOOSE x \in r.sigs : TRUE BY Zenon
  <2>2. sig \in Signals BY <1>1, <1>9, <2>1, Zenon
  <2>3. Dispatch(s, r) = cause_sig(s, r.p1, sig) BY <1>3, <1>9, <2>1, Zenon DEF Dispatch, do_kill
  <2> QED BY <1>1, <2>2, <2>3, cause_sigStep, Zenon
<1>10. CASE r.type = SYS_ENDSIG
  <2>1. Dispatch(s, r) = do_endsig(s, r) BY <1>3, <1>10, Zenon DEF Dispatch
  <2> QED BY <1>1, <1>2, <2>1, do_endsigStep, Zenon
<1>11. CASE r.type = T_STOP
  <2>1. Dispatch(s, r) = Stop(s, r) BY <1>3, <1>11, Zenon DEF Dispatch
  <2> QED BY <1>1, <1>2, <2>1, FlagHandlers, Zenon
<1>12. CASE r.type = T_RESUME
  <2>1. Dispatch(s, r) = Resume(s, r) BY <1>3, <1>12, Zenon DEF Dispatch
  <2> QED BY <1>1, <1>2, <2>1, FlagHandlers, Zenon
<1> QED BY <1>1, <1>4, <1>5, <1>6, <1>7, <1>8, <1>9, <1>10, <1>11, <1>12, Zenon DEF AllRequests

-----------------------------------------------------------------------------
(* The actions *)

\* A step that leaves t, or a wreck, and keeps the requests in order.
LEMMA WriteStep ==
    ASSUME NEW X, NEW U, NEW t, Kept(t), Writes(X, U, t), Requests'
    PROVE  IInv'
<1>1. torn' \/ k' = t BY Zenon DEF Writes
<1>2. Intact' => k' = t /\ ~t.astray BY <1>1, Zenon DEF Intact
<1> QED BY <1>2, Zenon DEF IInv, Kept

\* The requests and the alarm being served stay as they are.
LEMMA SameRequests ==
    ASSUME Requests, UNCHANGED <<sys, asked, clock>>
    PROVE  Requests'
<1>1. sys' = sys /\ asked' = asked /\ clock' = clock OBVIOUS
<1> QED BY <1>1, Zenon DEF Requests

\* A process calls MM, which takes the request or queues the caller.
LEMMA CallMMStep ==
    ASSUME Requests, Inv(k), NEW p \in Procs, CallMM(p)
    PROVE  IInv'
<1>1. k \in KType /\ Queued(k) /\ Callers(k) BY Zenon DEF Inv
<1>2. p \in k.ready /\ UNCHANGED <<sys, asked, clock>> BY Zenon DEF CallMM
<1>3. k.p_flags[p] = {} BY <1>1, <1>2, Zenon DEF Queued
<1>4. Requests' BY <1>2, SameRequests, Zenon
<1>5. PICK t : t = IF MMFree(k)
                   THEN [Block(k, p, {RECEIVING}) EXCEPT !.mm = "working"]
                   ELSE [Block(k, p, {SENDING, RECEIVING}) EXCEPT !.callerq = Append(@, p)]
  BY Zenon
<1>6. Writes({p, MMSlot}, SysUses \cup ClockUses, t) BY <1>5, Zenon DEF CallMM
<1>7. SUFFICES Inv(t) BY <1>4, <1>6, WriteStep, Zenon DEF Kept, Inv
<1>8. CASE MMFree(k)
  <2>1. Inv(Block(k, p, {RECEIVING})) BY BlockStep, Zenon
  <2>2. t = [Block(k, p, {RECEIVING}) EXCEPT !.mm = "working"] BY <1>5, <1>8, Zenon
  <2> QED BY <2>1, <2>2, MMStep, Zenon
<1>9. CASE ~MMFree(k)
  <2> DEFINE F == {SENDING, RECEIVING}
             G == k.p_flags[p] \cup F
  <2>1. PICK u : u = Block(k, p, F) BY Zenon
  <2>2. t = [u EXCEPT !.callerq = Append(@, p)] BY <1>5, <1>9, <2>1, Zenon
  <2>3. FlagsOnly(k, u, p, G)
    <3>1. F \in SUBSET Flags /\ F # {} BY Zenon DEF Flags
    <3> HIDE DEF F
    <3> QED BY <1>1, <2>1, <3>1, BlockFlags, Zenon
  <2>4. /\ u \in KType /\ u.p_flags = [k.p_flags EXCEPT ![p] = G]
        /\ u.ready = IF G = {} THEN k.ready \cup {p} ELSE k.ready \ {p}
        /\ u.sig_procs = k.sig_procs /\ u.callerq = k.callerq
    BY <2>3, Zenon DEF FlagsOnly
  <2>5. p \notin Senders(k) BY <1>3, Zenon DEF Senders
  <2>6. Append(k.callerq, p) \in Seq(Procs) /\ Lists(Append(k.callerq, p), Senders(k) \cup {p})
    <3>1. k.callerq \in Seq(Procs) BY <1>1, Zenon DEF KType
    <3>2. Lists(k.callerq, Senders(k)) BY <1>1, Zenon DEF Callers
    <3> QED BY <2>5, <3>1, <3>2, ListsAppend, Zenon
  <2>7. /\ t \in KType /\ t.p_flags = u.p_flags /\ t.ready = u.ready
        /\ t.sig_procs = u.sig_procs /\ t.callerq = Append(k.callerq, p)
    BY <2>2, <2>4, <2>6, Zenon DEF KType
  <2>8. /\ SENDING \in G /\ PENDING \notin G /\ G # {} /\ PENDING \notin k.p_flags[p]
    BY <1>3, Zenon DEF SENDING, RECEIVING, PENDING
  <2> HIDE DEF F, G
  <2>9. /\ t.p_flags[p] = G /\ \A q \in Procs \ {p} : t.p_flags[q] = k.p_flags[q]
    <3>1. k.p_flags \in [Procs -> SUBSET Flags] BY <1>1, Zenon DEF KType
    <3> QED BY <2>4, <2>7, <3>1, Zenon
  <2>10. Pending(t) = Pending(k) /\ Senders(t) = Senders(k) \cup {p}
    BY <2>8, <2>9, Zenon DEF Pending, Senders
  <2>11. Queued(t)
    <3>1. t.ready = k.ready \ {p} BY <2>4, <2>7, <2>8, Zenon
    <3> QED BY <1>1, <2>8, <2>9, <3>1, Zenon DEF Queued
  <2>12. Callers(t) BY <2>6, <2>7, <2>10, Zenon DEF Callers
  <2>13. Signalled(t) BY <2>4, <2>7, <2>10, Zenon DEF Inv, Signalled
  <2> QED BY <2>7, <2>11, <2>12, <2>13, Zenon DEF Inv
<1> QED BY <1>8, <1>9, Zenon

\* MM takes the first caller, or waits when there is none.
LEMMA MMReceivesStep ==
    ASSUME Requests, Inv(k), MMReceives
    PROVE  IInv'
<1>1. k \in KType /\ Queued(k) /\ Callers(k) BY Zenon DEF Inv
<1>2. Requests'
  <2>1. UNCHANGED <<sys, asked, clock>> BY Zenon DEF MMReceives
  <2> QED BY <2>1, SameRequests, Zenon
<1>3. PICK t : t = IF k.callerq = <<>> THEN [k EXCEPT !.mm = "any"]
                   ELSE Unblock([k EXCEPT !.callerq = Tail(@)], Head(k.callerq), {SENDING})
  BY Zenon
<1>4. PICK X, U : Writes(X, U, t) BY <1>3, Zenon DEF MMReceives
<1>5. SUFFICES Inv(t) BY <1>2, <1>4, WriteStep, Zenon DEF Kept, Inv
<1>6. CASE k.callerq = <<>>
  <2>1. t = [k EXCEPT !.mm = "any"] BY <1>3, <1>6, Zenon
  <2> QED BY <2>1, MMStep, Zenon
<1>7. CASE k.callerq # <<>>
  <2>1. PICK h : h = Head(k.callerq) BY Zenon
  <2>2. k.callerq \in Seq(Procs) /\ Lists(k.callerq, Senders(k))
    BY <1>1, Zenon DEF KType, Callers
  <2>3. /\ Tail(k.callerq) \in Seq(Procs) /\ h \in Senders(k) /\ h \in Procs
        /\ Lists(Tail(k.callerq), Senders(k) \ {h})
    BY <1>7, <2>1, <2>2, ListsTail, Zenon
  <2>4. PICK u : u = [k EXCEPT !.callerq = Tail(@)] BY Zenon
  <2>5. /\ u \in KType /\ u.p_flags = k.p_flags /\ u.ready = k.ready
        /\ u.sig_procs = k.sig_procs /\ u.callerq = Tail(k.callerq)
    BY <1>1, <2>3, <2>4, Zenon DEF KType
  <2> DEFINE G == u.p_flags[h] \ {SENDING}
  <2>6. t = Unblock(u, h, {SENDING}) BY <1>3, <1>7, <2>1, <2>4, Zenon
  <2>7. FlagsOnly(u, t, h, G)
    <3>1. Queued(u) BY <1>1, <2>5, Zenon DEF Queued
    <3>2. {SENDING} \in SUBSET Flags BY Zenon DEF Flags
    <3> QED BY <2>3, <2>5, <2>6, <3>1, <3>2, UnblockFlags, Zenon
  <2>8. /\ t \in KType /\ t.p_flags = [u.p_flags EXCEPT ![h] = G]
        /\ t.ready = IF G = {} THEN u.ready \cup {h} ELSE u.ready \ {h}
        /\ t.sig_procs = u.sig_procs /\ t.callerq = u.callerq
    BY <2>7, Zenon DEF FlagsOnly
  <2>9. (PENDING \in G <=> PENDING \in k.p_flags[h]) /\ SENDING \notin G
    BY <2>5, Zenon DEF PENDING, SENDING
  <2> HIDE DEF G
  <2>10. /\ t.p_flags[h] = G /\ \A q \in Procs \ {h} : t.p_flags[q] = k.p_flags[q]
    <3>1. k.p_flags \in [Procs -> SUBSET Flags] BY <1>1, Zenon DEF KType
    <3> QED BY <2>3, <2>5, <2>8, <3>1, Zenon
  <2>11. Pending(t) = Pending(k) /\ Senders(t) = Senders(k) \ {h}
    <3>1. \A q \in Procs : /\ PENDING \in t.p_flags[q] <=> PENDING \in k.p_flags[q]
                           /\ SENDING \in t.p_flags[q] <=> SENDING \in k.p_flags[q] /\ q # h
      BY <2>9, <2>10, Zenon
    <3> QED BY <3>1, Zenon DEF Pending, Senders
  <2>12. Queued(t)
    <3> SUFFICES ASSUME NEW q \in Procs PROVE q \in t.ready <=> t.p_flags[q] = {}
      BY Zenon DEF Queued
    <3>1. q \in k.ready <=> k.p_flags[q] = {} BY <1>1, Zenon DEF Queued
    <3>2. CASE q = h BY <2>5, <2>8, <2>10, <3>2, Zenon
    <3>3. CASE q # h BY <2>5, <2>8, <2>10, <3>1, <3>3, Zenon
    <3> QED BY <3>2, <3>3, Zenon
  <2>13. Callers(t) BY <2>3, <2>5, <2>8, <2>11, Zenon DEF Callers
  <2>14. Signalled(t) BY <2>5, <2>8, <2>11, Zenon DEF Inv, Signalled
  <2> QED BY <2>8, <2>12, <2>13, <2>14, Zenon DEF Inv
<1> QED BY <1>6, <1>7, Zenon

\* A process sets an alarm; MM answers a process.
LEMMA UserStep ==
    ASSUME Requests, Inv(k), NEW p \in Procs, SetAlarm(p) \/ MMReplies(p)
    PROVE  IInv'
<1>1. Requests'
  <2>1. UNCHANGED <<sys, asked, clock>> BY Zenon DEF SetAlarm, MMReplies
  <2> QED BY <2>1, SameRequests, Zenon
<1>2. Kept(k) BY Zenon DEF Kept, Inv
<1>3. CASE SetAlarm(p)
  <2>1. Kept([k EXCEPT !.p_alarm[p] = TRUE]) BY <1>2, AlarmStep, Zenon
  <2>2. Writes({p}, SysUses, [k EXCEPT !.p_alarm[p] = TRUE]) BY <1>3, Zenon DEF SetAlarm
  <2> QED BY <1>1, <2>1, <2>2, WriteStep, Zenon
<1>4. CASE MMReplies(p)
  <2>1. Inv(Unblock(k, p, {RECEIVING})) BY UnblockStep, Zenon
  <2>2. Kept(Unblock(k, p, {RECEIVING})) BY <2>1, Zenon DEF Kept, Inv
  <2>3. Writes({p}, SysUses \cup ClockUses, Unblock(k, p, {RECEIVING}))
    BY <1>4, Zenon DEF MMReplies
  <2> QED BY <1>1, <2>2, <2>3, WriteStep, Zenon
<1> QED BY <1>3, <1>4, Zenon

\* CLOCK takes up an expired alarm, and signals the process.
LEMMA ClockStep ==
    ASSUME Requests, Inv(k), ClockSignals \/ \E p \in Procs : ClockExpires(p)
    PROVE  IInv'
<1>1. clock' \in Procs \cup {0} /\ sys' = sys /\ asked' = asked
  BY Zenon DEF ClockSignals, ClockExpires
<1>2. Requests' BY <1>1, Zenon DEF Requests
<1>3. CASE ClockSignals
  <2>1. clock \in Procs BY <1>3, Zenon DEF ClockSignals, Requests
  <2>2. SIGALRM \in Signals BY Zenon DEF Signals
  <2>3. PICK s : s = cause_sig(k, clock, SIGALRM) BY Zenon
  <2>4. Kept(s) BY <2>1, <2>2, <2>3, cause_sigStep, Zenon
  <2>5. PICK t : t = [s EXCEPT !.p_alarm[clock] = FALSE] BY Zenon
  <2>6. Kept(t) BY <2>1, <2>4, <2>5, AlarmStep, Zenon
  <2>7. Writes(ClockUses, SysUses, t) BY <1>3, <2>3, <2>5, Zenon DEF ClockSignals
  <2> QED BY <1>2, <2>6, <2>7, WriteStep, Zenon
<1>4. CASE \E p \in Procs : ClockExpires(p)
  <2>1. k' = k BY <1>4, Zenon DEF ClockExpires
  <2> QED BY <1>2, <2>1, Zenon DEF IInv
<1> QED BY <1>3, <1>4, Zenon

\* A client asks for something.
LEMMA ClientStep ==
    ASSUME Requests, Inv(k), NEW p \in Procs, MMAsks(p) \/ FSAsks(p)
    PROVE  IInv'
<1>1. PICK c \in Clients, type \in AllRequests, p2 \in Procs \cup {0}, sigs \in SUBSET Signals :
        /\ Ask(c, type, p, p2, sigs)
        /\ type = SYS_FORK => p2 \in Procs
        /\ type = SYS_KILL => sigs # {}
  <2>1. /\ MM \in Clients /\ FS \in Clients
        /\ 0 \in Procs \cup {0} /\ {} \in SUBSET Signals
        /\ {SIGTRAP} \in SUBSET Signals /\ {SIGINT} \in SUBSET Signals /\ {SIGINT} # {}
    BY Zenon DEF Clients, Signals
  <2>2. /\ {SYS_FORK, SYS_NEWMAP, SYS_EXEC, SYS_XIT, SYS_KILL, SYS_ENDSIG, T_STOP, T_RESUME}
              \subseteq AllRequests
        /\ Queries \subseteq AllRequests
    BY Zenon DEF AllRequests
  <2>3. /\ \A type \in {SYS_NEWMAP, SYS_EXEC, SYS_XIT, SYS_ENDSIG, T_STOP, T_RESUME} :
              type # SYS_FORK /\ type # SYS_KILL
        /\ SYS_FORK # SYS_KILL /\ SYS_KILL # SYS_FORK
        /\ \A type \in Queries : type # SYS_FORK /\ type # SYS_KILL
    BY DEF SYS_NEWMAP, SYS_EXEC, SYS_XIT, T_STOP, T_RESUME, SYS_FORK, SYS_KILL, SYS_ENDSIG,
           Queries, SYS_GETSP, SYS_TIMES
  <2>4. CASE MMAsks(p)
    <3>1. \/ Ask(MM, SYS_XIT, p, 0, {})
          \/ \E child \in Procs \ {p} : Ask(MM, SYS_FORK, p, child, {})
          \/ \E type \in {SYS_NEWMAP, SYS_ENDSIG, T_STOP, T_RESUME} : Ask(MM, type, p, 0, {})
          \/ \E traced \in {{}, {SIGTRAP}} : Ask(MM, SYS_EXEC, p, 0, traced)
      BY <2>4, Zenon DEF MMAsks
    <3>2. CASE Ask(MM, SYS_XIT, p, 0, {}) BY <2>1, <2>2, <2>3, <3>2, Zenon
    <3>3. CASE \E child \in Procs \ {p} : Ask(MM, SYS_FORK, p, child, {})
      <4>1. PICK child \in Procs \ {p} : Ask(MM, SYS_FORK, p, child, {}) BY <3>3
      <4>2. child \in Procs \cup {0} BY Zenon
      <4> QED BY <2>1, <2>2, <2>3, <4>1, <4>2, Zenon
    <3>4. CASE \E type \in {SYS_NEWMAP, SYS_ENDSIG, T_STOP, T_RESUME} : Ask(MM, type, p, 0, {})
      <4>1. PICK type \in {SYS_NEWMAP, SYS_ENDSIG, T_STOP, T_RESUME} : Ask(MM, type, p, 0, {})
        BY <3>4
      <4>2. type \in AllRequests /\ type # SYS_FORK /\ type # SYS_KILL
        BY <2>2, <2>3, Zenon
      <4> QED BY <2>1, <4>1, <4>2, Zenon
    <3>5. CASE \E traced \in {{}, {SIGTRAP}} : Ask(MM, SYS_EXEC, p, 0, traced)
      <4>1. PICK traced \in {{}, {SIGTRAP}} : Ask(MM, SYS_EXEC, p, 0, traced) BY <3>5
      <4>2. traced \in SUBSET Signals BY <2>1, Zenon
      <4> QED BY <2>1, <2>2, <2>3, <4>1, <4>2, Zenon
    <3> QED BY <3>1, <3>2, <3>3, <3>4, <3>5, Zenon
  <2>5. CASE FSAsks(p)
    <3>1. \/ Ask(FS, SYS_KILL, p, 0, {SIGINT}) \/ \E type \in Queries : Ask(FS, type, p, 0, {})
      BY <2>5, Zenon DEF FSAsks
    <3>2. CASE Ask(FS, SYS_KILL, p, 0, {SIGINT}) BY <2>1, <2>2, <2>3, <3>2, Zenon
    <3>3. CASE \E type \in Queries : Ask(FS, type, p, 0, {})
      <4>1. PICK type \in Queries : Ask(FS, type, p, 0, {}) BY <3>3
      <4>2. type \in AllRequests /\ type # SYS_FORK /\ type # SYS_KILL BY <2>2, <2>3, Zenon
      <4> QED BY <2>1, <4>1, <4>2, Zenon
    <3> QED BY <3>1, <3>2, <3>3, Zenon
  <2> QED BY <2>4, <2>5, Zenon
<1>2. PICK r : r = [type |-> type, p1 |-> p, p2 |-> p2, sigs |-> sigs] BY Zenon
<1>3. r.type = type /\ r.p1 = p /\ r.p2 = p2 /\ r.sigs = sigs BY <1>2
<1>4. r \in Message BY <1>2, Zenon DEF Message
<1>5. r \in Request BY <1>1, <1>3, <1>4, Zenon DEF Request
<1>6. /\ asked[c] = None /\ asked' = [asked EXCEPT ![c] = r] /\ k' = k /\ sys' = sys
      /\ clock' = clock
  BY <1>1, <1>2, Zenon DEF Ask
<1>7. asked \in [Clients -> Message] BY Zenon DEF Requests
<1>8. /\ asked'[c] = r /\ \A d \in Clients \ {c} : asked'[d] = asked[d]
      /\ asked' \in [Clients -> Message]
  BY <1>4, <1>6, <1>7, Zenon
<1>9. \A d \in Clients : asked'[d] # None => asked'[d] \in Request
  BY <1>5, <1>8, Zenon DEF Requests
<1>10. sys' # "receiving" => asked'[sys'] # None
  <2> SUFFICES ASSUME sys # "receiving" PROVE asked'[sys] # None BY <1>6, Zenon
  <2>1. sys \in Clients /\ asked[sys] # None BY Zenon DEF Requests
  <2>2. sys # c BY <1>6, <2>1, Zenon
  <2> QED BY <1>8, <2>1, <2>2, Zenon
<1>11. Requests' BY <1>6, <1>8, <1>9, <1>10, Zenon DEF Requests
<1> QED BY <1>6, <1>11, Zenon DEF IInv

\* SYS takes up a request; SYS is done with it, and replies.
LEMMA SysStep ==
    ASSUME Requests, Inv(k), SysServes \/ \E c \in Clients : SysReceives(c)
    PROVE  IInv'
<1>1. CASE \E c \in Clients : SysReceives(c)
  <2>1. PICK c \in Clients : SysReceives(c) BY <1>1
  <2>2. asked[c] # None /\ sys' = c /\ asked' = asked /\ clock' = clock /\ k' = k
    BY <2>1, Zenon DEF SysReceives
  <2>3. Requests' BY <2>2, Zenon DEF Requests
  <2> QED BY <2>2, <2>3, Zenon DEF IInv
<1>2. CASE SysServes
  <2>1. PICK r : r = asked[sys] BY Zenon
  <2>2. sys \in Clients /\ r \in Request
    BY <1>2, <2>1, Zenon DEF SysServes, Requests
  <2>3. Kept(Dispatch(k, r)) BY <2>2, DispatchStep, Zenon
  <2>4. PICK X, U : Writes(X, U, Dispatch(k, r)) BY <1>2, <2>1, Zenon DEF SysServes
  <2>5. asked' = [asked EXCEPT ![sys] = None] /\ sys' = "receiving" /\ clock' = clock
    BY <1>2, Zenon DEF SysServes
  <2>6. None \in Message BY Zenon DEF None, Message
  <2>7. asked \in [Clients -> Message] BY Zenon DEF Requests
  <2>8. /\ asked'[sys] = None /\ asked' \in [Clients -> Message]
        /\ \A d \in Clients \ {sys} : asked'[d] = asked[d]
    BY <2>2, <2>5, <2>6, <2>7, Zenon
  <2>9. \A d \in Clients : asked'[d] # None => asked'[d] \in Request
    BY <2>8, Zenon DEF Requests
  <2>10. Requests' BY <2>5, <2>8, <2>9, Zenon DEF Requests
  <2> QED BY <2>3, <2>4, <2>10, WriteStep, Zenon
<1> QED BY <1>1, <1>2, Zenon

-----------------------------------------------------------------------------
(* Theorems *)

\* The invariant of the system task holds from the start, one running process
\* with no flags, and is kept by every request SYS serves, every call and
\* receive of MM, and every signal CLOCK raises, until there is a data race or
\* MM is told of a signal.
THEOREM Invariance == Spec => []IInv
<1>1. Init => IInv
  <2> SUFFICES ASSUME Init PROVE IInv OBVIOUS
  <2>1. 1 \in Procs BY SysAssumption DEF Procs
  <2> DEFINE F == [p \in Procs |-> IF p = 1 THEN {} ELSE {P_SLOT_FREE}]
  <2>2. k = [p_flags |-> F, p_pending |-> [p \in Procs |-> {}],
             p_pendcount |-> [p \in Procs |-> 0], p_alarm |-> [p \in Procs |-> FALSE],
             ready |-> {1}, sig_procs |-> 0, callerq |-> <<>>,
             mm |-> "any", astray |-> FALSE]
    BY Zenon DEF Init
  <2>3. /\ F[1] = {} /\ \A p \in Procs \ {1} : F[p] = {P_SLOT_FREE}
        /\ F \in [Procs -> SUBSET Flags]
    BY <2>1, Zenon DEF Flags
  <2> HIDE DEF F
  <2>4. k.p_flags = F /\ k.ready = {1} /\ k.sig_procs = 0 /\ k.callerq = <<>>
    BY <2>2
  <2>5. k \in KType
    <3>1. 0 \in Nat /\ 0 \in Int OBVIOUS
    <3>2. <<>> \in Seq(Procs) BY EmptySeq, Zenon
    <3> QED BY <2>1, <2>2, <2>3, <3>1, <3>2, Zenon DEF KType
  <2>6. \A p \in Procs : PENDING \notin k.p_flags[p] /\ SENDING \notin k.p_flags[p]
    BY <2>3, <2>4 DEF PENDING, SENDING, P_SLOT_FREE
  <2>7. Pending(k) = {} /\ Senders(k) = {} BY <2>6, Zenon DEF Pending, Senders
  <2>8. Queued(k)
    <3> SUFFICES ASSUME NEW p \in Procs PROVE p \in k.ready <=> k.p_flags[p] = {}
      BY Zenon DEF Queued
    <3>1. CASE p = 1 BY <2>3, <2>4, <3>1, Zenon
    <3>2. CASE p # 1
      <4>1. k.p_flags[p] = {P_SLOT_FREE} /\ p \notin k.ready BY <2>3, <2>4, <3>2, Zenon
      <4> QED BY <4>1, Zenon
    <3> QED BY <3>1, <3>2, Zenon
  <2>9. Callers(k)
    <3>1. Lists(<<>>, {}) BY DEF Lists, IsInjective, Range
    <3> QED BY <2>4, <2>7, <3>1, Zenon DEF Callers
  <2>10. Signalled(k) BY <2>4, <2>7, FS_EmptySet, Zenon DEF Signalled
  <2>11. Inv(k) BY <2>5, <2>8, <2>9, <2>10, Zenon DEF Inv
  <2>12. asked = [c \in Clients |-> None] /\ sys = "receiving" /\ clock = 0
    BY Zenon DEF Init
  <2>13. None \in Message BY Zenon DEF None, Message
  <2>14. asked \in [Clients -> Message] /\ \A c \in Clients : asked[c] = None
    BY <2>12, <2>13, Zenon
  <2>15. Requests BY <2>12, <2>14, Zenon DEF Requests
  <2> QED BY <2>11, <2>15, Zenon DEF IInv
<1>2. IInv /\ [Next]_vars => IInv'
  <2> SUFFICES ASSUME IInv, [Next]_vars PROVE IInv' OBVIOUS
  <2>1. Requests BY Zenon DEF IInv
  <2>2. CASE UNCHANGED vars
    <3>1. k' = k /\ torn' = torn /\ asked' = asked /\ sys' = sys /\ clock' = clock
      BY <2>2, Zenon DEF vars
    <3> QED BY <3>1, Zenon DEF IInv, Requests, Intact
  <2>3. CASE Intact /\ Next
    <3>1. Inv(k) BY <2>3, Zenon DEF IInv
    <3>2. \/ SysServes \/ (\E c \in Clients : SysReceives(c))
          \/ ClockSignals \/ (\E p \in Procs : ClockExpires(p))
          \/ MMReceives \/ TickTears
          \/ \E p \in Procs : \/ CallMM(p) \/ (SetAlarm(p) \/ MMReplies(p))
                              \/ (MMAsks(p) \/ FSAsks(p))
      BY <2>3, Zenon DEF Next
    <3>3. CASE SysServes \/ \E c \in Clients : SysReceives(c)
      BY <2>1, <3>1, <3>3, SysStep, Zenon
    <3>4. CASE ClockSignals \/ \E p \in Procs : ClockExpires(p)
      BY <2>1, <3>1, <3>4, ClockStep, Zenon
    <3>5. CASE MMReceives BY <2>1, <3>1, <3>5, MMReceivesStep, Zenon
    <3>6. CASE TickTears
      <4>1. torn' /\ UNCHANGED <<sys, asked, clock>> BY <3>6, Zenon DEF TickTears
      <4>2. Requests' BY <2>1, <4>1, SameRequests, Zenon
      <4> QED BY <4>1, <4>2, Zenon DEF IInv, Intact
    <3>7. CASE \E p \in Procs : CallMM(p) BY <2>1, <3>1, <3>7, CallMMStep, Zenon
    <3>8. CASE \E p \in Procs : SetAlarm(p) \/ MMReplies(p)
      BY <2>1, <3>1, <3>8, UserStep, Zenon
    <3>9. CASE \E p \in Procs : MMAsks(p) \/ FSAsks(p)
      BY <2>1, <3>1, <3>9, ClientStep, Zenon
    <3> QED BY <3>2, <3>3, <3>4, <3>5, <3>6, <3>7, <3>8, <3>9, Zenon
  <2>4. CASE ~Intact /\ Next
    <3>1. UNCHANGED vars BY <2>4, Zenon DEF Next
    <3> QED BY <2>2, <3>1, Zenon
  <2> QED BY <2>2, <2>3, <2>4, Zenon
<1> QED BY <1>1, <1>2, PTL DEF Spec

\* Whatever fork, exec, trace, signal, map and exit requests are served, as
\* long as no handler raced with a step on the data it uses and MM was told of
\* no signal: a process is in a ready queue exactly when no flag blocks it, and
\* sig_procs is the number of processes with pending signals.
THEOREM FlagsStayInStep == Spec => []FlagsInStep
<1>1. IInv => FlagsInStep
  BY Zenon DEF IInv, Inv, Queued, Signalled, Pending, FlagsInStep
<1> QED BY <1>1, Invariance, PTL

\* Under the same proviso the caller queue of MM holds exactly the processes
\* that are sending to it, each once, also after do_xit took one out of its
\* middle.
THEOREM CallerQueueIsSenders == Spec => []CallersAreSending
<1>1. IInv => CallersAreSending
  BY Zenon DEF IInv, Inv, Callers, Lists, Senders, CallersAreSending
<1> QED BY <1>1, Invariance, PTL

=============================================================================
