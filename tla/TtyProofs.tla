----------------------------- MODULE TtyProofs -----------------------------
(***************************************************************************)
(* Proofs about the terminal task: however reads, writes and ioctls are    *)
(* finished, suspended, revived or cancelled, each caller gets one reply,  *)
(* and one REVIVE exactly if the reply was SUSPEND.                        *)
(*                                                                         *)
(* The property is not inductive by itself.  The line answers whom its     *)
(* three records name (reader, writer, waiting ioctl), with the code they  *)
(* hold; so the invariant says for each record whose call it is, that the  *)
(* caller is inside that call, and that a record holds TASK_REPLY only     *)
(* while the task is still inside do_read or do_write.  What the input     *)
(* ring contains does not matter, except that a transfer never takes more  *)
(* bytes than the read asks for: tty_inleft is compared with 0 throughout. *)
(***************************************************************************)
EXTENDS Tty, FiniteSetTheorems, SequenceTheorems, WellFoundedInduction, NaturalsInduction, TLAPS

USE SMTT(30), ZenonT(30)

-----------------------------------------------------------------------------
(* The invariant *)

LineFields ==
    {"inbuf", "inhead", "intail", "incount", "eotct", "min", "attr", "timer", "escaped",
     "inhibited", "events", "openct", "inrepcode", "inproc", "inleft", "incum",
     "outrepcode", "outproc", "outleft", "ioreq", "ioproc", "mail"}

IsLine(t) ==
    /\ DOMAIN t = LineFields
    /\ t.incount \in Nat /\ t.inleft \in Nat /\ t.outleft \in Nat

ReadOps == {"read", "readnb"}
WriteOps == {"write", "writenb"}
States == {"idle", "sending", "waiting", "suspended"}
Attrs == (UNION {s.attributes : s \in Sessions}) \cup {Default}

Caller ==
    [st : States, req : [op : Ops \cup {"none"}, n : Nat, attr : Attrs,
                         whom : Clients \cup {Nobody}]]

Types ==
    /\ session \in Sessions
    /\ IsLine(tty)
    /\ client \in [Clients -> Caller]
    /\ \A c \in Clients : client[c].req.op \in Requests[c] \cup {"none"}

Handling == {"events", "devread", "overflow", "devwrite", "ioctl", "transfer", "enough"}

\* The task is inside do_read or do_write, for cur.
Reading == pc = "read" \/ pc = "readtail" \/ (pc \in Handling /\ ret = "readtail")
Writing == pc = "writetail" \/ (pc \in Handling /\ ret = "writetail")

Control ==
    /\ ret \in {"main", "readtail", "writetail"}
    /\ pc \in Labels
    /\ pc \notin Handling => ret = "main"
    /\ Reading \/ Writing => cur \in Clients

\* The message being sent is for c; it suspends c.
Told(c) == tty.mail # <<>> /\ tty.mail[1].to = c
Suspending(c) ==
    Told(c) /\ tty.mail[1].type = "TASK_REPLY" /\ tty.mail[1].status = "SUSPEND"

\* c waits for a REVIVE, or for its first reply.
Asleep(c) == \/ client[c].st = "suspended" /\ ~Told(c)
             \/ client[c].st = "waiting" /\ Suspending(c)
Awake(c) == client[c].st = "waiting" /\ ~Told(c)

\* The three records of the line.
Reader ==
    tty.inleft > 0 =>
        /\ tty.inproc \in Clients /\ client[tty.inproc].req.op \in ReadOps
        /\ IF Reading THEN tty.inrepcode = "TASK_REPLY" /\ tty.inproc = cur /\ Awake(cur)
           ELSE tty.inrepcode = "REVIVE" /\ Asleep(tty.inproc)

Writer ==
    tty.outleft > 0 =>
        /\ tty.outproc \in Clients /\ client[tty.outproc].req.op \in WriteOps
        /\ IF Writing THEN tty.outrepcode = "TASK_REPLY" /\ tty.outproc = cur /\ Awake(cur)
           ELSE tty.outrepcode = "REVIVE" /\ Asleep(tty.outproc)

Drainer ==
    tty.ioreq.op # "none" =>
        /\ tty.ioproc \in Clients /\ client[tty.ioproc].req.op \in Waits
        /\ Asleep(tty.ioproc)

\* The line will revive c.
Recalled(c) ==
    \/ tty.inleft > 0 /\ tty.inproc = c /\ tty.inrepcode = "REVIVE"
    \/ tty.outleft > 0 /\ tty.outproc = c /\ tty.outrepcode = "REVIVE"
    \/ tty.ioreq.op # "none" /\ tty.ioproc = c

Messages ==
    \/ tty.mail = <<>>
    \/ /\ tty.mail # <<>> /\ Len(tty.mail) = 1
       /\ tty.mail[1].to \in Clients
       /\ \/ /\ tty.mail[1].type = "TASK_REPLY"
             /\ client[tty.mail[1].to].st = "waiting"
             /\ tty.mail[1].status = "SUSPEND" => Recalled(tty.mail[1].to)
          \/ /\ tty.mail[1].type = "REVIVE"
             /\ client[tty.mail[1].to].st = "suspended"
             /\ tty.mail[1].status # "SUSPEND"

Sleepers == \A c \in Clients : client[c].st = "suspended" => Recalled(c) \/ Told(c)

Calls == Reader /\ Writer /\ Drainer /\ Messages /\ Sleepers

IInv == Types /\ Control /\ Calls

-----------------------------------------------------------------------------
(* What the operations on the ring leave alone *)

KeepsIn(t, u) == u.inproc = t.inproc /\ u.inrepcode = t.inrepcode /\ u.inleft = t.inleft
KeepsOut(t, u) == u.outproc = t.outproc /\ u.outrepcode = t.outrepcode /\ u.outleft = t.outleft
KeepsIo(t, u) == u.ioproc = t.ioproc /\ u.ioreq = t.ioreq

\* A step of the line that concerns no call.
Keeps(t, u) ==
    IsLine(u) /\ KeepsIn(t, u) /\ KeepsOut(t, u) /\ KeepsIo(t, u) /\ u.mail = t.mail

LEMMA KeepsTrans ==
    ASSUME NEW t, NEW u, NEW v, Keeps(t, u), Keeps(u, v)
    PROVE  Keeps(t, v)
BY Zenon DEF Keeps, KeepsIn, KeepsOut, KeepsIo

LEMMA KeepsSelf ==
    ASSUME NEW t, IsLine(t)
    PROVE  Keeps(t, t)
BY Zenon DEF Keeps, KeepsIn, KeepsOut, KeepsIo

LEMMA ClearKeeps ==
    ASSUME NEW t, IsLine(t)
    PROVE  Keeps(t, Clear(t)) /\ Keeps(t, tty_icancel(t)) /\ Keeps(t, sigchar(t))
BY Zenon DEF Clear, tty_icancel, sigchar, Keeps, KeepsIn, KeepsOut, KeepsIo, IsLine, LineFields

LEMMA TimerKeeps ==
    ASSUME NEW t, IsLine(t), NEW on
    PROVE  Keeps(t, settimer(t, on))
BY Zenon DEF settimer, Keeps, KeepsIn, KeepsOut, KeepsIo, IsLine, LineFields

\* The first member of a set of numbers.
LEMMA First ==
    ASSUME NEW n \in Nat, NEW S, S \subseteq 0..n, S # {}
    PROVE  \E k \in S : \A j \in 0..(k - 1) : j \notin S
<1>1. S \subseteq Nat BY DEF Nat
<1>2. PICK k \in S : \A j \in S : <<j, k>> \notin OpToRel(<, Nat)
  BY <1>1, WFMin, NatLessThanWellFounded, Zenon
<1>3. \A j \in Nat : j < k => <<j, k>> \in OpToRel(<, Nat) BY <1>1, Zenon DEF OpToRel
<1>4. ASSUME NEW j \in 0..(k - 1) PROVE j \notin S
  <2>1. j \in Nat /\ j < k BY <1>1
  <2> QED BY <1>2, <1>3, <2>1, Zenon
<1> QED BY <1>4, Zenon

LEMMA ErasedKeeps ==
    ASSUME NEW t, IsLine(t), NEW n \in 0..t.incount
    PROVE  Keeps(t, Erased(t, n)) /\ Erased(t, n).incount = t.incount - n
<1>1. /\ DOMAIN Erased(t, n) = LineFields
      /\ Erased(t, n).incount = t.incount - n
      /\ Erased(t, n).inleft = t.inleft /\ Erased(t, n).outleft = t.outleft
      /\ KeepsIn(t, Erased(t, n)) /\ KeepsOut(t, Erased(t, n)) /\ KeepsIo(t, Erased(t, n))
      /\ Erased(t, n).mail = t.mail
  BY Zenon DEF Erased, KeepsIn, KeepsOut, KeepsIo, IsLine, LineFields
<1>2. t.incount - n \in Nat BY DEF IsLine
<1> QED BY <1>1, <1>2, Zenon DEF Keeps, IsLine

LEMMA KillKeeps ==
    ASSUME NEW t, IsLine(t)
    PROVE  Keeps(t, back_over(t)) /\ Keeps(t, KillLine(t))
<1> DEFINE S == {n \in 0..t.incount : ~Erasable(Erased(t, n))}
           P(n) == ~Erasable(Erased(t, n)) /\ \A m \in 0..n - 1 : Erasable(Erased(t, m))
<1>1. t.incount \in Nat BY Zenon DEF IsLine
<1>2. t.incount \in S
  <2>1. t.incount \in 0..t.incount BY <1>1
  <2>2. Erased(t, t.incount).incount = 0 BY <1>1, <2>1, ErasedKeeps
  <2> QED BY <2>1, <2>2 DEF Erasable
<1>3. PICK n \in S : \A j \in 0..(n - 1) : j \notin S
  <2>1. S \subseteq 0..t.incount /\ S # {} BY <1>2, Zenon
  <2> HIDE DEF S
  <2> QED BY <1>1, <2>1, First, Zenon
<1>4. n \in 0..t.incount /\ P(n)
  <2>1. \A m \in 0..(n - 1) : m \in 0..t.incount BY <1>1
  <2> QED BY <1>3, <2>1, Zenon
<1>5. PICK k \in 0..t.incount : k = CHOOSE m \in 0..t.incount : P(m)
  BY <1>4, Zenon
<1>6. Keeps(t, KillLine(t)) BY <1>5, ErasedKeeps, Zenon DEF KillLine
<1>7. Keeps(t, back_over(t))
  <2>1. CASE Erasable(t)
    <3>1. 1 \in 0..t.incount BY <1>1, <2>1 DEF Erasable
    <3> QED BY <2>1, <3>1, ErasedKeeps, Zenon DEF back_over
  <2>2. CASE ~Erasable(t) BY <2>2, KeepsSelf, Zenon DEF back_over
  <2> QED BY <2>1, <2>2, Zenon
<1> QED BY <1>6, <1>7, Zenon

LEMMA StoredKeeps ==
    ASSUME NEW t, IsLine(t), NEW cell
    PROVE  Keeps(t, Stored(t, cell))
<1> DEFINE c == [cell EXCEPT !.eot = @ \/ ~t.attr.icanon]
           kept == [t EXCEPT !.inbuf[t.inhead] = c, !.inhead = Slot(@ + 1),
                             !.incount = @ + 1, !.eotct = @ + IF c.eot THEN 1 ELSE 0]
<1>1. Keeps(t, kept)
  <2> HIDE DEF c
  <2> QED BY DEF Keeps, KeepsIn, KeepsOut, KeepsIo, IsLine, LineFields
<1>2. Keeps(t, settimer(kept, TRUE))
  <2> HIDE DEF kept
  <2>1. IsLine(kept) BY <1>1, Zenon DEF Keeps
  <2> QED BY <1>1, <2>1, TimerKeeps, KeepsTrans, Zenon
<1>3. Stored(t, cell) \in {t, kept, settimer(kept, TRUE)} BY Zenon DEF Stored
<1> QED BY <1>1, <1>2, <1>3, KeepsSelf, Zenon

LEMMA ProcessKeeps ==
    ASSUME NEW t, IsLine(t), NEW key
    PROVE  Keeps(t, in_process(t, key))
<1>1. ASSUME NEW cell PROVE Keeps(t, Controls(t, key, cell))
  <2>1. Keeps(t, [t EXCEPT !.inhibited = TRUE, !.events = TRUE])
    BY Zenon DEF Keeps, KeepsIn, KeepsOut, KeepsIo, IsLine, LineFields
  <2>2. Keeps(t, [t EXCEPT !.inhibited = FALSE, !.events = TRUE])
    BY Zenon DEF Keeps, KeepsIn, KeepsOut, KeepsIo, IsLine, LineFields
  <2>3. Keeps(t, sigchar(t)) /\ Keeps(t, Stored(t, cell)) BY ClearKeeps, StoredKeeps, Zenon
  <2> QED BY <2>1, <2>2, <2>3, Zenon DEF Controls
<1>2. Keeps(t, [t EXCEPT !.escaped = FALSE]) /\ Keeps(t, [t EXCEPT !.escaped = TRUE])
  BY Zenon DEF Keeps, KeepsIn, KeepsOut, KeepsIo, IsLine, LineFields
<1>3. ASSUME NEW cell PROVE Keeps(t, Stored([t EXCEPT !.escaped = FALSE], cell))
  <2> DEFINE u == [t EXCEPT !.escaped = FALSE]
  <2>1. Keeps(t, u) /\ IsLine(u) BY <1>2, Zenon DEF Keeps
  <2> HIDE DEF u
  <2>2. Keeps(t, Stored(u, cell)) BY <2>1, StoredKeeps, KeepsTrans, Zenon
  <2> QED BY <2>2, Zenon DEF u
<1>4. Keeps(t, t) /\ Keeps(t, back_over(t)) /\ Keeps(t, KillLine(t)) BY KeepsSelf, KillKeeps, Zenon
<1> QED BY <1>1, <1>2, <1>3, <1>4, Zenon DEF in_process

LEMMA InstallKeeps ==
    ASSUME NEW t, IsLine(t), NEW a
    PROVE  Keeps(t, Install(t, a))
<1>1. ASSUME NEW u, IsLine(u) PROVE Keeps(u, setattr(u))
  <2> DEFINE raw == ~u.attr.icanon
             used == {Slot(u.intail + i) : i \in 0..u.incount - 1}
             broken == [u EXCEPT
                          !.eotct = IF raw THEN u.incount ELSE @,
                          !.inbuf = [i \in 0..BufLen - 1 |->
                                       IF raw /\ i \in used THEN [@[i] EXCEPT !.eot = TRUE]
                                                            ELSE @[i]]]
             timed == [settimer(broken, FALSE) EXCEPT !.min = EffectiveMin(u.attr)]
             ready == IF u.attr.ixon THEN timed
                      ELSE [timed EXCEPT !.inhibited = FALSE, !.events = TRUE]
  <2>1. setattr(u) = IF u.attr.b0 THEN sigchar(ready) ELSE ready BY Zenon DEF setattr
  <2>2. Keeps(u, ready)
    BY <1>1, Zenon DEF settimer, Keeps, KeepsIn, KeepsOut, KeepsIo, IsLine, LineFields
  <2> HIDE DEF ready
  <2>3. Keeps(ready, sigchar(ready)) BY <2>2, ClearKeeps, Zenon DEF Keeps
  <2> QED BY <2>1, <2>2, <2>3, KeepsTrans, Zenon
<1> DEFINE u == [t EXCEPT !.attr = a]
<1>2. Keeps(t, u) BY Zenon DEF Keeps, KeepsIn, KeepsOut, KeepsIo, IsLine, LineFields
<1>3. IsLine(u) BY <1>2, Zenon DEF Keeps
<1> HIDE DEF u
<1>4. Keeps(t, setattr(u)) BY <1>1, <1>2, <1>3, KeepsTrans, Zenon
<1> QED BY <1>4, Zenon DEF Install, u

-----------------------------------------------------------------------------
(* The transfer *)

\* Cells 1..k of the queue hold at most one byte more than cells 1..k - 1.
LEMMA FrontBytes ==
    ASSUME NEW t, IsLine(t), NEW k \in 0..t.incount
    PROVE  /\ BytesIn(SubSeq(Queue(t), 1, k)) \in Nat
           /\ k = 0 => BytesIn(SubSeq(Queue(t), 1, k)) = 0
           /\ k > 0 => BytesIn(SubSeq(Queue(t), 1, k)) <= BytesIn(SubSeq(Queue(t), 1, k - 1)) + 1
<1> DEFINE q == Queue(t)
           n == t.incount
           T == {t.inbuf[Slot(t.intail + i - 1)] : i \in 1..n}
           B(j) == {i \in 1..j : ~q[i].eof}
<1>1. n \in Nat BY Zenon DEF IsLine
<1>2. q = [i \in 1..n |-> t.inbuf[Slot(t.intail + i - 1)]] BY Zenon DEF Queue
<1>3. q \in [1..n -> T] BY <1>2, Zenon
<1> HIDE DEF q, T
<1>4. q \in Seq(T) /\ Len(q) = n
  <2>1. q \in Seq(T) BY <1>1, <1>3
  <2>2. DOMAIN q = 1..n BY <1>3, Zenon
  <2> QED BY <1>1, <2>1, <2>2, LenProperties
<1>5. ASSUME NEW j \in 0..n PROVE BytesIn(SubSeq(q, 1, j)) = Cardinality(B(j))
  <2> DEFINE f == SubSeq(q, 1, j)
  <2>1. f \in Seq(T) /\ Len(f) = j /\ \A i \in 1..j : f[i] = q[i]
    BY <1>1, <1>4, SubSeqProperties
  <2> HIDE DEF f
  <2>2. DOMAIN f = 1..j BY <2>1, LenProperties, Zenon
  <2>3. {i \in DOMAIN f : ~f[i].eof} = B(j) BY <2>1, <2>2, Zenon
  <2> HIDE DEF B
  <2> QED BY <2>3, Zenon DEF BytesIn, f
<1>6. ASSUME NEW j \in 0..n PROVE IsFiniteSet(B(j)) /\ Cardinality(B(j)) \in Nat
  <2>1. IsFiniteSet(1..j) BY <1>1, FS_Interval
  <2>2. IsFiniteSet(B(j)) BY <2>1, FS_Subset, Zenon
  <2> QED BY <2>2, FS_CardinalityType, Zenon
<1>7. ASSUME k > 0 PROVE Cardinality(B(k)) <= Cardinality(B(k - 1)) + 1
  <2>1. k - 1 \in 0..n BY <1>1, <1>7
  <2>2. IsFiniteSet(B(k - 1)) /\ Cardinality(B(k - 1)) \in Nat BY <1>6, <2>1, Zenon
  <2>3. B(k) \subseteq B(k - 1) \cup {k} BY <1>1
  <2> HIDE DEF B
  <2>4. /\ IsFiniteSet(B(k - 1) \cup {k})
        /\ Cardinality(B(k - 1) \cup {k}) <= Cardinality(B(k - 1)) + 1
    <3>1. PICK C : C = B(k - 1) BY Zenon
    <3>2. /\ IsFiniteSet(C \cup {k})
          /\ Cardinality(C \cup {k}) = IF k \in C THEN Cardinality(C) ELSE Cardinality(C) + 1
      BY <2>2, <3>1, FS_AddElement, Zenon
    <3>3. Cardinality(C) \in Nat BY <2>2, <3>1, Zenon
    <3>4. Cardinality(C \cup {k}) <= Cardinality(C) + 1 BY <3>2, <3>3
    <3> QED BY <3>1, <3>2, <3>4, Zenon
  <2>5. Cardinality(B(k)) <= Cardinality(B(k - 1) \cup {k}) BY <2>3, <2>4, FS_Subset, Zenon
  <2>6. Cardinality(B(k)) \in Nat BY <1>6, Zenon
  <2>7. Cardinality(B(k - 1) \cup {k}) \in Nat BY <2>4, FS_CardinalityType, Zenon
  <2> QED BY <2>2, <2>4, <2>5, <2>6, <2>7
<1>8. Cardinality(B(0)) = 0
  <2>1. B(0) = {} OBVIOUS
  <2> QED BY <2>1, FS_EmptySet, Zenon
<1>9. k - 1 \in 0..n \/ ~(k > 0) BY <1>1
<1> HIDE DEF B
<1>10. BytesIn(SubSeq(q, 1, k)) = Cardinality(B(k)) BY <1>5, Zenon
<1>11. k > 0 => BytesIn(SubSeq(q, 1, k - 1)) = Cardinality(B(k - 1)) BY <1>5, <1>9, Zenon
<1>12. Cardinality(B(k)) \in Nat BY <1>6, Zenon
<1> QED BY <1>7, <1>8, <1>10, <1>11, <1>12, Zenon DEF q

\* The cells taken exist, and hold no more bytes than are asked for.
LEMMA TakenLemma ==
    ASSUME NEW t, IsLine(t)
    PROVE  /\ Taken(t) \in 0..t.incount
           /\ BytesIn(SubSeq(Queue(t), 1, Taken(t))) \in 0..t.inleft
<1> DEFINE S == {k \in 0..t.incount : ~TakeMore(t, k)}
           P(k) == ~TakeMore(t, k) /\ \A j \in 0..k - 1 : TakeMore(t, j)
<1>1. t.incount \in Nat /\ t.inleft \in Nat BY Zenon DEF IsLine
<1>2. t.incount \in S BY <1>1 DEF TakeMore
<1>3. PICK n \in S : \A j \in 0..(n - 1) : j \notin S
  <2>1. S \subseteq 0..t.incount /\ S # {} BY <1>2, Zenon
  <2> HIDE DEF S
  <2> QED BY <1>1, <2>1, First, Zenon
<1>4. n \in 0..t.incount /\ P(n)
  <2>1. \A m \in 0..(n - 1) : m \in 0..t.incount BY <1>1
  <2> QED BY <1>3, <2>1, Zenon
<1>5. PICK k \in 0..t.incount : k = Taken(t) /\ P(k)
  <2>1. Taken(t) = CHOOSE m \in 0..t.incount : P(m) BY Zenon DEF Taken
  <2> QED BY <1>4, <2>1, Zenon
<1>6. BytesIn(SubSeq(Queue(t), 1, k)) \in Nat BY FrontBytes, Zenon
<1>7. CASE k = 0
  <2>1. BytesIn(SubSeq(Queue(t), 1, k)) = 0 BY <1>7, FrontBytes, Zenon
  <2> QED BY <1>1, <1>5, <2>1
<1>8. CASE k > 0
  <2>1. k - 1 \in 0..t.incount /\ k - 1 \in 0..k - 1 BY <1>1, <1>8
  <2>2. TakeMore(t, k - 1) BY <1>5, <2>1, Zenon
  <2>3. BytesIn(SubSeq(Queue(t), 1, k - 1)) < t.inleft BY <2>2, Zenon DEF TakeMore
  <2>4. BytesIn(SubSeq(Queue(t), 1, k - 1)) \in Nat BY <2>1, FrontBytes, Zenon
  <2>5. BytesIn(SubSeq(Queue(t), 1, k)) <= BytesIn(SubSeq(Queue(t), 1, k - 1)) + 1
    BY <1>8, FrontBytes, Zenon
  <2> QED BY <1>1, <1>5, <1>6, <2>3, <2>4, <2>5
<1> QED BY <1>1, <1>7, <1>8

-----------------------------------------------------------------------------
(* Steps of the line that answer a call *)

\* The pending read goes on, if there is one.
ReadGoesOn(t, u) ==
    /\ IsLine(u) /\ KeepsOut(t, u) /\ KeepsIo(t, u) /\ u.mail = t.mail
    /\ u.inproc = t.inproc /\ u.inrepcode = t.inrepcode
    /\ u.inleft > 0 <=> t.inleft > 0

ReadAnswered(t, u) ==
    /\ IsLine(u) /\ KeepsOut(t, u) /\ KeepsIo(t, u)
    /\ t.inleft > 0 /\ u.inleft = 0
    /\ \E s, n : s # "SUSPEND" /\ u.mail = Mail(t.inrepcode, t.inproc, s, n)

WriteAnswered(t, u) ==
    /\ IsLine(u) /\ KeepsIn(t, u) /\ KeepsIo(t, u)
    /\ t.outleft > 0 /\ u.outleft = 0
    /\ \E s, n : s # "SUSPEND" /\ u.mail = Mail(t.outrepcode, t.outproc, s, n)

IoctlAnswered(t, u) ==
    /\ IsLine(u) /\ KeepsIn(t, u) /\ KeepsOut(t, u)
    /\ t.ioreq.op # "none" /\ u.ioreq.op = "none"
    /\ \E s, n : s # "SUSPEND" /\ u.mail = Mail("REVIVE", t.ioproc, s, n)

LEMMA KeepsGoesOn ==
    ASSUME NEW t, NEW u, Keeps(t, u)
    PROVE  ReadGoesOn(t, u)
BY Zenon DEF Keeps, KeepsIn, ReadGoesOn

LEMMA AnswerReadLemma ==
    ASSUME NEW t, IsLine(t), t.inleft > 0
    PROVE  ReadAnswered(t, AnswerRead(t))
<1> DEFINE u == AnswerRead(t)
<1>1. /\ IsLine(u) /\ KeepsOut(t, u) /\ KeepsIo(t, u) /\ u.inleft = 0
      /\ u.mail = Mail(t.inrepcode, t.inproc, "count", Len(t.incum))
  BY Zenon DEF AnswerRead, KeepsOut, KeepsIo, IsLine, LineFields
<1> QED BY <1>1, Zenon DEF ReadAnswered

LEMMA TransferLemma ==
    ASSUME NEW t, IsLine(t)
    PROVE  ReadGoesOn(t, in_transfer(t)) \/ ReadAnswered(t, in_transfer(t))
<1> DEFINE k == Taken(t)
           q == SubSeq(Queue(t), 1, k)
           chars == SelectSeq(q, LAMBDA c : ~c.eof)
           gone == {Slot(t.intail + i) : i \in 0..k - 1}
           ends == t.attr.icanon /\ BreaksIn(q) > 0
           moved == [t EXCEPT
                       !.inbuf = [i \in 0..BufLen - 1 |-> IF i \in gone THEN Nul ELSE @[i]],
                       !.intail = Slot(@ + k),
                       !.incount = @ - k,
                       !.eotct = @ - BreaksIn(q),
                       !.inleft = IF ends THEN 0 ELSE @ - BytesIn(q),
                       !.incum = @ \o [i \in 1..Len(chars) |-> chars[i].ch]]
           fault == [tty_reply(t, t.inrepcode, t.inproc, "EFAULT")
                       EXCEPT !.inleft = 0, !.incum = <<>>]
<1>1. t.inleft \in Nat /\ t.incount \in Nat /\ DOMAIN t = LineFields BY Zenon DEF IsLine
<1>2. k \in 0..t.incount /\ BytesIn(q) \in 0..t.inleft BY TakenLemma, Zenon
<1>3. in_transfer(t) = IF t.inleft = 0 \/ t.eotct < t.min THEN t
                       ELSE IF t.inproc \notin mapped THEN fault
                       ELSE IF moved.inleft = 0 THEN AnswerRead(moved) ELSE moved
  BY Zenon DEF in_transfer
<1>4. /\ DOMAIN moved = LineFields /\ moved.incount = t.incount - k
      /\ moved.inleft = (IF ends THEN 0 ELSE t.inleft - BytesIn(q))
      /\ moved.outleft = t.outleft /\ moved.inproc = t.inproc
      /\ moved.inrepcode = t.inrepcode /\ moved.mail = t.mail
      /\ KeepsOut(t, moved) /\ KeepsIo(t, moved)
  <2> HIDE DEF k, q, chars, gone, ends
  <2> QED BY <1>1, Zenon DEF KeepsOut, KeepsIo, LineFields
<1> HIDE DEF k, q, chars, gone, ends, moved
<1>5. IsLine(moved) BY <1>1, <1>2, <1>4 DEF IsLine
<1>6. CASE t.inleft = 0 \/ t.eotct < t.min
  BY <1>3, <1>6, KeepsSelf, KeepsGoesOn, Zenon
<1>7. CASE ~(t.inleft = 0 \/ t.eotct < t.min) /\ t.inproc \notin mapped
  <2>1. /\ IsLine(fault) /\ KeepsOut(t, fault) /\ KeepsIo(t, fault) /\ fault.inleft = 0
        /\ fault.mail = Mail(t.inrepcode, t.inproc, "EFAULT", 0)
    BY <1>1, Zenon DEF tty_reply, KeepsOut, KeepsIo, IsLine, LineFields
  <2>2. t.inleft > 0 BY <1>1, <1>7
  <2> HIDE DEF fault
  <2>3. ReadAnswered(t, fault) BY <2>1, <2>2, Zenon DEF ReadAnswered
  <2> QED BY <1>3, <1>7, <2>3, Zenon
<1>8. CASE ~(t.inleft = 0 \/ t.eotct < t.min) /\ t.inproc \in mapped /\ moved.inleft # 0
  <2>1. moved.inleft > 0 /\ t.inleft > 0 BY <1>1, <1>5, <1>8 DEF IsLine
  <2>2. ReadGoesOn(t, moved) BY <1>4, <1>5, <2>1, Zenon DEF ReadGoesOn
  <2> QED BY <1>3, <1>8, <2>2, Zenon
<1>9. CASE ~(t.inleft = 0 \/ t.eotct < t.min) /\ t.inproc \in mapped /\ moved.inleft = 0
  <2> DEFINE u == AnswerRead(moved)
  <2>1. /\ IsLine(u) /\ KeepsOut(moved, u) /\ KeepsIo(moved, u) /\ u.inleft = 0
        /\ u.mail = Mail(moved.inrepcode, moved.inproc, "count", Len(moved.incum))
    BY <1>5, Zenon DEF AnswerRead, KeepsOut, KeepsIo, IsLine, LineFields
  <2> HIDE DEF u
  <2>2. t.inleft > 0 BY <1>1, <1>9
  <2>3. KeepsOut(t, u) /\ KeepsIo(t, u) BY <1>4, <2>1, Zenon DEF KeepsOut, KeepsIo
  <2>4. ReadAnswered(t, u) BY <1>4, <2>1, <2>2, <2>3, Zenon DEF ReadAnswered
  <2> QED BY <1>3, <1>9, <2>4, Zenon DEF u
<1> QED BY <1>6, <1>7, <1>8, <1>9, Zenon

LEMMA WriteLemma ==
    ASSUME NEW t, IsLine(t)
    PROVE  ReadGoesOn(t, cp32_console_write(t)) \/ WriteAnswered(t, cp32_console_write(t))
<1> DEFINE status == IF faulted THEN "EIO" ELSE IF t.outproc \notin mapped THEN "EFAULT" ELSE "count"
           u == [tty_reply(t, t.outrepcode, t.outproc, status) EXCEPT !.outleft = 0]
<1>1. status # "SUSPEND" OBVIOUS
<1>2. cp32_console_write(t) = IF t.outleft = 0 \/ t.inhibited THEN t ELSE u
  BY Zenon DEF cp32_console_write
<1> HIDE DEF status
<1>3. /\ IsLine(u) /\ KeepsIn(t, u) /\ KeepsIo(t, u) /\ u.outleft = 0
      /\ u.mail = Mail(t.outrepcode, t.outproc, status, 0)
  BY Zenon DEF tty_reply, KeepsIn, KeepsIo, IsLine, LineFields
<1> HIDE DEF u
<1>4. CASE t.outleft = 0 \/ t.inhibited BY <1>2, <1>4, KeepsSelf, KeepsGoesOn, Zenon
<1>5. CASE ~(t.outleft = 0 \/ t.inhibited)
  <2>1. t.outleft > 0 BY <1>5 DEF IsLine
  <2>2. WriteAnswered(t, u) BY <1>1, <1>3, <2>1, Zenon DEF WriteAnswered
  <2> QED BY <1>2, <1>5, <2>2, Zenon
<1> QED BY <1>4, <1>5, Zenon

LEMMA IoctlLemma ==
    ASSUME NEW t, IsLine(t)
    PROVE  ReadGoesOn(t, dev_ioctl(t)) \/ IoctlAnswered(t, dev_ioctl(t))
<1> DEFINE t1 == IF t.ioreq.op = "setattrf" THEN tty_icancel(t) ELSE t
           t2 == IF t.ioreq.op = "drain" THEN t ELSE Install(t1, t.ioreq.attr)
           u == [tty_reply(t2, "REVIVE", t.ioproc, "OK") EXCEPT !.ioreq = NoRequest]
<1>1. dev_ioctl(t) = IF t.outleft > 0 \/ t.ioreq.op = "none" THEN t ELSE u
  BY Zenon DEF dev_ioctl
<1>2. Keeps(t, t1) BY ClearKeeps, KeepsSelf, Zenon
<1>3. IsLine(t1) BY <1>2, Zenon DEF Keeps
<1> HIDE DEF t1
<1>4. Keeps(t, Install(t1, t.ioreq.attr)) BY <1>2, <1>3, InstallKeeps, KeepsTrans, Zenon
<1>5. Keeps(t, t2) BY <1>4, KeepsSelf, Zenon
<1> HIDE DEF t2
<1>6. /\ IsLine(u) /\ KeepsIn(t2, u) /\ KeepsOut(t2, u) /\ u.ioreq = NoRequest
      /\ u.mail = Mail("REVIVE", t.ioproc, "OK", 0)
  BY <1>5, Zenon DEF Keeps, tty_reply, KeepsIn, KeepsOut, IsLine, LineFields
<1> HIDE DEF u
<1>7. KeepsIn(t, u) /\ KeepsOut(t, u) /\ u.ioreq.op = "none"
  BY <1>5, <1>6 DEF Keeps, KeepsIn, KeepsOut, NoRequest
<1>8. CASE t.outleft > 0 \/ t.ioreq.op = "none" BY <1>1, <1>8, KeepsSelf, KeepsGoesOn, Zenon
<1>9. CASE ~(t.outleft > 0 \/ t.ioreq.op = "none")
  <2>1. IoctlAnswered(t, u) BY <1>6, <1>7, <1>9 DEF IoctlAnswered
  <2> QED BY <1>1, <1>9, <2>1, Zenon
<1> QED BY <1>8, <1>9, Zenon

-----------------------------------------------------------------------------
(* The calls after such a step *)

LEMMA MailFacts ==
    ASSUME NEW type, NEW to, NEW status, NEW n, NEW m, m = Mail(type, to, status, n)
    PROVE  /\ m # <<>> /\ Len(m) = 1
           /\ m[1].type = type /\ m[1].to = to /\ m[1].status = status
BY Zenon DEF Mail

\* The callers are as before; the task stays in the same call.
SameClients == session' = session /\ client' = client
SameRead == (Reading' <=> Reading) /\ (Reading => cur' = cur)
SameWrite == (Writing' <=> Writing) /\ (Writing => cur' = cur)

LEMMA GoesOnLemma ==
    ASSUME IInv, SameClients, SameRead, SameWrite, ReadGoesOn(tty, tty')
    PROVE  Calls'
<1> USE DEF IInv, Calls, SameClients, SameRead, SameWrite, ReadGoesOn, KeepsOut, KeepsIo
<1>1. Reader' BY Zenon DEF Reader, Asleep, Awake, Told, Suspending
<1>2. Writer' BY Zenon DEF Writer, Asleep, Awake, Told, Suspending
<1>3. Drainer' BY Zenon DEF Drainer, Asleep, Told, Suspending
<1>4. \A c : Recalled(c) => Recalled(c)' BY Zenon DEF Recalled
<1>5. Messages' BY <1>4, Zenon DEF Messages
<1>6. Sleepers' BY <1>4, Zenon DEF Sleepers, Told
<1> QED BY <1>1, <1>2, <1>3, <1>5, <1>6, Zenon

\* The callers the three records name are different ones.
LEMMA Apart ==
    ASSUME IInv
    PROVE  /\ tty.inleft > 0 /\ tty.outleft > 0 => tty.inproc # tty.outproc
           /\ tty.inleft > 0 /\ tty.ioreq.op # "none" => tty.inproc # tty.ioproc
           /\ tty.outleft > 0 /\ tty.ioreq.op # "none" => tty.outproc # tty.ioproc
BY Zenon DEF IInv, Calls, Reader, Writer, Drainer, ReadOps, WriteOps, Waits

\* A message for p leaves the records of others as they are.
LEMMA ReadAnsweredLemma ==
    ASSUME IInv, SameClients, SameWrite, Free, ReadAnswered(tty, tty')
    PROVE  Calls'
<1> DEFINE p == tty.inproc
<1>1. PICK s, n : s # "SUSPEND" /\ tty'.mail = Mail(tty.inrepcode, p, s, n)
  BY Zenon DEF ReadAnswered
<1>2. /\ tty'.mail # <<>> /\ Len(tty'.mail) = 1 /\ tty'.mail[1].type = tty.inrepcode
      /\ tty'.mail[1].to = p /\ tty'.mail[1].status = s
  BY <1>1, MailFacts
<1>3. /\ tty.inleft > 0 /\ tty'.inleft = 0 /\ KeepsOut(tty, tty') /\ KeepsIo(tty, tty')
      /\ \A c : ~Told(c)
      /\ \A c : Told(c)' <=> c = p
  BY <1>2, Zenon DEF ReadAnswered, Free, Told
<1>4. /\ p \in Clients
      /\ \/ tty.inrepcode = "TASK_REPLY" /\ client[p].st = "waiting"
         \/ tty.inrepcode = "REVIVE" /\ client[p].st = "suspended"
  BY <1>3, Zenon DEF IInv, Calls, Reader, Asleep, Awake, Suspending
<1> HIDE DEF p
<1>5. Reader' BY <1>3 DEF Reader
<1>6. Writer'
  BY <1>3, Apart, Zenon DEF IInv, Calls, Writer, Asleep, Awake, Suspending, SameClients, SameWrite, KeepsOut, p
<1>7. Drainer'
  BY <1>3, Apart, Zenon DEF IInv, Calls, Drainer, Asleep, Suspending, SameClients, KeepsIo, p
<1>8. Messages' BY <1>1, <1>2, <1>4, Zenon DEF Messages, SameClients
<1>9. Sleepers'
  BY <1>3, Zenon DEF IInv, Calls, Sleepers, Recalled, SameClients, KeepsOut, KeepsIo, p
<1> QED BY <1>5, <1>6, <1>7, <1>8, <1>9, Zenon DEF Calls

LEMMA WriteAnsweredLemma ==
    ASSUME IInv, SameClients, SameRead, Free, WriteAnswered(tty, tty')
    PROVE  Calls'
<1> DEFINE p == tty.outproc
<1>1. PICK s, n : s # "SUSPEND" /\ tty'.mail = Mail(tty.outrepcode, p, s, n)
  BY Zenon DEF WriteAnswered
<1>2. /\ tty'.mail # <<>> /\ Len(tty'.mail) = 1 /\ tty'.mail[1].type = tty.outrepcode
      /\ tty'.mail[1].to = p /\ tty'.mail[1].status = s
  BY <1>1, MailFacts
<1>3. /\ tty.outleft > 0 /\ tty'.outleft = 0 /\ KeepsIn(tty, tty') /\ KeepsIo(tty, tty')
      /\ \A c : ~Told(c)
      /\ \A c : Told(c)' <=> c = p
  BY <1>2, Zenon DEF WriteAnswered, Free, Told
<1>4. /\ p \in Clients
      /\ \/ tty.outrepcode = "TASK_REPLY" /\ client[p].st = "waiting"
         \/ tty.outrepcode = "REVIVE" /\ client[p].st = "suspended"
  BY <1>3, Zenon DEF IInv, Calls, Writer, Asleep, Awake, Suspending
<1> HIDE DEF p
<1>5. Reader'
  BY <1>3, Apart, Zenon DEF IInv, Calls, Reader, Asleep, Awake, Suspending, SameClients, SameRead, KeepsIn, p
<1>6. Writer' BY <1>3 DEF Writer
<1>7. Drainer'
  BY <1>3, Apart, Zenon DEF IInv, Calls, Drainer, Asleep, Suspending, SameClients, KeepsIo, p
<1>8. Messages' BY <1>1, <1>2, <1>4, Zenon DEF Messages, SameClients
<1>9. Sleepers'
  BY <1>3, Zenon DEF IInv, Calls, Sleepers, Recalled, SameClients, KeepsIn, KeepsIo, p
<1> QED BY <1>5, <1>6, <1>7, <1>8, <1>9, Zenon DEF Calls

LEMMA IoctlAnsweredLemma ==
    ASSUME IInv, SameClients, SameRead, SameWrite, Free, IoctlAnswered(tty, tty')
    PROVE  Calls'
<1> DEFINE p == tty.ioproc
<1>1. PICK s, n : s # "SUSPEND" /\ tty'.mail = Mail("REVIVE", p, s, n)
  BY Zenon DEF IoctlAnswered
<1>2. /\ tty'.mail # <<>> /\ Len(tty'.mail) = 1 /\ tty'.mail[1].type = "REVIVE"
      /\ tty'.mail[1].to = p /\ tty'.mail[1].status = s
  BY <1>1, MailFacts
<1>3. /\ tty.ioreq.op # "none" /\ tty'.ioreq.op = "none"
      /\ KeepsIn(tty, tty') /\ KeepsOut(tty, tty')
      /\ \A c : ~Told(c)
      /\ \A c : Told(c)' <=> c = p
  BY <1>2, Zenon DEF IoctlAnswered, Free, Told
<1>4. p \in Clients /\ client[p].st = "suspended"
  BY <1>3, Zenon DEF IInv, Calls, Drainer, Asleep, Suspending
<1> HIDE DEF p
<1>5. Reader'
  BY <1>3, Apart, Zenon DEF IInv, Calls, Reader, Asleep, Awake, Suspending, SameClients, SameRead, KeepsIn, p
<1>6. Writer'
  BY <1>3, Apart, Zenon DEF IInv, Calls, Writer, Asleep, Awake, Suspending, SameClients, SameWrite, KeepsOut, p
<1>7. Drainer' BY <1>3, Zenon DEF Drainer
<1>8. Messages' BY <1>1, <1>2, <1>4, Zenon DEF Messages, SameClients
<1>9. Sleepers'
  BY <1>3, Zenon DEF IInv, Calls, Sleepers, Recalled, SameClients, KeepsIn, KeepsOut, p
<1> QED BY <1>5, <1>6, <1>7, <1>8, <1>9, Zenon DEF Calls
-----------------------------------------------------------------------------
(* handle_events, the interrupts and the loop *)

LEMMA LineStep ==
    ASSUME IInv, Control', SameClients, SameRead, SameWrite,
           \/ ReadGoesOn(tty, tty')
           \/ /\ Free
              /\ \/ ReadAnswered(tty, tty') \/ WriteAnswered(tty, tty')
                 \/ IoctlAnswered(tty, tty')
    PROVE  IInv'
<1>1. Calls' BY GoesOnLemma, ReadAnsweredLemma, WriteAnsweredLemma, IoctlAnsweredLemma, Zenon
<1>2. IsLine(tty') BY Zenon DEF ReadGoesOn, ReadAnswered, WriteAnswered, IoctlAnswered
<1>3. Types' BY <1>2, Zenon DEF IInv, Types, SameClients, Requests
<1> QED BY <1>1, <1>3, Zenon DEF IInv

\* From one label of handle_events to another.
LEMMA HandlingStep ==
    ASSUME IInv, pc \in Handling, pc' \in Handling, ret' = ret, cur' = cur
    PROVE  Control' /\ SameRead /\ SameWrite
BY Zenon DEF IInv, Control, SameRead, SameWrite, Reading, Writing, Handling, Labels

\* Everything but the line stays.
LEMMA LineOnly ==
    ASSUME IInv, UNCHANGED <<pc, ret, cur>>
    PROVE  Control' /\ SameRead /\ SameWrite
BY Zenon DEF IInv, Control, SameRead, SameWrite, Reading, Writing

LEMMA FlagsKeep ==
    ASSUME NEW t, IsLine(t)
    PROVE  /\ Keeps(t, [t EXCEPT !.events = FALSE]) /\ Keeps(t, [t EXCEPT !.events = TRUE])
           /\ Keeps(t, [settimer(t, FALSE) EXCEPT !.min = 0, !.events = TRUE])
BY Zenon DEF settimer, Keeps, KeepsIn, KeepsOut, KeepsIo, IsLine, LineFields

LEMMA HandleEvents ==
    ASSUME IInv, handle_events, session' = session
    PROVE  IInv'
<1> USE DEF TtyOnly, Goto
<1>1. IsLine(tty) BY Zenon DEF IInv, Types
<1>2. CASE StartEvents
  <2>1. Keeps(tty, tty') BY <1>1, <1>2, FlagsKeep, Zenon DEF StartEvents
  <2>2. ReadGoesOn(tty, tty') BY <2>1, KeepsGoesOn, Zenon
  <2>3. Control' /\ SameRead /\ SameWrite /\ SameClients
    BY <1>2, HandlingStep, Zenon DEF StartEvents, Handling, SameClients
  <2> QED BY <2>2, <2>3, LineStep, Zenon
<1>3. CASE cp32_console_read
  <2>1. PICK key : tty' = in_process(tty, key) BY <1>3, Zenon DEF cp32_console_read
  <2>2. ReadGoesOn(tty, tty') BY <1>1, <2>1, ProcessKeeps, KeepsGoesOn, Zenon
  <2>3. pc \in Handling /\ pc' \in Handling /\ ret' = ret /\ cur' = cur /\ SameClients
    BY <1>3, Zenon DEF cp32_console_read, Handling, SameClients
  <2> QED BY <2>2, <2>3, HandlingStep, LineStep, Zenon
<1>4. CASE Overflow
  <2>1. Free /\ pc \in Handling /\ pc' \in Handling /\ ret' = ret /\ cur' = cur /\ SameClients
    BY <1>4, Zenon DEF Overflow, Handling, SameClients
  <2>2. ReadGoesOn(tty, tty') \/ ReadAnswered(tty, tty') BY <1>1, <1>4, TransferLemma, ZenonT(60) DEF Overflow
  <2> QED BY <2>1, <2>2, HandlingStep, LineStep, Zenon
<1>5. CASE PollEnds
  <2>1. ReadGoesOn(tty, tty') BY <1>1, <1>5, KeepsSelf, KeepsGoesOn, Zenon DEF PollEnds
  <2>2. pc \in Handling /\ pc' \in Handling /\ ret' = ret /\ cur' = cur /\ SameClients
    BY <1>5, Zenon DEF PollEnds, Handling, SameClients
  <2> QED BY <2>1, <2>2, HandlingStep, LineStep, Zenon
<1>6. CASE DevWrite
  <2>1. Free /\ pc \in Handling /\ pc' \in Handling /\ ret' = ret /\ cur' = cur /\ SameClients
    BY <1>6, Zenon DEF DevWrite, Handling, SameClients
  <2>2. ReadGoesOn(tty, tty') \/ WriteAnswered(tty, tty') BY <1>1, <1>6, WriteLemma, Zenon DEF DevWrite
  <2> QED BY <2>1, <2>2, HandlingStep, LineStep, Zenon
<1>7. CASE DevIoctl
  <2>1. Free /\ pc \in Handling /\ pc' \in Handling /\ ret' = ret /\ cur' = cur /\ SameClients
    BY <1>7, Zenon DEF DevIoctl, Handling, SameClients
  <2>2. ReadGoesOn(tty, tty') \/ IoctlAnswered(tty, tty') BY <1>1, <1>7, IoctlLemma, Zenon DEF DevIoctl
  <2> QED BY <2>1, <2>2, HandlingStep, LineStep, Zenon
<1>8. CASE Transfer
  <2>1. Free /\ pc \in Handling /\ pc' \in Handling /\ ret' = ret /\ cur' = cur /\ SameClients
    BY <1>8, Zenon DEF Transfer, Handling, SameClients
  <2>2. ReadGoesOn(tty, tty') \/ ReadAnswered(tty, tty') BY <1>1, <1>8, TransferLemma DEF Transfer
  <2> QED BY <2>1, <2>2, HandlingStep, LineStep, Zenon
<1>9. CASE Enough
  <2>1. Free /\ SameClients BY <1>9, Zenon DEF Enough, SameClients
  <2>2. Control' /\ SameRead /\ SameWrite
    BY <1>9, Zenon DEF Enough, IInv, Control, SameRead, SameWrite, Reading, Writing, Handling, Labels
  <2>3. (tty' = AnswerRead(tty) /\ tty.inleft > 0) \/ tty' = tty BY <1>9, Zenon DEF Enough
  <2>4. ReadGoesOn(tty, tty') \/ ReadAnswered(tty, tty')
    BY <1>1, <2>3, AnswerReadLemma, KeepsSelf, KeepsGoesOn, Zenon
  <2> QED BY <2>1, <2>2, <2>4, LineStep
<1> QED BY <1>2, <1>3, <1>4, <1>5, <1>6, <1>7, <1>8, <1>9, Zenon DEF handle_events

LEMMA QuietSteps ==
    ASSUME IInv, session' = session,
           Loop \/ HardInt \/ cp32_tty_poll_tick \/ tty_wakeup \/ \E c \in Clients : Remap(c)
    PROVE  IInv'
<1>1. IsLine(tty) BY Zenon DEF IInv, Types
<1>2. SameClients
  BY Zenon DEF SameClients, Loop, HardInt, cp32_tty_poll_tick, tty_wakeup, Remap, TtyOnly
<1>3. Keeps(tty, tty')
  BY <1>1, FlagsKeep, KeepsSelf, Zenon DEF Loop, HardInt, cp32_tty_poll_tick, tty_wakeup, Remap
<1>4. Control' /\ SameRead /\ SameWrite
  <2>1. CASE Loop
    BY <2>1, Zenon DEF Loop, Events, Goto, IInv, Control, SameRead, SameWrite, Reading, Writing, Handling, Labels
  <2>2. CASE HardInt
    BY <2>2, Zenon DEF HardInt, Goto, IInv, Control, SameRead, SameWrite, Reading, Writing, Handling, Labels
  <2>3. CASE cp32_tty_poll_tick BY <2>3, LineOnly, Zenon DEF cp32_tty_poll_tick
  <2>4. CASE tty_wakeup BY <2>4, LineOnly, Zenon DEF tty_wakeup
  <2>5. CASE \E c \in Clients : Remap(c) BY <2>5, LineOnly, Zenon DEF Remap
  <2> QED BY <2>1, <2>2, <2>3, <2>4, <2>5, Zenon
<1> QED BY <1>2, <1>3, <1>4, KeepsGoesOn, LineStep, Zenon

LEMMA ReadQueueStep ==
    ASSUME IInv, ReadQueue, session' = session
    PROVE  IInv'
<1>1. IsLine(tty) BY Zenon DEF IInv, Types
<1>2. Free /\ SameClients BY Zenon DEF ReadQueue, TtyOnly, SameClients
<1>3. Control' /\ SameRead /\ SameWrite
  BY Zenon DEF ReadQueue, Events, IInv, Control, SameRead, SameWrite, Reading, Writing, Handling, Labels
<1>4. ReadGoesOn(tty, tty') \/ ReadAnswered(tty, tty') BY <1>1, TransferLemma, Zenon DEF ReadQueue
<1> QED BY <1>2, <1>3, <1>4, LineStep, Zenon

-----------------------------------------------------------------------------
(* The ends of do_read and do_write *)

LEMMA ReadTailStep ==
    ASSUME IInv, ReadTail, session' = session
    PROVE  IInv'
<1> DEFINE again == [tty_reply(tty, "TASK_REPLY", cur, "EAGAIN") EXCEPT !.inleft = 0, !.incum = <<>>]
           later == [tty_reply(tty, "TASK_REPLY", cur, "SUSPEND") EXCEPT !.inrepcode = "REVIVE"]
<1>1. IsLine(tty) /\ DOMAIN tty = LineFields BY Zenon DEF IInv, Types, IsLine
<1>2. Free /\ SameClients /\ Reading /\ ~Reading' /\ ~Writing /\ ~Writing' /\ Control'
  BY Zenon DEF ReadTail, TtyOnly, Goto, SameClients, IInv, Control, Reading, Writing, Handling, Labels
<1>3. SameWrite BY <1>2, Zenon DEF SameWrite
<1>4. tty' = IF tty.inleft = 0 THEN tty ELSE IF client[cur].req.op = "readnb" THEN again ELSE later
  BY Zenon DEF ReadTail
<1>5. CASE tty.inleft = 0
  <2>1. tty' = tty BY <1>4, <1>5, Zenon
  <2>2. Reader' BY <1>5, <2>1 DEF Reader
  <2>3. Writer' /\ Drainer' BY <1>2, <2>1, Zenon DEF IInv, Calls, Writer, Drainer, Asleep, Told,
                                                          Suspending, SameClients
  <2>4. Messages' BY <1>2, <2>1, Zenon DEF IInv, Calls, Messages, Recalled, SameClients
  <2>5. Sleepers' BY <1>2, <2>1, Zenon DEF IInv, Calls, Sleepers, Recalled, Told, SameClients
  <2>6. Types' BY <1>2, <2>1, Zenon DEF IInv, Types, SameClients, Requests
  <2> QED BY <1>2, <2>2, <2>3, <2>4, <2>5, <2>6, Zenon DEF IInv, Calls
<1>6. CASE tty.inleft # 0 /\ client[cur].req.op = "readnb"
  <2>1. tty.inleft > 0 BY <1>1, <1>6 DEF IsLine
  <2>2. tty.inrepcode = "TASK_REPLY" /\ tty.inproc = cur BY <1>2, <2>1, Zenon DEF IInv, Calls, Reader
  <2>3. /\ IsLine(again) /\ KeepsOut(tty, again) /\ KeepsIo(tty, again) /\ again.inleft = 0
        /\ again.mail = Mail("TASK_REPLY", cur, "EAGAIN", 0)
    BY <1>1, Zenon DEF tty_reply, KeepsOut, KeepsIo, IsLine, LineFields
  <2> HIDE DEF again
  <2>4. tty' = again BY <1>4, <1>6, Zenon
  <2>5. ReadAnswered(tty, tty') BY <2>1, <2>2, <2>3, <2>4, Zenon DEF ReadAnswered
  <2>6. Calls' BY <1>2, <1>3, <2>5, ReadAnsweredLemma, Zenon
  <2>7. Types' BY <1>2, <2>3, <2>4, Zenon DEF IInv, Types, SameClients, Requests
  <2> QED BY <1>2, <2>6, <2>7, Zenon DEF IInv
<1>7. CASE tty.inleft # 0 /\ client[cur].req.op # "readnb"
  <2>1. tty.inleft > 0 BY <1>1, <1>7 DEF IsLine
  <2>2. /\ tty.inproc = cur /\ cur \in Clients /\ client[cur].st = "waiting"
        /\ client[cur].req.op \in ReadOps
    BY <1>2, <2>1, Zenon DEF IInv, Calls, Reader, Awake
  <2>3. /\ IsLine(later) /\ KeepsOut(tty, later) /\ KeepsIo(tty, later)
        /\ later.inleft = tty.inleft /\ later.inproc = tty.inproc /\ later.inrepcode = "REVIVE"
        /\ later.mail = Mail("TASK_REPLY", cur, "SUSPEND", 0)
    BY <1>1, Zenon DEF tty_reply, KeepsOut, KeepsIo, IsLine, LineFields
  <2> HIDE DEF later
  <2>4. tty' = later BY <1>4, <1>7, Zenon
  <2>5. /\ tty'.mail # <<>> /\ Len(tty'.mail) = 1 /\ tty'.mail[1].type = "TASK_REPLY"
        /\ tty'.mail[1].to = cur /\ tty'.mail[1].status = "SUSPEND"
    BY <2>3, <2>4, MailFacts
  <2>6. (\A c : ~Told(c)) /\ (\A c : Told(c)' <=> c = cur) BY <1>2, <2>5, Zenon DEF Free, Told
  <2>7. Reader'
    BY <1>2, <2>2, <2>3, <2>4, <2>5, <2>6, Zenon DEF Reader, Asleep, Suspending, SameClients
  <2>8. Writer'
    BY <1>2, <2>1, <2>2, <2>3, <2>4, <2>6, Apart
      , Zenon DEF IInv, Calls, Writer, Asleep, Awake, Suspending, SameClients, KeepsOut
  <2>9. Drainer'
    BY <1>2, <2>1, <2>2, <2>3, <2>4, <2>6, Apart
      , Zenon DEF IInv, Calls, Drainer, Asleep, Suspending, SameClients, KeepsIo
  <2>10. Messages'
    <3>1. client'[cur].st = "waiting" BY <1>2, <2>2, Zenon DEF SameClients
    <3> QED BY <2>1, <2>2, <2>3, <2>4, <2>5, <3>1, Zenon DEF Messages, Recalled
  <2>11. Sleepers'
    BY <1>2, <2>2, <2>3, <2>4, <2>6, Zenon
       DEF IInv, Calls, Sleepers, Recalled, SameClients, KeepsOut, KeepsIo
  <2>12. Types' BY <1>2, <2>3, <2>4, Zenon DEF IInv, Types, SameClients, Requests
  <2> QED BY <1>2, <2>7, <2>8, <2>9, <2>10, <2>11, <2>12, Zenon DEF IInv, Calls
<1> QED BY <1>5, <1>6, <1>7, Zenon

LEMMA WriteTailStep ==
    ASSUME IInv, WriteTail, session' = session
    PROVE  IInv'
<1> DEFINE again == [tty_reply(tty, "TASK_REPLY", cur, "EAGAIN") EXCEPT !.outleft = 0]
           later == [tty_reply(tty, "TASK_REPLY", cur, "SUSPEND") EXCEPT !.outrepcode = "REVIVE"]
<1>1. IsLine(tty) /\ DOMAIN tty = LineFields BY Zenon DEF IInv, Types, IsLine
<1>2. Free /\ SameClients /\ Writing /\ ~Writing' /\ ~Reading /\ ~Reading' /\ Control'
  BY Zenon DEF WriteTail, TtyOnly, Goto, SameClients, IInv, Control, Reading, Writing, Handling, Labels
<1>3. SameRead BY <1>2, Zenon DEF SameRead
<1>4. tty' = IF tty.outleft = 0 THEN tty ELSE IF client[cur].req.op = "writenb" THEN again ELSE later
  BY Zenon DEF WriteTail
<1>5. CASE tty.outleft = 0
  <2>1. tty' = tty BY <1>4, <1>5, Zenon
  <2>2. Writer' BY <1>5, <2>1 DEF Writer
  <2>3. Reader' /\ Drainer' BY <1>2, <2>1, Zenon DEF IInv, Calls, Reader, Drainer, Asleep, Told,
                                                          Suspending, SameClients
  <2>4. Messages' BY <1>2, <2>1, Zenon DEF IInv, Calls, Messages, Recalled, SameClients
  <2>5. Sleepers' BY <1>2, <2>1, Zenon DEF IInv, Calls, Sleepers, Recalled, Told, SameClients
  <2>6. Types' BY <1>2, <2>1, Zenon DEF IInv, Types, SameClients, Requests
  <2> QED BY <1>2, <2>2, <2>3, <2>4, <2>5, <2>6, Zenon DEF IInv, Calls
<1>6. CASE tty.outleft # 0 /\ client[cur].req.op = "writenb"
  <2>1. tty.outleft > 0 BY <1>1, <1>6 DEF IsLine
  <2>2. tty.outrepcode = "TASK_REPLY" /\ tty.outproc = cur BY <1>2, <2>1, Zenon DEF IInv, Calls, Writer
  <2>3. /\ IsLine(again) /\ KeepsIn(tty, again) /\ KeepsIo(tty, again) /\ again.outleft = 0
        /\ again.mail = Mail("TASK_REPLY", cur, "EAGAIN", 0)
    BY <1>1, Zenon DEF tty_reply, KeepsIn, KeepsIo, IsLine, LineFields
  <2> HIDE DEF again
  <2>4. tty' = again BY <1>4, <1>6, Zenon
  <2>5. WriteAnswered(tty, tty') BY <2>1, <2>2, <2>3, <2>4, Zenon DEF WriteAnswered
  <2>6. Calls' BY <1>2, <1>3, <2>5, WriteAnsweredLemma, Zenon
  <2>7. Types' BY <1>2, <2>3, <2>4, Zenon DEF IInv, Types, SameClients, Requests
  <2> QED BY <1>2, <2>6, <2>7, Zenon DEF IInv
<1>7. CASE tty.outleft # 0 /\ client[cur].req.op # "writenb"
  <2>1. tty.outleft > 0 BY <1>1, <1>7 DEF IsLine
  <2>2. /\ tty.outproc = cur /\ cur \in Clients /\ client[cur].st = "waiting"
        /\ client[cur].req.op \in WriteOps
    BY <1>2, <2>1, Zenon DEF IInv, Calls, Writer, Awake
  <2>3. /\ IsLine(later) /\ KeepsIn(tty, later) /\ KeepsIo(tty, later)
        /\ later.outleft = tty.outleft /\ later.outproc = tty.outproc
        /\ later.outrepcode = "REVIVE"
        /\ later.mail = Mail("TASK_REPLY", cur, "SUSPEND", 0)
    BY <1>1, Zenon DEF tty_reply, KeepsIn, KeepsIo, IsLine, LineFields
  <2> HIDE DEF later
  <2>4. tty' = later BY <1>4, <1>7, Zenon
  <2>5. /\ tty'.mail # <<>> /\ Len(tty'.mail) = 1 /\ tty'.mail[1].type = "TASK_REPLY"
        /\ tty'.mail[1].to = cur /\ tty'.mail[1].status = "SUSPEND"
    BY <2>3, <2>4, MailFacts
  <2>6. (\A c : ~Told(c)) /\ (\A c : Told(c)' <=> c = cur) BY <1>2, <2>5, Zenon DEF Free, Told
  <2>7. Writer'
    BY <1>2, <2>2, <2>3, <2>4, <2>5, <2>6, Zenon DEF Writer, Asleep, Suspending, SameClients
  <2>8. Reader'
    BY <1>2, <2>1, <2>2, <2>3, <2>4, <2>6, Apart, ZenonT(60)
       DEF IInv, Calls, Reader, Asleep, Awake, Suspending, SameClients, KeepsIn
  <2>9. Drainer'
    BY <1>2, <2>1, <2>2, <2>3, <2>4, <2>6, Apart
      , Zenon DEF IInv, Calls, Drainer, Asleep, Suspending, SameClients, KeepsIo
  <2>10. Messages'
    <3>1. client'[cur].st = "waiting" BY <1>2, <2>2, Zenon DEF SameClients
    <3> QED BY <2>1, <2>2, <2>3, <2>4, <2>5, <3>1, Zenon DEF Messages, Recalled
  <2>11. Sleepers'
    BY <1>2, <2>2, <2>3, <2>4, <2>6
      , Zenon DEF IInv, Calls, Sleepers, Recalled, SameClients, KeepsIn, KeepsIo
  <2>12. Types' BY <1>2, <2>3, <2>4, Zenon DEF IInv, Types, SameClients, Requests
  <2> QED BY <1>2, <2>7, <2>8, <2>9, <2>10, <2>11, <2>12, Zenon DEF IInv, Calls
<1> QED BY <1>5, <1>6, <1>7, Zenon

-----------------------------------------------------------------------------
(* Requests *)

\* With the task about to receive, the records name suspended callers.
LEMMA Resting ==
    ASSUME IInv, Free, pc = "receive"
    PROVE  /\ ~Reading /\ ~Writing
           /\ tty.inleft > 0 => /\ tty.inproc \in Clients /\ tty.inrepcode = "REVIVE"
                                /\ client[tty.inproc].st = "suspended"
                                /\ client[tty.inproc].req.op \in ReadOps
           /\ tty.outleft > 0 => /\ tty.outproc \in Clients /\ tty.outrepcode = "REVIVE"
                                 /\ client[tty.outproc].st = "suspended"
                                 /\ client[tty.outproc].req.op \in WriteOps
           /\ tty.ioreq.op # "none" => /\ tty.ioproc \in Clients
                                       /\ client[tty.ioproc].st = "suspended"
                                       /\ client[tty.ioproc].req.op \in Waits
           /\ \A e \in Clients : client[e].st = "suspended" => Recalled(e)
<1>1. ~Reading /\ ~Writing BY Zenon DEF Reading, Writing, Handling
<1>2. \A c : ~Told(c) /\ ~Suspending(c) BY Zenon DEF Free, Told, Suspending
<1> QED BY <1>1, <1>2, Zenon DEF IInv, Calls, Reader, Writer, Drainer, Sleepers, Asleep

\* The state of c becomes "waiting", the rest of the callers stays.
Accepts(c) ==
    /\ client' \in [Clients -> Caller]
    /\ client'[c].st = "waiting"
    /\ \A e \in Clients : client'[e].req = client[e].req
    /\ \A e \in Clients \ {c} : client'[e].st = client[e].st

LEMMA AcceptsLemma ==
    ASSUME IInv, NEW c \in Clients, client' = [client EXCEPT ![c].st = "waiting"]
    PROVE  Accepts(c)
BY DEF IInv, Types, Accepts, Caller, States

LEMMA AcceptTypes ==
    ASSUME IInv, NEW c \in Clients, Accepts(c), session' = session, IsLine(tty')
    PROVE  Types'
BY Zenon DEF IInv, Types, Accepts, Requests

\* The request is answered at once.
LEMMA Replied ==
    ASSUME IInv, Free, pc = "receive", NEW c \in Clients, client[c].st = "sending",
           session' = session, Accepts(c), pc' = "main", ret' = ret,
           IsLine(tty'), KeepsIn(tty, tty'), KeepsOut(tty, tty'), KeepsIo(tty, tty'),
           NEW s, s # "SUSPEND", tty'.mail = Mail("TASK_REPLY", c, s, 0)
    PROVE  IInv'
<1>1. /\ tty'.mail # <<>> /\ Len(tty'.mail) = 1 /\ tty'.mail[1].type = "TASK_REPLY"
      /\ tty'.mail[1].to = c /\ tty'.mail[1].status = s
  BY MailFacts
<1>2. ~Reading' /\ ~Writing' /\ Control'
  BY Zenon DEF Reading, Writing, Handling, IInv, Control, Labels
<1>3. \A e : Told(e)' <=> e = c BY <1>1, Zenon DEF Told
<1>4. Reader' BY <1>2, <1>3, Resting DEF Reader, Asleep, Accepts, KeepsIn
<1>5. Writer' BY <1>2, <1>3, Resting, Zenon DEF Writer, Asleep, Accepts, KeepsOut
<1>6. Drainer' BY <1>3, Resting, Zenon DEF Drainer, Asleep, Accepts, KeepsIo
<1>7. Messages' BY <1>1, Zenon DEF Messages, Accepts
<1>8. Sleepers'
  BY Resting, Zenon DEF Sleepers, Recalled, Accepts, KeepsIn, KeepsOut, KeepsIo
<1>9. Types' BY AcceptTypes, Zenon
<1> QED BY <1>2, <1>4, <1>5, <1>6, <1>7, <1>8, <1>9, ZenonT(60) DEF IInv, Calls

\* The request waits for the output; nobody else's does.
LEMMA Waited ==
    ASSUME IInv, Free, pc = "receive", NEW c \in Clients, client[c].st = "sending",
           session' = session, Accepts(c), pc' = "main", ret' = ret,
           IsLine(tty'), KeepsIn(tty, tty'), KeepsOut(tty, tty'),
           client[c].req.op \in Waits, tty'.ioreq = client[c].req, tty'.ioproc = c,
           tty'.mail = Mail("TASK_REPLY", c, "SUSPEND", 0)
    PROVE  IInv'
<1>1. /\ tty'.mail # <<>> /\ Len(tty'.mail) = 1 /\ tty'.mail[1].type = "TASK_REPLY"
      /\ tty'.mail[1].to = c /\ tty'.mail[1].status = "SUSPEND"
  BY MailFacts
<1>2. ~Reading' /\ ~Writing' /\ Control'
  BY Zenon DEF Reading, Writing, Handling, IInv, Control, Labels
<1>3. \A e : Told(e)' <=> e = c BY <1>1, Zenon DEF Told
<1>4. Reader' BY <1>2, <1>3, Resting, Zenon DEF Reader, Asleep, Accepts, KeepsIn
<1>5. Writer' BY <1>2, <1>3, Resting DEF Writer, Asleep, Accepts, KeepsOut
<1>6. Drainer' BY <1>1, <1>3, Zenon DEF Drainer, Asleep, Suspending, Accepts
<1>7. tty'.ioreq.op # "none" BY Zenon DEF Waits
<1>8. Messages' BY <1>1, <1>7, Zenon DEF Messages, Recalled, Accepts
<1>9. tty.ioreq.op = "none"
  <2>1. SUFFICES ASSUME tty.ioreq.op # "none" PROVE FALSE OBVIOUS
  <2>2. /\ tty.ioproc \in Clients /\ client[tty.ioproc].st = "suspended"
        /\ client[tty.ioproc].req.op \in Waits
    BY <2>1, Resting, Zenon
  <2>3. \A e \in Clients : client[e].req.op \in Waits => session.requests[e] \cap Waits # {}
    <3>1. \A e \in Clients : client[e].req.op \in session.requests[e] \cup {"none"}
      BY Zenon DEF IInv, Types, Requests
    <3> QED BY <3>1, Zenon DEF Waits
  <2>4. tty.ioproc = c
    <3>1. session \in Sessions BY Zenon DEF IInv, Types
    <3> QED BY <2>2, <2>3, <3>1, TtyAssumption, Zenon
  <2> QED BY <2>2, <2>4, Zenon
<1>10. Sleepers'
  BY <1>9, Resting DEF Sleepers, Recalled, Accepts, KeepsIn, KeepsOut
<1>11. Types' BY AcceptTypes, Zenon
<1> QED BY <1>2, <1>4, <1>5, <1>6, <1>8, <1>10, <1>11, Zenon DEF IInv, Calls

\* A read begins.
LEMMA ReadBegun ==
    ASSUME IInv, Free, pc = "receive", NEW c \in Clients, client[c].st = "sending",
           session' = session, Accepts(c), pc' = "read", ret' = ret, cur' = c,
           IsLine(tty'), KeepsOut(tty, tty'), KeepsIo(tty, tty'), tty'.mail = tty.mail,
           client[c].req.op \in ReadOps, tty.inleft = 0, tty'.inproc = c,
           tty'.inrepcode = "TASK_REPLY"
    PROVE  IInv'
<1>1. Reading' /\ ~Writing' /\ Control'
  BY Zenon DEF Reading, Writing, Handling, IInv, Control, Labels
<1>2. \A e : ~Told(e)' BY Zenon DEF Told, Free
<1>3. Reader' BY <1>1, <1>2, Zenon DEF Reader, Awake, Accepts
<1>4. Writer' BY <1>1, <1>2, Resting, Zenon DEF Writer, Asleep, Accepts, KeepsOut
<1>5. Drainer' BY <1>2, Resting DEF Drainer, Asleep, Accepts, KeepsIo
<1>6. Messages' BY Zenon DEF Messages, Free
<1>7. Sleepers' BY Resting DEF Sleepers, Recalled, Accepts, KeepsOut, KeepsIo
<1>8. Types' BY AcceptTypes, Zenon
<1> QED BY <1>1, <1>3, <1>4, <1>5, <1>6, <1>7, <1>8, ZenonT(60) DEF IInv, Calls

\* A write begins.
LEMMA WriteBegun ==
    ASSUME IInv, Free, pc = "receive", NEW c \in Clients, client[c].st = "sending",
           session' = session, Accepts(c), pc' = "events", ret' = "writetail", cur' = c,
           IsLine(tty'), KeepsIn(tty, tty'), KeepsIo(tty, tty'), tty'.mail = tty.mail,
           client[c].req.op \in WriteOps, tty.outleft = 0, tty'.outproc = c,
           tty'.outrepcode = "TASK_REPLY"
    PROVE  IInv'
<1>1. Writing' /\ ~Reading' /\ Control'
  BY Zenon DEF Reading, Writing, Handling, IInv, Control, Labels
<1>2. \A e : ~Told(e)' BY Zenon DEF Told, Free
<1>3. Writer' BY <1>1, <1>2, ZenonT(60) DEF Writer, Awake, Accepts
<1>4. Reader' BY <1>1, <1>2, Resting, Zenon DEF Reader, Asleep, Accepts, KeepsIn
<1>5. Drainer' BY <1>2, Resting DEF Drainer, Asleep, Accepts, KeepsIo
<1>6. Messages' BY Zenon DEF Messages, Free
<1>7. Sleepers' BY Resting DEF Sleepers, Recalled, Accepts, KeepsIn, KeepsIo
<1>8. Types' BY AcceptTypes, Zenon
<1> QED BY <1>1, <1>3, <1>4, <1>5, <1>6, <1>7, <1>8, ZenonT(60) DEF IInv, Calls

\* What tty_reply changes.
LEMMA ReplyLemma ==
    ASSUME NEW t, IsLine(t), NEW type, NEW to, NEW status
    PROVE  LET u == tty_reply(t, type, to, status)
           IN  /\ IsLine(u) /\ KeepsIn(t, u) /\ KeepsOut(t, u) /\ KeepsIo(t, u)
               /\ u.mail = Mail(type, to, status, 0) /\ u.openct = t.openct
BY Zenon DEF tty_reply, IsLine, LineFields, KeepsIn, KeepsOut, KeepsIo

\* The operation left the calls alone and was answered.
Answered(t, u, c) ==
    /\ IsLine(u) /\ KeepsIn(t, u) /\ KeepsOut(t, u) /\ KeepsIo(t, u)
    /\ \E s : s # "SUSPEND" /\ u.mail = Mail("TASK_REPLY", c, s, 0)

LEMMA AnsweredLemma ==
    ASSUME NEW t, NEW u, Keeps(t, u), NEW c, NEW s, s # "SUSPEND"
    PROVE  Answered(t, tty_reply(u, "TASK_REPLY", c, s), c)
<1> DEFINE v == tty_reply(u, "TASK_REPLY", c, s)
<1>1. IsLine(u) /\ KeepsIn(t, u) /\ KeepsOut(t, u) /\ KeepsIo(t, u) BY Zenon DEF Keeps
<1>2. /\ IsLine(v) /\ KeepsIn(u, v) /\ KeepsOut(u, v) /\ KeepsIo(u, v)
      /\ v.mail = Mail("TASK_REPLY", c, s, 0)
  BY <1>1, ReplyLemma, Zenon
<1> HIDE DEF v
<1>3. KeepsIn(t, v) /\ KeepsOut(t, v) /\ KeepsIo(t, v)
  BY <1>1, <1>2, Zenon DEF KeepsIn, KeepsOut, KeepsIo
<1>4. Answered(t, v, c) BY <1>2, <1>3, Zenon DEF Answered
<1> QED BY <1>4, Zenon DEF v

LEMMA ReadRequest ==
    ASSUME NEW t, IsLine(t), NEW c, NEW r, r.n \in Nat
    PROVE  LET u == do_read(t, c, r)
           IN  \/ Answered(t, u, c)
               \/ /\ IsLine(u) /\ KeepsOut(t, u) /\ KeepsIo(t, u) /\ u.mail = t.mail
                  /\ t.inleft = 0 /\ u.inproc = c /\ u.inrepcode = "TASK_REPLY"
<1> DEFINE asked == [t EXCEPT !.inrepcode = "TASK_REPLY", !.inproc = c, !.inleft = r.n]
           Begun(u) == /\ IsLine(u) /\ KeepsOut(t, u) /\ KeepsIo(t, u) /\ u.mail = t.mail
                       /\ u.inproc = c /\ u.inrepcode = "TASK_REPLY"
<1>1. Keeps(t, t) BY KeepsSelf, Zenon
<1>2. /\ Answered(t, tty_reply(t, "TASK_REPLY", c, "EIO"), c)
      /\ Answered(t, tty_reply(t, "TASK_REPLY", c, "EINVAL"), c)
      /\ Answered(t, tty_reply(t, "TASK_REPLY", c, "EFAULT"), c)
  BY <1>1, AnsweredLemma, Zenon
<1>3. Begun(asked) BY Zenon DEF IsLine, LineFields, KeepsOut, KeepsIo
<1> HIDE DEF asked
<1>4. ASSUME NEW on, NEW m
      PROVE  Begun([settimer(asked, on) EXCEPT !.min = m])
  BY <1>3, Zenon DEF settimer, IsLine, LineFields, KeepsOut, KeepsIo
<1>5. t.inleft > 0 \/ t.inleft = 0 BY DEF IsLine
<1> HIDE DEF Begun
<1>6. \/ Answered(t, do_read(t, c, r), c)
      \/ Begun(do_read(t, c, r)) /\ t.inleft = 0
  BY <1>2, <1>3, <1>4, <1>5, Zenon DEF do_read, asked
<1> QED BY <1>6, Zenon DEF Begun

LEMMA WriteRequest ==
    ASSUME NEW t, IsLine(t), NEW c, NEW r, r.n \in Nat
    PROVE  LET u == do_write(t, c, r)
           IN  \/ Answered(t, u, c)
               \/ /\ IsLine(u) /\ KeepsIn(t, u) /\ KeepsIo(t, u) /\ u.mail = t.mail
                  /\ t.outleft = 0 /\ u.outproc = c /\ u.outrepcode = "TASK_REPLY"
<1> DEFINE asked == [t EXCEPT !.outrepcode = "TASK_REPLY", !.outproc = c, !.outleft = r.n]
<1>1. Keeps(t, t) BY KeepsSelf, Zenon
<1>2. /\ Answered(t, tty_reply(t, "TASK_REPLY", c, "EIO"), c)
      /\ Answered(t, tty_reply(t, "TASK_REPLY", c, "EINVAL"), c)
      /\ Answered(t, tty_reply(t, "TASK_REPLY", c, "EFAULT"), c)
  BY <1>1, AnsweredLemma, Zenon
<1>3. /\ IsLine(asked) /\ KeepsIn(t, asked) /\ KeepsIo(t, asked) /\ asked.mail = t.mail
      /\ asked.outproc = c /\ asked.outrepcode = "TASK_REPLY"
  BY Zenon DEF IsLine, LineFields, KeepsIn, KeepsIo
<1> HIDE DEF asked
<1>4. t.outleft > 0 \/ t.outleft = 0 BY DEF IsLine
<1> QED BY <1>2, <1>3, <1>4, Zenon DEF do_write, asked

LEMMA IoctlRequest ==
    ASSUME NEW t, IsLine(t), NEW c, NEW r
    PROVE  LET u == do_ioctl(t, c, r)
           IN  \/ Answered(t, u, c)
               \/ /\ IsLine(u) /\ KeepsIn(t, u) /\ KeepsOut(t, u)
                  /\ r.op \in Waits /\ u.ioreq = r /\ u.ioproc = c
                  /\ u.mail = Mail("TASK_REPLY", c, "SUSPEND", 0)
<1> DEFINE ok(u) == tty_reply(u, "TASK_REPLY", c, "OK")
           later == [tty_reply(t, "TASK_REPLY", c, "SUSPEND") EXCEPT !.ioreq = r, !.ioproc = c]
           flow(b) == [t EXCEPT !.inhibited = b, !.events = TRUE]
<1>1. Keeps(t, t) BY KeepsSelf, Zenon
<1>2. Answered(t, tty_reply(t, "TASK_REPLY", c, "EFAULT"), c) BY <1>1, AnsweredLemma, Zenon
<1>3. ASSUME NEW u, Keeps(t, u) PROVE Answered(t, ok(u), c) BY <1>3, AnsweredLemma, Zenon
<1>4. Keeps(t, tty_icancel(t)) /\ IsLine(tty_icancel(t)) BY ClearKeeps, Zenon DEF Keeps
<1>5. Keeps(t, Install(t, r.attr)) BY InstallKeeps, Zenon
<1>6. Keeps(t, Install(tty_icancel(t), r.attr)) BY <1>4, InstallKeeps, KeepsTrans, Zenon
<1>7. Keeps(t, flow(r.op = "stop"))
  BY Zenon DEF Keeps, IsLine, LineFields, KeepsIn, KeepsOut, KeepsIo
<1>8. /\ IsLine(later) /\ KeepsIn(t, later) /\ KeepsOut(t, later)
      /\ later.ioreq = r /\ later.ioproc = c
      /\ later.mail = Mail("TASK_REPLY", c, "SUSPEND", 0)
  BY Zenon DEF tty_reply, IsLine, LineFields, KeepsIn, KeepsOut
<1>9. \/ do_ioctl(t, c, r) = tty_reply(t, "TASK_REPLY", c, "EFAULT")
      \/ do_ioctl(t, c, r) = later /\ r.op \in Waits
      \/ do_ioctl(t, c, r) = ok(t)
      \/ do_ioctl(t, c, r) = ok(Install(t, r.attr))
      \/ do_ioctl(t, c, r) = ok(Install(tty_icancel(t), r.attr))
      \/ do_ioctl(t, c, r) = ok(tty_icancel(t))
      \/ do_ioctl(t, c, r) = ok(flow(r.op = "stop"))
  BY Zenon DEF do_ioctl
<1> HIDE DEF later, ok, flow
<1> QED BY <1>1, <1>2, <1>3, <1>4, <1>5, <1>6, <1>7, <1>8, <1>9, Zenon

LEMMA OpenClose ==
    ASSUME NEW t, IsLine(t), NEW c
    PROVE  Answered(t, do_open(t, c), c) /\ Answered(t, do_close(t, c), c)
<1> DEFINE v == tty_reply(t, "TASK_REPLY", c, "OK")
           more == [v EXCEPT !.openct = @ + 1]
           less == [v EXCEPT !.openct = @ - 1]
<1>1. /\ IsLine(v) /\ KeepsIn(t, v) /\ KeepsOut(t, v) /\ KeepsIo(t, v)
      /\ v.mail = Mail("TASK_REPLY", c, "OK", 0)
  BY ReplyLemma, Zenon
<1> HIDE DEF v
<1>2. Keeps(v, more) /\ Keeps(v, less)
  BY <1>1, Zenon DEF Keeps, IsLine, LineFields, KeepsIn, KeepsOut, KeepsIo
<1>3. IsLine(less) BY <1>2, Zenon DEF Keeps
<1> HIDE DEF more, less
<1>4. Keeps(less, tty_icancel(less)) BY <1>3, ClearKeeps, Zenon
<1>5. IsLine(tty_icancel(less)) BY <1>4, Zenon DEF Keeps
<1>6. Keeps(v, tty_icancel(less)) BY <1>2, <1>4, KeepsTrans, Zenon
<1>7. Keeps(v, Install(tty_icancel(less), Default)) BY <1>5, <1>6, InstallKeeps, KeepsTrans, Zenon
<1>8. ASSUME NEW u, Keeps(v, u) PROVE Answered(t, u, c)
  <2>1. KeepsIn(t, u) /\ KeepsOut(t, u) /\ KeepsIo(t, u)
    BY <1>1, <1>8, Zenon DEF Keeps, KeepsIn, KeepsOut, KeepsIo
  <2>2. IsLine(u) /\ u.mail = Mail("TASK_REPLY", c, "OK", 0) BY <1>1, <1>8, Zenon DEF Keeps
  <2> QED BY <2>1, <2>2, Zenon DEF Answered
<1>9. do_open(t, c) = more BY Zenon DEF do_open, more, v
<1>10. do_close(t, c) = less \/ do_close(t, c) = Install(tty_icancel(less), Default)
  BY Zenon DEF do_close, less, v
<1> QED BY <1>2, <1>7, <1>8, <1>9, <1>10, Zenon

\* do_cancel forgets the calls that r names and keeps the others.
LEMMA CancelRequest ==
    ASSUME NEW t, IsLine(t), NEW c, NEW r
    PROVE  LET u == do_cancel(t, c, r)
           IN  /\ IsLine(u)
               /\ IF CancelsRead(t, r) THEN u.inleft = 0 ELSE KeepsIn(t, u)
               /\ IF CancelsWrite(t, r) THEN u.outleft = 0 ELSE KeepsOut(t, u)
               /\ IF CancelsWait(t, r) THEN u.ioreq.op = "none" ELSE KeepsIo(t, u)
               /\ u.mail = Mail("TASK_REPLY", c, "EINTR", 0)
<1> DEFINE t0 == tty_icancel(t)
           a1 == [t0 EXCEPT !.inleft = 0, !.incum = <<>>]
           t1 == IF CancelsRead(t, r) THEN a1 ELSE t
           a2 == [t1 EXCEPT !.outleft = 0]
           t2 == IF CancelsWrite(t, r) THEN a2 ELSE t1
           a3 == [t2 EXCEPT !.ioreq = NoRequest]
           t3 == IF CancelsWait(t, r) THEN a3 ELSE t2
           t4 == [t3 EXCEPT !.events = TRUE]
           u == do_cancel(t, c, r)
<1>1. u = tty_reply(t4, "TASK_REPLY", c, "EINTR") BY Zenon DEF do_cancel
<1>2. Keeps(t, t0) BY ClearKeeps, Zenon
<1> HIDE DEF t0, u
<1>3. /\ IsLine(a1) /\ a1.inleft = 0 /\ KeepsOut(t, a1) /\ KeepsIo(t, a1)
  BY <1>2, Zenon DEF Keeps, IsLine, LineFields, KeepsOut, KeepsIo
<1> HIDE DEF a1
<1>4. /\ IsLine(t1) /\ KeepsOut(t, t1) /\ KeepsIo(t, t1)
      /\ IF CancelsRead(t, r) THEN t1.inleft = 0 ELSE KeepsIn(t, t1)
  BY <1>3, Zenon DEF KeepsIn, KeepsOut, KeepsIo
<1> HIDE DEF t1
<1>5. /\ IsLine(a2) /\ KeepsIo(t1, a2) /\ KeepsIn(t1, a2) /\ a2.outleft = 0
  BY <1>4, Zenon DEF IsLine, LineFields, KeepsIn, KeepsIo
<1> HIDE DEF a2
<1>6. /\ IsLine(t2) /\ KeepsIo(t, t2) /\ KeepsIn(t1, t2)
      /\ IF CancelsWrite(t, r) THEN t2.outleft = 0 ELSE KeepsOut(t, t2)
  BY <1>4, <1>5, Zenon DEF KeepsIn, KeepsIo
<1> HIDE DEF t2
<1>7. /\ IsLine(a3) /\ KeepsIn(t2, a3) /\ KeepsOut(t2, a3) /\ a3.ioreq.op = "none"
  BY <1>6, Zenon DEF IsLine, LineFields, KeepsIn, KeepsOut, NoRequest
<1> HIDE DEF a3
<1>8. /\ IsLine(t3) /\ KeepsIn(t2, t3) /\ KeepsOut(t2, t3)
      /\ IF CancelsWait(t, r) THEN t3.ioreq.op = "none"
         ELSE KeepsIo(t, t3)
  BY <1>6, <1>7, Zenon DEF KeepsIn, KeepsOut
<1> HIDE DEF t3
<1>9. Keeps(t3, t4) BY <1>8, FlagsKeep, Zenon
<1> HIDE DEF t4
<1>10. /\ IsLine(u) /\ KeepsIn(t4, u) /\ KeepsOut(t4, u) /\ KeepsIo(t4, u)
       /\ u.mail = Mail("TASK_REPLY", c, "EINTR", 0)
  BY <1>1, <1>9, ReplyLemma, Zenon DEF Keeps
<1>11. KeepsIn(t1, u) /\ KeepsOut(t2, u) /\ KeepsIo(t3, u)
  BY <1>6, <1>8, <1>9, <1>10, Zenon DEF Keeps, KeepsIn, KeepsOut, KeepsIo
<1>12. IF CancelsRead(t, r) THEN u.inleft = 0 ELSE KeepsIn(t, u) BY <1>4, <1>11, Zenon DEF KeepsIn
<1>13. IF CancelsWrite(t, r) THEN u.outleft = 0 ELSE KeepsOut(t, u)
  BY <1>6, <1>11, Zenon DEF KeepsOut
<1>14. IF CancelsWait(t, r) THEN u.ioreq.op = "none" ELSE KeepsIo(t, u)
  BY <1>8, <1>11, Zenon DEF KeepsIo
<1> QED BY <1>10, <1>12, <1>13, <1>14, Zenon DEF u

\* The caller of a cancelled call has no other one: what is left is of others.
LEMMA CancelledCall ==
    ASSUME IInv, Free, pc = "receive", NEW c, NEW r, NEW w, w = r.whom, Cancels(tty, r),
           tty' = do_cancel(tty, c, r)
    PROVE  /\ IsLine(tty')
           /\ tty'.inleft > 0 => tty.inleft > 0 /\ KeepsIn(tty, tty') /\ tty.inproc # w
           /\ tty.inleft > 0 /\ tty.inproc # w => KeepsIn(tty, tty')
           /\ tty'.outleft > 0 => tty.outleft > 0 /\ KeepsOut(tty, tty') /\ tty.outproc # w
           /\ tty.outleft > 0 /\ tty.outproc # w => KeepsOut(tty, tty')
           /\ tty'.ioreq.op # "none" =>
                 tty.ioreq.op # "none" /\ KeepsIo(tty, tty') /\ tty.ioproc # w
           /\ tty.ioreq.op # "none" /\ tty.ioproc # w => KeepsIo(tty, tty')
           /\ tty'.mail = Mail("TASK_REPLY", c, "EINTR", 0)
<1>1. IsLine(tty) BY Zenon DEF IInv, Types
<1>2. /\ IsLine(tty')
      /\ IF CancelsRead(tty, r) THEN tty'.inleft = 0 ELSE KeepsIn(tty, tty')
      /\ IF CancelsWrite(tty, r) THEN tty'.outleft = 0 ELSE KeepsOut(tty, tty')
      /\ IF CancelsWait(tty, r) THEN tty'.ioreq.op = "none" ELSE KeepsIo(tty, tty')
      /\ tty'.mail = Mail("TASK_REPLY", c, "EINTR", 0)
  BY <1>1, CancelRequest
<1>3. tty.inleft \in Nat /\ tty.outleft \in Nat BY <1>1, Zenon DEF IsLine
<1>4. (tty.inleft # 0 <=> tty.inleft > 0) /\ (tty.outleft # 0 <=> tty.outleft > 0) /\ ~(0 > 0)
  BY <1>3
<1>5. /\ CancelsRead(tty, r) => tty.inleft > 0 /\ tty.inproc = w
      /\ CancelsWrite(tty, r) => tty.outleft > 0 /\ tty.outproc = w
      /\ CancelsWait(tty, r) => tty.ioreq.op # "none" /\ tty.ioproc = w
  BY <1>4, Zenon DEF CancelsRead, CancelsWrite, CancelsWait
<1>6. CancelsRead(tty, r) \/ CancelsWrite(tty, r) \/ CancelsWait(tty, r) BY Zenon DEF Cancels
<1>7. /\ CancelsRead(tty, r) => client[w].req.op \in ReadOps
      /\ CancelsWrite(tty, r) => client[w].req.op \in WriteOps
      /\ CancelsWait(tty, r) => client[w].req.op \in Waits
  BY <1>5, Resting, Zenon
<1>8. \A op : /\ op \in ReadOps => op \notin WriteOps /\ op \notin Waits
              /\ op \in WriteOps => op \notin Waits
  BY Zenon DEF ReadOps, WriteOps, Waits
<1>9. /\ tty.inleft > 0 /\ tty.inproc = w => client[w].req.op \in ReadOps
      /\ tty.outleft > 0 /\ tty.outproc = w => client[w].req.op \in WriteOps
      /\ tty.ioreq.op # "none" /\ tty.ioproc = w => client[w].req.op \in Waits
  BY Resting, Zenon
<1>10. /\ tty.inleft > 0 /\ tty.inproc = w => CancelsRead(tty, r)
       /\ tty.outleft > 0 /\ tty.outproc = w => CancelsWrite(tty, r)
       /\ tty.ioreq.op # "none" /\ tty.ioproc = w => CancelsWait(tty, r)
  BY <1>6, <1>7, <1>8, <1>9, Zenon
<1>11. /\ tty'.inleft > 0 => tty.inleft > 0 /\ KeepsIn(tty, tty') /\ tty.inproc # w
       /\ tty.inleft > 0 /\ tty.inproc # w => KeepsIn(tty, tty')
  BY <1>2, <1>4, <1>5, <1>10, Zenon DEF KeepsIn
<1>12. /\ tty'.outleft > 0 => tty.outleft > 0 /\ KeepsOut(tty, tty') /\ tty.outproc # w
       /\ tty.outleft > 0 /\ tty.outproc # w => KeepsOut(tty, tty')
  BY <1>2, <1>4, <1>5, <1>10, Zenon DEF KeepsOut
<1>13. /\ tty'.ioreq.op # "none" =>
             tty.ioreq.op # "none" /\ KeepsIo(tty, tty') /\ tty.ioproc # w
       /\ tty.ioreq.op # "none" /\ tty.ioproc # w => KeepsIo(tty, tty')
  BY <1>2, <1>5, <1>10, Zenon DEF KeepsIo
<1> QED BY <1>2, <1>11, <1>12, <1>13, Zenon

\* The caller c waits; the call of w, another caller, is over.
Frees(c, w) ==
    /\ client' \in [Clients -> Caller]
    /\ \A e \in Clients : client'[e].req = client[e].req
    /\ client'[c].st = "waiting"
    /\ \A e \in Clients \ {c, w} : client'[e].st = client[e].st
    /\ w \in Clients => client'[w].st # "suspended"

LEMMA FreesLemma ==
    ASSUME IInv, NEW c \in Clients, NEW w \in Clients, w # c,
           client' = [[client EXCEPT ![c].st = "waiting"] EXCEPT ![w].st = "idle"]
    PROVE  Frees(c, w)
<1>1. client \in [Clients -> Caller] BY Zenon DEF IInv, Types
<1>2. client[c] \in Caller /\ client[w] \in Caller BY <1>1, Zenon
<1> DEFINE a == [client[c] EXCEPT !.st = "waiting"]
           b == [client[w] EXCEPT !.st = "idle"]
<1>3. /\ a \in Caller /\ a.st = "waiting" /\ a.req = client[c].req
      /\ b \in Caller /\ b.st = "idle" /\ b.req = client[w].req
  BY <1>2, Zenon DEF Caller, States
<1>4. client' = [e \in Clients |-> IF e = w THEN b ELSE IF e = c THEN a ELSE client[e]]
  BY <1>1, Zenon
<1> HIDE DEF a, b
<1>5. /\ client' \in [Clients -> Caller] /\ client'[c] = a /\ client'[w] = b
      /\ \A e \in Clients \ {c, w} : client'[e] = client[e]
  BY <1>1, <1>3, <1>4, Zenon
<1>6. \A e \in Clients : e = c \/ e = w \/ e \in Clients \ {c, w} OBVIOUS
<1> QED BY <1>3, <1>5, <1>6, Zenon DEF Frees

LEMMA Cancelled ==
    ASSUME IInv, Free, pc = "receive", NEW c \in Clients, client[c].st = "sending",
           session' = session, pc' = "main", ret' = ret, tty' = do_cancel(tty, c, client[c].req),
           NEW w, w = client[c].req.whom, Cancels(tty, client[c].req), Frees(c, w)
    PROVE  IInv'
<1>2. /\ IsLine(tty')
      /\ tty'.inleft > 0 => tty.inleft > 0 /\ KeepsIn(tty, tty') /\ tty.inproc # w
      /\ tty.inleft > 0 /\ tty.inproc # w => KeepsIn(tty, tty')
      /\ tty'.outleft > 0 => tty.outleft > 0 /\ KeepsOut(tty, tty') /\ tty.outproc # w
      /\ tty.outleft > 0 /\ tty.outproc # w => KeepsOut(tty, tty')
      /\ tty'.ioreq.op # "none" => tty.ioreq.op # "none" /\ KeepsIo(tty, tty') /\ tty.ioproc # w
      /\ tty.ioreq.op # "none" /\ tty.ioproc # w => KeepsIo(tty, tty')
      /\ tty'.mail = Mail("TASK_REPLY", c, "EINTR", 0)
  BY CancelledCall, Zenon
<1>3. /\ client' \in [Clients -> Caller]
      /\ \A e \in Clients : client'[e].req = client[e].req
      /\ client'[c].st = "waiting"
      /\ \A e \in Clients \ {c, w} : client'[e].st = client[e].st
      /\ w \in Clients => client'[w].st # "suspended"
  BY Zenon DEF Frees
<1>4. /\ tty'.mail # <<>> /\ Len(tty'.mail) = 1 /\ tty'.mail[1].type = "TASK_REPLY"
      /\ tty'.mail[1].to = c /\ tty'.mail[1].status = "EINTR"
  BY <1>2, MailFacts
<1>5. ~Reading' /\ ~Writing' /\ Control'
  BY Zenon DEF Reading, Writing, Handling, IInv, Control, Labels
<1>6. \A e : Told(e)' <=> e = c BY <1>4, Zenon DEF Told
<1>7. ASSUME NEW e \in Clients, e # w, client[e].st = "suspended"
      PROVE  /\ client'[e].st = "suspended" /\ client'[e].req = client[e].req
             /\ e # tty'.mail[1].to
  BY <1>3, <1>4, <1>7, Zenon
<1>8. Reader'
  <2>1. CASE tty'.inleft > 0
    <3>1. tty.inleft > 0 /\ KeepsIn(tty, tty') /\ tty.inproc # w BY <1>2, <2>1, Zenon
    <3>2. /\ tty.inproc \in Clients /\ client[tty.inproc].st = "suspended"
          /\ client[tty.inproc].req.op \in ReadOps /\ tty.inrepcode = "REVIVE"
      BY <3>1, Resting, Zenon
    <3>3. /\ client'[tty.inproc].st = "suspended" /\ tty.inproc # tty'.mail[1].to
          /\ client'[tty.inproc].req = client[tty.inproc].req
      BY <1>7, <3>1, <3>2, Zenon
    <3> QED BY <1>5, <3>1, <3>2, <3>3, Zenon DEF Reader, Asleep, Told, KeepsIn
  <2>2. CASE ~(tty'.inleft > 0) BY <2>2, Zenon DEF Reader
  <2> QED BY <2>1, <2>2, Zenon
<1>9. Writer'
  <2>1. CASE tty'.outleft > 0
    <3>1. tty.outleft > 0 /\ KeepsOut(tty, tty') /\ tty.outproc # w BY <1>2, <2>1, Zenon
    <3>2. /\ tty.outproc \in Clients /\ client[tty.outproc].st = "suspended"
          /\ client[tty.outproc].req.op \in WriteOps /\ tty.outrepcode = "REVIVE"
      BY <3>1, Resting, Zenon
    <3>3. /\ client'[tty.outproc].st = "suspended" /\ tty.outproc # tty'.mail[1].to
          /\ client'[tty.outproc].req = client[tty.outproc].req
      BY <1>7, <3>1, <3>2, Zenon
    <3> QED BY <1>5, <3>1, <3>2, <3>3, Zenon DEF Writer, Asleep, Told, KeepsOut
  <2>2. CASE ~(tty'.outleft > 0) BY <2>2, Zenon DEF Writer
  <2> QED BY <2>1, <2>2, ZenonT(60)
<1>10. Drainer'
  <2>1. CASE tty'.ioreq.op # "none"
    <3>1. tty.ioreq.op # "none" /\ KeepsIo(tty, tty') /\ tty.ioproc # w BY <1>2, <2>1, Zenon
    <3>2. /\ tty.ioproc \in Clients /\ client[tty.ioproc].st = "suspended"
          /\ client[tty.ioproc].req.op \in Waits
      BY <3>1, Resting, Zenon
    <3>3. /\ client'[tty.ioproc].st = "suspended" /\ tty.ioproc # tty'.mail[1].to
          /\ client'[tty.ioproc].req = client[tty.ioproc].req
      BY <1>7, <3>1, <3>2, Zenon
    <3> QED BY <1>5, <3>1, <3>2, <3>3, Zenon DEF Drainer, Asleep, Told, KeepsIo
  <2>2. CASE ~(tty'.ioreq.op # "none") BY <2>2, Zenon DEF Drainer
  <2> QED BY <2>1, <2>2, ZenonT(60)
<1>11. Messages' BY <1>3, <1>4, Zenon DEF Messages
<1>12. Sleepers'
  <2>1. SUFFICES ASSUME NEW e \in Clients, client'[e].st = "suspended" PROVE Recalled(e)'
    BY Zenon DEF Sleepers
  <2>2. e # w /\ e # c /\ client[e].st = "suspended" BY <1>3, <2>1, Zenon
  <2>3. Recalled(e) BY <2>2, Resting, Zenon
  <2> QED BY <1>2, <2>2, <2>3, Zenon DEF Recalled, KeepsIn, KeepsOut, KeepsIo
<1>13. Types' BY <1>2, <1>3, Zenon DEF IInv, Types, Requests
<1> QED BY <1>5, <1>8, <1>9, <1>10, <1>11, <1>12, <1>13, Zenon DEF IInv, Calls

LEMMA DispatchStep ==
    ASSUME IInv, NEW c \in Clients, Dispatch(c), session' = session
    PROVE  IInv'
<1> DEFINE r == client[c].req
           waiting == [client EXCEPT ![c].st = "waiting"]
<1>1. IsLine(tty) /\ r.n \in Nat BY Zenon DEF IInv, Types, Caller
<1>2. /\ Free /\ pc = "receive" /\ client[c].st = "sending" /\ tty.mail = <<>>
      /\ cur' = IF pc' = "main" THEN Nobody ELSE c
  BY Zenon DEF Dispatch, Free
<1>3. CASE r.op = "cancel"
  <2>1. tty' = do_cancel(tty, c, r) /\ pc' = "main" /\ ret' = ret
    BY <1>3, Zenon DEF Dispatch, Goto
  <2>2. CASE Cancels(tty, r)
    <3>1. tty.inleft \in Nat /\ tty.outleft \in Nat BY <1>1, Zenon DEF IsLine
    <3>2. tty.inleft # 0 => tty.inleft > 0 BY <3>1
    <3>3. tty.outleft # 0 => tty.outleft > 0 BY <3>1
    <3>4. r.whom \in Clients /\ client[r.whom].st = "suspended"
      BY <1>2, <2>2, <3>2, <3>3, Resting, Zenon
         DEF Cancels, CancelsRead, CancelsWrite, CancelsWait
    <3>5. r.whom # c BY <1>2, <3>4, Zenon
    <3>6. client' = [waiting EXCEPT ![r.whom].st = "idle"] BY <1>3, <2>2, Zenon DEF Dispatch
    <3>7. Frees(c, r.whom) BY <3>4, <3>5, <3>6, FreesLemma, ZenonT(30)
    <3> QED BY <1>2, <2>1, <2>2, <3>7, Cancelled, ZenonT(60)
  <2>3. CASE ~Cancels(tty, r)
    <3>1. client' = waiting BY <1>3, <2>3, Zenon DEF Dispatch
    <3>2. Accepts(c) BY <3>1, AcceptsLemma, Zenon
    <3>3. /\ IsLine(tty') /\ KeepsIn(tty, tty') /\ KeepsOut(tty, tty') /\ KeepsIo(tty, tty')
          /\ tty'.mail = Mail("TASK_REPLY", c, "EINTR", 0)
      BY <1>1, <2>1, <2>3, CancelRequest, Zenon DEF Cancels
    <3>4. \E s : s # "SUSPEND" /\ tty'.mail = Mail("TASK_REPLY", c, s, 0) BY <3>3, Zenon
    <3> QED BY <1>2, <2>1, <3>2, <3>3, <3>4, Replied, ZenonT(60)
  <2> QED BY <2>2, <2>3, Zenon
<1>4. r.op # "cancel" => Accepts(c)
  BY AcceptsLemma, Zenon DEF Dispatch
<1>5. ASSUME r.op # "cancel", Answered(tty, tty', c), pc' = "main", ret' = ret
      PROVE  IInv'
  BY <1>2, <1>4, <1>5, Replied, ZenonT(60) DEF Answered
<1>6. ASSUME Answered(tty, tty', c) PROVE tty'.mail # <<>>
  BY <1>6, MailFacts DEF Answered
<1>7. CASE r.op \in ReadOps
  <2>1. /\ tty' = do_read(tty, c, r) /\ ret' = ret
        /\ pc' = IF tty'.mail # <<>> THEN "main" ELSE "read"
    BY <1>7, Zenon DEF Dispatch, Goto, ReadOps
  <2>2. r.op # "cancel" BY <1>7, Zenon DEF ReadOps
  <2>3. \/ Answered(tty, tty', c)
        \/ /\ IsLine(tty') /\ KeepsOut(tty, tty') /\ KeepsIo(tty, tty') /\ tty'.mail = tty.mail
           /\ tty.inleft = 0 /\ tty'.inproc = c /\ tty'.inrepcode = "TASK_REPLY"
    BY <1>1, <2>1, ReadRequest
  <2>4. CASE Answered(tty, tty', c) BY <1>5, <1>6, <2>1, <2>2, <2>4, ZenonT(60)
  <2>5. CASE ~Answered(tty, tty', c)
    <3>1. pc' = "read" /\ cur' = c BY <1>2, <2>1, <2>3, <2>5, Zenon
    <3> QED BY <1>2, <1>4, <1>7, <2>1, <2>2, <2>3, <2>5, <3>1, ReadBegun, Zenon
  <2> QED BY <2>4, <2>5, Zenon
<1>8. CASE r.op \in WriteOps
  <2>1. /\ tty' = do_write(tty, c, r)
        /\ tty'.mail # <<>> => pc' = "main" /\ ret' = ret
        /\ tty'.mail = <<>> => pc' = "events" /\ ret' = "writetail"
    BY <1>8, Zenon DEF Dispatch, Goto, Events, WriteOps
  <2>2. r.op # "cancel" BY <1>8, Zenon DEF WriteOps
  <2>3. \/ Answered(tty, tty', c)
        \/ /\ IsLine(tty') /\ KeepsIn(tty, tty') /\ KeepsIo(tty, tty') /\ tty'.mail = tty.mail
           /\ tty.outleft = 0 /\ tty'.outproc = c /\ tty'.outrepcode = "TASK_REPLY"
    BY <1>1, <2>1, WriteRequest
  <2>4. CASE Answered(tty, tty', c) BY <1>5, <1>6, <2>1, <2>2, <2>4, ZenonT(60)
  <2>5. CASE ~Answered(tty, tty', c)
    <3>1. pc' = "events" /\ ret' = "writetail" /\ cur' = c BY <1>2, <2>1, <2>3, <2>5, Zenon
    <3> QED BY <1>2, <1>4, <1>8, <2>2, <2>3, <2>5, <3>1, WriteBegun, Zenon
  <2> QED BY <2>4, <2>5, Zenon
<1>9. CASE r.op \in {"open", "close", "other"}
  <2>1. /\ pc' = "main" /\ ret' = ret
        /\ tty' \in {do_open(tty, c), do_close(tty, c), tty_reply(tty, "TASK_REPLY", c, "EINVAL")}
    BY <1>9, Zenon DEF Dispatch, Goto
  <2>2. Answered(tty, tty_reply(tty, "TASK_REPLY", c, "EINVAL"), c)
    BY <1>1, KeepsSelf, AnsweredLemma, Zenon
  <2>3. Answered(tty, tty', c) BY <1>1, <2>1, <2>2, OpenClose, Zenon
  <2> QED BY <1>5, <1>9, <2>1, <2>3, ZenonT(60)
<1>10. CASE r.op \notin ReadOps \cup WriteOps \cup {"open", "close", "cancel", "other"}
  <2>1. pc' = "main" /\ ret' = ret /\ tty' = do_ioctl(tty, c, r)
    BY <1>10, Zenon DEF Dispatch, Goto, ReadOps, WriteOps
  <2>2. r.op # "cancel" BY <1>10, Zenon
  <2>3. \/ Answered(tty, tty', c)
        \/ /\ IsLine(tty') /\ KeepsIn(tty, tty') /\ KeepsOut(tty, tty')
           /\ r.op \in Waits /\ tty'.ioreq = r /\ tty'.ioproc = c
           /\ tty'.mail = Mail("TASK_REPLY", c, "SUSPEND", 0)
    BY <1>1, <2>1, IoctlRequest
  <2>4. CASE Answered(tty, tty', c) BY <1>5, <2>1, <2>2, <2>4, ZenonT(60)
  <2>5. CASE ~Answered(tty, tty', c) BY <1>2, <1>4, <2>1, <2>2, <2>3, <2>5, Waited, Zenon
  <2> QED BY <2>4, <2>5, Zenon
<1> QED BY <1>3, <1>7, <1>8, <1>9, <1>10, Zenon

-----------------------------------------------------------------------------
(* The callers *)

LEMMA CallStep ==
    ASSUME IInv, session' = session, NEW c \in Clients, NEW whom \in Clients,
           NEW op \in Requests[c], NEW n \in Sizes(op), NEW a \in Attributes \cup {Default},
           Call(c, op, n, a, whom)
    PROVE  IInv'
<1> DEFINE made == [st |-> "sending", req |-> [op |-> op, n |-> n, attr |-> a, whom |-> whom]]
<1>1. client[c].st = "idle" /\ client' = [client EXCEPT ![c] = made] BY Zenon DEF Call
<1>2. UNCHANGED <<tty, pc, ret, cur>> BY Zenon DEF Call
<1>3. op \in Ops
  <2>1. session.requests \in [Clients -> SUBSET Ops] BY TtyAssumption, Zenon DEF IInv, Types
  <2> QED BY <2>1, Zenon DEF Requests
<1>4. n \in Nat BY TtyAssumption DEF Sizes, R_BIT, W_BIT
<1>5. a \in Attrs BY Zenon DEF Attrs, Attributes, IInv, Types
<1>6. Types'
  <2>1. made \in Caller BY <1>3, <1>4, <1>5, Zenon DEF Caller, States
  <2>2. client' \in [Clients -> Caller] BY <1>1, <2>1, Zenon DEF IInv, Types
  <2>3. \A e \in Clients : client'[e].req.op \in Requests[e] \cup {"none"}
    BY <1>1, Zenon DEF IInv, Types
  <2> QED BY <1>2, <2>2, <2>3, Zenon DEF IInv, Types, Requests
<1>7. /\ \A e \in Clients \ {c} : client'[e] = client[e]
      /\ client'[c].st = "sending"
  BY <1>1, Zenon DEF IInv, Types
<1> HIDE DEF made
<1>8. Control' /\ SameRead /\ SameWrite BY <1>2, LineOnly, Zenon
<1>9. Reader'
  BY <1>1, <1>2, <1>7, <1>8, ZenonT(60) DEF IInv, Calls, Reader, Asleep, Awake, Told, Suspending, SameRead
<1>10. Writer'
  BY <1>1, <1>2, <1>7, <1>8, Zenon DEF IInv, Calls, Writer, Asleep, Awake, Told, Suspending, SameWrite
<1>11. Drainer'
  BY <1>1, <1>2, <1>7, Zenon DEF IInv, Calls, Drainer, Asleep, Told, Suspending
<1>12. Messages' BY <1>1, <1>2, <1>7, Zenon DEF IInv, Calls, Messages, Recalled
<1>13. Sleepers' BY <1>2, <1>7, Zenon DEF IInv, Calls, Sleepers, Recalled, Told
<1> QED BY <1>6, <1>8, <1>9, <1>10, <1>11, <1>12, <1>13, Zenon DEF IInv, Calls

LEMMA AnswerStep ==
    ASSUME IInv, session' = session, NEW c \in Clients, cp32_shell_tty_io(c)
    PROVE  IInv'
<1> DEFINE m == tty.mail[1]
           done == [st |-> "idle", req |-> NoRequest]
<1>1. /\ tty.mail # <<>> /\ m.to = c /\ tty' = [tty EXCEPT !.mail = <<>>]
      /\ client' = [client EXCEPT ![c] =
                      IF m.status = "SUSPEND" THEN [@ EXCEPT !.st = "suspended"] ELSE done]
      /\ UNCHANGED <<pc, ret, cur>>
  BY Zenon DEF cp32_shell_tty_io
<1>2. /\ IsLine(tty') /\ KeepsIn(tty, tty') /\ KeepsOut(tty, tty') /\ KeepsIo(tty, tty')
      /\ tty'.mail = <<>>
  BY <1>1, Zenon DEF IInv, Types, IsLine, LineFields, KeepsIn, KeepsOut, KeepsIo
<1>3. done \in Caller BY Zenon DEF Caller, States, NoRequest, Attrs
<1>4. client \in [Clients -> Caller] BY Zenon DEF IInv, Types
<1>5. done.req.op = "none" BY Zenon DEF NoRequest
<1> HIDE DEF done, m
<1>6. /\ client' \in [Clients -> Caller]
      /\ \A e \in Clients \ {c} : client'[e] = client[e]
      /\ m.status = "SUSPEND" => client'[c].st = "suspended" /\ client'[c].req = client[c].req
      /\ m.status # "SUSPEND" => client'[c] = done
  BY <1>1, <1>3, <1>4 DEF Caller, States
<1>7. client'[c].req.op = client[c].req.op \/ client'[c].req.op = "none" BY <1>5, <1>6, Zenon
<1>8. Types'
  <2>1. \A e \in Clients : client'[e].req.op \in Requests[e] \cup {"none"}
    BY <1>6, <1>7, Zenon DEF IInv, Types
  <2> QED BY <1>2, <1>6, <2>1, Zenon DEF IInv, Types, Requests
<1>9. Control' /\ SameRead /\ SameWrite BY <1>1, LineOnly, Zenon
<1>10. \A e : ~Told(e)' BY <1>2, Zenon DEF Told
<1>11. /\ \A e : Told(e) <=> e = c
       /\ \A e : Suspending(e) <=> e = c /\ m.type = "TASK_REPLY" /\ m.status = "SUSPEND"
  BY <1>1, Zenon DEF Told, Suspending, m
<1>12. \/ m.type = "TASK_REPLY" /\ client[c].st = "waiting" /\ (m.status = "SUSPEND" => Recalled(c))
       \/ m.type = "REVIVE" /\ client[c].st = "suspended" /\ m.status # "SUSPEND"
  BY <1>1, Zenon DEF IInv, Calls, Messages, m
<1>13. ASSUME NEW e \in Clients, Asleep(e)
       PROVE  client'[e].st = "suspended" /\ client'[e].req = client[e].req
  BY <1>6, <1>11, <1>12, <1>13, Zenon DEF Asleep
<1>14. ASSUME NEW e \in Clients, Awake(e) PROVE e # c /\ client'[e] = client[e]
  BY <1>6, <1>11, <1>14, ZenonT(60) DEF Awake
<1>15. Reader'
  BY <1>2, <1>9, <1>10, <1>13, <1>14, Zenon DEF IInv, Calls, Reader, Control, Asleep, Awake, SameRead, KeepsIn
<1>16. Writer'
  BY <1>2, <1>9, <1>10, <1>13, <1>14, Zenon DEF IInv, Calls, Writer, Control, Asleep, Awake, SameWrite, KeepsOut
<1>17. Drainer'
  BY <1>2, <1>10, <1>13, Zenon DEF IInv, Calls, Drainer, Asleep, KeepsIo
<1>18. Messages' BY <1>2, Zenon DEF Messages
<1>19. Sleepers'
  <2>1. SUFFICES ASSUME NEW e \in Clients, client'[e].st = "suspended" PROVE Recalled(e)'
    BY Zenon DEF Sleepers
  <2>2. Recalled(e) => Recalled(e)' BY <1>2, Zenon DEF Recalled, KeepsIn, KeepsOut, KeepsIo
  <2>3. CASE e = c
    <3>1. m.status = "SUSPEND" BY <1>6, <2>1, <2>3 DEF done
    <3> QED BY <1>12, <2>2, <2>3, <3>1, ZenonT(60)
  <2>4. CASE e # c BY <1>6, <1>11, <2>1, <2>2, <2>4, Zenon DEF IInv, Calls, Sleepers
  <2> QED BY <2>3, <2>4, Zenon
<1> QED BY <1>8, <1>9, <1>15, <1>16, <1>17, <1>18, <1>19, Zenon DEF IInv, Calls

-----------------------------------------------------------------------------
(* The theorems *)

LEMMA InitLemma == Init => IInv
<1> SUFFICES ASSUME Init PROVE IInv OBVIOUS
<1>1. IsLine(tty) /\ tty.inleft = 0 /\ tty.outleft = 0 /\ tty.ioreq.op = "none" /\ tty.mail = <<>>
  BY Zenon DEF Init, tty_init, IsLine, LineFields, NoRequest
<1>2. \A c \in Clients : client[c] = [st |-> "idle", req |-> NoRequest] BY Zenon DEF Init
<1>3. Types
  <2>1. [st |-> "idle", req |-> NoRequest] \in Caller BY Zenon DEF Caller, States, NoRequest, Attrs
  <2>2. client \in [Clients -> Caller] BY <2>1, Zenon DEF Init
  <2>3. \A c \in Clients : client[c].req.op = "none" BY <1>2 DEF NoRequest
  <2> QED BY <1>1, <2>2, <2>3, Zenon DEF Types, Init
<1>4. Control BY Zenon DEF Init, Control, Labels, Reading, Writing, Handling
<1>5. Reader /\ Writer /\ Drainer BY <1>1 DEF Reader, Writer, Drainer
<1>6. Messages /\ Sleepers BY <1>1, <1>2 DEF Messages, Sleepers
<1> QED BY <1>3, <1>4, <1>5, <1>6, Zenon DEF IInv, Calls

LEMMA StutterStep ==
    ASSUME IInv, UNCHANGED vars
    PROVE  IInv'
<1>1. UNCHANGED <<tty, pc, ret, cur, client, session>> BY Zenon DEF vars, work
<1>2. ReadGoesOn(tty, tty') BY <1>1, KeepsSelf, KeepsGoesOn, ZenonT(60) DEF IInv, Types
<1>3. Control' /\ SameRead /\ SameWrite BY <1>1, LineOnly, Zenon
<1> QED BY <1>1, <1>2, <1>3, LineStep, ZenonT(60) DEF SameClients

\* Every step of the task, of the interrupts and of the callers keeps the
\* three records of the line, the message being sent and the callers' states
\* in agreement.
THEOREM CallsAreTracked == Spec => []IInv
<1>1. Init => IInv BY InitLemma, Zenon
<1>2. IInv /\ [Next]_vars => IInv'
  <2> SUFFICES ASSUME IInv, [Next]_vars PROVE IInv' OBVIOUS
  <2>1. CASE UNCHANGED vars BY <2>1, StutterStep, ZenonT(60)
  <2>2. CASE Next
    <3>1. session' = session BY <2>2, Zenon DEF Next
    <3>2. CASE tty_task
      BY <3>1, <3>2, QuietSteps, HandleEvents, DispatchStep, ReadQueueStep, ReadTailStep,
         WriteTailStep, Zenon DEF tty_task
    <3>3. CASE cp32_tty_poll_tick \/ tty_wakeup BY <3>1, <3>3, QuietSteps, ZenonT(60)
    <3>4. CASE \E c, whom \in Clients : \E op \in Requests[c] :
                 \E n \in Sizes(op), a \in Attributes \cup {Default} : Call(c, op, n, a, whom)
      BY <3>1, <3>4, CallStep, Zenon
    <3>5. CASE \E c \in Clients : cp32_shell_tty_io(c) \/ Remap(c)
      BY <3>1, <3>5, AnswerStep, QuietSteps, Zenon
    <3> QED BY <2>2, <3>2, <3>3, <3>4, <3>5, Zenon DEF Next
  <2> QED BY <2>1, <2>2, Zenon
<1> QED BY <1>1, <1>2, PTL DEF Spec

LEMMA AnswersFollow == IInv => OneAnswer
<1> SUFFICES ASSUME IInv PROVE OneAnswer OBVIOUS
<1>1. ASSUME NEW i \in 1..Len(tty.mail)
      PROVE  /\ tty.mail[i].type = "TASK_REPLY" => client[tty.mail[i].to].st = "waiting"
             /\ tty.mail[i].type = "REVIVE" =>
                   client[tty.mail[i].to].st = "suspended" /\ tty.mail[i].status # "SUSPEND"
  <2>1. tty.mail # <<>> BY <1>1
  <2>2. Len(tty.mail) = 1 BY <2>1, Zenon DEF IInv, Calls, Messages
  <2>3. i = 1 BY <1>1, <2>2
  <2> QED BY <2>1, <2>3, Zenon DEF IInv, Calls, Messages
<1>2. ASSUME NEW c \in Clients, client[c].st = "suspended" PROVE Recalled(c) \/ Told(c)
  BY <1>2, Zenon DEF IInv, Calls, Sleepers
<1> QED BY <1>1, <1>2, Zenon DEF OneAnswer, Recalled, Told

\* Whatever finishes a call - input, the timer, a cancel, a full queue, a
\* drained output - its caller gets one TASK_REPLY, and one REVIVE exactly if
\* that reply was SUSPEND; and no suspended caller is forgotten by the line.
THEOREM EveryCallIsAnsweredOnce == Spec => []OneAnswer
BY CallsAreTracked, AnswersFollow, PTL
=============================================================================
