--------------------------- MODULE ApplicationProofs ---------------------------
(***************************************************************************)
(* The inductive invariant IInv of the application broker, one part per    *)
(* subject, the operators it rests on, the steps that keep it, and the     *)
(* properties that follow.                                                 *)
(* Everything holds for any number of slots, pids, wait entries and blocks *)
(* and for any program files.                                              *)
(***************************************************************************)
EXTENDS Application, TLAPS, WellFoundedInduction, NaturalsInduction

USE SMTT(30), ZenonT(30)              \* time for each leaf

NoRequest == [op |-> "none"]
AnyRequest == Requests \cup {NoRequest}
Process == [flags : {"free", "nomap", "ready", "sending", "receiving"}, pid : Nat,
            req : AnyRequest, own : Nat, child : Nat]
Working == {"serve", "allocFork", "allocExec", "copyFork", "copyExec"}
Stages == {"idle", "load", "receive", "reply", "release"} \cup Working
Broker == [at : Stages, m : AnyRequest, result : Int, base : Blocks \cup {NoBlock}, pid : Int]
Active == [child : Slots \cup {NoSlot}, ppid : Int, floor : Int, brk : Int]
Forked == [parent : Slots \cup {NoSlot}, base : Blocks \cup {NoBlock}, floor : Int, brk : Int,
           ppid : Int, slot : 1..NWaits]
Memory == [prog : Programs \cup {"none"}, data : Int, sp : Int]
Status == [pid : Nat, status : Int]
Record == [app : Nat, saved : Nat]
History == [image : Memory, active : Active, files : Nat]

Types ==
  /\ proc \in [Slots -> Process] /\ broker \in Broker
  /\ app_busy \in BOOLEAN /\ app_endpoint \in Slots \cup {NoSlot}
  /\ active \in Active /\ forked \in Forked /\ waits \in [1..NWaits -> Status]
  /\ image \in Memory /\ staged \in [Blocks -> Memory] /\ owned \subseteq Blocks
  /\ files \in Record /\ next_pid \in Pids \cup {PidMin - 1}
  /\ fsTicks \in Nat /\ charged \in Nat /\ atFork \in History

\* Where the two processes in use are at each stage of the broker.
ExecDone == broker.m.op = "exec" /\ broker.result = 0
Control ==
  /\ broker.at = "idle" =>
       ~app_busy /\ active.child = NoSlot /\ app_endpoint = NoSlot /\ forked.parent = NoSlot
  /\ broker.at # "idle" => app_busy /\ active.child \in Slots
  /\ broker.at = "load" =>
       /\ forked.parent = NoSlot /\ app_endpoint = active.child
       /\ proc[active.child].flags = "nomap"
  /\ broker.at = "receive" =>
       app_endpoint = active.child /\ proc[active.child].flags \in {"ready", "sending"}
  /\ broker.at \in Working =>
       app_endpoint = active.child /\ proc[active.child].flags = "receiving"
  /\ broker.at \in {"reply", "release"} =>
       \/ ~ExecDone /\ proc[active.child].flags = "receiving"
       \/ /\ ExecDone /\ app_endpoint = active.child
          /\ proc[active.child].flags \in {"ready", "sending"}
  /\ broker.at \in {"allocFork", "copyFork"} => forked.parent = NoSlot /\ broker.m.op # "exec"
  /\ broker.at \in {"allocExec", "copyExec"} => broker.m.op = "exec"

\* The slots in use, and the parent that waits.
SlotsInUse ==
  /\ \A n \in Slots : proc[n].flags # "free" <=> n \in {active.child, forked.parent}
  /\ forked.parent # NoSlot =>
       forked.parent # active.child /\ proc[forked.parent].flags = "receiving"

\* The blocks, and at which stage there is one of the request.
BlocksHeld ==
  /\ BlocksAreAccounted
  /\ broker.base # NoBlock => broker.at \in {"copyFork", "copyExec", "release"}
  /\ broker.at = "release" => broker.base # NoBlock

\* The pids, with the one chosen for a fork under way.
PidsKept ==
  /\ PidsAreUnique
  /\ \A n \in Slots : proc[n].flags # "free" => proc[n].pid # 0
  /\ broker.at \in {"allocFork", "copyFork"} =>
       /\ broker.pid \in Nat \ {0}
       /\ \A n \in Slots : proc[n].flags # "free" => proc[n].pid # broker.pid
       /\ \A i \in 1..NWaits : waits[i].pid # broker.pid

\* The owners of the process records.
RecordsOwned ==
  /\ broker.at \notin {"idle", "load"} => files.app = proc[active.child].pid
  /\ forked.parent # NoSlot => files.saved = proc[forked.parent].pid

\* The statuses, and the entry kept for the child.
EntryReserved ==
  /\ StatusesAreKept
  /\ forked.parent # NoSlot => waits[forked.slot].pid = 0
  /\ broker.at \in {"allocFork", "copyFork"} => \E i \in 1..NWaits : waits[i].pid = 0

\* What the child's exit puts back is what the parent had.
ParentSaved ==
  forked.parent # NoSlot =>
    /\ staged[forked.base] = atFork.image
    /\ atFork.active = [child |-> forked.parent, ppid |-> forked.ppid, floor |-> forked.floor,
                        brk |-> forked.brk]
    /\ atFork.files = files.saved

TimeBilled ==
  /\ TimeIsConserved
  /\ broker.at = "load" => proc[active.child].own = 0 /\ proc[active.child].child = 0

IInv ==
  /\ Types /\ Control /\ SlotsInUse /\ BlocksHeld /\ PidsKept /\ RecordsOwned
  /\ EntryReserved /\ ParentSaved /\ MemoryIsDivided /\ TimeBilled

-----------------------------------------------------------------------------
(* Operators *)

\* A set of natural numbers has a least element: induction over data is done by
\* looking at the least counterexample.
LEMMA LeastNat ==
    ASSUME NEW S \in SUBSET Nat, S # {}
    PROVE  \E m \in S : \A n \in S : m <= n
<1> DEFINE R == OpToRel(<, Nat)
<1>1. \E x \in S : \A y \in S : ~(<<y, x>> \in R)
  <2>1. IsWellFoundedOn(R, Nat) BY NatLessThanWellFounded, Zenon
  <2> HIDE DEF R
  <2> QED BY <2>1, WFMin, Zenon
<1>2. \A x, y \in Nat : <<y, x>> \in R <=> y < x
  BY Zenon DEF OpToRel
<1> HIDE DEF R
<1>3. PICK x \in S : \A y \in S : ~(<<y, x>> \in R) BY <1>1, Zenon
<1>4. \A y \in S : y \in Nat /\ x \in Nat /\ ~(y < x) BY <1>2, <1>3, Zenon
<1>5. \A y \in S : x <= y BY <1>4
<1> QED BY <1>5, Zenon

\* The searches of the code end at an index that qualifies.
LEMMA MinIn ==
    ASSUME NEW S \in SUBSET Nat, S # {}
    PROVE  Min(S) \in S
BY LeastNat, Zenon DEF Min

\* And so does the search for the last one.
LEMMA MaxIn ==
    ASSUME NEW N \in Nat, NEW S \in SUBSET (0..N), S # {}
    PROVE  Max(S) \in S
<1> DEFINE T == {N - x : x \in S}
<1>1. T \in SUBSET Nat /\ T # {}
  <2>1. \A x \in S : N - x \in Nat OBVIOUS
  <2>2. \A t \in T : t \in Nat BY <2>1, Zenon
  <2>3. PICK x \in S : TRUE BY Zenon
  <2>4. N - x \in T OBVIOUS
  <2> QED BY <2>2, <2>4, Zenon
<1>2. PICK m \in T : \A n \in T : m <= n
  <2> HIDE DEF T
  <2> QED BY <1>1, LeastNat, Zenon
<1>3. PICK x \in S : m = N - x BY <1>2, Zenon
<1>4. \A y \in S : y <= x
  <2>1. TAKE y \in S
  <2>2. N - x <= N - y BY <1>2, <1>3, Zenon
  <2> QED BY <2>2
<1> QED BY <1>3, <1>4, Zenon DEF Max

\* application_pid walks through the identifiers and wraps at the end.
LEMMA Walk ==
    ASSUME NEW from \in Pids \cup {PidMin - 1}, PidMin <= PidMax
    PROVE  LET size == PidMax - PidMin + 1
               next(f) == [k \in 0..size |-> IF k = 0 THEN from
                             ELSE IF f[k - 1] < PidMax THEN f[k - 1] + 1 ELSE PidMin]
               after == CHOOSE f : f = next(f)
           IN \A k \in 1..size : after[k] = IF from + k <= PidMax THEN from + k
                                            ELSE from + k - size
<1> DEFINE size == PidMax - PidMin + 1
           next(f) == [k \in 0..size |-> IF k = 0 THEN from
                         ELSE IF f[k - 1] < PidMax THEN f[k - 1] + 1 ELSE PidMin]
           after == CHOOSE f : f = next(f)
           g == [k \in 0..size |-> IF from + k <= PidMax THEN from + k ELSE from + k - size]
<1>1. size \in Nat \ {0} /\ from \in Int /\ PidMin - 1 <= from /\ from <= PidMax
      /\ PidMin \in Nat /\ PidMax \in Nat
  BY BrokerAssumption DEF Pids
<1>2. g = next(g)
  <2>1. ASSUME NEW k \in 0..size
        PROVE  g[k] = IF k = 0 THEN from
                      ELSE IF g[k - 1] < PidMax THEN g[k - 1] + 1 ELSE PidMin
    BY <1>1
  <2> QED BY <2>1, Zenon
<1>3. after = next(after) BY <1>2, Zenon
<1>4. \A k \in 0..size : after[k] = IF k = 0 THEN from
                           ELSE IF after[k - 1] < PidMax THEN after[k - 1] + 1 ELSE PidMin
  <2> HIDE DEF after, size
  <2> QED BY <1>3, Zenon
<1>5. \A k \in 0..size : after[k] = g[k]
  <2> DEFINE Bad == {k \in 0..size : after[k] # g[k]}
  <2> HIDE DEF after
  <2>1. SUFFICES ASSUME Bad # {} PROVE FALSE OBVIOUS
  <2>2. PICK m \in Bad : \A n \in Bad : m <= n
    <3>1. Bad \in SUBSET Nat BY <1>1
    <3> HIDE DEF Bad
    <3> QED BY <2>1, <3>1, LeastNat, Zenon
  <2>3. m # 0 BY <1>1, <1>4
  <2>4. after[m - 1] = g[m - 1] BY <1>1, <2>2, <2>3
  <2> QED BY <1>1, <1>4, <2>2, <2>3, <2>4
<1> QED BY <1>1, <1>5

\* application_pid chooses an identifier in the range that nobody has, and
\* refuses only when every identifier is taken.
THEOREM PidIsFresh ==
    ASSUME NEW from \in Pids \cup {PidMin - 1}
    PROVE  IF Pids \subseteq Used THEN application_pid(from) = 0 - 1
           ELSE application_pid(from) \in Pids \ Used
<1> DEFINE size == PidMax - PidMin + 1
           next(f) == [k \in 0..size |-> IF k = 0 THEN from
                         ELSE IF f[k - 1] < PidMax THEN f[k - 1] + 1 ELSE PidMin]
           after == CHOOSE f : f = next(f)
           free == {k \in 1..size : after[k] \notin Used}
<1>1. size \in Int /\ from \in Int /\ PidMin \in Nat /\ PidMax \in Nat
  BY BrokerAssumption DEF Pids
<1>2. application_pid(from) = IF free = {} THEN 0 - 1 ELSE after[Min(free)]
  BY Zenon DEF application_pid
<1>3. CASE PidMin > PidMax
  <2>1. free = {} /\ Pids = {} BY <1>1, <1>3 DEF Pids
  <2> QED BY <1>2, <2>1, Zenon
<1>4. CASE PidMin <= PidMax
  <2>1. \A k \in 1..size : after[k] = IF from + k <= PidMax THEN from + k ELSE from + k - size
    BY <1>4, Walk, Zenon
  <2> HIDE DEF after
  <2>2. \A k \in 1..size : after[k] \in Pids BY <1>1, <2>1 DEF Pids
  <2>3. \A p \in Pids : \E k \in 1..size : after[k] = p
    <3>1. TAKE p \in Pids
    <3>2. CASE p > from
      <4>1. p - from \in 1..size /\ from + (p - from) = p BY <1>1, <3>2 DEF Pids
      <4> QED BY <1>1, <2>1, <4>1 DEF Pids
    <3>3. CASE p <= from
      <4> DEFINE k == p - from + size
      <4>1. k \in 1..size BY <1>1, <3>3 DEF Pids
      <4>2. ~(from + k <= PidMax) /\ from + k - size = p BY <1>1, <3>3 DEF Pids
      <4> HIDE DEF k
      <4>3. after[k] = p BY <2>1, <4>1, <4>2, Zenon
      <4> QED BY <4>1, <4>3, Zenon
    <3> QED BY <1>1, <3>2, <3>3 DEF Pids
  <2>4. free # {} => Min(free) \in free
    <3>1. free \in SUBSET Nat BY <1>1
    <3> HIDE DEF free
    <3> QED BY <3>1, MinIn, Zenon
  <2>5. free = {} <=> Pids \subseteq Used BY <2>2, <2>3, Zenon
  <2>6. free # {} => after[Min(free)] \in Pids \ Used BY <2>2, <2>4, Zenon
  <2> HIDE DEF free
  <2>7. CASE free = {} BY <1>2, <2>5, <2>7, Zenon
  <2>8. CASE free # {} BY <1>2, <2>5, <2>6, <2>8, Zenon
  <2> QED BY <2>7, <2>8, Zenon
<1> QED BY <1>1, <1>3, <1>4

-----------------------------------------------------------------------------
(* Program files *)

\* The heap of an accepted program starts behind its data and not beyond the
\* stack, whose lower end is a multiple of 16 (cp32_image_read).
THEOREM HeapFits ==
    ASSUME NEW f \in File, cp32_image_read(f)
    PROVE  /\ HeapFloor(f) \in Int
           /\ CP32_APP_DATA + f.data.memsz <= HeapFloor(f)
           /\ HeapFloor(f) <= CP32_APP_STACK
<1> DEFINE n == CP32_APP_DATA + f.data.memsz
<1>1. f.data \in Segment /\ f.data.memsz \in Nat /\ f.data.address \in Nat
  BY Zenon DEF File, Segment
<1>2. f.data.address = CP32_APP_DATA /\ f.data.memsz <= CP32_APP_STACK - f.data.address
  BY Zenon DEF cp32_image_read, SegmentOK
<1>3. n \in Nat /\ n <= CP32_APP_STACK /\ CP32_APP_STACK \in Nat /\ CP32_APP_STACK % 16 = 0
  BY <1>1, <1>2, LayoutAssumption DEF Aligned
<1> HIDE DEF n
<1>4. RoundUp(n) \in Int /\ n <= RoundUp(n) /\ RoundUp(n) <= CP32_APP_STACK
  BY <1>3 DEF RoundUp
<1> QED BY <1>4, Zenon DEF HeapFloor, n

\* The running total of the loop over the strings.
Sum(f, c, s, k) ==
  f \in [0..k -> Int] /\ f[0] = c /\ \A n \in 1..k : f[n] = f[n - 1] + s[n] + 1

\* There is such a total, of every list of lengths.
LEMMA SumExists ==
    ASSUME NEW N \in Nat, NEW c \in Nat, NEW s \in [1..N -> Nat]
    PROVE  \E f : Sum(f, c, s, N)
<1> DEFINE Bad == {k \in 0..N : ~ \E f : Sum(f, c, s, k)}
<1>1. SUFFICES Bad = {}
  <2>1. N \in 0..N OBVIOUS
  <2> QED BY <2>1, Zenon
<1>2. SUFFICES ASSUME Bad # {} PROVE FALSE OBVIOUS
<1>3. PICK m \in Bad : \A n \in Bad : m <= n
  <2>1. Bad \in SUBSET Nat OBVIOUS
  <2> HIDE DEF Bad
  <2> QED BY <1>2, <2>1, LeastNat, Zenon
<1>4. m # 0
  <2>1. Sum([n \in 0..0 |-> c], c, s, 0) BY DEF Sum
  <2> QED BY <2>1, Zenon
<1>5. m - 1 \in 0..N /\ m - 1 \notin Bad BY <1>3, <1>4
<1>6. PICK f : Sum(f, c, s, m - 1) BY <1>5, Zenon
<1> DEFINE g == [n \in 0..m |-> IF n = m THEN f[m - 1] + s[m] + 1 ELSE f[n]]
<1>7. Sum(g, c, s, m)
  <2>1. m \in 1..N BY <1>3, <1>4
  <2>2. s[m] \in Nat BY <2>1, Zenon
  <2>3. f[m-1] \in Int BY <1>6, <2>1 DEF Sum
  <2>4. g \in [0..m -> Int] BY <1>6, <2>1, <2>2, <2>3 DEF Sum
  <2>5. g[0] = c BY <1>6, <2>1 DEF Sum
  <2>6. ASSUME NEW n \in 1..m PROVE g[n] = g[n - 1] + s[n] + 1
    <3>1. CASE n = m BY <3>1, <2>1
    <3>2. CASE n # m BY <3>2, <2>1, <1>6 DEF Sum
    <3> QED BY <3>1, <3>2, Zenon
  <2> HIDE DEF g
  <2> QED BY <2>4, <2>5, <2>6, Zenon DEF Sum
<1> QED BY <1>3, <1>7, Zenon

\* The arguments take at least the three words of empty vectors.
LEMMA StackBytesBound ==
    ASSUME NEW lengths \in Seq(Nat)
    PROVE  StackBytes(lengths) \in Int /\ StackBytes(lengths) >= 12
<1> DEFINE N == Len(lengths)
           c == (N + 3) * 4
           body(f) == [n \in 0..N |-> IF n = 0 THEN c ELSE f[n - 1] + lengths[n] + 1]
           total == CHOOSE f : f = body(f)
           Bad == {k \in 0..N : ~(total[k] \in Int /\ total[k] >= c)}
<1>1. N \in Nat /\ c \in Nat /\ c >= 12 /\ lengths \in [1..N -> Nat] OBVIOUS
<1>2. StackBytes(lengths) = total[N] BY Zenon DEF StackBytes
<1>3. PICK f : Sum(f, c, lengths, N)
  <2> HIDE DEF N, c
  <2> QED BY <1>1, SumExists, Zenon
<1>4. f = body(f)
  BY <1>1, <1>3 DEF Sum
<1>5. total = body(total) BY <1>4, Zenon
<1>6. \A n \in 0..N : total[n] = IF n = 0 THEN c ELSE total[n - 1] + lengths[n] + 1
  <2> HIDE DEF total, N, c
  <2> QED BY <1>5, Zenon
<1>7. Bad = {}
  <2> HIDE DEF total, N, c
  <2>1. SUFFICES ASSUME Bad # {} PROVE FALSE OBVIOUS
  <2>2. PICK m \in Bad : \A n \in Bad : m <= n
    <3>1. Bad \in SUBSET Nat BY <1>1
    <3> HIDE DEF Bad
    <3> QED BY <2>1, <3>1, LeastNat, Zenon
  <2>3. m # 0 BY <1>1, <1>6
  <2>4. m - 1 \in 0..N /\ m - 1 \notin Bad BY <1>1, <2>2, <2>3
  <2>5. total[m] = total[m - 1] + lengths[m] + 1 /\ lengths[m] \in Nat BY <1>1, <1>6, <2>3
  <2> QED BY <1>1, <2>2, <2>4, <2>5
<1> HIDE DEF total, N, c
<1>8. N \in 0..N BY <1>1
<1> QED BY <1>1, <1>2, <1>7, <1>8

\* The stack pointer of a program lies in the argument area, on a multiple of
\* 16 and below the top of memory, unless the arguments are refused: the
\* strings and the two vectors never reach below it (cp32_exec_stack).
THEOREM StackFits ==
    ASSUME NEW arguments \in Seq(Nat)
    PROVE  LET sp == cp32_exec_stack(arguments)
           IN /\ sp \in Int
              /\ sp # Refused =>
                   CP32_APP_TOP - StackArea <= sp /\ sp < CP32_APP_TOP /\ Aligned(sp)
<1> DEFINE strings == arguments \o Environment
           bytes == StackBytes(strings)
           total == RoundUp(bytes)
<1>1. strings \in Seq(Nat) BY LayoutAssumption
<1>2. bytes \in Int /\ bytes >= 12 BY <1>1, StackBytesBound, Zenon
<1>3. total \in Int /\ total >= bytes /\ total % 16 = 0
  <2> HIDE DEF bytes
  <2> QED BY <1>2 DEF RoundUp
<1>4. CP32_APP_TOP \in Nat /\ StackArea \in Nat /\ CP32_APP_TOP % 16 = 0
  BY LayoutAssumption, Zenon DEF Aligned
<1>5. cp32_exec_stack(arguments) = IF Len(strings) > VectorMax \/ total > StackArea THEN Refused
                                   ELSE CP32_APP_TOP - total
  BY Zenon DEF cp32_exec_stack
<1> HIDE DEF total, bytes, strings
<1>6. (CP32_APP_TOP - total) % 16 = 0 BY <1>3, <1>4
<1> QED BY <1>2, <1>3, <1>4, <1>5, <1>6 DEF Refused, Aligned

-----------------------------------------------------------------------------
(* The invariant *)

\* What the fields of a request hold.
LEMMA RequestFields ==
    ASSUME NEW r \in AnyRequest
    PROVE  /\ r.op = "exit" => r.status \in Int
           /\ r.op = "exec" => r.prog \in Programs /\ r.args \in Arguments
           /\ r.op = "sbrk" => r.inc \in Int
<1>1. CASE r \in [op : {"exit"}, status : 0..1] BY <1>1
<1>2. CASE r \in [op : {"getpid", "getppid", "other", "fork", "badfork"}] BY <1>2, Zenon
<1>3. CASE r \in [op : {"wait"}, pid : Pids \cup {0 - 1, 0}, ptr : BOOLEAN, options : BOOLEAN]
  BY <1>3, Zenon
<1>4. CASE r \in [op : {"exec"}, prog : Programs, args : Arguments] BY <1>4, Zenon
<1>5. CASE r \in [op : {"sbrk"}, inc : Increments] BY <1>5, BrokerAssumption, Zenon
<1>6. CASE r = NoRequest BY <1>6, Zenon DEF NoRequest
<1> QED BY <1>1, <1>2, <1>3, <1>4, <1>5, <1>6, Zenon DEF AnyRequest, Requests

\* The fields of a memory image just loaded.
LEMMA LoadedImage ==
    ASSUME NEW prog \in Programs, NEW args \in Arguments
    PROVE  /\ Loaded(prog, args) \in Memory
           /\ cp32_image_read(Images[prog]) /\ cp32_exec_stack(args) # Refused =>
                /\ HeapFloor(Images[prog]) \in Int
                /\ Divided(Loaded(prog, args), HeapFloor(Images[prog]), HeapFloor(Images[prog]))
<1>1. Images[prog] \in File /\ args \in Seq(Nat) BY BrokerAssumption, Zenon
<1>2. cp32_exec_stack(args) \in Int BY <1>1, StackFits, Zenon
<1>3. Loaded(prog, args) \in Memory BY <1>2 DEF Loaded, Memory
<1>4. ASSUME cp32_image_read(Images[prog]), cp32_exec_stack(args) # Refused
      PROVE  /\ HeapFloor(Images[prog]) \in Int
             /\ Divided(Loaded(prog, args), HeapFloor(Images[prog]), HeapFloor(Images[prog]))
  BY <1>1, <1>4, StackFits, HeapFits DEF Loaded, Divided
<1> QED BY <1>3, <1>4, Zenon

\* What a process was billed is a number.
LEMMA BilledNat ==
    ASSUME Types, NEW n \in Slots \cup {NoSlot}
    PROVE  Billed(n) \in Nat
BY DEF Types, Process, Billed

\* It holds when the system starts,
LEMMA InitInv == Init => IInv
<1> SUFFICES ASSUME Init PROVE IInv OBVIOUS
<1> USE DEF Init, Free, Idle, Gone, NotForked, Nobody, NoImage, NoFork, NoSlot, NoBlock
<1>0. NWaits \in Nat \ {0} /\ PidMin \in Nat BY BrokerAssumption, Zenon
<1>1. Types
  <2>1. NoRequest \in AnyRequest BY Zenon DEF AnyRequest
  <2>2. proc \in [Slots -> Process] BY <2>1, Zenon DEF Process, NoRequest
  <2>3. broker \in Broker BY <2>1 DEF Broker, Stages, NoRequest
  <2>4. active \in Active /\ forked \in Forked BY <1>0 DEF Active, Forked
  <2>5. image \in Memory /\ staged \in [Blocks -> Memory] /\ atFork \in History
    BY DEF Memory, History, Active
  <2>6. waits \in [1..NWaits -> Status] /\ files \in Record BY DEF Status, Record
  <2> QED BY <2>2, <2>3, <2>4, <2>5, <2>6, Zenon DEF Types
<1>2. Control /\ SlotsInUse BY DEF Control, SlotsInUse, Working, Slots
<1>3. BlocksHeld BY Zenon DEF BlocksHeld, BlocksAreAccounted
<1>4. PidsKept BY Zenon DEF PidsKept, PidsAreUnique, InUse
<1>5. RecordsOwned /\ EntryReserved BY Zenon DEF RecordsOwned, EntryReserved, StatusesAreKept
<1>6. ParentSaved /\ MemoryIsDivided BY Zenon DEF ParentSaved, MemoryIsDivided
<1>7. TimeBilled BY DEF TimeBilled, TimeIsConserved, Billed
<1> QED BY <1>1, <1>2, <1>3, <1>4, <1>5, <1>6, <1>7, Zenon DEF IInv

\* and every step keeps it: the launch of a program,
LEMMA LaunchInv == IInv /\ Launch => IInv'
<1> SUFFICES ASSUME IInv, Launch PROVE IInv' OBVIOUS
<1> USE DEF NoSlot, NoBlock
<1> DEFINE pid == application_pid(next_pid)
           n == Min(FreeSlots)
<1>0. n \in Slots /\ proc[n].flags = "free"
  <2>1. FreeSlots \in SUBSET Nat /\ FreeSlots # {}
    BY BrokerAssumption DEF FreeSlots, Slots, Launch
  <2> QED BY <2>1, MinIn, Zenon DEF FreeSlots
<1>1. pid \in Nat \ {0} /\ pid \in Pids \ Used
  <2>1. next_pid \in Pids \cup {PidMin - 1} BY Zenon DEF IInv, Types
  <2> QED BY <2>1, PidIsFresh, BrokerAssumption DEF Launch, Pids
<1> HIDE DEF pid, n
<1>2. /\ broker.at = "idle" /\ next_pid' = pid
      /\ proc' = [proc EXCEPT ![n] = [Free EXCEPT !.flags = "nomap", !.pid = pid]]
      /\ app_busy' = TRUE /\ app_endpoint' = n
      /\ active' = [child |-> n, ppid |-> ShellPid, floor |-> 0, brk |-> 0]
      /\ broker' = [broker EXCEPT !.at = "load"]
      /\ UNCHANGED <<forked, waits, image, staged, owned, files, fsTicks, atFork, unwaited, charged>>
  BY Zenon DEF Launch, pid, n
<1>3. /\ broker' \in Broker /\ broker'.at = "load" /\ broker'.base = broker.base
  BY <1>2, Zenon DEF IInv, Types, Broker, Stages
<1>4. /\ proc' \in [Slots -> Process] /\ proc'[n].flags = "nomap" /\ proc'[n].pid = pid
      /\ proc'[n].own = 0 /\ proc'[n].child = 0
      /\ \A k \in Slots \ {n} : proc'[k] = proc[k]
  <2>1. [Free EXCEPT !.flags = "nomap", !.pid = pid] \in Process
    BY <1>1, Zenon DEF Free, Process, AnyRequest, NoRequest
  <2> QED BY <1>0, <1>2, <2>1, Zenon DEF IInv, Types, Free
<1>5. Types'
  BY <1>0, <1>1, <1>2, <1>3, <1>4 DEF IInv, Types, Active, ShellPid
<1>6. Control' /\ SlotsInUse'
  BY <1>0, <1>2, <1>3, <1>4 DEF IInv, Control, SlotsInUse, Working, ExecDone
<1>7. BlocksHeld' BY <1>2, <1>3, Zenon DEF IInv, BlocksHeld, BlocksAreAccounted
<1>8. PidsKept'
  BY <1>0, <1>1, <1>2, <1>3, <1>4 DEF IInv, PidsKept, PidsAreUnique, InUse, Used
<1>9. RecordsOwned' /\ EntryReserved' /\ ParentSaved'
  BY <1>2, <1>3, <1>4
  DEF IInv, Control, RecordsOwned, EntryReserved, StatusesAreKept, ParentSaved
<1>10. MemoryIsDivided' BY <1>2, <1>3, Zenon DEF IInv, Control, MemoryIsDivided
<1>11. TimeBilled'
  BY <1>0, <1>2, <1>3, <1>4 DEF IInv, Types, Control, TimeBilled, TimeIsConserved, Billed
<1> QED BY <1>5, <1>6, <1>7, <1>8, <1>9, <1>10, <1>11, Zenon DEF IInv

\* the end of its loading, good
LEMMA LoadInv ==
    ASSUME NEW prog \in Programs, NEW args \in Arguments, IInv, Load(prog, args)
    PROVE  IInv'
<1> USE DEF NoSlot, NoBlock
<1> DEFINE floor == HeapFloor(Images[prog])
<1>1. /\ Loaded(prog, args) \in Memory /\ floor \in Int
      /\ Divided(Loaded(prog, args), floor, floor)
  BY LoadedImage, Zenon DEF Load
<1> HIDE DEF floor
<1>2. /\ broker.at = "load" /\ image' = Loaded(prog, args)
      /\ active' = [active EXCEPT !.floor = floor, !.brk = floor]
      /\ files' = [files EXCEPT !.app = proc[active.child].pid]
      /\ proc' = [proc EXCEPT ![active.child].flags = "ready"]
      /\ broker' = [broker EXCEPT !.at = "receive"]
      /\ UNCHANGED <<app_busy, app_endpoint, forked, waits, staged, owned, next_pid, fsTicks,
                     atFork, unwaited, charged>>
  BY Zenon DEF Load, floor
<1>3. broker' \in Broker /\ broker'.at = "receive" /\ broker'.base = broker.base
  BY <1>2, Zenon DEF IInv, Types, Broker, Stages
<1>4. /\ active' \in Active /\ active'.child = active.child /\ active'.floor = floor
      /\ active'.brk = floor /\ active.child \in Slots
  BY <1>1, <1>2, Zenon DEF IInv, Types, Control, Active
<1>5. /\ proc' \in [Slots -> Process] /\ proc'[active.child].flags = "ready"
      /\ proc[active.child].flags = "nomap"
      /\ \A n \in Slots \ {active.child} : proc'[n].flags = proc[n].flags
      /\ \A n \in Slots : proc'[n].pid = proc[n].pid /\ proc'[n].own = proc[n].own
                          /\ proc'[n].child = proc[n].child
  BY <1>2, <1>4, ZenonT(60) DEF IInv, Types, Control, Process
<1>6. files' \in Record /\ files'.app = proc[active.child].pid /\ forked.parent = NoSlot
  BY <1>2, <1>4, Zenon DEF IInv, Types, Control, Record, Process
<1>7. Types' BY <1>1, <1>2, <1>3, <1>4, <1>5, <1>6, Zenon DEF IInv, Types
<1>8. Control' /\ SlotsInUse'
  BY <1>2, <1>3, <1>4, <1>5, <1>6, Zenon DEF IInv, Control, SlotsInUse, Working, ExecDone
<1>9. BlocksHeld' BY <1>2, <1>3, Zenon DEF IInv, BlocksHeld, BlocksAreAccounted
<1>10. PidsKept' BY <1>2, <1>3, <1>4, <1>5 DEF IInv, PidsKept, PidsAreUnique, InUse
<1>11. RecordsOwned' /\ EntryReserved' /\ ParentSaved'
  BY <1>2, <1>3, <1>4, <1>5, <1>6
  DEF IInv, RecordsOwned, EntryReserved, StatusesAreKept, ParentSaved
<1>12. MemoryIsDivided' BY <1>1, <1>2, <1>4, <1>6, Zenon DEF MemoryIsDivided
<1>13. TimeBilled'
  BY <1>2, <1>3, <1>4, <1>5, <1>6, Zenon DEF IInv, TimeBilled, TimeIsConserved, Billed
<1> QED BY <1>7, <1>8, <1>9, <1>10, <1>11, <1>12, <1>13, Zenon DEF IInv

\* or bad;
LEMMA LoadFailsInv ==
    ASSUME NEW prog \in Programs, NEW args \in Arguments, IInv, LoadFails(prog, args)
    PROVE  IInv'
<1> USE DEF NoSlot, NoBlock
<1>1. image' \in Memory
  <2>1. Loaded(prog, args) \in Memory /\ image \in Memory BY LoadedImage, Zenon DEF IInv, Types
  <2> QED BY <2>1 DEF LoadFails, Partial, NoImage, Memory
<1>2. /\ broker.at = "load" /\ proc' = [proc EXCEPT ![active.child] = Free]
      /\ active.child \in Slots /\ fsTicks' = fsTicks + TimeOf(proc, active.child)
      /\ app_busy' = FALSE /\ app_endpoint' = NoSlot /\ active' = Gone /\ broker' = Idle
      /\ files' = [files EXCEPT !.app = 0]
      /\ UNCHANGED <<forked, waits, staged, owned, next_pid, atFork, unwaited, charged>>
  BY Zenon DEF LoadFails, cp32_proc_release, IInv, Control
<1>3. /\ proc' \in [Slots -> Process] /\ proc'[active.child] = Free
      /\ \A n \in Slots \ {active.child} : proc'[n] = proc[n]
  BY <1>2, Zenon DEF IInv, Types, Process, Free, AnyRequest, NoRequest
<1>4. broker' \in Broker /\ broker'.at = "idle" /\ broker'.base = NoBlock
  BY <1>2 DEF Idle, Broker, Stages, AnyRequest, NoRequest
<1>5. active' \in Active /\ active'.child = NoSlot BY <1>2 DEF Gone, Active
<1>6. files' \in Record BY <1>2, Zenon DEF IInv, Types, Record
<1>7. fsTicks' = fsTicks /\ broker.base = NoBlock /\ forked.parent = NoSlot
  BY <1>2 DEF IInv, Types, Control, BlocksHeld, TimeOf
<1>8. Types' BY <1>1, <1>2, <1>3, <1>4, <1>5, <1>6, <1>7, Zenon DEF IInv, Types
<1>9. Control' /\ SlotsInUse'
  BY <1>2, <1>3, <1>4, <1>5, <1>7 DEF IInv, Control, SlotsInUse, Working, ExecDone, Free, Slots
<1>10. BlocksHeld' BY <1>2, <1>4, <1>7, Zenon DEF IInv, BlocksHeld, BlocksAreAccounted
<1>11. PidsKept' BY <1>2, <1>3, <1>4 DEF IInv, PidsKept, PidsAreUnique, InUse, Free
<1>12. RecordsOwned' /\ EntryReserved' /\ ParentSaved' /\ MemoryIsDivided'
  BY <1>2, <1>4, <1>5, <1>7, Zenon
  DEF IInv, RecordsOwned, EntryReserved, StatusesAreKept, ParentSaved, MemoryIsDivided
<1>13. TimeBilled'
  BY <1>2, <1>4, <1>5, <1>7 DEF IInv, Types, TimeBilled, TimeIsConserved, Billed
<1> QED BY <1>8, <1>9, <1>10, <1>11, <1>12, <1>13, Zenon DEF IInv

\* what the program does;
LEMMA CallInv ==
    ASSUME NEW n \in Slots, NEW req \in Requests, IInv, Call(n, req)
    PROVE  IInv'
<1> USE DEF NoSlot, NoBlock
<1>1. /\ proc[n].flags = "ready"
      /\ proc' = [proc EXCEPT ![n].flags = "sending", ![n].req = req]
      /\ UNCHANGED <<broker, app_busy, app_endpoint, active, forked, waits, image, staged, owned,
                     files, next_pid, fsTicks, atFork, unwaited, charged>>
  BY Zenon DEF Call
<1>2. /\ proc' \in [Slots -> Process] /\ proc'[n].flags = "sending"
      /\ \A k \in Slots \ {n} : proc'[k] = proc[k]
      /\ \A k \in Slots : proc'[k].pid = proc[k].pid /\ proc'[k].own = proc[k].own
                          /\ proc'[k].child = proc[k].child
  BY <1>1, ZenonT(60) DEF IInv, Types, Process, AnyRequest
<1>3. Types' BY <1>1, <1>2, Zenon DEF IInv, Types
<1>4. Control' /\ SlotsInUse'
  BY <1>1, <1>2 DEF IInv, Types, Active, Forked, Control, SlotsInUse, Working, ExecDone
<1>5. PidsKept' BY <1>1, <1>2 DEF IInv, PidsKept, PidsAreUnique, InUse
<1>6. BlocksHeld' /\ EntryReserved' /\ ParentSaved' /\ MemoryIsDivided'
  BY <1>1, Zenon
  DEF IInv, BlocksHeld, BlocksAreAccounted, EntryReserved, StatusesAreKept, ParentSaved,
              MemoryIsDivided
<1>7. RecordsOwned' /\ TimeBilled'
  BY <1>1, <1>2
  DEF IInv, Types, Active, Forked, Control, RecordsOwned, TimeBilled, TimeIsConserved, Billed
<1> QED BY <1>3, <1>4, <1>5, <1>6, <1>7, Zenon DEF IInv

LEMMA ComputeInv ==
    ASSUME NEW n \in Slots, IInv, Compute(n)
    PROVE  IInv'
<1> USE DEF NoSlot, NoBlock
<1>1. PICK t \in {0, 1} :
        /\ proc[n].flags = "ready" /\ image' = [image EXCEPT !.data = 1 - @]
        /\ charged' = charged + t /\ proc' = [proc EXCEPT ![n].own = @ + t]
        /\ UNCHANGED <<broker, app_busy, app_endpoint, active, forked, waits, staged, owned, files,
                       next_pid, fsTicks, atFork, unwaited>>
  BY Zenon DEF Compute
<1>2. /\ proc' \in [Slots -> Process] /\ proc'[n].own = proc[n].own + t
      /\ \A k \in Slots \ {n} : proc'[k] = proc[k]
      /\ \A k \in Slots : proc'[k].pid = proc[k].pid /\ proc'[k].flags = proc[k].flags
                          /\ proc'[k].child = proc[k].child
  <2>1. proc \in [Slots -> Process] BY Zenon DEF IInv, Types
  <2>2. proc[n] \in Process /\ proc[n].own + t \in Nat BY <2>1 DEF Process
  <2>3. proc' = [proc EXCEPT ![n] = [proc[n] EXCEPT !.own = proc[n].own + t]] BY <1>1, Zenon
  <2>4. [proc[n] EXCEPT !.own = proc[n].own + t] \in Process BY <2>2, Zenon DEF Process
  <2> QED BY <2>1, <2>2, <2>3, <2>4, Zenon DEF Process
<1>3. image' \in Memory /\ image'.prog = image.prog /\ image'.sp = image.sp
  <2>1. image \in Memory /\ image' = [image EXCEPT !.data = 1 - image.data]
    BY <1>1, Zenon DEF IInv, Types
  <2> QED BY <2>1 DEF Memory
<1>4. n = active.child /\ active.child # forked.parent /\ broker.at # "load"
  <2>1. n # NoSlot BY BrokerAssumption DEF Slots
  <2>2. n \in {active.child, forked.parent} BY <1>1, Zenon DEF IInv, SlotsInUse
  <2>3. n # forked.parent BY <1>1, <2>1, Zenon DEF IInv, SlotsInUse
  <2> QED BY <1>1, <2>2, <2>3, Zenon DEF IInv, Control
<1>5. Types' BY <1>1, <1>2, <1>3 DEF IInv, Types
<1>6. Control' /\ SlotsInUse'
  BY <1>1, <1>2 DEF IInv, Types, Active, Forked, Control, SlotsInUse, Working, ExecDone
<1>7. PidsKept' BY <1>1, <1>2 DEF IInv, PidsKept, PidsAreUnique, InUse
<1>8. BlocksHeld' /\ EntryReserved' /\ ParentSaved'
  BY <1>1, Zenon
  DEF IInv, BlocksHeld, BlocksAreAccounted, EntryReserved, StatusesAreKept, ParentSaved
<1>9. MemoryIsDivided' BY <1>1, <1>3, Zenon DEF IInv, MemoryIsDivided, Divided
<1>10. RecordsOwned'
  BY <1>1, <1>2 DEF IInv, Types, Active, Forked, Control, RecordsOwned
<1>11. TimeBilled'
  <2>1. Billed(n) \in Nat /\ Billed(forked.parent) \in Nat
    BY BilledNat, Zenon DEF IInv, Types, Forked
  <2>2. Billed(n)' = Billed(n) + t
    <3>1. n # NoSlot BY BrokerAssumption DEF Slots
    <3>2. proc[n].own \in Nat /\ proc[n].child \in Nat BY Zenon DEF IInv, Types, Process
    <3> QED BY <1>2, <3>1, <3>2 DEF Billed
  <2>3. Billed(forked.parent)' = Billed(forked.parent)
    BY <1>1, <1>2, <1>4, Zenon DEF IInv, Types, Forked, Billed
  <2>4. TimeIsConserved'
    BY <1>1, <1>4, <2>1, <2>2, <2>3 DEF IInv, Types, TimeBilled, TimeIsConserved
  <2> QED BY <1>1, <1>4, <2>4, Zenon DEF TimeBilled
<1> QED BY <1>5, <1>6, <1>7, <1>8, <1>9, <1>10, <1>11, Zenon DEF IInv

\* the requests and their ends;
LEMMA ReceiveInv == IInv /\ Receive => IInv'
<1> SUFFICES ASSUME IInv, Receive PROVE IInv' OBVIOUS
<1> USE DEF NoSlot, NoBlock
<1> DEFINE n == active.child
<1>1. n \in Slots /\ app_endpoint = n /\ broker.at = "receive" /\ broker.base = NoBlock
  BY Zenon DEF IInv, Control, BlocksHeld, Receive
<1>2. /\ proc[n].flags = "sending"
      /\ broker' = [Idle EXCEPT !.at = "serve", !.m = proc[n].req]
      /\ proc' = [proc EXCEPT ![n].flags = "receiving", ![n].req = [op |-> "none"]]
      /\ UNCHANGED <<app_busy, app_endpoint, active, forked, waits, image, staged, owned, files,
                     next_pid, fsTicks, atFork, unwaited, charged>>
  BY <1>1, Zenon DEF Receive
<1>3. broker' \in Broker /\ broker'.at = "serve" /\ broker'.base = NoBlock
  <2>1. proc[n].req \in AnyRequest BY <1>1, Zenon DEF IInv, Types, Process
  <2>2. broker' = [at |-> "serve", m |-> proc[n].req, result |-> 0, base |-> NoBlock, pid |-> 0]
    BY <1>2, Zenon DEF Idle
  <2> HIDE DEF n
  <2> QED BY <2>1, <2>2 DEF Broker, Stages, Working
<1>4. /\ proc' \in [Slots -> Process] /\ proc'[n].flags = "receiving"
      /\ \A k \in Slots \ {n} : proc'[k] = proc[k]
      /\ \A k \in Slots : proc'[k].pid = proc[k].pid /\ proc'[k].own = proc[k].own
                          /\ proc'[k].child = proc[k].child
  BY <1>1, <1>2, ZenonT(60) DEF IInv, Types, Process, AnyRequest, NoRequest
<1> HIDE DEF n
<1>5. Types' BY <1>2, <1>3, <1>4, Zenon DEF IInv, Types
<1>6. Control' /\ SlotsInUse'
  BY <1>1, <1>2, <1>3, <1>4
  DEF IInv, Types, Forked, Control, SlotsInUse, Working, ExecDone, n
<1>7. PidsKept' BY <1>2, <1>3, <1>4 DEF IInv, PidsKept, PidsAreUnique, InUse
<1>8. BlocksHeld' /\ EntryReserved' /\ ParentSaved' /\ MemoryIsDivided'
  BY <1>1, <1>2, <1>3, Zenon
  DEF IInv, BlocksHeld, BlocksAreAccounted, EntryReserved, StatusesAreKept,
                          ParentSaved, MemoryIsDivided
<1>9. RecordsOwned' /\ TimeBilled'
  BY <1>1, <1>2, <1>3, <1>4, Zenon
  DEF IInv, Types, Forked, RecordsOwned, TimeBilled, TimeIsConserved, Billed, n
<1> QED BY <1>5, <1>6, <1>7, <1>8, <1>9, Zenon DEF IInv

LEMMA ReplyInv == IInv /\ Reply => IInv'
<1> SUFFICES ASSUME IInv, Reply PROVE IInv' OBVIOUS
<1> USE DEF NoSlot, NoBlock
<1> DEFINE n == active.child
<1>1. /\ n \in Slots /\ broker.at = "reply" /\ broker.base = NoBlock
      /\ broker' = [Idle EXCEPT !.at = "receive"] /\ app_endpoint' = n
      /\ UNCHANGED <<app_busy, active, forked, waits, image, staged, owned, files,
                     next_pid, fsTicks, atFork, unwaited, charged>>
  BY Zenon DEF IInv, Control, BlocksHeld, Reply
<1>2. broker' \in Broker /\ broker'.at = "receive" /\ broker'.base = NoBlock
  BY <1>1 DEF Idle, Broker, Stages, AnyRequest, NoRequest
<1>3. /\ proc' \in [Slots -> Process] /\ proc'[n].flags \in {"ready", "sending"}
      /\ \A k \in Slots \ {n} : proc'[k] = proc[k]
      /\ \A k \in Slots : proc'[k].pid = proc[k].pid /\ proc'[k].own = proc[k].own
                          /\ proc'[k].child = proc[k].child
  <2>1. CASE ExecDone BY <1>1, <2>1, Zenon DEF ExecDone, Reply, IInv, Types, Control
  <2>2. CASE ~ExecDone
    <3>1. proc' = [proc EXCEPT ![n].flags = "ready"] BY <2>2, Zenon DEF ExecDone, Reply
    <3> QED BY <1>1, <3>1, ZenonT(60) DEF IInv, Types, Process
  <2> QED BY <2>1, <2>2, Zenon
<1>4. proc[n].flags # "free" /\ proc'[n].flags # "free"
  BY <1>1, <1>3, Zenon DEF IInv, Control
<1> HIDE DEF n
<1>5. Types' BY <1>1, <1>2, <1>3, Zenon DEF IInv, Types
<1>6. Control' /\ SlotsInUse'
  BY <1>1, <1>2, <1>3, <1>4
  DEF IInv, Types, Forked, Control, SlotsInUse, Working, ExecDone, n
<1>7. PidsKept' BY <1>1, <1>2, <1>3, <1>4 DEF IInv, PidsKept, PidsAreUnique, InUse
<1>8. BlocksHeld' /\ EntryReserved' /\ ParentSaved' /\ MemoryIsDivided'
  BY <1>1, <1>2, Zenon DEF IInv, BlocksHeld, BlocksAreAccounted, EntryReserved, StatusesAreKept,
                    ParentSaved, MemoryIsDivided
<1>9. RecordsOwned' /\ TimeBilled'
  BY <1>1, <1>2, <1>3, Zenon
  DEF IInv, Types, Forked, RecordsOwned, TimeBilled, TimeIsConserved, Billed, n
<1> QED BY <1>5, <1>6, <1>7, <1>8, <1>9, Zenon DEF IInv

\* The request is over, with nothing changed but the pid counter.
LEMMA AnswerInv ==
    ASSUME IInv, NEW r \in Int, Answer(r), broker.at \in Working, broker.base = NoBlock,
           broker.m.op = "exec" => r # 0, next_pid' \in Pids \cup {PidMin - 1},
           UNCHANGED <<proc, app_busy, app_endpoint, active, forked, waits, image, staged, owned,
                       files, fsTicks, atFork, unwaited, charged>>
    PROVE  IInv'
<1> USE DEF NoSlot, NoBlock
<1>1. /\ broker' \in Broker /\ broker'.at = "reply" /\ broker'.base = NoBlock
      /\ broker'.m = broker.m /\ broker'.result = r
  BY Zenon DEF IInv, Types, Answer, Broker, Stages
<1>2. Types' BY <1>1, Zenon DEF IInv, Types
<1>3. Control' /\ SlotsInUse' BY <1>1, Zenon DEF IInv, Control, SlotsInUse, Working, ExecDone
<1>4. BlocksHeld' BY <1>1, Zenon DEF IInv, BlocksHeld, BlocksAreAccounted
<1>5. PidsKept' BY <1>1, Zenon DEF IInv, PidsKept, PidsAreUnique, InUse
<1>6. RecordsOwned' BY <1>1, Zenon DEF IInv, RecordsOwned, Working
<1>7. EntryReserved' BY <1>1, Zenon DEF IInv, EntryReserved, StatusesAreKept
<1>8. ParentSaved' /\ MemoryIsDivided'
  BY <1>1, Zenon DEF IInv, ParentSaved, MemoryIsDivided, Working
<1>9. TimeBilled' BY <1>1, Zenon DEF IInv, TimeBilled, TimeIsConserved, Billed
<1> QED BY <1>2, <1>3, <1>4, <1>5, <1>6, <1>7, <1>8, <1>9, Zenon DEF IInv

\* The broker goes on with the request: it asks MM for a block.
LEMMA AsksInv ==
    ASSUME IInv, NEW at \in {"allocFork", "allocExec"}, NEW pid \in Int,
           broker' = [broker EXCEPT !.at = at, !.pid = pid], broker.at = "serve",
           at = "allocExec" => broker.m.op = "exec",
           at = "allocFork" => /\ forked.parent = NoSlot /\ broker.m.op # "exec"
                               /\ pid \in Nat \ {0} /\ pid \notin Used
                               /\ \E i \in 1..NWaits : waits[i].pid = 0,
           next_pid' \in Pids \cup {PidMin - 1},
           UNCHANGED <<proc, app_busy, app_endpoint, active, forked, waits, image, staged, owned,
                       files, fsTicks, atFork, unwaited, charged>>
    PROVE  IInv'
<1> USE DEF NoSlot, NoBlock
<1>1. /\ broker' \in Broker /\ broker'.at = at /\ broker'.base = broker.base
      /\ broker'.m = broker.m /\ broker'.pid = pid
  BY Zenon DEF IInv, Types, Broker, Stages, Working
<1>2. Types' BY <1>1, Zenon DEF IInv, Types
<1>3. Control' /\ SlotsInUse' BY <1>1, Zenon DEF IInv, Control, SlotsInUse, Working, ExecDone
<1>4. BlocksHeld' BY <1>1, Zenon DEF IInv, BlocksHeld, BlocksAreAccounted
<1>5. PidsKept' BY <1>1 DEF IInv, PidsKept, PidsAreUnique, InUse, Used
<1>6. RecordsOwned' /\ EntryReserved' /\ ParentSaved' /\ MemoryIsDivided'
  BY <1>1, Zenon
  DEF IInv, RecordsOwned, EntryReserved, StatusesAreKept, ParentSaved, MemoryIsDivided
<1>7. TimeBilled' BY <1>1, Zenon DEF IInv, TimeBilled, TimeIsConserved, Billed
<1> QED BY <1>2, <1>3, <1>4, <1>5, <1>6, <1>7, Zenon DEF IInv

LEMMA QueryInv == IInv /\ Query => IInv'
<1> SUFFICES ASSUME IInv, Query PROVE IInv' OBVIOUS
<1>1. broker.at = "serve" /\ broker.m.op \in {"getpid", "getppid"} /\ next_pid' = next_pid
  BY Zenon DEF Query
<1>2. broker.base = NoBlock /\ broker.at \in Working /\ broker.m.op # "exec"
  BY <1>1, Zenon DEF IInv, BlocksHeld, Working
<1>3. next_pid' \in Pids \cup {PidMin - 1} BY <1>1, Zenon DEF IInv, Types
<1>4. active.child \in Slots /\ active.ppid \in Int
  BY <1>1, Zenon DEF IInv, Types, Control, Active
<1>5. proc[active.child].pid \in Int BY <1>4 DEF IInv, Types, Process
<1> DEFINE r == IF broker.m.op = "getpid" THEN proc[active.child].pid ELSE active.ppid
<1>6. r \in Int BY <1>4, <1>5, Zenon
<1> QED BY <1>2, <1>3, <1>6, AnswerInv, Zenon DEF Query

LEMMA TransferInv == IInv /\ Transfer => IInv'
<1> SUFFICES ASSUME IInv, Transfer PROVE IInv' OBVIOUS
<1>1. broker.at = "serve" /\ broker.m.op = "other" /\ next_pid' = next_pid
  BY Zenon DEF Transfer
<1>2. broker.base = NoBlock /\ broker.at \in Working /\ broker.m.op # "exec"
  BY <1>1, Zenon DEF IInv, BlocksHeld, Working
<1>3. next_pid' \in Pids \cup {PidMin - 1} BY <1>1, Zenon DEF IInv, Types
<1>4. PICK r \in {0 - 1, 0, 1} : Answer(r) BY Zenon DEF Transfer
<1>5. r \in Int BY <1>4
<1> QED BY <1>2, <1>3, <1>4, <1>5, AnswerInv, Zenon DEF Transfer

LEMMA NoMemoryInv == IInv /\ NoMemory => IInv'
<1> SUFFICES ASSUME IInv, NoMemory PROVE IInv' OBVIOUS
<1>1. broker.base = NoBlock /\ broker.at \in Working BY Zenon DEF NoMemory, Working
<1>2. next_pid' \in Pids \cup {PidMin - 1} BY Zenon DEF IInv, Types, NoMemory
<1> QED BY <1>1, <1>2, AnswerInv DEF NoMemory

LEMMA ExecInv == IInv /\ Exec => IInv'
<1> SUFFICES ASSUME IInv, Exec PROVE IInv' OBVIOUS
<1>1. broker.base = NoBlock /\ broker.at = "serve" /\ broker.m.op = "exec"
  BY Zenon DEF IInv, BlocksHeld, Exec
<1>2. next_pid' \in Pids \cup {PidMin - 1} BY Zenon DEF IInv, Types, Exec
<1>3. CASE Answer(0 - 2) BY <1>1, <1>2, <1>3, AnswerInv DEF Exec, Working
<1>4. CASE broker' = [broker EXCEPT !.at = "allocExec"]
  <2>1. broker' = [broker EXCEPT !.at = "allocExec", !.pid = broker.pid] /\ broker.pid \in Int
    BY <1>4, Zenon DEF IInv, Types, Broker
  <2> QED BY <1>1, <1>2, <2>1, AsksInv, Zenon DEF Exec
<1> QED BY <1>3, <1>4, Zenon DEF Exec

LEMMA ForkInv == IInv /\ Fork => IInv'
<1> SUFFICES ASSUME IInv, Fork PROVE IInv' OBVIOUS
<1> DEFINE pid == application_pid(next_pid)
           empty == {i \in 1..NWaits : waits[i].pid = 0}
<1>1. broker.base = NoBlock /\ broker.at = "serve" /\ broker.m.op # "exec"
  BY Zenon DEF IInv, BlocksHeld, Fork
<1>2. pid \in Int /\ (pid > 0 => pid \in Pids \ Used)
  <2>1. next_pid \in Pids \cup {PidMin - 1} BY Zenon DEF IInv, Types
  <2> QED BY <2>1, PidIsFresh, BrokerAssumption DEF Pids
<1>3. /\ next_pid' = IF pid > 0 THEN pid ELSE next_pid
      /\ IF broker.m.op = "badfork" THEN Answer(0 - 22)
         ELSE IF forked.parent # NoSlot \/ pid <= 0 \/ empty = {} THEN Answer(0 - 11)
         ELSE broker' = [broker EXCEPT !.at = "allocFork", !.pid = pid]
      /\ UNCHANGED <<proc, app_busy, app_endpoint, active, forked, waits, image, staged, owned,
                     files, fsTicks, atFork, unwaited, charged>>
  BY Zenon DEF Fork
<1> HIDE DEF pid
<1>4. next_pid' \in Pids \cup {PidMin - 1} BY <1>2, <1>3, Zenon DEF IInv, Types
<1>5. CASE Answer(0 - 22) BY <1>1, <1>3, <1>4, <1>5, AnswerInv DEF Working
<1>6. CASE Answer(0 - 11) BY <1>1, <1>3, <1>4, <1>6, AnswerInv DEF Working
<1>7. CASE /\ forked.parent = NoSlot /\ ~(pid <= 0) /\ empty # {}
           /\ broker' = [broker EXCEPT !.at = "allocFork", !.pid = pid]
  <2>1. pid \in Nat \ {0} /\ pid \notin Used BY <1>2, <1>7
  <2>2. \E i \in 1..NWaits : waits[i].pid = 0 BY <1>7, Zenon
  <2> QED BY <1>1, <1>2, <1>3, <1>4, <1>7, <2>1, <2>2, AsksInv, Zenon
<1> QED BY <1>3, <1>5, <1>6, <1>7, Zenon


\* the requests that change the memory or the statuses;
LEMMA SbrkInv == IInv /\ Sbrk => IInv'
<1> SUFFICES ASSUME IInv, Sbrk PROVE IInv' OBVIOUS
<1> USE DEF NoSlot, NoBlock
<1> DEFINE inc == broker.m.inc
<1>1. /\ broker.base = NoBlock /\ broker.at = "serve" /\ broker.m.op = "sbrk"
      /\ UNCHANGED <<proc, app_busy, app_endpoint, forked, waits, image, staged, owned, files,
                     next_pid, fsTicks, atFork, unwaited, charged>>
  BY Zenon DEF IInv, BlocksHeld, Sbrk
<1>2. inc \in Int /\ active.floor \in Int /\ active.brk \in Int
  <2>1. broker.m \in AnyRequest BY Zenon DEF IInv, Types, Broker
  <2> QED BY <1>1, <2>1, RequestFields, Zenon DEF IInv, Types, Active
<1>3. CASE ~BreakFits(active.floor, active.brk, inc)
  <2>1. next_pid' \in Pids \cup {PidMin - 1} BY <1>1, Zenon DEF IInv, Types
  <2> QED BY <1>1, <1>3, <2>1, AnswerInv DEF Sbrk, Working
<1>4. CASE BreakFits(active.floor, active.brk, inc)
  <2> HIDE DEF inc
  <2>1. active' = [active EXCEPT !.brk = active.brk + inc] /\ Answer(active.brk)
    BY <1>4, Zenon DEF Sbrk, inc
  <2>2. /\ broker' \in Broker /\ broker'.at = "reply" /\ broker'.base = NoBlock
        /\ broker'.m = broker.m
    BY <1>1, <1>2, <2>1, Zenon DEF IInv, Types, Answer, Broker, Stages
  <2>3. /\ active' \in Active /\ active'.child = active.child /\ active'.floor = active.floor
        /\ active'.brk = active.brk + inc
    BY <1>2, <2>1 DEF IInv, Types, Active
  <2>4. active.floor <= active'.brk /\ active'.brk <= CP32_APP_STACK
    BY <1>2, <1>4, <2>3, LayoutAssumption DEF BreakFits
  <2>5. Types' BY <1>1, <2>2, <2>3, Zenon DEF IInv, Types
  <2>6. Control' /\ SlotsInUse'
    BY <1>1, <2>2, <2>3, Zenon DEF IInv, Control, SlotsInUse, Working, ExecDone
  <2>7. BlocksHeld' BY <1>1, <2>2, Zenon DEF IInv, BlocksHeld, BlocksAreAccounted
  <2>8. PidsKept' /\ RecordsOwned'
    BY <1>1, <2>2, <2>3, Zenon DEF IInv, PidsKept, PidsAreUnique, InUse, RecordsOwned
  <2>9. EntryReserved' /\ ParentSaved'
    BY <1>1, <2>2, Zenon DEF IInv, EntryReserved, StatusesAreKept, ParentSaved
  <2>10. MemoryIsDivided' BY <1>1, <2>3, <2>4, Zenon DEF IInv, MemoryIsDivided, Divided
  <2>11. TimeBilled' BY <1>1, <2>2, <2>3, Zenon DEF IInv, TimeBilled, TimeIsConserved, Billed
  <2> QED BY <2>5, <2>6, <2>7, <2>8, <2>9, <2>10, <2>11, Zenon DEF IInv
<1> QED BY <1>3, <1>4, Zenon

LEMMA WaitInv == IInv /\ Wait => IInv'
<1> SUFFICES ASSUME IInv, Wait PROVE IInv' OBVIOUS
<1> USE DEF NoSlot, NoBlock
<1> DEFINE found == {i \in 1..NWaits : waits[i].pid # 0 /\ broker.m.pid \in {0 - 1, waits[i].pid}}
           i == Min(found)
<1>1. /\ broker.base = NoBlock /\ broker.at = "serve" /\ broker.m.op = "wait"
      /\ next_pid' \in Pids \cup {PidMin - 1}
      /\ UNCHANGED <<proc, app_busy, app_endpoint, active, forked, image, staged, owned, files,
                     next_pid, fsTicks, atFork, charged>>
  BY Zenon DEF IInv, Types, BlocksHeld, Wait
<1>2. \/ \E r \in {0 - 22, 0 - 10, 0 - 14} : Answer(r) /\ UNCHANGED <<waits, unwaited>>
      \/ /\ forked.parent = NoSlot /\ found # {} /\ Answer(waits[i].pid)
         /\ waits' = [waits EXCEPT ![i] = Nobody]
         /\ unwaited' = unwaited \ {<<waits[i].pid, waits[i].status>>}
  BY Zenon DEF Wait
<1>3. CASE \E r \in {0 - 22, 0 - 10, 0 - 14} : Answer(r) /\ UNCHANGED <<waits, unwaited>>
  BY <1>1, <1>3, AnswerInv DEF Working
<1>4. CASE /\ forked.parent = NoSlot /\ found # {} /\ Answer(waits[i].pid)
           /\ waits' = [waits EXCEPT ![i] = Nobody]
           /\ unwaited' = unwaited \ {<<waits[i].pid, waits[i].status>>}
  <2>1. i \in 1..NWaits /\ waits[i].pid # 0
    <3>1. found \in SUBSET Nat BY BrokerAssumption
    <3>2. i \in found
      <4> HIDE DEF found
      <4> QED BY <1>4, <3>1, MinIn, Zenon
    <3> QED BY <3>2, Zenon
  <2> HIDE DEF i, found
  <2>2. /\ waits' \in [1..NWaits -> Status] /\ waits'[i] = Nobody
        /\ \A k \in (1..NWaits) \ {i} : waits'[k] = waits[k]
    BY <1>4, <2>1 DEF IInv, Types, Status, Nobody
  <2>3. /\ broker' \in Broker /\ broker'.at = "reply" /\ broker'.base = NoBlock
        /\ broker'.m = broker.m
    <3>1. waits[i].pid \in Int BY <2>1 DEF IInv, Types, Status
    <3> QED BY <1>1, <1>4, <3>1, Zenon DEF IInv, Types, Answer, Broker, Stages
  <2>4. Types' BY <1>1, <2>2, <2>3, Zenon DEF IInv, Types
  <2>5. Control' /\ SlotsInUse'
    BY <1>1, <2>3, Zenon DEF IInv, Control, SlotsInUse, Working, ExecDone
  <2>6. BlocksHeld' BY <1>1, <2>3, Zenon DEF IInv, BlocksHeld, BlocksAreAccounted
  <2>7. PidsKept'
    <3>1. \A k \in 1..NWaits : waits'[k].pid # 0 => k # i /\ waits'[k] = waits[k]
      BY <2>2 DEF Nobody
    <3> QED BY <1>1, <2>3, <3>1 DEF IInv, PidsKept, PidsAreUnique, InUse
  <2>8. StatusesAreKept'
    <3> DEFINE kept == {k \in 1..NWaits : waits[k].pid # 0}
    <3>1. {k \in 1..NWaits : waits'[k].pid # 0} = kept \ {i}
      BY <2>1, <2>2 DEF Nobody
    <3>2. \A k \in kept \ {i} : waits[k].pid # waits[i].pid
      BY <2>1, Zenon DEF IInv, PidsKept, PidsAreUnique
    <3>3. {<<waits'[k].pid, waits'[k].status>> : k \in kept \ {i}}
            = {<<waits[k].pid, waits[k].status>> : k \in kept \ {i}}
      BY <2>2, Zenon
    <3>4. unwaited = {<<waits[k].pid, waits[k].status>> : k \in kept}
      BY Zenon DEF IInv, EntryReserved, StatusesAreKept
    <3>5. {<<waits[k].pid, waits[k].status>> : k \in kept \ {i}}
            = unwaited \ {<<waits[i].pid, waits[i].status>>}
      BY <2>1, <3>2, <3>4
    <3> HIDE DEF kept
    <3> QED BY <1>4, <3>1, <3>3, <3>5, Zenon DEF StatusesAreKept
  <2>9. EntryReserved' BY <1>1, <1>4, <2>3, <2>8, Zenon DEF EntryReserved
  <2>10. RecordsOwned' /\ ParentSaved' /\ MemoryIsDivided'
    BY <1>1, <2>3, Zenon DEF IInv, RecordsOwned, ParentSaved, MemoryIsDivided
  <2>11. TimeBilled' BY <1>1, <2>3, Zenon DEF IInv, TimeBilled, TimeIsConserved, Billed
  <2> QED BY <2>4, <2>5, <2>6, <2>7, <2>9, <2>10, <2>11, Zenon DEF IInv
<1> QED BY <1>2, <1>3, <1>4, Zenon

\* the answers of MM;
LEMMA MMAllocatesInv == IInv /\ MMAllocates => IInv'
<1> SUFFICES ASSUME IInv, MMAllocates PROVE IInv' OBVIOUS
<1> USE DEF NoSlot, NoBlock
<1> DEFINE at == IF broker.at = "allocFork" THEN "copyFork" ELSE "copyExec"
<1>1. PICK b \in Grantable \cup {NoBlock} :
        /\ broker' = [broker EXCEPT !.base = b, !.at = at] /\ owned' = owned \cup ({b} \ {NoBlock})
  BY Zenon DEF MMAllocates
<1>2. /\ broker.at \in {"allocFork", "allocExec"} /\ broker.base = NoBlock
      /\ UNCHANGED <<proc, app_busy, app_endpoint, active, forked, waits, image, staged, files,
                     next_pid, fsTicks, atFork, unwaited, charged>>
  BY Zenon DEF IInv, BlocksHeld, MMAllocates
<1>3. b \in Blocks \cup {NoBlock} /\ b \notin owned /\ NoBlock \notin owned
  BY BrokerAssumption DEF Grantable, IInv, Types, Blocks
<1>4. /\ broker' \in Broker /\ broker'.at = at /\ broker'.base = b
      /\ broker'.m = broker.m /\ broker'.pid = broker.pid
  BY <1>1, <1>3, Zenon DEF IInv, Types, Broker, Stages, Working
<1>5. Types' BY <1>1, <1>2, <1>3, <1>4, Zenon DEF IInv, Types
<1>6. Control' /\ SlotsInUse'
  BY <1>2, <1>4, Zenon DEF IInv, Control, SlotsInUse, Working, ExecDone
<1>7. BlocksHeld'
  BY <1>1, <1>2, <1>3, <1>4 DEF IInv, BlocksHeld, BlocksAreAccounted
<1>8. PidsKept' BY <1>2, <1>4, Zenon DEF IInv, PidsKept, PidsAreUnique, InUse
<1>9. RecordsOwned' /\ EntryReserved' /\ ParentSaved' /\ MemoryIsDivided'
  BY <1>2, <1>4, Zenon DEF IInv, RecordsOwned, EntryReserved, StatusesAreKept, ParentSaved,
                    MemoryIsDivided
<1>10. TimeBilled' BY <1>2, <1>4, Zenon DEF IInv, TimeBilled, TimeIsConserved, Billed
<1> QED BY <1>5, <1>6, <1>7, <1>8, <1>9, <1>10, Zenon DEF IInv

LEMMA MMReleasesInv == IInv /\ MMReleases => IInv'
<1> SUFFICES ASSUME IInv, MMReleases PROVE IInv' OBVIOUS
<1> USE DEF NoSlot, NoBlock
<1>1. /\ broker.at = "release" /\ owned' = owned \ {broker.base}
      /\ staged' = [staged EXCEPT ![broker.base] = NoImage]
      /\ broker' = [broker EXCEPT !.at = "reply", !.base = NoBlock]
      /\ UNCHANGED <<proc, app_busy, app_endpoint, active, forked, waits, image, files, next_pid,
                     fsTicks, atFork, unwaited, charged>>
  BY Zenon DEF MMReleases
<1>2. broker.base # NoBlock /\ broker.base \in Blocks
  BY <1>1, Zenon DEF IInv, Types, Broker, BlocksHeld
<1>3. /\ broker' \in Broker /\ broker'.at = "reply" /\ broker'.base = NoBlock
      /\ broker'.m = broker.m /\ broker'.result = broker.result
  BY <1>1, Zenon DEF IInv, Types, Broker, Stages
<1>4. /\ staged' \in [Blocks -> Memory]
      /\ \A b \in Blocks \ {broker.base} : staged'[b] = staged[b]
  BY <1>1, <1>2 DEF IInv, Types, NoImage, Memory
<1>5. forked.parent # NoSlot => forked.base \in Blocks \ {broker.base}
  BY Zenon DEF IInv, Types, Forked, BlocksHeld, BlocksAreAccounted
<1>6. Types' BY <1>1, <1>3, <1>4, Zenon DEF IInv, Types
<1>7. Control' /\ SlotsInUse'
  BY <1>1, <1>3, Zenon DEF IInv, Control, SlotsInUse, Working, ExecDone
<1>8. BlocksHeld' BY <1>1, <1>2, <1>3, Zenon DEF IInv, BlocksHeld, BlocksAreAccounted
<1>9. PidsKept' BY <1>1, <1>3, Zenon DEF IInv, PidsKept, PidsAreUnique, InUse
<1>10. RecordsOwned' /\ EntryReserved'
  BY <1>1, <1>3, Zenon DEF IInv, RecordsOwned, EntryReserved, StatusesAreKept
<1>11. ParentSaved' /\ MemoryIsDivided'
  BY <1>1, <1>3, <1>4, <1>5, Zenon DEF IInv, ParentSaved, MemoryIsDivided
<1>12. TimeBilled' BY <1>1, <1>3, Zenon DEF IInv, TimeBilled, TimeIsConserved, Billed
<1> QED BY <1>6, <1>7, <1>8, <1>9, <1>10, <1>11, <1>12, Zenon DEF IInv

\* The block is given back, and the request ends with an error.
LEMMA UndoInv ==
    ASSUME IInv, NEW r \in Int, r # 0, Undo(r), broker.at \in {"copyFork", "copyExec"},
           broker.base # NoBlock, NEW im \in Memory,
           staged' \in {staged, [staged EXCEPT ![broker.base] = im]},
           UNCHANGED <<proc, app_busy, app_endpoint, active, forked, waits, image, owned, files,
                       next_pid, fsTicks, atFork, unwaited, charged>>
    PROVE  IInv'
<1> USE DEF NoSlot, NoBlock
<1>1. /\ broker' \in Broker /\ broker'.at = "release" /\ broker'.base = broker.base
      /\ broker'.m = broker.m /\ broker'.result = r
  BY Zenon DEF IInv, Types, Undo, Broker, Stages
<1>2. broker.base \in Blocks BY Zenon DEF IInv, Types, Broker
<1>3. /\ staged' \in [Blocks -> Memory]
      /\ \A b \in Blocks \ {broker.base} : staged'[b] = staged[b]
  BY <1>2, Zenon DEF IInv, Types
<1>4. forked.parent # NoSlot => forked.base \in Blocks \ {broker.base}
  BY Zenon DEF IInv, Types, Forked, BlocksHeld, BlocksAreAccounted
<1>5. Types' BY <1>1, <1>3, Zenon DEF IInv, Types
<1>6. Control' /\ SlotsInUse' BY <1>1, Zenon DEF IInv, Control, SlotsInUse, Working, ExecDone
<1>7. BlocksHeld' BY <1>1, Zenon DEF IInv, BlocksHeld, BlocksAreAccounted
<1>8. PidsKept' BY <1>1, Zenon DEF IInv, PidsKept, PidsAreUnique, InUse
<1>9. RecordsOwned' /\ EntryReserved'
  BY <1>1 DEF IInv, RecordsOwned, EntryReserved, StatusesAreKept
<1>10. ParentSaved' /\ MemoryIsDivided'
  BY <1>1, <1>3, <1>4, Zenon DEF IInv, ParentSaved, MemoryIsDivided
<1>11. TimeBilled' BY <1>1, Zenon DEF IInv, TimeBilled, TimeIsConserved, Billed
<1> QED BY <1>5, <1>6, <1>7, <1>8, <1>9, <1>10, <1>11, Zenon DEF IInv

LEMMA ExecCopyInv == IInv /\ ExecCopy => IInv'
<1> SUFFICES ASSUME IInv, ExecCopy PROVE IInv' OBVIOUS
<1> USE DEF NoSlot, NoBlock
<1> DEFINE file == Images[broker.m.prog]
           new == Loaded(broker.m.prog, broker.m.args)
           floor == HeapFloor(file)
           n == active.child
<1>1. /\ broker.at = "copyExec" /\ broker.base # NoBlock /\ broker.m.op = "exec"
      /\ UNCHANGED <<app_busy, app_endpoint, forked, waits, owned, files, next_pid, fsTicks,
                     atFork, unwaited, charged>>
  BY Zenon DEF ExecCopy, IInv, Control
<1>2. broker.m.prog \in Programs /\ broker.m.args \in Arguments
  <2>1. broker.m \in AnyRequest BY Zenon DEF IInv, Types, Broker
  <2> QED BY <1>1, <2>1, RequestFields, Zenon
<1>3. /\ new \in Memory /\ new.sp = cp32_exec_stack(broker.m.args)
      /\ cp32_image_read(file) /\ new.sp # Refused => floor \in Int /\ Divided(new, floor, floor)
  BY <1>2, LoadedImage, Zenon DEF Loaded
<1>4. \/ /\ \E r \in {0 - 5, 0 - 8, 0 - 7} : Undo(r)
         /\ staged' \in {staged, [staged EXCEPT ![broker.base] = new]}
         /\ UNCHANGED <<proc, active, image>>
      \/ /\ cp32_image_read(file) /\ new.sp # Refused
         /\ staged' = [staged EXCEPT ![broker.base] = new]
         /\ image' = staged'[broker.base]
         /\ active' = [active EXCEPT !.floor = floor, !.brk = floor]
         /\ proc' = [proc EXCEPT ![n].flags = "ready"]
         /\ broker' = [broker EXCEPT !.at = "release", !.result = 0]
  <2> HIDE DEF new, floor, file
  <2>1. \/ /\ \E r \in {0 - 5} \cup (IF cp32_image_read(file) THEN {} ELSE {0 - 8}) : Undo(r)
           /\ UNCHANGED <<proc, active, image, staged>>
        \/ /\ cp32_image_read(file) /\ new.sp = Refused /\ Undo(0 - 7)
           /\ staged' = [staged EXCEPT ![broker.base] = new]
           /\ UNCHANGED <<proc, active, image>>
        \/ /\ cp32_image_read(file) /\ new.sp # Refused
           /\ staged' = [staged EXCEPT ![broker.base] = new]
           /\ image' = staged'[broker.base]
           /\ active' = [active EXCEPT !.floor = floor, !.brk = floor]
           /\ proc' = [proc EXCEPT ![active.child].flags = "ready"]
           /\ broker' = Committed(new)
    BY Zenon DEF ExecCopy, new, floor, file
  <2> QED BY <2>1, Zenon DEF Committed
<1> HIDE DEF new, floor, file
<1>5. CASE /\ \E r \in {0 - 5, 0 - 8, 0 - 7} : Undo(r)
           /\ staged' \in {staged, [staged EXCEPT ![broker.base] = new]}
           /\ UNCHANGED <<proc, active, image>>
  <2>1. PICK r \in {0 - 5, 0 - 8, 0 - 7} : Undo(r) BY <1>5, Zenon
  <2>2. r \in Int /\ r # 0 OBVIOUS
  <2> QED BY <1>1, <1>3, <1>5, <2>1, <2>2, UndoInv, Zenon
<1>6. CASE /\ cp32_image_read(file) /\ new.sp # Refused
           /\ staged' = [staged EXCEPT ![broker.base] = new]
           /\ image' = staged'[broker.base]
           /\ active' = [active EXCEPT !.floor = floor, !.brk = floor]
           /\ proc' = [proc EXCEPT ![n].flags = "ready"]
           /\ broker' = [broker EXCEPT !.at = "release", !.result = 0]
  <2>1. /\ n \in Slots /\ app_endpoint = n /\ broker.base \in Blocks
        /\ proc[n].flags = "receiving"
    BY <1>1, Zenon DEF IInv, Types, Broker, Control, Working
  <2>2. /\ broker' \in Broker /\ broker'.at = "release" /\ broker'.base = broker.base
        /\ broker'.m = broker.m /\ broker'.result = 0
    <3>1. broker' = [broker EXCEPT !.at = "release", !.result = 0] BY <1>6, Zenon
    <3>2. broker \in Broker BY Zenon DEF IInv, Types
    <3>3. broker' = [at |-> "release", m |-> broker.m, result |-> 0, base |-> broker.base,
                     pid |-> broker.pid]
      BY <3>1, <3>2, Zenon DEF Broker
    <3>4. broker.m \in AnyRequest /\ broker.pid \in Int /\ broker.base \in Blocks \cup {NoBlock}
      BY <3>2, Zenon DEF Broker
    <3> QED BY <3>3, <3>4 DEF Broker, Stages
  <2>3. /\ active' \in Active /\ active'.child = n /\ active'.floor = floor
        /\ active'.brk = floor
    <3>1. active' = [active EXCEPT !.floor = floor, !.brk = floor] BY <1>6, Zenon
    <3> QED BY <1>3, <1>6, <3>1, Zenon DEF IInv, Types, Active
  <2>4. /\ staged' \in [Blocks -> Memory] /\ image' = new
        /\ \A b \in Blocks \ {broker.base} : staged'[b] = staged[b]
    BY <1>3, <1>6, <2>1, Zenon DEF IInv, Types
  <2>5. /\ proc' \in [Slots -> Process] /\ proc'[n].flags = "ready"
        /\ \A k \in Slots \ {n} : proc'[k] = proc[k]
        /\ \A k \in Slots : proc'[k].pid = proc[k].pid /\ proc'[k].own = proc[k].own
                            /\ proc'[k].child = proc[k].child
    <3>1. proc' = [proc EXCEPT ![n].flags = "ready"] BY <1>6, Zenon
    <3> QED BY <2>1, <3>1, ZenonT(60) DEF IInv, Types, Process
  <2> HIDE DEF n
  <2>6. forked.parent # NoSlot => forked.base \in Blocks \ {broker.base}
    BY Zenon DEF IInv, Types, Forked, BlocksHeld, BlocksAreAccounted
  <2>7. Types' BY <1>1, <1>3, <2>2, <2>3, <2>4, <2>5, Zenon DEF IInv, Types
  <2>8. Control' /\ SlotsInUse'
    <3>1. forked' = forked /\ app_endpoint' = app_endpoint /\ app_busy' = app_busy
      BY <1>1
    <3>2. app_busy /\ broker.m.op = "exec" BY <1>1, Zenon DEF IInv, Control
    <3>3. Control'
      BY <2>1, <2>2, <2>3, <2>5, <3>1, <3>2, Zenon DEF Control, Working, ExecDone
    <3>4. SlotsInUse'
      <4>1. ASSUME NEW k \in Slots PROVE proc'[k].flags # "free" <=> proc[k].flags # "free"
        <5>1. CASE k = n BY <2>1, <2>5, <5>1, Zenon
        <5>2. CASE k # n BY <2>5, <5>2, Zenon
        <5> QED BY <5>1, <5>2, Zenon
      <4>2. forked.parent # NoSlot =>
              forked.parent \in Slots \ {n} /\ proc[forked.parent].flags = "receiving"
        BY Zenon DEF IInv, Types, Forked, SlotsInUse, n
      <4>3. \A k \in Slots : proc[k].flags # "free" <=> k \in {n, forked.parent}
        BY Zenon DEF IInv, SlotsInUse, n
      <4> QED BY <2>3, <2>5, <3>1, <4>1, <4>2, <4>3, Zenon DEF SlotsInUse
    <3> QED BY <3>3, <3>4, Zenon
  <2>9. BlocksHeld' BY <1>1, <2>2, Zenon DEF IInv, BlocksHeld, BlocksAreAccounted
  <2>10. PidsKept'
    BY <1>1, <2>1, <2>2, <2>5 DEF IInv, PidsKept, PidsAreUnique, InUse
  <2>11. RecordsOwned' /\ EntryReserved'
    BY <1>1, <2>1, <2>2, <2>3, <2>5
    DEF IInv, Types, Forked, RecordsOwned, EntryReserved, StatusesAreKept, n
  <2>12. ParentSaved' BY <1>1, <2>4, <2>6, Zenon DEF IInv, ParentSaved
  <2>13. MemoryIsDivided'
    BY <1>1, <1>3, <1>6, <2>2, <2>3, <2>4, <2>6, Zenon DEF IInv, MemoryIsDivided
  <2>14. TimeBilled'
    BY <1>1, <2>1, <2>2, <2>3, <2>5, Zenon
    DEF IInv, Types, Forked, TimeBilled, TimeIsConserved, Billed, n
  <2> QED BY <2>7, <2>8, <2>9, <2>10, <2>11, <2>12, <2>13, <2>14, Zenon DEF IInv
<1> QED BY <1>4, <1>5, <1>6, Zenon

\* the end of the program
LEMMA ExitInv == IInv /\ Exit => IInv'
<1> SUFFICES ASSUME IInv, Exit PROVE IInv' OBVIOUS
<1> USE DEF NoSlot, NoBlock
<1>1. /\ broker.at = "serve" /\ forked.parent = NoSlot
      /\ waits' = [i \in 1..NWaits |-> Nobody] /\ unwaited' = {}
      /\ files' = [files EXCEPT !.app = 0]
      /\ fsTicks' = fsTicks + TimeOf(proc, active.child)
      /\ proc' = [proc EXCEPT ![active.child] = Free]
      /\ app_busy' = FALSE /\ app_endpoint' = NoSlot /\ active' = Gone /\ broker' = Idle
      /\ UNCHANGED <<forked, image, staged, owned, next_pid, atFork, charged>>
  BY Zenon DEF Exit, cp32_proc_release
<1>2. active.child \in Slots /\ broker.base = NoBlock /\ proc[active.child].flags = "receiving"
  BY <1>1, Zenon DEF IInv, Control, BlocksHeld, Working
<1>3. /\ proc' \in [Slots -> Process] /\ proc'[active.child] = Free
      /\ \A n \in Slots \ {active.child} : proc'[n] = proc[n]
  BY <1>1, <1>2, Zenon DEF IInv, Types, Process, Free, AnyRequest, NoRequest
<1>4. broker' \in Broker /\ broker'.at = "idle" /\ broker'.base = NoBlock
  BY <1>1 DEF Idle, Broker, Stages, AnyRequest, NoRequest
<1>5. active' \in Active /\ active'.child = NoSlot BY <1>1 DEF Gone, Active
<1>6. files' \in Record /\ waits' \in [1..NWaits -> Status]
  BY <1>1 DEF IInv, Types, Record, Status, Nobody
<1>7. fsTicks' = fsTicks + Billed(active.child) /\ Billed(active.child) \in Nat
  <2>1. active.child # NoSlot BY <1>2, BrokerAssumption DEF Slots
  <2> QED BY <1>1, <1>2, <2>1, BilledNat, Zenon DEF TimeOf, Billed, IInv
<1>8. Types'
  <2>1. fsTicks' \in Nat BY <1>7 DEF IInv, Types
  <2>2. app_endpoint' = NoSlot /\ app_busy' = FALSE
        /\ UNCHANGED <<forked, image, staged, owned, next_pid, atFork, charged>>
    BY <1>1, Zenon
  <2> QED BY <1>3, <1>4, <1>5, <1>6, <2>1, <2>2, Zenon DEF IInv, Types
<1>9. Control' /\ SlotsInUse'
  BY <1>1, <1>2, <1>3, <1>4, <1>5, BrokerAssumption
  DEF IInv, Control, SlotsInUse, Working, ExecDone, Free, Slots
<1>10. BlocksHeld' BY <1>1, <1>2, <1>4, Zenon DEF IInv, BlocksHeld, BlocksAreAccounted
<1>11. PidsKept'
  <2>1. \A i \in 1..NWaits : waits'[i].pid = 0 BY <1>1, ZenonT(60) DEF Nobody
  <2>2. \A n \in Slots : proc'[n].flags # "free" => proc'[n] = proc[n] BY <1>3 DEF Free
  <2>3. PidsAreUnique' BY <2>1, <2>2 DEF IInv, PidsKept, PidsAreUnique, InUse
  <2> QED BY <1>4, <2>2, <2>3, Zenon DEF IInv, PidsKept
<1>12. RecordsOwned' /\ EntryReserved' /\ ParentSaved' /\ MemoryIsDivided'
  BY <1>1, <1>4, <1>5, Zenon
  DEF RecordsOwned, EntryReserved, StatusesAreKept, ParentSaved, MemoryIsDivided, Nobody
<1>13. TimeBilled'
  <2>1. Billed(NoSlot) = 0 /\ Billed(NoSlot)' = 0 BY Zenon DEF Billed
  <2>2. charged = fsTicks + Billed(active.child) + 0
    BY <1>1, <2>1, Zenon DEF IInv, TimeBilled, TimeIsConserved
  <2>3. TimeIsConserved' <=> charged' = fsTicks' + Billed(NoSlot)' + Billed(NoSlot)'
    BY <1>1, <1>5, Zenon DEF TimeIsConserved
  <2>4. fsTicks \in Nat BY Zenon DEF IInv, Types
  <2>5. TimeIsConserved' BY <1>1, <1>7, <2>1, <2>2, <2>3, <2>4
  <2> QED BY <1>4, <2>5, Zenon DEF TimeBilled
<1> QED BY <1>8, <1>9, <1>10, <1>11, <1>12, <1>13, Zenon DEF IInv

\* the steps of fork and exec behind the allocation,
LEMMA ForkCopyInv == IInv /\ ForkCopy => IInv'
<1> SUFFICES ASSUME IInv, ForkCopy PROVE IInv' OBVIOUS
<1> USE DEF NoSlot, NoBlock
<1> DEFINE parent == active.child
           n == Min(FreeSlots)
<1>1. /\ broker.at = "copyFork" /\ broker.base # NoBlock
      /\ staged' = [staged EXCEPT ![broker.base] = image]
      /\ UNCHANGED <<app_busy, app_endpoint, waits, image, owned, next_pid, fsTicks, unwaited,
                     charged>>
  BY Zenon DEF ForkCopy
<1>2. CASE /\ \E r \in {0 - 23, 0 - 11} : Undo(r)
           /\ UNCHANGED <<proc, active, forked, files, atFork>>
  <2>1. image \in Memory BY Zenon DEF IInv, Types
  <2>2. PICK r \in {0 - 23, 0 - 11} : Undo(r) BY <1>2, Zenon
  <2>3. r \in Int /\ r # 0 BY <2>2
  <2>4. staged' \in {staged, [staged EXCEPT ![broker.base] = image]} BY <1>1, Zenon
  <2> QED BY <1>1, <1>2, <2>1, <2>2, <2>3, <2>4, UndoInv, Zenon
<1>3. CASE /\ FreeSlots # {} /\ proc' = Clone(n, broker.pid)
           /\ forked' = [parent |-> parent, base |-> broker.base, floor |-> active.floor,
                         brk |-> active.brk, ppid |-> active.ppid, slot |-> WaitEntry]
           /\ active' = [active EXCEPT !.child = n, !.ppid = proc[parent].pid]
           /\ files' = [app |-> broker.pid, saved |-> files.app]
           /\ atFork' = [image |-> image, active |-> active, files |-> files.app]
           /\ broker' = [broker EXCEPT !.at = "reply", !.result = 0, !.base = NoBlock]
  <2>1. n \in Slots /\ proc[n].flags = "free"
    <3>1. FreeSlots \in SUBSET Nat BY BrokerAssumption DEF FreeSlots, Slots
    <3> QED BY <1>3, <3>1, MinIn, Zenon DEF FreeSlots
  <2>2. WaitEntry \in 1..NWaits /\ waits[WaitEntry].pid = 0
    <3> DEFINE S == {i \in 1..NWaits : waits[i].pid = 0}
    <3>1. S # {} /\ S \in SUBSET (0..NWaits) /\ NWaits \in Nat
      BY <1>1, BrokerAssumption DEF IInv, EntryReserved
    <3>2. Max(S) \in S
      <4> HIDE DEF S
      <4> QED BY <3>1, MaxIn, Zenon
    <3> QED BY <3>2, Zenon DEF WaitEntry
  <2>3. /\ parent \in Slots /\ parent # n /\ proc[parent].flags = "receiving"
        /\ proc[parent].pid # 0 /\ files.app = proc[parent].pid /\ forked.parent = NoSlot
        /\ forked.base = NoBlock
    BY <1>1, <2>1, Zenon DEF IInv, Control, Working, PidsKept, RecordsOwned, BlocksHeld,
                      BlocksAreAccounted
  <2>4. /\ broker.pid \in Nat \ {0} /\ \A i \in 1..NWaits : waits[i].pid # broker.pid
        /\ \A k \in Slots : proc[k].flags # "free" => proc[k].pid # broker.pid
    BY <1>1, Zenon DEF IInv, PidsKept
  <2> DEFINE new == [proc[parent] EXCEPT !.pid = broker.pid, !.own = 0, !.child = 0]
  <2>5. /\ new \in Process /\ new.flags = "receiving" /\ new.pid = broker.pid
        /\ new.own = 0 /\ new.child = 0
    BY <2>3, <2>4, Zenon DEF IInv, Types, Process
  <2>6. proc' = [proc EXCEPT ![n] = new] BY <1>3, Zenon DEF Clone
  <2>7. broker.base \in Blocks BY <1>1, Zenon DEF IInv, Types, Broker
  <2>8. /\ active' \in Active /\ active'.child = n /\ active'.floor = active.floor
        /\ active'.brk = active.brk
    <3>1. proc[parent].pid \in Int BY <2>3 DEF IInv, Types, Process
    <3> HIDE DEF n
    <3>2. active' = [active EXCEPT !.child = n, !.ppid = proc[parent].pid] BY <1>3, Zenon
    <3> QED BY <2>1, <3>1, <3>2, Zenon DEF IInv, Types, Active
  <2> HIDE DEF n, new
  <2>9. /\ proc' \in [Slots -> Process] /\ proc'[n] = new
        /\ \A k \in Slots \ {n} : proc'[k] = proc[k]
    BY <2>1, <2>5, <2>6, Zenon DEF IInv, Types
  <2>10. /\ forked' \in Forked /\ forked'.parent = parent /\ forked'.base = broker.base
         /\ forked'.floor = active.floor /\ forked'.brk = active.brk
         /\ forked'.ppid = active.ppid /\ forked'.slot = WaitEntry
    BY <1>3, <2>2, <2>3, <2>7, Zenon DEF IInv, Types, Active, Forked
  <2>11. /\ broker' \in Broker /\ broker'.at = "reply" /\ broker'.base = NoBlock
         /\ broker'.result = 0 /\ broker'.m = broker.m
    <3>1. broker' = [broker EXCEPT !.at = "reply", !.result = 0, !.base = NoBlock]
      BY <1>3, Zenon
    <3>2. broker \in Broker BY Zenon DEF IInv, Types
    <3>3. broker' = [at |-> "reply", m |-> broker.m, result |-> 0, base |-> NoBlock,
                     pid |-> broker.pid]
      BY <3>1, <3>2, Zenon DEF Broker
    <3>4. broker.m \in AnyRequest /\ broker.pid \in Int BY <3>2, Zenon DEF Broker
    <3> QED BY <3>3, <3>4 DEF Broker, Stages
  <2>12. files' \in Record /\ files'.app = broker.pid /\ files'.saved = files.app
    BY <1>3, <2>4, Zenon DEF IInv, Types, Record
  <2>13. atFork' \in History /\ atFork'.image = image /\ atFork'.active = active
         /\ atFork'.files = files.app
    BY <1>3, Zenon DEF IInv, Types, History, Record
  <2>14. staged' \in [Blocks -> Memory] /\ staged'[broker.base] = image
    BY <1>1, <2>7, Zenon DEF IInv, Types
  <2>15. Types' BY <1>1, <2>8, <2>9, <2>10, <2>11, <2>12, <2>13, <2>14, Zenon DEF IInv, Types
  <2>16. broker.m.op # "exec" BY <1>1, Zenon DEF IInv, Control
  <2>17. Control'
    <3>1. proc'[n].flags = "receiving" /\ ~ExecDone'
      BY <2>5, <2>9, <2>11, <2>16, Zenon DEF ExecDone
    <3> QED BY <1>1, <2>1, <2>8, <2>11, <3>1, Zenon DEF IInv, Control, Working
  <2>18. SlotsInUse'
    BY <2>1, <2>3, <2>5, <2>8, <2>9, <2>10, BrokerAssumption DEF IInv, SlotsInUse, Slots
  <2>19. BlocksHeld'
    <3>1. owned = {broker.base} /\ owned' = owned
      BY <1>1, <2>3, <2>7, BrokerAssumption, Zenon
      DEF IInv, BlocksHeld, BlocksAreAccounted, Blocks
    <3>2. broker.base # NoBlock /\ parent # NoSlot
      BY <2>3, <2>7, BrokerAssumption DEF Blocks, Slots
    <3> QED BY <2>10, <2>11, <3>1, <3>2, Zenon DEF BlocksHeld, BlocksAreAccounted
  <2>20. PidsKept'
    <3>1. PidsAreUnique /\ \A k \in Slots : proc[k].flags # "free" => proc[k].pid # 0
      BY Zenon DEF IInv, PidsKept
    <3>2. waits' = waits BY <1>1, Zenon
    <3>3. PidsAreUnique' BY <2>1, <2>4, <2>5, <2>9, <3>1, <3>2 DEF PidsAreUnique, InUse
    <3> QED BY <2>4, <2>5, <2>9, <2>11, <3>1, <3>3, Zenon DEF PidsKept
  <2>21. RecordsOwned'
    <3>1. active'.child = n /\ proc'[n].pid = broker.pid /\ forked'.parent = parent
      BY <2>5, <2>8, <2>9, <2>10, Zenon
    <3>2. proc'[parent].pid = files.app BY <2>3, <2>9, Zenon
    <3> QED BY <2>12, <3>1, <3>2, Zenon DEF RecordsOwned
  <2>22. EntryReserved'
    BY <1>1, <2>2, <2>10, <2>11, Zenon DEF IInv, EntryReserved, StatusesAreKept
  <2>23. ParentSaved'
    <3>1. active = [child |-> parent, ppid |-> active.ppid, floor |-> active.floor,
                    brk |-> active.brk]
      BY Zenon DEF IInv, Types, Active
    <3> HIDE DEF parent
    <3> QED BY <2>10, <2>12, <2>13, <2>14, <3>1, Zenon DEF ParentSaved
  <2>24. MemoryIsDivided'
    BY <1>1, <2>3, <2>8, <2>10, <2>14 DEF IInv, MemoryIsDivided, Slots
  <2>25. TimeBilled'
    <3>1. PICK p \in Slots, c \in Slots : p = parent /\ c = n BY <2>1, <2>3, Zenon
    <3>2. p # NoSlot /\ c # NoSlot BY BrokerAssumption DEF Slots
    <3>3. Billed(c)' = 0 BY <2>5, <2>9, <3>1, <3>2 DEF Billed
    <3>4. Billed(p)' = Billed(p) BY <2>3, <2>9, <3>1, Zenon DEF Billed
    <3>5. Billed(p) \in Nat /\ Billed(NoSlot) = 0 BY <3>2, BilledNat, Zenon DEF IInv, Billed
    <3>6. charged = fsTicks + Billed(p) + 0
      BY <2>3, <3>1, <3>5, Zenon DEF IInv, TimeBilled, TimeIsConserved
    <3>7. TimeIsConserved' <=> charged' = fsTicks' + Billed(c)' + Billed(p)'
      BY <2>8, <2>10, <3>1, Zenon DEF TimeIsConserved
    <3>8. fsTicks \in Nat BY Zenon DEF IInv, Types
    <3>9. TimeIsConserved' BY <1>1, <3>3, <3>4, <3>5, <3>6, <3>7, <3>8
    <3> QED BY <2>11, <3>9, Zenon DEF TimeBilled
  <2> QED
    BY <2>15, <2>17, <2>18, <2>19, <2>20, <2>21, <2>22, <2>23, <2>24, <2>25, Zenon DEF IInv
<1> QED BY <1>2, <1>3, Zenon DEF ForkCopy

\* and of its child.
LEMMA ChildExitInv == IInv /\ ChildExit => IInv'
<1> SUFFICES ASSUME IInv, ChildExit PROVE IInv' OBVIOUS
<1> USE DEF NoSlot, NoBlock
<1>1. PICK c \in Slots, p \in Slots, s \in 1..NWaits :
        /\ s = forked.slot /\ c = active.child /\ p = forked.parent /\ p # c
        /\ proc[c].flags = "receiving" /\ proc[p].flags = "receiving"
        /\ proc[c].pid # 0 /\ proc[p].pid # 0 /\ broker.at = "serve" /\ broker.base = NoBlock
        /\ files.saved = proc[p].pid
  BY Zenon
  DEF IInv, Types, Forked, Control, SlotsInUse, PidsKept, BlocksHeld, RecordsOwned, Working,
         ChildExit
<1> DEFINE status == broker.m.status
           billed == TimeToParent(proc, c, p)
<1>2. /\ waits' = [waits EXCEPT ![s] = [pid |-> proc[c].pid, status |-> status]]
      /\ unwaited' = unwaited \cup {<<proc[c].pid, status>>}
      /\ files' = [app |-> files.saved, saved |-> 0]
      /\ fsTicks' = fsTicks + TimeOf(billed, c)
      /\ proc' = [billed EXCEPT ![c] = Free]
      /\ image' = staged[forked.base]
      /\ active' = [child |-> p, ppid |-> forked.ppid, floor |-> forked.floor, brk |-> forked.brk]
      /\ forked' = NotForked
      /\ broker' = [broker EXCEPT !.at = "release", !.base = forked.base, !.result = proc[c].pid]
      /\ atFork' = NoFork
      /\ UNCHANGED <<app_busy, app_endpoint, staged, owned, next_pid, charged>>
      /\ broker.m.op = "exit"
  BY <1>1, Zenon DEF ChildExit, SavedRecord, SavedImage, cp32_proc_release
<1>3. waits[s].pid = 0 /\ forked.base \in Blocks /\ status \in Int
  <2>1. broker.m \in AnyRequest BY Zenon DEF IInv, Types, Broker
  <2>2. forked.parent # NoSlot BY Zenon DEF ChildExit
  <2> QED BY <1>1, <1>2, <2>1, <2>2, RequestFields, Zenon
          DEF IInv, Types, Forked, EntryReserved, BlocksHeld, BlocksAreAccounted
<1>4. /\ proc' \in [Slots -> Process] /\ proc'[c] = Free
      /\ \A k \in Slots \ {c, p} : proc'[k] = proc[k]
      /\ proc'[p].flags = "receiving" /\ proc'[p].pid = proc[p].pid
      /\ proc'[p].own = proc[p].own
      /\ proc'[p].child = proc[p].child + proc[c].own + proc[c].child
      /\ fsTicks' = fsTicks
  <2>1. proc \in [Slots -> Process] BY Zenon DEF IInv, Types
  <2>2. /\ proc[c].own \in Nat /\ proc[c].child \in Nat /\ proc[p].own \in Nat
        /\ proc[p].child \in Nat /\ fsTicks \in Nat
    BY <2>1, Zenon DEF Process, IInv, Types
  <2> DEFINE t == proc[p].child + proc[c].own + proc[c].child
  <2>3. t \in Nat BY <2>2
  <2>4. billed = [proc EXCEPT ![p].child = t, ![c].own = 0, ![c].child = 0]
    BY Zenon DEF TimeToParent
  <2> HIDE DEF t, billed
  <2> DEFINE bp == [proc[p] EXCEPT !.child = t]
             bc == [proc[c] EXCEPT !.own = 0, !.child = 0]
  <2>a. /\ bp \in Process /\ bp.flags = "receiving" /\ bp.pid = proc[p].pid
        /\ bp.own = proc[p].own /\ bp.child = t
    BY <1>1, <2>1, <2>3, Zenon DEF Process
  <2>b. bc \in Process /\ bc.own = 0 /\ bc.child = 0 BY <2>1, Zenon DEF Process
  <2>c. billed = [[proc EXCEPT ![p] = bp] EXCEPT ![c] = bc] BY <1>1, <2>1, <2>4, Zenon
  <2> HIDE DEF bp, bc
  <2>5. /\ billed \in [Slots -> Process]
        /\ \A k \in Slots \ {c, p} : billed[k] = proc[k]
        /\ billed[p] = bp /\ billed[c] = bc
    BY <1>1, <2>1, <2>a, <2>b, <2>c, Zenon
  <2>6. Free \in Process BY Zenon DEF Free, Process, AnyRequest, NoRequest
  <2>7. fsTicks' = fsTicks BY <1>2, <2>2, <2>5, <2>b DEF TimeOf
  <2> QED BY <1>1, <1>2, <2>5, <2>6, <2>7, <2>a, Zenon DEF t
<1> HIDE DEF billed, status
<1>5. /\ broker' \in Broker /\ broker'.at = "release" /\ broker'.base = forked.base
      /\ broker'.m = broker.m /\ ~ExecDone'
  <2>1. broker \in Broker /\ proc[c].pid \in Int BY DEF IInv, Types, Process
  <2>2. broker' = [at |-> "release", m |-> broker.m, result |-> proc[c].pid,
                   base |-> forked.base, pid |-> broker.pid]
    BY <1>2, <2>1, Zenon DEF Broker
  <2>3. broker.m \in AnyRequest /\ broker.pid \in Int BY <2>1, Zenon DEF Broker
  <2> QED BY <1>2, <1>3, <2>1, <2>2, <2>3, Zenon DEF Broker, Stages, ExecDone
<1>6. /\ active' \in Active /\ active'.child = p /\ active'.floor = forked.floor
      /\ active'.brk = forked.brk
  BY <1>2, Zenon DEF IInv, Types, Active, Forked
<1>7. forked' \in Forked /\ forked'.parent = NoSlot /\ forked'.base = NoBlock
  BY <1>2, BrokerAssumption DEF NotForked, Forked
<1>8. /\ waits' \in [1..NWaits -> Status] /\ waits'[s].pid = proc[c].pid
      /\ waits'[s].status = status /\ \A i \in (1..NWaits) \ {s} : waits'[i] = waits[i]
  <2>1. proc[c].pid \in Nat BY Zenon DEF IInv, Types, Process
  <2> QED BY <1>2, <1>3, <2>1, Zenon DEF IInv, Types, Status
<1>9. files' \in Record /\ files'.app = proc[p].pid
  BY <1>1, <1>2, Zenon DEF IInv, Types, Process, Record
<1>10. image' \in Memory /\ atFork' \in History
  BY <1>2, <1>3 DEF IInv, Types, NoFork, NoImage, Gone, History, Memory, Active
<1>11. Types' BY <1>2, <1>4, <1>5, <1>6, <1>7, <1>8, <1>9, <1>10, Zenon DEF IInv, Types
<1>12. Control' BY <1>1, <1>2, <1>4, <1>5, <1>6, <1>7, ZenonT(60) DEF IInv, Control, Working
<1>13. SlotsInUse'
  <2>1. \A k \in Slots : k # NoSlot BY BrokerAssumption DEF Slots
  <2>2. ASSUME NEW k \in Slots PROVE proc'[k].flags # "free" <=> k = p
    <3>1. CASE k = c
      <4>1. Free.flags = "free" BY Zenon DEF Free
      <4> QED BY <1>1, <1>4, <3>1, <4>1, Zenon
    <3>2. CASE k = p BY <1>4, <3>2, Zenon
    <3>3. CASE k \notin {c, p}
      <4>1. proc'[k] = proc[k] BY <1>4, <3>3, Zenon
      <4>2. proc[k].flags = "free" BY <1>1, <3>3, Zenon DEF IInv, SlotsInUse
      <4> QED BY <3>3, <4>1, <4>2, Zenon
    <3> QED BY <3>1, <3>2, <3>3, Zenon
  <2> QED BY <1>6, <1>7, <2>1, <2>2, Zenon DEF SlotsInUse
<1>14. BlocksHeld'
  BY <1>1, <1>2, <1>3, <1>5, <1>7, BrokerAssumption DEF IInv, BlocksHeld, BlocksAreAccounted,
                                                        Blocks
<1>15. PidsKept'
  <2>1. \A k \in Slots : proc'[k].flags # "free" =>
          k # c /\ proc[k].flags # "free" /\ proc'[k].pid = proc[k].pid
    <3> SUFFICES ASSUME NEW k \in Slots, proc'[k].flags # "free"
                 PROVE  k # c /\ proc[k].flags # "free" /\ proc'[k].pid = proc[k].pid
      BY Zenon
    <3>1. k # c
      <4>1. Free.flags = "free" BY Zenon DEF Free
      <4> QED BY <1>4, <4>1, Zenon
    <3>2. CASE k = p
      <4>1. proc[p].flags # "free" BY <1>1
      <4> QED BY <1>4, <3>1, <3>2, <4>1, Zenon
    <3>3. CASE k # p
      <4>1. proc'[k] = proc[k] BY <1>4, <3>1, <3>3, Zenon
      <4> QED BY <3>1, <4>1, Zenon
    <3> QED BY <3>2, <3>3, Zenon
  <2>2. \A k \in Slots : proc[k].flags # "free" /\ k # c => proc[k].pid # proc[c].pid
    BY <1>1, Zenon DEF IInv, PidsKept, PidsAreUnique, InUse
  <2>3. \A i \in 1..NWaits : waits[i].pid # 0 => waits[i].pid # proc[c].pid
    BY <1>1, Zenon DEF IInv, PidsKept, PidsAreUnique, InUse
  <2>4. \A i \in 1..NWaits : waits'[i].pid = IF i = s THEN proc[c].pid ELSE waits[i].pid
    BY <1>8, Zenon
  <2>5. PidsAreUnique'
    <3>1. \A i, j \in InUse' : proc'[i].pid = proc'[j].pid => i = j
      BY <2>1 DEF IInv, PidsKept, PidsAreUnique, InUse
    <3>2. \A i \in 1..NWaits : waits'[i].pid # 0 => \A k \in InUse' : proc'[k].pid # waits'[i].pid
      BY <2>1, <2>2, <2>4 DEF IInv, PidsKept, PidsAreUnique, InUse
    <3>3. \A i, j \in 1..NWaits : waits'[i].pid # 0 /\ waits'[j].pid = waits'[i].pid => i = j
      BY <2>3, <2>4, Zenon DEF IInv, PidsKept, PidsAreUnique
    <3> QED BY <3>1, <3>2, <3>3, ZenonT(60) DEF PidsAreUnique
  <2> QED BY <1>5, <2>1, <2>5, ZenonT(60) DEF IInv, PidsKept
<1>16. RecordsOwned' BY <1>4, <1>5, <1>6, <1>7, <1>9, Zenon DEF RecordsOwned
<1>17. StatusesAreKept'
  <2> DEFINE kept == {k \in 1..NWaits : waits[k].pid # 0}
  <2>1. {k \in 1..NWaits : waits'[k].pid # 0} = kept \cup {s} BY <1>1, <1>3, <1>8
  <2>2. s \notin kept BY <1>3, Zenon
  <2>3. {<<waits'[k].pid, waits'[k].status>> : k \in kept \cup {s}}
          = {<<waits[k].pid, waits[k].status>> : k \in kept} \cup {<<proc[c].pid, status>>}
    BY <1>3, <1>8, <2>2
  <2>4. unwaited = {<<waits[k].pid, waits[k].status>> : k \in kept}
    BY Zenon DEF IInv, EntryReserved, StatusesAreKept
  <2> HIDE DEF kept
  <2> QED BY <1>2, <2>1, <2>3, <2>4, Zenon DEF StatusesAreKept
<1>18. EntryReserved' BY <1>5, <1>7, <1>17, Zenon DEF EntryReserved
<1>19. ParentSaved' BY <1>7, Zenon DEF ParentSaved
<1>20. MemoryIsDivided' BY <1>1, <1>2, <1>6, <1>7, Zenon DEF IInv, MemoryIsDivided, ChildExit
<1>21. TimeBilled'
  <2>1. c # NoSlot /\ p # NoSlot BY BrokerAssumption DEF Slots
  <2>2. Billed(c) \in Nat /\ Billed(p) \in Nat /\ fsTicks \in Nat
    BY BilledNat, Zenon DEF IInv, Types
  <2>3. /\ proc[c].own \in Nat /\ proc[c].child \in Nat /\ proc[p].own \in Nat
        /\ proc[p].child \in Nat
    BY Zenon DEF IInv, Types, Process
  <2>4. Billed(p)' = Billed(p) + Billed(c) BY <1>4, <2>1, <2>3 DEF Billed
  <2>5. Billed(NoSlot)' = 0 BY Zenon DEF Billed
  <2>6. charged = fsTicks + Billed(c) + Billed(p)
    BY <1>1, Zenon DEF IInv, TimeBilled, TimeIsConserved
  <2>7. TimeIsConserved' <=> charged' = fsTicks' + Billed(p)' + Billed(NoSlot)'
    BY <1>6, <1>7, Zenon DEF TimeIsConserved
  <2>8. TimeIsConserved' BY <1>2, <1>4, <2>2, <2>4, <2>5, <2>6, <2>7
  <2> QED BY <1>5, <2>8, Zenon DEF TimeBilled
<1> QED BY <1>11, <1>12, <1>13, <1>14, <1>15, <1>16, <1>18, <1>19, <1>20, <1>21, Zenon DEF IInv

\* Every step keeps the invariant.
LEMMA StepInv == IInv /\ [Next]_vars => IInv'
<1> SUFFICES ASSUME IInv, [Next]_vars PROVE IInv' OBVIOUS
<1>1. CASE Launch BY <1>1, LaunchInv, Zenon
<1>2. CASE LoadStep BY <1>2, LoadInv, LoadFailsInv, Zenon DEF LoadStep
<1>3. CASE Serve
  BY <1>3, ReceiveInv, ReplyInv, QueryInv, TransferInv, SbrkInv, WaitInv, ForkInv, ExecInv,
     ChildExitInv, ExitInv, Zenon DEF Serve
<1>4. CASE Copy BY <1>4, ForkCopyInv, ExecCopyInv, NoMemoryInv, Zenon DEF Copy
<1>5. CASE MM BY <1>5, MMAllocatesInv, MMReleasesInv, Zenon DEF MM
<1>6. CASE Program BY <1>6, ComputeInv, CallInv, Zenon DEF Program
<1>7. CASE UNCHANGED vars
  <2>1. Types' /\ Control' /\ SlotsInUse' /\ RecordsOwned' /\ TimeBilled'
    BY <1>7, Zenon
    DEF vars, IInv, Types, Control, ExecDone, SlotsInUse, RecordsOwned, TimeBilled,
                TimeIsConserved, Billed
  <2>2. BlocksHeld' /\ ParentSaved' /\ MemoryIsDivided'
    BY <1>7, Zenon DEF vars, IInv, BlocksHeld, BlocksAreAccounted, ParentSaved, MemoryIsDivided
  <2>3. PidsKept' BY <1>7, Zenon DEF vars, IInv, PidsKept, PidsAreUnique, InUse
  <2>4. EntryReserved' BY <1>7, Zenon DEF vars, IInv, EntryReserved, StatusesAreKept
  <2> QED BY <2>1, <2>2, <2>3, <2>4, Zenon DEF IInv
<1> QED BY <1>1, <1>2, <1>3, <1>4, <1>5, <1>6, <1>7, Zenon DEF Next

\* The invariant holds throughout.
THEOREM Invariance == Spec => []IInv
BY InitInv, StepInv, PTL DEF Spec

-----------------------------------------------------------------------------
(* What follows *)

\* No panic of the broker is reached: the record, the caller and the suspended
\* parent are what cp32_application_run and fork.c check them to be.
THEOREM NoPanicIsReached == Spec => []NoPanic
<1>1. IInv => NoPanic
  BY Zenon DEF IInv, Control, SlotsInUse, RecordsOwned, NoPanic, Working
<1> QED BY <1>1, Invariance, PTL

\* No block of MM is leaked, given back twice or given back while the image of
\* a suspended parent is in it, whichever step of fork or exec fails.
THEOREM BlocksAreKept == Spec => []BlocksAreAccounted
<1>1. IInv => BlocksAreAccounted BY Zenon DEF IInv, BlocksHeld
<1> QED BY <1>1, Invariance, PTL

\* The wait table of fork.c holds exactly the children that ended and were not
\* waited for, each with its own status.
THEOREM StatusesStay == Spec => []StatusesAreKept
<1>1. IInv => StatusesAreKept BY Zenon DEF IInv, EntryReserved
<1> QED BY <1>1, Invariance, PTL

\* The memory of the running and of the suspended program stays divided into
\* data, heap and stack, for any accepted program file, any arguments and any
\* increments of the break.
THEOREM MemoryStaysDivided == Spec => []MemoryIsDivided
<1>1. IInv => MemoryIsDivided BY Zenon DEF IInv
<1> QED BY <1>1, Invariance, PTL

\* Two processes, or a process and a status not yet collected, never have the
\* same pid, however often application_pid has wrapped.
THEOREM PidsStayUnique == Spec => []PidsAreUnique
<1>1. IInv => PidsAreUnique BY Zenon DEF IInv, PidsKept
<1> QED BY <1>1, Invariance, PTL

\* Only the active process can run or call, FS listens to it, and the slots in
\* use are its own and its suspended parent's.
THEOREM OnlyOneRuns == Spec => []OneRuns
<1>1. ASSUME IInv PROVE OneRuns
  <2> USE DEF NoSlot, NoBlock
  <2>1. 0 \notin Slots BY BrokerAssumption DEF Slots
  <2>2. InUse = {active.child, forked.parent} \ {NoSlot}
    BY <1>1, <2>1, Zenon DEF IInv, Types, Active, Forked, SlotsInUse, InUse
  <2>3. ASSUME NEW n \in Slots, proc[n].flags \in {"ready", "sending"}
        PROVE  n = active.child /\ n = app_endpoint /\ image # NoImage
    <3>1. n \in {active.child, forked.parent} BY <1>1, <2>3, Zenon DEF IInv, SlotsInUse
    <3>2. n # forked.parent BY <1>1, <2>1, <2>3, Zenon DEF IInv, SlotsInUse
    <3>3. n = active.child BY <3>1, <3>2, Zenon
    <3>4. broker.at # "load" /\ n = app_endpoint
      <4>1. broker.at \in Stages BY <1>1, Zenon DEF IInv, Types, Broker
      <4>2. Control BY <1>1, Zenon DEF IInv
      <4> QED BY <2>1, <2>3, <3>3, <4>1, <4>2, Zenon DEF Stages, Control
    <3>5. CP32_APP_TOP - StackArea <= image.sp
      BY <1>1, <2>1, <3>3, <3>4, Zenon DEF IInv, MemoryIsDivided, Divided
    <3>6. image # NoImage BY <3>5, LayoutAssumption DEF NoImage
    <3> QED BY <3>3, <3>4, <3>6, Zenon
  <2> QED BY <2>2, <2>3, Zenon DEF OneRuns
<1> QED BY <1>1, Invariance, PTL

\* Every tick charged to a process is billed once: to itself, to its parent
\* when it ends, or to FS.
THEOREM TimeStaysConserved == Spec => []TimeIsConserved
<1>1. IInv => TimeIsConserved BY Zenon DEF IInv, TimeBilled
<1> QED BY <1>1, Invariance, PTL

\* When the child of a fork ends, its parent has the memory, the break, the
\* parent pid and the process record it had when it forked.
THEOREM ParentGoesOn == Spec => ParentIsRestored
<1> DEFINE Restores == (forked.parent # NoSlot /\ forked'.parent = NoSlot) =>
             image' = atFork.image /\ active' = atFork.active /\ files'.app = atFork.files
<1>1. ASSUME IInv, Next PROVE Restores
  <2> SUFFICES ASSUME forked.parent # NoSlot, forked'.parent = NoSlot
               PROVE  image' = atFork.image /\ active' = atFork.active /\ files'.app = atFork.files
    OBVIOUS
  <2>1. CASE ChildExit
    BY <1>1, <2>1, Zenon DEF IInv, ParentSaved, ChildExit, SavedImage, SavedRecord
  <2>2. CASE ForkCopy BY <1>1, <2>2, Zenon DEF IInv, Control, ForkCopy
  <2>3. CASE UNCHANGED forked BY <2>3, Zenon
  <2>4. ChildExit \/ ForkCopy \/ UNCHANGED forked
    BY <1>1, Zenon DEF Next, Launch, LoadStep, Load, LoadFails, Serve, Receive, Reply, Query,
                       Transfer,
                Sbrk, Wait, Fork, Exec, Exit, Copy, ExecCopy, NoMemory, MM, MMAllocates,
                MMReleases, Program, Compute, Call
  <2> QED BY <2>1, <2>2, <2>3, <2>4, Zenon
<1>2. IInv /\ [Next]_vars => [Restores]_vars BY <1>1, Zenon
<1> QED BY <1>2, Invariance, PTL DEF ParentIsRestored, Spec

=============================================================================
