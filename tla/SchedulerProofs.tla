-------------------------- MODULE SchedulerProofs --------------------------
(***************************************************************************)
(* The scheduler, for any folders, intervals, directories and requests,    *)
(* when updates are applied one by one.  At most one is on its way then,   *)
(* and the invariant says what it may be: a scan is started of a folder    *)
(* that is there, and what is asked for is in the queue or being started.  *)
(***************************************************************************)
EXTENDS Scheduler, SequenceTheorems, WellFoundedInduction, TLAPS

----------------------------------------------------------------------------
(* The scheduler: inductive invariant *)
Items == [f : Folders, s : SubDirs]
Requests == {x \in Items : <<x.f, x.s>> \in Wishes}
FolderStates == [has : BOOLEAN, susp : {"no", "error"}, sync : BOOLEAN, scanning : BOOLEAN, age : Nat]
Timers == {none} \cup [f : Folders, left : Nat]
Schedules == [ready : BOOLEAN, q : Seq(Requests), timer : Timers, busy : BOOLEAN]
Results == {"same", "error", "no"}
Updates ==
    {u \in [op : {"upsert", "scan_request", "scan_start", "scan_finish", "sync_start", "sync_finish", "suspend",
                  "remove"}, f : Folders, s : SubDirs \cup Results] :
        /\ u.op = "scan_request" => <<u.f, u.s>> \in Wishes
        /\ u.op = "scan_start" => u.s \in SubDirs
        /\ u.op = "scan_finish" => u.s \in Results}

\* The only update on its way is u.
Sole(Q, u) == u \in Updates /\ Q = <<u>>

SchedTyped ==
    /\ folder \in [Folders -> FolderStates] /\ sched \in Schedules
    /\ queue = <<>> \/ \E u \in Updates : Sole(queue, u)
    /\ scans \in Seq(Items) /\ asked \in SUBSET Requests /\ stalled \in BOOLEAN

\* Item y, or an update that starts it, covers x.
Covers(y, x) == y.f = x.f /\ <<y.s, x.s>> \in Within
Covered(q, x) == \E i \in 1 .. Len(q) : Covers(q[i], x)

\* No scan is of a folder that is gone.
Fit(fs, Q) == \A u \in Updates : Sole(Q, u) /\ u.op \in {"scan_start", "scan_finish"} => fs[u.f].has
\* A scan that is waited for is on its way.
Awaited(busy, st, sc, Q) ==
    busy /\ ~st => sc # <<>> \/ \E u \in Updates : Sole(Q, u) /\ u.op \in {"scan_start", "scan_finish"}
\* Unless a scan or a timer is waited for, there is no folder to scan in time.
Timed(fs, sd, st) == sd.ready /\ ~sd.busy /\ sd.timer = none /\ ~st => Periodic(fs) = {}
\* A request is covered by one that waits or is about to start.
Kept(ask, q, Q) == \A x \in ask : Covered(q, x) \/ \E u \in Updates : Sole(Q, u) /\ u.op = "scan_start" /\ Covers(u, x)
\* The requests to be served are of folders that can be scanned.
Servable(fs, ask) == \A x \in ask : Scannable(fs, x.f)
\* Nothing happens before the program is ready.
NotReady ==
    ~sched.ready => /\ queue = <<>> /\ sched.q = <<>> /\ ~sched.busy /\ sched.timer = none /\ asked = {} /\ scans = <<>>
                    /\ \A f \in Folders : folder[f].age = Never

SchedWell ==
    /\ SchedTyped /\ NotReady /\ Servable(folder, asked)
    /\ Fit(folder, queue) /\ Awaited(sched.busy, stalled, scans, queue)
    /\ Timed(folder, sched, stalled) /\ Kept(asked, sched.q, queue)

----------------------------------------------------------------------------
(* Induction over numbers, and the items that are left in a queue *)

\* Every set of numbers has a least one: what induction rests on.
LEMMA Least ==
    ASSUME NEW S \in SUBSET Nat, S # {}
    PROVE  \E n \in S : \A m \in S : n <= m
<1>1. PICK n \in S : \A m \in S : ~(<<m, n>> \in OpToRel(<, Nat))
  BY NatLessThanWellFounded, WFMin, Zenon
<1>2. \A m \in S : <<m, n>> \in OpToRel(<, Nat) <=> m < n
  BY DEF OpToRel
<1>3. \A m \in S : ~(m < n)
  BY <1>1, <1>2, Zenon
<1> QED BY <1>3

\* Prefix by prefix, what Without keeps of a queue.
Erases(q, x, n, f) ==
    f = [i \in 0 .. n |-> IF i = 0 THEN <<>> ELSE IF q[i] = x THEN f[i - 1] ELSE Append(f[i - 1], q[i])]

\* The recursion of Without defines a function.
LEMMA ErasesExists ==
    ASSUME NEW q, NEW x, NEW n \in Nat
    PROVE  \E f : Erases(q, x, n, f)
<1> DEFINE bad == {m \in Nat : ~\E f : Erases(q, x, m, f)}
<1>1. SUFFICES ASSUME bad # {} PROVE FALSE
  OBVIOUS
<1>2. PICK m \in bad : \A k \in bad : m <= k
  <2>1. bad \in SUBSET Nat
    OBVIOUS
  <2> QED BY <1>1, <2>1, Least
<1>3. CASE m = 0
  <2>1. Erases(q, x, 0, [i \in 0 .. 0 |-> <<>>])
    BY DEF Erases
  <2> QED BY <1>3, <2>1
<1>4. CASE m # 0
  <2>1. m - 1 \in Nat /\ m - 1 \notin bad
    BY <1>2, <1>4
  <2>2. PICK f : Erases(q, x, m - 1, f)
    BY <2>1
  <2> DEFINE g == [i \in 0 .. m |-> IF i = m THEN IF q[m] = x THEN f[m - 1] ELSE Append(f[m - 1], q[m]) ELSE f[i]]
             h == [i \in 0 .. m |-> IF i = 0 THEN <<>> ELSE IF q[i] = x THEN g[i - 1] ELSE Append(g[i - 1], q[i])]
  <2>3. ASSUME NEW i \in 0 .. m PROVE g[i] = h[i]
    <3>1. CASE i = 0
      BY <1>4, <2>1, <2>2, <3>1 DEF Erases
    <3>2. CASE i = m
      <4>1. m - 1 \in 0 .. m /\ m - 1 # m
        BY <2>1
      <4>2. g[m - 1] = f[m - 1]
        BY <4>1
      <4> QED BY <1>4, <3>2, <4>2
    <3>3. CASE i # 0 /\ i # m
      <4>1. i \in 0 .. m - 1 /\ i - 1 \in 0 .. m /\ i - 1 # m
        BY <3>3
      <4>2. g[i] = f[i] /\ g[i - 1] = f[i - 1]
        BY <3>3, <4>1
      <4>3. f[i] = IF q[i] = x THEN f[i - 1] ELSE Append(f[i - 1], q[i])
        BY <2>2, <3>3, <4>1 DEF Erases
      <4> QED BY <3>3, <4>2, <4>3
    <3> QED BY <3>1, <3>2, <3>3
  <2>4. g = h
    BY <2>3
  <2>5. Erases(q, x, m, g)
    BY <2>4, Zenon DEF Erases
  <2> QED BY <2>5
<1> QED BY <1>3, <1>4

\* What Without keeps is a queue that has all other items.
LEMMA WithoutKeeps ==
    ASSUME NEW S, NEW q \in Seq(S), NEW x
    PROVE  /\ Without(q, x) \in Seq(S)
           /\ \A j \in 1 .. Len(q) : q[j] # x => \E k \in 1 .. Len(Without(q, x)) : Without(q, x)[k] = q[j]
<1>0. Len(q) \in Nat
  OBVIOUS
<1>1. PICK f : Erases(q, x, Len(q), f) /\ Without(q, x) = f[Len(q)]
  <2> DEFINE k == CHOOSE f : Erases(q, x, Len(q), f)
  <2>1. Erases(q, x, Len(q), k)
    BY <1>0, ErasesExists, Zenon
  <2>2. Without(q, x) = k[Len(q)]
    BY Zenon DEF Without, Erases
  <2> QED BY <2>1, <2>2, Zenon
<1> DEFINE Good(i) == /\ f[i] \in Seq(S)
                      /\ \A j \in 1 .. i : q[j] # x => \E k \in 1 .. Len(f[i]) : f[i][k] = q[j]
           bad == {i \in 0 .. Len(q) : ~Good(i)}
<1>2. ASSUME bad # {} PROVE FALSE
  <2>1. PICK m \in bad : \A k \in bad : m <= k
    <3>1. bad \in SUBSET Nat
      BY <1>0
    <3> HIDE DEF bad
    <3> QED BY <1>2, <3>1, Least
  <2>2. CASE m = 0
    <3>1. f[0] = <<>>
      BY <1>0, <1>1 DEF Erases
    <3>2. <<>> \in Seq(S)
      OBVIOUS
    <3>3. Good(0)
      BY <3>1, <3>2
    <3> QED BY <2>2, <3>3
  <2>3. CASE m # 0
    <3>1. m \in 1 .. Len(q) /\ m - 1 \in 0 .. Len(q) /\ q[m] \in S
      BY <1>0, <2>3
    <3>2. Good(m - 1)
      BY <2>1, <3>1
    <3>3. f[m] = IF q[m] = x THEN f[m - 1] ELSE Append(f[m - 1], q[m])
      <4>1. \A i \in 0 .. Len(q) : f[i] = IF i = 0 THEN <<>> ELSE IF q[i] = x THEN f[i - 1] ELSE Append(f[i - 1], q[i])
        BY <1>1, Zenon DEF Erases
      <4>2. m \in 0 .. Len(q)
        BY <1>0, <3>1
      <4> QED BY <2>3, <4>1, <4>2, Zenon
    <3>4. CASE q[m] = x
      BY <3>1, <3>2, <3>3, <3>4
    <3>5. CASE q[m] # x
      <4> DEFINE s == f[m - 1]
      <4>1. s \in Seq(S) /\ f[m] = Append(s, q[m])
        BY <3>2, <3>3, <3>5
      <4>2. f[m] \in Seq(S) /\ Len(f[m]) = Len(s) + 1 /\ f[m][Len(s) + 1] = q[m]
            /\ \A k \in 1 .. Len(s) : f[m][k] = s[k]
        BY <3>1, <4>1
      <4>3. Len(s) \in Nat
        BY <4>1
      <4>4. ASSUME NEW j \in 1 .. m, q[j] # x PROVE \E k \in 1 .. Len(f[m]) : f[m][k] = q[j]
        <5>1. CASE j = m
          BY <4>2, <4>3, <5>1
        <5>2. CASE j # m
          <6>1. j \in 1 .. m - 1
            BY <3>1, <5>2
          <6>2. PICK k \in 1 .. Len(s) : s[k] = q[j]
            BY <3>2, <4>4, <6>1
          <6> QED BY <4>2, <4>3, <6>2
        <5> QED BY <5>1, <5>2
      <4> QED BY <4>2, <4>4
    <3> QED BY <3>4, <3>5
  <2> QED BY <2>2, <2>3
<1>3. Good(Len(q))
  BY <1>0, <1>2
<1> QED BY <1>1, <1>3

----------------------------------------------------------------------------
(* What scan_next chooses *)

\* The time left to a folder is a number.
LEMMA LeftNat ==
    ASSUME NEW fs \in [Folders -> FolderStates], NEW f \in Folders
    PROVE  LeftIn(fs, f) \in Nat /\ Every[f] \in Nat
<1>1. fs[f].age \in Nat /\ Every[f] \in Nat
  BY SchedulerAssumption DEF FolderStates
<1> QED BY <1>1 DEF LeftIn, Never

\* When there are folders to be scanned in time, one of them comes first.
LEMMA BestExists ==
    ASSUME NEW fs \in [Folders -> FolderStates], Periodic(fs) # {}
    PROVE  Best(fs) # {}
<1> DEFINE L == {LeftIn(fs, f) : f \in Periodic(fs)}
<1>1. Periodic(fs) \subseteq Folders
  BY DEF Periodic
<1>2. PICK l \in L : \A m \in L : l <= m
  <2>1. L \in SUBSET Nat /\ L # {}
    BY <1>1, LeftNat
  <2> HIDE DEF L
  <2> QED BY <2>1, Least
<1> DEFINE E == {Every[f] : f \in {g \in Periodic(fs) : LeftIn(fs, g) = l}}
<1>3. PICK e \in E : \A m \in E : e <= m
  <2>1. E \in SUBSET Nat /\ E # {}
    BY <1>1, <1>2, LeftNat
  <2> HIDE DEF E
  <2> QED BY <2>1, Least
<1>4. PICK f \in Periodic(fs) : LeftIn(fs, f) = l /\ Every[f] = e
  BY <1>3
<1>5. ASSUME NEW g \in Periodic(fs)
      PROVE  LeftIn(fs, f) < LeftIn(fs, g) \/ (LeftIn(fs, f) = LeftIn(fs, g) /\ Every[f] <= Every[g])
  <2>1. LeftIn(fs, g) \in Nat /\ l \in Nat /\ l <= LeftIn(fs, g)
    BY <1>1, <1>2, <1>4, LeftNat
  <2>2. CASE LeftIn(fs, g) = l
    BY <1>3, <1>4, <2>2
  <2>3. CASE LeftIn(fs, g) # l
    BY <1>4, <2>1, <2>3
  <2> QED BY <2>2, <2>3
<1>6. f \in Best(fs)
  BY <1>5 DEF Best
<1> QED BY <1>6

\* A record is not the empty sequence.
LEMMA TimerSet ==
    ASSUME NEW f, NEW n
    PROVE  [f |-> f, left |-> n] # none
BY DEF none

\* The first item of the queue that can be scanned is started, and of the others
\* nothing is lost but what is equal to it or cannot be scanned; when nothing is
\* started and no timer is set there is nothing to scan in time.
LEMMA NextScan ==
    ASSUME NEW fs \in [Folders -> FolderStates], NEW q \in Seq(Requests), NEW r \in scan_next(fs, q)
    PROVE  /\ r.q \in Seq(Requests) /\ r.next \in Timers
           /\ r.start = <<>> \/ \E y \in Items : r.start = <<y>> /\ fs[y.f].has
           /\ r.start = <<>> /\ r.next = none => Periodic(fs) = {}
           /\ (\A f \in Folders : fs[f].age = Never) => r.next = none
           /\ \A x \in Requests : Scannable(fs, x.f) /\ Covered(q, x) =>
                    Covered(r.q, x) \/ \E y \in Items : r.start = <<y>> /\ Covers(y, x)
<1> DEFINE good == {i \in 1 .. Len(q) : Scannable(fs, q[i].f)}
<1>0. Len(q) \in Nat /\ (\A i \in 1 .. Len(q) : q[i] \in Requests) /\ Requests \subseteq Items
  BY DEF Requests
<1>1. CASE good # {}
  <2> DEFINE i == CHOOSE j \in good : \A k \in good : j <= k
             p == SubSeq(q, i + 1, Len(q))
             w == Without(p, q[i])
  <2>1. i \in good /\ \A k \in good : i <= k
    <3>1. \E j \in good : \A k \in good : j <= k
      <4>1. good \in SUBSET Nat
        BY <1>0
      <4> HIDE DEF good
      <4> QED BY <1>1, <4>1, Least
    <3> HIDE DEF good
    <3> QED BY <3>1, Zenon
  <2>2. r = [q |-> w, start |-> <<q[i]>>, next |-> none]
    BY <1>1, Zenon DEF scan_next
  <2> HIDE DEF i
  <2>3. i \in 1 .. Len(q) /\ Scannable(fs, q[i].f) /\ q[i] \in Requests /\ q[i] \in Items
    BY <1>0, <2>1
  <2>4. /\ p \in Seq(Requests) /\ Len(p) = Len(q) - i
        /\ \A k \in 1 .. Len(p) : p[k] = q[i + k]
    BY <1>0, <2>3
  <2>5. /\ w \in Seq(Requests)
        /\ \A j \in 1 .. Len(p) : p[j] # q[i] => \E k \in 1 .. Len(w) : w[k] = p[j]
    <3>1. p \in Seq(Requests)
      BY <2>4
    <3> DEFINE x == q[i]
    <3> HIDE DEF p, x
    <3>2. /\ Without(p, x) \in Seq(Requests)
          /\ \A j \in 1 .. Len(p) : p[j] # x => \E k \in 1 .. Len(Without(p, x)) : Without(p, x)[k] = p[j]
      BY <3>1, WithoutKeeps
    <3> QED BY <3>2 DEF x
  <2>6. ASSUME NEW x \in Requests, Scannable(fs, x.f), Covered(q, x)
        PROVE  Covered(w, x) \/ Covers(q[i], x)
    <3>1. PICK j \in 1 .. Len(q) : Covers(q[j], x)
      BY <2>6 DEF Covered
    <3>2. j \in good /\ i <= j
      BY <2>1, <2>6, <3>1 DEF Covers
    <3>3. CASE q[j] = q[i]
      BY <3>1, <3>3
    <3>4. CASE q[j] # q[i]
      <4>1. j - i \in 1 .. Len(p) /\ i + (j - i) = j
        BY <1>0, <2>3, <2>4, <3>2, <3>4
      <4>2. p[j - i] = q[j]
        BY <2>4, <4>1
      <4>3. PICK k \in 1 .. Len(w) : w[k] = q[j]
        BY <2>5, <3>4, <4>1, <4>2
      <4> QED BY <3>1, <4>3 DEF Covered
    <3> QED BY <3>3, <3>4
  <2> HIDE DEF p, w
  <2>7. r.q = w /\ r.start = <<q[i]>> /\ r.next = none
    BY <2>2
  <2>8. r.start # <<>> /\ fs[q[i].f].has
    BY <2>3, <2>7 DEF Scannable
  <2> QED BY <2>3, <2>5, <2>6, <2>7, <2>8 DEF Timers
<1>2. CASE good = {}
  <2>1. \A x \in Requests : Scannable(fs, x.f) => ~Covered(q, x)
    BY <1>2 DEF Covered, Covers
  <2>2. <<>> \in Seq(Requests)
    OBVIOUS
  <2>3. CASE Best(fs) = {}
    <3>1. r = [q |-> <<>>, start |-> <<>>, next |-> none]
      BY <1>2, <2>3, Zenon DEF scan_next
    <3>2. Periodic(fs) = {}
      BY <2>3, BestExists
    <3> QED BY <2>1, <2>2, <3>1, <3>2 DEF Timers
  <2>4. CASE Best(fs) # {}
    <3>1. PICK f \in Best(fs) :
            r = IF LeftIn(fs, f) = 0 THEN [q |-> <<>>, start |-> <<Item(f, "")>>, next |-> none]
                ELSE [q |-> <<>>, start |-> <<>>, next |-> [f |-> f, left |-> LeftIn(fs, f)]]
      BY <1>2, <2>4, Zenon DEF scan_next
    <3>2. f \in Folders /\ fs[f].has
      BY DEF Best, Periodic
    <3>3. LeftIn(fs, f) \in Nat
      BY <3>2, LeftNat
    <3>4. CASE LeftIn(fs, f) = 0
      <4>1. r.q = <<>> /\ r.start = <<Item(f, "")>> /\ r.next = none
        BY <3>1, <3>4
      <4>2. Item(f, "") \in Items /\ Item(f, "").f = f
        BY <3>2, SchedulerAssumption DEF Item, Items
      <4>3. r.start # <<>> /\ (\E y \in Items : r.start = <<y>> /\ fs[y.f].has)
        <5> DEFINE y == Item(f, "")
        <5>1. y \in Items /\ y.f = f /\ r.start = <<y>>
          BY <4>1, <4>2
        <5> HIDE DEF y
        <5>2. r.start # <<>>
          BY <5>1
        <5> QED BY <3>2, <5>1, <5>2
      <4>4. r.next \in Timers /\ r.q \in Seq(Requests)
        BY <2>2, <4>1 DEF Timers
      <4> QED BY <2>1, <4>1, <4>3, <4>4
    <3>5. CASE LeftIn(fs, f) # 0
      <4>1. r.q = <<>> /\ r.start = <<>> /\ r.next = [f |-> f, left |-> LeftIn(fs, f)]
        BY <3>1, <3>5
      <4>2. r.next # none /\ r.next \in Timers
        BY <3>2, <3>3, <4>1, TimerSet DEF Timers
      <4>3. fs[f].age # Never
        BY <3>5 DEF LeftIn
      <4> QED BY <2>1, <2>2, <3>2, <4>1, <4>2, <4>3
    <3> QED BY <3>4, <3>5
  <2> QED BY <2>3, <2>4
<1> QED BY <1>1, <1>2

----------------------------------------------------------------------------
(* What scheduling does *)

\* At most one update is on its way.
Single(Q) == Q = <<>> \/ \E u \in Updates : Sole(Q, u)

\* Two names of the only update.
LEMMA SoleOne ==
    ASSUME NEW Q, NEW u, NEW v, Sole(Q, u), Sole(Q, v)
    PROVE  u = v
BY DEF Sole

\* No update is on its way.
LEMMA SoleNone ==
    ASSUME NEW u
    PROVE  ~Sole(<<>>, u)
<1>1. <<u>> # <<>>
  OBVIOUS
<1> QED BY <1>1, Zenon DEF Sole

\* The update that starts a scan.
LEMMA StartedIs ==
    ASSUME NEW y \in Items
    PROVE  LET d == Diff("scan_start", y.f, y.s)
           IN  /\ Started(<<y>>) = <<d>> /\ <<>> \o Started(<<y>>) = <<d>>
               /\ d \in Updates /\ d.op = "scan_start" /\ d.f = y.f /\ d.s = y.s
<1> DEFINE d == Diff("scan_start", y.f, y.s)
<1>1. d \in Updates /\ d.op = "scan_start" /\ d.f = y.f /\ d.s = y.s
  BY DEF Diff, Updates, Items
<1>2. Len(<<y>>) = 1 /\ <<y>>[1] = y
  OBVIOUS
<1>3. Started(<<y>>) = [i \in 1 .. 1 |-> d]
  BY <1>2 DEF Started
<1> HIDE DEF d
<1>4. [i \in 1 .. 1 |-> d] = <<d>>
  OBVIOUS
<1>5. <<d>> \in Seq(Updates)
  BY <1>1
<1>6. <<>> \o <<d>> = <<d>>
  BY <1>5, ConcatEmptySeq
<1>7. Started(<<y>>) = <<d>>
  BY <1>3, <1>4
<1> QED BY <1>1, <1>6, <1>7 DEF d

\* Nothing is started.
LEMMA StartedNone == Started(<<>>) = <<>> /\ <<>> \o Started(<<>>) = <<>>
<1>1. Started(<<>>) = <<>>
  BY DEF Started
<1>2. <<>> \in Seq(Updates)
  OBVIOUS
<1> QED BY <1>1, <1>2, ConcatEmptySeq

\* The update scan_next leads to keeps the requests, and is of a folder that is
\* there.
LEMMA Outcome ==
    ASSUME NEW fs \in [Folders -> FolderStates], NEW q \in Seq(Requests), NEW r \in scan_next(fs, q),
           NEW ask \in SUBSET Requests, Servable(fs, ask), \A x \in ask : Covered(q, x),
           queue' = <<>> \o Started(r.start)
    PROVE  /\ Single(queue') /\ Fit(fs, queue') /\ Kept(ask, r.q, queue')
           /\ r.start # <<>> => \E u \in Updates : Sole(queue', u) /\ u.op = "scan_start"
<1>1. /\ r.start = <<>> \/ \E y \in Items : r.start = <<y>> /\ fs[y.f].has
      /\ \A x \in ask : Covered(r.q, x) \/ \E y \in Items : r.start = <<y>> /\ Covers(y, x)
  BY NextScan DEF Servable
<1>2. CASE r.start = <<>>
  <2>1. queue' = <<>>
    BY <1>2, StartedNone
  <2>2. \A u : ~Sole(queue', u)
    BY <2>1, SoleNone, Zenon
  <2>3. \A y \in Items : r.start # <<y>>
    BY <1>2
  <2> QED BY <1>1, <1>2, <2>1, <2>2, <2>3 DEF Single, Fit, Kept
<1>3. CASE r.start # <<>>
  <2>1. PICK y \in Items : r.start = <<y>> /\ fs[y.f].has
    BY <1>1, <1>3
  <2> DEFINE d == Diff("scan_start", y.f, y.s)
  <2>2. queue' = <<d>> /\ d \in Updates /\ d.op = "scan_start" /\ d.f = y.f /\ d.s = y.s
    BY <2>1, StartedIs
  <2> HIDE DEF d
  <2>3. Sole(queue', d)
    BY <2>2 DEF Sole
  <2>4. Fit(fs, queue')
    BY <2>1, <2>2, <2>3, SoleOne DEF Fit
  <2>5. ASSUME NEW x \in ask, ~Covered(r.q, x) PROVE Covers(d, x)
    <3>1. PICK z \in Items : r.start = <<z>> /\ Covers(z, x)
      BY <1>1, <2>5
    <3>2. z = y
      BY <2>1, <3>1
    <3> QED BY <2>2, <3>1, <3>2 DEF Covers
  <2>6. Kept(ask, r.q, queue')
    BY <2>2, <2>3, <2>5 DEF Kept
  <2> QED BY <2>2, <2>3, <2>4, <2>6 DEF Single
<1> QED BY <1>2, <1>3

\* scan_next_or_schedule, when no other update is on its way.
LEMMA Scheduled ==
    ASSUME NEW fs \in [Folders -> FolderStates], NEW q \in Seq(Requests), sched \in Schedules,
           NEW ask \in SUBSET Requests, Servable(fs, ask), \A x \in ask : Covered(q, x),
           scan_next_or_schedule(fs, q, <<>>)
    PROVE  /\ sched' \in Schedules /\ sched'.ready = sched.ready
           /\ Single(queue') /\ Fit(fs, queue') /\ Kept(ask, sched'.q, queue')
           /\ \A st, sc : Awaited(sched'.busy, st, sc, queue')
           /\ \A st : Timed(fs, sched', st)
<1>1. PICK r \in scan_next(fs, q) :
        /\ sched' = [sched EXCEPT !.q = r.q, !.busy = (r.start # <<>>),
                                  !.timer = IF r.next # none /\ (@ = none \/ (@ # none /\ @.left > r.next.left))
                                            THEN r.next ELSE @]
        /\ queue' = <<>> \o Started(r.start)
  BY Zenon DEF scan_next_or_schedule
<1>2. /\ r.q \in Seq(Requests) /\ r.next \in Timers
      /\ r.start = <<>> /\ r.next = none => Periodic(fs) = {}
  BY NextScan
<1> DEFINE t == IF r.next # none /\ (sched.timer = none \/ (sched.timer # none /\ sched.timer.left > r.next.left))
                THEN r.next ELSE sched.timer
           b == r.start # <<>>
<1>3. t \in Timers /\ b \in BOOLEAN /\ (t = none => r.next = none)
  BY <1>2 DEF Schedules
<1>4. sched' = [sched EXCEPT !.q = r.q, !.busy = b, !.timer = t]
  BY <1>1, Zenon
<1> HIDE DEF t
<1>5. sched' \in Schedules /\ sched'.ready = sched.ready /\ sched'.q = r.q /\ sched'.busy = b /\ sched'.timer = t
  BY <1>2, <1>3, <1>4 DEF Schedules
<1>6. /\ Single(queue') /\ Fit(fs, queue') /\ Kept(ask, r.q, queue')
      /\ r.start # <<>> => \E u \in Updates : Sole(queue', u) /\ u.op = "scan_start"
  BY <1>1, Outcome
<1>7. \A st, sc : Awaited(sched'.busy, st, sc, queue')
  BY <1>5, <1>6 DEF Awaited
<1>8. \A st : Timed(fs, sched', st)
  BY <1>2, <1>3, <1>5 DEF Timed
<1> QED BY <1>5, <1>6, <1>7, <1>8

----------------------------------------------------------------------------
(* The steps *)

\* A step that needs no other update on its way.
LEMMA TurnEmpty ==
    ASSUME Prompt, Turn
    PROVE  queue = <<>> /\ sched.ready
BY DEF Turn

\* A message joins no other.
LEMMA AppendOne ==
    ASSUME NEW u \in Updates, queue = <<>>, queue' = Append(queue, u)
    PROVE  Sole(queue', u) /\ Single(queue')
<1>1. Append(<<>>, u) = <<u>>
  OBVIOUS
<1> QED BY <1>1 DEF Sole, Single

\* When no update is on its way the requests wait in the queue of the scheduler.
LEMMA KeptWaiting ==
    ASSUME NEW ask, NEW q, NEW Q, Kept(ask, q, Q), \A u \in Updates : Sole(Q, u) => u.op # "scan_start"
    PROVE  \A x \in ask : Covered(q, x)
BY DEF Kept

\* The program is ready: the first scan starts.
LEMMA ReadyWell ==
    ASSUME SchedWell, scheduler_on_local_ready
    PROVE  SchedWell'
<1>0. /\ SchedTyped /\ Servable(folder, asked)
      /\ queue = <<>> /\ sched.q = <<>> /\ ~sched.busy /\ sched.timer = none /\ asked = {} /\ scans = <<>>
      /\ \A f \in Folders : folder[f].age = Never
  BY DEF SchedWell, NotReady, scheduler_on_local_ready
<1>1. PICK r \in scan_next(folder, sched.q) :
        /\ sched' = [sched EXCEPT !.ready = TRUE, !.q = r.q, !.busy = (r.start # <<>>)]
        /\ queue' = queue \o Started(r.start)
  BY Zenon DEF scheduler_on_local_ready
<1>2. folder \in [Folders -> FolderStates] /\ sched \in Schedules /\ sched.q \in Seq(Requests)
  BY <1>0 DEF SchedTyped, Schedules
<1>3. /\ r.q \in Seq(Requests) /\ r.next = none
      /\ r.start = <<>> => Periodic(folder) = {}
  BY <1>0, <1>2, NextScan
<1>4. UNCHANGED <<folder, creating, scans, asked, stalled, outside>>
  BY DEF scheduler_on_local_ready
<1> DEFINE b == r.start # <<>>
<1>5. /\ sched' \in Schedules /\ sched'.ready /\ sched'.q = r.q /\ sched'.busy = b /\ sched'.timer = sched.timer
  <2>1. sched' = [sched EXCEPT !.ready = TRUE, !.q = r.q, !.busy = b] /\ b \in BOOLEAN
    BY <1>1
  <2> HIDE DEF b
  <2> QED BY <1>2, <1>3, <2>1 DEF Schedules
<1>6. /\ Single(queue') /\ Fit(folder, queue')
      /\ b => \E u \in Updates : Sole(queue', u) /\ u.op = "scan_start"
  <2>1. queue' = <<>> \o Started(r.start) /\ {} \in SUBSET Requests /\ Servable(folder, {})
    BY <1>0, <1>1 DEF Servable
  <2> QED BY <1>2, <2>1, Outcome
<1>7. Awaited(sched'.busy, stalled, scans, queue')
  BY <1>5, <1>6 DEF Awaited
<1>8. Timed(folder, sched', stalled) /\ Kept(asked, sched'.q, queue')
  BY <1>0, <1>3, <1>5 DEF Timed, Kept
<1>9. SchedTyped'
  BY <1>0, <1>4, <1>5, <1>6 DEF SchedTyped, Single
<1> QED BY <1>0, <1>4, <1>5, <1>6, <1>7, <1>8, <1>9 DEF SchedWell, NotReady

\* The timer fires.
LEMMA TimerWell ==
    ASSUME Prompt, SchedWell, on_timer
    PROVE  SchedWell'
<1>0. /\ queue = <<>> /\ sched.ready
      /\ SchedTyped /\ Servable(folder, asked) /\ Awaited(sched.busy, stalled, scans, queue)
      /\ \A x \in asked : Covered(sched.q, x)
  <2>1. queue = <<>> /\ sched.ready
    BY TurnEmpty DEF on_timer
  <2>2. \A u \in Updates : ~Sole(queue, u)
    BY <2>1, SoleNone, Zenon
  <2> QED BY <2>1, <2>2, KeptWaiting DEF SchedWell
<1>1. sched.busy /\ ~stalled => scans # <<>>
  BY <1>0, SoleNone DEF Awaited
<1>2. /\ folder \in [Folders -> FolderStates] /\ sched \in Schedules /\ sched.q \in Seq(Requests)
      /\ sched.timer \in [f : Folders, left : Nat] /\ sched.timer.f \in Folders /\ stalled \in BOOLEAN
      /\ UNCHANGED <<folder, creating, scans, asked, outside>>
  BY <1>0 DEF SchedTyped, Schedules, Timers, on_timer
<1> DEFINE f == sched.timer.f
           idle == [sched EXCEPT !.timer = none]
<1>3. idle \in Schedules /\ idle.ready /\ idle.q = sched.q /\ idle.busy = sched.busy /\ idle.timer = none
  BY <1>0, <1>2 DEF Schedules, Timers
<1>4. CASE ~folder[f].has \/ folder[f].age = Never
  <2>1. sched' = idle /\ stalled' = TRUE /\ queue' = <<>>
    BY <1>0, <1>4, Zenon DEF on_timer
  <2>2. \A u \in Updates : ~Sole(queue', u)
    BY <2>1, SoleNone, Zenon
  <2> HIDE DEF idle
  <2>3. Fit(folder, queue') /\ Kept(asked, sched'.q, queue')
    BY <1>0, <1>3, <2>1, <2>2 DEF Fit, Kept
  <2>4. Awaited(sched'.busy, stalled', scans, queue') /\ Timed(folder, sched', stalled')
    BY <2>1 DEF Awaited, Timed
  <2>5. SchedTyped'
    BY <1>0, <1>2, <1>3, <2>1 DEF SchedTyped
  <2> QED BY <1>0, <1>2, <1>3, <2>1, <2>3, <2>4, <2>5 DEF SchedWell, NotReady
<1>5. CASE ~(~folder[f].has \/ folder[f].age = Never) /\ folder[f].age < Every[f]
  <2>1. PICK r \in scan_next(folder, sched.q) :
            /\ sched' = [idle EXCEPT !.q = r.q, !.busy = IF r.start # <<>> THEN TRUE ELSE @, !.timer = r.next]
            /\ queue' = queue \o Started(r.start) /\ UNCHANGED stalled
    BY <1>5, Zenon DEF on_timer
  <2>2. /\ r.q \in Seq(Requests) /\ r.next \in Timers
        /\ r.start = <<>> /\ r.next = none => Periodic(folder) = {}
    BY <1>2, NextScan
  <2> DEFINE b == IF r.start # <<>> THEN TRUE ELSE idle.busy
  <2>3. sched' = [idle EXCEPT !.q = r.q, !.busy = b, !.timer = r.next] /\ b \in BOOLEAN
    BY <1>2, <1>3, <2>1 DEF Schedules
  <2>4. ~b => r.start = <<>>
    OBVIOUS
  <2>5. b => r.start # <<>> \/ sched.busy
    BY <1>3
  <2> HIDE DEF b, idle
  <2>6. sched' \in Schedules /\ sched'.ready /\ sched'.q = r.q /\ sched'.busy = b /\ sched'.timer = r.next
    BY <1>3, <2>2, <2>3 DEF Schedules
  <2>7. /\ Single(queue') /\ Fit(folder, queue') /\ Kept(asked, r.q, queue')
        /\ r.start # <<>> => \E u \in Updates : Sole(queue', u) /\ u.op = "scan_start"
    <3>1. queue' = <<>> \o Started(r.start) /\ asked \in SUBSET Requests
      BY <1>0, <2>1 DEF SchedTyped
    <3> QED BY <1>0, <1>2, <3>1, Outcome
  <2>8. Awaited(sched'.busy, stalled', scans, queue')
    BY <1>1, <2>1, <2>5, <2>6, <2>7 DEF Awaited
  <2>9. Timed(folder, sched', stalled')
    BY <2>2, <2>4, <2>6 DEF Timed
  <2>10. SchedTyped'
    BY <1>0, <1>2, <2>1, <2>6, <2>7 DEF SchedTyped, Single
  <2> QED BY <1>0, <1>2, <2>6, <2>7, <2>8, <2>9, <2>10 DEF SchedWell, NotReady
<1>6. CASE ~(~folder[f].has \/ folder[f].age = Never) /\ ~(folder[f].age < Every[f])
  <2>1. sched' = [idle EXCEPT !.busy = TRUE] /\ queue' = queue \o Started(<<Item(f, "")>>) /\ UNCHANGED stalled
    BY <1>6, Zenon DEF on_timer
  <2> DEFINE y == Item(f, "")
             d == Diff("scan_start", y.f, y.s)
  <2>2. y \in Items /\ y.f = f
    BY <1>2, SchedulerAssumption DEF Items, Item
  <2> HIDE DEF y, idle
  <2>3. queue' = <<d>> /\ d \in Updates /\ d.op = "scan_start" /\ d.f = y.f
    <3>1. queue' = <<>> \o Started(<<y>>)
      BY <1>0, <2>1 DEF y
    <3> QED BY <2>2, <3>1, StartedIs
  <2> HIDE DEF d
  <2>4. Sole(queue', d)
    BY <2>3 DEF Sole
  <2>5. Fit(folder, queue')
    BY <1>6, <2>2, <2>3, <2>4, SoleOne DEF Fit
  <2>6. sched' \in Schedules /\ sched'.ready /\ sched'.q = sched.q /\ sched'.busy
    BY <1>3, <2>1 DEF Schedules
  <2>7. Awaited(sched'.busy, stalled', scans, queue') /\ Timed(folder, sched', stalled')
    BY <2>3, <2>4, <2>6 DEF Awaited, Timed
  <2>8. Kept(asked, sched'.q, queue')
    BY <1>0, <2>6 DEF Kept
  <2>9. SchedTyped'
    BY <1>0, <1>2, <2>1, <2>3, <2>4, <2>6 DEF SchedTyped
  <2> QED BY <1>0, <1>2, <2>5, <2>6, <2>7, <2>8, <2>9 DEF SchedWell, NotReady
<1> QED BY <1>4, <1>5, <1>6

\* An update is sent, of a folder that is there if it ends a scan.
LEMMA PostWell ==
    ASSUME Prompt, SchedWell, Turn, NEW u \in Updates, queue' = Append(queue, u), u.op # "scan_start",
           u.op = "scan_finish" => folder[u.f].has, UNCHANGED <<folder, sched, asked, stalled>>,
           scans' \in Seq(Items), scans' = scans \/ u.op = "scan_finish"
    PROVE  SchedWell'
<1>0. /\ queue = <<>> /\ sched.ready /\ \A x \in asked : Covered(sched.q, x)
      /\ SchedTyped /\ Servable(folder, asked) /\ Awaited(sched.busy, stalled, scans, queue) /\ Timed(folder, sched, stalled)
  <2>1. queue = <<>> /\ sched.ready
    BY TurnEmpty
  <2>2. \A v \in Updates : ~Sole(queue, v)
    BY <2>1, SoleNone, Zenon
  <2> QED BY <2>1, <2>2, KeptWaiting DEF SchedWell
<1>1. sched.busy /\ ~stalled => scans # <<>>
  BY <1>0, SoleNone DEF Awaited
<1>2. Sole(queue', u) /\ Single(queue')
  BY <1>0, AppendOne
<1>3. Fit(folder, queue')
  BY <1>2, SoleOne DEF Fit
<1>4. Awaited(sched.busy, stalled, scans', queue')
  BY <1>1, <1>2 DEF Awaited
<1>5. Kept(asked, sched.q, queue')
  BY <1>0 DEF Kept
<1>6. SchedTyped'
  BY <1>0, <1>2 DEF SchedTyped, Single
<1> QED BY <1>0, <1>2, <1>3, <1>4, <1>5, <1>6 DEF SchedWell, NotReady

\* What comes from outside.
LEMMA SendsWell ==
    ASSUME Prompt, SchedWell, NEW f \in Folders,
           \/ Upsert(f) \/ Synchronize(f) \/ Remove(f)
           \/ \E s \in SubDirs : <<f, s>> \in Wishes /\ Request(f, s)
    PROVE  SchedWell'
<1>1. scans \in Seq(Items)
  BY DEF SchedWell, SchedTyped
<1>2. ASSUME NEW op \in {"upsert", "scan_request", "sync_start", "sync_finish", "remove"}, NEW s \in SubDirs,
             op = "scan_request" => <<f, s>> \in Wishes, Sends(op, f, s)
      PROVE  SchedWell'
  <2> DEFINE d == Diff(op, f, s)
  <2>1. d \in Updates /\ d.op = op
    BY <1>2 DEF Diff, Updates
  <2>2. Turn /\ queue' = Append(queue, d) /\ UNCHANGED <<folder, sched, scans, asked, stalled>>
    BY <1>2 DEF Sends
  <2> HIDE DEF d
  <2> QED BY <1>1, <2>1, <2>2, PostWell
<1>3. "" \in SubDirs
  BY SchedulerAssumption
<1>4. CASE Upsert(f)
  BY <1>2, <1>3, <1>4 DEF Upsert
<1>5. CASE Synchronize(f)
  <2> DEFINE op == IF folder[f].sync THEN "sync_finish" ELSE "sync_start"
  <2>1. Sends(op, f, "") /\ op \in {"sync_start", "sync_finish"}
    BY <1>5 DEF Synchronize
  <2> HIDE DEF op
  <2> QED BY <1>2, <1>3, <2>1
<1>6. CASE Remove(f)
  BY <1>2, <1>3, <1>6 DEF Remove
<1>7. CASE \E s \in SubDirs : <<f, s>> \in Wishes /\ Request(f, s)
  BY <1>2, <1>7 DEF Request
<1> QED BY <1>4, <1>5, <1>6, <1>7

\* The directory of a new folder is there, or cannot be created.
LEMMA CreateWell ==
    ASSUME Prompt, SchedWell, NEW f \in Folders, on_create_dir(f)
    PROVE  SchedWell'
<1>1. UNCHANGED <<folder, sched, scans, asked, stalled>> /\ Turn
  BY DEF on_create_dir
<1>2. CASE UNCHANGED queue
  BY <1>1, <1>2 DEF SchedWell, SchedTyped, NotReady
<1>3. CASE queue' = Append(queue, Diff("suspend", f, ""))
  <2> DEFINE d == Diff("suspend", f, "")
  <2>1. d \in Updates /\ d.op = "suspend" /\ scans \in Seq(Items)
    BY SchedulerAssumption DEF Diff, Updates, SchedWell, SchedTyped
  <2> HIDE DEF d
  <2> QED BY <1>1, <1>3, <2>1, PostWell DEF d
<1> QED BY <1>2, <1>3 DEF on_create_dir

\* A scan ends.
LEMMA EndsWell ==
    ASSUME Prompt, SchedWell, NEW i \in 1 .. Len(scans), ScanEnds(i)
    PROVE  SchedWell'
<1>1. scans \in Seq(Items) /\ SchedTyped
  BY DEF SchedWell, SchedTyped
<1>2. scans[i] \in Items /\ scans[i].f \in Folders
  <2>1. scans[i] \in Items
    BY <1>1
  <2> QED BY <2>1 DEF Items
<1>3. scans' \in Seq(Items)
  <2>1. Len(scans) \in Nat /\ i \in 1 .. Len(scans)
    BY <1>1
  <2>2. SubSeq(scans, 1, i - 1) \in Seq(Items) /\ SubSeq(scans, i + 1, Len(scans)) \in Seq(Items)
    BY <1>1, <2>1
  <2> QED BY <2>2 DEF ScanEnds
<1>4. UNCHANGED <<folder, sched, creating, asked, outside>> /\ Turn
  BY DEF ScanEnds
<1> DEFINE f == scans[i].f
<1>5. CASE ~folder[f].has
  <2>1. stalled' = TRUE /\ UNCHANGED queue
    BY <1>5 DEF ScanEnds
  <2>2. Awaited(sched.busy, stalled', scans', queue) /\ Timed(folder, sched, stalled')
    BY <2>1 DEF Awaited, Timed
  <2>3. SchedTyped'
    BY <1>1, <1>3, <1>4, <2>1 DEF SchedTyped
  <2>4. sched.ready
    BY <1>4 DEF Turn
  <2> QED BY <1>4, <2>1, <2>2, <2>3, <2>4 DEF SchedWell, NotReady
<1>6. CASE folder[f].has
  <2>1. PICK s \in Results : queue' = Append(queue, Diff("scan_finish", f, s)) /\ UNCHANGED stalled
    BY <1>6 DEF ScanEnds, Results
  <2> DEFINE d == Diff("scan_finish", f, s)
  <2>2. d \in Updates /\ d.op = "scan_finish" /\ d.f = f
    BY <1>2 DEF Diff, Updates
  <2> HIDE DEF d
  <2> QED BY <1>3, <1>4, <1>6, <2>1, <2>2, PostWell DEF d
<1> QED BY <1>5, <1>6

\* Time passes.
LEMMA TickWell ==
    ASSUME Prompt, SchedWell, Tick
    PROVE  SchedWell'
<1>0. /\ SchedTyped /\ folder \in [Folders -> FolderStates] /\ sched \in Schedules /\ sched.ready
      /\ UNCHANGED <<queue, creating, scans, asked, stalled, outside>>
  BY DEF SchedWell, SchedTyped, Tick, Turn
<1>1. /\ folder' \in [Folders -> FolderStates]
      /\ \A f \in Folders : /\ folder'[f].has = folder[f].has /\ folder'[f].sync = folder[f].sync
                            /\ folder'[f].susp = folder[f].susp /\ folder'[f].scanning = folder[f].scanning
  <2>1. ASSUME NEW f \in Folders
        PROVE  LET n == [folder[f] EXCEPT !.age = IF @ = Never \/ @ >= Every[f] THEN @ ELSE @ + 1] IN
               /\ n \in FolderStates /\ n.has = folder[f].has /\ n.sync = folder[f].sync
               /\ n.susp = folder[f].susp /\ n.scanning = folder[f].scanning
    BY <1>0 DEF FolderStates
  <2>2. folder' = [f \in Folders |-> [folder[f] EXCEPT !.age = IF @ = Never \/ @ >= Every[f] THEN @ ELSE @ + 1]]
    BY DEF Tick
  <2> QED BY <2>1, <2>2
<1>2. Periodic(folder') = Periodic(folder)
  BY <1>1 DEF Periodic
<1> DEFINE t == Runs(sched.timer)
<1>3. t \in Timers /\ (t = none => sched.timer = none)
  <2>1. sched.timer \in Timers
    BY <1>0 DEF Schedules
  <2>2. CASE sched.timer = none \/ sched.timer.left = 0
    BY <2>1, <2>2 DEF Runs
  <2>3. CASE sched.timer # none /\ sched.timer.left # 0
    <3>1. sched.timer \in [f : Folders, left : Nat]
      BY <2>1, <2>3 DEF Timers
    <3>2. sched.timer.left - 1 \in Nat
      BY <2>3, <3>1
    <3>3. t = [f |-> sched.timer.f, left |-> sched.timer.left - 1]
      BY <2>3, <3>1 DEF Runs
    <3> QED BY <3>1, <3>2, <3>3, TimerSet DEF Timers
  <2> QED BY <2>2, <2>3
<1>4. sched' = [sched EXCEPT !.timer = t]
  BY Zenon DEF Tick
<1> HIDE DEF t
<1>5. sched' \in Schedules /\ sched'.ready = sched.ready /\ sched'.q = sched.q /\ sched'.busy = sched.busy /\ sched'.timer = t
  BY <1>0, <1>3, <1>4 DEF Schedules
<1>6. Timed(folder', sched', stalled)
  BY <1>2, <1>3, <1>5 DEF Timed, SchedWell
<1>7. Fit(folder', queue)
  BY <1>1 DEF Fit, SchedWell, Updates
<1>8. Servable(folder', asked)
  <2>1. \A x \in asked : x.f \in Folders /\ Scannable(folder, x.f)
    BY <1>0 DEF SchedWell, Servable, SchedTyped, Requests, Items
  <2> QED BY <1>1, <2>1 DEF Servable, Scannable
<1>9. SchedTyped'
  BY <1>0, <1>1, <1>5 DEF SchedTyped
<1> QED BY <1>0, <1>5, <1>6, <1>7, <1>8, <1>9 DEF SchedWell, NotReady

----------------------------------------------------------------------------
(* Updates are applied *)

\* The update that is applied is the only one.
LEMMA Applied ==
    ASSUME SchedWell, Apply
    PROVE  sched.ready /\ \E u \in Updates : Sole(queue, u) /\ Head(queue) = u /\ Tail(queue) = <<>>
<1>1. sched.ready /\ queue # <<>>
  BY DEF Apply
<1>2. PICK u \in Updates : Sole(queue, u)
  BY <1>1 DEF SchedWell, SchedTyped
<1>3. Head(<<u>>) = u /\ Tail(<<u>>) = <<>>
  OBVIOUS
<1> QED BY <1>1, <1>2, <1>3 DEF Sole

\* What is scanned and asked for stays so, and no folder is to be scanned in time
\* that was not.
LEMMA DropWell ==
    ASSUME SchedWell, sched.ready, NEW u \in Updates, Sole(queue, u), u.op \notin {"scan_start", "scan_finish"},
           folder' \in [Folders -> FolderStates], Periodic(folder') \subseteq Periodic(folder),
           asked' \subseteq asked, Servable(folder', asked'), queue' = <<>>, UNCHANGED <<sched, scans, stalled>>
    PROVE  SchedWell'
<1>0. /\ SchedTyped /\ Awaited(sched.busy, stalled, scans, queue) /\ Timed(folder, sched, stalled)
      /\ Kept(asked, sched.q, queue)
  BY DEF SchedWell
<1>1. \A v \in Updates : ~Sole(queue', v)
  BY SoleNone, Zenon
<1>2. \A v \in Updates : Sole(queue, v) => v = u
  BY SoleOne, Zenon
<1>3. Kept(asked', sched.q, queue')
  BY <1>0, <1>2 DEF Kept
<1>4. Awaited(sched.busy, stalled, scans, queue') /\ Fit(folder', queue')
  BY <1>0, <1>1, <1>2 DEF Awaited, Fit
<1>5. Timed(folder', sched, stalled)
  BY <1>0 DEF Timed
<1>6. SchedTyped'
  BY <1>0 DEF SchedTyped
<1> QED BY <1>3, <1>4, <1>5, <1>6 DEF SchedWell, NotReady

\* A folder may be scanned now: the scheduler looks for the next scan, unless one
\* goes on.
LEMMA IdleWell ==
    ASSUME SchedWell, sched.ready, NEW u \in Updates, Sole(queue, u), u.op \notin {"scan_start", "scan_finish"},
           folder' \in [Folders -> FolderStates], Servable(folder', asked), Tail(queue) = <<>>, Idle(folder'),
           UNCHANGED <<scans, asked, stalled>>
    PROVE  SchedWell'
<1>0. /\ SchedTyped /\ Awaited(sched.busy, stalled, scans, queue)
      /\ sched \in Schedules /\ sched.q \in Seq(Requests) /\ asked \in SUBSET Requests
      /\ Kept(asked, sched.q, queue)
  BY DEF SchedWell, SchedTyped, Schedules
<1>1. \A v \in Updates : Sole(queue, v) => v = u
  BY SoleOne, Zenon
<1>2. \A x \in asked : Covered(sched.q, x)
  BY <1>0, <1>1 DEF Kept
<1>3. CASE sched.busy
  <2>1. sched' = sched /\ queue' = <<>>
    BY <1>3 DEF Idle
  <2>2. \A v \in Updates : ~Sole(queue', v)
    BY <2>1, SoleNone, Zenon
  <2>3. Kept(asked, sched.q, queue') /\ Fit(folder', queue') /\ Timed(folder', sched, stalled)
    BY <1>2, <1>3, <2>2 DEF Kept, Fit, Timed
  <2>4. Awaited(sched.busy, stalled, scans, queue')
    BY <1>0, <1>1 DEF Awaited
  <2>5. SchedTyped'
    BY <1>0, <2>1 DEF SchedTyped
  <2> QED BY <2>1, <2>3, <2>4, <2>5 DEF SchedWell, NotReady
<1>4. CASE ~sched.busy
  <2>1. scan_next_or_schedule(folder', sched.q, <<>>)
    BY <1>4 DEF Idle
  <2>2. /\ sched' \in Schedules /\ sched'.ready = sched.ready
        /\ Single(queue') /\ Fit(folder', queue') /\ Kept(asked, sched'.q, queue')
        /\ Awaited(sched'.busy, stalled, scans, queue') /\ Timed(folder', sched', stalled)
    BY <1>0, <1>2, <2>1, Scheduled
  <2>3. SchedTyped'
    BY <1>0, <2>2 DEF SchedTyped, Single
  <2> QED BY <2>2, <2>3 DEF SchedWell, NotReady
<1> QED BY <1>3, <1>4

\* A folder is added, or comes out of synchronization.
LEMMA UpsertWell ==
    ASSUME SchedWell, sched.ready, NEW u \in Updates, Sole(queue, u), Tail(queue) = <<>>, upsert_folder(u)
    PROVE  SchedWell'
<1>0. /\ folder \in [Folders -> FolderStates] /\ u.f \in Folders /\ asked \in SUBSET Requests /\ Servable(folder, asked)
      /\ u.op = "upsert" /\ Idle(folder') /\ UNCHANGED <<scans, asked, stalled, outside>>
  BY DEF SchedWell, SchedTyped, Updates, upsert_folder
<1>1. Fresh(TRUE) \in FolderStates /\ Fresh(TRUE).has /\ ~Fresh(TRUE).sync
  BY DEF Fresh, FolderStates, Never
<1>2. folder' = IF folder[u.f].has THEN folder ELSE [folder EXCEPT ![u.f] = Fresh(TRUE)]
  BY DEF upsert_folder
<1>3. folder' \in [Folders -> FolderStates]
  <2> DEFINE n == Fresh(TRUE)
  <2>1. n \in FolderStates
    BY <1>1
  <2> HIDE DEF n
  <2> QED BY <1>0, <1>2, <2>1 DEF n
<1>4. Servable(folder', asked)
  <2> DEFINE n == Fresh(TRUE)
  <2>1. n.has /\ ~n.sync
    BY <1>1
  <2> HIDE DEF n
  <2>2. \A g \in Folders : Scannable(folder, g) => Scannable(folder', g)
    BY <1>0, <1>2, <2>1 DEF Scannable, n
  <2>3. \A x \in asked : x.f \in Folders
    BY <1>0 DEF Requests, Items
  <2> QED BY <1>0, <2>2, <2>3 DEF Servable
<1> QED BY <1>0, <1>3, <1>4, IdleWell

\* Synchronization of a folder is over.
LEMMA SyncedWell ==
    ASSUME SchedWell, sched.ready, NEW u \in Updates, Sole(queue, u), Tail(queue) = <<>>, synchronization_finish(u)
    PROVE  SchedWell'
<1>0. /\ folder \in [Folders -> FolderStates] /\ u.f \in Folders /\ asked \in SUBSET Requests /\ Servable(folder, asked)
      /\ u.op = "sync_finish" /\ Idle(folder') /\ UNCHANGED <<scans, asked, stalled, outside>>
      /\ folder' = [folder EXCEPT ![u.f].sync = FALSE]
  BY DEF SchedWell, SchedTyped, Updates, synchronization_finish
<1>1. /\ folder' \in [Folders -> FolderStates]
      /\ \A g \in Folders : Scannable(folder, g) => Scannable(folder', g)
  BY <1>0 DEF FolderStates, Scannable
<1>2. Servable(folder', asked)
  <2>1. \A x \in asked : x.f \in Folders
    BY <1>0 DEF Requests, Items
  <2> QED BY <1>0, <1>1, <2>1 DEF Servable
<1> QED BY <1>0, <1>1, <1>2, IdleWell

\* A folder is synchronized, suspended or removed: it is not scanned meanwhile.
LEMMA DroppedWell ==
    ASSUME SchedWell, sched.ready, NEW u \in Updates, Sole(queue, u), Tail(queue) = <<>>,
           synchronization_start(u) \/ suspend_folder(u) \/ remove_folder(u)
    PROVE  SchedWell'
<1>0. /\ folder \in [Folders -> FolderStates] /\ u.f \in Folders /\ asked \in SUBSET Requests /\ Servable(folder, asked)
      /\ queue' = <<>> /\ UNCHANGED <<sched, scans, stalled>>
  BY DEF SchedWell, SchedTyped, Updates, synchronization_start, suspend_folder, remove_folder
<1>1. \A x \in asked : x.f \in Folders /\ Scannable(folder, x.f)
  BY <1>0 DEF Requests, Items, Servable
<1>2. CASE synchronization_start(u)
  <2>1. /\ folder' = [folder EXCEPT ![u.f].sync = folder[u.f].has] /\ asked' = {x \in asked : x.f # u.f}
        /\ u.op = "sync_start"
    BY <1>2 DEF synchronization_start, Forget
  <2>2. folder' \in [Folders -> FolderStates] /\ \A g \in Folders : g # u.f => folder'[g] = folder[g]
    BY <1>0, <2>1 DEF FolderStates
  <2>3. /\ folder'[u.f].has = folder[u.f].has /\ folder'[u.f].sync = folder[u.f].has
        /\ folder'[u.f].scanning = folder[u.f].scanning /\ folder'[u.f].susp = folder[u.f].susp
    BY <1>0, <2>1 DEF FolderStates
  <2>4. Periodic(folder') \subseteq Periodic(folder)
    BY <2>2, <2>3 DEF Periodic
  <2>5. asked' \subseteq asked /\ Servable(folder', asked')
    BY <1>1, <2>1, <2>2 DEF Servable, Scannable
  <2> QED BY <1>0, <2>1, <2>2, <2>4, <2>5, DropWell
<1>3. CASE suspend_folder(u)
  <2>1. /\ folder' = [folder EXCEPT ![u.f].susp = IF folder[u.f].has THEN "error" ELSE @] /\ asked' = asked
        /\ u.op = "suspend"
    BY <1>3 DEF suspend_folder
  <2>2. folder' \in [Folders -> FolderStates] /\ \A g \in Folders : g # u.f => folder'[g] = folder[g]
    BY <1>0, <2>1 DEF FolderStates
  <2>3. /\ folder'[u.f].has = folder[u.f].has /\ folder'[u.f].sync = folder[u.f].sync
        /\ folder'[u.f].scanning = folder[u.f].scanning
        /\ folder'[u.f].susp = "no" => folder[u.f].susp = "no"
    BY <1>0, <2>1 DEF FolderStates
  <2>4. Periodic(folder') \subseteq Periodic(folder)
    BY <2>2, <2>3 DEF Periodic
  <2>5. asked' \subseteq asked /\ Servable(folder', asked')
    BY <1>1, <2>1, <2>2, <2>3 DEF Servable, Scannable
  <2> QED BY <1>0, <2>1, <2>2, <2>4, <2>5, DropWell
<1>4. CASE remove_folder(u)
  <2> DEFINE n == Fresh(FALSE)
  <2>1. folder' = [folder EXCEPT ![u.f] = n] /\ asked' = {x \in asked : x.f # u.f} /\ u.op = "remove"
    BY <1>4 DEF remove_folder, Forget
  <2>2. n \in FolderStates /\ ~n.has
    BY DEF Fresh, FolderStates, Never
  <2> HIDE DEF n
  <2>3. /\ folder' \in [Folders -> FolderStates] /\ folder'[u.f] = n
        /\ \A g \in Folders : g # u.f => folder'[g] = folder[g]
    BY <1>0, <2>1, <2>2
  <2>4. Periodic(folder') \subseteq Periodic(folder)
    BY <2>2, <2>3 DEF Periodic
  <2>5. asked' \subseteq asked /\ Servable(folder', asked')
    BY <1>1, <2>1, <2>3 DEF Servable, Scannable
  <2> QED BY <1>0, <2>1, <2>3, <2>4, <2>5, DropWell
<1> QED BY <1>2, <1>3, <1>4

\* A scan starts, or ends at once.
LEMMA StartWell ==
    ASSUME SchedWell, sched.ready, NEW u \in Updates, Sole(queue, u), Tail(queue) = <<>>, scan_start(u)
    PROVE  SchedWell'
<1>0. /\ folder \in [Folders -> FolderStates] /\ u.f \in Folders /\ asked \in SUBSET Requests /\ Servable(folder, asked)
      /\ SchedTyped /\ Timed(folder, sched, stalled) /\ Kept(asked, sched.q, queue)
      /\ u.op = "scan_start" /\ folder[u.f].has /\ u.s \in SubDirs /\ scans \in Seq(Items)
      /\ folder' = [folder EXCEPT ![u.f].scanning = TRUE]
      /\ asked' = {x \in asked : ~(x.f = u.f /\ <<u.s, x.s>> \in Within)}
      /\ UNCHANGED <<sched, stalled, outside>>
  BY DEF SchedWell, SchedTyped, Updates, scan_start
<1>1. /\ folder' \in [Folders -> FolderStates]
      /\ \A g \in Folders : /\ folder'[g].has = folder[g].has /\ folder'[g].sync = folder[g].sync
                            /\ folder'[g].susp = folder[g].susp
                            /\ folder[g].scanning => folder'[g].scanning
  BY <1>0 DEF FolderStates
<1>2. Periodic(folder') \subseteq Periodic(folder)
  BY <1>1 DEF Periodic
<1>3. Servable(folder', asked')
  <2>1. \A x \in asked : x.f \in Folders
    BY <1>0 DEF Requests, Items
  <2> QED BY <1>0, <1>1, <2>1 DEF Servable, Scannable
<1>4. \A x \in asked' : Covered(sched.q, x)
  <2>1. \A v \in Updates : Sole(queue, v) => v = u
    BY SoleOne, Zenon
  <2> QED BY <1>0, <2>1 DEF Kept, Covers
<1>5. Timed(folder', sched, stalled) /\ Kept(asked', sched.q, queue')
  BY <1>0, <1>2, <1>4 DEF Timed, Kept
<1>6. CASE scans' = Append(scans, Item(u.f, u.s)) /\ queue' = <<>>
  <2> DEFINE y == Item(u.f, u.s)
  <2>1. y \in Items
    BY <1>0 DEF Item, Items
  <2> HIDE DEF y
  <2>2. scans' \in Seq(Items) /\ scans' # <<>>
    BY <1>0, <1>6, <2>1 DEF y
  <2>3. Awaited(sched.busy, stalled, scans', queue')
    BY <2>2 DEF Awaited
  <2>4. Fit(folder', queue')
    BY <1>6, SoleNone DEF Fit
  <2>5. SchedTyped'
    BY <1>0, <1>1, <1>6, <2>2 DEF SchedTyped
  <2> QED BY <1>0, <1>3, <1>5, <2>3, <2>4, <2>5 DEF SchedWell, NotReady
<1>7. CASE scans' = scans /\ queue' = Append(<<>>, Diff("scan_finish", u.f, "same"))
  <2> DEFINE d == Diff("scan_finish", u.f, "same")
  <2>1. d \in Updates /\ d.op = "scan_finish" /\ d.f = u.f
    BY <1>0 DEF Diff, Updates, Results
  <2> HIDE DEF d
  <2>2. Append(<<>>, d) = <<d>>
    OBVIOUS
  <2>3. Sole(queue', d)
    BY <1>7, <2>1, <2>2 DEF Sole, d
  <2>4. Awaited(sched.busy, stalled, scans', queue')
    BY <2>1, <2>3 DEF Awaited
  <2>5. Fit(folder', queue')
    BY <1>0, <1>1, <2>1, <2>3, SoleOne DEF Fit
  <2>6. SchedTyped'
    BY <1>0, <1>1, <1>7, <2>1, <2>3 DEF SchedTyped
  <2> QED BY <1>0, <1>3, <1>5, <2>4, <2>5, <2>6 DEF SchedWell, NotReady
<1> QED BY <1>6, <1>7 DEF scan_start

\* A scan is over: the next one is looked for.
LEMMA FinishedWell ==
    ASSUME SchedWell, sched.ready, NEW u \in Updates, Sole(queue, u), Tail(queue) = <<>>, scan_finish(u)
    PROVE  SchedWell'
<1>0. /\ folder \in [Folders -> FolderStates] /\ u.f \in Folders /\ asked \in SUBSET Requests /\ Servable(folder, asked)
      /\ SchedTyped /\ sched \in Schedules /\ sched.q \in Seq(Requests) /\ Kept(asked, sched.q, queue)
      /\ u.op = "scan_finish" /\ u.s \in Results
      /\ scan_next_or_schedule(folder', sched.q, <<>>) /\ UNCHANGED <<scans, asked, stalled, outside>>
      /\ folder' = [folder EXCEPT ![u.f].scanning = FALSE, ![u.f].age = 0, ![u.f].susp = IF u.s = "same" THEN @ ELSE u.s]
  BY DEF SchedWell, SchedTyped, Schedules, Updates, scan_finish
<1>1. /\ folder' \in [Folders -> FolderStates]
      /\ \A g \in Folders : Scannable(folder, g) => Scannable(folder', g)
  <2> DEFINE n == [folder[u.f] EXCEPT !.scanning = FALSE, !.age = 0, !.susp = IF u.s = "same" THEN @ ELSE u.s]
  <2>1. n \in FolderStates /\ n.has = folder[u.f].has /\ n.sync = folder[u.f].sync
    BY <1>0 DEF FolderStates, Results
  <2>2. folder' = [folder EXCEPT ![u.f] = n]
    BY <1>0 DEF FolderStates, Results
  <2> HIDE DEF n
  <2> QED BY <1>0, <2>1, <2>2 DEF Scannable
<1>2. Servable(folder', asked)
  <2>1. \A x \in asked : x.f \in Folders
    BY <1>0 DEF Requests, Items
  <2> QED BY <1>0, <1>1, <2>1 DEF Servable
<1>3. \A x \in asked : Covered(sched.q, x)
  <2>1. \A v \in Updates : Sole(queue, v) => v = u
    BY SoleOne, Zenon
  <2> QED BY <1>0, <2>1 DEF Kept
<1>4. /\ sched' \in Schedules /\ sched'.ready = sched.ready
      /\ Single(queue') /\ Fit(folder', queue') /\ Kept(asked, sched'.q, queue')
      /\ Awaited(sched'.busy, stalled, scans, queue') /\ Timed(folder', sched', stalled)
  BY <1>0, <1>1, <1>2, <1>3, Scheduled
<1>5. SchedTyped'
  BY <1>0, <1>1, <1>4 DEF SchedTyped, Single
<1> QED BY <1>0, <1>2, <1>4, <1>5 DEF SchedWell, NotReady

\* Of two directories that may be asked for, a prefix contains the other one.
LEMMA Nested ==
    ASSUME NEW f, NEW s, NEW t, <<f, s>> \in Wishes, <<f, t>> \in Wishes, <<s, t>> \in Prefix
    PROVE  <<s, t>> \in Within
<1> DEFINE v == <<f, s>>
           w == <<f, t>>
<1>1. v \in Wishes /\ w \in Wishes /\ v[1] = w[1] /\ v[2] = s /\ w[2] = t
  OBVIOUS
<1> HIDE DEF v, w
<1>2. <<v[2], w[2]>> \in Within
  BY <1>1, SchedulerAssumption
<1> QED BY <1>1, <1>2

\* A request to scan is covered by what waits, is added to it, or started.
LEMMA RequestWell ==
    ASSUME SchedWell, sched.ready, NEW u \in Updates, Sole(queue, u), Tail(queue) = <<>>, scan_request(u)
    PROVE  SchedWell'
<1>0. /\ folder \in [Folders -> FolderStates] /\ u.f \in Folders /\ asked \in SUBSET Requests /\ Servable(folder, asked)
      /\ SchedTyped /\ sched \in Schedules /\ sched.q \in Seq(Requests) /\ Kept(asked, sched.q, queue)
      /\ Awaited(sched.busy, stalled, scans, queue) /\ Timed(folder, sched, stalled)
      /\ u.op = "scan_request" /\ <<u.f, u.s>> \in Wishes /\ UNCHANGED <<folder, scans, stalled, outside>>
  BY DEF SchedWell, SchedTyped, Schedules, Updates, scan_request
<1> DEFINE q == sched.q
           y == Item(u.f, u.s)
<1>1. y \in Requests /\ y.f = u.f /\ y.s = u.s
  BY <1>0, SchedulerAssumption DEF Requests, Items, Item
<1>2. asked' = asked \cup (IF Scannable(folder, u.f) THEN {y} ELSE {})
  BY DEF scan_request
<1> HIDE DEF y
<1>3. asked' \in SUBSET Requests /\ Servable(folder, asked') /\ \A x \in asked' : x \in asked \/ x = y
  BY <1>0, <1>1, <1>2 DEF Servable
<1>4. \A v \in Updates : Sole(queue, v) => v = u
  BY SoleOne, Zenon
<1>5. (\A x \in asked : Covered(q, x)) /\ (sched.busy /\ ~stalled => scans # <<>>)
  BY <1>0, <1>4 DEF Kept, Awaited
\* What waits covers the request.
<1>6. ASSUME NEW p \in Seq(Requests), sched' \in Schedules, sched'.q = p, sched'.ready = sched.ready,
             sched'.busy = sched.busy, sched'.timer = sched.timer, queue' = <<>>, \A x \in asked' : Covered(p, x)
      PROVE  SchedWell'
  <2>1. \A v \in Updates : ~Sole(queue', v)
    BY <1>6, SoleNone, Zenon
  <2>2. Kept(asked', sched'.q, queue') /\ Fit(folder, queue') /\ Awaited(sched'.busy, stalled, scans, queue')
    BY <1>5, <1>6, <2>1 DEF Kept, Fit, Awaited
  <2>3. Timed(folder, sched', stalled)
    BY <1>0, <1>6 DEF Timed
  <2>4. SchedTyped'
    BY <1>0, <1>3, <1>6 DEF SchedTyped
  <2> QED BY <1>0, <1>3, <1>6, <2>2, <2>3, <2>4 DEF SchedWell, NotReady
<1> DEFINE same == {j \in 1 .. Len(q) : q[j].f = u.f}
           i == CHOOSE j \in same : \A k \in same : j <= k
           old == q[i].s
           wide == IF <<old, u.s>> \in Prefix THEN old ELSE u.s
<1>7. CASE same # {} /\ (<<old, u.s>> \in Prefix \/ <<u.s, old>> \in Prefix)
  <2>1. i \in same
    <3>1. \E j \in same : \A k \in same : j <= k
      <4>1. Len(q) \in Nat
        BY <1>0
      <4>2. same \in SUBSET Nat
        BY <4>1
      <4> HIDE DEF same
      <4> QED BY <1>7, <4>2, Least
    <3> HIDE DEF same
    <3> QED BY <3>1, Zenon
  <2>2. sched' = [sched EXCEPT !.q[i].s = wide] /\ queue' = <<>>
    BY <1>7, Zenon DEF scan_request
  <2> HIDE DEF i
  <2>3. i \in 1 .. Len(q) /\ q[i] \in Requests /\ q[i].f = u.f /\ <<u.f, old>> \in Wishes /\ old \in SubDirs
    <3>1. i \in 1 .. Len(q) /\ q[i].f = u.f
      BY <2>1
    <3>2. q[i] \in Requests
      BY <1>0, <3>1
    <3> QED BY <3>1, <3>2 DEF Requests, Items
  <2>4. u.s \in SubDirs
    BY <1>0, SchedulerAssumption
  <2>5. <<wide, old>> \in Within /\ <<wide, u.s>> \in Within /\ wide \in SubDirs /\ <<u.f, wide>> \in Wishes
    <3>1. /\ <<old, u.s>> \in Prefix => <<old, u.s>> \in Within
          /\ <<u.s, old>> \in Prefix => <<u.s, old>> \in Within
      BY <1>0, <2>3, Nested
    <3>2. <<old, old>> \in Within /\ <<u.s, u.s>> \in Within
      BY <2>3, <2>4, SchedulerAssumption
    <3> QED BY <1>0, <1>7, <2>3, <2>4, <3>1, <3>2
  <2> HIDE DEF old, wide
  <2> DEFINE z == [f |-> u.f, s |-> wide]
             p == [q EXCEPT ![i] = z]
  <2>6. z \in Requests /\ z = [q[i] EXCEPT !.s = wide]
    BY <1>0, <2>3, <2>5 DEF Requests, Items
  <2>7. sched' = [sched EXCEPT !.q = p]
    BY <2>2, <2>6, Zenon
  <2>8. z.f = u.f /\ z.s = wide
    OBVIOUS
  <2> HIDE DEF z
  <2>9. p \in Seq(Requests) /\ Len(p) = Len(q) /\ \A j \in 1 .. Len(q) : p[j] = IF j = i THEN z ELSE q[j]
    BY <1>0, <2>3, <2>6, ExceptSeq
  <2> HIDE DEF p
  <2>10. sched' \in Schedules /\ sched'.q = p /\ sched'.ready = sched.ready /\ sched'.busy = sched.busy /\ sched'.timer = sched.timer
    BY <1>0, <2>7, <2>9 DEF Schedules
  <2>11. ASSUME NEW x \in asked' PROVE Covered(p, x)
    <3>1. CASE x = y
      BY <1>1, <2>3, <2>5, <2>8, <2>9, <3>1 DEF Covered, Covers
    <3>2. CASE x \in asked
      <4>1. PICK j \in 1 .. Len(q) : q[j].f = x.f /\ <<q[j].s, x.s>> \in Within
        BY <1>5, <3>2 DEF Covered, Covers
      <4>2. CASE j = i
        <5>1. <<old, x.s>> \in Within /\ x.s \in SubDirs
          BY <1>0, <3>2, <4>1, <4>2 DEF old, Requests, Items
        <5>2. <<wide, x.s>> \in Within
          BY <2>3, <2>5, <5>1, SchedulerAssumption
        <5> QED BY <2>3, <2>8, <2>9, <4>1, <4>2, <5>2 DEF Covered, Covers
      <4>3. CASE j # i
        BY <2>9, <4>1, <4>3 DEF Covered, Covers
      <4> QED BY <4>2, <4>3
    <3> QED BY <1>3, <3>1, <3>2
  <2> QED BY <1>6, <2>2, <2>9, <2>10, <2>11
<1> DEFINE p == Append(q, y)
<1>8. p \in Seq(Requests) /\ \A x \in asked' : Covered(p, x)
  <2>1. p \in Seq(Requests) /\ Len(p) = Len(q) + 1 /\ p[Len(q) + 1] = y /\ \A j \in 1 .. Len(q) : p[j] = q[j]
    <3>1. q \in Seq(Requests) /\ y \in Requests
      BY <1>0, <1>1
    <3> HIDE DEF q
    <3> QED BY <3>1, AppendProperties
  <2>2. Len(q) \in Nat
    BY <1>0
  <2> HIDE DEF p
  <2>3. Covers(y, y) /\ Covered(p, y)
    <3>1. Covers(y, y)
      BY <1>1, SchedulerAssumption DEF Covers, Requests, Items
    <3> QED BY <2>1, <2>2, <3>1 DEF Covered
  <2>4. \A x : Covered(q, x) => Covered(p, x)
    BY <2>1, <2>2 DEF Covered
  <2> QED BY <1>3, <1>5, <2>1, <2>3, <2>4
<1>9. CASE ~(same # {} /\ (<<old, u.s>> \in Prefix \/ <<u.s, old>> \in Prefix)) /\ sched.busy
  <2>1. sched' = [sched EXCEPT !.q = p] /\ queue' = <<>>
    BY <1>9, Zenon DEF scan_request, y
  <2> HIDE DEF p
  <2>2. sched' \in Schedules /\ sched'.q = p /\ sched'.ready = sched.ready /\ sched'.busy = sched.busy /\ sched'.timer = sched.timer
    BY <1>0, <1>8, <2>1 DEF Schedules
  <2> QED BY <1>6, <1>8, <2>1, <2>2
<1>10. CASE ~(same # {} /\ (<<old, u.s>> \in Prefix \/ <<u.s, old>> \in Prefix)) /\ ~sched.busy
  <2>1. scan_next_or_schedule(folder, p, <<>>)
    BY <1>10, Zenon DEF scan_request, y
  <2> HIDE DEF p
  <2>2. /\ sched' \in Schedules /\ sched'.ready = sched.ready
        /\ Single(queue') /\ Fit(folder, queue') /\ Kept(asked', sched'.q, queue')
        /\ Awaited(sched'.busy, stalled, scans, queue') /\ Timed(folder, sched', stalled)
    BY <1>0, <1>3, <1>8, <2>1, Scheduled
  <2>3. SchedTyped'
    BY <1>0, <1>3, <2>2 DEF SchedTyped, Single
  <2> QED BY <1>0, <1>3, <2>2, <2>3 DEF SchedWell, NotReady
<1> QED BY <1>7, <1>9, <1>10

\* Every update leaves the scheduler well.
LEMMA ApplyWell ==
    ASSUME SchedWell, Apply
    PROVE  SchedWell'
<1>1. PICK u \in Updates : Sole(queue, u) /\ Head(queue) = u /\ Tail(queue) = <<>>
  BY Applied
<1>2. /\ sched.ready
      /\ \/ upsert_folder(u) \/ scan_request(u) \/ scan_start(u) \/ scan_finish(u) \/ synchronization_start(u)
         \/ synchronization_finish(u) \/ suspend_folder(u) \/ remove_folder(u)
  BY <1>1, Zenon DEF Apply
<1> QED BY <1>1, <1>2, UpsertWell, RequestWell, StartWell, FinishedWell, SyncedWell, DroppedWell, Zenon

\* The scheduler starts well.
LEMMA SchedInit == SchedulerInit => SchedWell
<1> SUFFICES ASSUME SchedulerInit
             PROVE  SchedWell
  OBVIOUS
<1>1. PICK S \in SUBSET Folders : Loaded(S)
  BY DEF SchedulerInit
<1>2. /\ folder \in [Folders -> FolderStates]
      /\ \A f \in Folders : folder[f].age = Never
  BY <1>1 DEF Loaded, Fresh, FolderStates, Never
<1>3. queue = <<>> /\ scans = <<>> /\ asked = {} /\ stalled = FALSE
  BY <1>1 DEF Loaded
<1>4. sched \in Schedules /\ ~sched.ready /\ sched.q = <<>> /\ ~sched.busy /\ sched.timer = none
  <2>1. sched = [ready |-> FALSE, q |-> <<>>, timer |-> none, busy |-> FALSE]
    BY <1>1 DEF Loaded
  <2>2. <<>> \in Seq(Requests) /\ none \in Timers
    BY DEF Timers
  <2> QED BY <2>1, <2>2 DEF Schedules
<1>5. <<>> \in Seq(Items)
  OBVIOUS
<1>6. SchedTyped
  BY <1>2, <1>3, <1>4, <1>5 DEF SchedTyped
<1>7. Fit(folder, queue)
  BY <1>3, SoleNone DEF Fit
<1> QED BY <1>2, <1>3, <1>4, <1>6, <1>7 DEF SchedWell, NotReady, Servable, Awaited, Timed, Kept

\* Every step leaves it well.
LEMMA SchedNext ==
    ASSUME Prompt, SchedWell, [SchedulerNext]_schedulerVars
    PROVE  SchedWell'
<1>1. CASE UNCHANGED schedulerVars
  <2>1. UNCHANGED <<folder, sched, queue, creating, scans, asked, outside, stalled>>
    BY <1>1 DEF schedulerVars
  <2> QED BY <2>1 DEF SchedWell, SchedTyped, NotReady
<1>2. CASE SchedulerNext
  <2>1. \/ scheduler_on_local_ready \/ on_timer \/ Apply \/ Tick
        \/ \E i \in 1 .. Len(scans) : ScanEnds(i)
        \/ \E f \in Folders : \/ Upsert(f) \/ Synchronize(f) \/ on_create_dir(f) \/ Remove(f)
                              \/ \E s \in SubDirs : <<f, s>> \in Wishes /\ Request(f, s)
    BY <1>2, Zenon DEF SchedulerNext
  <2> QED BY <2>1, ReadyWell, TimerWell, ApplyWell, TickWell, EndsWell, SendsWell, CreateWell, Zenon
<1> QED BY <1>1, <1>2

----------------------------------------------------------------------------
(* Theorem *)

\* Nothing to be scanned is forgotten and the scheduler never waits in vain, when
\* model updates are applied before the next event: a request waits until a scan
\* that covers it starts, a folder with an interval has its timer, and a scan is
\* waited for only while one is on its way.
THEOREM NothingForgotten ==
    ASSUME Prompt
    PROVE  SchedulerSpec => []SchedulerSound
<1>1. SchedulerInit => SchedWell
  BY SchedInit
<1>2. SchedWell /\ [SchedulerNext]_schedulerVars => SchedWell'
  BY SchedNext
<1>3. SchedWell => SchedulerSound
  <2> SUFFICES ASSUME SchedWell
               PROVE  SchedulerSound
    OBVIOUS
  <2>0. SchedTyped /\ Fit(folder, queue) /\ Awaited(sched.busy, stalled, scans, queue)
        /\ Timed(folder, sched, stalled) /\ Kept(asked, sched.q, queue)
    BY DEF SchedWell
  <2>1. \A u : Sole(queue, u) => Head(queue) = u /\ Len(queue) = 1 /\ queue[1] = u
    BY DEF Sole
  <2>2. SchedulerTypeOK
    <3>1. sched.q \in Seq(Requests)
      BY <2>0 DEF SchedTyped, Schedules
    <3>2. \A i \in 1 .. Len(sched.q) : sched.q[i] \in Requests
      BY <3>1
    <3>3. \A i \in 1 .. Len(sched.q) : sched.q[i].s \in SubDirs
      BY <3>2 DEF Requests, Items
    <3> QED BY <2>0, <3>3 DEF SchedTyped, Schedules, FolderStates, SchedulerTypeOK
  <2>3. FolderPresent
    BY <2>0, <2>1 DEF SchedTyped, Fit, FolderPresent
  <2>4. WaitsForScan
    BY <2>0, <2>1 DEF Awaited, WaitsForScan
  <2>5. TimerRuns
    BY <2>0 DEF Timed, TimerRuns
  <2>6. RequestKept
    <3> SUFFICES ASSUME NEW x \in asked, ~Covered(sched.q, x)
                 PROVE  \E i \in 1 .. Len(queue) : queue[i].op = "scan_start" /\ queue[i].f = x.f /\ <<queue[i].s, x.s>> \in Within
      BY DEF RequestKept, Covered, Covers
    <3>1. PICK u \in Updates : Sole(queue, u) /\ u.op = "scan_start" /\ Covers(u, x)
      BY <2>0 DEF Kept
    <3>2. Len(queue) = 1 /\ queue[1] = u
      BY <2>1, <3>1
    <3> QED BY <3>1, <3>2 DEF Covers
  <2> QED BY <2>2, <2>3, <2>4, <2>5, <2>6 DEF SchedulerSound
<1> QED BY <1>1, <1>2, <1>3, PTL DEF SchedulerSpec
=============================================================================
