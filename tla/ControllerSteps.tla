--------------------------- MODULE ControllerSteps ---------------------------
(***************************************************************************)
(* The steps of the net thread's handlers keep the inductive invariant of  *)
(* module Controller, for every set of connections, files, blocks and      *)
(* versions and every value of the limits.  Module ControllerProofs does   *)
(* the same for the events and the file actor, and states the theorems.    *)
(***************************************************************************)
EXTENDS Controller, TLAPS, FiniteSetTheorems, SequenceTheorems, WellFoundedInduction

\* The inductive invariant.  The types need the other two: a free slot is found
\* because the requests are counted, an index of a block because the table is
\* that of the current versions.
Inv == TypeOK /\ SlotDiscipline /\ BlockTable /\ PathExclusion

-----------------------------------------------------------------------------
\* A non-empty set of naturals has a least element, the one MinOf chooses.
LEMMA LessThanWellFounded == IsWellFoundedOn({ss \in Nat \X Nat : ss[1] < ss[2]}, Nat)
  BY NatLessThanWellFounded, Zenon DEF OpToRel

LEMMA MinOfNat ==
    ASSUME NEW S, S \subseteq Nat, S # {}
    PROVE  MinOf(S) \in S /\ \A y \in S : MinOf(S) <= y
<1> DEFINE R == {ss \in Nat \X Nat : ss[1] < ss[2]}
<1>1. PICK x \in S : \A y \in S : ~(<<y, x>> \in R)
  <2> HIDE DEF R
  <2>1. IsWellFoundedOn(R, Nat)
    BY LessThanWellFounded, Zenon DEF R
  <2> QED BY <2>1, WFMin, Zenon
<1>2. ASSUME NEW y \in S PROVE x <= y
  <2>1. x \in Nat /\ y \in Nat
    OBVIOUS
  <2>2. ~(y < x)
    BY <1>1, <2>1, Zenon
  <2> QED BY <2>1, <2>2
<1> QED BY <1>2, Zenon DEF MinOf

-----------------------------------------------------------------------------
\* The parts of the invariant are kept by a step that leaves their variables.
LEMMA ModelKept ==
    ASSUME TypeModel, UNCHANGED <<modelVars, lockVars, countVars, iterOf>>
    PROVE  TypeModel'
  BY DEF TypeModel, modelVars, lockVars, countVars

LEMMA RequestsKept ==
    ASSUME TypeRequests, UNCHANGED <<lifeVars, reqVars, resVars>>
    PROVE  TypeRequests'
  BY DEF TypeRequests, lifeVars, reqVars, resVars

LEMMA FilesKept ==
    ASSUME TypeFiles, UNCHANGED <<fileVars, guardVars, fetchVars, wqueue>>
    PROVE  TypeFiles'
  BY DEF TypeFiles, fileVars, guardVars, fetchVars

LEMMA FsKept ==
    ASSUME TypeFs, UNCHANGED <<fsVars, diskVars>>
    PROVE  TypeFs'
  BY DEF TypeFs, fsVars, diskVars

LEMMA SlotsKept ==
    ASSUME SlotDiscipline, UNCHANGED <<slots, rx>>
    PROVE  SlotDiscipline'
  BY DEF SlotDiscipline, Occupied

LEMMA PathsKept ==
    ASSUME PathExclusion, UNCHANGED <<paths, guards>>,
           "path_lock" \in failed' => "path_lock" \in failed
    PROVE  PathExclusion'
  BY DEF PathExclusion

-----------------------------------------------------------------------------
\* Tasks: what the head of the agenda is, and what may be put on it.
LEMMA HeadTask ==
    ASSUME TypeThread, NEW k, Head_(k)
    PROVE  /\ agenda # <<>>
           /\ Head(agenda) \in Task /\ Head(agenda).k = k
           /\ Tail(agenda) \in Seq(Task)
  BY DEF TypeThread, Head_

LEMMA TaskFields ==
    ASSUME NEW t \in Task
    PROVE  /\ t.k # "apply" => t.c \in Conn
           /\ t.k \in {"release", "unlock"} => t.b \in Block
           /\ t.k = "cancel" => t.n \in Name
           /\ t.k = "visit" => t.from \in Conn /\ t.ds \in Seq(Diff)
           /\ t.k = "apply" => t.from \in Conn /\ t.rest \in Seq(Diff) /\ t.ds \in Seq(Diff)
           /\ t.k = "reply" => t.cmds \in Seq(Cmd)
  BY DEF Task

LEMMA PullsFor ==
    ASSUME TypeThread, Head_("pull")
    PROVE  Running \in Conn /\ Tail(agenda) \in Seq(Task)
  BY HeadTask, TaskFields DEF Running

LEMMA NewTasks ==
    ASSUME NEW c \in Conn
    PROVE  /\ \A k \in {"pull", "flush", "flushInner", "trigger", "stop", "unsubscribe"} : Step(k, c) \in Task
           /\ \A k \in {"release", "unlock"}, b \in Block : BlockStep(k, c, b) \in Task
           /\ \A n \in Name : CancelSync(c, n) \in Task
           /\ \A d \in Conn, ds \in Seq(Diff) : Visit(c, d, ds) \in Task
           /\ \A ds \in Seq(Diff) : Update(c, ds) \in Task
  BY DEF Task, Step, BlockStep, CancelSync, Visit, Update

LEMMA TableKept ==
    ASSUME BlockTable, UNCHANGED <<ver, links>>
    PROVE  BlockTable'
  BY DEF BlockTable, Blocks

-----------------------------------------------------------------------------
\* The steps of a handler.
LEMMA PullDoneInv ==
    ASSUME Inv, PullDone
    PROVE  Inv'
<1> USE DEF Inv, TypeOK
<1>1. TypeModel' /\ TypeRequests' /\ TypeFiles' /\ TypeFs'
  BY ModelKept, RequestsKept, FilesKept, FsKept DEF PullDone
<1>2. TypeThread'
  BY HeadTask DEF PullDone, Then, TypeThread, ctxVars
<1> QED BY <1>1, <1>2, SlotsKept, TableKept, PathsKept DEF PullDone, reqVars, modelVars, lockVars, guardVars

\* A block iterator stays within the blocks of its file.
LEMMA NextIndexRange ==
    ASSUME TypeModel, NEW f \in File, NEW from \in Nat
    PROVE  NextIndex(f, from) \in Nat /\ NextIndex(f, from) <= Len(Blocks(f))
<1> DEFINE is == {i \in from..Len(Blocks(f)) : i \notin have[f]}
<1>1. Len(Blocks(f)) \in Nat
  BY ContentAssumption DEF TypeModel, Blocks, BlocksOf, File
<1>2. is \subseteq Nat
  BY <1>1
<1>3. CASE is = {} \/ unreach[f]
  BY <1>1, <1>3 DEF NextIndex
<1>4. CASE is # {} /\ ~unreach[f]
  <2>1. MinOf(is) \in is
    BY <1>2, <1>4, MinOfNat, Zenon
  <2> QED BY <1>1, <1>4, <2>1 DEF NextIndex
<1> QED BY <1>3, <1>4

LEMMA IteratorRange ==
    ASSUME TypeModel, NEW c \in Conn, NEW n \in Name, NEW from \in Nat
    PROVE  [n |-> n, i |-> NextIndex(Mine(c, n), from), v |-> ver[Mine(c, n)]] \in Iterator
<1>1. Mine(c, n) \in File
  BY ConnAssumption DEF Mine, File
<1>2. ver[Mine(c, n)] \in Nat /\ ver[Mine(c, n)] <= Len(Content[n])
  BY <1>1 DEF TypeModel, Mine
<1>3. Blocks(Mine(c, n)) = BlocksOf(n, ver[Mine(c, n)])
  BY DEF Blocks, Mine
<1> QED BY <1>1, <1>2, <1>3, NextIndexRange, Zenon DEF Iterator

LEMMA PullIteratorEndInv ==
    ASSUME Inv, PullIteratorEnd
    PROVE  Inv'
<1> USE DEF Inv, TypeOK
<1>1. TypeModel' /\ TypeRequests' /\ TypeFs' /\ TypeThread'
  BY ModelKept, RequestsKept, FsKept DEF PullIteratorEnd, TypeThread, ctxVars
<1>2. TypeFiles'
  BY HeadTask, TaskFields, Zenon DEF PullIteratorEnd, Running, TypeFiles, fileVars, guardVars, fetchVars
<1> QED BY <1>1, <1>2, SlotsKept, TableKept, PathsKept DEF PullIteratorEnd, reqVars, modelVars, lockVars, guardVars

LEMMA PullReadyInv ==
    ASSUME Inv, PullReady
    PROVE  Inv'
<1> USE DEF Inv, TypeOK
<1>1. TypeModel' /\ TypeRequests' /\ TypeFs' /\ TypeThread'
  BY ModelKept, RequestsKept, FsKept DEF PullReady, TypeThread, ctxVars
<1>2. TypeFiles'
  <2>1. Running \in Conn
    BY HeadTask, TaskFields DEF PullReady, Running
  <2>2. PICK n \in ready[Running] : /\ ready' = [ready EXCEPT ![Running] = @ \ {n}]
                                    /\ iter' = [iter EXCEPT ![Running] = BlockIterator(Running, n)]
    BY Zenon DEF PullReady
  <2>3. BlockIterator(Running, n) \in Iterator
    BY <2>1, IteratorRange DEF BlockIterator, TypeFiles
  <2> QED BY <2>1, <2>2, <2>3 DEF PullReady, TypeFiles, guardVars, fetchVars
<1> QED BY <1>1, <1>2, SlotsKept, TableKept, PathsKept DEF PullReady, reqVars, modelVars, lockVars, guardVars

LEMMA ReleaseBlockInv ==
    ASSUME Inv, ReleaseBlock
    PROVE  Inv'
<1> USE DEF Inv, TypeOK
<1>1. TypeModel' /\ TypeRequests' /\ TypeFs'
  BY ModelKept, RequestsKept, FsKept DEF ReleaseBlock
<1>2. Running \in Conn /\ Head(agenda).b \in Block
  BY HeadTask, TaskFields DEF ReleaseBlock, Running
<1>3. TypeThread'
  <2>1. diffs' \in Seq(Diff)
    <3>1. diffs' = diffs \/ diffs' = Append(diffs, SyncDiff("synchronization_finish"))
      BY Zenon DEF ReleaseBlock
    <3>2. SyncDiff("synchronization_finish") \in Diff
      BY DEF SyncDiff, Diff
    <3>3. Append(diffs, SyncDiff("synchronization_finish")) \in Seq(Diff)
      BY <3>2, AppendProperties DEF TypeThread
    <3> QED BY <3>1, <3>3, Zenon DEF TypeThread
  <2> QED BY <2>1, HeadTask DEF ReleaseBlock, Then, TypeThread
<1>4. TypeFiles'
  <2> DEFINE c == Running  b == Head(agenda).b
  <2>1. CASE fetching[c][b] = 0
    BY <2>1 DEF ReleaseBlock, TypeFiles, guardVars, fetchVars
  <2>2. CASE fetching[c][b] # 0
    <3>1. Woken(c, b) \subseteq Block \X Name
      BY <1>2 DEF Woken, TypeFiles
    <3>2. postponed' \in [Conn -> SUBSET (Block \X Name)] /\ ready' \in [Conn -> SUBSET Name]
      <4>1. /\ postponed' = [postponed EXCEPT ![c] = @ \ Woken(c, b)]
            /\ ready' = [ready EXCEPT ![c] = @ \cup {x[2] : x \in Woken(c, b)}]
        BY <2>2, Zenon DEF ReleaseBlock
      <4> HIDE DEF c, b
      <4> QED BY <1>2, <3>1, <4>1 DEF TypeFiles, c, b
    <3>3. fetching' \in [Conn -> [Block -> Nat]] /\ sync' \in [Conn -> {"absent", "idle", "active"}]
      <4>1. /\ fetching' = [fetching EXCEPT ![c][b] = @ - 1]
            /\ sync' = sync \/ sync' = [sync EXCEPT ![c] = "idle"]
        BY <2>2, Zenon DEF ReleaseBlock
      <4> QED BY <1>2, <2>2, <4>1 DEF TypeFiles
    <3> QED BY <3>2, <3>3 DEF ReleaseBlock, TypeFiles, guardVars
  <2> QED BY <2>1, <2>2
<1> QED BY <1>1, <1>3, <1>4, SlotsKept, TableKept, PathsKept DEF ReleaseBlock, reqVars, modelVars, lockVars, guardVars

LEMMA UnlockBlockInv ==
    ASSUME Inv, UnlockBlock
    PROVE  Inv'
<1> USE DEF Inv, TypeOK
<1>1. TypeRequests' /\ TypeFiles' /\ TypeFs'
  BY RequestsKept, FilesKept, FsKept DEF UnlockBlock
<1>2. TypeModel'
  BY DEF UnlockBlock, TypeModel, modelVars, countVars
<1>3. TypeThread'
  BY HeadTask DEF UnlockBlock, Then, TypeThread, ctxVars
<1> QED BY <1>1, <1>2, <1>3, SlotsKept, TableKept, PathsKept DEF UnlockBlock, reqVars, modelVars, guardVars

\* Dropping guards unlocks the paths of these guards and of no others.
LEMMA DropGuardsPaths ==
    ASSUME TypeFiles, PathExclusion, NEW c \in Conn, NEW names \in SUBSET guards[c],
           DropGuards(c, names), "path_lock" \notin failed'
    PROVE  PathExclusion'
<1>1. /\ guards' = [guards EXCEPT ![c] = @ \ names]
      /\ paths' = paths \ names
  BY DEF DropGuards
<1>2. \A d \in Conn : guards'[d] = IF d = c THEN guards[c] \ names ELSE guards[d]
  BY <1>1 DEF TypeFiles
<1>3. paths' = UNION {guards'[d] : d \in Conn}
  <2>1. ASSUME NEW n \in paths' PROVE \E d \in Conn : n \in guards'[d]
    <3>1. n \in paths /\ n \notin names
      BY <1>1, <2>1, Zenon
    <3>2. PICK d \in Conn : n \in guards[d]
      BY <3>1, Zenon DEF PathExclusion
    <3>3. n \in guards'[d]
      BY <1>2, <3>1, <3>2, Zenon
    <3> QED BY <3>3
  <2>2. ASSUME NEW d \in Conn, NEW n \in guards'[d] PROVE n \in paths'
    <3>1. n \in guards[d] /\ (d = c => n \notin names)
      BY <1>2, <2>2, Zenon
    <3>2. n \in paths
      BY <3>1, Zenon DEF PathExclusion
    <3>3. d # c => n \notin names
      BY <3>1, Zenon DEF PathExclusion
    <3> QED BY <1>1, <3>1, <3>2, <3>3, Zenon
  <2> QED BY <2>1, <2>2
<1>4. ASSUME NEW d \in Conn, NEW e \in Conn, d # e, NEW n \in guards'[d], n \in guards'[e]
      PROVE  FALSE
  <2>1. n \in guards[d] /\ n \in guards[e]
    BY <1>2, <1>4, Zenon
  <2> QED BY <1>4, <2>1, Zenon DEF PathExclusion
<1> QED BY <1>3, <1>4 DEF PathExclusion

LEMMA DropGuardsType ==
    ASSUME TypeFiles, TypeModel, NEW c \in Conn, NEW names \in SUBSET Name, DropGuards(c, names)
    PROVE  /\ guards' \in [Conn -> SUBSET Name] /\ finished' \in [Conn -> SUBSET Name]
           /\ queue' \in [Conn -> SUBSET Name] /\ paths' \subseteq Name
<1>1. Rechecked(c, names) \in [Conn -> SUBSET Name]
  BY DEF Rechecked, TypeFiles
<1> QED BY <1>1, Zenon DEF DropGuards, TypeFiles, TypeModel

LEMMA CancelSyncInv ==
    ASSUME Inv, CancelSyncStep
    PROVE  Inv'
<1> USE DEF Inv, TypeOK
<1> DEFINE c == Running  n == Head(agenda).n
<1>1. c \in Conn /\ n \in Name
  BY HeadTask, TaskFields DEF CancelSyncStep, Running
<1>2. DropGuards(c, guards[c] \cap {n})
  BY DEF CancelSyncStep
<1>3. TypeRequests' /\ TypeFs'
  BY RequestsKept, FsKept DEF CancelSyncStep
<1>4. TypeThread'
  BY HeadTask DEF CancelSyncStep, Then, TypeThread, ctxVars
<1>5. TypeModel'
  BY <1>1, <1>2, DropGuardsType DEF CancelSyncStep, TypeModel, modelVars, countVars
<1>6. TypeFiles'
  <2>1. iter' \in [Conn -> Iterator \cup {None}]
    BY <1>1 DEF CancelSyncStep, TypeFiles
  <2>2. postponed' \in [Conn -> SUBSET (Block \X Name)] /\ ready' \in [Conn -> SUBSET Name]
    BY <1>1 DEF CancelSyncStep, TypeFiles
  <2> QED BY <1>1, <1>2, <2>1, <2>2, DropGuardsType DEF CancelSyncStep, TypeFiles, fetchVars
<1>7. PathExclusion'
  BY <1>1, <1>2, DropGuardsPaths DEF CancelSyncStep, PathExclusion
<1> QED BY <1>3, <1>4, <1>5, <1>6, <1>7, SlotsKept, TableKept DEF CancelSyncStep, reqVars, modelVars

LEMMA ShutdownTriggerInv ==
    ASSUME Inv, ShutdownTrigger
    PROVE  Inv'
<1> USE DEF Inv, TypeOK
<1>1. TypeModel' /\ TypeRequests' /\ TypeFiles' /\ TypeFs'
  BY ModelKept, RequestsKept, FilesKept, FsKept DEF ShutdownTrigger
<1>2. TypeThread'
  <2>1. Running \in Conn
    BY HeadTask, TaskFields DEF ShutdownTrigger, Running
  <2> QED BY <2>1, HeadTask, NewTasks, ConcatProperties DEF ShutdownTrigger, ThenSend, TypeThread, ctxVars
<1> QED BY <1>1, <1>2, SlotsKept, TableKept, PathsKept DEF ShutdownTrigger, reqVars, modelVars, lockVars, guardVars

LEMMA ShutdownStartInv ==
    ASSUME Inv, ShutdownStart
    PROVE  Inv'
<1> USE DEF Inv, TypeOK
<1> DEFINE c == Running
<1>1. c \in Conn
  BY HeadTask, TaskFields DEF ShutdownStart, Running
<1>2. TypeModel' /\ TypeFiles'
  BY ModelKept, FilesKept DEF ShutdownStart
<1>3. TypeRequests'
  <2>1. st' \in [Conn -> {"none", "up", "stopping", "down"}] /\ timer' \in [Conn -> BOOLEAN]
    <3>1. st' \in [Conn -> {"none", "up", "stopping", "down"}]
      BY <1>1 DEF ShutdownStart, TypeRequests
    <3>2. timer' = timer \/ timer' = [timer EXCEPT ![c] = fsReqs[c] > 0]
      BY Zenon DEF ShutdownStart
    <3>3. (fsReqs[c] > 0) \in BOOLEAN
      BY <1>1, SMT DEF TypeRequests
    <3> QED BY <1>1, <3>1, <3>2, <3>3, Zenon DEF TypeRequests
  <2> QED BY <2>1 DEF ShutdownStart, TypeRequests, reqVars, resVars
<1>4. TypeThread'
  <2>1. agenda' \in Seq(Task)
    <3>1. \/ agenda' = <<>> \o Tail(agenda)
          \/ agenda' = <<>> \o Tail(agenda) \o <<Step("unsubscribe", c)>>
      BY Zenon DEF ShutdownStart, Then, ThenSend
    <3>2. Tail(agenda) \in Seq(Task) /\ Step("unsubscribe", c) \in Task
      BY <1>1, HeadTask, NewTasks DEF ShutdownStart
    <3> HIDE DEF c
    <3> QED BY <3>1, <3>2
  <2> QED BY <2>1, Zenon DEF ShutdownStart, TypeThread, ctxVars
<1>5. TypeFs'
  <2>1. [c |-> c, todo |-> <<Predown>>, done |-> <<>>] \in Batch
    <3>1. /\ <<Predown>> \in Seq(Cmd \cup {Predown}) /\ <<Predown>> # <<>>
          /\ <<>> \in Seq(Cmd)
      OBVIOUS
    <3> HIDE DEF c
    <3> QED BY <1>1, <3>1, Zenon DEF Batch
  <2>2. fsq' = fsq \/ fsq' = Append(fsq, [c |-> c, todo |-> <<Predown>>, done |-> <<>>])
    BY Zenon DEF ShutdownStart
  <2>3. Append(fsq, [c |-> c, todo |-> <<Predown>>, done |-> <<>>]) \in Seq(Batch)
    BY <2>1, AppendProperties, Zenon DEF TypeFs
  <2>4. fsq' \in Seq(Batch)
    BY <2>2, <2>3, Zenon DEF TypeFs
  <2> QED BY <2>4, Zenon DEF ShutdownStart, TypeFs, diskVars
<1> QED BY <1>2, <1>3, <1>4, <1>5, SlotsKept, TableKept, PathsKept DEF ShutdownStart, reqVars, modelVars, lockVars, guardVars

\* What a step leaves of the agenda, with a message it sends.
LEMMA SentTasks ==
    ASSUME NEW t \in Seq(Task)
    PROVE  /\ <<>> \o t \in Seq(Task) /\ <<>> \o t \o <<>> \in Seq(Task)
           /\ \A x \in Task : <<>> \o t \o <<x>> \in Seq(Task)
<1>1. <<>> \o t \in Seq(Task)
  BY ConcatProperties
<1>2. <<>> \o t \o <<>> \in Seq(Task)
  BY <1>1, ConcatProperties
<1>3. ASSUME NEW x \in Task PROVE <<>> \o t \o <<x>> \in Seq(Task)
  BY <1>1, ConcatProperties
<1> QED BY <1>1, <1>2, <1>3

\* Removing an element of a sequence.
LEMMA CutSeq ==
    ASSUME NEW S, NEW s \in Seq(S), NEW k \in 1..Len(s)
    PROVE  LET cut == SubSeq(s, 1, k - 1) \o SubSeq(s, k + 1, Len(s))
           IN  /\ cut \in Seq(S) /\ Len(cut) = Len(s) - 1
               /\ \A j \in 1..(Len(s) - 1) : cut[j] = IF j < k THEN s[j] ELSE s[j + 1]
<1> DEFINE l == SubSeq(s, 1, k - 1)  r == SubSeq(s, k + 1, Len(s))
<1>1. l \in Seq(S) /\ Len(l) = k - 1 /\ \A j \in 1..(k - 1) : l[j] = s[j]
  BY SubSeqProperties
<1>2. r \in Seq(S) /\ Len(r) = Len(s) - k /\ \A j \in 1..(Len(s) - k) : r[j] = s[k + j]
  BY SubSeqProperties
<1> HIDE DEF l, r
<1>3. l \o r \in Seq(S) /\ Len(l \o r) = Len(s) - 1
  <2>1. l \o r \in Seq(S) /\ Len(l \o r) = Len(l) + Len(r)
    BY <1>1, <1>2, ConcatProperties, Zenon
  <2> QED BY <1>1, <1>2, <2>1
<1>4. ASSUME NEW j \in 1..(Len(s) - 1) PROVE (l \o r)[j] = IF j < k THEN s[j] ELSE s[j + 1]
  <2>0. /\ Len(s) \in Nat /\ k \in Nat /\ j \in Nat /\ j \in 1..(Len(l) + Len(r))
        /\ j <= Len(l) <=> j < k
    BY <1>1, <1>2, LenProperties
  <2>1. (l \o r)[j] = IF j <= Len(l) THEN l[j] ELSE r[j - Len(l)]
    BY <1>1, <1>2, <2>0, ConcatProperties, Zenon
  <2>2. CASE j < k
    <3>1. j \in 1..(k - 1)
      BY <2>0, <2>2
    <3> QED BY <1>1, <2>0, <2>1, <2>2, <3>1, Zenon
  <2>3. CASE ~(j < k)
    <3>1. j - Len(l) \in 1..(Len(s) - k) /\ k + (j - Len(l)) = j + 1
      BY <1>1, <2>0, <2>3
    <3>2. r[j - Len(l)] = s[j + 1]
      BY <1>2, <3>1, Zenon
    <3> QED BY <2>0, <2>1, <2>3, <3>2, Zenon
  <2> QED BY <2>2, <2>3, Zenon
<1> QED BY <1>3, <1>4, Zenon DEF l, r

LEMMA WithoutSeq ==
    ASSUME NEW S, NEW s \in Seq(S), NEW x
    PROVE  Without(s, x) \in Seq(S)
<1> DEFINE at == {j \in DOMAIN s : s[j] = x}
<1>1. CASE at = {}
  BY <1>1 DEF Without
<1>2. CASE at # {}
  <2>1. MinOf(at) \in 1..Len(s)
    <3>1. at \subseteq 1..Len(s) /\ at \subseteq Nat
      OBVIOUS
    <3> HIDE DEF at
    <3>2. MinOf(at) \in at
      BY <1>2, <3>1, MinOfNat, Zenon
    <3> QED BY <3>1, <3>2, Zenon
  <2> HIDE DEF at
  <2>2. SubSeq(s, 1, MinOf(at) - 1) \o SubSeq(s, MinOf(at) + 1, Len(s)) \in Seq(S)
    BY <2>1, CutSeq
  <2> QED BY <1>2, <2>2 DEF Without, at
<1> QED BY <1>1, <1>2

LEMMA UnsubscribeInv ==
    ASSUME Inv, Unsubscribe
    PROVE  Inv'
<1> USE DEF Inv, TypeOK
<1>1. TypeModel' /\ TypeFiles' /\ TypeFs'
  BY ModelKept, FilesKept, FsKept DEF Unsubscribe
<1>2. TypeRequests'
  BY WithoutSeq DEF Unsubscribe, TypeRequests, reqVars, resVars
<1>3. TypeThread'
  BY HeadTask DEF Unsubscribe, Then, TypeThread, ctxVars
<1> QED BY <1>1, <1>2, <1>3, SlotsKept, TableKept, PathsKept DEF Unsubscribe, reqVars, modelVars, lockVars, guardVars

\* ~stack_context_t, for any commands and diffs.
LEMMA FlushContextInv ==
    ASSUME Inv, NEW c \in Conn, NEW cmds \in Seq(Cmd), NEW ds \in Seq(Diff),
           agenda # <<>>, FlushContext(c, cmds, ds),
           io' \in Seq(Cmd), diffs' \in Seq(Diff), inner' \in Seq(Diff)
    PROVE  Inv'
<1> USE DEF Inv, TypeOK
<1> DEFINE k == Sendable(c)
           sent == SubSeq(wqueue[c], 1, k)
           batch == cmds \o sent
<1>1. wqueue[c] \in Seq(WriteCmd) /\ writeReq \in Int /\ Len(wqueue[c]) \in Nat
  BY LenProperties DEF TypeFiles, TypeModel
<1>2. k \in Nat /\ k <= Len(wqueue[c])
  BY <1>1 DEF Sendable
<1> HIDE DEF k
<1>3. sent \in Seq(WriteCmd) /\ SubSeq(wqueue[c], k + 1, Len(wqueue[c])) \in Seq(WriteCmd)
  <2>1. \A j \in 1..Len(wqueue[c]) : wqueue[c][j] \in WriteCmd
    BY <1>1, ElementOfSeq, Zenon
  <2>2. 1..k \subseteq 1..Len(wqueue[c]) /\ (k + 1)..Len(wqueue[c]) \subseteq 1..Len(wqueue[c])
    BY <1>1, <1>2
  <2>3. 1 \in Int /\ k \in Int /\ k + 1 \in Int /\ Len(wqueue[c]) \in Int
    BY <1>1, <1>2
  <2>4. sent \in Seq(WriteCmd)
    BY <2>1, <2>2, <2>3, SubSeqProperties, Zenon
  <2>5. SubSeq(wqueue[c], k + 1, Len(wqueue[c])) \in Seq(WriteCmd)
    BY <2>1, <2>2, <2>3, SubSeqProperties, Zenon
  <2> QED BY <2>4, <2>5
<1>4. batch \in Seq(Cmd)
  <2>1. sent \in Seq(Cmd)
    <3>1. WriteCmd \subseteq Cmd
      BY DEF Cmd
    <3> HIDE DEF sent
    <3> QED BY <1>3, <3>1, SeqMonotonic
  <2> HIDE DEF sent
  <2> QED BY <2>1, ConcatProperties
<1> HIDE DEF sent
<1>5. TypeModel'
  <2>1. writeReq' \in Int
    BY <1>1, <1>2 DEF FlushContext, k
  <2> QED BY <2>1 DEF FlushContext, TypeModel, modelVars, lockVars
<1>6. TypeRequests'
  <2>1. fsReqs' = fsReqs \/ fsReqs' = [fsReqs EXCEPT ![c] = @ + 1]
    BY Zenon DEF FlushContext
  <2>2. fsReqs' \in [Conn -> Nat]
    BY <2>1 DEF TypeRequests
  <2> QED BY <2>2, Zenon DEF FlushContext, TypeRequests, lifeVars, reqVars
<1>7. TypeFiles'
  <2>1. wqueue' = wqueue \/ wqueue' = [wqueue EXCEPT ![c] = SubSeq(wqueue[c], k + 1, Len(wqueue[c]))]
    BY Zenon DEF FlushContext, k
  <2>2. wqueue' \in [Conn -> Seq(WriteCmd)]
    BY <1>3, <2>1, Zenon DEF TypeFiles
  <2> QED BY <2>2, Zenon DEF FlushContext, TypeFiles, fileVars, guardVars, fetchVars
<1>8. TypeThread'
  <2>1. Update(c, ds) \in Task
    BY NewTasks
  <2>2. Tail(agenda) \in Seq(Task)
    BY DEF TypeThread
  <2>3. \/ agenda' = <<>> \o Tail(agenda) \o <<>>
        \/ agenda' = <<>> \o Tail(agenda) \o <<Update(c, ds)>>
    BY Zenon DEF FlushContext, ThenSend
  <2>4. agenda' \in Seq(Task)
    BY <2>1, <2>2, <2>3, SentTasks, Zenon
  <2> QED BY <2>4 DEF TypeThread
<1>9. TypeFs'
  <2> DEFINE new == [c |-> c, todo |-> batch, done |-> <<>>]
  <2>1. fsq' = fsq \/ (batch # <<>> /\ fsq' = Append(fsq, new))
    BY Zenon DEF FlushContext, k, sent
  <2>2. ASSUME batch # <<>> PROVE new \in Batch
    <3>1. batch \in Seq(Cmd \cup {Predown})
      <4> HIDE DEF batch
      <4> QED BY <1>4, SeqMonotonic
    <3>2. <<>> \in Seq(Cmd)
      OBVIOUS
    <3> HIDE DEF batch
    <3> QED BY <2>2, <3>1, <3>2, Zenon DEF Batch
  <2> HIDE DEF new, batch
  <2>3. ASSUME batch # <<>> PROVE Append(fsq, new) \in Seq(Batch)
    BY <2>2, <2>3, AppendProperties, Zenon DEF TypeFs
  <2>4. fsq' \in Seq(Batch)
    BY <2>1, <2>3, Zenon DEF TypeFs
  <2> QED BY <2>4 DEF FlushContext, TypeFs, diskVars
<1> QED BY <1>5, <1>6, <1>7, <1>8, <1>9, SlotsKept, TableKept, PathsKept DEF FlushContext, reqVars, modelVars, lockVars, guardVars

LEMMA FlushInv ==
    ASSUME Inv, Flush \/ FlushInner
    PROVE  Inv'
<1> USE DEF Inv, TypeOK
<1>1. agenda # <<>> /\ Running \in Conn
  BY HeadTask, TaskFields DEF Flush, FlushInner, Running
<1>2. CASE Flush
  BY <1>1, <1>2, FlushContextInv DEF Flush, TypeThread
<1>3. CASE FlushInner
  <2>1. <<>> \in Seq(Cmd) /\ <<>> \in Seq(Diff)
    OBVIOUS
  <2> QED BY <1>1, <1>3, <2>1, FlushContextInv, Zenon DEF FlushInner, TypeThread
<1> QED BY <1>2, <1>3

\* The diffs the handlers send.
LEMMA NewDiffs ==
    ASSUME TypeModel, NEW c \in Conn, NEW n \in Name
    PROVE  /\ Advance(PeerOf[c], n, ver[Mine(c, n)]) \in Diff
           /\ UnreachableDiff(Mine(c, n)) \in Seq(Diff)
           /\ \A cmd \in WriteCmd : BlockAck(PeerOf[c], cmd) \in Diff
<1>1. Mine(c, n) \in File /\ PeerOf[c] \in Peer /\ Mine(c, n)[1] = PeerOf[c] /\ Mine(c, n)[2] = n
  BY ConnAssumption DEF Mine, File
<1>2. ver[Mine(c, n)] \in Nat /\ ver[Mine(c, n)] <= Len(Content[n])
  BY <1>1 DEF TypeModel
<1>3. Advance(PeerOf[c], n, ver[Mine(c, n)]) \in Diff
  BY <1>1, <1>2 DEF Advance, Diff
<1>4. UnreachableDiff(Mine(c, n)) \in Seq(Diff)
  <2>1. Unreachable(PeerOf[c], n) \in Diff
    BY <1>1 DEF Unreachable, Diff
  <2> QED BY <1>1, <2>1 DEF UnreachableDiff
<1>5. ASSUME NEW cmd \in WriteCmd PROVE BlockAck(PeerOf[c], cmd) \in Diff
  <2>1. (cmd.op = "append") \in BOOLEAN
    BY Zenon
  <2> QED BY <1>1, <2>1 DEF BlockAck, WriteCmd, Diff
<1> QED BY <1>3, <1>4, <1>5

LEMMA PostprocessIoInv ==
    ASSUME Inv, PostprocessIo
    PROVE  Inv'
<1> USE DEF Inv, TypeOK
<1> DEFINE c == Running
           cmds == Head(agenda).cmds
           cmd == Head(cmds)
<1>1. c \in Conn /\ cmds \in Seq(Cmd) /\ Tail(agenda) \in Seq(Task)
  BY HeadTask, TaskFields DEF PostprocessIo, Running
<1>2. TypeRequests' /\ TypeFiles' /\ TypeFs'
  BY RequestsKept, FilesKept, FsKept DEF PostprocessIo
<1>3. CASE cmds = <<>>
  <2>1. Step("pull", c) \in Task /\ Step("flush", c) \in Task
    BY <1>1, NewTasks
  <2>2. agenda' = <<Step("pull", c), Step("flush", c)>> \o Tail(agenda)
    BY <1>3 DEF PostprocessIo, Then
  <2>3. agenda' \in Seq(Task)
    BY <1>1, <2>1, <2>2, ConcatProperties
  <2> QED BY <1>2, <1>3, <2>3, SlotsKept, TableKept, PathsKept
          DEF PostprocessIo, TypeModel, TypeThread, reqVars, lockVars, guardVars
<1>4. CASE cmds # <<>>
  <2>1. cmd \in Cmd /\ Tail(cmds) \in Seq(Cmd) /\ cmd.n \in Name
    <3>1. cmd \in Cmd /\ Tail(cmds) \in Seq(Cmd)
      BY <1>1, <1>4, HeadTailProperties
    <3> QED BY <3>1 DEF Cmd, WriteCmd
  <2>2. Mine(c, cmd.n) \in File
    BY <1>1, <2>1, ConnAssumption DEF Mine, File
  <2>3. TypeModel'
    <3>1. writeReq' \in Int
      BY <1>4 DEF PostprocessIo, Regained, TypeModel
    <3>2. unreach' = unreach \/ unreach' = [unreach EXCEPT ![Mine(c, cmd.n)] = TRUE]
      BY <1>4, Zenon DEF PostprocessIo, MarkUnreachable
    <3>3. unreach' \in [File -> BOOLEAN]
      BY <2>2, <3>2, Zenon DEF TypeModel
    <3> QED BY <3>1, <3>3 DEF PostprocessIo, TypeModel, lockVars
  <2>4. diffs' \in Seq(Diff)
    <3>1. CASE cmd.ok /\ IsWrite(cmd)
      <4>1. cmd \in WriteCmd
        BY <2>1, <3>1 DEF Cmd, IsWrite
      <4>2. BlockAck(PeerOf[c], cmd) \in Diff
        BY <1>1, <2>1, <4>1, NewDiffs
      <4>3. diffs' = Append(diffs, BlockAck(PeerOf[c], cmd))
        BY <1>4, <3>1 DEF PostprocessIo
      <4> HIDE DEF cmd
      <4> QED BY <4>2, <4>3, AppendProperties, Zenon DEF TypeThread
    <3>2. CASE cmd.ok /\ ~IsWrite(cmd)
      <4>1. Advance(PeerOf[c], cmd.n, ver[Mine(c, cmd.n)]) \in Diff
        BY <1>1, <2>1, NewDiffs
      <4>2. diffs' = Append(diffs, Advance(PeerOf[c], cmd.n, ver[Mine(c, cmd.n)]))
        BY <1>4, <3>2 DEF PostprocessIo
      <4> HIDE DEF cmd
      <4> QED BY <4>1, <4>2, AppendProperties, Zenon DEF TypeThread
    <3>3. CASE ~cmd.ok
      <4>1. diffs' = diffs \o UnreachableDiff(Mine(c, cmd.n))
        BY <1>4, <3>3 DEF PostprocessIo
      <4>2. UnreachableDiff(Mine(c, cmd.n)) \in Seq(Diff)
        BY <1>1, <2>1, NewDiffs
      <4> HIDE DEF cmd
      <4> QED BY <4>1, <4>2, ConcatProperties DEF TypeThread
    <3> QED BY <3>1, <3>2, <3>3
  <2>5. agenda' \in Seq(Task)
    <3> DEFINE rest == [Head(agenda) EXCEPT !.cmds = Tail(cmds)]
    <3>1. rest \in Task
      <4>1. Head(agenda) \in [k : {"reply"}, c : Conn, cmds : Seq(Cmd)]
        BY HeadTask DEF PostprocessIo, Task
      <4> QED BY <2>1, <4>1 DEF Task
    <3>2. Step("trigger", c) \in Task
      BY <1>1, NewTasks
    <3>3. \/ agenda' = <<rest>> \o Tail(agenda) \o <<>>
          \/ agenda' = <<rest>> \o Tail(agenda) \o <<Step("trigger", c)>>
      BY <1>4, Zenon DEF PostprocessIo, ThenSend
    <3> HIDE DEF rest
    <3>4. <<rest>> \o Tail(agenda) \in Seq(Task)
      BY <1>1, <3>1, ConcatProperties
    <3>5. <<>> \in Seq(Task) /\ <<Step("trigger", c)>> \in Seq(Task)
      BY <3>2
    <3> HIDE DEF c
    <3> QED BY <3>3, <3>4, <3>5, ConcatProperties
  <2> QED BY <1>2, <2>3, <2>4, <2>5, SlotsKept, TableKept, PathsKept
          DEF PostprocessIo, TypeThread, reqVars, lockVars, guardVars
<1> QED BY <1>3, <1>4, Zenon

-----------------------------------------------------------------------------
\* The block table under the operations that change it.
LinkEntry == [f : File, blocks : Seq(Block), local : SUBSET Nat]

LEMMA RemoveBlocksTable ==
    ASSUME links \in Seq(LinkEntry), BlockTable, NEW f \in File
    PROVE  LET r == RemoveBlocks(links, f)
           IN  /\ r \in Seq(LinkEntry)
               /\ \A k \in DOMAIN r : r[k].f # f /\ r[k].blocks = Blocks(r[k].f)
               /\ \A k, l \in DOMAIN r : r[k].f = r[l].f => k = l
<1> DEFINE at == Position(links, f)
<1>1. CASE at = {}
  BY <1>1 DEF RemoveBlocks, Position, BlockTable
<1>2. CASE at # {}
  <2> DEFINE k == MinOf(at)
             r == SubSeq(links, 1, k - 1) \o SubSeq(links, k + 1, Len(links))
  <2>1. k \in 1..Len(links) /\ links[k].f = f
    <3>1. at \subseteq 1..Len(links) /\ at \subseteq Nat
      BY DEF Position
    <3>2. MinOf(at) \in at
      BY <1>2, <3>1, MinOfNat
    <3> QED BY <3>1, <3>2 DEF Position
  <2> HIDE DEF k
  <2>2. /\ r \in Seq(LinkEntry) /\ Len(r) = Len(links) - 1
        /\ \A j \in 1..(Len(links) - 1) : r[j] = IF j < k THEN links[j] ELSE links[j + 1]
    BY <2>1, CutSeq, Zenon
  <2> HIDE DEF r
  <2>3. DOMAIN r = 1..(Len(links) - 1)
    BY <2>2
  <2>4. ASSUME NEW j \in DOMAIN r
        PROVE  \E i \in DOMAIN links : r[j] = links[i] /\ i # k /\ i = IF j < k THEN j ELSE j + 1
    BY <2>1, <2>2, <2>3
  <2>5. \A j \in DOMAIN r : r[j].f # f /\ r[j].blocks = Blocks(r[j].f)
    BY <2>1, <2>4 DEF BlockTable
  <2>6. \A j, l \in DOMAIN r : r[j].f = r[l].f => j = l
    BY <2>1, <2>3, <2>4 DEF BlockTable
  <2>7. RemoveBlocks(links, f) = r
    BY <1>2, Zenon DEF RemoveBlocks, r, k
  <2> QED BY <2>2, <2>5, <2>6, <2>7
<1> QED BY <1>1, <1>2

LEMMA EntryType ==
    ASSUME NEW f \in File, NEW blocks \in Seq(Block), NEW local \in SUBSET Nat
    PROVE  /\ Entry(f, blocks, local) \in LinkEntry
           /\ Entry(f, blocks, local).f = f /\ Entry(f, blocks, local).blocks = blocks
  BY DEF Entry, LinkEntry

LEMMA BlocksOfSeq ==
    ASSUME NEW n \in Name, NEW v \in Nat, v <= Len(Content[n])
    PROVE  BlocksOf(n, v) \in Seq(Block) /\ DOMAIN BlocksOf(n, v) \subseteq Nat
<1>1. Content[n] \in Seq(Seq(Block))
  BY ContentAssumption, Zenon
<1>2. CASE v = 0
  BY <1>2 DEF BlocksOf
<1>3. CASE v # 0
  <2>1. Content[n][v] \in Seq(Block)
    BY <1>1, <1>3
  <2> QED BY <1>3, <2>1 DEF BlocksOf
<1> QED BY <1>2, <1>3, Zenon

LEMMA AssignTable ==
    ASSUME TypeModel, BlockTable, NEW f \in File, NEW v \in Nat, v <= Len(Content[f[2]]),
           NEW local \in SUBSET Nat,
           ver' = [ver EXCEPT ![f] = v],
           links' = Append(RemoveBlocks(links, f), Entry(f, BlocksOf(f[2], v), local))
    PROVE  links' \in Seq(LinkEntry) /\ BlockTable'
<1> DEFINE r == RemoveBlocks(links, f)
           e == Entry(f, BlocksOf(f[2], v), local)
<1>1. /\ r \in Seq(LinkEntry)
      /\ \A k \in DOMAIN r : r[k].f # f /\ r[k].blocks = Blocks(r[k].f)
      /\ \A k, l \in DOMAIN r : r[k].f = r[l].f => k = l
  BY RemoveBlocksTable, Zenon DEF TypeModel, LinkEntry
<1>2. e \in LinkEntry
  <2>1. f[2] \in Name
    BY DEF File
  <2>2. BlocksOf(f[2], v) \in Seq(Block)
    BY <2>1, BlocksOfSeq, Zenon
  <2> QED BY <2>2, Zenon DEF Entry, LinkEntry
<1>3. links' = Append(r, e) /\ e.f = f /\ e.blocks = BlocksOf(f[2], v)
  BY DEF Entry
<1> HIDE DEF r, e
<1>4. /\ links' \in Seq(LinkEntry) /\ Len(links') = Len(r) + 1
      /\ \A k \in 1..Len(r) : links'[k] = r[k]
      /\ links'[Len(r) + 1] = e
  BY <1>1, <1>2, <1>3, AppendProperties
<1>5. DOMAIN links' = 1..(Len(r) + 1) /\ DOMAIN r = 1..Len(r) /\ Len(r) \in Nat
  BY <1>1, <1>4, LenProperties
<1>6. ASSUME NEW k \in DOMAIN links' PROVE (links[k].blocks = Blocks(links[k].f))'
  <2>1. CASE k = Len(r) + 1
    <3>1. ver'[f] = v
      BY DEF TypeModel
    <3> QED BY <1>3, <1>4, <2>1, <3>1 DEF Blocks
  <2>2. CASE k \in DOMAIN r
    <3>1. links'[k] = r[k] /\ r[k].f # f /\ r[k] \in LinkEntry
      <4>1. r[k] \in LinkEntry
        BY <1>1, <1>5, <2>2, ElementOfSeq, Zenon
      <4> QED BY <1>1, <1>4, <1>5, <2>2, <4>1, Zenon
    <3>2. r[k].f \in File
      BY <3>1 DEF LinkEntry
    <3>3. ver'[r[k].f] = ver[r[k].f]
      BY <3>1, <3>2 DEF TypeModel
    <3> QED BY <1>1, <2>2, <3>1, <3>3 DEF Blocks
  <2> QED BY <1>5, <2>1, <2>2
<1>7. ASSUME NEW k \in DOMAIN links', NEW l \in DOMAIN links', links'[k].f = links'[l].f PROVE k = l
  BY <1>1, <1>3, <1>4, <1>5, <1>7
<1> QED BY <1>4, <1>6, <1>7 DEF BlockTable

LEMMA FirstIndexNat ==
    ASSUME NEW blocks \in Seq(Block), NEW b, \E i \in DOMAIN blocks : blocks[i] = b
    PROVE  FirstIndex(blocks, b) \in DOMAIN blocks
<1> DEFINE at == {i \in DOMAIN blocks : blocks[i] = b}
<1>1. at \subseteq Nat /\ at # {}
  OBVIOUS
<1>2. MinOf(at) \in at
  <2> HIDE DEF at
  <2> QED BY <1>1, MinOfNat, Zenon
<1> QED BY <1>2 DEF FirstIndex

LEMMA MarkTable ==
    ASSUME TypeModel, BlockTable, NEW f \in File, NEW i \in DOMAIN Blocks(f), UNCHANGED ver,
           links' = MarkLocalAvailable(links, Blocks(f)[i], f)
    PROVE  links' \in Seq(LinkEntry) /\ BlockTable'
<1> DEFINE b == Blocks(f)[i]
<1>1. links \in Seq(LinkEntry) /\ DOMAIN links = 1..Len(links) /\ Len(links) \in Nat
  BY DEF TypeModel, LinkEntry
<1>2. ASSUME NEW k \in DOMAIN links
      PROVE  /\ links'[k] \in LinkEntry /\ links'[k].f = links[k].f
             /\ links'[k].blocks = links[k].blocks
  <2>1. links[k] \in LinkEntry
    BY <1>1, ElementOfSeq
  <2>2. CASE links[k].f = f
    <3>1. links[k].blocks = Blocks(f) /\ links[k].blocks \in Seq(Block)
      BY <2>1, <2>2 DEF BlockTable, LinkEntry
    <3>2. FirstIndex(links[k].blocks, b) \in Nat
      BY <3>1, FirstIndexNat
    <3>3. links'[k] = Entry(f, links[k].blocks, links[k].local \cup {FirstIndex(links[k].blocks, b)})
      BY <2>2 DEF MarkLocalAvailable
    <3> DEFINE local == links[k].local \cup {FirstIndex(links[k].blocks, b)}
    <3>4. local \in SUBSET Nat
      BY <2>1, <3>2, Zenon DEF LinkEntry
    <3> HIDE DEF local
    <3>5. links'[k] = Entry(f, links[k].blocks, local)
      BY <3>3, Zenon DEF local
    <3> DEFINE blocks == links[k].blocks
               e == Entry(f, blocks, local)
    <3>6. blocks \in Seq(Block)
      BY <3>1, Zenon
    <3> HIDE DEF blocks
    <3>7. e \in LinkEntry /\ e.f = f /\ e.blocks = blocks
      BY <3>4, <3>6, EntryType, Zenon
    <3> HIDE DEF e
    <3> QED BY <2>2, <3>5, <3>7, Zenon DEF blocks, e
  <2>3. CASE links[k].f # f
    BY <2>1, <2>3 DEF MarkLocalAvailable
  <2> QED BY <2>2, <2>3, Zenon
<1>3. links' = [k \in 1..Len(links) |-> links'[k]] /\ DOMAIN links' = DOMAIN links
  BY <1>1 DEF MarkLocalAvailable
<1>4. links' \in Seq(LinkEntry)
  BY <1>1, <1>2, <1>3, IsASeq
<1>5. BlockTable'
  BY <1>2, <1>3 DEF BlockTable, Blocks
<1> QED BY <1>4, <1>5

-----------------------------------------------------------------------------
\* One diff of a model update.
LEMMA ApplyOne ==
    ASSUME Inv, NEW d \in Diff, UNCHANGED <<locked, paths, writeReq, iterOf>>,
           \/ d.t = "block_ack" /\ ApplyBlockAck(d)
           \/ d.t = "advance" /\ ApplyAdvance(d)
           \/ d.t = "update_folder" /\ ApplyUpdateFolder(d)
           \/ d.t = "mark_reachable" /\ MarkUnreachable(<<d.p, d.n>>)
              /\ UNCHANGED <<ver, have, links, syncs, queue, failed>>
           \/ d.t = "synchronization_start" /\ ApplySync(1)
           \/ d.t = "synchronization_finish" /\ ApplySync(-1)
    PROVE  /\ TypeModel' /\ BlockTable' /\ queue' \in [Conn -> SUBSET Name]
           /\ "path_lock" \in failed' => "path_lock" \in failed
<1> USE DEF Inv, TypeOK
<1>1. CASE d.t = "block_ack" /\ ApplyBlockAck(d)
  <2> DEFINE f == <<d.p, d.n>>
  <2>1. f \in File /\ d.i \in Nat
    BY <1>1, Zenon DEF Diff, File
  <2>2. CASE d.i \notin DOMAIN Blocks(f)
    <3>1. UNCHANGED <<ver, have, links, unreach, syncs, queue>> /\ failed' = failed \cup {"block_index"}
      BY <1>1, <2>2, Zenon DEF ApplyBlockAck
    <3>2. BlockTable' /\ queue' \in [Conn -> SUBSET Name]
      BY <3>1, TableKept, Zenon DEF TypeFiles
    <3>3. "path_lock" \in failed' => "path_lock" \in failed
      BY <3>1
    <3> QED BY <3>1, <3>2, <3>3, Zenon DEF TypeModel
  <2>3. CASE d.i \in DOMAIN Blocks(f)
    <3>1. have' \in [File -> SUBSET Nat]
      <4>1. have' = [have EXCEPT ![f] = @ \cup {d.i}]
        BY <1>1, <2>3, Zenon DEF ApplyBlockAck
      <4> HIDE DEF f
      <4> QED BY <2>1, <4>1 DEF TypeModel
    <3>2. UNCHANGED ver /\ (UNCHANGED links \/ links' = MarkLocalAvailable(links, Blocks(f)[d.i], f))
      BY <1>1, <2>3, Zenon DEF ApplyBlockAck
    <3>3. links' \in Seq(LinkEntry) /\ BlockTable'
      BY <2>1, <2>3, <3>2, MarkTable, TableKept, Zenon DEF TypeModel, LinkEntry
    <3> QED BY <1>1, <2>3, <3>1, <3>3, Zenon DEF ApplyBlockAck, TypeModel, TypeFiles, LinkEntry
  <2> QED BY <2>2, <2>3, Zenon
<1>2. CASE d.t = "advance" /\ ApplyAdvance(d)
  <2> DEFINE f == Local(d.n)
  <2>1. f \in File /\ f[2] = d.n /\ d.v \in Nat /\ d.v <= Len(Content[d.n])
    BY <1>2, Zenon DEF Diff, File, Local
  <2>2. DOMAIN BlocksOf(d.n, d.v) \subseteq Nat
    <3>1. d.n \in Name
      BY <1>2, Zenon DEF Diff
    <3> QED BY <2>1, <3>1, BlocksOfSeq, Zenon
  <2>3. /\ ver' = [ver EXCEPT ![f] = d.v]
        /\ links' = Append(RemoveBlocks(links, f), Entry(f, BlocksOf(d.n, d.v), DOMAIN BlocksOf(d.n, d.v)))
    BY <1>2 DEF ApplyAdvance, AssignLocalBlocks
  <2>4. links' \in Seq(LinkEntry) /\ BlockTable'
    <3> HIDE DEF f
    <3> QED BY <2>1, <2>2, <2>3, AssignTable, Zenon
  <2>5. ver' \in [File -> Nat] /\ \A g \in File : ver'[g] <= Len(Content[g[2]])
    <3> HIDE DEF f
    <3> QED BY <2>1, <2>3, Zenon DEF TypeModel
  <2>6. have' \in [File -> SUBSET Nat]
    BY <1>2, <2>1, <2>2, Zenon DEF ApplyAdvance, TypeModel
  <2> QED BY <1>2, <2>4, <2>5, <2>6, Zenon DEF ApplyAdvance, TypeModel, TypeFiles, LinkEntry
<1>3. CASE d.t = "update_folder" /\ ApplyUpdateFolder(d)
  <2> DEFINE f == <<d.p, d.n>>
             new == BlocksOf(d.n, d.v)
             local == {i \in DOMAIN new : IsLocal(links, new[i])}
  <2>1. f \in File /\ f[2] = d.n /\ d.v \in Nat /\ d.v <= Len(Content[d.n]) /\ d.n \in Name
    BY <1>3, Zenon DEF Diff, File
  <2>2. DOMAIN new \subseteq Nat
    BY <2>1, BlocksOfSeq, Zenon
  <2>3. /\ ver' = [ver EXCEPT ![f] = d.v]
        /\ links' = Append(RemoveBlocks(links, f), Entry(f, new, local))
    BY <1>3 DEF ApplyUpdateFolder, AssignBlocks
  <2>4. local \in SUBSET Nat /\ CarriedOver(links, f, new) \in SUBSET Nat
    BY <2>2 DEF CarriedOver
  <2>5. links' \in Seq(LinkEntry) /\ BlockTable'
    <3> HIDE DEF f, local
    <3> QED BY <2>1, <2>3, <2>4, AssignTable, Zenon
  <2>6. ver' \in [File -> Nat] /\ \A g \in File : ver'[g] <= Len(Content[g[2]])
    <3> HIDE DEF f
    <3> QED BY <2>1, <2>3, Zenon DEF TypeModel
  <2>7. have' \in [File -> SUBSET Nat]
    <3>1. have' = [have EXCEPT ![f] = CarriedOver(links, f, new)]
      BY <1>3 DEF ApplyUpdateFolder
    <3> HIDE DEF f, new
    <3> QED BY <2>1, <2>4, <3>1, Zenon DEF TypeModel
  <2>8. queue' \in [Conn -> SUBSET Name]
    BY <1>3, <2>1, Zenon DEF ApplyUpdateFolder, Upserted, TypeFiles
  <2> QED BY <1>3, <2>5, <2>6, <2>7, <2>8, Zenon DEF ApplyUpdateFolder, TypeModel, LinkEntry
<1>4. CASE d.t = "mark_reachable" /\ MarkUnreachable(<<d.p, d.n>>)
              /\ UNCHANGED <<ver, have, links, syncs, queue, failed>>
  <2>1. <<d.p, d.n>> \in File
    BY <1>4, Zenon DEF Diff, File
  <2> QED BY <1>4, <2>1, TableKept DEF MarkUnreachable, TypeModel, TypeFiles
<1>5. CASE ApplySync(1) \/ ApplySync(-1)
  <2>1. syncs' \in Int
    BY <1>5 DEF ApplySync, TypeModel
  <2>2. UNCHANGED <<ver, have, links, unreach, queue>>
    BY <1>5, Zenon DEF ApplySync, modelVars
  <2>3. failed' = failed \/ failed' = failed \cup {"adjust_synchronization"}
    BY <1>5, Zenon DEF ApplySync
  <2>4. "path_lock" \in failed' => "path_lock" \in failed
    BY <2>3
  <2>5. BlockTable' /\ queue' \in [Conn -> SUBSET Name]
    BY <2>2, TableKept, Zenon DEF TypeFiles
  <2> QED BY <2>1, <2>2, <2>4, <2>5, Zenon DEF TypeModel
<1> QED BY <1>1, <1>2, <1>3, <1>4, <1>5

LEMMA VisitsTasks ==
    ASSUME NEW who \in Seq(Conn), NEW from \in Conn, NEW ds \in Seq(Diff)
    PROVE  Visits(who, from, ds) \in Seq(Task)
<1>1. \A k \in 1..Len(who) : Visit(who[k], from, ds) \in Task
  BY NewTasks, ElementOfSeq
<1>2. Visits(who, from, ds) = [k \in 1..Len(who) |-> Visit(who[k], from, ds)] /\ Len(who) \in Nat
  BY DEF Visits
<1> QED BY <1>1, <1>2, IsASeq

LEMMA ApplyDiffInv ==
    ASSUME Inv, ApplyDiff
    PROVE  Inv'
<1> USE DEF Inv, TypeOK
<1> DEFINE task == Head(agenda)
<1>1. /\ task \in Task /\ task.k = "apply" /\ Tail(agenda) \in Seq(Task)
      /\ task.from \in Conn /\ task.rest \in Seq(Diff) /\ task.ds \in Seq(Diff)
  BY HeadTask, TaskFields DEF ApplyDiff
<1>2. TypeRequests' /\ TypeFs'
  BY RequestsKept, FsKept DEF ApplyDiff
<1>3. CASE task.rest = <<>>
  <2>1. Visits(subs, task.from, task.ds) \in Seq(Task)
    BY <1>1, VisitsTasks, Zenon DEF TypeRequests
  <2>2. agenda' = Visits(subs, task.from, task.ds) \o Tail(agenda)
    BY <1>3, Zenon DEF ApplyDiff, Then
  <2>3. agenda' \in Seq(Task)
    <3> HIDE DEF task
    <3> QED BY <1>1, <2>1, <2>2, ConcatProperties, Zenon
  <2>4. UNCHANGED <<modelVars, syncs, queue, failed>>
    BY <1>3 DEF ApplyDiff
  <2>5. TypeModel' /\ TypeFiles'
    BY <2>4, ModelKept, FilesKept DEF ApplyDiff, countVars, fileVars
  <2> QED BY <1>2, <2>3, <2>4, <2>5, SlotsKept, TableKept, PathsKept
          DEF ApplyDiff, TypeThread, ctxVars, modelVars, reqVars, lockVars, guardVars
<1>4. CASE task.rest # <<>>
  <2> DEFINE d == Head(task.rest)
             rest == [task EXCEPT !.rest = Tail(task.rest)]
  <2>1. d \in Diff /\ Tail(task.rest) \in Seq(Diff)
    BY <1>1, <1>4, HeadTailProperties
  <2>2. rest \in Task
    <3>1. task \in [k : {"apply"}, from : Conn, rest : Seq(Diff), ds : Seq(Diff)]
      BY <1>1 DEF Task
    <3> QED BY <2>1, <3>1, Zenon DEF Task
  <2>3. agenda' = <<rest>> \o Tail(agenda)
    BY <1>4, Zenon DEF ApplyDiff, Then
  <2>4. agenda' \in Seq(Task)
    <3> HIDE DEF rest
    <3> QED BY <1>1, <2>2, <2>3, ConcatProperties
  <2>5. /\ TypeModel' /\ BlockTable' /\ queue' \in [Conn -> SUBSET Name]
        /\ "path_lock" \in failed' => "path_lock" \in failed
    <3>1. \/ d.t = "block_ack" /\ ApplyBlockAck(d)
          \/ d.t = "advance" /\ ApplyAdvance(d)
          \/ d.t = "update_folder" /\ ApplyUpdateFolder(d)
          \/ d.t = "mark_reachable" /\ MarkUnreachable(<<d.p, d.n>>)
             /\ UNCHANGED <<ver, have, links, syncs, queue, failed>>
          \/ d.t = "synchronization_start" /\ ApplySync(1)
          \/ d.t = "synchronization_finish" /\ ApplySync(-1)
      BY <1>4, Zenon DEF ApplyDiff
    <3>2. UNCHANGED <<locked, paths, writeReq, iterOf>>
      BY DEF ApplyDiff, lockVars
    <3> HIDE DEF d
    <3> QED BY <2>1, <3>1, <3>2, ApplyOne
  <2>6. TypeFiles'
    BY <2>5 DEF ApplyDiff, TypeFiles, guardVars, fetchVars
  <2> QED BY <1>2, <2>4, <2>5, <2>6, SlotsKept, PathsKept
          DEF ApplyDiff, TypeThread, ctxVars, reqVars, lockVars, guardVars
<1> QED BY <1>3, <1>4

LEMMA VisitDiffInv ==
    ASSUME Inv, VisitDiff
    PROVE  Inv'
<1> USE DEF Inv, TypeOK
<1> DEFINE task == Head(agenda)
           c == Running
<1>1. /\ task \in Task /\ task.k = "visit" /\ Tail(agenda) \in Seq(Task)
      /\ c \in Conn /\ task.from \in Conn /\ task.ds \in Seq(Diff)
  BY HeadTask, TaskFields DEF VisitDiff, Running
<1>2. TypeModel' /\ TypeRequests' /\ TypeFs'
  BY ModelKept, RequestsKept, FsKept DEF VisitDiff
<1>3. SlotDiscipline' /\ BlockTable' /\ PathExclusion'
  BY SlotsKept, TableKept, PathsKept DEF VisitDiff, reqVars, modelVars, lockVars
<1>4. SUFFICES agenda' \in Seq(Task) /\ io' \in Seq(Cmd) /\ finished' \in [Conn -> SUBSET Name]
  BY <1>2, <1>3, <1>4 DEF VisitDiff, TypeFiles, TypeThread, fileVars, fetchVars
<1>5. CASE task.ds = <<>>
  <2>1. Step("pull", c) \in Task /\ Step("flush", c) \in Task
    BY <1>1, NewTasks
  <2>2. agenda' = <<Step("pull", c), Step("flush", c)>> \o Tail(agenda)
    BY <1>5 DEF VisitDiff, Then
  <2>3. agenda' \in Seq(Task)
    BY <1>1, <2>1, <2>2, ConcatProperties
  <2> QED BY <1>5, <2>3 DEF VisitDiff, TypeThread, TypeFiles
<1>6. CASE task.ds # <<>>
  <2> DEFINE d == Head(task.ds)
             left == [task EXCEPT !.ds = Tail(task.ds)]
  <2>1. d \in Diff /\ Tail(task.ds) \in Seq(Diff)
    BY <1>1, <1>6, HeadTailProperties
  <2>2. left \in Task /\ <<left>> \in Seq(Task)
    <3>1. task \in [k : {"visit"}, c : Conn, from : Conn, ds : Seq(Diff)]
      BY <1>1 DEF Task
    <3>2. left \in Task
      BY <2>1, <3>1 DEF Task
    <3> HIDE DEF left
    <3> QED BY <3>2
  <2> HIDE DEF left
  <2>3. CASE d.t = "block_ack" /\ d.p = PeerOf[c]
    <3>1. d.n \in Name /\ d.b \in Block
      BY <2>1, <2>3 DEF Diff
    <3>2. VisitBlockAck(c, d, <<left>>)
      BY <1>6, <2>3, Zenon DEF VisitDiff, left
    <3> HIDE DEF d, c
    <3>3. finished' \in [Conn -> SUBSET Name]
      BY <1>1, <3>1, <3>2, Zenon DEF VisitBlockAck, TypeFiles
    <3>4. io' \in Seq(Cmd)
      <4>1. Mine(c, d.n) \in File
        BY <1>1, <3>1, ConnAssumption DEF Mine, File
      <4>2. FileCmd("finish", d.n, Len(Blocks(Mine(c, d.n)))) \in Cmd
        <5>1. Len(Blocks(Mine(c, d.n))) \in Nat
          BY <4>1, ContentAssumption DEF TypeModel, Blocks, BlocksOf, File
        <5> QED BY <3>1, <5>1 DEF FileCmd, Cmd
      <4>3. io' = io \/ io' = Append(io, FileCmd("finish", d.n, Len(Blocks(Mine(c, d.n)))))
        BY <3>2, Zenon DEF VisitBlockAck
      <4>4. Append(io, FileCmd("finish", d.n, Len(Blocks(Mine(c, d.n))))) \in Seq(Cmd)
        BY <4>2, AppendProperties, Zenon DEF TypeThread
      <4> QED BY <4>3, <4>4, Zenon DEF TypeThread
    <3>5. agenda' \in Seq(Task)
      <4>1. BlockStep("release", c, d.b) \in Task /\ BlockStep("unlock", c, d.b) \in Task
        BY <1>1, <3>1, NewTasks
      <4>2. UnlockAcked(c, d) \in Seq(Task)
        BY <4>1 DEF UnlockAcked
      <4>3. agenda' = <<BlockStep("release", c, d.b)>> \o UnlockAcked(c, d) \o <<left>> \o Tail(agenda)
        BY <3>2 DEF VisitBlockAck, Then
      <4>4. <<BlockStep("release", c, d.b)>> \in Seq(Task)
        BY <4>1
      <4> QED BY <1>1, <2>2, <4>2, <4>3, <4>4, ConcatProperties
    <3> QED BY <3>3, <3>4, <3>5
  <2>4. CASE ~(d.t = "block_ack" /\ d.p = PeerOf[c])
    <3> DEFINE cancel == IF Cancels(c, task.from, d) THEN <<CancelSync(c, d.n)>> ELSE <<>>
    <3>1. agenda' = cancel \o <<left>> \o Tail(agenda) /\ UNCHANGED <<finished, io>>
      BY <1>6, <2>4, Zenon DEF VisitDiff, Then, left
    <3>2. cancel \in Seq(Task)
      <4>1. ASSUME Cancels(c, task.from, d) PROVE CancelSync(c, d.n) \in Task
        <5>1. d.n \in Name
          BY <2>1, <4>1 DEF Cancels, Diff
        <5> QED BY <1>1, <5>1, NewTasks, Zenon
      <4>2. ASSUME NEW t \in Task PROVE <<t>> \in Seq(Task)
        OBVIOUS
      <4>3. <<>> \in Seq(Task)
        OBVIOUS
      <4> QED BY <4>1, <4>2, <4>3, Zenon
    <3> HIDE DEF cancel
    <3> QED BY <1>1, <2>2, <3>1, <3>2, ConcatProperties, Zenon DEF TypeThread, TypeFiles
  <2> QED BY <2>3, <2>4
<1> QED BY <1>5, <1>6

-----------------------------------------------------------------------------
\* Requests: below the limit a slot is free, and the search finds it.
LEMMA OccupiedFinite ==
    ASSUME NEW c \in Conn
    PROVE  /\ IsFiniteSet(Occupied(c)) /\ IsFiniteSet(Slot)
           /\ Occupied(c) \subseteq Slot /\ Cardinality(Slot) = MaxRequested
           /\ Cardinality(Occupied(c)) \in Nat
<1>1. IsFiniteSet(Slot) /\ Cardinality(Slot) = MaxRequested
  BY RequestAssumption, FS_Interval DEF Slot
<1>2. Occupied(c) \subseteq Slot
  BY DEF Occupied
<1> QED BY <1>1, <1>2, FS_Subset, FS_CardinalityType

LEMMA FreeSlotFound ==
    ASSUME TypeRequests, SlotDiscipline, NEW c \in Conn, rx[c] < MaxRequested
    PROVE  FreeSlot(c) \in Slot /\ slots[c][FreeSlot(c)] = None
<1> DEFINE At(k) == Wrap(next[c] + k)
           free == {k \in Slot : slots[c][At(k)] = None}
<1>1. next[c] \in Slot /\ next[c] \in Nat /\ MaxRequested \in Nat \ {0}
  BY RequestAssumption DEF TypeRequests, Slot
<1>2. PICK s \in Slot : slots[c][s] = None
  <2>1. Occupied(c) # Slot
    BY OccupiedFinite, RequestAssumption DEF SlotDiscipline
  <2> QED BY <2>1, Zenon DEF Occupied
<1>3. \A k \in Slot : At(k) \in Slot
  BY <1>1 DEF Wrap, Slot
<1>4. \E k \in Slot : At(k) = s
  <2>1. CASE s >= next[c]
    <3>1. s - next[c] \in Slot /\ At(s - next[c]) = s
      BY <1>1, <2>1 DEF Slot, Wrap
    <3> QED BY <3>1
  <2>2. CASE s < next[c]
    <3>1. s - next[c] + MaxRequested \in Slot /\ At(s - next[c] + MaxRequested) = s
      BY <1>1, <2>2 DEF Slot, Wrap
    <3> QED BY <3>1
  <2> QED BY <1>1, <2>1, <2>2 DEF Slot
<1>5. free # {} /\ free \subseteq Nat /\ free \subseteq Slot
  BY <1>2, <1>4 DEF Slot
<1>6. MinOf(free) \in free
  <2> HIDE DEF free
  <2> QED BY <1>5, MinOfNat, Zenon
<1>7. FreeSlot(c) = At(MinOf(free))
  BY DEF FreeSlot
<1> QED BY <1>3, <1>6, <1>7, Zenon

LEMMA OneRequestMore ==
    ASSUME TypeRequests, SlotDiscipline, NEW c \in Conn, NEW id \in Slot, NEW r,
           slots[c][id] = None, r # None, rx[c] < MaxRequested,
           slots' = [slots EXCEPT ![c][id] = r], rx' = [rx EXCEPT ![c] = @ + 1]
    PROVE  SlotDiscipline'
<1>1. Occupied(c)' = Occupied(c) \cup {id} /\ id \notin Occupied(c)
  BY DEF Occupied, TypeRequests
<1>2. Cardinality(Occupied(c)') = Cardinality(Occupied(c)) + 1
  BY <1>1, OccupiedFinite, FS_AddElement, Zenon
<1>3. \A d \in Conn : d # c => rx'[d] = rx[d] /\ Occupied(d)' = Occupied(d)
  BY DEF Occupied, TypeRequests
<1>4. rx'[c] = rx[c] + 1
  BY DEF TypeRequests
<1> QED BY <1>2, <1>3, <1>4, OccupiedFinite, RequestAssumption DEF SlotDiscipline

LEMMA OneRequestLess ==
    ASSUME TypeRequests, SlotDiscipline, NEW c \in Conn, NEW id \in Slot,
           slots[c][id] # None,
           slots' = [slots EXCEPT ![c][id] = None], rx' = [rx EXCEPT ![c] = @ - 1]
    PROVE  SlotDiscipline'
<1>1. Occupied(c)' = Occupied(c) \ {id} /\ id \in Occupied(c)
  BY DEF Occupied, TypeRequests
<1>2. Cardinality(Occupied(c)') = Cardinality(Occupied(c)) - 1
  BY <1>1, OccupiedFinite, FS_RemoveElement, Zenon
<1>3. \A d \in Conn : d # c => rx'[d] = rx[d] /\ Occupied(d)' = Occupied(d)
  BY DEF Occupied, TypeRequests
<1>4. rx'[c] = rx[c] - 1
  BY DEF TypeRequests
<1> QED BY <1>2, <1>3, <1>4, OccupiedFinite, RequestAssumption DEF SlotDiscipline

\* Writes: the pool and the queue.
LEMMA PushCheckedType ==
    ASSUME TypeModel, TypeFiles, TypeThread, NEW c \in Conn, NEW cmd \in WriteCmd, PushChecked(c, cmd)
    PROVE  io' \in Seq(Cmd) /\ wqueue' \in [Conn -> Seq(WriteCmd)] /\ writeReq' \in Int
<1>1. Append(io, cmd) \in Seq(Cmd)
  BY AppendProperties, Zenon DEF TypeThread, Cmd
<1>2. Append(wqueue[c], cmd) \in Seq(WriteCmd)
  BY AppendProperties, Zenon DEF TypeFiles
<1>3. io' = io \/ io' = Append(io, cmd)
  BY Zenon DEF PushChecked
<1>4. wqueue' = wqueue \/ wqueue' = [wqueue EXCEPT ![c] = Append(wqueue[c], cmd)]
  BY Zenon DEF PushChecked
<1>5. writeReq' \in Int
  BY DEF PushChecked, TypeModel
<1>6. io' \in Seq(Cmd)
  BY <1>1, <1>3, Zenon DEF TypeThread
<1>7. wqueue' \in [Conn -> Seq(WriteCmd)]
  BY <1>2, <1>4, Zenon DEF TypeFiles
<1> QED BY <1>5, <1>6, <1>7

LEMMA LocalFileType ==
    ASSUME TypeModel, NEW b, IsLocal(links, b)
    PROVE  LocalFile(links, b).f \in File /\ LocalFile(links, b).i \in Nat
<1> DEFINE at == {k \in DOMAIN links : Marked(links[k], b) # {}}
           e == links[MinOf(at)]
<1>0. links \in Seq(LinkEntry) /\ DOMAIN links = 1..Len(links)
  BY DEF TypeModel, LinkEntry
<1>1. at \subseteq Nat /\ at # {}
  <2>1. at \subseteq Nat
    BY <1>0
  <2> QED BY <2>1 DEF IsLocal
<1>2. MinOf(at) \in at
  <2> HIDE DEF at
  <2> QED BY <1>1, MinOfNat, Zenon
<1>3. e \in LinkEntry /\ Marked(e, b) # {}
  <2>1. MinOf(at) \in 1..Len(links) /\ Marked(e, b) # {}
    BY <1>0, <1>2, Zenon
  <2> HIDE DEF at
  <2> QED BY <1>0, <2>1, ElementOfSeq
<1> HIDE DEF e
<1>4. Marked(e, b) \subseteq Nat /\ e.f \in File
  BY <1>3 DEF Marked, LinkEntry
<1>5. MinOf(Marked(e, b)) \in Nat
  BY <1>3, <1>4, MinOfNat
<1> QED BY <1>4, <1>5 DEF LocalFile, e

\* acquire_block
LEMMA AcquireBlockType ==
    ASSUME TypeFiles, TypeThread, NEW c \in Conn, NEW b \in Block, AcquireBlock(c, b)
    PROVE  /\ fetching' \in [Conn -> [Block -> Nat]] /\ sync' \in [Conn -> {"absent", "idle", "active"}]
           /\ diffs' \in Seq(Diff)
<1>1. fetching' \in [Conn -> [Block -> Nat]]
  BY DEF AcquireBlock, TypeFiles
<1>2. sync' \in [Conn -> {"absent", "idle", "active"}]
  BY DEF AcquireBlock, TypeFiles
<1>3. SyncDiff("synchronization_start") \in Diff
  BY DEF SyncDiff, Diff
<1>4. Append(diffs, SyncDiff("synchronization_start")) \in Seq(Diff)
  BY <1>3, AppendProperties DEF TypeThread
<1>5. diffs' = diffs \/ diffs' = Append(diffs, SyncDiff("synchronization_start"))
  BY Zenon DEF AcquireBlock
<1> QED BY <1>1, <1>2, <1>4, <1>5, Zenon DEF TypeThread

LEMMA PullBlockInv ==
    ASSUME Inv, PullBlock
    PROVE  Inv'
<1> USE DEF Inv, TypeOK
<1> DEFINE c == Running
           n == iter[c].n
           i == iter[c].i
           f == Mine(c, n)
           b == Blocks(f)[i]
           r == [n |-> n, i |-> i, b |-> b, v |-> ver[f]]
<1>1. c \in Conn
  <2>1. Head_("pull")
    BY DEF PullBlock
  <2> QED BY <2>1, PullsFor, Zenon
<1>2. iter[c] \in Iterator /\ i # 0 /\ ver[f] = iter[c].v /\ rx[c] < MaxRequested
  BY <1>1 DEF PullBlock, CanPullMore, IterValid, TypeFiles
<1>3. n \in Name /\ i \in Nat /\ i <= Len(BlocksOf(n, ver[f])) /\ ver[f] <= Len(Content[n]) /\ ver[f] \in Nat
  BY <1>2 DEF Iterator
<1>4. f \in File /\ f[2] = n
  BY <1>1, <1>3, ConnAssumption DEF Mine, File
<1>5. Blocks(f) = BlocksOf(n, ver[f]) /\ Blocks(f) \in Seq(Block) /\ Len(Blocks(f)) \in Nat
  <2> HIDE DEF n, f
  <2>1. Blocks(f) = BlocksOf(n, ver[f])
    BY <1>4, Zenon DEF Blocks
  <2>2. BlocksOf(n, ver[f]) \in Seq(Block)
    BY <1>3, BlocksOfSeq, Zenon
  <2> QED BY <2>1, <2>2, LenProperties, Zenon
<1>6. i \in DOMAIN Blocks(f) /\ b \in Block
  <2> HIDE DEF n, i, f
  <2> DEFINE blocks == Blocks(f)
  <2>1. blocks \in Seq(Block) /\ i \in Nat /\ i # 0 /\ i <= Len(blocks)
    BY <1>2, <1>3, <1>5, Zenon
  <2> HIDE DEF blocks
  <2>2. i \in DOMAIN blocks /\ i \in 1..Len(blocks)
    BY <2>1
  <2>3. blocks[i] \in Block
    BY <2>1, <2>2, ElementOfSeq, Zenon
  <2> QED BY <2>2, <2>3, Zenon DEF blocks
<1>7. r \in Req /\ r # None
  <2> HIDE DEF n, i, f, b
  <2>1. b = BlocksOf(n, ver[f])[i] /\ i \in DOMAIN BlocksOf(n, ver[f])
    BY <1>5, <1>6, Zenon DEF b
  <2>2. r \in Req
    BY <1>3, <1>6, <2>1 DEF Req
  <2> HIDE DEF r
  <2> QED BY <2>2, NoneAssumption, Zenon
<1>8. iter' \in [Conn -> Iterator \cup {None}]
  <2> DEFINE x == NextIndex(f, i + 1)
  <2>1. [n |-> n, i |-> x, v |-> ver[f]] \in Iterator
    <3> HIDE DEF n, i, c, f
    <3>1. i + 1 \in Nat
      BY <1>3
    <3> USE DEF f
    <3> QED BY <1>1, <1>3, <3>1, IteratorRange
  <2>2. [iter[c] EXCEPT !.i = x] = [n |-> n, i |-> x, v |-> ver[f]]
    BY <1>2 DEF Iterator
  <2>3. iter' = [iter EXCEPT ![c] = [iter[c] EXCEPT !.i = x]]
    BY DEF PullBlock
  <2> HIDE DEF x
  <2> QED BY <1>1, <2>1, <2>2, <2>3 DEF TypeFiles
<1>9. /\ UNCHANGED <<modelVars, paths, syncs, iterOf, lifeVars, queue, ready, guardVars>>
      /\ UNCHANGED <<resVars, agenda, inner, failed, fsVars, diskVars>>
  BY DEF PullBlock
<1>10. TypeFs' /\ BlockTable' /\ PathExclusion'
  BY <1>9, FsKept, TableKept, PathsKept DEF modelVars, guardVars
<1> HIDE DEF n, i, f, b, r
<1>11. CASE b \in locked
  <2>1. postponed' = [postponed EXCEPT ![c] = @ \cup {<<b, n>>}]
    BY <1>11 DEF PullBlock, b, n, f, i
  <2>2. UNCHANGED <<locked, reqVars, fetchVars, writeReq, wqueue, io, diffs>>
    BY <1>11 DEF PullBlock, b, n, f, i
  <2>3. TypeModel' /\ TypeRequests' /\ TypeThread' /\ SlotDiscipline'
    BY <1>9, <2>2, ModelKept, RequestsKept, SlotsKept DEF lockVars, countVars, reqVars, TypeThread
  <2>4. TypeFiles'
    <3>1. <<b, n>> \in Block \X Name
      BY <1>3, <1>6, Zenon
    <3>2. postponed' \in [Conn -> SUBSET (Block \X Name)]
      BY <1>1, <2>1, <3>1, Zenon DEF TypeFiles
    <3> QED BY <1>8, <1>9, <2>2, <3>2, Zenon DEF TypeFiles, guardVars, fetchVars
  <2> QED BY <1>10, <2>3, <2>4
<1>12. CASE b \notin locked /\ ~peer[c]
  <2>1. UNCHANGED <<postponed, locked, reqVars, fetchVars, writeReq, wqueue, io, diffs>>
    BY <1>12 DEF PullBlock, b, n, f, i
  <2>2. TypeModel' /\ TypeRequests' /\ TypeThread' /\ SlotDiscipline'
    BY <1>9, <2>1, ModelKept, RequestsKept, SlotsKept DEF lockVars, countVars, reqVars, TypeThread
  <2>3. TypeFiles'
    BY <1>8, <1>9, <2>1 DEF TypeFiles, guardVars, fetchVars
  <2> QED BY <1>10, <2>2, <2>3
<1>13. CASE b \notin locked /\ peer[c] /\ IsLocal(links, b)
  <2>1. /\ AcquireBlock(c, b) /\ CloneBlock(c, n, i, b)
        /\ UNCHANGED <<postponed, locked, reqVars>>
    BY <1>13 DEF PullBlock, b, n, f, i
  <2> DEFINE src == LocalFile(links, b)
             cmd == Clone(n, i, b, Len(Blocks(f)), src.f[2], src.i)
  <2>2. cmd \in WriteCmd
    <3>1. src.f[2] \in Name /\ src.i \in Nat
      BY <1>13, LocalFileType, Zenon DEF File
    <3> QED BY <1>3, <1>5, <1>6, <3>1, Zenon DEF Clone, WriteCmd
  <2>3. PushChecked(c, cmd)
    BY <2>1, Zenon DEF CloneBlock, f
  <2> HIDE DEF cmd
  <2>4. io' \in Seq(Cmd) /\ wqueue' \in [Conn -> Seq(WriteCmd)] /\ writeReq' \in Int
    BY <1>1, <2>2, <2>3, PushCheckedType
  <2>5. /\ fetching' \in [Conn -> [Block -> Nat]] /\ sync' \in [Conn -> {"absent", "idle", "active"}]
        /\ diffs' \in Seq(Diff)
    BY <1>1, <1>6, <2>1, AcquireBlockType
  <2>6. TypeModel' /\ TypeRequests' /\ SlotDiscipline'
    BY <1>9, <2>1, <2>4, RequestsKept, SlotsKept, Zenon DEF modelVars, reqVars, TypeModel
  <2>7. TypeFiles' /\ TypeThread'
    BY <1>8, <1>9, <2>1, <2>4, <2>5, Zenon DEF TypeFiles, TypeThread, guardVars
  <2> QED BY <1>10, <2>6, <2>7
<1>14. CASE b \notin locked /\ peer[c] /\ ~IsLocal(links, b)
  <2>1. /\ AcquireBlock(c, b) /\ RequestBlock(c, n, i, b)
        /\ UNCHANGED <<postponed, writeReq, wqueue, io>>
    BY <1>14 DEF PullBlock, b, n, f, i
  <2> DEFINE id == FreeSlot(c)
  <2>2. id \in Slot /\ slots[c][id] = None
    BY <1>1, <1>2, FreeSlotFound
  <2>3. /\ locked' = locked \cup {b}
        /\ slots' = [slots EXCEPT ![c][id] = r]
        /\ next' = [next EXCEPT ![c] = Wrap(id + 1)]
        /\ rx' = [rx EXCEPT ![c] = @ + 1]
        /\ pool' = [pool EXCEPT ![c] = @ - 1]
    BY <2>1 DEF RequestBlock, r, f
  <2> HIDE DEF id, c
  <2>4. Wrap(id + 1) \in Slot
    BY <2>2, RequestAssumption DEF Wrap, Slot
  <2>5. TypeRequests'
    <3>1. slots' \in [Conn -> [Slot -> Req \cup {None}]]
      BY <1>1, <1>7, <2>2, <2>3 DEF TypeRequests
    <3>2. next' \in [Conn -> Slot] /\ rx' \in [Conn -> Int] /\ pool' \in [Conn -> Int]
      BY <1>1, <2>3, <2>4 DEF TypeRequests
    <3> QED BY <1>9, <3>1, <3>2 DEF TypeRequests, lifeVars, resVars
  <2>6. SlotDiscipline'
    BY <1>1, <1>2, <1>7, <2>2, <2>3, OneRequestMore, Zenon
  <2>7. /\ fetching' \in [Conn -> [Block -> Nat]] /\ sync' \in [Conn -> {"absent", "idle", "active"}]
        /\ diffs' \in Seq(Diff)
    BY <1>1, <1>6, <2>1, AcquireBlockType
  <2>8. TypeModel'
    BY <1>6, <1>9, <2>1, <2>3, Zenon DEF modelVars, TypeModel
  <2>9. TypeFiles' /\ TypeThread'
    BY <1>8, <1>9, <2>1, <2>7, Zenon DEF TypeFiles, TypeThread, guardVars
  <2> QED BY <1>10, <2>5, <2>6, <2>8, <2>9
<1> QED BY <1>11, <1>12, <1>13, <1>14

\* pull_next takes a guard only of a path that nobody has locked.
LEMMA TakeGuardPaths ==
    ASSUME TypeModel, TypeFiles, PathExclusion, NEW c \in Conn, NEW n \in Name, n \notin paths, TakeGuard(c, n)
    PROVE  PathExclusion' /\ guards' \in [Conn -> SUBSET Name] /\ paths' \subseteq Name
<1>1. /\ guards' = [guards EXCEPT ![c] = @ \cup {n}] /\ paths' = paths \cup {n} /\ failed' = failed
  BY DEF TakeGuard
<1>2. \A d \in Conn : guards'[d] = IF d = c THEN guards[c] \cup {n} ELSE guards[d]
  BY <1>1 DEF TypeFiles
<1>3. paths' = UNION {guards'[d] : d \in Conn}
  <2>1. ASSUME NEW m \in paths' PROVE \E d \in Conn : m \in guards'[d]
    <3>1. CASE m = n
      BY <1>2, <3>1, Zenon
    <3>2. CASE m \in paths
      <4>1. PICK d \in Conn : m \in guards[d]
        BY <3>2, Zenon DEF PathExclusion
      <4>2. m \in guards'[d]
        BY <1>2, <4>1, Zenon
      <4> QED BY <4>2
    <3> QED BY <1>1, <2>1, <3>1, <3>2, Zenon
  <2>2. ASSUME NEW d \in Conn, NEW m \in guards'[d] PROVE m \in paths'
    <3>1. m \in guards[d] \/ m = n
      BY <1>2, <2>2, Zenon
    <3>2. guards[d] \subseteq paths
      BY Zenon DEF PathExclusion
    <3> QED BY <1>1, <3>1, <3>2, Zenon
  <2> QED BY <2>1, <2>2
<1>4. ASSUME NEW d \in Conn, NEW e \in Conn, d # e, NEW m \in guards'[d], m \in guards'[e]
      PROVE  FALSE
  <2>1. m \in guards[d] => m \notin guards[e]
    BY <1>4, Zenon DEF PathExclusion
  <2>2. n \notin guards[d] /\ n \notin guards[e]
    BY Zenon DEF PathExclusion
  <2>3. (m \in guards[d] \/ (d = c /\ m = n)) /\ (m \in guards[e] \/ (e = c /\ m = n))
    BY <1>2, <1>4, Zenon
  <2> QED BY <1>4, <2>1, <2>2, <2>3, Zenon
<1>5. guards' \in [Conn -> SUBSET Name] /\ paths' \subseteq Name
  BY <1>1 DEF TypeFiles, TypeModel
<1> QED BY <1>1, <1>3, <1>4, <1>5 DEF PathExclusion

LEMMA SyncFileInv ==
    ASSUME Inv, NEW c \in Conn, NEW n \in Name, n \notin paths, SyncFile(c, n)
    PROVE  /\ PathExclusion' /\ guards' \in [Conn -> SUBSET Name] /\ paths' \subseteq Name
           /\ iter' \in [Conn -> Iterator \cup {None}]
           /\ io' \in Seq(Cmd) /\ diffs' \in Seq(Diff)
<1> USE DEF Inv, TypeOK
<1> DEFINE len == Len(Blocks(Mine(c, n)))
           copy == FileCmd("copy", n, 0)
           finish == FileCmd("finish", n, len)
           meta == FileCmd("meta", n, len)
           advance == Advance(PeerOf[c], n, ver[Mine(c, n)])
<1>1. copy \in Cmd /\ finish \in Cmd /\ meta \in Cmd
  <2>1. Mine(c, n) \in File
    BY ConnAssumption DEF Mine, File
  <2>2. len \in Nat
    BY <2>1, ContentAssumption DEF TypeModel, Blocks, BlocksOf, File
  <2> QED BY <2>2, Zenon DEF FileCmd, Cmd
<1>2. BlockIterator(c, n) \in Iterator
  BY IteratorRange DEF BlockIterator
<1>3. advance \in Diff
  BY NewDiffs
<1>4. TakeGuard(c, n) \/ UNCHANGED <<guards, paths, failed>>
  BY Zenon DEF SyncFile
<1>5. iter' = iter \/ iter' = [iter EXCEPT ![c] = BlockIterator(c, n)]
  BY Zenon DEF SyncFile
<1>6. io' = io \/ io' = Append(io, copy) \/ io' = Append(io, finish) \/ io' = Append(io, meta)
  BY Zenon DEF SyncFile
<1>7. diffs' = diffs \/ diffs' = Append(diffs, advance)
  BY Zenon DEF SyncFile
<1> HIDE DEF copy, finish, meta, advance
<1>8. Append(io, copy) \in Seq(Cmd) /\ Append(io, finish) \in Seq(Cmd) /\ Append(io, meta) \in Seq(Cmd)
  BY <1>1, AppendProperties, Zenon DEF TypeThread
<1>9. Append(diffs, advance) \in Seq(Diff)
  BY <1>3, AppendProperties, Zenon DEF TypeThread
<1>10. io' \in Seq(Cmd) /\ diffs' \in Seq(Diff)
  BY <1>6, <1>7, <1>8, <1>9, Zenon DEF TypeThread
<1>11. iter' \in [Conn -> Iterator \cup {None}]
  BY <1>2, <1>5, Zenon DEF TypeFiles
<1>12. PathExclusion' /\ guards' \in [Conn -> SUBSET Name] /\ paths' \subseteq Name
  BY <1>4, TakeGuardPaths, PathsKept, Zenon DEF TypeFiles, TypeModel
<1> QED BY <1>10, <1>11, <1>12

LEMMA PullFileInv ==
    ASSUME Inv, PullFile
    PROVE  Inv'
<1> USE DEF Inv, TypeOK
<1> DEFINE c == Running
           good == Pullable(c)
           first == CHOOSE n \in good : \A m \in good : Rank[n] <= Rank[m]
<1>1. Head_("pull")
  BY Zenon DEF PullFile
<1>2. c \in Conn /\ Tail(agenda) \in Seq(Task)
  BY <1>1, PullsFor, Zenon
<1>3. /\ UNCHANGED <<modelVars, locked, countVars, iterOf, lifeVars, reqVars, postponed, finished>>
      /\ UNCHANGED <<fetchVars, wqueue, resVars, inner, fsVars, diskVars>>
  BY Zenon DEF PullFile
<1>4. TypeRequests' /\ TypeFs' /\ SlotDiscipline' /\ BlockTable'
  BY <1>3, RequestsKept, FsKept, SlotsKept, TableKept DEF reqVars, modelVars
<1>5. ready' \in [Conn -> SUBSET Name] /\ queue' \in [Conn -> SUBSET Name]
  <2>1. ready' = ready \/ \E n \in ready[c] : ready' = [ready EXCEPT ![c] = @ \ {n}]
    BY Zenon DEF PullFile
  <2>2. ready' \in [Conn -> SUBSET Name]
    <3>1. ASSUME NEW n \in ready[c], ready' = [ready EXCEPT ![c] = @ \ {n}]
          PROVE  ready' \in [Conn -> SUBSET Name]
      BY <1>2, <3>1 DEF TypeFiles
    <3>2. ready \in [Conn -> SUBSET Name]
      BY DEF TypeFiles
    <3> QED BY <2>1, <3>1, <3>2, Zenon
  <2>3. queue' = [queue EXCEPT ![c] = {}] \/ queue' = [queue EXCEPT ![c] = {m \in @ : Rank[m] > Rank[first]}]
    <3>1. queue' = [queue EXCEPT ![c] = IF good = {} THEN {} ELSE {m \in @ : Rank[m] > Rank[first]}]
      BY Zenon DEF PullFile
    <3> HIDE DEF first, good, c
    <3> QED BY <3>1, Zenon
  <2>4. queue' \in [Conn -> SUBSET Name]
    <3>1. queue \in [Conn -> SUBSET Name]
      BY DEF TypeFiles
    <3> HIDE DEF first, good, c
    <3> QED BY <1>2, <2>3, <3>1
  <2> QED BY <2>2, <2>4
<1>6. agenda' \in Seq(Task)
  <2>1. agenda' = agenda \/ agenda' = <<>> \o Tail(agenda)
    BY Zenon DEF PullFile, Then
  <2> QED BY <1>2, <2>1, SentTasks, Zenon DEF TypeThread
<1>7. \/ UNCHANGED <<iter, guards, paths, io, diffs, failed>>
      \/ good # {} /\ SyncFile(c, first)
  BY Zenon DEF PullFile
<1>8. /\ PathExclusion' /\ guards' \in [Conn -> SUBSET Name] /\ paths' \subseteq Name
      /\ iter' \in [Conn -> Iterator \cup {None}]
      /\ io' \in Seq(Cmd) /\ diffs' \in Seq(Diff)
  <2>1. CASE UNCHANGED <<iter, guards, paths, io, diffs, failed>>
    BY <2>1, PathsKept DEF TypeFiles, TypeModel, TypeThread
  <2>2. CASE good # {} /\ SyncFile(c, first)
    <3>1. first \in good
      <4> DEFINE ranks == {Rank[m] : m \in good}
      <4>1. good \subseteq Name
        BY <1>2 DEF Pullable, TypeFiles
      <4> HIDE DEF good
      <4>2. ranks \subseteq Nat /\ ranks # {}
        BY <2>2, <4>1, RankAssumption
      <4>3. MinOf(ranks) \in ranks /\ \A y \in ranks : MinOf(ranks) <= y
        <5> HIDE DEF ranks
        <5> QED BY <4>2, MinOfNat, Zenon
      <4>4. \E n \in good : \A m \in good : Rank[n] <= Rank[m]
        BY <4>3, Zenon
      <4> QED BY <4>4
    <3> QED BY <1>2, <2>2, <3>1, SyncFileInv, Zenon DEF Pullable, TypeFiles
  <2> QED BY <1>7, <2>1, <2>2
<1>9. TypeModel' /\ TypeFiles' /\ TypeThread'
  BY <1>3, <1>5, <1>6, <1>8, Zenon DEF TypeModel, TypeFiles, TypeThread, modelVars, countVars, fetchVars
<1> QED BY <1>4, <1>8, <1>9

LEMMA HandlerStepInv ==
    ASSUME Inv, HandlerStep
    PROVE  Inv'
  BY PullDoneInv, PullBlockInv, PullIteratorEndInv, PullReadyInv, PullFileInv, ReleaseBlockInv, UnlockBlockInv,
     CancelSyncInv, FlushInv, PostprocessIoInv, ShutdownTriggerInv, ShutdownStartInv, UnsubscribeInv,
     ApplyDiffInv, VisitDiffInv
  DEF HandlerStep, PullNext
=============================================================================
