-------------------------- MODULE ControllerProofs --------------------------
(***************************************************************************)
(* Theorems about module Controller, for every set of connections, files,  *)
(* blocks and versions and every value of the limits: the types of the     *)
(* state, the discipline of the request slots, the block table and the     *)
(* exclusion of paths.                                                     *)
(***************************************************************************)
EXTENDS ControllerSteps

\* The steps of the file actor.
LEMMA NetKept ==
    ASSUME Inv, UNCHANGED netVars
    PROVE  TypeModel' /\ TypeRequests' /\ TypeFiles' /\ TypeThread' /\ SlotDiscipline' /\ BlockTable' /\ PathExclusion'
<1> USE DEF Inv, TypeOK
<1>1. /\ UNCHANGED <<modelVars, lockVars, countVars, iterOf>> /\ UNCHANGED <<lifeVars, reqVars, resVars>>
      /\ UNCHANGED <<fileVars, guardVars, fetchVars, wqueue>> /\ UNCHANGED <<agenda, ctxVars, failed>>
  BY DEF netVars
<1>2. TypeModel' /\ TypeRequests' /\ TypeFiles'
  BY <1>1, ModelKept, RequestsKept, FilesKept
<1>3. TypeThread'
  BY <1>1 DEF TypeThread, ctxVars
<1> QED BY <1>1, <1>2, <1>3, SlotsKept, TableKept, PathsKept DEF reqVars, modelVars, lockVars, guardVars

LEMMA FsHeadType ==
    ASSUME TypeFs, NEW op, FsHead(op)
    PROVE  /\ FsConn \in Conn /\ Tail(fsq) \in Seq(Batch) /\ Head(fsq) \in Batch
           /\ FsCmd \in Cmd \cup {Predown} /\ FsCmd.op = op
<1>1. Head(fsq) \in Batch /\ Tail(fsq) \in Seq(Batch)
  BY HeadTailProperties DEF TypeFs, FsHead
<1>2. FsConn \in Conn /\ Head(fsq).todo \in Seq(Cmd \cup {Predown}) /\ Head(fsq).todo # <<>>
  BY <1>1 DEF Batch, FsConn
<1>3. FsCmd \in Cmd \cup {Predown}
  BY <1>2, HeadTailProperties DEF FsCmd
<1> QED BY <1>1, <1>2, <1>3 DEF FsHead, FsCmd

LEMMA FsCommand ==
    ASSUME TypeFs, NEW op \in {"append", "clone", "finish", "copy", "meta"}, FsHead(op)
    PROVE  FsCmd \in Cmd /\ FsCmd.n \in Name /\ (op \in {"append", "clone"} => FsCmd \in WriteCmd)
<1>1. FsCmd \in Cmd
  BY FsHeadType DEF Predown
<1>2. FsCmd.op = op
  BY FsHeadType
<1> QED BY <1>1, <1>2 DEF Cmd, WriteCmd

LEMMA FsDoneType ==
    ASSUME TypeFs, NEW op \in {"append", "clone", "finish", "copy", "meta"}, FsHead(op), NEW ok \in BOOLEAN, FsDone(ok)
    PROVE  fsq' \in Seq(Batch) /\ replies' \in Seq([c : Conn, cmds : Seq(Cmd)])
<1> DEFINE batch == Head(fsq)
           cmd == [FsCmd EXCEPT !.ok = ok]
           done == Append(batch.done, cmd)
           todo == Tail(batch.todo)
           left == [batch EXCEPT !.todo = todo, !.done = done]
           reply == [c |-> batch.c, cmds |-> done]
<1>1. batch \in Batch /\ Tail(fsq) \in Seq(Batch)
  BY FsHeadType
<1>2. batch.c \in Conn /\ batch.todo \in Seq(Cmd \cup {Predown}) /\ batch.todo # <<>> /\ batch.done \in Seq(Cmd)
  BY <1>1 DEF Batch
<1>3. cmd \in Cmd
  BY FsCommand DEF Cmd, WriteCmd
<1> HIDE DEF cmd
<1>4. done \in Seq(Cmd) /\ todo \in Seq(Cmd \cup {Predown})
  BY <1>2, <1>3, AppendProperties, HeadTailProperties
<1>5. todo # <<>> => left \in Batch
  <2> HIDE DEF todo, done
  <2> QED BY <1>1, <1>4, Zenon DEF Batch
<1>6. reply \in [c : Conn, cmds : Seq(Cmd)]
  <2> HIDE DEF done
  <2> QED BY <1>2, <1>4
<1>7. \/ fsq' = Tail(fsq) /\ replies' = Append(replies, reply)
      \/ todo # <<>> /\ fsq' = <<left>> \o Tail(fsq) /\ replies' = replies
  BY Zenon DEF FsDone, cmd
<1> HIDE DEF left, reply, todo
<1>8. Append(replies, reply) \in Seq([c : Conn, cmds : Seq(Cmd)]) /\ replies \in Seq([c : Conn, cmds : Seq(Cmd)])
  BY <1>6, AppendProperties, Zenon DEF TypeFs
<1>9. todo # <<>> => <<left>> \o Tail(fsq) \in Seq(Batch)
  BY <1>1, <1>5, ConcatProperties
<1> QED BY <1>1, <1>7, <1>8, <1>9, Zenon

LEMMA OpenedType ==
    ASSUME TypeFs, NEW c \in Conn, NEW n \in Name, NEW len \in Nat
    PROVE  /\ OpenedAs(c, n) \in {"no", "tmp", "disk", "gone"}
           /\ OpenedTmp(c, n, len) \in Bytes
<1>1. OpenedAs(c, n) \in {"no", "tmp", "disk", "gone"}
  BY DEF OpenedAs, TypeFs
<1>2. [k \in 1..len |-> Hole] \in Bytes
  BY IsASeq DEF Bytes
<1> QED BY <1>1, <1>2 DEF OpenedTmp, TypeFs

LEMMA PutType ==
    ASSUME NEW s \in Bytes, NEW i \in Nat, NEW x \in Block \cup {Hole}
    PROVE  Put(s, i, x) \in Bytes
<1> DEFINE m == IF i > Len(s) THEN i ELSE Len(s)
<1>1. m \in Nat /\ \A k \in 1..Len(s) : s[k] \in Block \cup {Hole}
  BY DEF Bytes
<1>2. \A k \in 1..m : (IF k = i THEN x ELSE IF k <= Len(s) THEN s[k] ELSE Hole) \in Block \cup {Hole}
  BY <1>1
<1>3. Put(s, i, x) = [k \in 1..m |-> IF k = i THEN x ELSE IF k <= Len(s) THEN s[k] ELSE Hole]
  BY DEF Put
<1> HIDE DEF m
<1> QED BY <1>1, <1>2, <1>3, IsASeq DEF Bytes

LEMMA WriteBlockType ==
    ASSUME TypeFs, NEW c \in Conn, NEW n \in Name, NEW i \in Nat, NEW x \in Block \cup {Hole}, NEW len \in Nat,
           WriteBlock(c, n, i, x, len)
    PROVE  /\ handle' \in [Conn -> [Name -> {"no", "tmp", "disk", "gone"}]]
           /\ tmp' \in [Name -> Bytes] /\ disk' \in [Name -> Bytes]
<1> DEFINE h == OpenedAs(c, n)
           t == OpenedTmp(c, n, len)
<1>1. h \in {"no", "tmp", "disk", "gone"} /\ t \in Bytes
  BY OpenedType
<1>2. Put(t, i, x) \in Bytes /\ Put(disk[n], i, x) \in Bytes
  BY <1>1, PutType DEF TypeFs
<1>3. /\ handle' = [handle EXCEPT ![c][n] = h]
      /\ tmp' = [tmp EXCEPT ![n] = IF h = "tmp" THEN Put(t, i, x) ELSE tmp[n]]
      /\ disk' = [disk EXCEPT ![n] = IF h = "disk" THEN Put(disk[n], i, x) ELSE disk[n]]
  BY DEF WriteBlock
<1> HIDE DEF h, t
<1> QED BY <1>1, <1>2, <1>3 DEF TypeFs

LEMMA FsStepInv ==
    ASSUME Inv, FsStep
    PROVE  Inv'
<1> USE DEF Inv, TypeOK
<1> DEFINE c == FsConn
           n == FsCmd.n
<1>1. UNCHANGED netVars
  BY Zenon DEF FsStep, FsAppend, FsClone, FsFinish, FsRemoteCopy, FsUpdateMeta, FsError, FsPredown
<1>2. SUFFICES TypeFs'
  BY <1>1, <1>2, NetKept
<1>3. CASE FsAppend
  <2>1. FsHead("append") /\ FsDone(TRUE) /\ WriteBlock(c, n, FsCmd.i, FsCmd.b, FsCmd.len)
    BY <1>3, Zenon DEF FsAppend
  <2>2. c \in Conn /\ n \in Name /\ FsCmd.i \in Nat /\ FsCmd.b \in Block /\ FsCmd.len \in Nat
    BY <2>1, FsHeadType, FsCommand DEF WriteCmd
  <2> QED BY <2>1, <2>2, FsDoneType, WriteBlockType, Zenon DEF TypeFs
<1>4. CASE FsClone
  <2> DEFINE cmd == FsCmd
             h == IF cmd.src = cmd.n THEN OpenedAs(c, cmd.n) ELSE handle[c][cmd.src]
             from == IF h = "tmp" THEN (IF cmd.src = cmd.n THEN OpenedTmp(c, cmd.n, cmd.len) ELSE tmp[cmd.src])
                     ELSE IF h = "gone" THEN <<>> ELSE disk[cmd.src]
  <2>1. FsHead("clone")
    BY <1>4 DEF FsClone
  <2>2. c \in Conn /\ n \in Name /\ FsCmd.i \in Nat /\ FsCmd.len \in Nat /\ FsCmd.src \in Name
    BY <2>1, FsHeadType, FsCommand DEF WriteCmd
  <2>3. OpenedTmp(c, n, FsCmd.len) \in Bytes /\ OpenedAs(c, n) \in {"no", "tmp", "disk", "gone"}
    BY <2>2, OpenedType
  <2>4. from \in Bytes
    BY <2>2, <2>3 DEF TypeFs, Bytes
  <2>5. CASE cmd.j \in DOMAIN from
    <3>1. WriteBlock(c, n, cmd.i, from[cmd.j], cmd.len) /\ FsDone(TRUE)
      BY <1>4, <2>5, Zenon DEF FsClone
    <3>2. from[cmd.j] \in Block \cup {Hole}
      <4> HIDE DEF from
      <4> QED BY <2>4, <2>5 DEF Bytes
    <3> QED BY <2>1, <2>2, <3>1, <3>2, FsDoneType, WriteBlockType, Zenon DEF TypeFs
  <2>6. CASE cmd.j \notin DOMAIN from
    <3>1. /\ handle' = [handle EXCEPT ![c][n] = OpenedAs(c, n)]
          /\ tmp' = [tmp EXCEPT ![n] = OpenedTmp(c, n, cmd.len)]
          /\ UNCHANGED disk /\ FsDone(FALSE)
      BY <1>4, <2>6, Zenon DEF FsClone
    <3>2. fsq' \in Seq(Batch) /\ replies' \in Seq([c : Conn, cmds : Seq(Cmd)])
      BY <2>1, <3>1, FsDoneType, Zenon
    <3> QED BY <2>2, <2>3, <3>1, <3>2 DEF TypeFs
  <2> QED BY <2>5, <2>6
<1>5. CASE FsFinish
  <2>1. FsHead("finish") /\ \E ok \in BOOLEAN : FsDone(ok)
    <3>1. FsHead("finish")
      BY <1>5 DEF FsFinish
    <3>2. \E ok \in BOOLEAN : FsDone(ok)
      BY <1>5, Zenon DEF FsFinish
    <3> QED BY <3>1, <3>2
  <2>2. c \in Conn /\ n \in Name
    BY <2>1, FsHeadType, FsCommand
  <2>3. fsq' \in Seq(Batch) /\ replies' \in Seq([c : Conn, cmds : Seq(Cmd)])
    BY <2>1, FsDoneType, Zenon
  <2>4. CASE tmp[n] = <<>>
    <3>1. handle' = [handle EXCEPT ![c][n] = "no"] /\ UNCHANGED <<tmp, disk>>
      BY <1>5, <2>4 DEF FsFinish
    <3> QED BY <2>2, <2>3, <3>1 DEF TypeFs
  <2>5. CASE tmp[n] # <<>>
    <3>1. /\ disk' = [disk EXCEPT ![n] = tmp[n]]
          /\ tmp' = [tmp EXCEPT ![n] = <<>>]
          /\ handle' = [d \in Conn |-> [handle[d] EXCEPT ![n] =
                             IF d = c THEN "no" ELSE IF @ = "tmp" THEN "disk" ELSE IF @ = "disk" THEN "gone" ELSE @]]
      BY <1>5, <2>5 DEF FsFinish
    <3>2. <<>> \in Bytes
      BY DEF Bytes
    <3>3. handle' \in [Conn -> [Name -> {"no", "tmp", "disk", "gone"}]]
      BY <2>2, <3>1 DEF TypeFs
    <3> QED BY <2>2, <2>3, <3>1, <3>2, <3>3 DEF TypeFs
  <2> QED BY <2>4, <2>5
<1>6. CASE FsRemoteCopy
  <2>1. FsHead("copy") /\ FsDone(TRUE) /\ disk' = [disk EXCEPT ![n] = <<>>] /\ UNCHANGED <<handle, tmp>>
    BY <1>6, Zenon DEF FsRemoteCopy
  <2>2. n \in Name /\ <<>> \in Bytes
    BY <2>1, FsCommand DEF Bytes
  <2> QED BY <2>1, <2>2, FsDoneType, Zenon DEF TypeFs
<1>7. CASE FsUpdateMeta
  BY <1>7, FsDoneType, Zenon DEF FsUpdateMeta, TypeFs, diskVars
<1>8. CASE FsError
  BY <1>8, FsDoneType, Zenon DEF FsError, TypeFs, diskVars
<1>9. CASE FsPredown
  BY <1>9, FsHeadType DEF FsPredown, TypeFs
<1> QED BY <1>3, <1>4, <1>5, <1>6, <1>7, <1>8, <1>9 DEF FsStep

-----------------------------------------------------------------------------
\* The events.
LEMMA StartInv ==
    ASSUME Inv, NEW c \in Conn, Start(c)
    PROVE  Inv'
<1> USE DEF Inv, TypeOK
<1>1. PeerOf[c] \in Peer
  BY ConnAssumption
<1>2. TypeModel'
  BY <1>1 DEF Start, TypeModel, modelVars, lockVars, countVars
<1>3. TypeRequests'
  <2>1. subs' \in Seq(Conn)
    BY AppendProperties DEF Start, TypeRequests
  <2>2. st' \in [Conn -> {"none", "up", "stopping", "down"}] /\ peer' \in [Conn -> BOOLEAN]
    BY Zenon DEF Start, TypeRequests
  <2> QED BY <2>1, <2>2 DEF Start, TypeRequests, reqVars, resVars
<1>4. TypeFiles'
  <2>1. queue' \in [Conn -> SUBSET Name]
    BY Zenon DEF Start, TypeFiles
  <2> QED BY <2>1, Zenon DEF Start, TypeFiles, guardVars, fetchVars
<1>5. TypeThread'
  <2>1. subs' \in Seq(Conn) /\ agenda' = Visits(subs', c, <<>>)
    BY <1>3, Zenon DEF Start, TypeRequests
  <2>2. agenda' \in Seq(Task)
    <3>1. <<>> \in Seq(Diff)
      OBVIOUS
    <3> QED BY <2>1, <3>1, VisitsTasks, Zenon
  <2> QED BY <2>2 DEF Start, TypeThread, ctxVars
<1>6. TypeFs'
  BY FsKept DEF Start
<1> QED BY <1>2, <1>3, <1>4, <1>5, <1>6, SlotsKept, TableKept, PathsKept
        DEF Start, reqVars, modelVars, lockVars, guardVars

\* The events that only send a message.
LEMMA SendOnlyInv ==
    ASSUME Inv, NEW c \in Conn,
           \/ PeerDown(c) \/ Shutdown(c)
           \/ \E n \in Name : \E v \in Offer[PeerOf[c]][n] : IndexUpdate(c, n, v)
    PROVE  Inv'
<1> USE DEF Inv, TypeOK
<1>1. Step("trigger", c) \in Task /\ Step("flush", c) \in Task
  BY NewTasks
<1>2. <<Step("trigger", c)>> \in Seq(Task) /\ <<Step("flush", c)>> \in Seq(Task)
  BY <1>1
<1>3. CASE PeerDown(c) \/ Shutdown(c)
  <2>1. TypeModel' /\ TypeFiles' /\ TypeFs' /\ SlotDiscipline' /\ BlockTable' /\ PathExclusion'
    BY <1>3, ModelKept, FilesKept, FsKept, SlotsKept, TableKept, PathsKept, Zenon
    DEF PeerDown, Shutdown, reqVars, modelVars, lockVars, guardVars
  <2>2. TypeRequests'
    BY <1>3, Zenon DEF PeerDown, Shutdown, TypeRequests, lifeVars, reqVars, resVars
  <2>3. TypeThread'
    BY <1>2, <1>3, Zenon DEF PeerDown, Shutdown, TypeThread, ctxVars
  <2> QED BY <2>1, <2>2, <2>3
<1>4. ASSUME NEW n \in Name, NEW v \in Offer[PeerOf[c]][n], IndexUpdate(c, n, v) PROVE Inv'
  <2>1. TypeModel' /\ TypeRequests' /\ TypeFiles' /\ TypeFs' /\ SlotDiscipline' /\ BlockTable' /\ PathExclusion'
    BY <1>4, ModelKept, RequestsKept, FilesKept, FsKept, SlotsKept, TableKept, PathsKept, Zenon
    DEF IndexUpdate, reqVars, modelVars, lockVars, guardVars
  <2>2. UpdateFolder(PeerOf[c], n, v) \in Diff
    <3>1. PeerOf[c] \in Peer /\ v \in DOMAIN Content[n] /\ Content[n] \in Seq(Seq(Block))
      BY ConnAssumption, OfferAssumption, ContentAssumption
    <3>2. v \in Nat /\ v <= Len(Content[n])
      BY <3>1
    <3> QED BY <3>1, <3>2 DEF UpdateFolder, Diff
  <2>3. <<UpdateFolder(PeerOf[c], n, v)>> \in Seq(Diff)
    BY <2>2
  <2>4. TypeThread'
    BY <1>2, <1>4, <2>3, Zenon DEF IndexUpdate, TypeThread
  <2> QED BY <2>1, <2>4, Zenon
<1> QED BY <1>3, <1>4, Zenon

LEMMA FsAckTimerInv ==
    ASSUME Inv, NEW c \in Conn, FsAckTimer(c)
    PROVE  Inv'
<1> USE DEF Inv, TypeOK
<1>1. TypeFiles' /\ TypeFs' /\ SlotDiscipline' /\ BlockTable' /\ PathExclusion'
  BY FilesKept, FsKept, SlotsKept, TableKept, PathsKept
  DEF FsAckTimer, reqVars, modelVars, lockVars, guardVars
<1>2. TypeModel'
  <2>1. writeReq' \in Int
    BY DEF FsAckTimer, TypeModel, TypeRequests
  <2> QED BY <2>1 DEF FsAckTimer, TypeModel, modelVars, lockVars
<1>3. TypeRequests'
  BY DEF FsAckTimer, TypeRequests, reqVars
<1>4. TypeThread'
  BY DEF FsAckTimer, TypeThread, ctxVars
<1> QED BY <1>1, <1>2, <1>3, <1>4

LEMMA ResponseInv ==
    ASSUME Inv, NEW c \in Conn, NEW id \in Slot, NEW code, Response(c, id, code)
    PROVE  Inv'
<1> USE DEF Inv, TypeOK
<1> DEFINE r == slots[c][id]
           f == Mine(c, r.n)
<1>1. r \in Req /\ r # None /\ r.n \in Name /\ r.b \in Block
  <2>1. r # None /\ r \in Req \cup {None}
    BY Zenon DEF Response, TypeRequests
  <2> HIDE DEF r
  <2> QED BY <2>1 DEF Req
<1>2. f \in File
  BY <1>1, ConnAssumption DEF Mine, File
<1>3. /\ UNCHANGED <<ver, have, links, lockVars, countVars, iterOf, lifeVars, fileVars, guardVars>>
      /\ UNCHANGED <<fetchVars, wqueue, fsReqs, io, diffs, failed, fsVars, diskVars>>
  BY Zenon DEF Response
<1>4. TypeFiles' /\ TypeFs' /\ BlockTable' /\ PathExclusion'
  BY <1>3, FilesKept, FsKept, TableKept, PathsKept DEF lockVars, guardVars
<1>5. /\ slots' = [slots EXCEPT ![c][id] = None] /\ rx' = [rx EXCEPT ![c] = @ - 1]
      /\ next' = [next EXCEPT ![c] = id]
      /\ pool' = pool \/ pool' = [pool EXCEPT ![c] = @ + 1]
      /\ hashing' = hashing \/ hashing' = [hashing EXCEPT ![c] = @ \cup {r}]
  <2>1. /\ slots' = [slots EXCEPT ![c][id] = None] /\ rx' = [rx EXCEPT ![c] = @ - 1]
        /\ next' = [next EXCEPT ![c] = id]
    BY Zenon DEF Response
  <2>2. pool' = pool \/ pool' = [pool EXCEPT ![c] = @ + 1]
    BY Zenon DEF Response, TypeRequests
  <2>3. hashing' = hashing \/ hashing' = [hashing EXCEPT ![c] = @ \cup {r}]
    BY Zenon DEF Response, TypeRequests
  <2> QED BY <2>1, <2>2, <2>3
<1>6. SlotDiscipline'
  <2> HIDE DEF r
  <2> QED BY <1>1, <1>5, OneRequestLess, Zenon DEF r
<1>7. TypeRequests'
  <2>1. slots' \in [Conn -> [Slot -> Req \cup {None}]]
    BY <1>5 DEF TypeRequests
  <2>2. next' \in [Conn -> Slot] /\ rx' \in [Conn -> Int] /\ pool' \in [Conn -> Int]
    BY <1>5 DEF TypeRequests
  <2>3. hashing' \in [Conn -> SUBSET Req]
    <3> HIDE DEF r
    <3>1. hashing \in [Conn -> SUBSET Req] /\ [hashing EXCEPT ![c] = @ \cup {r}] \in [Conn -> SUBSET Req]
      BY <1>1 DEF TypeRequests
    <3> QED BY <1>5, <3>1, Zenon
  <2> QED BY <1>3, <2>1, <2>2, <2>3 DEF TypeRequests, lifeVars
<1>8. TypeModel'
  <2>1. unreach' = unreach \/ unreach' = [unreach EXCEPT ![f] = TRUE]
    BY Zenon DEF Response, MarkUnreachable
  <2>2. unreach' \in [File -> BOOLEAN]
    <3> HIDE DEF f
    <3> QED BY <1>2, <2>1, Zenon DEF TypeModel
  <2> QED BY <1>3, <2>2 DEF TypeModel, lockVars, countVars
<1>9. TypeThread'
  <2>1. inner' \in Seq(Diff)
    <3>1. UnreachableDiff(f) \in Seq(Diff) /\ <<>> \in Seq(Diff)
      BY <1>1, NewDiffs
    <3>2. inner' = UnreachableDiff(f) \/ inner' = <<>>
      BY Zenon DEF Response
    <3> QED BY <3>1, <3>2, Zenon
  <2>2. agenda' \in Seq(Task)
    <3> DEFINE p == <<Step("pull", c)>>
               q == <<Step("flushInner", c), Step("flush", c)>>
               x == <<CancelSync(c, r.n)>>
               y == <<BlockStep("release", c, r.b)>>
    <3>1. /\ Step("pull", c) \in Task /\ Step("flushInner", c) \in Task /\ Step("flush", c) \in Task
          /\ CancelSync(c, r.n) \in Task /\ BlockStep("release", c, r.b) \in Task
      <4> HIDE DEF r
      <4> QED BY <1>1, NewTasks
    <3>2. p \in Seq(Task) /\ q \in Seq(Task) /\ x \in Seq(Task) /\ y \in Seq(Task) /\ <<>> \in Seq(Task)
      BY <3>1
    <3>3. PICK a \in {<<>>, x}, b \in {<<>>, y} : agenda' = a \o p \o b \o q
      BY Zenon DEF Response, ReleaseUnless
    <3> HIDE DEF p, q, x, y
    <3>4. a \in Seq(Task) /\ b \in Seq(Task)
      BY <3>2, Zenon
    <3> QED BY <3>2, <3>3, <3>4, ConcatProperties
  <2> QED BY <1>3, <2>1, <2>2 DEF TypeThread
<1> QED BY <1>4, <1>6, <1>7, <1>8, <1>9

LEMMA DigestInv ==
    ASSUME Inv, NEW c \in Conn, NEW r \in hashing[c], NEW matches \in BOOLEAN, Digest(c, r, matches)
    PROVE  Inv'
<1> USE DEF Inv, TypeOK
<1> DEFINE f == Mine(c, r.n)
           i == FirstIndex(Blocks(f), r.b)
           cmd == Append_(r.n, i, r.b, Len(Blocks(f)))
<1>1. r \in Req /\ r.n \in Name /\ r.b \in Block
  BY DEF TypeRequests, Req
<1>2. f \in File /\ f[2] = r.n
  BY <1>1, ConnAssumption, Zenon DEF Mine, File
<1>3. /\ UNCHANGED <<ver, have, links, lockVars, syncs, iterOf, lifeVars, reqVars, fileVars, guardVars>>
      /\ UNCHANGED <<fetchVars, fsReqs, inner, failed, fsVars, diskVars>>
  BY Zenon DEF Digest
<1>4. TypeFs' /\ BlockTable' /\ PathExclusion' /\ SlotDiscipline'
  BY <1>3, FsKept, TableKept, PathsKept, SlotsKept, Zenon DEF lockVars, guardVars, reqVars
<1>5. TypeRequests'
  <2>1. hashing' = [hashing EXCEPT ![c] = @ \ {r}]
    BY Zenon DEF Digest
  <2> QED BY <1>3, <2>1 DEF TypeRequests, lifeVars, reqVars
<1>6. io' \in Seq(Cmd) /\ wqueue' \in [Conn -> Seq(WriteCmd)] /\ writeReq' \in Int
  <2>1. UNCHANGED <<io, wqueue, writeReq>> \/ (Current(c, r) /\ PushChecked(c, cmd))
    BY Zenon DEF Digest
  <2>2. ASSUME Current(c, r) PROVE cmd \in WriteCmd
    <3>1. Blocks(f) = BlocksOf(r.n, r.v)
      BY <1>2, <2>2 DEF Current, Blocks
    <3>2. Blocks(f) \in Seq(Block) /\ r.i \in DOMAIN Blocks(f) /\ Blocks(f)[r.i] = r.b
      <4>1. /\ r.v \in Nat /\ r.v <= Len(Content[r.n])
            /\ r.i \in DOMAIN BlocksOf(r.n, r.v) /\ r.b = BlocksOf(r.n, r.v)[r.i]
        BY <1>1, Zenon DEF Req
      <4>2. BlocksOf(r.n, r.v) \in Seq(Block)
        BY <1>1, <4>1, BlocksOfSeq, Zenon
      <4> HIDE DEF f
      <4> QED BY <3>1, <4>1, <4>2, Zenon
    <3>3. i \in Nat /\ Len(Blocks(f)) \in Nat
      BY <3>2, FirstIndexNat
    <3> HIDE DEF i, f
    <3> QED BY <1>1, <3>3 DEF Append_, WriteCmd
  <2> HIDE DEF cmd
  <2>3. CASE UNCHANGED <<io, wqueue, writeReq>>
    BY <2>3 DEF TypeThread, TypeFiles, TypeModel
  <2>4. CASE Current(c, r) /\ PushChecked(c, cmd)
    BY <2>2, <2>4, PushCheckedType, Zenon
  <2> QED BY <2>1, <2>3, <2>4, Zenon
<1> HIDE DEF cmd, i
<1>7. TypeModel'
  <2>1. unreach' = unreach \/ unreach' = [unreach EXCEPT ![f] = TRUE]
    BY Zenon DEF Digest, MarkUnreachable
  <2>2. unreach' \in [File -> BOOLEAN]
    <3> HIDE DEF f
    <3> QED BY <1>2, <2>1, Zenon DEF TypeModel
  <2> QED BY <1>3, <1>6, <2>2 DEF TypeModel, lockVars
<1>8. TypeFiles'
  BY <1>3, <1>6, Zenon DEF TypeFiles, fileVars, guardVars, fetchVars
<1>9. TypeThread'
  <2>1. diffs' \in Seq(Diff)
    <3>1. UnreachableDiff(f) \in Seq(Diff)
      BY <1>1, NewDiffs
    <3>2. diffs' = UnreachableDiff(f) \/ diffs' = diffs
      BY Zenon DEF Digest
    <3> QED BY <3>1, <3>2, Zenon DEF TypeThread
  <2>2. agenda' \in Seq(Task)
    <3> DEFINE p == <<Step("pull", c)>>
               q == <<Step("flush", c)>>
               x == <<CancelSync(c, r.n)>>
               y == <<BlockStep("release", c, r.b)>>
    <3>1. /\ Step("pull", c) \in Task /\ Step("flush", c) \in Task
          /\ CancelSync(c, r.n) \in Task /\ BlockStep("release", c, r.b) \in Task
      BY <1>1, NewTasks
    <3>2. p \in Seq(Task) /\ q \in Seq(Task) /\ x \in Seq(Task) /\ y \in Seq(Task) /\ <<>> \in Seq(Task)
      BY <3>1
    <3>3. PICK a \in {<<>>, y}, b \in {<<>>, x}, d \in {<<>>, p} : agenda' = a \o b \o d \o q
      BY Zenon DEF Digest, ReleaseUnless
    <3> HIDE DEF p, q, x, y
    <3>4. a \in Seq(Task) /\ b \in Seq(Task) /\ d \in Seq(Task)
      BY <3>2, Zenon
    <3> QED BY <3>2, <3>3, <3>4, ConcatProperties
  <2> QED BY <1>3, <1>6, <2>1, <2>2 DEF TypeThread
<1> QED BY <1>4, <1>5, <1>7, <1>8, <1>9, Zenon

LEMMA IoReplyInv ==
    ASSUME Inv, IoReply
    PROVE  Inv'
<1> USE DEF Inv, TypeOK
<1> DEFINE c == Head(replies).c
           task == [k |-> "reply", c |-> c, cmds |-> Head(replies).cmds]
<1>1. /\ Head(replies) \in [c : Conn, cmds : Seq(Cmd)]
      /\ Tail(replies) \in Seq([c : Conn, cmds : Seq(Cmd)])
  BY HeadTailProperties, Zenon DEF IoReply, TypeFs
<1>2. c \in Conn /\ task \in Task
  BY <1>1 DEF Task
<1>3. TypeModel' /\ TypeFiles' /\ SlotDiscipline' /\ BlockTable'
  BY ModelKept, FilesKept, SlotsKept, TableKept, Zenon DEF IoReply, reqVars, modelVars
<1>4. TypeFs'
  BY <1>1, Zenon DEF IoReply, TypeFs, diskVars
<1>5. TypeRequests'
  <2>1. fsReqs' = fsReqs \/ fsReqs' = [fsReqs EXCEPT ![c] = IF @ = 0 THEN 0 ELSE @ - 1]
    BY Zenon DEF IoReply
  <2>2. fsReqs' \in [Conn -> Nat]
    <3> HIDE DEF c
    <3>1. [fsReqs EXCEPT ![c] = IF @ = 0 THEN 0 ELSE @ - 1] \in [Conn -> Nat]
      BY <1>2 DEF TypeRequests
    <3> QED BY <2>1, <3>1, Zenon DEF TypeRequests
  <2> QED BY <2>2, Zenon DEF IoReply, TypeRequests, lifeVars, reqVars
<1>6. TypeThread'
  <2>1. agenda' = agenda \/ agenda' = <<task>>
    BY Zenon DEF IoReply
  <2> HIDE DEF task
  <2>2. agenda' \in Seq(Task)
    <3>1. <<task>> \in Seq(Task)
      BY <1>2
    <3> QED BY <2>1, <3>1, Zenon DEF TypeThread
  <2> QED BY <2>2 DEF IoReply, TypeThread, ctxVars
<1>7. PathExclusion'
  <2>1. "path_lock" \in failed' => "path_lock" \in failed
    BY DEF IoReply
  <2> QED BY <2>1, PathsKept DEF IoReply, lockVars, guardVars
<1> QED BY <1>3, <1>4, <1>5, <1>6, <1>7

LEMMA ShutdownFinishInv ==
    ASSUME Inv, NEW c \in Conn, ShutdownFinish(c)
    PROVE  Inv'
<1> USE DEF Inv, TypeOK
<1>1. guards[c] \in SUBSET Name /\ PeerOf[c] \in Peer
  BY ConnAssumption DEF TypeFiles
<1>2. /\ guards' \in [Conn -> SUBSET Name] /\ finished' \in [Conn -> SUBSET Name]
      /\ queue' \in [Conn -> SUBSET Name] /\ paths' \subseteq Name
  BY <1>1, DropGuardsType, Zenon DEF ShutdownFinish
<1>3. PathExclusion'
  <2>1. "path_lock" \notin failed'
    BY Zenon DEF ShutdownFinish, PathExclusion
  <2> QED BY <2>1, DropGuardsPaths, Zenon DEF ShutdownFinish
<1>4. TypeModel'
  <2>1. iterOf' \in [Peer -> Conn \cup {None}] /\ locked' \subseteq Block
    BY <1>1, Zenon DEF ShutdownFinish, TypeModel
  <2> QED BY <1>2, <2>1, Zenon DEF ShutdownFinish, TypeModel, modelVars, countVars
<1>5. TypeRequests'
  <2>1. slots' \in [Conn -> [Slot -> Req \cup {None}]] /\ rx' \in [Conn -> Int]
    <3>1. slots' = [slots EXCEPT ![c] = [k \in Slot |-> None]] /\ rx' = [rx EXCEPT ![c] = 0]
      BY Zenon DEF ShutdownFinish
    <3>2. slots' \in [Conn -> [Slot -> Req \cup {None}]]
      BY <3>1, Zenon DEF TypeRequests
    <3>3. rx' \in [Conn -> Int]
      <4>1. 0 \in Int
        OBVIOUS
      <4> QED BY <3>1, <4>1, Zenon DEF TypeRequests
    <3> QED BY <3>2, <3>3
  <2>2. st' \in [Conn -> {"none", "up", "stopping", "down"}] /\ timer' \in [Conn -> BOOLEAN]
    BY Zenon DEF ShutdownFinish, TypeRequests
  <2> QED BY <2>1, <2>2, Zenon DEF ShutdownFinish, TypeRequests, resVars
<1>6. TypeFiles'
  <2>1. iter' \in [Conn -> Iterator \cup {None}] /\ wqueue' \in [Conn -> Seq(WriteCmd)]
    <3>1. iter' = [iter EXCEPT ![c] = None] /\ wqueue' = [wqueue EXCEPT ![c] = <<>>]
      BY Zenon DEF ShutdownFinish
    <3>2. <<>> \in Seq(WriteCmd)
      OBVIOUS
    <3> QED BY <3>1, <3>2, Zenon DEF TypeFiles
  <2>2. postponed' \in [Conn -> SUBSET (Block \X Name)] /\ ready' \in [Conn -> SUBSET Name]
    BY Zenon DEF ShutdownFinish, TypeFiles
  <2>3. fetching' \in [Conn -> [Block -> Nat]] /\ sync' \in [Conn -> {"absent", "idle", "active"}]
    BY Zenon DEF ShutdownFinish, TypeFiles
  <2> QED BY <1>2, <2>1, <2>2, <2>3 DEF TypeFiles
<1>7. TypeThread'
  <2>1. SyncDiff("synchronization_finish") \in Diff
    BY Zenon DEF SyncDiff, Diff
  <2>2. <<SyncDiff("synchronization_finish")>> \in Seq(Diff)
    BY <2>1
  <2>3. Update(c, <<SyncDiff("synchronization_finish")>>) \in Task
    BY <2>2, NewTasks, Zenon
  <2>4. agenda' = <<Update(c, <<SyncDiff("synchronization_finish")>>)>> \/ agenda' = <<>>
    BY Zenon DEF ShutdownFinish, FinishedSync
  <2>5. agenda' \in Seq(Task)
    <3>1. <<Update(c, <<SyncDiff("synchronization_finish")>>)>> \in Seq(Task) /\ <<>> \in Seq(Task)
      BY <2>3
    <3> QED BY <2>4, <3>1, Zenon
  <2> QED BY <2>5, Zenon DEF ShutdownFinish, TypeThread, ctxVars
<1>8. SlotDiscipline'
  <2>1. Occupied(c)' = {} /\ rx'[c] = 0
    BY Zenon DEF ShutdownFinish, Occupied, TypeRequests
  <2>2. \A d \in Conn : d # c => rx'[d] = rx[d] /\ Occupied(d)' = Occupied(d)
    BY Zenon DEF ShutdownFinish, Occupied, TypeRequests
  <2>3. Cardinality({}) = 0
    BY FS_EmptySet
  <2> QED BY <2>1, <2>2, <2>3, RequestAssumption DEF SlotDiscipline
<1>9. TypeFs' /\ BlockTable'
  BY FsKept, TableKept, Zenon DEF ShutdownFinish, modelVars
<1> QED BY <1>3, <1>4, <1>5, <1>6, <1>7, <1>8, <1>9

-----------------------------------------------------------------------------
LEMMA InitInv ==
    ASSUME Init
    PROVE  Inv
<1>1. TypeModel
  <2>1. \A f \in File : Len(Content[f[2]]) \in Nat
    BY ContentAssumption DEF File
  <2> QED BY <2>1, PoolAssumption DEF Init, TypeModel
<1>2. 0 \in Slot
  BY RequestAssumption DEF Slot
<1>3. TypeRequests
  BY <1>2, PoolAssumption DEF Init, TypeRequests
<1>4. TypeFiles
  BY DEF Init, TypeFiles
<1>5. TypeThread
  BY DEF Init, TypeThread
<1>6. TypeFs
  BY DEF Init, TypeFs, Bytes
<1>7. SlotDiscipline
  <2>1. \A c \in Conn : Occupied(c) = {}
    BY DEF Init, Occupied
  <2>2. \A c \in Conn : rx[c] = 0
    BY DEF Init
  <2>3. Cardinality({}) = 0
    BY FS_EmptySet
  <2> QED BY <2>1, <2>2, <2>3, RequestAssumption DEF SlotDiscipline
<1>8. BlockTable
  <2>1. DOMAIN links = {}
    <3>1. links = <<>>
      BY Zenon DEF Init
    <3> QED BY <3>1
  <2> QED BY <2>1, Zenon DEF BlockTable
<1>9. PathExclusion
  BY DEF Init, PathExclusion
<1> QED BY <1>1, <1>3, <1>4, <1>5, <1>6, <1>7, <1>8, <1>9 DEF Inv, TypeOK

LEMMA NextInv ==
    ASSUME Inv, [Next]_vars
    PROVE  Inv'
<1>1. CASE HandlerStep
  BY <1>1, HandlerStepInv
<1>2. CASE FsStep
  BY <1>2, FsStepInv
<1>3. CASE Event
  BY <1>3, StartInv, SendOnlyInv, FsAckTimerInv, ShutdownFinishInv, ResponseInv, DigestInv, IoReplyInv, Zenon DEF Event
<1>4. CASE UNCHANGED vars
  <2>1. UNCHANGED netVars /\ UNCHANGED <<fsVars, diskVars>>
    BY <1>4 DEF vars, netVars
  <2> QED BY <2>1, NetKept, FsKept DEF Inv, TypeOK
<1> QED BY <1>1, <1>2, <1>3, <1>4 DEF Next

\* The inductive invariant holds in every reachable state.
THEOREM Invariance == Spec => []Inv
<1>1. Init => Inv
  BY InitInv
<1>2. Inv /\ [Next]_vars => Inv'
  BY NextInv
<1> QED BY <1>1, <1>2, PTL DEF Spec

\* The state is well typed: slots, iterators, commands and diffs always refer to
\* files, versions and blocks that exist, whatever the peers and the disk do.
THEOREM TypeCorrect == Spec => []TypeOK
<1>1. Inv => TypeOK
  BY DEF Inv
<1> QED BY <1>1, Invariance, PTL

\* rx_blocks_requested is the number of occupied slots of block_requests and never
\* exceeds blocks_max_requested: the search of preprocess_block ends.
THEOREM SlotsCounted == Spec => []SlotDiscipline
<1>1. Inv => SlotDiscipline
  BY DEF Inv
<1> QED BY <1>1, Invariance, PTL

\* cluster_t::locked_paths is exactly what the controllers' guards hold, and no
\* path is held by two controllers.
THEOREM PathsExclusive == Spec => []PathExclusion
<1>1. Inv => PathExclusion
  BY DEF Inv
<1> QED BY <1>1, Invariance, PTL

\* The block table follows the files: one run of occurrences per file, that of
\* the version the file has.
THEOREM TableCorrect == Spec => []BlockTable
<1>1. Inv => BlockTable
  BY DEF Inv
<1> QED BY <1>1, Invariance, PTL
=============================================================================
