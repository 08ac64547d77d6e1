----------------------------- MODULE Controller -----------------------------
(***************************************************************************)
(* Pulling files: the controllers (net/controller_actor.cpp, one per peer  *)
(* connection), the cluster model they share (model/) and the file actor   *)
(* (fs/file_actor.cpp) that executes their commands, for one folder.       *)
(*                                                                         *)
(* All controllers live on one thread and share one message queue: a       *)
(* handler runs to its end, and the messages it sends, a model update for  *)
(* instance, are delivered in order before anything that arrives from      *)
(* outside.  "agenda" is that queue together with what is left of the      *)
(* running handler: its head is the next step, forced, and an event from   *)
(* outside (the peer, the hasher, the file actor, a timer) is taken only   *)
(* when it is empty.  "io", "diffs" and "inner" are the stack_context_t of *)
(* the running handler.  The file actor runs on its own thread, but meets  *)
(* the others only in two queues, so its steps are interleaved with whole  *)
(* cascades of the net thread.                                             *)
(*                                                                         *)
(* A version of a file is a number and stands for the file's sequence too; *)
(* Content gives the blocks of every version (<<>>: an empty file).        *)
(* Concurrent versions, hence conflicts, are not part of this module.      *)
(***************************************************************************)
EXTENDS Integers, Sequences, FiniteSets, BlockLinks

CONSTANTS
    Conn,           \* connections: each runs one controller, once
    Peer,           \* remote devices
    PeerOf,         \* the peer a connection leads to
    Self,           \* the local device
    Name,           \* file names
    Rank,           \* the pull order of the folder, as a rank of the names
    Block,          \* block hashes
    Hole,           \* bytes of a file that were never written
    None,           \* an empty slot, no iterator, no controller
    Content,        \* name -> sequence of versions, each a sequence of blocks
    Offer,          \* peer -> name -> the versions the peer announces
    MaxRequested,   \* blocks_max_requested
    WriteRequests,  \* blocks_simultaneous_write
    RequestPool,    \* request_pool, in blocks
    Faults          \* what the environment may do, a subset of FaultKinds

FaultKinds == {"peer_down", "shutdown", "response_error", "bad_data", "io_error", "fs_silent"}

ASSUME ConnAssumption == IsFiniteSet(Conn) /\ None \notin Conn /\ PeerOf \in [Conn -> Peer]
ASSUME SelfAssumption == Self \notin Peer
ASSUME RequestAssumption == MaxRequested \in Nat \ {0}
ASSUME PoolAssumption == WriteRequests \in Nat \ {0} /\ RequestPool \in Nat
ASSUME ContentAssumption == Content \in [Name -> Seq(Seq(Block))] /\ Hole \notin Block
ASSUME OfferAssumption ==
    /\ Offer \in [Peer -> [Name -> SUBSET Nat]]
    /\ \A p \in Peer, n \in Name : Offer[p][n] \subseteq DOMAIN Content[n]
ASSUME RankAssumption == Rank \in [Name -> Nat]
ASSUME FaultsAssumption == Faults \subseteq FaultKinds

File == (Peer \cup {Self}) \X Name
Slot == 0..(MaxRequested - 1)
BlocksOf(n, v) == IF v = 0 THEN <<>> ELSE Content[n][v]

\* peer_request_context_t; the state of a blocks_iterator_t
Req == {r \in [n : Name, i : Nat, b : Block, v : Nat] :
            /\ r.v <= Len(Content[r.n])
            /\ r.i \in DOMAIN BlocksOf(r.n, r.v) /\ r.b = BlocksOf(r.n, r.v)[r.i]}
Iterator == {x \in [n : Name, i : Nat, v : Nat] :
            x.v <= Len(Content[x.n]) /\ x.i <= Len(BlocksOf(x.n, x.v))}

ASSUME NoneAssumption == None \notin Req \cup Iterator

VARIABLES
    \* the cluster model
    ver,        \* version of each file_info_t, 0 when there is none
    have,       \* indices of its blocks that carry LOCAL_MASK
    unreach,    \* f_unreachable
    links,      \* the block table (BlockLinks)
    locked,     \* blocks with LOCK_MASK
    paths,      \* cluster_t::locked_paths
    writeReq,   \* cluster_t::write_requests
    syncs,      \* folder_t's counter of running synchronizations
    iterOf,     \* device_t::iterator: the controller that created it
    \* the controllers
    st,         \* life cycle of the actor
    subs,       \* the controllers subscribed to model updates, in order
    peer,       \* peer_address is set, resource::peer is held
    slots,      \* block_requests
    next,       \* block_requests_next
    rx,         \* rx_blocks_requested
    pool,       \* request_pool
    iter,       \* block_iterator: file, sequence, next index (0: none)
    queue,      \* files_queue of the controller's file_iterator
    postponed,  \* postponed_files_t::block_2_files
    ready,      \* postponed_files_t::ready
    guards,     \* synchronizing_files
    finished,   \* those with guard_t::finished
    fetching,   \* folder_synchronization_t::blocks, with their counters
    sync,       \* that object: absent, idle or active (synchronizing)
    wqueue,     \* block_write_queue
    fsReqs,     \* resource::fs
    hashing,    \* blocks in the hasher (resource::hash)
    timer,      \* fs_ack_timer is armed
    \* the net thread
    agenda, io, diffs, inner,
    failed,     \* assertions of the code that did not hold
    \* the file actor
    fsq,        \* batches of commands on their way to it
    replies,    \* batches on their way back
    handle,     \* context_cache: what an open file of a controller refers to
    tmp,        \* temporary files (<<>>: none)
    disk        \* the files themselves (<<>>: empty or none)

modelVars == <<ver, have, unreach, links>>
lockVars  == <<locked, paths>>
countVars == <<writeReq, syncs>>
lifeVars  == <<st, subs, peer, timer>>
reqVars   == <<slots, next, rx, pool>>
fileVars  == <<iter, queue, postponed, ready>>
guardVars == <<guards, finished>>
fetchVars == <<fetching, sync>>
ctxVars   == <<io, diffs, inner>>
resVars   == <<fsReqs, hashing>>
fsVars    == <<fsq, replies>>
diskVars  == <<handle, tmp, disk>>
vars == <<modelVars, lockVars, countVars, iterOf, lifeVars, reqVars, fileVars, guardVars,
          fetchVars, wqueue, resVars, agenda, ctxVars, failed, fsVars, diskVars>>

-----------------------------------------------------------------------------
\* Commands (fs/messages.h) and diffs (model/diff/), with what the handlers read.
Append_(n, i, b, len) == [op |-> "append", n |-> n, i |-> i, b |-> b, src |-> n, j |-> 0, len |-> len, ok |-> TRUE]
Clone(n, i, b, len, m, j) == [op |-> "clone", n |-> n, i |-> i, b |-> b, src |-> m, j |-> j, len |-> len, ok |-> TRUE]
FileCmd(op, n, len) == [op |-> op, n |-> n, len |-> len, ok |-> TRUE]
IsWrite(cmd) == cmd.op \in {"append", "clone"}

BlockAck(p, cmd) == [t |-> "block_ack", p |-> p, n |-> cmd.n, i |-> cmd.i, b |-> cmd.b, unlock |-> cmd.op = "append"]
Unreachable(p, n) == [t |-> "mark_reachable", p |-> p, n |-> n]
Advance(p, n, v) == [t |-> "advance", p |-> p, n |-> n, v |-> v]
UpdateFolder(p, n, v) == [t |-> "update_folder", p |-> p, n |-> n, v |-> v]
SyncDiff(kind) == [t |-> kind]

\* What is left of a handler, and the messages in the queue.
Step(k, c) == [k |-> k, c |-> c]
BlockStep(k, c, b) == [k |-> k, c |-> c, b |-> b]
CancelSync(c, n) == [k |-> "cancel", c |-> c, n |-> n]
Visit(c, from, ds) == [k |-> "visit", c |-> c, from |-> from, ds |-> ds]
Update(from, ds) == [k |-> "apply", from |-> from, rest |-> ds, ds |-> ds]

Head_(k) == agenda # <<>> /\ Head(agenda).k = k
Then(steps) == agenda' = steps \o Tail(agenda)
ThenSend(steps, msgs) == agenda' = steps \o Tail(agenda) \o msgs

\* A controller that holds no resource any more ends in the same cascade.
CanFinish(c) == st[c] = "stopping" /\ ~peer[c] /\ fsReqs[c] = 0 /\ hashing[c] = {}
Idle == agenda = <<>> /\ \A c \in Conn : ~CanFinish(c)

Without(s, x) ==
    IF \E k \in DOMAIN s : s[k] = x
    THEN LET k == MinOf({j \in DOMAIN s : s[j] = x})
         IN  SubSeq(s, 1, k - 1) \o SubSeq(s, k + 1, Len(s))
    ELSE s

Blocks(f) == BlocksOf(f[2], ver[f])
Mine(c, n) == <<PeerOf[c], n>>
Local(n) == <<Self, n>>
Complete(f) == have[f] = DOMAIN Blocks(f)     \* file_info_t::is_locally_available

\* resolve() of model/misc/resolver.cpp is not "ignore": the peer's version is
\* newer than the local one and at least as new as every other peer's.
Resolve(vs, us, p, n) ==
    /\ vs[<<p, n>>] > vs[Local(n)]
    /\ ~us[<<p, n>>]
    /\ \A q \in Peer : vs[<<q, n>>] <= vs[<<p, n>>]

WriteCmd == [op : {"append", "clone"}, n : Name, i : Nat, b : Block, src : Name, j : Nat, len : Nat, ok : BOOLEAN]
Cmd == WriteCmd \cup [op : {"finish", "copy", "meta"}, n : Name, len : Nat, ok : BOOLEAN]

Diff ==
    [t : {"block_ack"}, p : Peer, n : Name, i : Nat, b : Block, unlock : BOOLEAN]
    \cup [t : {"mark_reachable"}, p : Peer, n : Name]
    \cup {d \in [t : {"advance", "update_folder"}, p : Peer, n : Name, v : Nat] : d.v <= Len(Content[d.n])}
    \cup [t : {"synchronization_start", "synchronization_finish"}]

Task ==
    [k : {"pull", "flush", "flushInner", "trigger", "stop", "unsubscribe"}, c : Conn]
    \cup [k : {"release", "unlock"}, c : Conn, b : Block]
    \cup [k : {"cancel"}, c : Conn, n : Name]
    \cup [k : {"visit"}, c : Conn, from : Conn, ds : Seq(Diff)]
    \cup [k : {"apply"}, from : Conn, rest : Seq(Diff), ds : Seq(Diff)]
    \cup [k : {"reply"}, c : Conn, cmds : Seq(Cmd)]

Predown == [op |-> "predown"]
Batch == [c : Conn, todo : Seq(Cmd \cup {Predown}) \ {<<>>}, done : Seq(Cmd)]
Bytes == Seq(Block \cup {Hole})

TypeModel ==
    /\ ver \in [File -> Nat] /\ \A f \in File : ver[f] <= Len(Content[f[2]])
    /\ have \in [File -> SUBSET Nat] /\ unreach \in [File -> BOOLEAN]
    /\ links \in Seq([f : File, blocks : Seq(Block), local : SUBSET Nat])
    /\ locked \subseteq Block /\ paths \subseteq Name
    /\ writeReq \in Int /\ syncs \in Int /\ iterOf \in [Peer -> Conn \cup {None}]

TypeRequests ==
    /\ st \in [Conn -> {"none", "up", "stopping", "down"}] /\ subs \in Seq(Conn)
    /\ peer \in [Conn -> BOOLEAN] /\ timer \in [Conn -> BOOLEAN]
    /\ slots \in [Conn -> [Slot -> Req \cup {None}]] /\ next \in [Conn -> Slot]
    /\ rx \in [Conn -> Int] /\ pool \in [Conn -> Int]
    /\ fsReqs \in [Conn -> Nat] /\ hashing \in [Conn -> SUBSET Req]

TypeFiles ==
    /\ iter \in [Conn -> Iterator \cup {None}] /\ queue \in [Conn -> SUBSET Name]
    /\ postponed \in [Conn -> SUBSET (Block \X Name)] /\ ready \in [Conn -> SUBSET Name]
    /\ guards \in [Conn -> SUBSET Name] /\ finished \in [Conn -> SUBSET Name]
    /\ fetching \in [Conn -> [Block -> Nat]] /\ sync \in [Conn -> {"absent", "idle", "active"}]
    /\ wqueue \in [Conn -> Seq(WriteCmd)]

TypeThread ==
    /\ agenda \in Seq(Task) /\ io \in Seq(Cmd) /\ diffs \in Seq(Diff) /\ inner \in Seq(Diff)

TypeFs ==
    /\ fsq \in Seq(Batch) /\ replies \in Seq([c : Conn, cmds : Seq(Cmd)])
    /\ handle \in [Conn -> [Name -> {"no", "tmp", "disk", "gone"}]]
    /\ tmp \in [Name -> Bytes] /\ disk \in [Name -> Bytes]

\* The types of the state: every slot, iterator, command and diff refers to
\* existing files, to versions that were announced and to blocks at their index.
TypeOK == TypeModel /\ TypeRequests /\ TypeFiles /\ TypeThread /\ TypeFs

Init ==
    /\ ver = [f \in File |-> 0] /\ have = [f \in File |-> {}] /\ unreach = [f \in File |-> FALSE]
    /\ links = <<>>
    /\ locked = {} /\ paths = {} /\ writeReq = WriteRequests /\ syncs = 0
    /\ iterOf = [p \in Peer |-> None]
    /\ st = [c \in Conn |-> "none"] /\ subs = <<>> /\ peer = [c \in Conn |-> FALSE]
    /\ slots = [c \in Conn |-> [k \in Slot |-> None]] /\ next = [c \in Conn |-> 0]
    /\ rx = [c \in Conn |-> 0] /\ pool = [c \in Conn |-> RequestPool]
    /\ iter = [c \in Conn |-> None] /\ queue = [c \in Conn |-> {}]
    /\ postponed = [c \in Conn |-> {}] /\ ready = [c \in Conn |-> {}]
    /\ guards = [c \in Conn |-> {}] /\ finished = [c \in Conn |-> {}]
    /\ fetching = [c \in Conn |-> [b \in Block |-> 0]] /\ sync = [c \in Conn |-> "absent"]
    /\ wqueue = [c \in Conn |-> <<>>]
    /\ fsReqs = [c \in Conn |-> 0] /\ hashing = [c \in Conn |-> {}] /\ timer = [c \in Conn |-> FALSE]
    /\ agenda = <<>> /\ io = <<>> /\ diffs = <<>> /\ inner = <<>> /\ failed = {}
    /\ fsq = <<>> /\ replies = <<>>
    /\ handle = [c \in Conn |-> [n \in Name |-> "no"]]
    /\ tmp = [n \in Name |-> <<>>] /\ disk = [n \in Name |-> <<>>]

-----------------------------------------------------------------------------
\* pull_next: one iteration of its loop per step.
Running == Head(agenda).c

CanPullMore(c) ==
    rx[c] < MaxRequested /\ pool[c] >= 0 /\ st[c] = "up" /\ writeReq # 0

\* blocks_iterator_t::advance and prepare: the next index without the bit, 0
\* (wrong_index) when there is none or the file is unreachable.
NextIndex(f, from) ==
    LET is == {i \in from..Len(Blocks(f)) : i \notin have[f]}
    IN  IF unreach[f] \/ is = {} THEN 0 ELSE MinOf(is)

IterValid(c) == iter[c].i # 0 /\ ver[Mine(c, iter[c].n)] = iter[c].v

NothingFetched(c) == \A b \in Block : fetching[c][b] = 0

\* acquire_block and start_fetching
AcquireBlock(c, b) ==
    /\ fetching' = [fetching EXCEPT ![c][b] = @ + 1]
    /\ sync' = [sync EXCEPT ![c] = IF NothingFetched(c) \/ @ = "active" THEN "active" ELSE "idle"]
    /\ diffs' = IF NothingFetched(c) /\ sync[c] # "active" THEN Append(diffs, SyncDiff("synchronization_start")) ELSE diffs

\* stack_context_t::push_checked
PushChecked(c, cmd) ==
    IF st[c] # "up" THEN UNCHANGED <<io, wqueue, writeReq>>
    ELSE IF writeReq # 0
         THEN io' = Append(io, cmd) /\ writeReq' = writeReq - 1 /\ UNCHANGED wqueue
         ELSE wqueue' = [wqueue EXCEPT ![c] = Append(@, cmd)] /\ UNCHANGED <<io, writeReq>>

Wrap(id) == IF id >= MaxRequested THEN id - MaxRequested ELSE id

\* The search of preprocess_block: the first free slot from block_requests_next on.
FreeSlot(c) ==
    LET At(k) == Wrap(next[c] + k)
        free == {k \in Slot : slots[c][At(k)] = None}
    IN  At(MinOf(free))

\* mutant: the request is not counted
RequestBlockUncounted(c, n, i, b) ==
    LET id == FreeSlot(c) IN
    /\ locked' = locked \cup {b}
    /\ slots' = [slots EXCEPT ![c][id] = [n |-> n, i |-> i, b |-> b, v |-> ver[Mine(c, n)]]]
    /\ next' = [next EXCEPT ![c] = Wrap(id + 1)]
    /\ pool' = [pool EXCEPT ![c] = @ - 1]
    /\ UNCHANGED rx

\* preprocess_block, for a block that is not local: lock it and request it.
RequestBlock(c, n, i, b) ==
    LET id == FreeSlot(c) IN
    /\ locked' = locked \cup {b}
    /\ slots' = [slots EXCEPT ![c][id] = [n |-> n, i |-> i, b |-> b, v |-> ver[Mine(c, n)]]]
    /\ next' = [next EXCEPT ![c] = Wrap(id + 1)]
    /\ rx' = [rx EXCEPT ![c] = @ + 1]
    /\ pool' = [pool EXCEPT ![c] = @ - 1]

\* preprocess_block and io_clone_block, for a block that is marked local.
CloneBlock(c, n, i, b) ==
    LET src == LocalFile(links, b)
    IN  PushChecked(c, Clone(n, i, b, Len(Blocks(Mine(c, n))), src.f[2], src.i))

PullDone ==
    /\ Head_("pull") /\ ~CanPullMore(Running)
    /\ Then(<<>>)
    /\ UNCHANGED <<modelVars, lockVars, countVars, iterOf, lifeVars, reqVars, fileVars, guardVars,
                   fetchVars, wqueue, resVars, ctxVars, failed, fsVars, diskVars>>

PullBlock ==
    LET c == Running
        n == iter[c].n
        i == iter[c].i
        b == Blocks(Mine(c, n))[i]
    IN
    /\ Head_("pull") /\ CanPullMore(c) /\ iter[c] # None /\ IterValid(c)
    /\ iter' = [iter EXCEPT ![c].i = NextIndex(Mine(c, n), i + 1)]
    /\ \/ /\ b \in locked
          /\ postponed' = [postponed EXCEPT ![c] = @ \cup {<<b, n>>}]
          /\ UNCHANGED <<locked, reqVars, fetchVars, writeReq, wqueue, io, diffs>>
       \/ /\ b \notin locked /\ ~peer[c]
          /\ UNCHANGED <<postponed, locked, reqVars, fetchVars, writeReq, wqueue, io, diffs>>
       \/ /\ b \notin locked /\ peer[c] /\ IsLocal(links, b)
          /\ AcquireBlock(c, b) /\ CloneBlock(c, n, i, b)
          /\ UNCHANGED <<postponed, locked, reqVars>>
       \/ /\ b \notin locked /\ peer[c] /\ ~IsLocal(links, b)
          /\ AcquireBlock(c, b) /\ RequestBlock(c, n, i, b)
          /\ UNCHANGED <<postponed, writeReq, wqueue, io>>
    /\ UNCHANGED <<modelVars, paths, syncs, iterOf, lifeVars, queue, ready, guardVars,
                   resVars, agenda, inner, failed, fsVars, diskVars>>

PullIteratorEnd ==
    LET c == Running IN
    /\ Head_("pull") /\ CanPullMore(c) /\ iter[c] # None /\ ~IterValid(c)
    /\ iter' = [iter EXCEPT ![c] = None]
    /\ UNCHANGED <<modelVars, lockVars, countVars, iterOf, lifeVars, reqVars, queue, postponed, ready, guardVars,
                   fetchVars, wqueue, resVars, agenda, ctxVars, failed, fsVars, diskVars>>

BlockIterator(c, n) ==
    [n |-> n, i |-> NextIndex(Mine(c, n), 1), v |-> ver[Mine(c, n)]]

PullReady ==
    LET c == Running IN
    /\ Head_("pull") /\ CanPullMore(c) /\ iter[c] = None
    /\ \E n \in ready[c] :
          /\ BlockIterator(c, n).i # 0
          /\ ready' = [ready EXCEPT ![c] = @ \ {n}]
          /\ iter' = [iter EXCEPT ![c] = BlockIterator(c, n)]
    /\ UNCHANGED <<modelVars, lockVars, countVars, iterOf, lifeVars, reqVars, queue, postponed, guardVars,
                   fetchVars, wqueue, resVars, agenda, ctxVars, failed, fsVars, diskVars>>

\* compare_with_local; the metadata (time, permissions) may or may not differ.
SameContent(c, n) == ver[Local(n)] > 0 /\ Blocks(Local(n)) = Blocks(Mine(c, n))
Differences(c, n) ==
    IF SameContent(c, n) THEN {"meta", "version"}
    ELSE IF Blocks(Mine(c, n)) = <<>> THEN {"trivial_io"}
    ELSE IF Complete(Mine(c, n)) THEN {"unflushed"} ELSE {"content"}

\* file_info_t::guard_t and cluster_t::lock
TakeGuard(c, n) ==
    /\ guards' = [guards EXCEPT ![c] = @ \cup {n}]
    /\ paths' = paths \cup {n}
    /\ failed' = IF n \in paths THEN failed \cup {"path_lock"} ELSE failed

\* The body of pull_next for the file the iterator returns.
SyncFile(c, n) ==
    LET len == Len(Blocks(Mine(c, n))) IN
    \E d \in Differences(c, n) :
        \/ /\ d = "content"
           /\ IF BlockIterator(c, n).i # 0
              THEN iter' = [iter EXCEPT ![c] = BlockIterator(c, n)] /\ TakeGuard(c, n)
              ELSE UNCHANGED <<iter, guards, paths, failed>>
           /\ UNCHANGED <<io, diffs>>
        \/ /\ d = "trivial_io"
           /\ io' = Append(io, FileCmd("copy", n, 0))
           /\ UNCHANGED <<iter, guards, paths, failed, diffs>>
        \/ /\ d = "unflushed"
           /\ TakeGuard(c, n)
           /\ io' = Append(io, FileCmd("finish", n, len))
           /\ UNCHANGED <<iter, diffs>>
        \/ /\ d = "meta"
           /\ TakeGuard(c, n)
           /\ io' = Append(io, FileCmd("meta", n, len))
           /\ UNCHANGED <<iter, diffs>>
        \/ /\ d = "version"
           /\ diffs' = Append(diffs, Advance(PeerOf[c], n, ver[Mine(c, n)]))
           /\ UNCHANGED <<iter, guards, paths, failed, io>>

PullableLocked(c) ==                            \* mutant: locked paths are not skipped
    {n \in queue[c] : Resolve(ver, unreach, PeerOf[c], n)}

\* file_iterator_t::next: files are taken off the queue in order, the locked
\* and the ignored ones are dropped.
Pullable(c) == {n \in queue[c] : n \notin paths /\ Resolve(ver, unreach, PeerOf[c], n)}

PullFile ==
    LET c == Running
        good == Pullable(c)
        first == CHOOSE n \in good : \A m \in good : Rank[n] <= Rank[m]
    IN
    /\ Head_("pull") /\ CanPullMore(c) /\ iter[c] = None
    /\ \/ ready[c] = {} /\ UNCHANGED ready
       \/ \E n \in ready[c] : BlockIterator(c, n).i = 0 /\ ready' = [ready EXCEPT ![c] = @ \ {n}]
    /\ queue' = [queue EXCEPT ![c] = IF good = {} THEN {} ELSE {m \in @ : Rank[m] > Rank[first]}]
    /\ IF good = {}
       THEN Then(<<>>) /\ UNCHANGED <<iter, guards, paths, io, diffs, failed>>
       ELSE /\ UNCHANGED agenda
            /\ IF first \in guards[c]
               THEN UNCHANGED <<iter, guards, paths, io, diffs, failed>>
               ELSE SyncFile(c, first)
    /\ UNCHANGED <<modelVars, locked, countVars, iterOf, lifeVars, reqVars, postponed, finished,
                   fetchVars, wqueue, resVars, inner, fsVars, diskVars>>

PullNext == PullDone \/ PullBlock \/ PullIteratorEnd \/ PullReady \/ PullFile

-----------------------------------------------------------------------------
\* The other steps of handlers.

\* release_block: finish_fetching, then postponed_files_t::advance, which makes
\* a file ready when the block is the only one the file is postponed on.
PostponedOn(c, n) == {x \in postponed[c] : x[2] = n}
WokenNever(c, b) == {}                          \* mutant
Woken(c, b) == {x \in postponed[c] : x[1] = b /\ PostponedOn(c, x[2]) = {x}}

ReleaseBlock ==
    LET c == Running
        b == Head(agenda).b
        last == fetching[c][b] = 1 /\ \A d \in Block \ {b} : fetching[c][d] = 0
        woken == Woken(c, b)
    IN
    /\ Head_("release")
    /\ Then(<<>>)
    /\ IF fetching[c][b] = 0
       THEN /\ failed' = failed \cup {IF sync[c] = "absent" THEN "get_sync_info" ELSE "finish_fetching"}
            /\ UNCHANGED <<fetchVars, diffs, postponed, ready>>
       ELSE /\ fetching' = [fetching EXCEPT ![c][b] = @ - 1]
            /\ IF last /\ sync[c] = "active"
               THEN /\ diffs' = Append(diffs, SyncDiff("synchronization_finish"))
                    /\ sync' = [sync EXCEPT ![c] = "idle"]
               ELSE UNCHANGED <<diffs, sync>>
            /\ postponed' = [postponed EXCEPT ![c] = @ \ woken]
            /\ ready' = [ready EXCEPT ![c] = @ \cup {x[2] : x \in woken}]
            /\ UNCHANGED failed
    /\ UNCHANGED <<modelVars, lockVars, countVars, iterOf, lifeVars, reqVars, iter, queue, guardVars,
                   wqueue, resVars, io, inner, fsVars, diskVars>>

\* block_info_t::unlock
UnlockBlock ==
    LET b == Head(agenda).b IN
    /\ Head_("unlock")
    /\ Then(<<>>)
    /\ locked' = locked \ {b}
    /\ failed' = IF b \in locked THEN failed ELSE failed \cup {"unlock"}
    /\ UNCHANGED <<modelVars, paths, countVars, iterOf, lifeVars, reqVars, fileVars, guardVars,
                   fetchVars, wqueue, resVars, ctxVars, fsVars, diskVars>>

\* file_info_t::recheck: the iterators of the other peers get the files whose
\* guards are dropped, if they would pull them.
Rechecked(c, names) ==
    [d \in Conn |->
        IF iterOf[PeerOf[d]] = d /\ PeerOf[d] # PeerOf[c]
        THEN queue[d] \cup {n \in names : Resolve(ver, unreach, PeerOf[d], n)}
        ELSE queue[d]]

\* ~guard_t
DropGuards(c, names) ==
    /\ guards' = [guards EXCEPT ![c] = @ \ names]
    /\ finished' = [finished EXCEPT ![c] = @ \ names]
    /\ queue' = Rechecked(c, names)
    /\ paths' = paths \ names

\* cancel_sync
CancelSyncStep ==
    LET c == Running
        n == Head(agenda).n
    IN
    /\ Head_("cancel")
    /\ Then(<<>>)
    /\ iter' = [iter EXCEPT ![c] = IF @ # None /\ @.n = n THEN None ELSE @]
    /\ postponed' = [postponed EXCEPT ![c] = @ \ PostponedOn(c, n)]
    /\ ready' = [ready EXCEPT ![c] = @ \ {n}]
    /\ DropGuards(c, guards[c] \cap {n})
    /\ UNCHANGED <<modelVars, locked, countVars, iterOf, lifeVars, reqVars,
                   fetchVars, wqueue, resVars, ctxVars, failed, fsVars, diskVars>>

Sendable(c) ==
    IF Len(wqueue[c]) < writeReq THEN Len(wqueue[c]) ELSE IF writeReq > 0 THEN writeReq ELSE 0

\* ~stack_context_t: writes that waited are sent while the pool lasts, all the
\* commands as one batch, then the diffs as one model update.
FlushContext(c, cmds, ds) ==
    LET k == Sendable(c)
        batch == cmds \o SubSeq(wqueue[c], 1, k)
    IN
    /\ IF st[c] = "up"
       THEN /\ wqueue' = [wqueue EXCEPT ![c] = SubSeq(@, k + 1, Len(@))]
            /\ writeReq' = writeReq - k
            /\ IF batch = <<>>
               THEN UNCHANGED <<fsq, fsReqs>>
               ELSE /\ fsq' = Append(fsq, [c |-> c, todo |-> batch, done |-> <<>>])
                    /\ fsReqs' = [fsReqs EXCEPT ![c] = @ + 1]
       ELSE UNCHANGED <<wqueue, writeReq, fsq, fsReqs>>
    /\ ThenSend(<<>>, IF ds = <<>> THEN <<>> ELSE <<Update(c, ds)>>)
    /\ UNCHANGED <<modelVars, lockVars, syncs, iterOf, lifeVars, reqVars, fileVars, guardVars,
                   fetchVars, hashing, failed, replies, diskVars>>

\* The context of on_message(Response), destroyed before that of on_forward.
FlushInner ==
    /\ Head_("flushInner")
    /\ FlushContext(Running, <<>>, inner)
    /\ inner' = <<>> /\ UNCHANGED <<io, diffs>>

Flush ==
    /\ Head_("flush")
    /\ FlushContext(Running, io, diffs)
    /\ io' = <<>> /\ diffs' = <<>> /\ UNCHANGED inner

\* mark_unreachable: the flag at once, the diff for the others.
MarkUnreachable(f) == unreach' = [unreach EXCEPT ![f] = TRUE]
UnreachableDiff(f) == IF unreach[f] THEN <<>> ELSE <<Unreachable(f[1], f[2])>>

Regained(cmd) == IF IsWrite(cmd) THEN 1 ELSE 0

\* on_postprocess_io and postprocess_io, one command per step.
PostprocessIo ==
    LET c == Running
        cmds == Head(agenda).cmds
        cmd == Head(cmds)
        f == Mine(c, cmd.n)
    IN
    /\ Head_("reply")
    /\ IF cmds = <<>>
       THEN Then(<<Step("pull", c), Step("flush", c)>>) /\ UNCHANGED <<writeReq, unreach, diffs>>
       ELSE /\ writeReq' = writeReq + Regained(cmd)
            /\ IF cmd.ok
               THEN /\ diffs' = Append(diffs, IF IsWrite(cmd) THEN BlockAck(PeerOf[c], cmd)
                                              ELSE Advance(PeerOf[c], cmd.n, ver[f]))
                    /\ UNCHANGED unreach
               ELSE /\ MarkUnreachable(f)
                    /\ diffs' = diffs \o UnreachableDiff(f)
            /\ ThenSend(<<[Head(agenda) EXCEPT !.cmds = Tail(@)]>>, IF cmd.ok THEN <<>> ELSE <<Step("trigger", c)>>)
    /\ UNCHANGED <<ver, have, links, lockVars, syncs, iterOf, lifeVars, reqVars, fileVars, guardVars,
                   fetchVars, wqueue, resVars, io, inner, failed, fsVars, diskVars>>

\* do_shutdown asks the supervisor, which asks the actor: messages that were
\* sent in between are delivered before shutdown_start.
ShutdownTrigger ==
    /\ Head_("trigger")
    /\ ThenSend(<<>>, <<Step("stop", Running)>>)
    /\ UNCHANGED <<modelVars, lockVars, countVars, iterOf, lifeVars, reqVars, fileVars, guardVars,
                   fetchVars, wqueue, resVars, ctxVars, failed, fsVars, diskVars>>

\* shutdown_start and file_actor_t::on_controller_predown's message
ShutdownStart ==
    LET c == Running IN
    /\ Head_("stop")
    /\ IF st[c] = "up"
       THEN /\ st' = [st EXCEPT ![c] = "stopping"]
            /\ timer' = [timer EXCEPT ![c] = fsReqs[c] > 0]
            /\ fsq' = Append(fsq, [c |-> c, todo |-> <<Predown>>, done |-> <<>>])
            /\ ThenSend(<<>>, <<Step("unsubscribe", c)>>)
       ELSE Then(<<>>) /\ UNCHANGED <<st, timer, fsq>>
    /\ UNCHANGED <<modelVars, lockVars, countVars, iterOf, subs, peer, reqVars, fileVars, guardVars,
                   fetchVars, wqueue, resVars, ctxVars, failed, replies, diskVars>>

Unsubscribe ==
    /\ Head_("unsubscribe")
    /\ subs' = Without(subs, Running)
    /\ Then(<<>>)
    /\ UNCHANGED <<modelVars, lockVars, countVars, iterOf, st, peer, timer, reqVars, fileVars, guardVars,
                   fetchVars, wqueue, resVars, ctxVars, failed, fsVars, diskVars>>

-----------------------------------------------------------------------------
\* A model update: the diffs are applied in order, then visited in order by
\* every subscribed controller, which goes on pulling.
Visits(who, from, ds) == [k \in DOMAIN who |-> Visit(who[k], from, ds)]

\* block_ack_t::apply_impl; the index is that of the file as it is now.
ApplyBlockAck(d) ==
    LET f == <<d.p, d.n>> IN
    /\ IF d.i \notin DOMAIN Blocks(f)
       THEN failed' = failed \cup {"block_index"} /\ UNCHANGED <<have, links>>
       ELSE /\ have' = [have EXCEPT ![f] = @ \cup {d.i}]
            /\ links' = IF d.i \in have[f] THEN links ELSE MarkLocalAvailable(links, Blocks(f)[d.i], f)
            /\ UNCHANGED failed
    /\ UNCHANGED <<ver, unreach, syncs, queue>>

\* advance_t::apply_impl: the local copy gets the version and all its blocks.
ApplyAdvance(d) ==
    LET f == Local(d.n)
        blocks == BlocksOf(d.n, d.v)
    IN
    /\ ver' = [ver EXCEPT ![f] = d.v]
    /\ have' = [have EXCEPT ![f] = DOMAIN blocks]
    /\ links' = AssignLocalBlocks(links, f, blocks)
    /\ UNCHANGED <<unreach, syncs, queue, failed>>

\* file_iterator_t::on_upsert
Upserted(vs, p, n) ==
    [c \in Conn |-> IF iterOf[p] = c /\ Resolve(vs, unreach, p, n) THEN queue[c] \cup {n} ELSE queue[c]]

\* update_folder_t::apply_impl: the file is updated in place and handed to the
\* peer's file iterator.
ApplyUpdateFolder(d) ==
    LET f == <<d.p, d.n>>
        new == BlocksOf(d.n, d.v)
    IN
    /\ ver' = [ver EXCEPT ![f] = d.v]
    /\ have' = [have EXCEPT ![f] = CarriedOver(links, f, new)]
    /\ links' = AssignBlocks(links, f, new)
    /\ queue' = Upserted(ver', d.p, d.n)
    /\ UNCHANGED <<unreach, syncs, failed>>

ApplySync(delta) ==
    /\ syncs' = syncs + delta
    /\ failed' = IF syncs + delta < 0 THEN failed \cup {"adjust_synchronization"} ELSE failed
    /\ UNCHANGED <<modelVars, queue>>

ApplyDiff ==
    LET task == Head(agenda)
        d == Head(task.rest)
    IN
    /\ Head_("apply")
    /\ IF task.rest = <<>>
       THEN Then(Visits(subs, task.from, task.ds)) /\ UNCHANGED <<modelVars, syncs, queue, failed>>
       ELSE /\ Then(<<[task EXCEPT !.rest = Tail(@)]>>)
            /\ \/ d.t = "block_ack" /\ ApplyBlockAck(d)
               \/ d.t = "advance" /\ ApplyAdvance(d)
               \/ d.t = "update_folder" /\ ApplyUpdateFolder(d)
               \/ d.t = "mark_reachable" /\ MarkUnreachable(<<d.p, d.n>>)
                  /\ UNCHANGED <<ver, have, links, syncs, queue, failed>>
               \/ d.t = "synchronization_start" /\ ApplySync(1)
               \/ d.t = "synchronization_finish" /\ ApplySync(-1)
    /\ UNCHANGED <<lockVars, writeReq, iterOf, lifeVars, reqVars, iter, postponed, ready, guardVars,
                   fetchVars, wqueue, resVars, ctxVars, fsVars, diskVars>>

\* mutant: a file is finished before all its blocks are there
FinishingEarly(c, d) == d.n \in guards[c] /\ d.n \notin finished[c]
Finishing(c, d) == Complete(Mine(c, d.n)) /\ d.n \in guards[c] /\ d.n \notin finished[c]

UnlockAcked(c, d) == IF d.unlock THEN <<BlockStep("unlock", c, d.b)>> ELSE <<>>

\* operator()(block_ack_t): the last block of a file finishes it.
VisitBlockAck(c, d, rest) ==
    LET f == Mine(c, d.n)
        finishing == Finishing(c, d)
    IN
    /\ finished' = [finished EXCEPT ![c] = IF finishing THEN @ \cup {d.n} ELSE @]
    /\ io' = IF finishing /\ Resolve(ver, unreach, PeerOf[c], d.n)
             THEN Append(io, FileCmd("finish", d.n, Len(Blocks(f)))) ELSE io
    /\ Then(<<BlockStep("release", c, d.b)>> \o UnlockAcked(c, d) \o rest)

\* The file operators that cancel: update_folder_t and mark_reachable_t of the
\* controller itself, advance_t of its peer's files that have blocks.
Cancels(c, from, d) ==
    \/ d.t \in {"update_folder", "mark_reachable"} /\ from = c
    \/ d.t = "advance" /\ d.p = PeerOf[c] /\ Blocks(Mine(c, d.n)) # <<>>

VisitDiff ==
    LET task == Head(agenda)
        c == Running
        d == Head(task.ds)
        rest == <<[task EXCEPT !.ds = Tail(@)]>>
    IN
    /\ Head_("visit")
    /\ IF task.ds = <<>>
       THEN Then(<<Step("pull", c), Step("flush", c)>>) /\ UNCHANGED <<finished, io>>
       ELSE IF d.t = "block_ack" /\ d.p = PeerOf[c]
            THEN VisitBlockAck(c, d, rest)
            ELSE /\ Then((IF Cancels(c, task.from, d) THEN <<CancelSync(c, d.n)>> ELSE <<>>) \o rest)
                 /\ UNCHANGED <<finished, io>>
    /\ UNCHANGED <<modelVars, lockVars, countVars, iterOf, lifeVars, reqVars, fileVars, guards,
                   fetchVars, wqueue, resVars, diffs, inner, failed, fsVars, diskVars>>

HandlerStep ==
    \/ PullNext \/ ReleaseBlock \/ UnlockBlock \/ CancelSyncStep \/ FlushInner \/ Flush
    \/ PostprocessIo \/ ShutdownTrigger \/ ShutdownStart \/ Unsubscribe \/ ApplyDiff \/ VisitDiff

-----------------------------------------------------------------------------
\* Events from outside, taken when the cascade of the previous one is over.

\* cluster_supervisor_t launches a controller for a peer that went online, even
\* when one of an earlier connection is still shutting down; on_start, and the
\* visit of the first cluster_update_t, which creates the file iterator.
Start(c) ==
    LET p == PeerOf[c] IN
    /\ Idle /\ st[c] = "none"
    /\ \A d \in Conn : PeerOf[d] = p => ~peer[d]
    /\ st' = [st EXCEPT ![c] = "up"]
    /\ peer' = [peer EXCEPT ![c] = TRUE]
    /\ subs' = Append(subs, c)
    /\ failed' = IF iterOf[p] = None THEN failed ELSE failed \cup {"create_iterator"}
    /\ iterOf' = [iterOf EXCEPT ![p] = c]
    /\ queue' = [queue EXCEPT ![c] = {n \in Name : Resolve(ver, unreach, p, n)}]
    /\ agenda' = Visits(subs', c, <<>>)
    /\ UNCHANGED <<modelVars, lockVars, countVars, timer, reqVars, iter, postponed, ready, guardVars,
                   fetchVars, wqueue, resVars, ctxVars, fsVars, diskVars>>

\* on_message(IndexUpdate)
IndexUpdate(c, n, v) ==
    /\ Idle /\ st[c] = "up" /\ peer[c]
    /\ v \in Offer[PeerOf[c]][n] /\ v > ver[Mine(c, n)]
    /\ diffs' = <<UpdateFolder(PeerOf[c], n, v)>>
    /\ agenda' = <<Step("flush", c)>>
    /\ UNCHANGED <<modelVars, lockVars, countVars, iterOf, lifeVars, reqVars, fileVars, guardVars,
                   fetchVars, wqueue, resVars, io, inner, failed, fsVars, diskVars>>

ReleaseNever(written, c, b) == <<>>                                     \* mutant
ReleaseUnless(written, c, b) == IF written THEN <<>> ELSE <<BlockStep("release", c, b)>>

\* A request is answered for the file it was made for: the sequence is the same.
Current(c, r) == ver[Mine(c, r.n)] = r.v

\* on_message(Response); the peer answers its requests in any order.
Response(c, id, code) ==
    LET r == slots[c][id]
        f == Mine(c, r.n)
        error == Current(c, r) /\ code = "error"
        give_up == error /\ ~unreach[f]
        good == Current(c, r) /\ code = "ok"
    IN
    /\ Idle /\ st[c] = "up" /\ peer[c] /\ r # None
    /\ code = "error" => "response_error" \in Faults
    /\ rx' = [rx EXCEPT ![c] = @ - 1]
    /\ slots' = [slots EXCEPT ![c][id] = None]
    /\ next' = [next EXCEPT ![c] = id]
    /\ pool' = [pool EXCEPT ![c] = IF good THEN @ + 1 ELSE @]
    /\ hashing' = [hashing EXCEPT ![c] = IF good THEN @ \cup {r} ELSE @]
    /\ IF give_up THEN MarkUnreachable(f) ELSE UNCHANGED unreach
    /\ inner' = IF give_up THEN UnreachableDiff(f) ELSE <<>>
    /\ agenda' = (IF give_up THEN <<CancelSync(c, r.n)>> ELSE <<>>)
                 \o <<Step("pull", c)>>
                 \o ReleaseUnless(good, c, r.b)
                 \o <<Step("flushInner", c), Step("flush", c)>>
    /\ UNCHANGED <<ver, have, links, lockVars, countVars, iterOf, lifeVars, fileVars, guardVars,
                   fetchVars, wqueue, fsReqs, io, diffs, failed, fsVars, diskVars>>

\* on_digest; io_append_block writes at the file's first occurrence of the block.
Digest(c, r, matches) ==
    LET f == Mine(c, r.n)
        i == FirstIndex(Blocks(f), r.b)
        alive == st[c] = "up" /\ Current(c, r) /\ peer[c]
        mismatch == alive /\ ~matches
        append == alive /\ matches /\ ~IsMarked(links, f, i)
        pull == alive /\ ~append
    IN
    /\ Idle /\ r \in hashing[c]
    /\ ~matches => "bad_data" \in Faults
    /\ hashing' = [hashing EXCEPT ![c] = @ \ {r}]
    /\ IF mismatch
       THEN MarkUnreachable(f) /\ diffs' = UnreachableDiff(f)
       ELSE UNCHANGED <<unreach, diffs>>
    /\ IF append
       THEN PushChecked(c, Append_(r.n, i, r.b, Len(Blocks(f))))
       ELSE UNCHANGED <<io, wqueue, writeReq>>
    /\ agenda' = ReleaseUnless(append, c, r.b)
                 \o (IF ~append /\ Current(c, r) THEN <<CancelSync(c, r.n)>> ELSE <<>>)
                 \o (IF pull THEN <<Step("pull", c)>> ELSE <<>>)
                 \o <<Step("flush", c)>>
    /\ UNCHANGED <<ver, have, links, lockVars, syncs, iterOf, lifeVars, reqVars, fileVars, guardVars,
                   fetchVars, fsReqs, inner, failed, fsVars, diskVars>>

\* mutant: an answer after the timer is counted as well
IoReplyLate ==
    LET c == Head(replies).c IN
    /\ Idle /\ replies # <<>>
    /\ replies' = Tail(replies)
    /\ IF st[c] = "down"
       THEN UNCHANGED <<fsReqs, agenda, failed>>
       ELSE /\ agenda' = <<[k |-> "reply", c |-> c, cmds |-> Head(replies).cmds]>>
            /\ fsReqs' = [fsReqs EXCEPT ![c] = @ - 1]
            /\ failed' = IF fsReqs[c] = 0 THEN failed \cup {"release_fs"} ELSE failed
    /\ UNCHANGED <<modelVars, lockVars, countVars, iterOf, lifeVars, reqVars, fileVars, guardVars,
                   fetchVars, wqueue, hashing, ctxVars, fsq, diskVars>>

\* on_postprocess_io: a batch comes back; a controller that is down gets nothing.
IoReply ==
    LET c == Head(replies).c IN
    /\ Idle /\ replies # <<>>
    /\ replies' = Tail(replies)
    /\ IF st[c] = "down"
       THEN UNCHANGED <<fsReqs, agenda, failed>>
       ELSE /\ agenda' = <<[k |-> "reply", c |-> c, cmds |-> Head(replies).cmds]>>
            /\ fsReqs' = [fsReqs EXCEPT ![c] = IF @ = 0 THEN 0 ELSE @ - 1]
            /\ failed' = IF fsReqs[c] = 0 THEN failed \cup {"release_fs"} ELSE failed
    /\ UNCHANGED <<modelVars, lockVars, countVars, iterOf, lifeVars, reqVars, fileVars, guardVars,
                   fetchVars, wqueue, hashing, ctxVars, fsq, diskVars>>

\* on_peer_down; a stopping controller makes its peer actor go down.
PeerDown(c) ==
    /\ Idle /\ peer[c]
    /\ st[c] = "up" => "peer_down" \in Faults
    /\ peer' = [peer EXCEPT ![c] = FALSE]
    /\ agenda' = <<Step("trigger", c)>>
    /\ UNCHANGED <<modelVars, lockVars, countVars, iterOf, st, subs, timer, reqVars, fileVars, guardVars,
                   fetchVars, wqueue, resVars, ctxVars, failed, fsVars, diskVars>>

\* on_fs_predown, the shutdown of the application
Shutdown(c) ==
    /\ Idle /\ st[c] = "up" /\ "shutdown" \in Faults
    /\ agenda' = <<Step("trigger", c)>>
    /\ UNCHANGED <<modelVars, lockVars, countVars, iterOf, lifeVars, reqVars, fileVars, guardVars,
                   fetchVars, wqueue, resVars, ctxVars, failed, fsVars, diskVars>>

\* on_fs_ack_timer: the file actor did not answer in time.
FsAckTimer(c) ==
    /\ Idle /\ timer[c] /\ "fs_silent" \in Faults
    /\ timer' = [timer EXCEPT ![c] = FALSE]
    /\ fsReqs' = [fsReqs EXCEPT ![c] = 0]
    /\ writeReq' = writeReq + fsReqs[c]
    /\ UNCHANGED <<modelVars, lockVars, syncs, iterOf, st, subs, peer, reqVars, fileVars, guardVars,
                   fetchVars, wqueue, hashing, agenda, ctxVars, failed, fsVars, diskVars>>

\* ~folder_synchronization_t
FinishedSync(c) ==
    IF ~NothingFetched(c) /\ sync[c] = "active"
    THEN <<Update(c, <<SyncDiff("synchronization_finish")>>)>> ELSE <<>>

Held(c) == {b \in Block : fetching[c][b] > 0}

\* shutdown_finish, once every resource is released: the iterator, then
\* ~folder_synchronization_t, then the guards.
ShutdownFinish(c) ==
    LET p == PeerOf[c] IN
    /\ agenda = <<>> /\ CanFinish(c)
    /\ st' = [st EXCEPT ![c] = "down"]
    /\ timer' = [timer EXCEPT ![c] = FALSE]
    /\ failed' = IF iterOf[p] = c THEN failed ELSE failed \cup {"release_iterator"}
    /\ iterOf' = [iterOf EXCEPT ![p] = None]
    /\ agenda' = FinishedSync(c)
    /\ locked' = locked \ Held(c)
    /\ fetching' = [fetching EXCEPT ![c] = [b \in Block |-> 0]]
    /\ sync' = [sync EXCEPT ![c] = "absent"]
    /\ postponed' = [postponed EXCEPT ![c] = {}] /\ ready' = [ready EXCEPT ![c] = {}]
    /\ DropGuards(c, guards[c])
    \* nothing refers to the rest any more
    /\ slots' = [slots EXCEPT ![c] = [k \in Slot |-> None]] /\ rx' = [rx EXCEPT ![c] = 0]
    /\ iter' = [iter EXCEPT ![c] = None] /\ wqueue' = [wqueue EXCEPT ![c] = <<>>]
    /\ UNCHANGED <<modelVars, countVars, subs, peer, next, pool, resVars, ctxVars, fsVars, diskVars>>

-----------------------------------------------------------------------------
\* The file actor: the commands of the first batch, one per step.
FsHead(op) == Idle /\ fsq # <<>> /\ Head(Head(fsq).todo).op = op
FsConn == Head(fsq).c
FsCmd == Head(Head(fsq).todo)

FsDone(ok) ==
    LET batch == Head(fsq)
        done == Append(batch.done, [FsCmd EXCEPT !.ok = ok])
        todo == Tail(batch.todo)
    IN  IF todo = <<>>
        THEN fsq' = Tail(fsq) /\ replies' = Append(replies, [c |-> batch.c, cmds |-> done])
        ELSE fsq' = <<[batch EXCEPT !.todo = todo, !.done = done]>> \o Tail(fsq) /\ UNCHANGED replies

netVars == <<modelVars, lockVars, countVars, iterOf, lifeVars, reqVars, fileVars, guardVars,
             fetchVars, wqueue, resVars, agenda, ctxVars, failed>>

\* open_file_rw and fs_proxy_t::open_write: a file of the right size is created
\* when there is none; the size of an existing one is left as it is.
OpenedAs(c, n) == IF handle[c][n] = "no" THEN "tmp" ELSE handle[c][n]
OpenedTmp(c, n, len) ==
    IF handle[c][n] = "no" /\ tmp[n] = <<>> THEN [k \in 1..len |-> Hole] ELSE tmp[n]

Put(s, i, x) ==
    [k \in 1..(IF i > Len(s) THEN i ELSE Len(s)) |->
        IF k = i THEN x ELSE IF k <= Len(s) THEN s[k] ELSE Hole]

\* file_t::write through the handle of the controller: an open temporary file
\* that was renamed meanwhile is the file itself.
WriteBlock(c, n, i, x, len) ==
    LET h == OpenedAs(c, n) IN
    /\ handle' = [handle EXCEPT ![c][n] = h]
    /\ tmp' = [tmp EXCEPT ![n] = IF h = "tmp" THEN Put(OpenedTmp(c, n, len), i, x) ELSE @]
    /\ disk' = [disk EXCEPT ![n] = IF h = "disk" THEN Put(@, i, x) ELSE @]

FsAppend ==
    /\ FsHead("append")
    /\ WriteBlock(FsConn, FsCmd.n, FsCmd.i, FsCmd.b, FsCmd.len)
    /\ FsDone(TRUE)
    /\ UNCHANGED netVars

\* The source of a clone is the controller's open file of that name, if it has
\* one (the target itself is open by then), else the file on disk.
FsClone ==
    LET c == FsConn
        cmd == FsCmd
        h == IF cmd.src = cmd.n THEN OpenedAs(c, cmd.n) ELSE handle[c][cmd.src]
        from == IF h = "tmp" THEN (IF cmd.src = cmd.n THEN OpenedTmp(c, cmd.n, cmd.len) ELSE tmp[cmd.src])
                ELSE IF h = "gone" THEN <<>> ELSE disk[cmd.src]
    IN
    /\ FsHead("clone")
    /\ IF cmd.j \in DOMAIN from
       THEN WriteBlock(c, cmd.n, cmd.i, from[cmd.j], cmd.len) /\ FsDone(TRUE)
       ELSE /\ handle' = [handle EXCEPT ![c][cmd.n] = OpenedAs(c, cmd.n)]
            /\ tmp' = [tmp EXCEPT ![cmd.n] = OpenedTmp(c, cmd.n, cmd.len)]
            /\ UNCHANGED disk
            /\ FsDone(FALSE)
    /\ UNCHANGED netVars

\* finish_file: the temporary file is renamed; setting the permissions may
\* still fail after that.
FsFinish ==
    LET c == FsConn
        n == FsCmd.n
    IN
    /\ FsHead("finish")
    /\ IF tmp[n] = <<>>
       THEN handle' = [handle EXCEPT ![c][n] = "no"] /\ UNCHANGED <<tmp, disk>> /\ FsDone(FALSE)
       ELSE /\ disk' = [disk EXCEPT ![n] = tmp[n]]
            /\ tmp' = [tmp EXCEPT ![n] = <<>>]
            /\ handle' = [d \in Conn |-> [handle[d] EXCEPT ![n] =
                             IF d = c THEN "no" ELSE IF @ = "tmp" THEN "disk" ELSE IF @ = "disk" THEN "gone" ELSE @]]
            /\ \E ok \in (IF "io_error" \in Faults THEN BOOLEAN ELSE {TRUE}) : FsDone(ok)
    /\ UNCHANGED netVars

\* remote_copy of an empty or deleted file
FsRemoteCopy ==
    /\ FsHead("copy")
    /\ disk' = [disk EXCEPT ![FsCmd.n] = <<>>]
    /\ FsDone(TRUE)
    /\ UNCHANGED <<netVars, handle, tmp>>

FsUpdateMeta == FsHead("meta") /\ FsDone(TRUE) /\ UNCHANGED <<netVars, diskVars>>

\* An i/o error before anything is changed.
FsError ==
    /\ "io_error" \in Faults
    /\ \E op \in {"append", "clone", "finish", "copy", "meta"} : FsHead(op)
    /\ FsDone(FALSE)
    /\ UNCHANGED <<netVars, diskVars>>

\* on_controller_predown: the controller's files are closed.
FsPredown ==
    /\ FsHead("predown")
    /\ fsq' = Tail(fsq)
    /\ handle' = [handle EXCEPT ![FsConn] = [n \in Name |-> "no"]]
    /\ UNCHANGED <<netVars, replies, tmp, disk>>

FsStep ==
    FsAppend \/ FsClone \/ FsFinish \/ FsRemoteCopy \/ FsUpdateMeta \/ FsError \/ FsPredown

-----------------------------------------------------------------------------
Event ==
    \/ \E c \in Conn : Start(c) \/ PeerDown(c) \/ Shutdown(c) \/ FsAckTimer(c) \/ ShutdownFinish(c)
    \/ \E c \in Conn, n \in Name : \E v \in Offer[PeerOf[c]][n] : IndexUpdate(c, n, v)
    \/ \E c \in Conn, id \in Slot, code \in {"ok", "error"} : Response(c, id, code)
    \/ \E c \in Conn : \E r \in hashing[c], matches \in BOOLEAN : Digest(c, r, matches)
    \/ IoReply

Next == HandlerStep \/ Event \/ FsStep

Spec == Init /\ [][Next]_vars

\* The net thread and the file actor keep running, the hasher and the peer
\* answer, and connections are made; nothing obliges a fault to happen.
Progress ==
    \/ HandlerStep \/ FsStep \/ IoReply
    \/ \E c \in Conn : Start(c) \/ ShutdownFinish(c) \/ (st[c] = "stopping" /\ PeerDown(c))
    \/ \E c \in Conn, n \in Name : \E v \in Offer[PeerOf[c]][n] : IndexUpdate(c, n, v)
    \/ \E c \in Conn, id \in Slot : Response(c, id, "ok")
    \/ \E c \in Conn : \E r \in hashing[c] : Digest(c, r, TRUE)

-----------------------------------------------------------------------------
Range_(s) == {s[k] : k \in DOMAIN s}
Occupied(c) == {k \in Slot : slots[c][k] # None}

\* Requests: rx_blocks_requested counts the occupied slots, so that the search
\* of preprocess_block always finds a free one (its assertion), and never more
\* than blocks_max_requested are outstanding.
SlotDiscipline ==
    \A c \in Conn : rx[c] = Cardinality(Occupied(c)) /\ rx[c] <= MaxRequested

\* Paths: a locked path is one a live controller synchronizes, and no two
\* controllers synchronize the same path (the assertion of cluster_t::lock).
PathExclusion ==
    /\ paths = UNION {guards[c] : c \in Conn}
    /\ \A c, d \in Conn : c # d => guards[c] \cap guards[d] = {}
    /\ "path_lock" \notin failed

\* The block table: every file has at most one run of occurrences, and it is that
\* of the blocks the file has now, so that block_info_t::mark_local_available and
\* io_append_block always find the occurrence they look for.
BlockTable ==
    \A k, l \in DOMAIN links :
        /\ links[k].blocks = Blocks(links[k].f)
        /\ links[k].f = links[l].f => k = l

\* Commands with the file actor, by position: waiting, executed, on their way back.
Waiting == UNION {{k} \X DOMAIN fsq[k].todo : k \in DOMAIN fsq}
Executed == UNION {{k} \X DOMAIN fsq[k].done : k \in DOMAIN fsq}
Answered == UNION {{k} \X DOMAIN replies[k].cmds : k \in DOMAIN replies}
AtFs(P(_, _)) ==
    Cardinality({x \in Waiting : P(fsq[x[1]].c, fsq[x[1]].todo[x[2]])})
    + Cardinality({x \in Executed : P(fsq[x[1]].c, fsq[x[1]].done[x[2]])})
    + Cardinality({x \in Answered : P(replies[x[1]].c, replies[x[1]].cmds[x[2]])})

\* Between cascades: the write requests are all in the pool or with the file
\* actor, so the pool comes back to blocks_simultaneous_write.
WritePool ==
    Idle => writeReq >= 0 /\ writeReq + AtFs(LAMBDA c, cmd : IsWrite(cmd)) = WriteRequests

\* When all controllers are down, and no assertion failed on the way, the pool
\* of write requests is what it was.
PoolRestored ==
    Idle /\ failed = {} /\ (\A c \in Conn : st[c] \in {"none", "down"}) => writeReq = WriteRequests

\* What a controller is doing about a block between cascades.
Outstanding(c, b) ==
    Cardinality({k \in Occupied(c) : slots[c][k].b = b})
    + Cardinality({r \in hashing[c] : r.b = b})
    + Len(SelectSeq(wqueue[c], LAMBDA cmd : cmd.b = b))
    + AtFs(LAMBDA d, cmd : d = c /\ IsWrite(cmd) /\ cmd.b = b)

\* Between cascades: every block acquire_block counted is released once for
\* each request, digest and write that is over, and only then.
FetchAccounting ==
    Idle => \A c \in Conn, b \in Block : st[c] = "up" => fetching[c][b] = Outstanding(c, b)

\* Between cascades: the folder is marked synchronizing by exactly the
\* controllers that are fetching blocks.
SyncCounter ==
    Idle => syncs = Cardinality({c \in Conn : sync[c] = "active"})

\* Requested, hashed or appended, not cloned: the uses the lock is taken for.
Downloads(c, b) ==
    Cardinality({k \in Occupied(c) : slots[c][k].b = b})
    + Cardinality({r \in hashing[c] : r.b = b})
    + Len(SelectSeq(wqueue[c], LAMBDA cmd : cmd.op = "append" /\ cmd.b = b))
    + AtFs(LAMBDA d, cmd : d = c /\ cmd.op = "append" /\ cmd.b = b)

\* Block locks (lock_block in preprocess_block, unlock after block_ack_t): no
\* block is downloaded by two controllers, or twice by one, at a time.
OneDownload ==
    Idle => \A b \in Block : \A c, d \in Conn :
        /\ Downloads(c, b) <= 1
        /\ Downloads(c, b) > 0 /\ Downloads(d, b) > 0 => c = d

\* A block stays locked only while a controller is fetching it: release_block
\* and the unlocking of operator()(block_ack_t) go together.
LocksAreHeld ==
    Idle => locked \subseteq {b \in Block : \E c \in Conn : fetching[c][b] > 0}

\* When all controllers are down (shutdown_finish and the destructors of what they
\* held) no block or path is left locked and the folder is not synchronizing.
CleanShutdown ==
    Idle /\ (\A c \in Conn : st[c] \in {"none", "down"}) => locked = {} /\ paths = {} /\ syncs = 0

\* None of the assertions the handlers make on the way fails: the path is free in
\* cluster_t::lock, the device's iterator is in create_iterator and
\* release_iterator, folder and block are known when the block is released, a block
\* that is unlocked is locked, the folder's counter is positive when it is taken
\* down, the index of an acknowledged block is in range, a released resource is held.
AssertionsHold == failed = {}

\* device_t::create_iterator: a device has no iterator when one is created.
IteratorFree == "create_iterator" \notin failed

\* file_info_t::is_locally_available: the index of an acknowledged block is one
\* of the file's.
BlockIndexInRange == "block_index" \notin failed

\* A file is published whole: io_finish_file is sent, and the temporary file
\* renamed, only when all its blocks are written, so what is on disk under its own
\* name is always the content of some version a peer announced.
PublishedWhole ==
    \A n \in Name : disk[n] = <<>> \/ disk[n] \in Range_(Content[n])

\* Between cascades: the local version advance_t puts into the model is the content on disk,
\* unless a finished file is still to be reported.
ModelMatchesDisk ==
    Idle => \A n \in Name :
        \/ disk[n] = Blocks(Local(n))
        \/ AtFs(LAMBDA c, cmd : cmd.op \in {"finish", "copy"} /\ cmd.n = n) > 0

Newest(n) == CHOOSE v \in 0..Len(Content[n]) :
    /\ v = 0 \/ \E p \in Peer : v \in Offer[p][n]
    /\ \A p \in Peer : \A w \in Offer[p][n] : w <= v

\* Every file a peer offers is here, in its newest version: what pull_next, the
\* postponed files and the recheck of locked ones are to come to.
Pulled == \A n \in Name : ver[Local(n)] = Newest(n)
=============================================================================
