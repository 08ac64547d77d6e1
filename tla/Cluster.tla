------------------------------ MODULE Cluster ------------------------------
(***************************************************************************)
(* The cluster model and the diffs that administer it: who the peers are,  *)
(* which folders exist, with whom they are shared, what each of them has   *)
(* (model/*.cpp, model/diff/modify, contact, peer, advance).               *)
(*                                                                         *)
(* A diff is made from the cluster as it is when its maker runs, and it is *)
(* applied later, when its message is delivered: every constructor below   *)
(* computes the sets of records its diff will touch from the cluster "c"   *)
(* it was given, and Apply changes the cluster of that later moment.       *)
(*                                                                         *)
(* Keys are kept, contents are abstracted.  The pair of index id and max.  *)
(* sequence a peer announces is one "index"; a file is its sequence and    *)
(* the set of its blocks; uuids are numbers, 0 being the nil uuid.         *)
(***************************************************************************)
EXTENDS Integers, FiniteSets, FiniteSetsExt

CONSTANTS Self, Peers, Folders, Names, ConflictOf, Blocks, Indices, Kinds

Devices == Peers \cup {Self}
Absent == [introducer |-> FALSE, autoAccept |-> FALSE, skipRemovals |-> FALSE, known |-> FALSE]

\* cluster_t with its maps; nothing is there before a database is loaded.
EmptyCluster ==
    [peer |-> [p \in Peers |-> Absent], folders |-> {}, infos |-> {}, files |-> {},
     blocks |-> {}, pendingD |-> {}, ignoredD |-> {}, pendingF |-> {},
     views |-> [p \in Peers |-> {}]]

Known(c) == {p \in Peers : c.peer[p].known} \cup {Self}

\* folder_info_t of a device in a folder, file_info_t, pending_folder_t.
Info(f, d, index, seq, by) == [f |-> f, d |-> d, index |-> index, seq |-> seq, by |-> by]
File(f, d, n, uuid, seq, blocks) ==
    [f |-> f, d |-> d, name |-> n, uuid |-> uuid, seq |-> seq, blocks |-> blocks]
Pending(f, d, index, uuid) == [f |-> f, d |-> d, index |-> index, uuid |-> uuid]

\* folder_infos_map_t::by_device and file_infos_map_t::by_name: at most one.
InfoOf(c, f, d) == {i \in c.infos : i.f = f /\ i.d = d}
Shared(c, f, d) == InfoOf(c, f, d) # {}
The(S) == CHOOSE x \in S : TRUE
TheInfo(c, f, d) == The(InfoOf(c, f, d))
FilesOf(c, f, d) == {x \in c.files : x.f = f /\ x.d = d}
Named(c, f, d, n) == {x \in FilesOf(c, f, d) : x.name = n}

\* sequencer_t::next_uuid: a uuid no record has; smaller ones stand for all.
Fresh(used) == CHOOSE u \in 1 .. (Cardinality(used) + 1) :
                   u \notin used /\ \A v \in 1 .. (u - 1) : v \in used
Uuids(c) == {x.uuid : x \in c.files \cup c.pendingF}

\* orphaned_blocks_t::deduce: the blocks of the removed files that no other
\* file of the cluster uses, except the white-listed ones.
DeduceNoUsers(c, gone, keep) == UNION {x.blocks : x \in gone} \ keep    \* mutant
Deduce(c, gone, keep) ==
    {b \in UNION {x.blocks : x \in gone} \ keep : \A y \in c.files \ gone : b \notin y.blocks}

----------------------------------------------------------------------------
(* Diffs *)

\* What a diff does, in the order its parts are applied.
Nothing ==
    [source |-> {}, views |-> {}, folders |-> {}, filesGone |-> {}, infosGone |-> {},
     blocksNew |-> {}, blocksGone |-> {}, pendingGone |-> {}, pendingNew |-> {},
     peers |-> {}, infos |-> {}, folderGone |-> {}, peersGone |-> {}, devices |-> {},
     touched |-> {}, remote |-> {}, local |-> {}]

\* update_peer_t: the device is no longer pending nor ignored.
UpdatePeer(c, p, kind) ==
    [Nothing EXCEPT !.peers = {[p |-> p, kind |-> kind]},
                    !.devices = {[op |-> "unpend", d |-> d] : d \in {p} \cap c.pendingD}
                         \cup {[op |-> "unignore", d |-> d] : d \in {p} \cap c.ignoredD}]

AddPendingDevice(p) == [Nothing EXCEPT !.devices = {[op |-> "pend", d |-> p]}]
RemovePendingDevice(p) == [Nothing EXCEPT !.devices = {[op |-> "unpend", d |-> p]}]
RemoveIgnoredDevice(p) == [Nothing EXCEPT !.devices = {[op |-> "unignore", d |-> p]}]
AddIgnoredDevice(c, p) ==
    [Nothing EXCEPT !.devices = {[op |-> "ignore", d |-> p]}
                         \cup {[op |-> "unpend", d |-> d] : d \in {p} \cap c.pendingD}]

\* unknown_connected_t, ignored_connected_t: a known stranger called again.
UnknownConnected(p) == [Nothing EXCEPT !.touched = {[op |-> "pend", d |-> p]}]
IgnoredConnected(p) == [Nothing EXCEPT !.touched = {[op |-> "ignore", d |-> p]}]

\* upsert_folder_t: the folder, and our own part of it when it is missing.
Upsert(f, d, index, by) == [f |-> f, d |-> d, index |-> index, by |-> by]
UpsertFolder(c, f) ==
    [Nothing EXCEPT !.folders = {f},
                    !.infos = IF Shared(c, f, Self) THEN {} ELSE {Upsert(f, Self, 1, Self)}]

\* share_folder_t: what the peer announced while the folder was pending is
\* the index to start from.
PendingOf(c, f, p) == {x \in c.pendingF : x.f = f /\ x.d = p}
ShareFolder(c, f, p) ==
    [Nothing EXCEPT !.infos = {Upsert(f, p, Max({0} \cup {x.index : x \in PendingOf(c, f, p)}), Self)},
                    !.pendingGone = PendingOf(c, f, p)]

\* remove_folder_infos_t, reset_folder_infos_t and remove_files_t: the files
\* go with the share; the blocks are left to the caller.
UnshareAll(d, c, infos) ==
    [d EXCEPT !.infosGone = @ \cup infos,
              !.filesGone = @ \cup {x \in c.files : \E i \in infos : i.f = x.f /\ i.d = x.d}]
WithOrphans(d, c) == [d EXCEPT !.blocksGone = @ \cup Deduce(c, d.filesGone, {})]

UnshareFolder(c, f, p) == WithOrphans(UnshareAll(Nothing, c, InfoOf(c, f, p)), c)

\* remove_folder_t: every peer that has told its index is pending again; as
\* there is one pending folder of an id, the last of them is ("last").
Returning(c, f) == {i \in c.infos : i.f = f /\ i.d # Self /\ i.index # 0}
RemoveFolder(c, f, last, u) ==
    [WithOrphans(UnshareAll(Nothing, c, {i \in c.infos : i.f = f}), c)
        EXCEPT !.folderGone = {f},
               !.pendingNew = {Pending(f, i.d, i.index, u) : i \in last}]

\* remove_peer_t.
RemovePeer(c, p) ==
    [WithOrphans(UnshareAll(Nothing, c, {i \in c.infos : i.d = p}), c)
        EXCEPT !.pendingGone = {x \in c.pendingF : x.d = p}, !.peersGone = {p}]

----------------------------------------------------------------------------
(* cluster_update_t: a peer's ClusterConfig, msg[f][d] the index announced  *)
(* for device d in folder f, 0 when d is not listed.                        *)

Listed(msg, f) == {d \in Devices : msg[f][d] # 0}

\* 1st pass, the source: a folder it shares and we do not is taken when the
\* peer is auto-accepted, otherwise offered to the user.
Unaccepted(c, p, msg) == {f \in Folders : p \in Listed(msg, f) /\ ~Shared(c, f, p)}
Accepted(c, p, msg) == IF c.peer[p].autoAccept THEN Unaccepted(c, p, msg) ELSE {}
Offered(c, p, msg) == Unaccepted(c, p, msg) \ Accepted(c, p, msg)

\* add_pending: an offer already known with another index is replaced.
Outdated(c, p, msg) == {x \in c.pendingF : x.d = p /\ x.f \in Offered(c, p, msg) /\ x.index # msg[x.f][p]}
NewOffers(c, p, msg, u) ==
    {Pending(f, p, msg[f][p], u) :
        f \in {g \in Offered(c, p, msg) : \A x \in PendingOf(c, g, p) : x.index # msg[g][p]}}

\* A share whose index id changed is emptied before its index is replaced.
Changed(c, p, msg) == {i \in c.infos : i.d = p /\ msg[i.f][p] \notin {0, i.index}}

\* 2nd pass, the other devices: an introducer adds devices to the folders we
\* share with it, and known devices to any folder it lists.
SharedWithSource(c, p, msg, f) == Shared(c, f, p) \/ f \in Accepted(c, p, msg)
Introduced(c, p, msg) ==
    IF ~c.peer[p].introducer THEN {}
    ELSE {[f |-> f, d |-> d] : f \in Folders, d \in Peers \ {p}} \cap
         {s \in [f : Folders, d : Peers] :
             /\ s.d \in Listed(msg, s.f)
             /\ IF s.d \in Known(c) THEN ~Shared(c, s.f, s.d) ELSE SharedWithSource(c, p, msg, s.f)}

\* Offers the peer no longer makes, and shares it no longer lists.
Withdrawn(c, p, msg) == {x \in c.pendingF : x.d = p /\ x.f \notin Offered(c, p, msg)}
Reshared(c, p, msg) == {i \in c.infos : i.d = p /\ msg[i.f][p] = 0 /\ i.seq > 0}

\* Shares this introducer made and no longer lists; a device it does not
\* list anywhere goes altogether, be it the introducer itself.
Seen(msg) == UNION {Listed(msg, f) : f \in Folders}
Dropped(c, p, msg) ==
    IF c.peer[p].skipRemovals THEN {}
    ELSE {i \in c.infos : i.by = p /\ msg[i.f][i.d] = 0} \ Reshared(c, p, msg)
GoneDevices(c, p, msg) == {i.d : i \in Dropped(c, p, msg)} \ Seen(msg)

\* The assembled diff.  A peer that goes takes all of its shares with it;
\* each of the two removals looks for orphaned blocks on its own.
ClusterUpdate(c, p, msg, u) ==
    LET gone == GoneDevices(c, p, msg)
        unshared == Reshared(c, p, msg) \cup {i \in Dropped(c, p, msg) : i.d \notin gone}
        emptied == {x \in c.files : \E i \in Changed(c, p, msg) : i.f = x.f /\ i.d = x.d}
        own == WithOrphans(UnshareAll([Nothing EXCEPT !.filesGone = emptied], c, unshared), c)
        peers == {RemovePeer(c, q) : q \in gone}
    IN  [own EXCEPT
            !.source = {p},
            !.views = {<<f, d>> \in Folders \X {p, Self} : msg[f][d] # 0},
            !.folders = Accepted(c, p, msg) \ c.folders,
            !.filesGone = @ \cup UNION {r.filesGone : r \in peers},
            !.infosGone = @ \cup UNION {r.infosGone : r \in peers},
            !.blocksGone = @ \cup UNION {r.blocksGone : r \in peers},
            !.peersGone = gone,
            !.pendingGone = Outdated(c, p, msg) \cup Withdrawn(c, p, msg)
                                \cup UNION {r.pendingGone : r \in peers},
            !.pendingNew = NewOffers(c, p, msg, u),
            !.peers = {[p |-> s.d, kind |-> [Absent EXCEPT !.known = TRUE]] :
                          s \in {t \in Introduced(c, p, msg) : t.d \notin Known(c)}},
            !.devices = UNION {UpdatePeer(c, s.d, Absent).devices :
                                  s \in {t \in Introduced(c, p, msg) : t.d \notin Known(c)}},
            !.infos = {Upsert(f, Self, 1, Self) : f \in Accepted(c, p, msg) \ c.folders}
                \cup {Upsert(i.f, p, 0, i.by) : i \in Reshared(c, p, msg)}
                \cup {Upsert(i.f, p, msg[i.f][p], p) : i \in Changed(c, p, msg)}
                \cup {Upsert(f, p, msg[f][p], p) : f \in Accepted(c, p, msg)}
                \cup {Upsert(s.f, s.d, msg[s.f][s.d], p) : s \in Introduced(c, p, msg)}]

----------------------------------------------------------------------------
(* Files *)

\* update_folder_t for one file of an Index: an existing file keeps its uuid;
\* the blocks of its old content that nothing else uses are removed.
UpdateFolder(c, f, p, n, seq, blocks, u) ==
    LET prev == Named(c, f, p, n)
        uuid == IF prev = {} THEN u ELSE The(prev).uuid
    IN  [Nothing EXCEPT !.remote = {File(f, p, n, uuid, seq, blocks)},
                        !.blocksNew = blocks \ c.blocks,
                        !.blocksGone = Deduce(c, prev, blocks)]

\* advance_t::initialize: the local file gets a content, and keeps its uuid
\* unless blocks are not to be removed; then the uuid stays nil.
Advance(c, f, p, n, blocks, keepBlocks, u) ==
    LET prev == Named(c, f, Self, n)
        uuid == IF prev = {} THEN u ELSE IF keepBlocks THEN 0 ELSE The(prev).uuid
    IN  [Nothing EXCEPT
            !.local = {[f |-> f, from |-> p, name |-> n, uuid |-> uuid, blocks |-> blocks, drop |-> {}]},
            !.blocksNew = blocks \ c.blocks,
            !.blocksGone = IF keepBlocks THEN {} ELSE Deduce(c, prev, {}) \ blocks]

LocalUpdate(c, f, n, blocks, u) == Advance(c, f, Self, n, blocks, FALSE, u)
RemoteCopy(c, f, p, n, u) == Advance(c, f, p, n, The(Named(c, f, p, n)).blocks, FALSE, u)

\* remote_win_t: the local file moves to a conflicting name, and a sibling
\* remote_copy_t, made at the same time, takes the name.
RemoteWin(c, f, p, n, u) ==
    LET moved == Advance(c, f, p, ConflictOf[n], The(Named(c, f, Self, n)).blocks, FALSE, u)
        copy == Advance(c, f, p, n, The(Named(c, f, p, n)).blocks, TRUE, u)
    IN  <<[moved EXCEPT !.local = {[x EXCEPT !.drop = {n}] : x \in @}], copy>>

----------------------------------------------------------------------------
(* Applying a diff *)

\* folder_info_t::set_index on an existing share, a new share otherwise.
UpsertInfo(c, u) ==
    IF ~Shared(c, u.f, u.d)
    THEN [c EXCEPT !.infos = @ \cup {Info(u.f, u.d, u.index, 0, u.by)}]
    ELSE LET i == TheInfo(c, u.f, u.d)
         IN  IF i.index = u.index THEN c
             ELSE [c EXCEPT !.infos = (@ \ {i}) \cup {[i EXCEPT !.index = u.index, !.seq = 0]},
                            !.files = @ \ FilesOf(c, u.f, u.d)]
UpsertInfos(c, us) == FoldSet(LAMBDA u, acc : UpsertInfo(acc, u), c, us)

\* file_infos_map_t::put: the uuid, the name and the sequence are unique.
PutFile(files, x) ==
    {y \in files : ~(y.f = x.f /\ y.d = x.d /\ (y.uuid = x.uuid \/ y.name = x.name))} \cup {x}
Raise(c, f, d, seq) ==
    [c EXCEPT !.infos = {IF i.f = f /\ i.d = d /\ seq > i.seq THEN [i EXCEPT !.seq = seq] ELSE i : i \in @}]

\* update_folder_t::apply_impl and folder_info_t::add_strict.
ApplyRemote(c, x) ==
    IF x.seq > TheInfo(c, x.f, x.d).seq
    THEN [Raise(c, x.f, x.d, x.seq) EXCEPT !.files = PutFile(@, x)]
    ELSE c

\* advance_t::apply_impl, remote_win_t::apply_impl dropping the old name.
ApplyLocal(c, x) ==
    LET kept == {y \in c.files : ~(y.f = x.f /\ y.d = Self /\ y.name \in x.drop)}
        seq == TheInfo(c, x.f, Self).seq + 1
        prev == {y \in kept : y.f = x.f /\ y.d = Self /\ y.name = x.name}
        u == IF prev = {} THEN x.uuid ELSE The(prev).uuid
    IN  [Raise(c, x.f, Self, seq)
            EXCEPT !.files = PutFile(kept, File(x.f, Self, x.name, u, seq, x.blocks))]

\* local_update_t, remote_copy_t and remote_win_t::apply_impl: nothing at all
\* when the folder, or the share the content comes from, is gone.
Ignored(c, d) == \E x \in d.local : x.f \notin c.folders \/ ~Shared(c, x.f, x.from)

\* One operator for each part of a diff, named after the diff it is.
DevicesOf(d, op) == {x.d : x \in {y \in d.devices : y.op = op}}

upsert_folder(c, d) == [c EXCEPT !.folders = @ \cup d.folders]
remove_files(c, d) ==
    [c EXCEPT !.files = {x \in @ : \A y \in d.filesGone : y.f # x.f \/ y.d # x.d \/ y.uuid # x.uuid}]
remove_folder_infos(c, d) ==
    LET gone(x) == \E i \in d.infosGone : i.f = x.f /\ i.d = x.d
    IN  [c EXCEPT !.infos = {i \in @ : ~gone(i)}, !.files = {x \in @ : ~gone(x)}]
remove_blocks(c, d) == [c EXCEPT !.blocks = @ \ d.blocksGone]
add_blocks(c, d) == [c EXCEPT !.blocks = @ \cup d.blocksNew]
remove_pending_folders(c, d) == [c EXCEPT !.pendingF = @ \ d.pendingGone]
\* generic_map_t::put: a pending folder replaces any other of the same id.
add_pending_folders(c, d) ==
    [c EXCEPT !.pendingF = {x \in @ : \A y \in d.pendingNew : x.f # y.f} \cup d.pendingNew]
remove_peer(c, d) ==
    [c EXCEPT !.peer = [p \in Peers |-> IF p \in d.peersGone THEN Absent ELSE @[p]],
              !.views = [p \in Peers |-> IF p \in d.peersGone THEN {} ELSE @[p]]]
update_remote_views(c, d) ==
    [c EXCEPT !.views = [p \in Peers |-> IF p \in d.source \ d.peersGone THEN d.views ELSE @[p]]]
update_peer(c, d) ==
    [c EXCEPT !.peer = [p \in Peers |-> IF \E x \in d.peers : x.p = p
                                        THEN (CHOOSE x \in d.peers : x.p = p).kind ELSE @[p]]]
add_pending_device(c, d) == [c EXCEPT !.pendingD = @ \cup DevicesOf(d, "pend")]
remove_pending_device(c, d) == [c EXCEPT !.pendingD = @ \ DevicesOf(d, "unpend")]
add_ignored_device(c, d) == [c EXCEPT !.ignoredD = @ \cup DevicesOf(d, "ignore")]
remove_ignored_device(c, d) == [c EXCEPT !.ignoredD = @ \ DevicesOf(d, "unignore")]
\* The shares of a folder and their files are parts of the folder object.
remove_folder(c, d) ==
    [c EXCEPT !.folders = @ \ d.folderGone,
              !.infos = {i \in @ : i.f \notin d.folderGone},
              !.files = {x \in @ : x.f \notin d.folderGone}]

\* cluster_diff_t::apply_impl: the parts in the order of the assembled diff.
ApplyShares(c, d) ==
    add_blocks(remove_blocks(remove_folder_infos(remove_files(upsert_folder(c, d), d), d), d), d)
ApplyPending(c, d) == add_pending_folders(remove_pending_folders(c, d), d)
ApplyDevices(c, d) ==
    add_ignored_device(remove_ignored_device(add_pending_device(remove_pending_device(c, d), d), d), d)
ApplyPeers(c, d) == update_peer(update_remote_views(remove_peer(c, d), d), d)
Apply(c, d) ==
    LET a == UpsertInfos(ApplyPeers(ApplyDevices(ApplyPending(ApplyShares(c, d), d), d), d), d.infos)
        b == FoldSet(LAMBDA x, acc : ApplyRemote(acc, x), a, d.remote)
        e == FoldSet(LAMBDA x, acc : ApplyLocal(acc, x), b, d.local)
    IN  IF Ignored(c, d) THEN c ELSE remove_folder(e, d)

----------------------------------------------------------------------------
(* When a diff cannot be applied *)

\* The checks of apply_impl that make the application fail: no_such_device,
\* no_such_folder.
RefusedInfo(c, d) ==
    \E u \in d.infos : \/ u.f \notin c.folders \cup d.folders
                      \/ u.d \notin Known(c) \cup {x.p : x \in d.peers}
RefusedPending(c, d) == ~(DevicesOf(d, "unpend") \subseteq c.pendingD)
RefusedIgnored(c, d) == ~(DevicesOf(d, "unignore") \subseteq c.ignoredD)
RefusedUnknown(c, d) == \E x \in d.touched : x.op = "pend" /\ x.d \notin c.pendingD
RefusedCall(c, d) == \E x \in d.touched : x.op = "ignore" /\ x.d \notin c.ignoredD
Refused(c, d) ==
    \/ RefusedInfo(c, d) \/ ~(d.peersGone \subseteq Known(c))
    \/ RefusedPending(c, d) \/ RefusedIgnored(c, d) \/ RefusedUnknown(c, d) \/ RefusedCall(c, d)

\* The look-ups apply_impl makes without a check: a share, a file, a pending
\* folder or a folder that is gone is dereferenced as a null pointer.
Dangling(c, d) ==
    \/ \E i \in d.infosGone : ~Shared(c, i.f, i.d)
    \/ \E x \in d.filesGone : Shared(c, x.f, x.d) /\ \A y \in FilesOf(c, x.f, x.d) : y.uuid # x.uuid
    \/ ~Ignored(c, d) /\ ~(d.blocksGone \subseteq c.blocks)
    \/ ~(d.pendingGone \subseteq c.pendingF)
    \/ ~(d.folderGone \subseteq c.folders)
    \/ ~(d.source \cup {x.d : x \in d.pendingNew} \subseteq Known(c))
    \/ d.source \cap d.peersGone # {} /\ d.views # {}
    \/ \E x \in d.remote : ~Shared(c, x.f, x.d)
    \/ ~Ignored(c, d) /\ \E x \in d.local : \E n \in x.drop : Named(c, x.f, Self, n) = {}
    \/ Ignored(c, d) /\ ~(d.blocksNew \subseteq c.blocks)   \* by the database actor

\* assert(block) of update_folder_t and assert(block_info) of advance_t: the
\* blocks of a file are in the table when the file is put.
MissingBlock(c, d) ==
    LET there == (c.blocks \ d.blocksGone) \cup d.blocksNew
    IN  \/ \E x \in d.remote : Shared(c, x.f, x.d) /\ ~(x.blocks \subseteq there)
        \/ ~Ignored(c, d) /\ \E x \in d.local : ~(x.blocks \subseteq there)
=============================================================================
