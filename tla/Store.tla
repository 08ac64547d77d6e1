------------------------------- MODULE Store -------------------------------
(***************************************************************************)
(* The cluster, the diffs under way to it and the database that follows it *)
(* (net/db_actor.cpp, db/, model/diff/load).                               *)
(*                                                                         *)
(* Handlers make diffs from the cluster they see and send them; "queue"    *)
(* holds the messages not yet delivered.  The coordinator applies a diff   *)
(* and lets the database actor visit it in one step: the actor writes the  *)
(* records of the diff in one transaction and commits it at the end of the *)
(* visit, as every persisted diff calls force_commit.  A crash loses the   *)
(* cluster and the queue; a start loads what was committed.                *)
(***************************************************************************)
EXTENDS Cluster, Sequences

CONSTANTS Stored,       \* what earlier sessions may have committed
          MaxQueue,     \* diffs made before the first of them is applied
          MaxSeq,       \* sequences a file may get
          MaxUpdates    \* diffs in a behaviour

VARIABLES cluster,      \* the model in memory
          db,           \* the committed records
          queue,        \* diffs sent and not delivered
          state,        \* "up", "down"; "failed": an application was refused; "fault", "no_block"
          made          \* diffs made so far

vars == <<cluster, db, queue, state, made>>

----------------------------------------------------------------------------
(* db_actor_t as a visitor: c is the cluster after the application. *)

\* save_folder_info, update_folder and advance: the share and the file are
\* written as the cluster has them now; a file is keyed by its uuid.
SaveInfo(r, c, f, d) ==
    [r EXCEPT !.infos = {i \in @ : i.f # f \/ i.d # d} \cup InfoOf(c, f, d)]
SaveFile(r, c, f, d, n) ==
    LET new == Named(c, f, d, n)
    IN  [r EXCEPT !.files = {x \in @ : \A y \in new : x.f # f \/ x.d # d \/ x.uuid # y.uuid} \cup new]
SaveRemote(r, c, x) == SaveFile(SaveInfo(r, c, x.f, x.d), c, x.f, x.d, x.name)
SaveLocal(r, c, x) ==
    IF Named(c, x.f, Self, x.name) = {} THEN r
    ELSE SaveInfo(SaveFile(r, c, x.f, Self, x.name), c, x.f, Self)

SaveBlocks(r, c, d) == [r EXCEPT !.blocks = @ \cup (d.blocksNew \cap c.blocks)]
SaveFolder(r, d) == [r EXCEPT !.folders = @ \cup d.folders]

\* db_actor_t::remove for files, shares and blocks.
Remove(r, d) ==
    [r EXCEPT !.infos = {i \in @ : \A x \in d.infosGone : x.f # i.f \/ x.d # i.d},
              !.files = {x \in @ : \A y \in d.filesGone : y.f # x.f \/ y.d # x.d \/ y.uuid # x.uuid},
              !.blocks = @ \ d.blocksGone]
EraseFolder(r, d) == [r EXCEPT !.folders = @ \ d.folderGone]

\* The pending folders: a cluster update writes all of them first.
SaveAllPending(r, c, d) == [r EXCEPT !.pendingF = IF d.source = {} THEN @ ELSE @ \cup c.pendingF]
ErasePending(r, d) == [r EXCEPT !.pendingF = @ \ d.pendingGone]
SavePending(r, c, d) == [r EXCEPT !.pendingF = @ \cup (d.pendingNew \cap c.pendingF)]

\* Devices: peers, pending and ignored ones.
ErasePeer(r, d) == [r EXCEPT !.peer = [p \in Peers |-> IF p \in d.peersGone THEN Absent ELSE @[p]]]
SavePeer(r, c, d) ==
    [r EXCEPT !.peer = [p \in Peers |-> IF \E x \in d.peers : x.p = p THEN c.peer[p] ELSE @[p]]]
ErasePendingDevice(r, d) == [r EXCEPT !.pendingD = @ \ DevicesOf(d, "unpend")]
SavePendingDevice(r, d) == [r EXCEPT !.pendingD = @ \cup DevicesOf(d, "pend")]
EraseIgnoredDevice(r, d) == [r EXCEPT !.ignoredD = @ \ DevicesOf(d, "unignore")]
SaveIgnoredDevice(r, d) == [r EXCEPT !.ignoredD = @ \cup DevicesOf(d, "ignore")]
SaveDevices(r, c, d) ==
    SaveIgnoredDevice(EraseIgnoredDevice(SavePendingDevice(ErasePendingDevice(
        SavePeer(ErasePeer(r, d), c, d), d), d), d), d)

Visit(r, c, d) ==
    LET shares == EraseFolder(Remove(SaveBlocks(SaveFolder(r, d), c, d), d), d)
        a == SaveDevices(SavePending(ErasePending(SaveAllPending(shares, c, d), d), c, d), c, d)
        b == FoldSet(LAMBDA u, acc : SaveInfo(acc, c, u.f, u.d), a, d.infos)
        e == FoldSet(LAMBDA x, acc : SaveRemote(acc, c, x), b, d.remote)
    IN  FoldSet(LAMBDA x, acc : SaveLocal(acc, c, x), e, d.local)

----------------------------------------------------------------------------
(* Loading *)

\* load::folder_infos_t: a share of an unknown device or folder fails the load.
Loadable(r) ==
    \A i \in r.infos : i.f \in r.folders /\ i.d \in Known(r)

\* on_patrial_load: files of unknown shares or with unknown blocks are corrupted.
Corrupted(r) ==
    {x \in r.files : ~(x.blocks \subseteq r.blocks) \/ ~\E i \in r.infos : i.f = x.f /\ i.d = x.d}

\* load::file_infos_t: files come in the order of their keys, and the last
\* of a name stays; load::pending_folders_t: one of each id stays.
LoadedFiles(r) ==
    LET ok == r.files \ Corrupted(r)
    IN  {x \in ok : \A y \in ok : y.f = x.f /\ y.d = x.d /\ y.name = x.name => y.uuid <= x.uuid}
OnePerFolder(S) == \A x, y \in S : x.f = y.f => x = y
LoadedPending(r) ==
    {S \in SUBSET r.pendingF : OnePerFolder(S) /\ {x.f : x \in S} = {x.f : x \in r.pendingF}}

Loaded(r, pending) ==
    [r EXCEPT !.files = LoadedFiles(r), !.pendingF = pending]

----------------------------------------------------------------------------
Init ==
    /\ cluster = EmptyCluster
    /\ db \in Stored
    /\ queue = <<>>
    /\ state = "down"
    /\ made = 0

\* A handler sends a diff made from the cluster of this moment.
Send(diffs) ==
    /\ queue' = Append(queue, diffs)
    /\ made' = made + 1
    /\ UNCHANGED <<cluster, db, state>>

Idle == state = "up" /\ Len(queue) < MaxQueue /\ made < MaxUpdates
Free == Fresh(Uuids(cluster) \cup Uuids(db))

\* The user (ui-daemon, ui-fltk) administers devices and folders.
UserDevices ==
    /\ Idle
    /\ \E p \in Peers :
        \/ \E k \in Kinds : Send(<<UpdatePeer(cluster, p, k)>>)
        \/ p \in cluster.pendingD /\ Send(<<RemovePendingDevice(p)>>)
        \/ p \in cluster.ignoredD /\ Send(<<RemoveIgnoredDevice(p)>>)
        \/ p \in cluster.pendingD /\ Send(<<AddIgnoredDevice(cluster, p)>>)
        \/ p \in Known(cluster) /\ Send(<<RemovePeer(cluster, p)>>)

UserFolders ==
    /\ Idle
    /\ \E f \in Folders :
        \/ Send(<<UpsertFolder(cluster, f)>>)
        \/ /\ f \in cluster.folders
           /\ \/ \E last \in SUBSET Returning(cluster, f) :
                    /\ Cardinality(last) = Cardinality({TRUE : i \in Returning(cluster, f)})
                    /\ Send(<<RemoveFolder(cluster, f, last, Free)>>)
              \/ \E p \in Known(cluster) \ {Self} :
                    Send(<<IF Shared(cluster, f, p) THEN UnshareFolder(cluster, f, p)
                           ELSE ShareFolder(cluster, f, p)>>)

\* A device calls: peer_actor_t, relay_actor_t and local_discovery_actor_t
\* record one that is not known.
Stranger ==
    /\ Idle
    /\ \E p \in Peers \ Known(cluster) :
        Send(<<IF p \in cluster.ignoredD THEN IgnoredConnected(p)
               ELSE IF p \in cluster.pendingD THEN UnknownConnected(p)
               ELSE AddPendingDevice(p)>>)

\* A peer's ClusterConfig and Index messages, taken by its controller.
Config ==
    /\ Idle
    /\ \E p \in Known(cluster) \ {Self} :
        \E msg \in [Folders -> [Devices -> Indices \cup {0}]] :
            Send(<<ClusterUpdate(cluster, p, msg, Free)>>)

Index ==
    /\ Idle
    /\ \E i \in {j \in cluster.infos : j.d # Self /\ j.seq < MaxSeq}, n \in Names, bs \in SUBSET Blocks :
        Send(<<UpdateFolder(cluster, i.f, i.d, n, i.seq + 1, bs, Free)>>)

\* The local file changes: found by a scan, pulled from a peer, or lost to a
\* peer in a conflict.
Advances ==
    /\ Idle
    /\ \E f \in cluster.folders : \E n \in Names :
        /\ TheInfo(cluster, f, Self).seq < MaxSeq
        /\ \/ \E bs \in SUBSET Blocks : Send(<<LocalUpdate(cluster, f, n, bs, Free)>>)
           \/ \E p \in Peers :
                /\ Named(cluster, f, p, n) # {}
                /\ \/ Send(<<RemoteCopy(cluster, f, p, n, Free)>>)
                   \/ Named(cluster, f, Self, n) # {} /\ Send(RemoteWin(cluster, f, p, n, Free))

\* process_impl: apply, then visit.  A refused application taints the
\* cluster, is not visited, and shuts the program down: what was applied of
\* it stays (its shares come last), and the diffs already sent are still
\* applied, but a visit of a tainted cluster writes nothing except that
\* remove_folder_t erases its folder.  A fault ends the process.
Visits(r, c, ds) ==
    LET one == Visit(r, c, ds[1])
    IN  IF state = "failed" THEN EraseFolder(r, ds[1])
        ELSE IF Len(ds) = 1 THEN one ELSE Visit(one, c, ds[2])
Applied(c, ds) == IF Len(ds) = 1 THEN Apply(c, ds[1]) ELSE Apply(Apply(c, ds[1]), ds[2])
Unfit(c, ds) ==
    MissingBlock(c, ds[1]) \/ (Len(ds) = 2 /\ MissingBlock(Apply(c, ds[1]), ds[2]))

Process ==
    /\ state \in {"up", "failed"} /\ queue # <<>>
    /\ queue' = Tail(queue)
    /\ UNCHANGED made
    /\ LET ds == Head(queue)
       IN  \/ /\ Unfit(cluster, ds)
              /\ state' = "no_block" /\ UNCHANGED <<cluster, db>>
           \/ /\ ~Unfit(cluster, ds) /\ Dangling(cluster, ds[1])
              /\ state' = "fault" /\ UNCHANGED <<cluster, db>>
           \/ /\ ~Unfit(cluster, ds) /\ ~Dangling(cluster, ds[1]) /\ Refused(cluster, ds[1])
              /\ state' = "failed" /\ UNCHANGED db
              /\ \E some \in SUBSET {u \in ds[1].infos : ~RefusedInfo(cluster, [ds[1] EXCEPT !.infos = {u}])} :
                    cluster' = IF ds[1].infos = {} THEN cluster
                               ELSE Apply(cluster, [ds[1] EXCEPT !.infos = some])
           \/ /\ ~Unfit(cluster, ds) /\ ~Dangling(cluster, ds[1]) /\ ~Refused(cluster, ds[1])
              /\ cluster' = Applied(cluster, ds)
              /\ db' = Visits(db, cluster', ds)
              /\ UNCHANGED state

\* The process ends at any time, or after a refused application; the views
\* of the peers are not stored.
Stop ==
    /\ state \in {"up", "failed"} /\ made < MaxUpdates
    /\ state' = "down"
    /\ cluster' = EmptyCluster
    /\ queue' = <<>>
    /\ UNCHANGED <<db, made>>

\* on_cluster_load_trigger .. on_patrial_load, and the load diff applied:
\* corrupted files leave the database.
Load ==
    /\ state = "down" /\ Loadable(db)
    /\ \E pending \in LoadedPending(db) : cluster' = Loaded(db, pending)
    /\ db' = [db EXCEPT !.files = @ \ Corrupted(db)]
    /\ state' = "up"
    /\ UNCHANGED <<queue, made>>

Next ==
    \/ UserDevices \/ UserFolders \/ Stranger \/ Config \/ Index \/ Advances
    \/ Process \/ Stop \/ Load

Spec == Init /\ [][Next]_vars

----------------------------------------------------------------------------
TypeOK ==
    /\ state \in {"up", "down", "failed", "fault", "no_block"}
    /\ Len(queue) <= MaxQueue /\ made <= MaxUpdates
    /\ \A c \in {cluster, db} :
        /\ c.folders \subseteq Folders /\ c.blocks \subseteq Blocks
        /\ c.pendingD \cup c.ignoredD \subseteq Peers
        /\ \A x \in c.infos \cup c.files \cup c.pendingF : x.f \in Folders /\ x.d \in Devices

\* What is committed can be loaded: no share outlives its folder or its
\* device in the database, whichever diff removed them (load::folder_infos_t
\* fails the start otherwise).
StoreLoads == Loadable(db)

\* The database follows the cluster: devices, folders, shares with their
\* indices and sequences, and blocks are the same, and every file and every
\* pending folder in memory is stored.
StoreFollows ==
    state = "up" =>
        /\ \A k \in {"peer", "folders", "infos", "blocks", "pendingD", "ignoredD"} : db[k] = cluster[k]
        /\ cluster.files \subseteq db.files
        /\ cluster.pendingF \subseteq db.pendingF

\* No diff removes a block a file still has: the files of the cluster are
\* never taken for corrupted ones at the next start.
FilesIntact ==
    state = "up" => \A x \in cluster.files : x.blocks \subseteq cluster.blocks /\ x \notin Corrupted(db)

\* A diff applied to the cluster it was made from finds all it refers to:
\* no look-up of apply_impl comes back empty and assert(block) holds.
NoFault == state \notin {"fault", "no_block"}

\* assert(block): the blocks of the files of an index are in the block map
\* when the files are put, however many diffs are under way.
BlocksPresent == state # "no_block"

\* A start gives the cluster back: the files in memory are the ones a load
\* of the database would give.
FilesReload == state = "up" => cluster.files = LoadedFiles(db)

\* A ClusterConfig that is silent about a share the peer has sent nothing
\* for leaves the share as it is.
Silent(i, d) == i.d \in d.source /\ i.seq = 0 /\ \A v \in d.views : v[1] # i.f
SilentShareStays ==
    [][state = "up" /\ cluster' # cluster /\ queue # <<>> =>
         \A i \in cluster.infos :
            Silent(i, Head(queue)[1]) /\ state' = "up" => \E j \in cluster'.infos : j.f = i.f /\ j.d = i.d]_vars

\* The database is the model, and can be loaded.
StoreSound == TypeOK /\ StoreLoads /\ StoreFollows /\ FilesIntact /\ NoFault
=============================================================================
