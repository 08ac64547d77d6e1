------------------------------ MODULE MCFolders ------------------------------
(* Following a folder: one scan of it (Scan: a file g, an incomplete file t *)
(* of it, and a directory d with a file f, when the peers have deleted x    *)
(* and y), and between two scans the directories the kernel watches and the *)
(* paths the program believes they have (Watch, with names of which one     *)
(* ends with, and one begins with, another one), and the changes of files   *)
(* it reports, among them its own (Changes). A behaviour is one of these    *)
(* three.                                                                   *)
EXTENDS Integers, Sequences, FiniteSets, TLC

CONSTANTS d1, d2, d3

VARIABLES
    focus,                                  \* the component that runs
    where, born, kernel, watchEvents, on, w, todo, listing, watchSeen, ops,
    os, changesDisk, changesEvents, deaf, bulk, timer, med, expiry, view,
    changesSeen, changesLeft,
    scanDisk, model, susp, gone, peer, ctx, slaves, keeper, digests, queue,
    scanLeft, scanSeen

watch_ == <<where, born, kernel, watchEvents, on, w, todo, listing, watchSeen,
             ops>>
changes_ == <<os, changesDisk, changesEvents, deaf, bulk, timer, med, expiry,
               view, changesSeen, changesLeft>>
scan_ == <<scanDisk, model, susp, gone, peer, ctx, slaves, keeper, digests,
            queue, scanLeft, scanSeen>>
vars == <<focus, watch_, changes_, scan_>>

EndsWith == {<<n, n>> : n \in {"", "a", "b", "ab"}} \cup {<<"ab", "b">>}
Cut == [n \in {"", "a", "b", "ab"} |-> IF n = "ab" THEN "a" ELSE ""]
Budget(u, o, l) == [user |-> u, own |-> o, lost |-> l]
Symmetry == Permutations({d1, d2, d3})

Paths == {"", "g", "t", "x", "y", "d", "e", "f"}
ScanDirs == {"", "d", "e"}
Kids == [p \in ScanDirs |-> CASE p = "" -> <<"t", "g", "x", "y", "d">> [] p = "d" -> <<"f", "e">> [] p = "e" -> <<>>]
BlockCount == [p \in Paths |-> IF p = "f" THEN 1 ELSE 2]
Never == [has |-> FALSE, del |-> FALSE, v |-> 0, loc |-> FALSE, ok |-> TRUE]
Has(v) == [has |-> TRUE, del |-> FALSE, v |-> v, loc |-> TRUE, ok |-> TRUE]
Deleted(v) == [Has(v) EXCEPT !.del = TRUE]
NoPeer == [has |-> FALSE, size |-> TRUE, sync |-> FALSE, recent |-> FALSE, action |-> "ignore"]
OnDisk(g, t, d, e, f) == [p \in Paths |-> CASE p = "" -> 1 [] p = "g" -> g [] p = "t" -> t
                                             [] p = "d" -> d [] p = "e" -> e [] p = "f" -> f [] OTHER -> 0]
InModel(g, d, e, f) == [p \in Paths |-> CASE p = "g" -> g [] p = "d" -> d [] p = "e" -> e [] p = "f" -> f [] OTHER -> Never]
Setup(dsk, m, sub, p, s, fresh, changes, errors) ==
    [disk |-> dsk, model |-> m, sub |-> sub, peer |-> p, susp |-> s, fresh |-> fresh, changes |-> changes, errors |-> errors]

ScanSetups ==
    {\* all is new; an old incomplete file nobody has
     Setup(OnDisk(1, 1, 1, 0, 1), InModel(Never, Never, Never, Never), "", NoPeer, FALSE, {}, 0, 2),
     \* g is changed, d is gone with all below; the folder was suspended
     Setup(OnDisk(2, 0, 0, 0, 0), InModel(Has(1), Has(1), Has(1), Has(1)), "", NoPeer, TRUE, {}, 0, 2),
     \* d was deleted before; an incomplete file that turns out to be complete
     Setup(OnDisk(1, 2, 0, 0, 0), InModel(Has(1), Deleted(1), Deleted(1), Deleted(1)), "",
           [NoPeer EXCEPT !.has = TRUE, !.action = "remote_copy"], FALSE, {}, 0, 2),
     \* an incomplete file with some blocks; only d is scanned
     Setup(OnDisk(1, 3, 1, 0, 1), InModel(Has(1), Has(1), Has(1), Has(2)), "",
           [NoPeer EXCEPT !.has = TRUE, !.action = "remote_copy"], FALSE, {}, 0, 2),
     Setup(OnDisk(1, 1, 1, 1, 1), InModel(Has(1), Has(1), Has(1), Has(1)), "",
           [NoPeer EXCEPT !.has = TRUE, !.sync = TRUE], FALSE, {}, 0, 2),
     \* e is scanned, and d is gone
     Setup(OnDisk(1, 0, 0, 0, 0), InModel(Has(1), Has(1), Has(1), Has(1)), "e", NoPeer, FALSE, {}, 0, 2),
     \* changes while the folder is scanned
     Setup(OnDisk(1, 0, 1, 0, 1), InModel(Has(1), Has(1), Never, Never), "", NoPeer, FALSE, {}, 1, 0),
     Setup(OnDisk(0, 0, 1, 0, 0), InModel(Never, Never, Never, Never), "", NoPeer, FALSE, {"d"}, 1, 0)}

W == INSTANCE Watch WITH
    Dirs <- {d1, d2, d3}, Names <- {"a", "b", "ab"}, Suffix <- EndsWith,
    Chop <- Cut, MaxOps <- 4, MaxEvents <- 3, events <- watchEvents,
    seen <- watchSeen
C == INSTANCE Changes WITH
    Names <- {"a", "b", "d"}, Dirs <- {"d"}, Systems <- {"linux", "windows"},
    MaxEvents <- 6, Budgets <- {Budget(3, 0, 0), Budget(1, 2, 1)},
    disk <- changesDisk, events <- changesEvents, seen <- changesSeen,
    left <- changesLeft
S == INSTANCE Scan WITH
    Paths <- Paths, Dirs <- ScanDirs, Root <- "", Kids <- Kids,
    Blocks <- BlockCount, Tmp <- "t", Final <- "g", PeerContent <- 3,
    Gone <- <<"x", "y">>, Pool <- 2, Batch <- 2, Setups <- ScanSetups,
    disk <- scanDisk, left <- scanLeft, seen <- scanSeen

\* The variables of a component that does not run.
Off_watch == where = 0 /\ born = 0 /\ kernel = 0 /\ watchEvents = 0 /\ on = 0
             /\ w = 0 /\ todo = 0 /\ listing = 0 /\ watchSeen = 0 /\ ops = 0
Off_changes == os = 0 /\ changesDisk = 0 /\ changesEvents = 0 /\ deaf = 0
               /\ bulk = 0 /\ timer = 0 /\ med = 0 /\ expiry = 0 /\ view = 0
               /\ changesSeen = 0 /\ changesLeft = 0
Off_scan == scanDisk = 0 /\ model = 0 /\ susp = 0 /\ gone = 0 /\ peer = 0
            /\ ctx = 0 /\ slaves = 0 /\ keeper = 0 /\ digests = 0 /\ queue = 0
            /\ scanLeft = 0 /\ scanSeen = 0

Init ==
    \/ focus = "watch" /\ W!Init /\ Off_changes /\ Off_scan
    \/ focus = "changes" /\ C!Init /\ Off_watch /\ Off_scan
    \/ focus = "scan" /\ S!Init /\ Off_watch /\ Off_changes

Next ==
    \/ focus = "watch" /\ W!Next /\ UNCHANGED <<focus, changes_, scan_>>
    \/ focus = "changes" /\ C!Next /\ UNCHANGED <<focus, watch_, scan_>>
    \/ focus = "scan" /\ S!Next /\ UNCHANGED <<focus, watch_, changes_>>

Spec == Init /\ [][Next]_vars

------------------------------------------------------------------------------
\* The watcher knows what the kernel watches: when all events were read every
\* directory is known by its own path, when the scans are over as well every
\* directory of the folder is watched, and nothing remains of a folder given up.
WatchSound == focus = "watch" => W!WatchSound

\* When all events were read and reported, local_keeper_t was told of every
\* change the user made, whatever the order of the operations, the reads and the
\* timers (but for Odd), and of none the program made itself.
Reported == focus = "changes" => C!Reported

\* One scan counts its hashes, is announced as ended when nothing of it is under
\* way and not before, takes the blocks of a file from one content of it, and
\* leaves the model of an undisturbed folder as what is on disk.
ScanSound == focus = "scan" => S!ScanSound

\* A file nobody has touched is never taken for deleted, whatever fails.
NeverDeletes == [][focus = "scan" => S!TakesNoneForDeleted]_scan_
==============================================================================
