------------------------------ MODULE MCStorage ------------------------------
(* The model of the cluster and its storage: the database that follows the  *)
(* model, the tree of files the devices have, and the versions that decide  *)
(* which of them is newer. A behaviour is one of Store, of Presence or of   *)
(* Versions.                                                                *)
EXTENDS Integers, FiniteSets, Sequences, TLC

CONSTANTS self, p1, p2, f1, b1, b2, dA, dB

VARIABLES
    focus,                                  \* the component that runs
    cluster, db, queue, state, made,
    files, ent, pre, left, treeOdd,
    file, view, copies, setup, edits, given, known, versionsOdd

store_ == <<cluster, db, queue, state, made>>
tree_ == <<files, ent, pre, left, treeOdd>>
versions_ == <<file, view, copies, setup, edits, given, known, versionsOdd>>
vars == <<focus, store_, tree_, versions_>>

Plain == [introducer |-> FALSE, autoAccept |-> FALSE, skipRemovals |-> FALSE, known |-> TRUE]
Introducer == [Plain EXCEPT !.introducer = TRUE]
ConflictName == [n \in {"n1", "conflict"} |-> "conflict"]

\* Nothing yet, or a folder shared with an introducer that sent its index.
Model == INSTANCE Cluster WITH Self <- self, Peers <- {p1, p2}, Folders <- {f1}, Names <- {"n1"},
            ConflictOf <- ConflictName, Blocks <- {b1, b2}, Indices <- {1, 2}, Kinds <- {Plain, Introducer}
Nothing == Model!EmptyCluster
Populated ==
    [Nothing EXCEPT
        !.peer[p1] = Introducer, !.folders = {f1}, !.blocks = {b1, b2},
        !.infos = {Model!Info(f1, self, 1, 1, self), Model!Info(f1, p1, 1, 1, self)},
        !.files = {Model!File(f1, self, "n1", 1, 1, {b1}), Model!File(f1, p1, "n1", 2, 1, {b1, b2})}]

\* A file in a directory.
Parent == [n \in {"d", "f"} |-> IF n = "f" THEN "d" ELSE "root"]

\* Two devices with clocks and times that differ; three devices.
Groups == {[group |-> {1, 2}, bodies |-> {"a", "b"}, clocks |-> {1, 4}, times |-> {1, 2}, edits |-> 3],
           [group |-> {1, 2, 3}, bodies |-> {"a", "b"}, clocks |-> {1, 3}, times |-> {1}, edits |-> 2]}

Symmetry == Permutations({b1, b2}) \cup Permutations({dA, dB})

S == INSTANCE Store WITH
    Self <- self, Peers <- {p1, p2}, Folders <- {f1}, Names <- {"n1"},
    ConflictOf <- ConflictName, Blocks <- {b1, b2}, Indices <- {1, 2},
    Kinds <- {Plain, Introducer}, Stored <- {Nothing, Populated},
    MaxQueue <- 1, MaxSeq <- 3, MaxUpdates <- 4
P == INSTANCE Presence WITH
    Devices <- {dA, dB}, Paths <- {"d", "f"}, Dirs <- {"d"},
    ParentOf <- Parent, MaxVersion <- 2, MaxForgets <- 1, MaxOps <- 6,
    MaxLooks <- 1, odd <- treeOdd
V == INSTANCE Versions WITH
    Devices <- {1, 2, 3}, Setups <- Groups, odd <- versionsOdd

\* The variables of a component that does not run.
Off_store == cluster = 0 /\ db = 0 /\ queue = 0 /\ state = 0 /\ made = 0
Off_tree == files = 0 /\ ent = 0 /\ pre = 0 /\ left = 0 /\ treeOdd = 0
Off_versions == file = 0 /\ view = 0 /\ copies = 0 /\ setup = 0 /\ edits = 0
                /\ given = 0 /\ known = 0 /\ versionsOdd = 0

Init ==
    \/ focus = "store" /\ S!Init /\ Off_tree /\ Off_versions
    \/ focus = "tree" /\ P!Init /\ Off_store /\ Off_versions
    \/ focus = "versions" /\ V!Init /\ Off_store /\ Off_tree

Next ==
    \/ focus = "store" /\ S!Next /\ UNCHANGED <<focus, tree_, versions_>>
    \/ focus = "tree" /\ P!Next /\ UNCHANGED <<focus, store_, versions_>>
    \/ focus = "versions" /\ V!Next /\ UNCHANGED <<focus, store_, tree_>>

Spec == Init /\ [][Next]_vars

------------------------------------------------------------------------------
\* The database is the model, and can be loaded at the next start.
StoreSound == focus = "store" => S!StoreSound

\* The tree shows every file with its best version, whichever devices come and
\* go; its caches and its totals are what it would find by looking again.
TreeSound == focus = "tree" => P!TreeSound

\* Versions are ordered as the changes were made, whatever the clocks say, and
\* all devices judge two versions alike.
OrderSound == focus = "versions" => V!OrderSound

\* When nothing is left to be resolved, a version that contains all others is
\* everywhere, and two devices have the same file, conflicts included.
Spreads == focus = "versions" => V!Spreads
==============================================================================
