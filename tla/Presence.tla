------------------------------ MODULE Presence ------------------------------
(***************************************************************************)
(* The presentation of a folder (namespace presentation): a tree of        *)
(* entities, one per path, with the presences of the devices that have it. *)
(* Statistics are never recomputed: every insertion, update and removal    *)
(* pushes differences up the tree (push_stats).  The number of entries     *)
(* that agree with the cluster is computed on demand and cached with a     *)
(* generation number (sync_with_entity), and so are a presence's children. *)
(*                                                                         *)
(* Versions are totally ordered; the size of a file follows from its       *)
(* version.  A generation is only compared with another one, so a presence *)
(* is either fresh (equal) or not.                                         *)
(***************************************************************************)
EXTENDS Integers, Sequences, FiniteSets, FiniteSetsExt, SequencesExt, TLC

CONSTANTS Devices, Paths, Dirs,         \* Dirs are the paths that are directories
          ParentOf,                     \* a path's directory, or Root
          MaxVersion,                   \* bound on versions
          MaxOps, MaxForgets, MaxLooks  \* bounds on file operations, devices that leave, queries

Root == "root"
Missing == "missing"                    \* device of missing_file_presence_t
Nobody == "nobody"
Nodes == Paths \cup {Root}
Owners == Devices \cup {Missing}

VARIABLES files,                        \* the model: files[device][path], 0 is none
          ent,                          \* entity_t of each path
          pre,                          \* presence_t of each path and device
          left,                         \* operations left (bounds)
          odd                           \* what the code cannot follow (history): see Lopsided

vars == <<files, ent, pre, left, odd>>

Size(n, v) == IF n \in Dirs THEN 0 ELSE v
NoEntity == [at |-> "none", best |-> Nobody, list |-> <<>>, size |-> 0, count |-> 0]
NoPresence == [up |-> FALSE, size |-> 0, count |-> 0, cluster |-> 0, own |-> 0, fresh |-> FALSE, kids |-> {}]
Zero == [size |-> 0, count |-> 0]
Plus(a, b) == [size |-> a.size + b.size, count |-> a.count + b.count]
Minus(a) == [size |-> -a.size, count |-> -a.count]

Init ==
    /\ files = [d \in Devices |-> [p \in Paths |-> 0]]
    /\ ent = [n \in Nodes |-> IF n = Root THEN [NoEntity EXCEPT !.at = "tree"] ELSE NoEntity]
    /\ pre = [n \in Nodes |-> [d \in Owners |-> NoPresence]]
    /\ left = [ops |-> MaxOps, forgets |-> MaxForgets, looks |-> MaxLooks] /\ odd = FALSE

----------------------------------------------------------------------------
\* The state that the functions below work on: [ent, pre].

Has(s, n, d) == \E i \in DOMAIN s.ent[n].list : s.ent[n].list[i] = d
Parent(s, n) == IF n = Root \/ s.ent[n].at # "tree" THEN Nobody ELSE ParentOf[n]
Children(s, n) == {c \in Paths : s.ent[c].at = "tree" /\ ParentOf[c] = n}
Own(s, n, d) == IF n = Root \/ d = Missing THEN Zero ELSE [size |-> s.pre[n][d].own, count |-> 1]
Stats(s, n, d) == [size |-> s.pre[n][d].size, count |-> s.pre[n][d].count]

AddBest(e, diff) == [e EXCEPT !.size = @ + diff.size, !.count = @ + diff.count]
AddStats(p, diff) == [p EXCEPT !.size = @ + diff.size, !.count = @ + diff.count, !.fresh = FALSE]
Unfresh(s, n) == [s EXCEPT !.pre[n] = [d \in Owners |-> [@[d] EXCEPT !.fresh = FALSE]]]

RECURSIVE push_stats(_, _, _, _, _)
push_stats(s, n, diff, source, best) ==
    LET b == IF best THEN Unfresh([s EXCEPT !.ent[n] = AddBest(@, diff)], n) ELSE s
        t == [b EXCEPT !.pre[n][source] = AddStats(@, diff)]
    IN  CASE n = Nobody -> s
        []  source = Nobody -> push_stats(b, Parent(s, n), diff, source, best)
        []  ~Has(s, n, source) -> b                      \* detached presence
        []  OTHER -> push_stats(t, Parent(s, n), diff, source, best)

\* determine_best: the last one in the list among the newest.
determine_best(s, fs, n, a, b) == IF fs[b][n] >= fs[a][n] THEN b ELSE a
best_of(s, fs, n) ==
    IF Parent(s, n) = Nobody THEN Nobody
    ELSE LET ds == SelectSeq(s.ent[n].list, LAMBDA d : d # Missing)
         IN  IF ds = <<>> THEN Nobody
             ELSE FoldLeft(LAMBDA a, b : determine_best(s, fs, n, a, b), Head(ds), Tail(ds))
recalc_best(s, fs, n) == [s EXCEPT !.ent[n].best = best_of(s, fs, n)]
BestOwn(s, n) == IF s.ent[n].best = Nobody THEN Zero ELSE Own(s, n, s.ent[n].best)

\* mutant: the presences below are not adopted
AdoptNone(s, n, d) ==
    LET up == Parent(s, n)
    IN  IF up = Nobody \/ d = Missing THEN s
        ELSE IF ~Has(s, up, d) THEN s ELSE push_stats([s EXCEPT !.pre[n][d].up = TRUE], up, Stats(s, n, d), d, FALSE)
\* A presence gets its parent and adopts the presences of the device below.
RECURSIVE set_parent(_, _, _)
set_parent(s, n, d) ==
    LET up == Parent(s, n)
        t == push_stats([s EXCEPT !.pre[n][d].up = TRUE], up, Stats(s, n, d), d, FALSE)
        lone(c) == Has(s, c, d) /\ ~s.pre[c][d].up
    IN  IF up = Nobody \/ d = Missing THEN s
        ELSE IF ~Has(s, up, d) THEN s
        ELSE FoldLeft(LAMBDA u, c : set_parent(u, c, d), t, SetToSeq({c \in Children(s, n) : lone(c)}))

add_child(s, n) ==
    LET t == [s EXCEPT !.ent[n].at = "tree"]
    IN  FoldLeft(LAMBDA u, d : set_parent(u, n, d), t, s.ent[n].list)

\* file_entity_t::on_insert; the generations of the parents are moved as well.
RECURSIVE Outdate(_, _, _)
Outdate(s, n, d) ==
    IF n = Nobody THEN s
    ELSE IF ~s.pre[n][d].up THEN [s EXCEPT !.pre[n][d].fresh = FALSE]
    ELSE Outdate([s EXCEPT !.pre[n][d].fresh = FALSE], Parent(s, n), d)
NewPresence(n, v) == [NoPresence EXCEPT !.size = Size(n, v), !.count = 1, !.own = Size(n, v)]
file_on_insert(s, fs, n, d) ==
    LET t == [s EXCEPT !.ent[n].list = Append(@, d), !.pre[n][d] = NewPresence(n, fs[d][n])]
        u == set_parent(t, n, d)
        up == Parent(s, n)
    IN  IF Has(s, n, d) THEN s
        ELSE IF ~u.pre[n][d].up THEN u
        ELSE Outdate([u EXCEPT !.pre[up][d].kids = {}], up, d)

\* The constructor of file_entity_t: every device that has the file.
file_entity(s, fs, n) ==
    LET t == [s EXCEPT !.ent[n] = [NoEntity EXCEPT !.at = "orphan", !.list = <<Missing>>],
                       !.pre[n] = [d \in Owners |-> NoPresence]]
        ds == {d \in Devices : Has(s, Root, d) /\ fs[d][n] # 0}
    IN  FoldLeft(LAMBDA u, d : file_on_insert(u, fs, n, d), t, SetToSeq(ds))

RECURSIVE reap_children(_, _)
reap_children(s, n) ==
    LET cs == SetToSeq({c \in Paths : s.ent[c].at = "orphan" /\ ParentOf[c] = n})
        t == FoldLeft(LAMBDA u, c : add_child(u, c), s, cs)
    IN  FoldLeft(LAMBDA u, c : reap_children(u, c), t, cs)

\* The totals of an entity follow its best version: what counted before is own.
rebest(u, n, own) ==
    IF u.ent[n].best = Nobody THEN u ELSE push_stats(u, n, Plus(Minus(own), BestOwn(u, n)), Nobody, TRUE)
RECURSIVE commit(_, _, _, _)
commit(s, fs, n, d) ==
    LET below(c) == FoldLeft(LAMBDA u, x : commit(u, fs, x, d), s, SetToSeq(c))
        best(t) == rebest(recalc_best(t, fs, n), n, BestOwn(t, n))
    IN  IF Has(s, n, d) THEN Unfresh(best(below(Children(s, n))), n) ELSE s

----------------------------------------------------------------------------
\* Removal.  listed: the entity is still among the children of its parent.

Drop(s, n, d) ==
    [s EXCEPT !.ent[n].list = SelectSeq(@, LAMBDA o : o # d), !.pre[n][d] = NoPresence]

RECURSIVE remove_presense(_, _, _, _, _), detach_child(_, _, _)
clear_presense(s, fs, n, d, listed) == IF Has(s, n, d) THEN remove_presense(s, fs, n, d, listed) ELSE s

detach_child(s, fs, n) ==
    LET t == FoldLeft(LAMBDA u, c : detach_child(u, fs, c), s, SetToSeq(Children(s, n)))
        up == ParentOf[n]
        w == [t EXCEPT !.pre[up] = [d \in Owners |-> [@[d] EXCEPT !.kids = {}]]]
        x == FoldLeft(LAMBDA u, d : clear_presense(u, fs, n, d, TRUE), w, w.ent[n].list)
    IN  [x EXCEPT !.ent[n] = NoEntity, !.pre[n] = [d \in Owners |-> NoPresence]]

child_removed(s, fs, c, d) ==
    LET t == clear_presense(s, fs, c, d, FALSE)
    IN  IF t.ent[c].list = <<>> THEN detach_child(t, fs, c) ELSE t

\* The presence leaves the totals and the list, and may have been the best one.
Leave(t, n, d) ==
    Drop(push_stats(t, n, Minus(Own(t, n, d)), IF d = Missing THEN Nobody ELSE d, FALSE), n, d)
Succeed(r, n, own) == push_stats(r, n, Plus(Minus(own), BestOwn(r, n)), Nobody, TRUE)
LeaveBest(t, u, fs, n, d) ==
    IF t.ent[n].best = d THEN Succeed(recalc_best(u, fs, n), n, Own(t, n, d)) ELSE u

remove_presense(s, fs, n, d, listed) ==
    LET below == SetToSeq({c \in Children(s, n) : Has(s, c, d)})
        gone(t) == LeaveBest(t, Leave(t, n, d), fs, n, d)
        detached(x) == IF Parent(s, n) # Nobody /\ listed THEN detach_child(x, fs, n) ELSE x
        last(w) == IF w.ent[n].list # <<Missing>> THEN w
                   ELSE detached(remove_presense(w, fs, n, Missing, listed))
    IN  last(gone(FoldLeft(LAMBDA u, c : child_removed(u, fs, c, d), s, below)))

----------------------------------------------------------------------------
\* What the net_supervisor_t and the model call.

S == [ent |-> ent, pre |-> pre]
Become(s) == ent' = s.ent /\ pre' = s.pre
Spend(what) == left[what] > 0 /\ left' = [left EXCEPT ![what] = @ - 1]

\* upsert_folder_info_t: a new folder_info_t has no files.
on_insert_folder(d) ==
    /\ ~Has(S, Root, d)
    /\ Become(Unfresh([S EXCEPT !.ent[Root].list = Append(@, d)], Root))
    /\ UNCHANGED <<files, left, odd>>

\* update_folder_t, advance_t: a file that the device did not have.
on_insert(d, n, v) ==
    LET fs == [files EXCEPT ![d][n] = v]
        up == ParentOf[n]
    IN  /\ Has(S, Root, d) /\ files[d][n] = 0 /\ Spend("ops")
        /\ files' = fs
        /\ Become(
            IF ent[n].at = "tree" THEN commit(file_on_insert(S, fs, n, d), fs, n, d)
            ELSE IF ent[up].at = "tree"
            THEN commit(reap_children(add_child(file_entity(S, fs, n), n), n), fs, n, d)
            ELSE IF ent[n].at = "orphan" THEN file_on_insert(S, fs, n, d)
            ELSE file_entity(S, fs, n))
        /\ UNCHANGED odd

\* cluster_file_presence_t::on_update (file_info_t::notify_update).
updated(s, fs, n, d) ==
    LET diff == [size |-> Size(n, fs[d][n]) - s.pre[n][d].own, count |-> 0]
        r == recalc_best(s, fs, n)
        changed == r.ent[n].best # s.ent[n].best /\ r.ent[n].best = d
        p == push_stats(r, n, diff, d, ~changed /\ r.ent[n].best = d)
        q == [p EXCEPT !.pre[n][d].own = Size(n, fs[d][n])]
        all == Plus(Stats(q, n, d), Minus([size |-> s.ent[n].size, count |-> s.ent[n].count]))
    IN  IF changed THEN push_stats(q, n, all, Nobody, TRUE) ELSE q

\* Every device that has a path has its directory, too.
Closed == \A d \in Devices, n \in Paths : files[d][n] # 0 /\ ParentOf[n] # Root => files[d][ParentOf[n]] # 0
\* The totals of a directory are replaced by those of the device whose version
\* becomes the best one, as if the device had the best of everything below.
Lopsided(fs, n, d) ==
    /\ best_of(S, fs, n) = d /\ ent[n].best # d
    /\ Plus(Stats(S, n, d), Minus(Own(S, n, d))) # Plus([size |-> ent[n].size, count |-> ent[n].count], Minus(BestOwn(S, n)))

on_update(d, n, v) ==
    LET fs == [files EXCEPT ![d][n] = v]
    IN  /\ files[d][n] \in 1..(v - 1) /\ Has(S, n, d) /\ ent[n].at = "tree" /\ Spend("ops")
        /\ files' = fs
        /\ Become(updated(S, fs, n, d))
        /\ odd' = (odd \/ ~Closed \/ Lopsided(fs, n, d))

\* remove_files_t, remove_folder_infos_t: a device stops sharing; its files are
\* destroyed in the order of the map, and the folder_info_t after them.
Forget(d, order) ==
    LET all == Append(order, Root)
        fs(i) == [files EXCEPT ![d] = [p \in Paths |-> IF \E j \in 1..i : all[j] = p THEN 0 ELSE @[p]]]
        step(s, i) == clear_presense(s, fs(i), all[i], d, TRUE)
    IN  /\ Has(S, Root, d) /\ Spend("forgets")
        /\ files' = fs(Len(all))
        /\ \E s \in {FoldLeft(step, S, [i \in DOMAIN all |-> i])} :
              /\ Become(s)
              /\ odd' = (odd \/ ~Closed \/ \E n \in Paths : s.ent[n].at = "orphan" /\ s.ent[n].list = <<>>)

\* get_stats(true): the cached number of entries that agree with the cluster.
get_presence(s, n, d) == IF Has(s, n, d) THEN d ELSE Missing
Matches(s, fs, n, d) == s.ent[n].best # Nobody /\ fs[d][n] = fs[s.ent[n].best][n]
RECURSIVE sync_with_entity(_, _, _, _)
sync_with_entity(s, fs, n, d) ==
    LET cs == {c \in Children(s, n) : Has(s, c, d)}
        t == FoldLeft(LAMBDA u, c : sync_with_entity(u, fs, c, d), s, SetToSeq(cs))
        own == IF n # Root /\ Matches(s, fs, n, d) THEN 1 ELSE 0
        sum == own + FoldSet(LAMBDA c, acc : acc + t.pre[c][d].cluster, 0, cs)
    IN  IF s.pre[n][d].fresh THEN s ELSE [t EXCEPT !.pre[n][d].fresh = TRUE, !.pre[n][d].cluster = sum]

get_stats(n, d) ==
    /\ Has(S, n, d) /\ ent[n].at = "tree" /\ ~pre[n][d].fresh
    /\ Become(sync_with_entity(S, files, n, d))
    /\ Spend("looks") /\ UNCHANGED <<files, odd>>

\* The children of a presence, as the user interface walks them.
get_children(n, d) ==
    LET kids == {<<c, get_presence(S, c, d)>> : c \in {c \in Children(S, n) : ent[c].best # Nobody}}
    IN  /\ Has(S, n, d) /\ ent[n].at = "tree"
        /\ Cardinality(pre[n][d].kids) # Cardinality(Children(S, n))
        /\ Become([S EXCEPT !.pre[n][d].kids = kids])
        /\ Spend("looks") /\ UNCHANGED <<files, odd>>

Next ==                                 \* nothing is followed after an odd step
    /\ ~odd
    /\ \/ \E d \in Devices : on_insert_folder(d)
       \/ \E d \in Devices, n \in Paths, v \in 1..MaxVersion : on_insert(d, n, v) \/ on_update(d, n, v)
       \/ \E d \in Devices : \E order \in SetToSeqs({p \in Paths : files[d][p] # 0}) : Forget(d, order)
       \/ \E n \in Nodes, d \in Devices : get_stats(n, d) \/ get_children(n, d)

Spec == Init /\ [][Next]_vars

----------------------------------------------------------------------------
RECURSIVE Below(_)
Below(n) == {n} \cup UNION {Below(c) : c \in Children(S, n)}

\* Type invariant; a device has at most one presence of a path.
TypeOK ==
    /\ files \in [Devices -> [Paths -> 0..MaxVersion]]
    /\ \A n \in Nodes : ent[n].at \in {"none", "tree", "orphan"} /\ ent[n].best \in Devices \cup {Nobody}
    /\ \A n \in Nodes : IsInjective(ent[n].list) /\ ToSet(ent[n].list) \subseteq Owners
    /\ left \in [ops : 0..MaxOps, forgets : 0..MaxForgets, looks : 0..MaxLooks]

\* The differences that push_stats, set_parent and remove_presense add up to a
\* device's totals are the sums over what the device really has below, whatever
\* the order in which files, directories and other devices come and go.
DeviceTotals ==
    Closed /\ ~odd => \A n \in Nodes, d \in Devices : Has(S, n, d) /\ ent[n].at = "tree" =>
        LET mine == {m \in Below(n) \ {Root} : Has(S, m, d)}
        IN  /\ pre[n][d].count = Cardinality(mine)
            /\ pre[n][d].size = FoldSet(LAMBDA m, acc : acc + Size(m, files[d][m]), 0, mine)
\* An entity's totals count every path below once, with the size of its newest
\* version (commit, on_update and remove_presense push the differences).
EntityTotals ==
    Closed /\ ~odd => \A n \in Nodes : ent[n].at = "tree" =>
        LET all == Below(n) \ {Root}
        IN  /\ ent[n].count = Cardinality(all)
            /\ ent[n].size = FoldSet(LAMBDA m, acc : acc + Size(m, files[ent[m].best][m]), 0, all)
\* entity_t::best is a live presence of the newest version, also after the
\* device that had it left (remove_presense) or another one caught up.
BestIsNewest ==
    \A n \in Paths : ent[n].at = "tree" /\ ent[n].best # Nobody =>
        /\ Has(S, n, ent[n].best)
        /\ \A d \in Devices : files[d][n] <= files[ent[n].best][n]
\* No file is lost from the tree: orphans are reaped when their directory comes,
\* and a device that leaves takes nothing of the others with it.
AllShown == Closed /\ ~odd => \A d \in Devices, n \in Paths : files[d][n] # 0 => ent[n].at = "tree" /\ Has(S, n, d) /\ ent[n].best # Nobody
\* A presence whose generation equals its entity's has the right number of entries
\* that agree with the cluster: every change below makes the cached one stale.
CachedRight ==
    Closed /\ ~odd => \A n \in Nodes, d \in Devices : Has(S, n, d) /\ pre[n][d].fresh =>
        pre[n][d].cluster = Cardinality({m \in Below(n) \ {Root} : Has(S, m, d) /\ Matches(S, files, m, d)})
\* The cached children of a presence exist and are the ones get_presence returns:
\* presence_t::get_children only compares the sizes before it uses the cache.
KidsLive ==
    \A n \in Nodes, d \in Devices : Has(S, n, d) => \A k \in pre[n][d].kids :
        k[1] \in Children(S, n) /\ k[2] = get_presence(S, k[1], d)

\* The tree shows every file with its best version, and what it caches and
\* adds up along the way is what it would find by looking again.
TreeSound ==
    TypeOK /\ BestIsNewest /\ AllShown /\ KidsLive /\ CachedRight /\ DeviceTotals /\ EntityTotals
=============================================================================
