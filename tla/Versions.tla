------------------------------ MODULE Versions ------------------------------
(***************************************************************************)
(* How devices agree on a file: version vectors (model::version_t), the    *)
(* version that a local change gets (local_update_t), and what a device    *)
(* does with the version of a peer (model::resolve, compare_by_version):   *)
(* take it, keep its own, or take it and rename its own (remote_win_t).    *)
(* One file of a folder that all Devices share; each is a syncspirit.      *)
(* Files are scanned, valid and reachable; conflict copies are files with  *)
(* other names, known by the time and the device in their names.           *)
(***************************************************************************)
EXTENDS Naturals, Sequences, FiniteSets, SequencesExt, FiniteSetsExt

CONSTANTS Devices,              \* subset of Nat: device_id_t::get_uint
          Setups                \* alternatives, see setup

VARIABLES file,                 \* file[d]: the file of device d
          view,                 \* view[d][p]: what d was told of p's file
          copies,               \* copies[d]: conflict copies
          setup,                \* devices that share the folder, contents, what clocks say,
                                \* modification times, bound on local changes
          edits,                \* number of local changes
          given,                \* given[d]: the highest counter of d so far (history)
          known,                \* known[d]: the changes d's file has had (history)
          odd                   \* see StepsBack, Repeats (history)

group == setup.group
vars == <<file, view, copies, setup, edits, given, known, odd>>

----------------------------------------------------------------------------
\* version_t: a sequence of counters; the best one is marked.

Best(p) == CHOOSE i \in DOMAIN p : /\ \A j \in DOMAIN p : p[j].value <= p[i].value
                                   /\ \A j \in 1 .. i - 1 : p[j].value < p[i].value
version_t(p) == [i \in DOMAIN p |-> [id |-> p[i].id, value |-> p[i].value, best |-> i = Best(p)]]
to_proto(v) == [i \in DOMAIN v |-> [id |-> v[i].id, value |-> v[i].value]]
get_best(v) == v[Max({i \in DOMAIN v : v[i].best})]
update(v, d, now) ==
    LET value == Max({now} \cup {v[i].value + 1 : i \in {j \in DOMAIN v : v[j].best}})
        new == [id |-> d, value |-> value, best |-> TRUE]
        mine == {i \in DOMAIN v : v[i].id = d}
    IN  IF mine = {} THEN Append(v, new) ELSE [v EXCEPT ![Min(mine)] = new]
ContainsByValue(v, o) == get_best(v).value >= get_best(o).value    \* mutant: whoever gave them
contains(v, o) ==
    LET b == get_best(o)
        same == {i \in DOMAIN v : v[i].id = b.id}
    IN  same # {} /\ v[Min(same)].value >= b.value
identical_to(v, o) == to_proto(v) = to_proto(o)

----------------------------------------------------------------------------
\* line: the changes this version was made of; past: those its maker had seen
\* in this file (history, a function of the version).

NoFile == [version |-> <<>>, body |-> "none", deleted |-> FALSE, modified |-> 0, line |-> {}, past |-> {}]
Exists(f) == f.version # <<>>

\* compare_by_version(remote, local).
compare_by_version(r, l) ==
    LET rb == get_best(r.version)
        lb == get_best(l.version)
        r_superior == contains(r.version, l.version)
        l_superior == contains(l.version, r.version)
    IN  IF rb.id = lb.id THEN (IF lb.value < rb.value THEN "remote_copy" ELSE "ignore")
        ELSE IF ~r_superior /\ ~l_superior /\ (r.deleted \/ l.deleted)
             THEN (IF r.deleted THEN "ignore" ELSE "remote_copy")
        ELSE IF r_superior THEN "remote_copy"
        ELSE IF l_superior THEN "ignore"
        ELSE IF r.modified # l.modified THEN (IF r.modified > l.modified THEN "resolve_remote_win" ELSE "ignore")
        ELSE IF rb.id >= lb.id THEN "resolve_remote_win" ELSE "ignore"

\* mutant: whatever a third device has goes first
ThirdFirst(d, p) ==
    IF \E q \in Devices \ {d, p} : Exists(view[d][q]) /\ view[d][q] # view[d][p] THEN "ignore"
    ELSE IF ~Exists(file[d]) THEN "remote_copy"
    ELSE IF view[d][p].deleted /\ file[d].deleted THEN "ignore"
    ELSE compare_by_version(view[d][p], file[d])
\* _resolve: a third device that has something else goes first.
Resolve0(d, p) ==
    LET r == view[d][p]
        others == {q \in Devices \ {d, p} : Exists(view[d][q])}
    IN  IF \E q \in others : ~contains(r.version, view[d][q].version) THEN "ignore"
        ELSE IF ~Exists(file[d]) THEN "remote_copy"
        ELSE IF r.deleted /\ file[d].deleted THEN "ignore"
        ELSE compare_by_version(r, file[d])

make_conflicting_name(f) == [modified |-> f.modified, by |-> get_best(f.version).id]
Taken(d) == make_conflicting_name(file[d]) \in {c.name : c \in copies[d]}
resolve(d, p) ==
    LET action == Resolve0(d, p)
    IN  IF action = "resolve_remote_win" /\ Taken(d) THEN "ignore" ELSE action

----------------------------------------------------------------------------
\* What the owner of a device does: a change, a deletion.

get_original(d, body) ==
    {p \in Devices \ {d} : /\ Exists(view[d][p]) /\ view[d][p].body = body
                           /\ view[d][p].deleted = (body = "none")}

\* The change gives the file a content that p had, or has: it gets p's version,
\* which may be older than the local one.
StepsBack(d, p) == Exists(file[d]) /\ ~contains(view[d][p].version, file[d].version)

\* The device gives a counter it gave before: its file was replaced by one without
\* that counter, and its clock is behind.
Repeats(d, v) == \E i \in DOMAIN v : v[i].id = d /\ v[i].value <= given[d]

local_update(d, body, now, modified) ==
    /\ edits < setup.edits /\ edits' = edits + 1
    /\ body # file[d].body /\ (body = "none" => Exists(file[d]) /\ ~file[d].deleted)
    /\ LET v == IF Exists(file[d]) THEN update(file[d].version, d, now) ELSE update(<<>>, d, now)
           new == [version |-> version_t(to_proto(v)), body |-> body, deleted |-> body = "none", modified |-> modified,
                   line |-> file[d].line \cup {edits'}, past |-> known[d] \cup {edits'}]
       IN  \* any of the originals: the first one of an unordered map
           IF get_original(d, body) = {}
           THEN /\ file' = [file EXCEPT ![d] = new] /\ odd' = (odd \/ Repeats(d, v))
                /\ given' = [given EXCEPT ![d] = Max({@, get_best(new.version).value})]
           ELSE \E p \in get_original(d, body) :
                    /\ file' = [file EXCEPT ![d] = view[d][p]]
                    /\ odd' = (odd \/ StepsBack(d, p)) /\ given' = given
    /\ known' = [known EXCEPT ![d] = @ \cup file'[d].past]
    /\ UNCHANGED <<view, copies, setup>>

\* The index of p reaches d (with the conflict copies, which are files as well).
Announce(d, p) ==
    /\ d # p
    /\ view' = [view EXCEPT ![d][p] = file[p]] /\ copies' = [copies EXCEPT ![d] = @ \cup copies[p]]
    /\ <<view', copies'>> # <<view, copies>>
    /\ UNCHANGED <<file, setup, edits, given, known, odd>>

\* advance_t: remote_copy_t.
remote_copy(d, p) ==
    /\ d # p /\ Exists(view[d][p]) /\ resolve(d, p) = "remote_copy"
    /\ file' = [file EXCEPT ![d] = view[d][p]] /\ known' = [known EXCEPT ![d] = @ \cup view[d][p].past]
    /\ UNCHANGED <<view, copies, setup, edits, given, odd>>
\* remote_win_t: the local file is renamed, then the remote one is copied.
remote_win(d, p) ==
    /\ d # p /\ Exists(view[d][p]) /\ resolve(d, p) = "resolve_remote_win"
    /\ copies' = [copies EXCEPT ![d] = @ \cup {[name |-> make_conflicting_name(file[d]), body |-> file[d].body]}]
    /\ file' = [file EXCEPT ![d] = view[d][p]] /\ known' = [known EXCEPT ![d] = @ \cup view[d][p].past]
    /\ UNCHANGED <<view, setup, edits, given, odd>>
Init ==
    /\ file = [d \in Devices |-> NoFile] /\ view = [d \in Devices |-> [p \in Devices |-> NoFile]]
    /\ copies = [d \in Devices |-> {}] /\ setup \in Setups /\ edits = 0 /\ given = [d \in Devices |-> 0] /\ known = [d \in Devices |-> {}] /\ odd = FALSE

Step ==
    \/ \E d \in group, b \in setup.bodies \cup {"none"}, now \in setup.clocks, m \in setup.times : local_update(d, b, now, m)
    \/ \E d, p \in group : Announce(d, p) \/ remote_copy(d, p) \/ remote_win(d, p)

Next == ~odd /\ Step

Spec == Init /\ [][Next]_vars

----------------------------------------------------------------------------
Everywhere == {file[d] : d \in Devices} \cup UNION {{view[d][p] : p \in Devices} : d \in Devices}
Versioned == {f \in Everywhere : Exists(f)}

\* Type invariant: every version has one best counter, and no device twice.
TypeOK ==
    /\ edits \in 0..setup.edits /\ odd \in BOOLEAN
    /\ \A f \in Versioned : /\ Cardinality({i \in DOMAIN f.version : f.version[i].best}) = 1
                            /\ Cardinality({f.version[i].id : i \in DOMAIN f.version}) = Len(f.version)

\* The following hold as long as no device stepped back to the version of a peer
\* or repeated a counter.

\* A version is said to contain another only if its maker had seen it: no change
\* is taken for an old one and overwritten without a conflict.
ContainsSeen == ~odd => \A f, g \in Versioned : contains(f.version, g.version) => g.line \subseteq f.past

\* And a version that was made from another one contains it.
ContainsLine == ~odd => \A f, g \in Versioned : g.line \subseteq f.line => contains(f.version, g.version)

\* Equal vectors are the same version: two devices never give different contents
\* the same version, as each only raises its own counter.
VersionsDiffer == ~odd => \A f, g \in Versioned : identical_to(f.version, g.version) => f.body = g.body /\ f.line = g.line

\* Devices decide alike: when two of them compare the same two files, both keep or
\* both take the same one; they do not swap their files or each keep its own.
\* (Two deletions stay as they are.)
Symmetric ==
    \A f, g \in Versioned :
        ~odd /\ ~identical_to(f.version, g.version) /\ ~(f.deleted /\ g.deleted)
            => (compare_by_version(f, g) = "ignore") # (compare_by_version(g, f) = "ignore")

\* Every device was told everything, and none takes anything.
Settled == /\ \A d, p \in group : d # p => view[d][p] = file[p] /\ copies[d] = copies[p]
           /\ \A d, p \in group : d # p /\ Exists(file[p]) => resolve(d, p) = "ignore"

\* Then a version that contains the versions of all devices is everywhere: an
\* ordinary change reaches every device, whatever they have been through.
NewestSpreads ==
    Settled /\ ~odd => \A d \in group :
        Exists(file[d]) /\ (\A p \in group : Exists(file[p]) => contains(file[d].version, file[p].version))
            => \A p \in group : file[p].body = file[d].body

Blocked == \E d, p \in group : d # p /\ Exists(view[d][p]) /\ Resolve0(d, p) # resolve(d, p)

\* And two devices have the same file, conflicts included, unless a conflict copy
\* of the name is there already.
PairConverges ==
    Settled /\ ~odd /\ ~Blocked /\ Cardinality(group) = 2 => \A d, p \in group : file[d].body = file[p].body

\* So do more than two.
Converged == Settled /\ ~odd /\ ~Blocked => \A d, p \in group : file[d].body = file[p].body

\* A change of the owner makes a version that contains the one before.
LocalNewer ==
    [][edits' # edits => \A d \in Devices : Exists(file[d]) /\ file'[d] # file[d]
          => contains(file'[d].version, file[d].version)]_vars

\* Versions are ordered as the changes were made, and all devices judge alike.
OrderSound == TypeOK /\ VersionsDiffer /\ ContainsSeen /\ ContainsLine /\ Symmetric

\* Files spread: the newest one to all devices, the better of two to both.
Spreads == PairConverges /\ NewestSpreads
=============================================================================
