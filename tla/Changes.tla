------------------------------ MODULE Changes ------------------------------
(***************************************************************************)
(* The file system watcher of a folder: how the events of the operating    *)
(* system become the changes that local_keeper_t is told of.  Events are   *)
(* merged for a retention interval (watcher_base_t); events of the         *)
(* program's own file operations (fs_proxy_t, called by file_actor_t) are  *)
(* masked by updates_mediator_t.  inotify and ReadDirectoryChangesW are    *)
(* external.                                                               *)
(*                                                                         *)
(* Time is counted in retention intervals; a deadline is only compared     *)
(* with the deadline of the same callback, so it is kept as "set or not".  *)
(* Timers do not slip: the retention timer is served before the expiration *)
(* timer of the masks, which is twice as long.                             *)
(***************************************************************************)
EXTENDS Naturals, Sequences, FiniteSets, Functions, SequencesExt, TLC

CONSTANTS Names, Dirs,          \* entries of the folder; Dirs are directories
          Systems,              \* subset of {"linux", "windows"}
          MaxEvents,            \* bound on unread events
          Budgets               \* bounds: [user, own, lost], operations of the user, of
                                \* the program, overflows of the event queue

NoName == "none"
Tmp == "tmp"                    \* a name with the suffix of temporary files
Gone == 0                       \* contents of a missing entry
\* A timer of k intervals starts at k + 1 and is due at 1; 0 is no timer.
Retension == 2
Expiration == 3                 \* file_actor_t is made with retension_x2

VARIABLES os, disk,             \* contents of the entries
          events,               \* unread events of the operating system
          deaf,                 \* windows: the read was not initiated again
          bulk,                 \* watcher_base_t: next, postponed, next.deadline set
          timer,                \* the retention timer
          med,                  \* updates_mediator_t: counters and deadlines
          expiry,               \* file_actor_t's expiration_timer
          view,                 \* the folder as local_keeper_t was told (history)
          seen,                 \* what happened (history): see Fresh
          left                  \* operations left (bounds), and the next stamp

vars == <<os, disk, events, deaf, bulk, timer, med, expiry, view, seen, left>>

Flags == {"CREATED_1", "CREATED", "CONTENT", "META", "DELETED"}
NoRecord == [type |-> {}, prev |-> NoName, refine |-> FALSE]
Empty == [n \in Names |-> NoRecord]
NoMask == [n \in Names |-> 0]
\* odd: something happened that the merging of events cannot express (see Odd);
\* echo: names that were reported and that the user did not touch; past: what the
\* user did to a name that is still to be reported; moved: where its file was.
Fresh == [odd |-> FALSE, echo |-> {}, past |-> [n \in Names |-> {}], moved |-> [n \in Names |-> NoName]]

Init ==
    /\ os \in Systems
    /\ disk \in {[n \in Names |-> IF n \in S THEN 1 ELSE Gone] : S \in SUBSET Names}
    /\ view = disk /\ events = <<>> /\ deaf = FALSE
    /\ bulk = [next |-> Empty, post |-> Empty, open |-> FALSE] /\ timer = 0
    /\ med = [next |-> NoMask, post |-> NoMask, open |-> FALSE, popen |-> FALSE] /\ expiry = 0
    /\ seen = Fresh /\ \E b \in Budgets : left = [user |-> b.user, own |-> b.own, lost |-> b.lost, stamp |-> 2]

----------------------------------------------------------------------------
\* updates_mediator_t::mask, within one message of file_actor_t: `fresh` says
\* that next.deadline was set by the same message.
mask(md, path, prev, fresh) ==
    LET Add(f, n, k) == IF n \in Names THEN [f EXCEPT ![n] = @ + k] ELSE f
        k == 1 + md.next[path]
    IN  IF path \notin Names THEN md
        ELSE IF fresh THEN [md EXCEPT !.next = Add(Add(@, path, 1), prev, 1)]
        ELSE [md EXCEPT !.next[path] = 0, !.post = Add(Add(@, path, k), prev, k),
                        !.popen = @ \/ md.post = NoMask]

\* updates_mediator_t::is_masked, and the counters that remain.
is_masked(md, n) == (md.popen /\ md.post[n] > 0) \/ (md.open /\ md.next[n] > 0)
unmask(md, n) ==
    IF md.popen /\ md.post[n] > 0 THEN [md EXCEPT !.post[n] = @ - 1]
    ELSE IF md.open /\ md.next[n] > 0 THEN [md EXCEPT !.next[n] = @ - 1] ELSE md

\* updates_mediator_t::clean_expired
clean_expired(md) == [next |-> md.post, post |-> NoMask, open |-> md.popen, popen |-> FALSE]

----------------------------------------------------------------------------
\* fs_proxy_t: an operation on the disk, the event it causes and the mask.  A
\* state of file_actor_t's message is [disk, events, med, fresh, stamp].
Ev(kind, n) == [kind |-> kind, name |-> n, cookie |-> 0]
Renaming(a, b, c) == <<[kind |-> "from", name |-> a, cookie |-> c], [kind |-> "to", name |-> b, cookie |-> c]>>
Put(f, n, v) == IF n \in Names THEN [f EXCEPT ![n] = v] ELSE f

rename(s, from, to) ==
    [s EXCEPT !.disk = Put(Put(@, to, IF from \in Names THEN s.disk[from] ELSE s.stamp), from, Gone),
              !.events = @ \o Renaming(from, to, s.stamp),
              !.med = mask(@, to, from, s.fresh)]
last_write_time(s, n) == [s EXCEPT !.events = Append(@, Ev("attrib", n)), !.med = mask(@, n, NoName, s.fresh)]
set_perms(s, n) == [s EXCEPT !.events = Append(@, Ev("attrib", n)), !.med = mask(@, n, NoName, s.fresh)]
remove(s, n) ==
    [s EXCEPT !.disk[n] = Gone, !.events = Append(@, Ev("delete", n)), !.med = mask(@, n, NoName, s.fresh)]
create_directories(s, n) ==
    IF s.disk[n] # Gone THEN [s EXCEPT !.med = mask(@, n, NoName, s.fresh)]
    ELSE [s EXCEPT !.disk[n] = s.stamp, !.events = Append(@, Ev("create", n)), !.med = mask(@, n, NoName, s.fresh)]
\* a missing file is created, and resized (to the size it has, for an empty file)
open_write(s, n) ==
    IF s.disk[n] # Gone THEN [s EXCEPT !.events = Append(@, Ev("modify", n)), !.med = mask(@, n, NoName, s.fresh)]
    ELSE [s EXCEPT !.disk[n] = s.stamp, !.events = @ \o <<Ev("create", n), Ev("modify", n)>>,
                   !.med = mask(mask(@, n, NoName, s.fresh), n, NoName, s.fresh)]

\* file_t::close with a local name, then file_actor_t's finish_file_t
finish_file(s, n) == set_perms(last_write_time(rename(s, Tmp, n), n), n)
\* file_actor_t's remote_copy_t
remote_copy(s, n, deleted) ==
    IF deleted THEN IF s.disk[n] = Gone THEN s ELSE remove(s, n)
    ELSE IF n \in Dirs THEN set_perms(create_directories(s, n), n)
    ELSE set_perms(last_write_time(open_write(s, n), n), n)
conflict_copy(s, n, to) == rename(s, n, to)

Results(s) ==
    {remote_copy(s, n, TRUE) : n \in Names}
    \cup {remote_copy(s, n, FALSE) : n \in {m \in Names : s.disk[m] = Gone}}
    \cup {finish_file(s, n) : n \in Names \ Dirs}
    \cup {finish_file(conflict_copy(s, n, to), n) :
            <<n, to>> \in {p \in (Names \ Dirs) \X (Names \ Dirs) : p[1] # p[2] /\ s.disk[p[1]] # Gone /\ s.disk[p[2]] = Gone}}

Stamp == left.stamp

Renamed(n) == \/ bulk.next[n].prev # NoName \/ bulk.post[n].prev # NoName
              \/ \E i \in DOMAIN events : events[i].kind = "to" /\ events[i].name = n
\* file_actor_t::on_io_commands.  The model was updated before: the keeper's view
\* follows the disk.
on_io_commands ==
    /\ left.own > 0 /\ ~seen.odd
    /\ LET s == [disk |-> disk, events |-> events, med |-> [med EXCEPT !.open = TRUE],
                 fresh |-> ~med.open, stamp |-> Stamp]
       IN  \E t \in Results(s) :
            /\ Len(t.events) <= MaxEvents /\ t.med # s.med
            /\ disk' = t.disk /\ events' = (IF deaf THEN events ELSE t.events)
            /\ med' = t.med /\ expiry' = (IF expiry = 0 THEN Expiration ELSE expiry)
            /\ view' = [n \in Names |-> IF t.disk[n] # disk[n] THEN t.disk[n] ELSE view[n]]
            \* a name the user touches as well, or one with a new name that was not reported
            /\ seen' = [seen EXCEPT !.odd = @ \/ \E n \in Names : t.disk[n] # disk[n] /\ (seen.past[n] # {} \/ Renamed(n))]
    /\ left' = [left EXCEPT !.own = @ - 1, !.stamp = @ + 1]
    /\ UNCHANGED <<os, deaf, bulk, timer>>

\* file_actor_t::on_retension_finish
on_expired ==
    /\ expiry = 1 /\ timer # 1
    /\ med' = clean_expired(med)
    /\ expiry' = IF \E n \in Names : med'.next[n] > 0 THEN Expiration ELSE 0
    /\ UNCHANGED <<os, disk, events, deaf, bulk, timer, view, seen, left>>

----------------------------------------------------------------------------
\* folder_update_t::update(new_record, it_prev, prev_source): the record p that
\* is known of name q in prev_source ("next" or "post") is merged with the new
\* record r of name n, and goes to the target.
ContentLike == {"CONTENT", "CREATED", "CREATED_1"}
Absent(b, n) == b[n].type = {}
Insert(b, n, r) == IF Absent(b, n) THEN [b EXCEPT ![n] = r] ELSE b
Deletion(refine) == [type |-> {"DELETED"}, prev |-> NoName, refine |-> refine]
Creation(refine) == [type |-> {"CREATED_1"}, prev |-> NoName, refine |-> refine]

collapses(p, n, r) == p.type = {"META"} /\ r.type = {"META"} /\ p.prev = n
splits_renamed(p, r) == p.type \cap ContentLike # {} /\ "META" \in r.type /\ r.prev # NoName
splits_changed(p, r) == "META" \in p.type /\ p.prev # NoName /\ r.type \cap ContentLike # {}
\* mutant: the previous name is not kept
PreservedNew(p, r) ==
    LET type == IF p.type \cap ContentLike # {} /\ "META" \in r.type THEN p.type ELSE r.type
    IN  [type |-> type \cup (p.type \cap {"CREATED_1"}), prev |-> r.prev, refine |-> p.refine \/ r.refine]
preserved(p, r) ==
    LET type == IF p.type \cap ContentLike # {} /\ "META" \in r.type THEN p.type ELSE r.type
    IN  [type |-> type \cup (p.type \cap {"CREATED_1"}),
         prev |-> IF p.prev # NoName THEN p.prev ELSE r.prev,
         refine |-> p.refine \/ r.refine]
merge(bu, target, source, q, n, r) ==
    LET p == bu[source][q]
        cut == [bu EXCEPT ![source][q] = NoRecord]
        Split(gone) == [cut EXCEPT ![target] = Insert(Insert(@, gone, Deletion(p.refine)), n, Creation(r.refine))]
    IN  IF collapses(p, n, r) THEN bu
        ELSE IF splits_renamed(p, r) THEN Split(r.prev)
        ELSE IF splits_changed(p, r) THEN Split(p.prev)
        ELSE [cut EXCEPT ![target] = Insert(@, n, preserved(p, r))]

\* folder_update_t::update(record, prev): the record is looked for by its name
\* and by its previous name, in the target and then in the source.
update(bu, target, source, n, r) ==
    LET Known(b, m) == m \in Names /\ ~Absent(bu[b], m)
        places == <<<<target, n>>, <<target, r.prev>>, <<source, n>>, <<source, r.prev>>>>
        found == SelectSeq(places, LAMBDA x : Known(x[1], x[2]))
    IN  IF found = <<>> THEN [bu EXCEPT ![target] = Insert(@, n, r)]
        ELSE merge(bu, target, found[1][1], found[1][2], n, r)

\* watcher_base_t::push; `fresh` says that next.deadline was set by the same callback.
push(bu, fresh, n, r) ==
    IF fresh THEN update(bu, "next", "next", n, r) ELSE update(bu, "post", "next", n, r)

\* folder_update_t::update(relative_path, type, ...): "created" is CREATED_1
Record(type, prev, refine) == [type |-> {IF type = "CREATED" THEN "CREATED_1" ELSE type}, prev |-> prev, refine |-> refine]

\* watcher_t::inotify_callback: the type of an event; a rename is one META with
\* the previous name, when both of its halves were read together.
Pair(es, i) ==
    es[i].kind = "to" /\ i > 1 /\ es[i - 1].name \in Names /\ es[i].cookie # 0 /\ es[i - 1].cookie = es[i].cookie
inotify(es, i) ==
    LET e == es[i]
        d == e.name \in Dirs
    IN  CASE e.kind = "create" -> Record("CREATED", NoName, d)
          [] e.kind = "delete" -> Record("DELETED", NoName, FALSE)
          [] e.kind = "modify" -> Record("CONTENT", NoName, FALSE)
          [] e.kind = "attrib" -> Record("META", NoName, FALSE)
          [] e.kind = "to" -> IF Pair(es, i) THEN Record("META", es[i - 1].name, FALSE) ELSE Record("CREATED", NoName, d)
          [] OTHER -> NoRecord
LoneFrom(es) == {i \in DOMAIN es : es[i].kind = "from" /\ es[i].name \in Names /\ ~(i < Len(es) /\ Pair(es, i + 1))}
inotify_callback(bu, es, fresh) ==
    LET Take(b, i) == IF es[i].name \notin Names \/ inotify(es, i) = NoRecord THEN b
                      ELSE push(b, fresh, es[i].name, inotify(es, i))
        Lone(b, i) == push(b, fresh, es[i].name, Record("DELETED", NoName, FALSE))
    IN  FoldLeft(Lone, FoldLeft(Take, bu, [i \in DOMAIN es |-> i]), SetToSeq(LoneFrom(es)))

\* windows::watcher_t::on_notify
notified(e) ==
    CASE e.kind = "create" -> Record("CREATED", NoName, FALSE)
      [] e.kind = "delete" -> Record("DELETED", NoName, FALSE)
      [] e.kind \in {"modify", "attrib"} -> Record("CONTENT", NoName, FALSE)
      [] e.kind = "from" -> Record("DELETED", NoName, TRUE)
      [] e.kind = "to" -> Record("CREATED", NoName, TRUE)
on_notify(bu, es, fresh) ==
    LET Take(b, i) == IF es[i].name \notin Names THEN b ELSE push(b, fresh, es[i].name, notified(es[i]))
    IN  FoldLeft(Take, bu, [i \in DOMAIN es |-> i])

Pending(b) == \E n \in Names : ~Absent(b, n)

\* A read returns what is there; a rename may be in the queue by halves.
Read ==
    /\ events # <<>> /\ ~deaf
    /\ \E k \in {Len(events), Len(events) - 1} \ {0} :
        /\ k < Len(events) => events[Len(events)].kind = "to"
        /\ LET es == SubSeq(events, 1, k)
               fresh == ~bulk.open
               b == IF os = "linux" THEN inotify_callback(bulk, es, fresh) ELSE on_notify(bulk, es, fresh)
           IN  /\ bulk' = [b EXCEPT !.open = bulk.open \/ Pending(b.next)]
               /\ timer' = IF fresh /\ Pending(b.next) THEN Retension ELSE timer
        /\ events' = SubSeq(events, k + 1, Len(events))
    /\ UNCHANGED <<os, disk, deaf, med, expiry, view, seen, left>>

\* The queue overflows: both systems log it, and windows::watcher_t does not
\* initiate the next read.
Overflow ==
    /\ events # <<>> /\ left.lost > 0
    /\ events' = <<>> /\ deaf' = (os = "windows")
    /\ seen' = [seen EXCEPT !.odd = TRUE] /\ left' = [left EXCEPT !.lost = @ - 1]
    /\ UNCHANGED <<os, disk, bulk, timer, med, expiry, view>>

----------------------------------------------------------------------------
\* folder_update_t::make: what is reported of a record
skipped(n, r) ==
    \/ Absent([x \in {n} |-> r], n)
    \/ is_masked(med, n)
    \/ {"DELETED", "CREATED_1"} \subseteq r.type
    \/ "DELETED" \notin r.type /\ disk[n] = Gone
reported(b) == {n \in Names : ~skipped(n, b[n])}
is_gone(r) == "DELETED" \in r.type
gone_name(n, r) == IF r.prev # NoName THEN r.prev ELSE n
spend(md, b) == FoldLeft(unmask, md, SetToSeq({n \in Names : ~Absent(b, n)}))

\* What local_keeper_t makes of the report: a new directory is looked into only
\* when the report requires its refinement; windows reports what is created in it.
Told(b) ==
    LET R == reported(b)
        lost == {gone_name(n, b[n]) : n \in {m \in R : is_gone(b[m])}}
                \cup {b[n].prev : n \in {m \in R : ~is_gone(b[m]) /\ b[m].prev # NoName}}
        here == {n \in R : ~is_gone(b[n]) /\ (n \in Dirs /\ view[n] = Gone /\ os = "linux" => b[n].refine \/ b[n].prev # NoName)}
    IN  [n \in Names |-> IF n \in here THEN disk[n] ELSE IF n \in lost THEN Gone ELSE view[n]]

Waiting == {n \in Names : ~Absent(bulk.post, n) \/ \E m \in Names : bulk.post[m].prev = n}
           \cup {events[i].name : i \in DOMAIN events}

\* What was postponed comes next, with a timer of its own.
NextBulk ==
    /\ bulk' = [next |-> bulk.post, post |-> Empty, open |-> Pending(bulk.post)]
    /\ timer' = IF Pending(bulk.post) THEN Retension ELSE 0

\* watcher_base_t::on_retension_finish
on_retension_finish ==
    /\ timer = 1
    /\ med' = spend(med, bulk.next)
    /\ view' = Told(bulk.next)
    /\ seen' = [seen EXCEPT
            \* a renamed file that is gone, and its deletion was not read yet
            !.odd = @ \/ \E n \in Names : LET r == bulk.next[n] IN
                        r.prev # NoName /\ ~is_gone(r) /\ disk[n] = Gone /\ disk[r.prev] = Gone,
            !.echo = @ \cup {n \in reported(bulk.next) : seen.past[n] = {}},
            !.past = [n \in Names |-> IF n \in Waiting THEN @[n] ELSE {}],
            !.moved = [n \in Names |-> IF n \in Waiting THEN @[n] ELSE NoName]]
    /\ NextBulk
    /\ UNCHANGED <<os, disk, events, deaf, expiry, left>>

Tick ==
    /\ events = <<>> \/ deaf
    /\ 1 \notin {timer, expiry} /\ timer + expiry > 0
    /\ timer' = (IF timer > 1 THEN timer - 1 ELSE timer) /\ expiry' = (IF expiry > 1 THEN expiry - 1 ELSE expiry)
    /\ UNCHANGED <<os, disk, events, deaf, bulk, med, view, seen, left>>

----------------------------------------------------------------------------
\* The user.  What merging cannot express, because a record keeps one previous
\* name and one flag for "created".  Nothing is asked of the watcher after that.
Back(a, b) == seen.moved[a] = b /\ seen.past[a] = {"dst"} /\ seen.past[b] = {"src"}
Masked(n) == med.next[n] + med.post[n] > 0
Odd(n) ==                       \* an operation on n
    \/ Masked(n)                \* while an own operation on n is masked
    \/ "src" \in seen.past[n]   \* n was renamed, and its name is used again
    \/ "out" \in seen.past[n]   \* n was moved out of the folder: this comes last
OddLeave(n) ==                  \* n is deleted or gets another name
    \/ {"new", "del"} \subseteq seen.past[n]          \* deleted, created, deleted
    \/ seen.moved[n] # NoName /\ view[n] # Gone       \* what n replaced is gone, too
OddMove(a, b) ==
    \/ Odd(a) \/ OddLeave(a) \/ Masked(b)
    \/ seen.past[b] # {} /\ ~Back(a, b)
    \/ a \in Dirs /\ "new" \in seen.past[a]           \* the refinement is lost

User(es, d, odd, past) ==
    /\ left.user > 0 /\ ~seen.odd /\ Len(events \o es) <= MaxEvents
    /\ disk' = d /\ events' = (IF deaf THEN events ELSE events \o es)
    /\ seen' = [seen EXCEPT !.odd = @ \/ odd,
                 !.past = [n \in Names |-> @[n] \cup {x[2] : x \in {y \in past : y[1] = n}}],
                 !.moved = [n \in Names |->
                    IF <<n, "src">> \in past \/ <<n, "del">> \in past THEN NoName
                    ELSE IF <<n, "dst">> \in past THEN (CHOOSE x \in past : x[2] = "src")[1] ELSE @[n]]]
    /\ left' = [left EXCEPT !.user = @ - 1, !.stamp = @ + 1]
    /\ UNCHANGED <<os, deaf, bulk, timer, med, expiry, view>>

Create(n) == disk[n] = Gone /\ User(<<Ev("create", n)>>, [disk EXCEPT ![n] = Stamp], Odd(n), {<<n, "new">>})
MoveIn(n) ==                    \* windows says nothing of what is in a directory
    disk[n] = Gone /\ User(<<Ev(IF os = "linux" THEN "to" ELSE "create", n)>>, [disk EXCEPT ![n] = Stamp],
                           Odd(n) \/ (os = "windows" /\ n \in Dirs), {<<n, "new">>})
Write(n) == n \notin Dirs /\ disk[n] # Gone /\ User(<<Ev("modify", n)>>, [disk EXCEPT ![n] = Stamp], Odd(n), {<<n, "chg">>})
Chmod(n) == disk[n] # Gone /\ User(<<Ev("attrib", n)>>, [disk EXCEPT ![n] = Stamp], Odd(n), {<<n, "chg">>})
Delete(n) == disk[n] # Gone /\ User(<<Ev("delete", n)>>, [disk EXCEPT ![n] = Gone], Odd(n) \/ OddLeave(n), {<<n, "del">>})
MoveOut(n) ==
    disk[n] # Gone /\ User(<<Ev(IF os = "linux" THEN "from" ELSE "delete", n)>>, [disk EXCEPT ![n] = Gone], Odd(n) \/ OddLeave(n), {<<n, "del">>, <<n, "out">>})
Move(a, b) ==
    /\ a # b /\ disk[a] # Gone /\ (a \in Dirs <=> b \in Dirs) /\ (b \in Dirs => disk[b] = Gone)
    /\ User(Renaming(a, b, Stamp), [disk EXCEPT ![b] = disk[a], ![a] = Gone], OddMove(a, b), {<<a, "src">>, <<b, "dst">>})

Touch(n) == Create(n) \/ MoveIn(n) \/ Write(n) \/ Chmod(n) \/ Delete(n) \/ MoveOut(n)
Next ==
    \/ \E n \in Names : Touch(n)
    \/ \E a, b \in Names : Move(a, b)
    \/ on_io_commands \/ Read \/ Overflow \/ on_retension_finish \/ on_expired \/ Tick

Spec == Init /\ [][Next]_vars

----------------------------------------------------------------------------
Bulks == [Names -> [type : SUBSET Flags, prev : Names \cup {NoName}, refine : BOOLEAN]]
Counts == [Names -> Nat]
Contents == 0 .. Stamp

\* Bulks hold records of the five flags, and next is open as long as its timer runs.
TypeOK ==
    /\ os \in Systems /\ deaf \in BOOLEAN /\ timer \in 0..Retension /\ expiry \in 0..Expiration
    /\ disk \in [Names -> Contents] /\ view \in [Names -> Contents]
    /\ bulk.next \in Bulks /\ bulk.post \in Bulks /\ bulk.open = (timer > 0)
    /\ med.next \in Counts /\ med.post \in Counts

\* When all events were read and reported, local_keeper_t was told of every
\* change the user made, whatever the order of the operations, the reads and the
\* timers (but for Odd).
Followed == events = <<>> /\ timer = 0 /\ ~seen.odd => view = disk

\* What the user did not touch is not reported: the program's own operations are
\* masked until their events were reported.
NoEcho == ~seen.odd => seen.echo = {}

\* Recorded changes wait for a timer, those of the program for its expiration.
NothingStuck ==
    /\ Pending(bulk.next) \/ Pending(bulk.post) => timer > 0
    /\ (\E n \in Names : Masked(n)) => expiry > 0

\* watcher_base.cpp:199: what was created and deleted within the interval is
\* ignored, as it was not there before.
IgnoredIsNew ==
    [][on_retension_finish =>
        \A n \in Names : {"DELETED", "CREATED_1"} \subseteq bulk.next[n].type => view[n] = Gone]_vars

\* Every change of the user is reported, and no other one.
Reported == TypeOK /\ NoEcho /\ Followed /\ NothingStuck
=============================================================================
