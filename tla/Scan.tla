-------------------------------- MODULE Scan -------------------------------
(***************************************************************************)
(* The scan of one folder by local_keeper_t.  A folder_context_t holds a   *)
(* stack of things to look at and a queue of disk tasks; a folder_slave_t  *)
(* carries contexts to the file actor, one task at a time, and hashers     *)
(* return digests of the blocks read.  What is found is sent as model      *)
(* updates, applied later.  Changes reported by the watcher while a scan   *)
(* runs get a context of their own.                                        *)
(*                                                                         *)
(* A file on disk is the number of its content (modification time, size    *)
(* and bytes together), 0 when it is absent; a directory that exists is 1. *)
(***************************************************************************)
EXTENDS Integers, Sequences, FiniteSets

CONSTANTS Paths, Dirs,
          Root,
          Kids,            \* [Dirs -> Seq(Paths)]: what may be there, files first
          Blocks,          \* [Paths -> Nat]: blocks of a file
          Tmp, Final,     \* an incomplete file, and the file it is going to be
          PeerContent,     \* content of Final at the peer that has it
          Gone,            \* files the peers have deleted and the folder never had
          Pool,            \* concurrent_hashes
          Batch,           \* diffs_batch
          Setups           \* initial situations; fresh was just made; changes, errors: bounds

none == "none"
Kinds == {"scan", "change"}      \* contexts: of the scan, of changes from the watcher

VARIABLES disk, model,     \* files on disk and in the local folder
          susp, gone,      \* the folder is suspended, is removed
          peer,            \* the peer's version of Final: [has, size, sync, recent, action]
          ctx,             \* [Kinds -> folder_context_t]
          slaves,          \* [ctxs, task]; a task waits for the disk, or is back with a result
          keeper,          \* [tasks, pool, delayed, created]
          digests,         \* blocks at the hashers, or hashed
          queue,           \* model updates
          left,            \* disk changes and errors left (bounds)
          seen             \* history: [sub, told, touched, errors, lost, torn, over, two]

vars == <<disk, model, susp, gone, peer, ctx, slaves, keeper, digests, queue, left, seen>>

IsDir(p) == p \in Dirs
KidSet(p) == IF IsDir(p) THEN {Kids[p][i] : i \in 1 .. Len(Kids[p])} ELSE {}
RECURSIVE Below(_)
Below(p) == {p} \cup UNION {Below(k) : k \in KidSet(p)}
Parent(p) == CHOOSE d \in Dirs : p \in KidSet(d)
Known(p) == p = Root \/ model[p].has

NoHash == [total |-> 0, todo |-> 0, wait |-> 0, bad |-> 0, inc |-> FALSE, old |-> FALSE, v |-> 0, got |-> {}]
NoContext == [stack |-> <<>>, io |-> <<>>, inprog |-> 0, hashing |-> 0, gen |-> 0,
              at |-> [p \in Dirs |-> 0], files |-> [p \in Paths |-> 0], hash |-> [p \in Paths |-> NoHash]]

\* stack items
Complete == [t |-> "complete"]
Unscanned(p, one, gen, rec) == [t |-> "unscanned", p |-> p, one |-> one, gen |-> gen, rec |-> rec]
Unexamined(p, v, gen, rec, kids) == [t |-> "unexamined", p |-> p, v |-> v, gen |-> gen, rec |-> rec, kids |-> kids]
\* got: contents of the blocks hashed, none before hashing
Ready(p, v, got) == [t |-> "ready", p |-> p, v |-> v, got |-> got]
On(t, p) == [t |-> t, p |-> p]
\* disk tasks; res is what the disk returned
Unrun == [err |-> "unrun"]
NoTask == [t |-> none, res |-> Unrun]
ScanDir(p, one, rec) == [t |-> "scan_dir", p |-> p, one |-> one, rec |-> rec, res |-> Unrun]
Segment(p, first, n, v) == [t |-> "segment", p |-> p, first |-> first, n |-> n, v |-> v, res |-> Unrun]
FileTask(t, p) == [t |-> t, p |-> p, res |-> Unrun]
\* model updates
U(op, p, v) == [op |-> op, p |-> p, v |-> v, got |-> {}]

\* A handler's view: the context, updates collected, the pool and the count of fs tasks.
Push(R, item) == [R EXCEPT !.c.stack = <<item>> \o @]
Emit(R, u) == [R EXCEPT !.out = Append(@, u)]
Task(R, task) == [R EXCEPT !.c.io = Append(@, task)]
RECURSIVE EmitAll(_, _, _)
EmitAll(R, op, S) ==
    IF S = {} THEN R
    ELSE LET p == CHOOSE x \in S : \A y \in S \ {x} : x \notin Below(y)   \* parents first
         IN  EmitAll(Emit(R, U(op, p, model[p].v)), op, S \ {p})

----------------------------------------------------------------------------
\* folder_context_t::process, by kind of item: [r, s], the result and the view
\* with the item taken off; r = -1 puts it back and stops, 0 stops.
Res(r, s) == [r |-> r, s |-> s]

process_complete(R, i) ==
    IF R.c.io = <<>> /\ R.tasks = 0 /\ R.c.hashing = 0 THEN Res(1, Emit(R, U("scan_finish", Root, 0))) ELSE Res(-1, R)

process_unscanned(R, i) ==
    IF R.c.at[i.p] > i.gen THEN Res(1, R) ELSE Res(0, Task(R, ScanDir(i.p, i.one, i.rec)))

NewHash(p, v, inc, old) ==
    [NoHash EXCEPT !.total = Blocks[p], !.todo = Blocks[p], !.wait = Blocks[p], !.inc = inc, !.old = old, !.v = v]
Hash(R, p, v, inc, old) == Push([R EXCEPT !.c.hash[p] = NewHash(p, v, inc, old)], On("hash", p))

process_unexamined(R, i) ==
    IF IsDir(i.p)
    THEN LET r1 == IF i.p = Root THEN R ELSE Push(R, Ready(i.p, i.v, {}))
         IN  Res(1, IF i.rec \/ ~Known(i.p) THEN Push(r1, Unscanned(i.p, none, i.gen, i.kids)) ELSE r1)
    ELSE IF Known(i.p) THEN Res(1, Push(R, Ready(i.p, i.v, {})))
    ELSE IF R.c.files[i.p] > 0 THEN Res(1, R)
    ELSE Res(1, Hash(R, i.p, i.v, FALSE, FALSE))

\* Everything below goes, but for the last item.
process_suspend(R, i) ==
    LET s == R.c.stack
    IN  Res(1, [Emit(R, U("suspend", Root, 1)) EXCEPT !.c.stack = IF s = <<>> THEN s ELSE <<s[Len(s)]>>])
process_unsuspend(R, i) == Res(1, Emit(R, U("suspend", Root, 0)))

process_ready(R, i) ==
    LET f == model[i.p]
        old == f.has /\ ~f.del
        match == old /\ (IsDir(i.p) \/ f.v = i.v)
    IN  IF match THEN Res(1, IF f.loc THEN R ELSE Emit(R, U("available", i.p, f.v)))
        ELSE IF ~IsDir(i.p) /\ i.got = {} THEN Res(1, Hash(R, i.p, i.v, FALSE, f.has))
        ELSE Res(1, Emit(R, [U("update", i.p, i.v) EXCEPT !.got = i.got]))

process_undo(R, i) ==
    LET at == {k \in 1 .. Len(R.c.stack) : R.c.stack[k].t = "ready" /\ R.c.stack[k].p = i.p}
        k == CHOOSE x \in at : \A y \in at : x <= y
    IN  Res(1, IF at = {} THEN R
               ELSE [R EXCEPT !.c.stack = SubSeq(@, 1, k - 1) \o SubSeq(@, k + 1, Len(@))])

\* A removed directory: all that was below it, children first.
RECURSIVE Deletes(_, _)
Deletes(R, S) ==
    IF S = {} THEN R
    ELSE LET p == CHOOSE x \in S : \A y \in S \ {x} : y \notin Below(x)
         IN  Deletes(Emit(R, U("delete", p, model[p].v)), S \ {p})
process_removed_dir(R, i) == Res(1, Deletes(R, {p \in Below(i.p) \ {Tmp} : model[p].has}))

process_confirmed_deleted(R, i) ==
    LET kids == {k \in KidSet(i.p) \ {Tmp} : model[k].has}
        r1 == Emit(R, U("available", i.p, model[i.p].v))
        r2 == EmitAll(r1, "available", {k \in kids : ~IsDir(k)})
        RECURSIVE PushAll(_, _)
        PushAll(r, S) == IF S = {} THEN r
                         ELSE LET k == CHOOSE x \in S : TRUE IN PushAll(Push(r, On("confirmed_deleted", k)), S \ {k})
    IN  Res(1, PushAll(r2, {k \in kids : IsDir(k)}))

process_incomplete(R, i) ==
    LET ignore == peer.recent \/ (peer.has /\ peer.size /\ peer.sync)
        wanted == peer.has /\ peer.size /\ peer.action # "ignore"
    IN  IF ignore THEN Res(1, R)
        ELSE IF wanted THEN Res(1, Hash(R, i.p, i.v, TRUE, FALSE))
        ELSE Res(1, Task(R, FileTask("remove", i.p)))
\* Content 1 of the incomplete file has no block of the peer's, 2 all, 3 some.
process_rehashed(R, i) ==
    Res(1, CASE i.v = 2 -> Task(R, FileTask("rename", i.p))
             [] i.v = 3 -> Emit(R, U("blocks", Final, 0))
             [] OTHER   -> Task(R, FileTask("remove", i.p)))

schedule_hash(R, i) ==
    LET h == R.c.hash[i.p]
        n == IF R.pool < h.todo THEN R.pool ELSE h.todo
    IN  IF h.bad > 0 THEN Res(1, R)
        ELSE IF R.pool = 0 THEN Res(-1, R)
        ELSE Res(IF n = h.todo THEN 0 ELSE -1,
                 [Task(R, Segment(i.p, h.total - h.todo, n, h.v)) EXCEPT !.pool = @ - n, !.c.hash[i.p].todo = @ - n])

process(R, i) ==
    CASE i.t = "complete" -> process_complete(R, i)
      [] i.t = "unscanned" -> process_unscanned(R, i)
      [] i.t = "unexamined" -> process_unexamined(R, i)
      [] i.t = "suspend" -> process_suspend(R, i)
      [] i.t = "unsuspend" -> process_unsuspend(R, i)
      [] i.t = "ready" -> process_ready(R, i)
      [] i.t = "undo" -> process_undo(R, i)
      [] i.t = "hash" -> schedule_hash(R, i)
      [] i.t = "removed_dir" -> process_removed_dir(R, i)
      [] i.t = "confirmed_deleted" -> process_confirmed_deleted(R, i)
      [] i.t = "incomplete" -> process_incomplete(R, i)
      [] i.t = "rehashed" -> process_rehashed(R, i)

\* folder_context_t::process_stack.
RECURSIVE process_stack(_), Processed(_, _)
process_stack(R) ==
    IF R.c.stack = <<>> THEN R
    ELSE Processed(process([R EXCEPT !.c.stack = Tail(@)], Head(R.c.stack)), Head(R.c.stack))
Processed(x, i) ==
    CASE x.r = -1 -> Push(x.s, i)
      [] x.r = 0 -> x.s
      [] x.r = 1 /\ Len(x.s.out) >= Batch /\ x.s.c.stack # <<>> /\ x.s.c.io = <<>> -> Task(x.s, FileTask("noop", Root))
      [] OTHER -> process_stack(x.s)

----------------------------------------------------------------------------
\* folder_context_t::post_process, by kind of task.
handle_scan_error(R, p) ==
    LET all == {q \in Below(p) \ {Tmp, Root} : model[q].has}
    IN  Push(IF Known(p) THEN EmitAll(R, "unreachable", all) ELSE R, On("undo", p))

RECURSIVE PushInfos(_, _, _)
PushInfos(R, task, kids) ==
    IF kids = <<>> THEN R
    ELSE LET k == Head(kids)
             v == task.res.found[k]
         IN  PushInfos(IF v = 0 \/ v = -1 THEN R
                       ELSE Push(R, IF k = Tmp THEN [t |-> "incomplete", p |-> k, v |-> v]
                                    ELSE Unexamined(k, v, R.c.gen, task.rec, task.rec)), task, Tail(kids))
\* Known files that are not there any more; files deleted by the peers.
RECURSIVE PushMissing(_, _)
PushMissing(R, kids) ==
    IF kids = <<>> THEN R
    ELSE LET k == Head(kids)
         IN  PushMissing(IF model[k].del THEN Push(R, On("confirmed_deleted", k))
                         ELSE IF IsDir(k) THEN Push(R, On("removed_dir", k))
                         ELSE Emit(R, U("delete", k, model[k].v)), Tail(kids))
PushGone(R) ==
    LET New(p) == ~model[p].has
        q == SelectSeq(Gone, New)
    IN  [R EXCEPT !.out = @ \o [j \in 1 .. Len(q) |-> U("delete", q[1], 0)]]

\* mutant: what could not be examined is missing
ListedMissing(R, task, kids, n) ==
    LET Missing(k) == k # Tmp /\ model[k].has /\ task.res.found[k] <= 0
        Lost(r) == IF Known(task.p) THEN PushMissing(r, SelectSeq(kids, Missing)) ELSE r
        Peers(r) == IF task.p = Root THEN PushGone(r) ELSE r
        Own(r) == [r EXCEPT !.c.stack = SubSeq(R.c.stack, 1, n) \o @]
    IN  Own(Peers(Lost(PushInfos([R EXCEPT !.c.stack = SubSeq(@, n + 1, Len(@))], task, kids))))
\* A directory that could be read; n = 1 when its own entry is on top, and stays there.
Listed(R, task, kids, n) ==
    LET Missing(k) == k # Tmp /\ model[k].has /\ task.res.found[k] = 0
        Lost(r) == IF Known(task.p) THEN PushMissing(r, SelectSeq(kids, Missing)) ELSE r
        Peers(r) == IF task.p = Root THEN PushGone(r) ELSE r
        Own(r) == [r EXCEPT !.c.stack = SubSeq(R.c.stack, 1, n) \o @]
    IN  Own(Peers(Lost(PushInfos([R EXCEPT !.c.stack = SubSeq(@, n + 1, Len(@))], task, kids))))
Unsuspended(R, root) == IF root /\ susp THEN Push(R, On("unsuspend", Root)) ELSE R
post_scan_dir(R0, task) ==
    LET R == [R0 EXCEPT !.c.gen = @ + 1, !.c.at[task.p] = R0.c.gen + 1]
        root == task.p = Root /\ task.one = none
        kids == IF task.one = none THEN Kids[task.p] ELSE <<task.one>>
        own == R.c.stack # <<>> /\ Head(R.c.stack).t = "ready"
    IN  CASE task.res.err = none -> Listed(Unsuspended(R, root), task, kids, IF own THEN 1 ELSE 0)
          [] task.res.err # none /\ root -> Push(R, On("suspend", Root))
          [] task.res.err = "absent" /\ task.one # none -> Task(R, ScanDir(Parent(task.p), task.p, FALSE))
          [] OTHER -> handle_scan_error(R, task.p)

post_segment(R0, task) ==
    LET R == [R0 EXCEPT !.c.gen = @ + 1]
        h == R.c.hash[task.p]
        delta == task.n - task.res.read
        bad == h.bad + delta
        r1 == [R EXCEPT !.c.hashing = @ - task.n, !.c.files[task.p] = @ - task.n, !.pool = @ + delta,
                        !.c.hash[task.p].bad = bad]
    IN  IF task.res.err = none THEN R
        ELSE IF bad + h.todo # h.wait THEN r1
        ELSE IF h.old THEN Emit(r1, U("unreachable", task.p, 0))
        ELSE IF h.inc THEN Task(r1, FileTask("remove", task.p)) ELSE r1

post_rename(R, task) ==
    IF task.res.err # none THEN Task(R, FileTask("remove", task.p)) ELSE Emit(R, U("advance", Final, PeerContent))

post_process(R0) ==
    LET R == [R0 EXCEPT !.c.inprog = @ - 1]
        t == R0.task
    IN  IF gone THEN [R0 EXCEPT !.c.stack = <<>>, !.c.io = <<>>]
        ELSE CASE t.t = "scan_dir" -> post_scan_dir(R, t)
               [] t.t = "segment" -> post_segment(R, t)
               [] t.t = "rename" -> post_rename(R, t)
               [] OTHER -> R

\* A digest is back: when it is the last one the file is complete.
post_digest(R, d) ==
    LET h == R.c.hash[d.p]
        r1 == [R EXCEPT !.c.hashing = @ - 1, !.c.files[d.p] = @ - 1, !.pool = @ + 1,
                        !.c.hash[d.p].wait = @ - 1, !.c.hash[d.p].got = @ \cup {d.v}]
    IN  IF gone THEN [R EXCEPT !.c.stack = <<>>, !.c.io = <<>>]
        ELSE IF h.wait > 1 THEN r1
        ELSE Push(r1, IF h.inc THEN [t |-> "rehashed", p |-> d.p, v |-> h.v] ELSE Ready(d.p, h.v, r1.c.hash[d.p].got))

pop_task(c) ==
    LET t == Head(c.io)
        c1 == [c EXCEPT !.io = Tail(@), !.inprog = @ + 1]
    IN  IF t.t = "segment" THEN [c1 EXCEPT !.hashing = @ + t.n, !.files[t.p] = @ + t.n] ELSE c1
is_done(c) == c.inprog = 0 /\ c.hashing = 0 /\ c.stack = <<>> /\ c.io = <<>>

----------------------------------------------------------------------------
\* folder_slave_t: contexts (a sequence of kinds) processed from the front.
\* A view W: [ctx, ctxs, out, pool, tasks].
View(W, k) == [c |-> W.ctx[k], out |-> W.out, pool |-> W.pool, tasks |-> W.tasks]
Back(W, k, R) == [W EXCEPT !.ctx[k] = R.c, !.out = R.out, !.pool = R.pool]
\* pop_context hands the generations on.
pop_context(W) ==
    LET k == Head(W.ctxs)
        w == [W EXCEPT !.ctxs = Tail(@), !.ctx[k] = NoContext]
    IN  IF Len(W.ctxs) > 1 THEN [w EXCEPT !.ctx[W.ctxs[2]].gen = W.ctx[k].gen, !.ctx[W.ctxs[2]].at = W.ctx[k].at] ELSE w
RECURSIVE Contexts(_), Worked(_, _)
Contexts(W) == IF W.ctxs = <<>> THEN W ELSE Worked(Back(W, Head(W.ctxs), process_stack(View(W, Head(W.ctxs)))), Head(W.ctxs))
Worked(W, k) == IF is_done(W.ctx[k]) THEN Contexts(pop_context(W)) ELSE W
Pending(W) == W.ctxs # <<>> /\ W.ctx[Head(W.ctxs)].io # <<>>

\* folder_slave_t::push of delayed contexts: they get the generation reached.
Adjusted(c, g) ==
    [c EXCEPT !.stack = [j \in 1 .. Len(@) |-> IF @[j].t = "unexamined" /\ g > 0 THEN [@[j] EXCEPT !.gen = g] ELSE @[j]]]
WithDelayed(s) ==
    LET g == IF slaves[s].ctxs = <<>> THEN 0 ELSE ctx[Head(slaves[s].ctxs)].gen
        more == {keeper.delayed[j] : j \in 1 .. Len(keeper.delayed)}
    IN  [ctx |-> [k \in Kinds |-> IF k \in more THEN Adjusted(ctx[k], g) ELSE ctx[k]],
         ctxs |-> slaves[s].ctxs \o keeper.delayed, out |-> <<>>, pool |-> keeper.pool, tasks |-> keeper.tasks]

\* What a handler leaves behind for slave s: a task if none is running.
Sent(us) == queue' = IF us = <<>> THEN queue ELSE Append(queue, us)
Started(W, s, task, delayed) ==
    IF Pending(W) /\ W.tasks = 0
    THEN /\ slaves' = [slaves EXCEPT ![s] = [ctxs |-> W.ctxs, task |-> Head(W.ctx[Head(W.ctxs)].io)]]
         /\ ctx' = [W.ctx EXCEPT ![Head(W.ctxs)] = pop_task(@)]
         /\ keeper' = [keeper EXCEPT !.tasks = 1, !.pool = W.pool, !.delayed = delayed]
    ELSE /\ slaves' = [slaves EXCEPT ![s] = [ctxs |-> W.ctxs, task |-> task]]
         /\ ctx' = W.ctx
         /\ keeper' = [keeper EXCEPT !.tasks = W.tasks, !.pool = W.pool, !.delayed = delayed]
Leave(W, s, task, delayed) == Started(W, s, task, delayed) /\ Sent(W.out)

\* lc_context_t::~lc_context_t with a new context k; us are updates made before.
Free == {s \in DOMAIN slaves : slaves[s].ctxs = <<>> /\ slaves[s].task = NoTask}
NewContext(k, c, us) ==
    IF keeper.tasks > 0
    THEN /\ ctx' = [ctx EXCEPT ![k] = c] /\ keeper' = [keeper EXCEPT !.delayed = Append(@, k)]
         /\ Sent(us) /\ UNCHANGED slaves
    ELSE \E s \in Free : \A r \in Free :
        /\ s <= r
        /\ Leave(Contexts([ctx |-> [ctx EXCEPT ![k] = c], ctxs |-> <<k>>, out |-> us, pool |-> keeper.pool, tasks |-> 0]),
                 s, NoTask, keeper.delayed)

----------------------------------------------------------------------------
\* make_context of a scan that starts at sub; its first task is on its way.
FirstScan(sub) == IF sub = Root THEN ScanDir(Root, none, TRUE) ELSE ScanDir(Parent(sub), sub, TRUE)
ScanContext(sub) == pop_task([NoContext EXCEPT !.stack = <<Complete>>, !.io = <<FirstScan(sub)>>])

Init ==
    \E c \in Setups :
        /\ disk = c.disk /\ peer = c.peer /\ susp = c.susp /\ gone = FALSE
        \* scan_start_t: what is below is not known to be there any more
        /\ model = [p \in Paths |-> IF p \in Below(c.sub) THEN [c.model[p] EXCEPT !.loc = FALSE] ELSE c.model[p]]
        /\ ctx = [k \in Kinds |-> IF k = "scan" THEN ScanContext(c.sub) ELSE NoContext]
        /\ slaves = <<[ctxs |-> <<"scan">>, task |-> FirstScan(c.sub)], [ctxs |-> <<>>, task |-> NoTask]>>
        /\ keeper = [tasks |-> 1, pool |-> Pool, delayed |-> <<>>, created |-> {}]
        /\ digests = {} /\ queue = <<>>
        /\ left = [changes |-> c.changes, errors |-> c.errors]
        /\ seen = [sub |-> c.sub, told |-> Paths \ c.fresh, touched |-> c.fresh, errors |-> FALSE, lost |-> 0,
                   torn |-> FALSE, over |-> FALSE, two |-> FALSE]

----------------------------------------------------------------------------
\* The file actor runs a task (fs/task); errors are limited by left.errors.
Run(s) == s \in DOMAIN slaves /\ slaves[s].task.t # none /\ slaves[s].task.res = Unrun
Result(s, res) == slaves' = [slaves EXCEPT ![s].task.res = res]
FsOnly == UNCHANGED <<model, susp, gone, peer, ctx, keeper, queue>>
Fails == /\ left.errors > 0 /\ left' = [left EXCEPT !.errors = @ - 1] /\ seen' = [seen EXCEPT !.errors = TRUE]

scan_dir(s) ==
    /\ Run(s) /\ slaves[s].task.t = "scan_dir"
    /\ LET p == slaves[s].task.p
           there == p = Root \/ disk[p] > 0
           found == [k \in Paths |-> IF k \in KidSet(p) THEN disk[k] ELSE 0]
       IN  \/ there /\ Result(s, [err |-> none, found |-> found]) /\ UNCHANGED <<left, seen>>
           \/ ~there /\ Result(s, [err |-> "absent", found |-> found]) /\ UNCHANGED <<left, seen>>
           \* also when the last child looked at cannot be examined
           \/ there /\ (p = Root => slaves[s].task.one = none) /\ Result(s, [err |-> "io", found |-> found]) /\ Fails
           \/ \E k \in KidSet(p) : there /\ disk[k] > 0 /\ Result(s, [err |-> none, found |-> [found EXCEPT ![k] = -1]]) /\ Fails
    /\ UNCHANGED <<disk, digests>> /\ FsOnly

\* mutant: the time of the file is not looked at
SegmentUnchecked(s) ==
    /\ Run(s) /\ slaves[s].task.t = "segment"
    /\ LET t == slaves[s].task
           read == {[s |-> s, k |-> Head(slaves[s].ctxs), p |-> t.p, i |-> i, v |-> disk[t.p]] : i \in t.first .. t.first + t.n - 1}
       IN  Result(s, [err |-> none, read |-> t.n]) /\ digests' = digests \cup read
    /\ UNCHANGED <<disk, left, seen>> /\ FsOnly
\* A block that cannot be read ends the task before any digest is asked for.
segment(s) ==
    /\ Run(s) /\ slaves[s].task.t = "segment"
    /\ LET t == slaves[s].task
           k == Head(slaves[s].ctxs)
           read == {[s |-> s, k |-> k, p |-> t.p, i |-> i, v |-> disk[t.p]] : i \in t.first .. t.first + t.n - 1}
       IN  \/ /\ disk[t.p] = t.v /\ Result(s, [err |-> none, read |-> t.n]) /\ digests' = digests \cup read
              /\ UNCHANGED <<left, seen>>
           \/ disk[t.p] # t.v /\ Result(s, [err |-> "changed", read |-> 0]) /\ UNCHANGED <<digests, left, seen>>
           \/ disk[t.p] = t.v /\ Result(s, [err |-> "io", read |-> 0]) /\ UNCHANGED digests /\ Fails
           \/ \E j \in 1 .. t.n :
                /\ disk[t.p] = t.v /\ Result(s, [err |-> "io", read |-> j]) /\ UNCHANGED digests
                /\ left.errors > 0 /\ left' = [left EXCEPT !.errors = @ - 1]
                /\ seen' = [seen EXCEPT !.errors = TRUE, !.lost = @ + j]
    /\ UNCHANGED disk /\ FsOnly

remove_file(s) ==
    /\ Run(s) /\ slaves[s].task.t = "remove"
    /\ \/ Result(s, [err |-> none]) /\ disk' = [disk EXCEPT ![slaves[s].task.p] = 0] /\ UNCHANGED <<left, seen>>
       \/ Result(s, [err |-> "io"]) /\ UNCHANGED disk /\ Fails
    /\ UNCHANGED digests /\ FsOnly
rename_file(s) ==
    /\ Run(s) /\ slaves[s].task.t = "rename"
    /\ \/ Result(s, [err |-> none]) /\ disk' = [disk EXCEPT ![Tmp] = 0, ![Final] = PeerContent] /\ UNCHANGED <<left, seen>>
       \/ Result(s, [err |-> "io"]) /\ UNCHANGED disk /\ Fails
    /\ UNCHANGED digests /\ FsOnly
noop(s) ==
    /\ Run(s) /\ slaves[s].task.t = "noop" /\ Result(s, [err |-> none])
    /\ UNCHANGED <<disk, digests, left, seen>> /\ FsOnly

----------------------------------------------------------------------------
Same == UNCHANGED <<disk, model, susp, gone, peer, left>>
\* History of what the handler sent.
Watch(us) ==
    seen' = [seen EXCEPT !.over = @ \/ \E j \in 1 .. Len(us) : us[j].op = "scan_finish",
                         !.torn = @ \/ \E j \in 1 .. Len(us) : us[j].op = "update" /\ us[j].got \ {us[j].v} # {}]

\* local_keeper_t::on_post_process.
PostTask(W, task) ==
    Contexts(Back(W, Head(W.ctxs), post_process([c |-> W.ctx[Head(W.ctxs)], out |-> <<>>, pool |-> W.pool,
                                                 tasks |-> W.tasks, task |-> task])))
on_post_process(s) ==
    /\ s \in DOMAIN slaves /\ slaves[s].task.res # Unrun
    /\ \E W \in {PostTask([WithDelayed(s) EXCEPT !.tasks = @ - 1], slaves[s].task)} :
        Leave(W, s, NoTask, <<>>) /\ Watch(W.out)
    /\ UNCHANGED digests /\ Same

\* local_keeper_t::on_digest; the context may not be the front one.
PostDigest(W, d) == Contexts(Back(W, d.k, post_digest(View(W, d.k), d)))
on_digest(d) ==
    /\ d \in digests /\ digests' = digests \ {d}
    /\ \E W \in {PostDigest(WithDelayed(d.s), d)} : Leave(W, d.s, slaves[d.s].task, <<>>) /\ Watch(W.out)
    /\ Same

\* A model update is applied.
Apply1(m, u) ==
    CASE u.op = "update" -> [m EXCEPT ![u.p] = [has |-> TRUE, del |-> FALSE, v |-> u.v, loc |-> TRUE, ok |-> TRUE]]
      [] u.op = "advance" -> [m EXCEPT ![u.p] = [has |-> TRUE, del |-> FALSE, v |-> u.v, loc |-> TRUE, ok |-> TRUE]]
      [] u.op = "delete" -> [m EXCEPT ![u.p] = [has |-> TRUE, del |-> TRUE, v |-> u.v, loc |-> TRUE, ok |-> TRUE]]
      [] u.op = "available" -> IF m[u.p].v = u.v THEN [m EXCEPT ![u.p].loc = TRUE] ELSE m
      [] u.op = "unreachable" -> [m EXCEPT ![u.p].ok = FALSE]
      [] OTHER -> m
RECURSIVE ApplyAll(_, _)
ApplyAll(m, us) == IF us = <<>> THEN m ELSE ApplyAll(Apply1(m, Head(us)), Tail(us))
Apply ==
    /\ queue # <<>> /\ queue' = Tail(queue)
    /\ model' = IF gone THEN model ELSE ApplyAll(model, Head(queue))
    /\ susp' = LET at == {j \in 1 .. Len(Head(queue)) : Head(queue)[j].op = "suspend"}
               IN  IF at = {} THEN susp ELSE Head(queue)[CHOOSE j \in at : \A k \in at : k <= j].v = 1
    \* local_keeper_t::operator()(local_update_t)
    /\ keeper' = [keeper EXCEPT !.created = @ \ {Head(queue)[j].p : j \in
                    {k \in 1 .. Len(Head(queue)) : Head(queue)[k].op \in {"update", "delete"}}}]
    /\ UNCHANGED <<disk, gone, peer, ctx, slaves, digests, left, seen>>

\* The folder is removed by the user.
RemoveFolder ==
    /\ ~gone /\ left.changes > 0 /\ left' = [left EXCEPT !.changes = 0] /\ gone' = TRUE
    /\ UNCHANGED <<disk, model, susp, peer, ctx, slaves, keeper, digests, queue, seen>>

----------------------------------------------------------------------------
\* A file is written or removed on disk, and the watcher tells, at once or later.
Touch(p, v) ==
    /\ left.changes > 0 /\ ~gone /\ p \notin {Root, Tmp} /\ disk[p] # v /\ (IsDir(p) => v \in {0, 1})
    /\ v > 0 => Parent(p) = Root \/ disk[Parent(p)] > 0
    /\ IsDir(p) /\ v = 0 => \A q \in KidSet(p) : disk[q] = 0
    /\ disk' = [disk EXCEPT ![p] = v] /\ left' = [left EXCEPT !.changes = @ - 1]
    /\ seen' = [seen EXCEPT !.touched = @ \cup {p}, !.told = @ \ {p}]
    /\ UNCHANGED <<model, susp, gone, peer, ctx, slaves, keeper, digests, queue>>

\* local_keeper_t::on_changes for one change of p, with the content seen.
Reasons == {"created", "meta", "deleted", "content"}
get_relation(p) ==
    LET d == Parent(p)
    IN  \/ model[p].has \/ d = Root \/ (model[d].has /\ model[d].loc) \/ (~model[d].has /\ d \in keeper.created)
immediate_update(p, v) ==
    LET f == model[p]
    IN  IF v = 0 THEN <<U("delete", p, f.v)>>
        ELSE IF f.has /\ ~f.del /\ f.v = v THEN <<>> ELSE <<U("update", p, v)>>
delayed_update(p, v, kids) == <<Unexamined(p, v, 0, TRUE, kids)>>
\* [items, updates]: what is looked at later, what is sent at once.
handle_delete(p, refine) ==
    IF ~model[p].has \/ model[p].del THEN <<<<>>, <<>>>>
    ELSE IF IsDir(p) /\ refine THEN <<<<Unscanned(Parent(p), p, 0, TRUE)>>, <<>>>>
    ELSE <<<<>>, immediate_update(p, 0)>>
on_changes(p, reason, v, refine) ==
    IF ~get_relation(p) THEN <<<<>>, <<>>>>
    ELSE CASE reason = "created" -> IF IsDir(p) /\ ~refine THEN <<<<>>, immediate_update(p, v)>>
                                    ELSE <<delayed_update(p, v, TRUE), <<>>>>
           [] reason = "meta" -> <<<<>>, immediate_update(p, v)>>
           [] reason = "deleted" -> handle_delete(p, refine)
           [] reason = "content" -> <<delayed_update(p, v, FALSE), <<>>>>

on_change(p, reason, refine) ==
    /\ p \notin seen.told /\ (disk[p] = 0 <=> reason = "deleted") /\ (IsDir(p) \/ ~refine)
    /\ IsDir(p) => reason \in {"created", "deleted"}
    /\ ctx["change"] = NoContext
    /\ LET x == IF gone THEN <<<<>>, <<>>>> ELSE on_changes(p, reason, disk[p], refine)
           made == reason = "created" /\ IsDir(p) /\ x[2] # <<>>
       IN  IF x[1] # <<>>
           THEN NewContext("change", [NoContext EXCEPT !.stack = x[1]], x[2])
           ELSE /\ keeper' = [keeper EXCEPT !.created = IF made THEN @ \cup {p} ELSE @]
                /\ Sent(x[2]) /\ UNCHANGED <<ctx, slaves>>
    /\ seen' = [seen EXCEPT !.told = @ \cup {p}, !.two = @ \/ keeper.tasks = 0]
    /\ UNCHANGED <<disk, model, susp, gone, peer, digests, left>>

Next ==
    \/ \E s \in DOMAIN slaves : \/ scan_dir(s) \/ segment(s) \/ remove_file(s) \/ rename_file(s) \/ noop(s)
                                \/ on_post_process(s)
    \/ \E d \in digests : on_digest(d)
    \/ Apply \/ RemoveFolder
    \/ \E p \in Paths, v \in 0 .. 2 : Touch(p, v)
    \/ \E p \in Paths, r \in Reasons, refine \in BOOLEAN : on_change(p, r, refine)

Spec == Init /\ [][Next]_vars

----------------------------------------------------------------------------
FileType == [has : BOOLEAN, del : BOOLEAN, v : 0 .. 3, loc : BOOLEAN, ok : BOOLEAN]
TypeOK ==
    /\ disk \in [Paths -> 0 .. 3] /\ model \in [Paths -> FileType]
    /\ keeper.tasks \in 0 .. 1 /\ keeper.pool \in 0 .. Pool
    /\ \A k \in Kinds : ctx[k].hashing \in 0 .. Pool /\ ctx[k].inprog \in 0 .. 1
    /\ digests \subseteq [s : 1 .. 2, k : Kinds, p : Paths, i : 0 .. 3, v : 0 .. 3]

Sum(f, S) == LET RECURSIVE Go(_)
                 Go(T) == IF T = {} THEN 0 ELSE LET x == CHOOSE y \in T : TRUE IN f[x] + Go(T \ {x})
             IN  Go(S)
Blocked(t) == IF t.t # "segment" THEN 0
              ELSE IF t.res = Unrun THEN t.n ELSE IF t.res.err # none THEN t.n - t.res.read ELSE 0
Waiting(k) == Sum([j \in 1 .. Len(ctx[k].io) |-> Blocked(ctx[k].io[j])], 1 .. Len(ctx[k].io))

\* Hashes are counted: the pool and the blocks on their way, in a waiting task, at the disk or
\* at a hasher, are the limit, less what blocks that could not be read have cost
\* (folder_context.cpp: schedule_hash, post_process).
HashesCounted ==
    ~gone => keeper.pool + Cardinality(digests) + Waiting("scan") + Waiting("change")
             + Blocked(slaves[1].task) + Blocked(slaves[2].task) + seen.lost = Pool

\* The end of the scan is announced when nothing of it is under way: no digest is
\* awaited, no task runs (folder_context.cpp process(complete_scan_t)).
FinishLast == seen.over => /\ ctx["scan"] = NoContext
                           /\ \A d \in digests : d.k # "scan"

\* The blocks of a file recorded by a scan come from one content of it, whatever
\* is written while it is hashed in parts (segment_iterator.cpp, the time check).
Untorn == ~seen.torn

\* After a scan of an undisturbed folder the model is what is on disk.
ScanRight ==
    seen.over /\ queue = <<>> /\ ~gone /\ ~seen.errors /\ seen.touched = {} =>
        \A p \in Below(seen.sub) \ {Root, Tmp} :
            IF disk[p] > 0 THEN model[p] = [has |-> TRUE, del |-> FALSE, v |-> disk[p], loc |-> TRUE, ok |-> TRUE]
            ELSE ~model[p].has \/ model[p].del

\* A file nobody has touched is never taken for deleted, whatever fails.
TakesNoneForDeleted == \A p \in Paths : disk[p] > 0 /\ p \notin seen.touched /\ model'[p].del => model[p].del
NeverDeletes == [][TakesNoneForDeleted]_vars

\* The scan does not stop half way: when no disk task runs, no digest is awaited and
\* nothing waits to be applied, its end has been announced, unless the folder is gone or
\* all hashes are lost; with one exception: a change reported between two of its disk tasks.
ScanEnds ==
    (\A s \in 1 .. 2 : slaves[s].task = NoTask) /\ digests = {} /\ queue = <<>> =>
        seen.over \/ gone \/ seen.two \/ seen.lost >= Pool
\* The same with no exception (two slaves take turns at one disk; local_keeper.cpp:57).
ScanAlwaysEnds ==
    (\A s \in 1 .. 2 : slaves[s].task = NoTask) /\ digests = {} /\ queue = <<>> => seen.over \/ gone
\* Content of Final the model does not know is not overwritten by the incomplete
\* file the scan completes (folder_context.cpp process(rehashed_incomplete_t)).
EditKept == [][\A s \in 1 .. 2 : rename_file(s) /\ disk'[Final] # disk[Final]
                    => model[Final].v = disk[Final] \/ disk[Final] = 0]_vars

\* One scan: it ends once and in order, and the model is what was on disk.
ScanSound == TypeOK /\ HashesCounted /\ FinishLast /\ Untorn /\ ScanRight /\ ScanEnds
=============================================================================
