----------------------------- MODULE Scheduler -----------------------------
(***************************************************************************)
(* scheduler_t decides which folder is scanned when: on request, when a    *)
(* folder is added, when its rescan interval is over, and after a scan or  *)
(* a synchronization.  local_keeper_t runs the scans (module Scan), one    *)
(* scan_start_t to one scan_finish_t.  The two talk by model updates.      *)
(*                                                                         *)
(* Time is kept as ages: the age of a folder counts the ticks since its    *)
(* last scan up to its interval, the timer the ticks it has to run.        *)
(***************************************************************************)
EXTENDS Naturals, Sequences, FiniteSets

CONSTANTS Folders, SubDirs,
          Wishes,             \* subset of Folders \X SubDirs: what may be requested
          Every,              \* [Folders -> Nat]: rescan interval, 0 for none
          Prefix,             \* pairs: the first is a prefix of the second, as strings
          Within,             \* pairs: the first directory contains the second
          Events,             \* what may happen to a folder: a subset of
                              \* {"add", "sync", "error", "remove"} \X Folders
          Prompt, MaxQueue,
          MaxWaiting, MaxScans,  \* bounds on requests waiting and scans running
          MaxOutside

\* Directories are asked for whose names tell which of them contains the other:
\* scheduler_t takes a directory to contain every one its name is a prefix of.
ASSUME SchedulerAssumption ==
    /\ Every \in [Folders -> Nat] /\ Wishes \subseteq Folders \X SubDirs /\ "" \in SubDirs
    /\ \A s \in SubDirs : <<s, s>> \in Within
    /\ \A r, s, t \in SubDirs : <<r, s>> \in Within /\ <<s, t>> \in Within => <<r, t>> \in Within
    /\ \A v, w \in Wishes : v[1] = w[1] /\ <<v[2], w[2]>> \in Prefix => <<v[2], w[2]>> \in Within

Never == 99                   \* age of a folder that was not scanned yet
none == <<>>

VARIABLES folder,             \* folder_t: [has, susp, sync, scanning, age]
          sched,              \* scheduler_t: [ready, q, timer, busy]
          queue,              \* model updates on the way
          creating,           \* new folders whose directory is being created
          scans,              \* scans local_keeper_t is doing
          asked,              \* requests still to be served, while the folder
                              \* can be scanned (history)
          outside,            \* events from outside that are left (a bound)
          stalled             \* a scan or a timer came to nothing, because the
                              \* folder was removed (history)

schedulerVars == <<folder, sched, queue, creating, scans, asked, outside, stalled>>

Item(f, s) == [f |-> f, s |-> s]
Fresh(has) == [has |-> has, susp |-> "no", sync |-> FALSE, scanning |-> FALSE, age |-> Never]
Diff(op, f, s) == [op |-> op, f |-> f, s |-> s]

\* The program starts with the folders S; those that cannot be added are there.
Loaded(S) ==
    /\ folder = [f \in Folders |-> Fresh(f \in S)]
    /\ sched = [ready |-> FALSE, q |-> <<>>, timer |-> none, busy |-> FALSE]
    /\ queue = <<>> /\ creating = {} /\ scans = <<>> /\ asked = {} /\ stalled = FALSE /\ outside = MaxOutside
SchedulerInit == \E S \in SUBSET Folders : (\A f \in Folders \ S : <<"add", f>> \in Events) /\ Loaded(S)

Turn == sched.ready /\ (Prompt => queue = <<>>) /\ Len(queue) < MaxQueue

----------------------------------------------------------------------------
\* A folder the user suspends is removed in the same update, so a suspended
\* folder that is there has a reason.
\* scheduler_t::scan_next: what is left in the queue, the scan to start, or
\* else the folder to schedule with the time left; one record per choice.
Scannable(fs, f) == fs[f].has /\ ~fs[f].sync
Periodic(fs) == {f \in Folders : fs[f].has /\ Every[f] > 0 /\ ~fs[f].scanning /\ ~fs[f].sync /\ fs[f].susp = "no"}
LeftIn(fs, f) == IF fs[f].age = Never \/ fs[f].age >= Every[f] THEN 0 ELSE Every[f] - fs[f].age
\* mutant: the shortest interval comes first
Shortest(fs) == {f \in Periodic(fs) : \A g \in Periodic(fs) : Every[f] <= Every[g]}
Best(fs) ==
    {f \in Periodic(fs) : \A g \in Periodic(fs) :
        \/ LeftIn(fs, f) < LeftIn(fs, g)
        \/ LeftIn(fs, f) = LeftIn(fs, g) /\ Every[f] <= Every[g]}
\* The items of a queue other than x, in their order.
Without(q, x) ==
    LET kept[i \in 0 .. Len(q)] ==
            IF i = 0 THEN <<>> ELSE IF q[i] = x THEN kept[i - 1] ELSE Append(kept[i - 1], q[i])
    IN  kept[Len(q)]
scan_next(fs, q) ==
    LET good == {i \in 1 .. Len(q) : Scannable(fs, q[i].f)}
    IN  IF good # {}
        THEN LET i == CHOOSE j \in good : \A k \in good : j <= k
             IN  {[q |-> Without(SubSeq(q, i + 1, Len(q)), q[i]), start |-> <<q[i]>>, next |-> none]}
        ELSE IF Best(fs) = {} THEN {[q |-> <<>>, start |-> <<>>, next |-> none]}
        ELSE {IF LeftIn(fs, f) = 0 THEN [q |-> <<>>, start |-> <<Item(f, "")>>, next |-> none]
              ELSE [q |-> <<>>, start |-> <<>>, next |-> [f |-> f, left |-> LeftIn(fs, f)]] : f \in Best(fs)}

\* scheduler_t::initiate_scan sends a scan_start_t.
Started(start) == [i \in 1 .. Len(start) |-> Diff("scan_start", start[i].f, start[i].s)]

\* scheduler_t::scan_next_or_schedule, on the folders fs after the update.
scan_next_or_schedule(fs, q, rest) ==
    \E r \in scan_next(fs, q) :
        /\ sched' = [sched EXCEPT !.q = r.q, !.busy = (r.start # <<>>),
                                  !.timer = IF r.next # none /\ (@ = none \/ (@ # none /\ @.left > r.next.left))
                                            THEN r.next ELSE @]
        /\ queue' = rest \o Started(r.start)

\* scheduler_t::on_local_ready.
scheduler_on_local_ready ==
    /\ ~sched.ready
    /\ \E r \in scan_next(folder, sched.q) :
        /\ sched' = [sched EXCEPT !.ready = TRUE, !.q = r.q, !.busy = (r.start # <<>>)]
        /\ queue' = queue \o Started(r.start)
    /\ UNCHANGED <<folder, creating, scans, asked, stalled, outside>>

\* scheduler_t::on_timer.
on_timer ==
    /\ Turn /\ sched.timer # none /\ sched.timer.left = 0 /\ Len(scans) < MaxScans
    /\ LET f == sched.timer.f
           idle == [sched EXCEPT !.timer = none]
       IN  IF ~folder[f].has \/ folder[f].age = Never THEN sched' = idle /\ stalled' = TRUE /\ UNCHANGED queue
           ELSE IF folder[f].age < Every[f]
           THEN \E r \in scan_next(folder, sched.q) :
                    /\ sched' = [idle EXCEPT !.q = r.q, !.busy = IF r.start # <<>> THEN TRUE ELSE @, !.timer = r.next]
                    /\ queue' = queue \o Started(r.start) /\ UNCHANGED stalled
           ELSE sched' = [idle EXCEPT !.busy = TRUE] /\ queue' = queue \o Started(<<Item(f, "")>>) /\ UNCHANGED stalled
    /\ UNCHANGED <<folder, creating, scans, asked, outside>>

----------------------------------------------------------------------------
\* Updates are applied, then visited by the keeper and the scheduler.
Idle(fs) == IF sched.busy THEN sched' = sched /\ queue' = Tail(queue)
            ELSE scan_next_or_schedule(fs, sched.q, Tail(queue))

Forget(f) == {x \in asked : x.f # f}

\* modify::upsert_folder_t; the keeper asks for the directory of a new folder.
upsert_folder(u) ==
    /\ u.op = "upsert"
    /\ folder' = IF folder[u.f].has THEN folder ELSE [folder EXCEPT ![u.f] = Fresh(TRUE)]
    /\ creating' = IF folder[u.f].has THEN creating ELSE creating \cup {u.f}
    /\ Idle(folder') /\ UNCHANGED <<scans, asked, stalled, outside>>

\* mutant: the directory that waits is kept, the wider one is dropped
RequestNarrow(u) ==
    /\ u.op = "scan_request"
    /\ LET same == {i \in 1 .. Len(sched.q) : sched.q[i].f = u.f}
           i == CHOOSE j \in same : \A k \in same : j <= k
       IN  IF same # {} /\ (<<sched.q[i].s, u.s>> \in Prefix \/ <<u.s, sched.q[i].s>> \in Prefix)
           THEN sched' = sched /\ queue' = Tail(queue)
           ELSE IF sched.busy
           THEN sched' = [sched EXCEPT !.q = Append(@, Item(u.f, u.s))] /\ queue' = Tail(queue)
           ELSE scan_next_or_schedule(folder, Append(sched.q, Item(u.f, u.s)), Tail(queue))
    /\ asked' = asked \cup (IF Scannable(folder, u.f) THEN {Item(u.f, u.s)} ELSE {}) /\ UNCHANGED <<folder, scans, stalled, outside>>
\* local::scan_request_t: only the first queued item of the folder is looked at.
scan_request(u) ==
    /\ u.op = "scan_request"
    /\ LET same == {i \in 1 .. Len(sched.q) : sched.q[i].f = u.f}
           i == CHOOSE j \in same : \A k \in same : j <= k
           old == sched.q[i].s
       IN  IF same # {} /\ (<<old, u.s>> \in Prefix \/ <<u.s, old>> \in Prefix)
           THEN /\ sched' = [sched EXCEPT !.q[i].s = IF <<old, u.s>> \in Prefix THEN old ELSE u.s]
                /\ queue' = Tail(queue)
           ELSE IF sched.busy
           THEN sched' = [sched EXCEPT !.q = Append(@, Item(u.f, u.s))] /\ queue' = Tail(queue)
           ELSE scan_next_or_schedule(folder, Append(sched.q, Item(u.f, u.s)), Tail(queue))
    /\ asked' = asked \cup (IF Scannable(folder, u.f) THEN {Item(u.f, u.s)} ELSE {}) /\ UNCHANGED <<folder, scans, stalled, outside>>

\* local::scan_start_t, visited by the keeper: a directory the model does not
\* know ends the scan at once.
scan_start(u) ==
    /\ u.op = "scan_start" /\ folder[u.f].has
    /\ folder' = [folder EXCEPT ![u.f].scanning = TRUE]
    /\ asked' = {x \in asked : ~(x.f = u.f /\ <<u.s, x.s>> \in Within)}
    /\ \/ scans' = Append(scans, Item(u.f, u.s)) /\ queue' = Tail(queue)
       \/ u.s # "" /\ scans' = scans /\ queue' = Append(Tail(queue), Diff("scan_finish", u.f, "same"))
    /\ UNCHANGED <<sched, stalled, outside>>

\* local::scan_finish_t, with the suspend_folder_t sent in front of it.
scan_finish(u) ==
    /\ u.op = "scan_finish" /\ folder[u.f].has
    /\ folder' = [folder EXCEPT ![u.f].scanning = FALSE, ![u.f].age = 0, ![u.f].susp = IF u.s = "same" THEN @ ELSE u.s]
    /\ scan_next_or_schedule(folder', sched.q, Tail(queue))
    /\ UNCHANGED <<scans, asked, stalled, outside>>

\* local::synchronization_start_t and synchronization_finish_t.
synchronization_start(u) ==
    /\ u.op = "sync_start" /\ folder' = [folder EXCEPT ![u.f].sync = folder[u.f].has]
    /\ asked' = Forget(u.f) /\ queue' = Tail(queue) /\ UNCHANGED <<sched, scans, stalled, outside>>
synchronization_finish(u) ==
    /\ u.op = "sync_finish" /\ folder' = [folder EXCEPT ![u.f].sync = FALSE]
    /\ Idle(folder') /\ UNCHANGED <<scans, asked, stalled, outside>>

\* modify::suspend_folder_t with the reason, when the directory cannot be created.
suspend_folder(u) ==
    /\ u.op = "suspend" /\ folder' = [folder EXCEPT ![u.f].susp = IF folder[u.f].has THEN "error" ELSE @]
    /\ queue' = Tail(queue) /\ UNCHANGED <<sched, scans, asked, stalled, outside>>
\* modify::remove_folder_t.
remove_folder(u) ==
    /\ u.op = "remove" /\ folder' = [folder EXCEPT ![u.f] = Fresh(FALSE)]
    /\ asked' = Forget(u.f) /\ queue' = Tail(queue) /\ UNCHANGED <<sched, scans, stalled, outside>>

Apply ==
    /\ queue # <<>> /\ sched.ready
    /\ LET u == Head(queue)
       IN  \/ upsert_folder(u)
           \/ /\ \/ scan_request(u) \/ scan_start(u) \/ scan_finish(u) \/ synchronization_start(u)
                 \/ synchronization_finish(u) \/ suspend_folder(u) \/ remove_folder(u)
              /\ UNCHANGED creating

----------------------------------------------------------------------------
\* A scan is over (module Scan); the root could not be read, or could again.
\* A folder that was removed meanwhile is dropped without a word.
ScanEnds(i) ==
    /\ Turn /\ i \in 1 .. Len(scans)
    /\ scans' = SubSeq(scans, 1, i - 1) \o SubSeq(scans, i + 1, Len(scans))
    /\ LET f == scans[i].f
       IN  IF ~folder[f].has THEN stalled' = TRUE /\ UNCHANGED queue
           ELSE UNCHANGED stalled /\ \E s \in {"same", IF <<"error", f>> \in Events THEN "error" ELSE "same",
                       IF folder[f].susp = "error" THEN "no" ELSE "same"} :
                    queue' = Append(queue, Diff("scan_finish", f, s))
    /\ UNCHANGED <<folder, sched, creating, asked, outside>>

\* local_keeper_t::on_create_dir.
on_create_dir(f) ==
    /\ Turn /\ f \in creating /\ creating' = creating \ {f}
    /\ \/ UNCHANGED queue
       \/ <<"error", f>> \in Events /\ folder[f].has /\ queue' = Append(queue, Diff("suspend", f, ""))
    /\ UNCHANGED <<folder, sched, scans, asked, outside, stalled>>

Runs(t) == IF t = none THEN t ELSE IF t.left = 0 THEN t ELSE [t EXCEPT !.left = @ - 1]
Tick ==
    /\ Turn
    /\ folder' = [f \in Folders |-> [folder[f] EXCEPT !.age = IF @ = Never \/ @ >= Every[f] THEN @ ELSE @ + 1]]
    /\ sched' = [sched EXCEPT !.timer = Runs(@)]
    /\ UNCHANGED <<queue, creating, scans, asked, stalled, outside>>

Sends(op, f, s) ==
    /\ Turn /\ outside > 0 /\ outside' = outside - 1 /\ queue' = Append(queue, Diff(op, f, s))
    /\ UNCHANGED <<folder, sched, creating, scans, asked, stalled>>
Upsert(f) == <<"add", f>> \in Events /\ Sends("upsert", f, "")
Request(f, s) == folder[f].has /\ Len(sched.q) < MaxWaiting /\ Sends("scan_request", f, s)
Synchronize(f) == <<"sync", f>> \in Events /\ folder[f].has /\ Sends(IF folder[f].sync THEN "sync_finish" ELSE "sync_start", f, "")
Remove(f) == <<"remove", f>> \in Events /\ folder[f].has /\ Sends("remove", f, "")

SchedulerNext ==
    \/ scheduler_on_local_ready \/ on_timer \/ Apply \/ Tick
    \/ \E i \in 1 .. Len(scans) : ScanEnds(i)
    \/ \E f \in Folders : \/ Upsert(f) \/ Synchronize(f) \/ on_create_dir(f) \/ Remove(f)
                          \/ \E s \in SubDirs : <<f, s>> \in Wishes /\ Request(f, s)

\* Messages are delivered, time passes, timers fire and scans end.
SchedulerSpec ==
    /\ SchedulerInit /\ [][SchedulerNext]_schedulerVars
    /\ WF_schedulerVars(scheduler_on_local_ready) /\ WF_schedulerVars(Apply)
    /\ WF_schedulerVars(on_timer) /\ WF_schedulerVars(Tick) /\ WF_schedulerVars(\E i \in 1 .. Len(scans) : ScanEnds(i))

----------------------------------------------------------------------------
SchedulerTypeOK ==
    /\ folder \in [Folders -> [has : BOOLEAN, susp : {"no", "error"}, sync : BOOLEAN, scanning : BOOLEAN,
                               age : Nat]]
    /\ \A i \in 1 .. Len(sched.q) : sched.q[i].s \in SubDirs
    /\ sched.ready \in BOOLEAN /\ sched.busy \in BOOLEAN

\* No update names a folder that is gone: scan_start_t and scan_finish_t take
\* it without looking.
FolderPresent ==
    queue # <<>> /\ Head(queue).op \in {"scan_start", "scan_finish"} => folder[Head(queue).f].has

\* The scheduler waits only for a scan that is on its way: as long as no folder
\* was removed under it, it is not left with scan_in_progress set
\* and nobody to clear it.
WaitsForScan ==
    sched.busy /\ ~stalled => \/ scans # <<>>
                  \/ \E i \in 1 .. Len(queue) : queue[i].op \in {"scan_start", "scan_finish"}

\* A folder to be scanned periodically is not forgotten: when nothing is going
\* on the timer runs.
TimerRuns ==
    sched.ready /\ queue = <<>> /\ ~sched.busy /\ sched.timer = none /\ ~stalled => Periodic(folder) = {}

FreeToScan(f) == ~stalled /\ sched.q = <<>> /\ folder[f].has /\ ~folder[f].sync /\ folder[f].susp = "no"

\* A folder with an interval that stays free to be scanned is scanned again
\* and again, once no more requests (they come first) are waiting.
Rescans == \A f \in Folders : Every[f] > 0 => (<>[]FreeToScan(f) => []<>folder[f].scanning)

\* The same for every folder, whatever happens to the others.
RescansAlways ==
    \A f \in Folders : Every[f] > 0 =>
        (<>[](sched.q = <<>> /\ folder[f].has /\ ~folder[f].sync /\ folder[f].susp = "no") => []<>folder[f].scanning)

\* A request to scan is not lost: until a scan that covers it starts it is
\* covered by one that waits or is about to start.
RequestKept ==
    \A x \in asked :
        \/ \E i \in 1 .. Len(sched.q) : sched.q[i].f = x.f /\ <<sched.q[i].s, x.s>> \in Within
        \/ \E i \in 1 .. Len(queue) : queue[i].op = "scan_start" /\ queue[i].f = x.f /\ <<queue[i].s, x.s>> \in Within

\* Nothing to be scanned is forgotten, and the scheduler never waits in vain.
SchedulerSound == SchedulerTypeOK /\ FolderPresent /\ WaitsForScan /\ TimerRuns /\ RequestKept
=============================================================================
