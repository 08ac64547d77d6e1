------------------------------- MODULE Watch -------------------------------
(***************************************************************************)
(* unix::watcher_t and linux::watcher_t: which directories of a folder are *)
(* watched, and under which paths.  The kernel watches inodes (a watch     *)
(* descriptor belongs to a directory wherever it is moved), the program    *)
(* keeps paths: path_map, path_to_wd and subdir_map follow the events.     *)
(* New directories come to be watched by scans (scan_dir_t calls notify).  *)
(*                                                                         *)
(* A path is a sequence of names; <<"/F">> is the folder.  Paths are       *)
(* strings in the code, and the places where it matters are kept: Suffix   *)
(* and Chop, and the path that rename_self_descending glues without a "/". *)
(***************************************************************************)
EXTENDS Naturals, Sequences, FiniteSets, SequencesExt

CONSTANTS Dirs, Names,          \* directories (inodes) and names
          Suffix,               \* <<n, m>> \in Suffix: the string n ends with m
          Chop,                 \* the name without its last character
          MaxOps, MaxEvents

Root == "root"
Out == "out"                    \* outside of the folder, or not there
Top == <<"/F">>
Glued == "/F+"                  \* <<"/F+", "b">> is the string "/Fb"
NoDir == "nodir"

VARIABLES where,                \* [Dirs -> [in, name]]: the directories on the disk
          born,                 \* directories that existed once (history)
          kernel,               \* watched inodes
          events,               \* unread events of inotify
          on,                   \* the folder is in watched_folders
          w,                    \* watcher_t: [path, parent, sub, wd]
          todo, listing,        \* paths to be scanned; the scan at work
          seen,                 \* what happened (history): see Init
          ops                   \* operations left (a bound)

vars == <<where, born, kernel, events, on, w, todo, listing, seen, ops>>

Inside(pl, d) == pl[d].in # Out
RECURSIVE PathOf(_, _)
PathOf(pl, d) == IF d = Root THEN Top ELSE IF ~Inside(pl, d) THEN <<>>
                 ELSE LET p == PathOf(pl, pl[d].in) IN IF p = <<>> THEN <<>> ELSE Append(p, pl[d].name)
Here(pl) == {d \in Dirs : PathOf(pl, d) # <<>>}
Children(pl, d) == {c \in Dirs : pl[c].in = d}
At(pl, path) == IF path = Top THEN Root ELSE IF \E d \in Here(pl) : PathOf(pl, d) = path
                THEN CHOOSE d \in Here(pl) : PathOf(pl, d) = path ELSE NoDir
RECURSIVE Below(_, _)
Below(pl, d) == Children(pl, d) \cup UNION {Below(pl, c) : c \in Children(pl, d)}

NoWatch == [path |-> <<>>, parent |-> NoDir, sub |-> {}]
Idle == [at |-> <<>>, found |-> {}]

Init ==
    /\ where = [d \in Dirs |-> [in |-> Out, name |-> "none"]] /\ born = {}
    /\ kernel = {} /\ events = <<>> /\ on = FALSE
    /\ w = [d \in Dirs \cup {Root} |-> NoWatch]
    /\ todo = {} /\ listing = Idle
    \* odd: something happened that the watcher cannot follow (see the user's
    \* actions); dangling: an event came of a directory that is not known; twice:
    \* a watch descriptor was given again
    /\ seen = [odd |-> FALSE, dangling |-> FALSE, twice |-> FALSE]
    /\ ops = MaxOps

Known(ww, d) == ww[d].path # <<>>
Wd(ww, path) == IF \E d \in DOMAIN ww : Known(ww, d) /\ ww[d].path = path
                THEN CHOOSE d \in DOMAIN ww : Known(ww, d) /\ ww[d].path = path ELSE NoDir

----------------------------------------------------------------------------
\* watcher_t::watch_path (path, folder_id, type, parent): state [w, kernel, seen]
watch_path(s, path, parent) ==
    LET d == At(where, path)
    IN  IF Wd(s.w, path) # NoDir \/ d = NoDir THEN s
        ELSE [s EXCEPT !.kernel = @ \cup {d}, !.seen.twice = @ \/ Known(s.w, d),
                       !.w = IF Known(s.w, d) THEN @
                             ELSE [x \in DOMAIN @ |->
                                    IF x = d THEN [path |-> path, parent |-> parent, sub |-> @[d].sub]
                                    ELSE IF x = parent THEN [@[x] EXCEPT !.sub = @ \cup {d}] ELSE @[x]]]

\* watcher_t::unwatch_wd
unwatch_wd(s, d) ==
    [s EXCEPT !.kernel = @ \ {d},
              !.w = [x \in DOMAIN @ |-> IF x = d THEN [NoWatch EXCEPT !.sub = s.w[d].sub]
                                        ELSE IF x = s.w[d].parent THEN [@[x] EXCEPT !.sub = @ \ {d}] ELSE @[x]]]
\* watcher_t::unwatch_recurse: children first
RECURSIVE unwatch_recurse(_, _)
unwatch_recurse(s, d) ==
    LET Sub(t, c) == unwatch_recurse(t, c)
    IN  unwatch_wd(FoldLeft(Sub, s, SetToSeq(s.w[d].sub)), d)
unwatch_folder(s) == LET d == Wd(s.w, Top) IN IF d = NoDir THEN s ELSE unwatch_recurse(s, d)

\* watcher_t::forget
forget(s, d) ==
    IF ~Known(s.w, d) THEN s
    ELSE [s EXCEPT !.w = [x \in DOMAIN @ |-> IF x = d THEN NoWatch
                                             ELSE IF x = s.w[d].parent THEN [@[x] EXCEPT !.sub = @ \ {d}] ELSE @[x]]]

----------------------------------------------------------------------------
\* watcher_t::rename_self_descending: a child of the (new) parent whose path ends
\* with the previous path, as strings, and everything below it get the new path.
Tail2(s) == IF s = <<>> THEN <<>> ELSE Tail(s)
EndsWith(path, prev) ==
    LET k == Len(prev)
        m == Len(path)
    IN  k > 0 /\ m >= k /\ SubSeq(path, m - k + 2, m) = Tail(prev) /\ <<path[m - k + 1], prev[1]>> \in Suffix
Prefixed(parent) == IF parent = Top THEN <<Glued>> ELSE <<parent[1]>>
\* mutant: what is below keeps its path
DescendNot(ww, d, skip, head) == [ww EXCEPT ![d].path = head \o SubSeq(@, skip + 1, Len(@))]
RECURSIVE Descend(_, _, _, _)
Descend(ww, d, skip, head) ==
    LET Sub(x, c) == Descend(x, c, skip, head)
        path == head \o SubSeq(ww[d].path, skip + 1, Len(ww[d].path))
    IN  FoldLeft(Sub, [ww EXCEPT ![d].path = path], SetToSeq(ww[d].sub))
rename_self_descending(ww, parent, prev, new) ==
    LET fit == {c \in ww[parent].sub : EndsWith(ww[c].path, prev)}
        c == CHOOSE c \in fit : TRUE
    IN  IF fit = {} THEN ww ELSE Descend(ww, c, Len(ww[c].path), Prefixed(ww[parent].path) \o new)

\* the path of an event relative to the folder
Rel(ww, d, n) == Append(Tail2(ww[d].path), n)

\* linux::watcher_t::inotify_callback, one event: what it does to the watches, and
\* the directory that is to be scanned, if it was created.
Halves(es, i) ==
    es[i].kind = "to" /\ es[i].cookie # 0 /\ i > 1 /\ es[i - 1].kind = "from" /\ es[i - 1].cookie = es[i].cookie
take(s, es, i) ==
    LET e == es[i]
        dark == e.kind # "self" /\ ~Known(s.w, e.wd)
        new == e.kind = "create" \/ (e.kind = "to" /\ ~Halves(es, i))
    IN  IF dark THEN [s EXCEPT !.seen.dangling = TRUE]
        ELSE IF e.kind = "self" THEN forget(s, e.wd)
        ELSE IF new THEN [s EXCEPT !.todo = @ \cup {Append(s.w[e.wd].path, e.name)}]
        ELSE IF e.kind = "to" THEN
             [s EXCEPT !.w = rename_self_descending(@, e.wd, Rel(@, es[i - 1].wd, es[i - 1].name), Rel(@, e.wd, e.name))]
        ELSE s
inotify_callback(s, es) ==
    LET Step(t, i) == take(t, es, i) IN FoldLeft(Step, s, [i \in DOMAIN es |-> i])

\* watcher_t::notify, called by scan_dir_t with the children it found.  The path of
\* a child is looked up without its last character.
notify(s, path, found) ==
    LET t == IF Wd(s.w, path) # NoDir \/ Len(path) < 2 THEN s
             ELSE LET p == Wd(s.w, Front(path)) IN IF p = NoDir THEN s ELSE watch_path(s, path, p)
        Skip(x, n) == Wd(x.w, Append(path, Chop[n])) # NoDir
        Child(x, n) == IF Skip(x, n) THEN x ELSE watch_path(x, Append(path, n), Wd(t.w, path))
    IN  IF Wd(t.w, path) = NoDir THEN s ELSE FoldLeft(Child, t, SetToSeq(found))

----------------------------------------------------------------------------
Part == [w |-> w, kernel |-> kernel, seen |-> seen, todo |-> todo]
Becomes(s) == w' = s.w /\ kernel' = s.kernel /\ seen' = s.seen /\ todo' = s.todo

\* watcher_t::on_watch; the folder is scanned after that
on_watch ==
    /\ ~on /\ on' = TRUE
    /\ Becomes([watch_path(Part, Top, NoDir) EXCEPT !.todo = {Top}])
    /\ UNCHANGED <<where, born, events, listing, ops>>

\* watcher_t::on_unwatch
on_unwatch ==
    /\ on /\ on' = FALSE /\ ops > 0 /\ ~seen.odd /\ ops' = ops - 1
    /\ Becomes([unwatch_folder(Part) EXCEPT !.todo = {}, !.seen.odd = events # <<>>])
    /\ listing' = Idle
    /\ UNCHANGED <<where, born, events>>

Read ==
    /\ events # <<>> /\ events' = <<>>
    /\ LET s == inotify_callback(Part, events) IN Becomes(IF on THEN s ELSE [s EXCEPT !.todo = {}])
    /\ UNCHANGED <<where, born, on, listing, ops>>

\* scan_dir_t::process reads the directory, then calls notify; what it found is
\* scanned in turn.
List ==
    /\ ~seen.odd /\ listing = Idle /\ \E p \in todo :
        /\ todo' = todo \ {p}
        /\ listing' = IF At(where, p) = NoDir THEN Idle
                      ELSE [at |-> p, found |-> {where[c].name : c \in Children(where, At(where, p))}]
    /\ UNCHANGED <<where, born, kernel, events, on, w, seen, ops>>
Notify ==
    /\ ~seen.odd /\ listing # Idle /\ listing' = Idle
    /\ LET s == notify(Part, listing.at, listing.found)
       IN  Becomes([s EXCEPT !.todo = @ \cup {Append(listing.at, n) : n \in listing.found}])
    /\ UNCHANGED <<where, born, events, on, ops>>

----------------------------------------------------------------------------
\* The user.  A directory that is in the kernel's set causes events.
Event(kind, d, n, c) == IF d \in kernel THEN <<[kind |-> kind, wd |-> d, name |-> n, cookie |-> c]>> ELSE <<>>
Able == ops > 0 /\ ~seen.odd
User(pl, es, odd) ==
    /\ Able /\ Len(events \o es) <= MaxEvents
    /\ where' = pl /\ events' = events \o es /\ ops' = ops - 1
    /\ seen' = [seen EXCEPT !.odd = odd]
    /\ UNCHANGED <<on, w, todo, listing>>
Free(p, n) == \A c \in Children(where, p) : where[c].name # n
Spots == Here(where) \cup {Root}

\* odd: a name that is found under another one; a directory that is read just now
\* and is not watched yet; a directory that took the place of a deleted one, whose
\* deletion was not read yet
Stale(p) == Wd(w, PathOf(where, p)) \notin {p, NoDir}
Clash(p, n) == \E c \in Children(where, p) : where[c].name = Chop[n] \/ n = Chop[where[c].name]
Mkdir(d, p, n) ==
    /\ d \notin born /\ p \in Spots /\ Free(p, n) /\ born' = born \cup {d}
    /\ User([where EXCEPT ![d] = [in |-> p, name |-> n]], Event("create", p, n, 0),
            Clash(p, n) \/ Stale(p) \/ (listing.at = PathOf(where, p) /\ p \notin kernel))
    /\ UNCHANGED kernel
Rmdir(d) ==
    /\ d \in Here(where) /\ Children(where, d) = {} /\ kernel' = kernel \ {d}
    /\ User([where EXCEPT ![d] = [in |-> Out, name |-> "none"]], Event("self", d, "none", 0) \o Event("delete", where[d].in, where[d].name, 0), FALSE)
    /\ UNCHANGED born

\* odd: the directory is in the folder itself, or gets another parent; scans are
\* at work, which may meet the new name before the event is read; something below
\* it was just created
Unsettled(d) ==
    \/ d \notin kernel \/ todo # {} \/ listing # Idle
    \/ \E i \in DOMAIN events : events[i].wd \in {d} \cup Below(where, d)
Rename(d, p, n) ==
    /\ d \in Here(where) /\ p \in Spots \ ({d} \cup Below(where, d)) /\ Free(p, n)
    /\ User([where EXCEPT ![d] = [in |-> p, name |-> n]],
            Event("from", where[d].in, where[d].name, ops) \o Event("to", p, n, ops),
            where[d].in = Root \/ p # where[d].in \/ Unsettled(d) \/ Clash(p, n))
    /\ UNCHANGED <<born, kernel>>
\* odd: the kernel goes on watching
MoveOut(d) ==
    /\ d \in Here(where)
    /\ User([where EXCEPT ![d].in = Out], Event("from", where[d].in, where[d].name, 0), kernel \cap ({d} \cup Below(where, d)) # {})
    /\ UNCHANGED <<born, kernel>>
MoveIn(d, p, n) ==
    /\ d \in born \ Here(where) /\ where[d].in = Out /\ where[d].name # "none" /\ p \in Spots /\ Free(p, n)
    /\ User([where EXCEPT ![d] = [in |-> p, name |-> n]], Event("to", p, n, 0),
            Clash(p, n) \/ Stale(p) \/ Wd(w, Append(PathOf(where, p), n)) # NoDir \/ kernel \cap ({d} \cup Below(where, d)) # {} \/ (listing.at = PathOf(where, p) /\ p \notin kernel))
    /\ UNCHANGED <<born, kernel>>

Next ==
    \/ on_watch \/ on_unwatch \/ Read \/ List \/ Notify
    \/ Able /\ \E d \in Dirs : Rmdir(d) \/ MoveOut(d)
    \/ Able /\ \E d \in Dirs, p \in Dirs \cup {Root}, n \in Names : Mkdir(d, p, n) \/ Rename(d, p, n) \/ MoveIn(d, p, n)

Spec == Init /\ [][Next]_vars

----------------------------------------------------------------------------
AllDirs == Dirs \cup {Root}
Settled == events = <<>> /\ ~seen.odd

TypeOK ==
    /\ where \in [Dirs -> [in : AllDirs \cup {Out}, name : Names \cup {"none"}]]
    /\ born \subseteq Dirs /\ kernel \subseteq AllDirs /\ on \in BOOLEAN /\ ops \in 0..MaxOps
    /\ \A d \in AllDirs : w[d].parent \in AllDirs \cup {NoDir} /\ w[d].sub \subseteq AllDirs

\* path_map, subdir_map and path_to_wd agree, whatever happened: a path has one
\* descriptor, and a directory is listed below its parent, which is known.
MapsAgree ==
    ~seen.odd =>
    /\ \A d, e \in AllDirs : Known(w, d) /\ w[d].path = w[e].path => d = e
    /\ \A p, d \in AllDirs : d \in w[p].sub <=> w[d].parent = p
    /\ \A d \in AllDirs \ {Root} : Known(w, d) => Known(w, w[d].parent)

\* When all events were read, every watched directory is known by its own path.
PathsTrue == Settled => \A d \in Dirs : Known(w, d) => w[d].path = PathOf(where, d)

\* When the scans are over as well, every directory of the folder is watched.
AllWatched ==
    Settled /\ on /\ todo = {} /\ listing = Idle => Here(where) \cup {Root} = kernel

\* A descriptor the kernel watches is known; one that it has dropped was deleted.
KernelKnown ==
    ~seen.odd =>
    /\ \A d \in kernel : Known(w, d)
    /\ \A d \in AllDirs \ kernel : Known(w, d) => \E i \in DOMAIN events : events[i].kind = "self" /\ events[i].wd = d

\* Nothing remains of a folder that is no longer watched.
NothingLeft == Settled /\ ~on => kernel = {} /\ \A d \in AllDirs : w[d] = NoWatch

\* Every event is about a directory that path_map knows; no descriptor is given
\* twice.
EventsKnown == ~seen.odd => ~seen.dangling /\ ~seen.twice

\* tests/088-watcher.cpp: after a directory was renamed the events in it have its
\* new path.
RenamedIsKnown == events = <<>> => \A d \in Dirs : d \in kernel /\ Known(w, d) /\ d \in Here(where) => w[d].path = PathOf(where, d)

\* The watcher knows what the kernel watches, and by which path.
WatchSound ==
    TypeOK /\ KernelKnown /\ NothingLeft /\ MapsAgree /\ PathsTrue /\ AllWatched /\ EventsKnown
=============================================================================
