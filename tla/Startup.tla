------------------------------ MODULE Startup ------------------------------
(***************************************************************************)
(* From the start of the threads to local_ready_t: net_supervisor_t counts *)
(* threads and actors, db_actor_t reads the database chunk by chunk, the   *)
(* load diff goes to every thread that has a copy of the model, and the    *)
(* daemon's governor runs its commands.  A shutdown may come at any time.  *)
(***************************************************************************)
EXTENDS Integers, FiniteSets, Sequences

CONSTANTS Threads, Net,   \* threads with a model; Net is the coordinator's
          Outside,        \* actors of other supervisors that report local_up_t
          Late,           \* actors of on_ready that report local_up_t
          Chunks,         \* chunks of blocks and files in the database
          Commands        \* command line of the daemon, a sequence of kinds

Early == {"db", "keeper", "scheduler"}
Actors == Outside \cup Early \cup Late
Kinds == {"change", "skip", "inactivate"}

\* The file actor is among the actors of other supervisors.
ASSUME StartupAssumption ==
    /\ Net \in Threads /\ IsFiniteSet(Threads) /\ Chunks \in Nat /\ Commands \in Seq(Kinds)
    /\ IsFiniteSet(Outside) /\ IsFiniteSet(Late) /\ Late # {} /\ "fs" \in Outside
    /\ Outside \cap Late = {} /\ (Outside \cup Late) \cap Early = {}

VARIABLES threadCounter, localCounter,
          actor,       \* actor[a]: "absent", "starting", "started" (has sent local_up_t)
          inbox,       \* messages on their way to the coordinator
          thread,      \* thread[t]: "starting", "up", "asked", "loading", "loaded"
          load,        \* the reading of the database: "no", "reading", "read", "seeded", "failed"
          chunk,       \* chunks read
          part,        \* part[t]: chunks of the load diff thread t applied
          txn,         \* the read-only transaction: "none", "open", "closed"
          ready,       \* how often ready_t came
          localReady,  \* how often local_ready_t was sent
          commands, waiting,   \* the governor's list, and whether it waits for its update
          deadline,    \* "off", "on", "over": the inactivity timer
          down         \* the system is shutting down

vars == <<threadCounter, localCounter, actor, inbox, thread, load, chunk, part, txn, ready,
          localReady, commands, waiting, deadline, down>>
net == <<threadCounter, localCounter, actor, ready, localReady>>
gov == <<commands, waiting, deadline>>

Count == Cardinality(Threads)
Msg(type, from) == [type |-> type, from |-> from]

Begun(d) ==
    /\ threadCounter = Count
    /\ localCounter = Cardinality(Outside)
    /\ actor = [a \in Actors |-> IF a \in Outside THEN "starting" ELSE "absent"]
    /\ inbox = {} /\ thread = [t \in Threads |-> "starting"]
    /\ load = "no" /\ chunk = 0 /\ part = [t \in Threads |-> 0] /\ txn = "none"
    /\ ready = 0 /\ localReady = 0
    /\ commands = Commands /\ waiting = FALSE /\ deadline = "off" /\ down = d
Init == Begun(FALSE)

----------------------------------------------------------------------------
\* A thread comes up.  The coordinator does so in on_start, the user
\* interface once it has found the coordinator and subscribed to it.
ThreadUp(t) ==
    /\ thread[t] = "starting" /\ ~down
    /\ thread' = [thread EXCEPT ![t] = "up"]
    /\ inbox' = inbox \cup {Msg("thread_up", t)}
    /\ UNCHANGED <<net, load, chunk, part, txn, gov, down>>

\* An actor starts.  The file actor ("fs") links to the database first.
\* db_actor_t reports after it opened its transaction (DbTrigger).
Waits(a) == IF a = "fs" THEN actor["db"] # "absent" ELSE a # "db"
ActorUp(a) ==
    /\ actor[a] = "starting" /\ Waits(a) /\ ~down
    /\ actor' = [actor EXCEPT ![a] = "started"]
    /\ inbox' = inbox \cup {Msg("local_up", a)}
    /\ UNCHANGED <<threadCounter, localCounter, ready, localReady, thread, load, chunk, part, txn, gov, down>>

\* on_cluster_load_trigger, and the failures it reports.
DbTrigger ==
    /\ actor["db"] = "starting" /\ load = "no" /\ ~down
    /\ \/ /\ actor' = [actor EXCEPT !["db"] = "started"]
          /\ inbox' = inbox \cup {Msg("local_up", "db")}
          /\ load' = "reading" /\ txn' = "open"
       \/ /\ inbox' = inbox \cup {Msg("load_fail", "db")}
          /\ load' = "failed" /\ UNCHANGED <<actor, txn>>
    /\ UNCHANGED <<threadCounter, localCounter, ready, localReady, thread, chunk, part, gov, down>>

\* on_patrial_load: a chunk, or the end of the database, or the shutdown.
PartialLoad ==
    /\ load = "reading"
    /\ \/ /\ down
          /\ txn' = "closed" /\ load' = "failed" /\ inbox' = inbox \cup {Msg("load_fail", "db")}
          /\ UNCHANGED chunk
       \/ /\ ~down /\ chunk < Chunks
          /\ chunk' = chunk + 1 /\ UNCHANGED <<txn, load, inbox>>
       \/ /\ ~down /\ chunk = Chunks
          /\ load' = "read" /\ inbox' = inbox \cup {Msg("load_success", "db")}
          /\ UNCHANGED <<chunk, txn>>
    /\ UNCHANGED <<net, thread, part, gov, down>>

----------------------------------------------------------------------------
\* The coordinator's handlers.
Received(type, from) == Msg(type, from) \in inbox

\* mutant: one report more is waited for than there are actors
LaunchTooMany ==
    /\ threadCounter' = Count
    /\ localCounter' = localCounter + 2 + Cardinality(Early)
    /\ actor' = [a \in Actors |-> IF a \in Early THEN "starting" ELSE actor[a]]
\* launch_early.
launch_early ==
    /\ threadCounter' = Count
    /\ localCounter' = localCounter + 1 + Cardinality(Early)
    /\ actor' = [a \in Actors |-> IF a \in Early THEN "starting" ELSE actor[a]]

on_thread_up(t) ==
    /\ Received("thread_up", t)
    /\ inbox' = inbox \ {Msg("thread_up", t)}
    /\ IF threadCounter = 1 THEN launch_early
       ELSE threadCounter' = threadCounter - 1 /\ UNCHANGED <<localCounter, actor>>
    /\ UNCHANGED <<ready, localReady, thread, load, chunk, part, txn, gov, down>>

SeedsAtOnce(n) == n <= 2                        \* mutant: not all threads are waited for

\* seed_model: the load diff is sent to every thread once all of them ask.
Seeds(n) == n = 1
seed_model(n) ==
    IF Seeds(n)
    THEN threadCounter' = Count /\ load' = "seeded"
         /\ thread' = [t \in Threads |-> IF t = Net \/ thread[t] = "asked" THEN "loading" ELSE thread[t]]
    ELSE threadCounter' = n /\ UNCHANGED <<load, thread>>

on_load_cluster_success ==
    /\ Received("load_success", "db")
    /\ seed_model(threadCounter)
    /\ inbox' = (inbox \ {Msg("load_success", "db")}) \cup {Msg("db_loaded", t) : t \in Threads \ {Net}}
    /\ UNCHANGED <<localCounter, actor, ready, localReady, chunk, part, txn, gov, down>>

on_load_cluster_fail ==
    /\ Received("load_fail", "db")
    /\ inbox' = inbox \ {Msg("load_fail", "db")}
    /\ down' = TRUE
    /\ UNCHANGED <<net, thread, load, chunk, part, txn, gov>>

\* on_db_loaded in the user interface: it asks for a copy of the model.
on_db_loaded(t) ==
    /\ Received("db_loaded", t) /\ ~down
    /\ inbox' = (inbox \ {Msg("db_loaded", t)}) \cup {Msg("model_request", t)}
    /\ thread' = [thread EXCEPT ![t] = "asked"]
    /\ UNCHANGED <<net, load, chunk, part, txn, gov, down>>

on_model_request(t) ==
    /\ Received("model_request", t)
    /\ inbox' = inbox \ {Msg("model_request", t)}
    /\ seed_model(threadCounter - 1)
    /\ UNCHANGED <<localCounter, actor, ready, localReady, chunk, part, txn, gov, down>>

\* The load diff in a thread, interrupted between chunks; its last part is
\* load::commit_t.  A thread that shuts down goes to the commit at once.
Application(t) ==
    /\ thread[t] = "loading"
    /\ IF part[t] < Chunks /\ ~down
       THEN part' = [part EXCEPT ![t] = @ + 1] /\ UNCHANGED <<thread, inbox>>
       ELSE /\ thread' = [thread EXCEPT ![t] = "loaded"]
            /\ inbox' = IF down THEN inbox ELSE inbox \cup {Msg("thread_ready", t)}
            /\ UNCHANGED part
    /\ UNCHANGED <<net, load, chunk, txn, gov, down>>

\* The commit message is routed: it reaches the database actor after every
\* thread has put and dropped it.
on_commit ==
    /\ txn = "open" /\ load = "seeded" /\ \A t \in Threads : thread[t] = "loaded"
    /\ txn' = "closed"
    /\ UNCHANGED <<net, inbox, thread, load, chunk, part, gov, down>>

on_thread_ready(t) ==
    /\ Received("thread_ready", t)
    /\ threadCounter' = threadCounter - 1
    /\ inbox' = (inbox \ {Msg("thread_ready", t)})
                \cup (IF threadCounter = 1 /\ ~down THEN {Msg("ready", Net)} ELSE {})
    /\ UNCHANGED <<localCounter, actor, ready, localReady, thread, load, chunk, part, txn, gov, down>>

NoGuard == Cardinality(Late) + 1                \* mutant: the actors made last do not count

\* on_ready: the guard of launch_early is released.
Guard == 1
on_ready ==
    /\ Received("ready", Net)
    /\ inbox' = inbox \ {Msg("ready", Net)}
    /\ ready' = ready + 1
    /\ actor' = [a \in Actors |-> IF a \in Late THEN "starting" ELSE actor[a]]
    /\ localCounter' = localCounter + Cardinality(Late) - Guard
    /\ UNCHANGED <<threadCounter, localReady, thread, load, chunk, part, txn, gov, down>>

\* on_local_up.
on_local_up(a) ==
    /\ Received("local_up", a)
    /\ localCounter' = localCounter - 1
    /\ IF localCounter = 1
       THEN localReady' = localReady + 1 /\ inbox' = (inbox \ {Msg("local_up", a)}) \cup {Msg("local_ready", Net)}
       ELSE inbox' = inbox \ {Msg("local_up", a)} /\ UNCHANGED localReady
    /\ UNCHANGED <<threadCounter, actor, ready, thread, load, chunk, part, txn, gov, down>>

----------------------------------------------------------------------------
\* governor_actor_t::process: commands that need no update are dropped, the
\* first that sends one is kept, and so is "inactivate", which never leaves.
First(s) == {i \in 1 .. Len(s) : s[i] # "skip" /\ \A j \in 1 .. i - 1 : s[j] = "skip"}
process(s) ==
    /\ commands' = IF First(s) = {} THEN <<>> ELSE SubSeq(s, CHOOSE i \in First(s) : TRUE, Len(s))
    /\ waiting' = (\E i \in First(s) : s[i] = "change")
    /\ deadline' = IF \E i \in First(s) : s[i] = "inactivate" THEN "on" ELSE deadline

on_local_ready ==
    /\ Received("local_ready", Net)
    /\ inbox' = inbox \ {Msg("local_ready", Net)}
    /\ process(commands)
    /\ UNCHANGED <<net, thread, load, chunk, part, txn, down>>

\* on_command: the update of the first command comes back.
on_command ==
    /\ waiting /\ ~down
    /\ process(Tail(commands))
    /\ UNCHANGED <<net, inbox, thread, load, chunk, part, txn, down>>

\* The inactivity timer: the deadline passes, and an update of the folders
\* moves it (refresh_deadline); the timer looks at it when it fires.
DeadlineOver == deadline = "on" /\ deadline' = "over"
                /\ UNCHANGED <<net, inbox, thread, load, chunk, part, txn, commands, waiting, down>>
refresh_deadline == deadline = "over" /\ ~down /\ deadline' = "on"
                /\ UNCHANGED <<net, inbox, thread, load, chunk, part, txn, commands, waiting, down>>
on_inactivity_timer ==
    /\ deadline = "over" /\ ~down
    /\ deadline' = "off" /\ down' = TRUE
    /\ UNCHANGED <<net, inbox, thread, load, chunk, part, txn, commands, waiting>>

Shutdown == ~down /\ down' = TRUE
            /\ UNCHANGED <<net, inbox, thread, load, chunk, part, txn, gov>>

Coordinator ==
    \/ \E t \in Threads : on_thread_up(t) \/ on_model_request(t) \/ on_thread_ready(t)
    \/ on_load_cluster_success \/ on_load_cluster_fail \/ on_ready
    \/ \E a \in Actors : on_local_up(a)
System ==
    \/ \E t \in Threads : ThreadUp(t) \/ on_db_loaded(t) \/ Application(t)
    \/ \E a \in Actors : ActorUp(a)
    \/ DbTrigger \/ PartialLoad \/ on_commit \/ Coordinator
    \/ on_local_ready \/ on_command
Next == System \/ DeadlineOver \/ refresh_deadline \/ on_inactivity_timer \/ Shutdown

\* Every actor keeps handling its messages.
Spec == Init /\ [][Next]_vars /\ WF_vars(System)

----------------------------------------------------------------------------
TypeOK ==
    /\ threadCounter \in Nat /\ localCounter \in Nat
    /\ actor \in [Actors -> {"absent", "starting", "started"}]
    /\ thread \in [Threads -> {"starting", "up", "asked", "loading", "loaded"}]
    /\ load \in {"no", "reading", "read", "seeded", "failed"} /\ txn \in {"none", "open", "closed"}
    /\ chunk \in 0 .. Chunks /\ part \in [Threads -> 0 .. Chunks]
    /\ ready \in 0 .. 1 /\ localReady \in Nat /\ commands \in Seq(Kinds)
    /\ waiting \in BOOLEAN /\ deadline \in {"off", "on", "over"} /\ down \in BOOLEAN

\* The start is in order: no actor that works on the model is made before every
\* thread has the whole of it, and local_ready_t is sent once, after every actor
\* that reports, those made last included, has started
\* (net_supervisor_t::on_local_up, whose counter is raised in three places).
LocalReadyLast ==
    /\ ready = 1 \/ localReady = 1 => \A t \in Threads : thread[t] = "loaded" /\ part[t] = Chunks
    /\ localReady = 1 => \A a \in Actors : actor[a] = "started"
    /\ localReady <= 1

\* The load diff is there when a thread asks for the model, as the
\* assertion in on_model_request says, and no thread is left out of it.
SeededWhole ==
    /\ \A t \in Threads : Received("model_request", t) => load = "read"
    /\ load = "seeded" => \A t \in Threads : thread[t] \in {"loading", "loaded"}

\* Start-up ends: everything is up, or the system goes down; the transaction
\* opened for the load is closed, also when the shutdown comes between two chunks
\* (db_actor_t holds a resource meanwhile); and every command given before
\* "inactivate" is carried out.
StartupEnds ==
    /\ <>(localReady = 1 \/ down)
    /\ txn = "open" ~> txn = "closed" \/ (down /\ load = "read")
    /\ <>(down \/ commands = <<>> \/ Head(commands) = "inactivate")
=============================================================================
