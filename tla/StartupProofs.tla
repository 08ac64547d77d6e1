--------------------------- MODULE StartupProofs ---------------------------
(***************************************************************************)
(* Start-up for any number of threads, actors, chunks and commands.        *)
(* net_supervisor_t has two counters.  One counts the threads in three     *)
(* phases (coming up, asking for the model, loading it), the other the     *)
(* actors that report, and one more for the actors that are made last.     *)
(* The invariant says whose reports each counter stands for.               *)
(***************************************************************************)
EXTENDS Startup, FiniteSetTheorems, TLAPS

\* launch_early has been called.
Launched == actor["db"] # "absent"

\* The threads and actors whose reports are still to be counted.
Upcoming == {t \in Threads : thread[t] = "starting" \/ Received("thread_up", t)}
Unasked == {t \in Threads \ {Net} : thread[t] = "up" \/ Received("model_request", t)}
Unready == {t \in Threads : thread[t] = "loading" \/ Received("thread_ready", t)}
Unreported == {a \in Actors : actor[a] = "starting" \/ Received("local_up", a)}
Held == IF Launched /\ ready = 0 THEN 1 ELSE 0

Whole == \A t \in Threads : thread[t] = "loaded" /\ part[t] = Chunks

\* Where each message can be.
Mail ==
    /\ \A t \in Threads :
         /\ Received("thread_up", t) => ~Launched /\ thread[t] = "up"
         /\ Received("db_loaded", t) => load = "read" /\ thread[t] = "up" /\ t # Net
         /\ Received("model_request", t) => load = "read" /\ thread[t] = "asked" /\ t # Net
         /\ Received("thread_ready", t) => load = "seeded" /\ thread[t] = "loaded"
    /\ \A a \in Actors : Received("local_up", a) => actor[a] = "started"
    /\ Received("load_success", "db") =>
         load = "read" /\ \A t \in Threads : thread[t] = "up" /\ ~Received("db_loaded", t)

\* The phases, and the threads' counter in each of them.
Phases ==
    /\ ~Launched => /\ threadCounter = Cardinality(Upcoming) /\ Upcoming # {} /\ load = "no"
                    /\ \A t \in Threads : thread[t] \in {"starting", "up"}
    /\ Launched /\ load # "seeded" => /\ threadCounter = Cardinality(Unasked) + 1
                                      /\ \A t \in Threads : thread[t] \in {"up", "asked"}
    /\ load \in {"no", "reading", "failed"} => \A t \in Threads : thread[t] \in {"starting", "up"}
    /\ load = "seeded" => /\ Launched /\ threadCounter >= Cardinality(Unready)
                          /\ \A t \in Threads : thread[t] \in {"loading", "loaded"}
    /\ ~down => \A t \in Threads : thread[t] = "loaded" => part[t] = Chunks
    /\ Received("ready", Net) => ready = 0
    /\ Received("ready", Net) \/ ready = 1 => Whole /\ threadCounter = 0 /\ load = "seeded"

\* The actors' counter.
Reports ==
    /\ localCounter = Cardinality(Unreported) + Held
    /\ ~Launched => actor["fs"] = "starting" /\ \A a \in Early \cup Late : actor[a] = "absent"
    /\ \A a \in Outside : actor[a] # "absent"
    /\ Launched => \A a \in Early : actor[a] # "absent"
    /\ ready = 0 => \A a \in Late : actor[a] = "absent"
    /\ ready = 1 => Launched /\ \A a \in Actors : actor[a] # "absent"
    /\ localReady = 0 \/ (localReady = 1 /\ localCounter = 0 /\ ready = 1)

\* The inductive invariant.
Inv == TypeOK /\ Mail /\ Phases /\ Reports /\ (waiting => commands # <<>>)

----------------------------------------------------------------------------
\* Messages are equal only if type and sender are.
LEMMA MsgDiffers == \A x, y, a, b : Msg(x, a) = Msg(y, b) => x = y /\ a = b
  BY DEF Msg

\* What a message sent and a message taken change.
LEMMA Sent ==
    ASSUME NEW x, NEW a, inbox' = inbox \cup {Msg(x, a)}
    PROVE  \A y, b : Received(y, b)' <=> Received(y, b) \/ (y = x /\ b = a)
  BY MsgDiffers DEF Received
LEMMA TakenOut ==
    ASSUME NEW x, NEW a, inbox' = inbox \ {Msg(x, a)}
    PROVE  \A y, b : Received(y, b)' <=> Received(y, b) /\ ~(y = x /\ b = a)
  BY MsgDiffers DEF Received
LEMMA Swapped ==
    ASSUME NEW x, NEW a, NEW y, NEW b, x # y, inbox' = (inbox \ {Msg(x, a)}) \cup {Msg(y, b)}
    PROVE  \A z, c : Received(z, c)' <=> (Received(z, c) /\ ~(z = x /\ c = a)) \/ (z = y /\ c = b)
  BY MsgDiffers DEF Received

\* Counting down by one report.
LEMMA OneLess ==
    ASSUME NEW S, IsFiniteSet(S), NEW x \in S
    PROVE  /\ Cardinality(S) \in Nat \ {0}
           /\ Cardinality(S \ {x}) = Cardinality(S) - 1
           /\ Cardinality(S) = 1 => S = {x}
<1>1. Cardinality(S) \in Nat
  BY FS_CardinalityType
<1>2. Cardinality(S) # 0
  BY FS_EmptySet
<1>3. Cardinality(S \ {x}) = Cardinality(S) - 1 /\ IsFiniteSet(S \ {x})
  BY FS_RemoveElement
<1>4. ASSUME Cardinality(S) = 1 PROVE S = {x}
  <2>1. Cardinality(S \ {x}) = 0
    BY <1>3, <1>4
  <2>2. S \ {x} = {}
    BY <2>1, <1>3, FS_EmptySet
  <2> QED BY <2>2
<1> QED BY <1>1, <1>2, <1>3, <1>4

\* Whatever waits for a report is a finite set.
LEMMA Finite ==
    /\ IsFiniteSet(Actors) /\ "db" \in Actors /\ "fs" \in Actors
    /\ IsFiniteSet(Early) /\ Cardinality(Early) \in Nat
    /\ IsFiniteSet(Late) /\ Cardinality(Late) \in Nat \ {0}
    /\ Count \in Nat \ {0} /\ Cardinality(Outside) \in Nat
<1>1. IsFiniteSet(Early)
  <2>1. IsFiniteSet({"db"} \cup {"keeper"})
    BY FS_Singleton, FS_AddElement
  <2>2. IsFiniteSet(({"db"} \cup {"keeper"}) \cup {"scheduler"})
    BY <2>1, FS_AddElement
  <2>3. Early = ({"db"} \cup {"keeper"}) \cup {"scheduler"}
    BY DEF Early
  <2> QED BY <2>2, <2>3
<1>2. IsFiniteSet(Outside \cup Early)
  BY <1>1, StartupAssumption, FS_Union
<1>3. IsFiniteSet(Actors)
  BY <1>2, StartupAssumption, FS_Union DEF Actors
<1>4. Cardinality(Early) \in Nat /\ Cardinality(Outside) \in Nat
  BY <1>1, StartupAssumption, FS_CardinalityType
<1>5. Cardinality(Late) \in Nat /\ Cardinality(Late) # 0
  BY StartupAssumption, FS_CardinalityType, FS_EmptySet
<1>6. Cardinality(Threads) \in Nat /\ Cardinality(Threads) # 0
  BY StartupAssumption, FS_CardinalityType, FS_EmptySet
<1> QED BY <1>1, <1>3, <1>4, <1>5, <1>6, StartupAssumption DEF Actors, Early, Count

LEMMA FiniteSets ==
    /\ IsFiniteSet(Upcoming) /\ IsFiniteSet(Unasked) /\ IsFiniteSet(Unready) /\ IsFiniteSet(Unreported)
    /\ Cardinality(Upcoming) \in Nat /\ Cardinality(Unasked) \in Nat
    /\ Cardinality(Unready) \in Nat /\ Cardinality(Unreported) \in Nat
<1>1. Upcoming \in SUBSET Threads /\ Unasked \in SUBSET Threads /\ Unready \in SUBSET Threads
  BY DEF Upcoming, Unasked, Unready
<1>2. Unreported \in SUBSET Actors
  BY DEF Unreported
<1>3. IsFiniteSet(Upcoming) /\ IsFiniteSet(Unasked) /\ IsFiniteSet(Unready)
  BY <1>1, StartupAssumption, FS_Subset
<1>4. IsFiniteSet(Unreported)
  BY <1>2, Finite, FS_Subset
<1> QED BY <1>3, <1>4, FS_CardinalityType

----------------------------------------------------------------------------
\* The invariant holds at the start.
LEMMA InitInv == Init => Inv
<1> SUFFICES ASSUME Init PROVE Inv
  OBVIOUS
<1> USE DEF Init, Begun
<1>1. TypeOK
  <2>1. threadCounter \in Nat /\ localCounter \in Nat /\ chunk \in 0 .. Chunks
    BY Finite, StartupAssumption
  <2>2. /\ actor \in [Actors -> {"absent", "starting", "started"}]
        /\ thread \in [Threads -> {"starting", "up", "asked", "loading", "loaded"}]
        /\ part \in [Threads -> 0 .. Chunks]
    BY <2>1
  <2>3. commands \in Seq(Kinds) /\ ready \in 0 .. 1 /\ localReady \in Nat
    BY StartupAssumption
  <2> QED BY <2>1, <2>2, <2>3, Zenon DEF TypeOK
<1>2. Launched = FALSE /\ Held = 0
  BY Finite, StartupAssumption DEF Launched, Held, Early, Actors
<1>3. \A x, y : ~Received(x, y)
  BY DEF Received
<1>4. Upcoming = Threads /\ Unreported = Outside
  BY <1>3, StartupAssumption DEF Upcoming, Unreported, Actors
<1>5. Mail
  BY <1>3 DEF Mail
<1>6. Phases
  BY <1>2, <1>3, <1>4, StartupAssumption DEF Phases, Count
<1>7. Reports
  <2>1. /\ actor["fs"] = "starting" /\ \A a \in Early \cup Late : actor[a] = "absent"
        /\ \A a \in Outside : actor[a] # "absent"
    BY StartupAssumption DEF Actors
  <2>2. Cardinality(Outside) = Cardinality(Outside) + 0
    BY Finite
  <2> QED BY <1>2, <1>4, <2>1, <2>2 DEF Reports
<1> QED BY <1>1, <1>5, <1>6, <1>7 DEF Inv

----------------------------------------------------------------------------
\* Messages that the invariant is about, beside load_success.
Counted == {"thread_up", "db_loaded", "model_request", "thread_ready", "local_up", "ready"}

\* A step that leaves counters, threads and actors alone, and that does not undo
\* a shutdown.
LEMMA QuietStep ==
    ASSUME Inv, UNCHANGED <<net, thread, load, part>>, TypeOK', down => down', waiting' => commands' # <<>>,
           \A y \in Counted \cup {"load_success"} : \A b : Received(y, b)' <=> Received(y, b)
    PROVE  Inv'
<1>1. Launched' = Launched /\ Held' = Held
  BY DEF net, Launched, Held
<1>3. Upcoming' = Upcoming /\ Unasked' = Unasked /\ Unready' = Unready /\ Unreported' = Unreported
  BY DEF Counted, net, Upcoming, Unasked, Unready, Unreported
<1>4. Mail'
  BY <1>1 DEF Counted, Inv, Mail, net
<1>5. Phases'
  BY <1>1, <1>3 DEF Counted, Inv, Phases, Whole, net
<1>6. Reports'
  BY <1>1, <1>3 DEF Inv, Reports, net
<1> QED BY <1>4, <1>5, <1>6 DEF Inv

\* A thread comes up before the actors are launched.
LEMMA ThreadUpStep == ASSUME Inv, NEW t \in Threads, ThreadUp(t) PROVE Inv'
<1>1. TypeOK'
  BY DEF Inv, TypeOK, ThreadUp, net, gov
<1>2. /\ thread'[t] = "up" /\ thread[t] = "starting" /\ \A x \in Threads : x # t => thread'[x] = thread[x]
      /\ \A y, b : Received(y, b)' <=> Received(y, b) \/ (y = "thread_up" /\ b = t)
  BY Sent DEF Inv, TypeOK, ThreadUp
<1>3. ~Launched /\ Launched' = Launched /\ Held' = Held /\ load = "no"
  BY <1>2 DEF Inv, Phases, ThreadUp, net, Launched, Held
<1>4. Upcoming' = Upcoming
  BY <1>2 DEF Upcoming
<1>5. Unreported' = Unreported
  BY <1>2 DEF Unreported, ThreadUp, net
<1>6. Mail'
  BY <1>2, <1>3 DEF Inv, Mail, ThreadUp, net
<1>7. Phases'
  BY <1>2, <1>3, <1>4 DEF Inv, Phases, ThreadUp, net, Whole
<1>8. Reports'
  BY <1>3, <1>5 DEF Inv, Reports, ThreadUp, net
<1> QED BY <1>1, <1>6, <1>7, <1>8 DEF Inv, ThreadUp, gov

\* An actor that has reported still counts until its report is taken.
LEMMA ReportStep ==
    ASSUME Inv, NEW a \in Actors, actor[a] = "starting", ~Launched => a # "fs",
           actor' = [actor EXCEPT ![a] = "started"], inbox' = inbox \cup {Msg("local_up", a)},
           UNCHANGED <<threadCounter, localCounter, ready, localReady, thread, part, gov, down>>,
           TypeOK', load' = load \/ (load = "no" /\ load' = "reading" /\ Launched)
    PROVE  Inv'
<1>1. /\ actor'[a] = "started" /\ \A x \in Actors : x # a => actor'[x] = actor[x]
      /\ \A y, b : Received(y, b)' <=> Received(y, b) \/ (y = "local_up" /\ b = a)
  BY Sent DEF Inv, TypeOK
<1>2. Launched' = Launched /\ Held' = Held
  BY <1>1, Finite DEF Launched, Held
<1>3. Upcoming' = Upcoming /\ Unasked' = Unasked /\ Unready' = Unready
  BY <1>1 DEF Upcoming, Unasked, Unready
<1>4. Unreported' = Unreported
  BY <1>1 DEF Unreported
<1>5. Mail'
  BY <1>1, <1>2 DEF Inv, Mail
<1>6. Phases'
  BY <1>1, <1>2, <1>3 DEF Inv, Phases, Whole
<1>7. Reports'
  <2>1. \A x \in Actors : actor'[x] # "absent" <=> actor[x] # "absent"
    BY <1>1
  <2>2. Outside \subseteq Actors /\ Early \subseteq Actors /\ Late \subseteq Actors /\ "fs" \in Actors
    BY Finite DEF Actors
  <2> QED BY <1>1, <1>2, <1>4, <2>1, <2>2 DEF Inv, Reports
<1> QED BY <1>5, <1>6, <1>7 DEF Inv, gov

LEMMA ActorUpStep == ASSUME Inv, NEW a \in Actors, ActorUp(a) PROVE Inv'
<1>1. TypeOK'
  BY DEF Inv, TypeOK, ActorUp, gov
<1> QED BY <1>1, ReportStep DEF ActorUp, Waits, Launched

\* The reading of the database ends: every thread is up and waits.
LEMMA LoadEnds ==
    ASSUME Inv, Launched, load \in {"no", "reading"}, load' \in {"read", "failed"},
           UNCHANGED <<net, thread, part, gov, down>>, TypeOK',
           \A y \in Counted : \A b : Received(y, b)' <=> Received(y, b),
           Received("load_success", "db")' => Received("load_success", "db") \/ load' = "read"
    PROVE  Inv'
<1>1. Launched' = Launched /\ Held' = Held
  BY DEF net, Launched, Held
<1>2. \A t \in Threads : thread[t] = "up"
  BY DEF Inv, Phases
<1>3. Upcoming' = Upcoming /\ Unasked' = Unasked /\ Unready' = Unready /\ Unreported' = Unreported
  BY DEF Counted, net, Upcoming, Unasked, Unready, Unreported
<1>4. Mail'
  BY <1>1, <1>2 DEF Counted, Inv, Mail, net
<1>5. Phases'
  BY <1>1, <1>2, <1>3 DEF Counted, Inv, Phases, Whole, net
<1>6. Reports'
  BY <1>1, <1>3 DEF Inv, Reports, net
<1> QED BY <1>4, <1>5, <1>6 DEF Inv, gov

LEMMA DbTriggerStep == ASSUME Inv, DbTrigger PROVE Inv'
<1>1. TypeOK'
  BY Finite DEF Inv, TypeOK, DbTrigger, gov
<1>2. Launched
  BY DEF DbTrigger, Launched
<1>3. CASE actor' = [actor EXCEPT !["db"] = "started"] /\ inbox' = inbox \cup {Msg("local_up", "db")} /\ load' = "reading"
  BY <1>1, <1>2, <1>3, ReportStep, Finite DEF DbTrigger
<1>4. CASE inbox' = inbox \cup {Msg("load_fail", "db")} /\ load' = "failed" /\ UNCHANGED actor
  <2>1. \A y \in Counted \cup {"load_success"} : \A b : Received(y, b)' <=> Received(y, b)
    BY <1>4, Sent DEF Counted
  <2> QED BY <1>1, <1>2, <1>4, <2>1, LoadEnds DEF DbTrigger, net
<1> QED BY <1>3, <1>4 DEF DbTrigger

LEMMA PartialLoadStep == ASSUME Inv, PartialLoad PROVE Inv'
<1>1. TypeOK'
  BY StartupAssumption DEF Inv, TypeOK, PartialLoad, net, gov
<1>2. Launched
  BY DEF Inv, Phases, PartialLoad
<1>3. CASE load' = "failed" /\ inbox' = inbox \cup {Msg("load_fail", "db")}
  <2>1. \A y \in Counted \cup {"load_success"} : \A b : Received(y, b)' <=> Received(y, b)
    BY <1>3, Sent DEF Counted
  <2> QED BY <1>1, <1>2, <1>3, <2>1, LoadEnds DEF PartialLoad
<1>4. CASE load' = "read" /\ inbox' = inbox \cup {Msg("load_success", "db")}
  <2>1. \A y \in Counted : \A b : Received(y, b)' <=> Received(y, b)
    BY <1>4, Sent DEF Counted
  <2> QED BY <1>1, <1>2, <1>4, <2>1, LoadEnds DEF PartialLoad
<1>5. CASE UNCHANGED <<load, inbox>>
  <2>1. \A y \in Counted \cup {"load_success"} : \A b : Received(y, b)' <=> Received(y, b)
    BY <1>5 DEF Received
  <2> QED BY <1>1, <1>5, <2>1, QuietStep DEF PartialLoad, Inv, gov
<1> QED BY <1>3, <1>4, <1>5 DEF PartialLoad

----------------------------------------------------------------------------
\* A thread's report that is not the last one.
LEMMA ThreadUpCounted ==
    ASSUME Inv, NEW t \in Threads, on_thread_up(t), threadCounter # 1
    PROVE  Inv'
<1>1. /\ \A y, b : Received(y, b)' <=> Received(y, b) /\ ~(y = "thread_up" /\ b = t)
      /\ Received("thread_up", t) /\ thread[t] = "up" /\ ~Launched
  BY TakenOut DEF on_thread_up, Inv, Mail
<1>2. threadCounter' = threadCounter - 1 /\ UNCHANGED <<localCounter, actor>>
  BY DEF on_thread_up
<1>3. Upcoming' = Upcoming \ {t} /\ t \in Upcoming
  BY <1>1 DEF Upcoming, on_thread_up
<1>4. Cardinality(Upcoming \ {t}) = threadCounter - 1 /\ threadCounter \in Nat \ {0}
  BY <1>1, <1>3, OneLess, FiniteSets DEF Inv, Phases
<1>5. Upcoming' # {}
  BY <1>3, <1>4, FS_EmptySet
<1>6. TypeOK'
  BY <1>2, <1>4 DEF Inv, TypeOK, on_thread_up, gov
<1>7. Launched' = Launched /\ Held' = Held
  BY <1>2 DEF Launched, Held, on_thread_up
<1>8. Unreported' = Unreported
  BY <1>1, <1>2 DEF Unreported
<1>9. Mail'
  BY <1>1, <1>2, <1>7 DEF Inv, Mail, on_thread_up
<1>10. Phases'
  BY <1>1, <1>2, <1>3, <1>4, <1>5, <1>7 DEF Inv, Phases, Whole, on_thread_up
<1>11. Reports'
  BY <1>2, <1>7, <1>8 DEF Inv, Reports, on_thread_up
<1> QED BY <1>6, <1>9, <1>10, <1>11 DEF Inv, on_thread_up, gov

\* The last one: every thread is up, and the actors that are made early report
\* in their turn.
LEMMA LaunchStep ==
    ASSUME Inv, NEW t \in Threads, on_thread_up(t), threadCounter = 1
    PROVE  Inv'
<1>1. /\ \A y, b : Received(y, b)' <=> Received(y, b) /\ ~(y = "thread_up" /\ b = t)
      /\ Received("thread_up", t) /\ thread[t] = "up" /\ ~Launched /\ load = "no" /\ ready = 0
  BY TakenOut DEF on_thread_up, Inv, Mail, Phases, TypeOK
<1>2. /\ threadCounter' = Count /\ localCounter' = localCounter + 1 + Cardinality(Early)
      /\ actor' = [a \in Actors |-> IF a \in Early THEN "starting" ELSE actor[a]]
      /\ UNCHANGED <<ready, localReady, thread, load, part, down>>
  BY DEF on_thread_up, launch_early
<1>3. Upcoming = {t}
  <2>1. t \in Upcoming /\ Cardinality(Upcoming) = 1
    BY <1>1 DEF Upcoming, Inv, Phases
  <2> QED BY <2>1, OneLess, FiniteSets
<1>4. \A x \in Threads : thread[x] = "up" /\ ~Received("thread_up", x)'
  BY <1>1, <1>3 DEF Inv, Phases, Upcoming
<1>5. Launched' /\ Held' = 1 /\ Held = 0
  BY <1>1, <1>2, Finite DEF Launched, Held, Early
<1>6. TypeOK'
  <2>1. localCounter + 1 + Cardinality(Early) \in Nat
    BY Finite DEF Inv, TypeOK
  <2> QED BY <1>2, <2>1, Finite DEF Inv, TypeOK, on_thread_up, gov
<1>7. Mail'
  BY <1>1, <1>2, <1>4 DEF Inv, Mail, Reports
<1>8. Phases'
  <2>1. Unasked' = Threads \ {Net}
    BY <1>2, <1>4 DEF Unasked
  <2>2. Cardinality(Threads \ {Net}) = Count - 1 /\ Count \in Nat
    BY StartupAssumption, OneLess, Finite DEF Count
  <2>3. threadCounter' = Cardinality(Unasked') + 1
    BY <1>2, <2>1, <2>2
  <2> QED BY <1>1, <1>2, <1>4, <1>5, <2>3 DEF Inv, Phases, Whole
<1>9. Reports'
  <2>1. Unreported' = Unreported \cup Early /\ Unreported \cap Early = {}
    BY <1>1, <1>2, StartupAssumption DEF Unreported, Actors, Inv, Reports, Mail
  <2>2. Cardinality(Unreported \cup Early) = Cardinality(Unreported) + Cardinality(Early)
    <3>1. Cardinality(Unreported \cup Early) =
            Cardinality(Unreported) + Cardinality(Early) - Cardinality(Unreported \cap Early)
      BY FiniteSets, Finite, FS_Union
    <3>2. Cardinality(Unreported \cap Early) = 0
      BY <2>1, FS_EmptySet
    <3> QED BY <3>1, <3>2, FiniteSets, Finite
  <2>3. localCounter' = Cardinality(Unreported)' + Held'
    BY <1>2, <1>5, <2>1, <2>2, FiniteSets, Finite DEF Inv, Reports
  <2>4. /\ \A a \in Outside : actor'[a] # "absent"
        /\ \A a \in Early : actor'[a] # "absent"
        /\ \A a \in Late : actor'[a] = "absent"
    BY <1>1, <1>2, StartupAssumption DEF Inv, Reports, Actors
  <2> QED BY <1>1, <1>2, <1>5, <2>3, <2>4 DEF Inv, Reports
<1> QED BY <1>6, <1>7, <1>8, <1>9 DEF Inv, on_thread_up, gov

----------------------------------------------------------------------------
\* The load diff is sent: everybody has asked for it, so everybody loads it.
LEMMA SeedStep ==
    ASSUME Inv, load = "read", Launched,
           threadCounter' = Count, load' = "seeded",
           thread' = [t \in Threads |-> IF t = Net \/ thread[t] = "asked" THEN "loading" ELSE thread[t]],
           \A t \in Threads \ {Net} : thread[t] = "asked",
           UNCHANGED <<localCounter, actor, ready, localReady, chunk, part, txn, gov, down>>,
           \A y, b : Received(y, b)' => Received(y, b),
           \A a \in Actors : Received("local_up", a)' <=> Received("local_up", a),
           \A t \in Threads : ~Received("db_loaded", t)' /\ ~Received("model_request", t)',
           ~Received("load_success", "db")'
    PROVE  Inv'
<1>1. \A t \in Threads : thread'[t] = "loading"
  OBVIOUS
<1>2. TypeOK'
  BY <1>1, Finite DEF Inv, TypeOK, gov
<1>3. Launched' = Launched /\ Held' = Held
  BY DEF Launched, Held
<1>4. Unreported' = Unreported
  BY DEF Unreported
<1>5. Mail'
  BY <1>1, <1>3 DEF Inv, Mail
<1>6. Phases'
  <2>1. Unready' \in SUBSET Threads
    BY DEF Unready
  <2>2. Count >= Cardinality(Unready')
    BY <2>1, StartupAssumption, FS_Subset, FS_CardinalityType DEF Count
  <2> QED BY <1>1, <1>3, <2>2 DEF Inv, Phases
<1>7. Reports'
  BY <1>3, <1>4 DEF Inv, Reports
<1> QED BY <1>2, <1>5, <1>6, <1>7 DEF Inv, gov

\* The database is read.  The coordinator alone is seeded at once; otherwise the
\* other threads are told.
LEMMA LoadSuccessStep == ASSUME Inv, on_load_cluster_success PROVE Inv'
<1> DEFINE Told == {Msg("db_loaded", t) : t \in Threads \ {Net}}
<1>1. /\ Received("load_success", "db") /\ load = "read" /\ Launched
      /\ \A t \in Threads : thread[t] = "up" /\ ~Received("db_loaded", t)
  BY DEF on_load_cluster_success, Inv, Mail, Phases
<1>2. \A y, b : Received(y, b)' <=> (Received(y, b) /\ ~(y = "load_success" /\ b = "db"))
                                \/ (y = "db_loaded" /\ b \in Threads \ {Net})
  <2>1. \A y, b : Msg(y, b) \in Told <=> y = "db_loaded" /\ b \in Threads \ {Net}
    BY MsgDiffers
  <2>2. inbox' = (inbox \ {Msg("load_success", "db")}) \cup Told
    BY DEF on_load_cluster_success
  <2> HIDE DEF Told
  <2> QED BY <2>1, <2>2, MsgDiffers DEF Received
<1>3. Unasked = Threads \ {Net} /\ threadCounter = Cardinality(Unasked) + 1
  BY <1>1 DEF Unasked, Inv, Phases
<1>4. \A t \in Threads : ~Received("model_request", t)
  BY <1>1 DEF Inv, Mail
<1>5. CASE Seeds(threadCounter)
  <2>1. Threads \ {Net} = {}
    BY <1>3, <1>5, FiniteSets, FS_EmptySet DEF Seeds
  <2>2. \A y, b : Received(y, b)' <=> Received(y, b) /\ ~(y = "load_success" /\ b = "db")
    BY <1>2, <2>1
  <2> QED BY <1>1, <1>4, <1>5, <2>1, <2>2, SeedStep DEF on_load_cluster_success, seed_model
<1>6. CASE ~Seeds(threadCounter)
  <2>1. UNCHANGED <<threadCounter, load, thread>>
    BY <1>6 DEF on_load_cluster_success, seed_model
  <2>2. TypeOK'
    BY <2>1 DEF Inv, TypeOK, on_load_cluster_success, gov
  <2>3. Launched' = Launched /\ Held' = Held
    BY DEF Launched, Held, on_load_cluster_success
  <2>4. Unasked' = Unasked
    BY <1>2, <2>1 DEF Unasked
  <2>5. Unreported' = Unreported
    BY <1>2 DEF Unreported, on_load_cluster_success
  <2>6. Mail'
    BY <1>1, <1>2, <2>1, <2>3 DEF Inv, Mail, on_load_cluster_success
  <2>7. Phases'
    BY <1>1, <1>2, <2>1, <2>3, <2>4 DEF Inv, Phases, Whole, on_load_cluster_success
  <2>8. Reports'
    BY <2>1, <2>3, <2>5 DEF Inv, Reports, on_load_cluster_success
  <2> QED BY <2>2, <2>6, <2>7, <2>8 DEF Inv, on_load_cluster_success, gov
<1> QED BY <1>5, <1>6

\* A thread asks; it still counts until its question is taken.
LEMMA DbLoadedStep == ASSUME Inv, NEW t \in Threads, on_db_loaded(t) PROVE Inv'
<1>0. \A y, b : Received(y, b)' <=> (Received(y, b) /\ ~(y = "db_loaded" /\ b = t)) \/ (y = "model_request" /\ b = t)
  BY Swapped DEF on_db_loaded
<1>1. /\ thread'[t] = "asked" /\ thread[t] = "up" /\ t # Net /\ load = "read" /\ Launched
      /\ \A x \in Threads : x # t => thread'[x] = thread[x]
      /\ Received("db_loaded", t)
  BY DEF Inv, Mail, Phases, TypeOK, on_db_loaded
<1>2. TypeOK'
  BY DEF Inv, TypeOK, on_db_loaded, net, gov
<1>3. Launched' = Launched /\ Held' = Held
  BY DEF Launched, Held, on_db_loaded, net
<1>4. Unasked' = Unasked
  BY <1>0, <1>1 DEF Unasked
<1>5. Unreported' = Unreported
  BY <1>0 DEF Unreported, on_db_loaded, net
<1>6. Mail'
  BY <1>0, <1>1, <1>3 DEF Inv, Mail, on_db_loaded, net
<1>7. Phases'
  BY <1>0, <1>1, <1>3, <1>4 DEF Inv, Phases, Whole, on_db_loaded, net
<1>8. Reports'
  BY <1>3, <1>5 DEF Inv, Reports, on_db_loaded, net
<1> QED BY <1>2, <1>6, <1>7, <1>8 DEF Inv, on_db_loaded, gov

LEMMA ModelRequestStep == ASSUME Inv, NEW t \in Threads, on_model_request(t) PROVE Inv'
<1>1. /\ Received("model_request", t) /\ load = "read" /\ thread[t] = "asked" /\ t # Net /\ Launched
      /\ \A y, b : Received(y, b)' <=> Received(y, b) /\ ~(y = "model_request" /\ b = t)
  BY TakenOut DEF on_model_request, Inv, Mail, Phases
<1>2. t \in Unasked /\ threadCounter = Cardinality(Unasked) + 1
  BY <1>1 DEF Unasked, Inv, Phases
<1>3. /\ Cardinality(Unasked) \in Nat \ {0}
      /\ Cardinality(Unasked \ {t}) = Cardinality(Unasked) - 1
      /\ Cardinality(Unasked) = 1 => Unasked = {t}
  BY <1>2, OneLess, FiniteSets
<1>4. CASE Seeds(threadCounter - 1)
  <2>1. Unasked = {t}
    BY <1>2, <1>3, <1>4 DEF Seeds
  <2>2. \A x \in Threads \ {Net} : thread[x] = "asked"
    BY <1>1, <2>1 DEF Unasked, Inv, Phases
  <2>3. \A x \in Threads : ~Received("db_loaded", x)' /\ ~Received("model_request", x)'
    BY <1>1, <2>1, <2>2 DEF Unasked, Inv, Mail
  <2>4. ~Received("load_success", "db")'
    BY <1>1 DEF Inv, Mail
  <2> QED BY <1>1, <1>4, <2>2, <2>3, <2>4, SeedStep DEF on_model_request, seed_model
<1>5. CASE ~Seeds(threadCounter - 1)
  <2>1. threadCounter' = threadCounter - 1 /\ UNCHANGED <<load, thread>>
    BY <1>5 DEF on_model_request, seed_model
  <2>2. TypeOK'
    BY <1>2, <1>3, <2>1 DEF Inv, TypeOK, on_model_request, gov
  <2>3. Launched' = Launched /\ Held' = Held
    BY DEF Launched, Held, on_model_request
  <2>4. Unasked' = Unasked \ {t}
    BY <1>1, <2>1 DEF Unasked
  <2>5. Unreported' = Unreported
    BY <1>1 DEF Unreported, on_model_request
  <2>6. Mail'
    BY <1>1, <2>1, <2>3 DEF Inv, Mail, on_model_request
  <2>7. threadCounter' = Cardinality(Unasked') + 1
    BY <1>2, <1>3, <2>1, <2>4
  <2>8. Phases'
    BY <1>1, <2>1, <2>3, <2>7 DEF Inv, Phases, Whole, on_model_request
  <2>9. Reports'
    BY <2>1, <2>3, <2>5 DEF Inv, Reports, on_model_request
  <2> QED BY <2>2, <2>6, <2>8, <2>9 DEF Inv, on_model_request, gov
<1> QED BY <1>4, <1>5

----------------------------------------------------------------------------
\* A part of the load diff, or its commit.  A thread that commits reports, unless
\* the system goes down; then nobody waits for it.
LEMMA ApplicationStep == ASSUME Inv, NEW t \in Threads, Application(t) PROVE Inv'
<1>1. thread[t] = "loading" /\ load = "seeded" /\ Launched /\ ~Received("ready", Net) /\ ready = 0
  BY DEF Application, Inv, Phases, Whole, TypeOK
<1>2. Launched' = Launched /\ Held' = Held
  BY DEF Launched, Held, Application, net
<1>3. CASE part[t] < Chunks /\ ~down
  <2>1. part' = [part EXCEPT ![t] = @ + 1] /\ UNCHANGED <<thread, inbox>>
    BY <1>3 DEF Application
  <2>2. TypeOK'
    <3>1. part[t] + 1 \in 0 .. Chunks
      BY <1>3, StartupAssumption DEF Inv, TypeOK
    <3> QED BY <2>1, <3>1 DEF Inv, TypeOK, Application, net, gov
  <2>3. \A y, b : Received(y, b)' <=> Received(y, b)
    BY <2>1 DEF Received
  <2>4. Unready' = Unready /\ Unreported' = Unreported
    BY <2>1, <2>3 DEF Unready, Unreported, Application, net
  <2>5. \A x \in Threads : x # t => part'[x] = part[x]
    BY <2>1 DEF Inv, TypeOK
  <2>6. Mail'
    BY <1>2, <2>1, <2>3 DEF Inv, Mail, Application, net
  <2>7. Phases'
    BY <1>1, <1>2, <2>1, <2>3, <2>4, <2>5 DEF Inv, Phases, Application, net
  <2>8. Reports'
    BY <1>2, <2>4 DEF Inv, Reports, Application, net
  <2> QED BY <2>2, <2>6, <2>7, <2>8 DEF Inv, Application, gov
<1>4. CASE ~(part[t] < Chunks /\ ~down)
  <2>1. /\ thread' = [thread EXCEPT ![t] = "loaded"] /\ UNCHANGED part
        /\ inbox' = IF down THEN inbox ELSE inbox \cup {Msg("thread_ready", t)}
    BY <1>4 DEF Application
  <2>2. TypeOK'
    BY <2>1 DEF Inv, TypeOK, Application, net, gov
  <2>3. \A y, b : Received(y, b)' <=> Received(y, b) \/ (y = "thread_ready" /\ b = t /\ ~down)
    <3>1. CASE down
      BY <2>1, <3>1 DEF Received
    <3>2. CASE ~down
      BY <2>1, <3>2, Sent
    <3> QED BY <3>1, <3>2
  <2>4. thread'[t] = "loaded" /\ \A x \in Threads : x # t => thread'[x] = thread[x]
    BY <2>1 DEF Inv, TypeOK
  <2>5. Unreported' = Unreported
    BY <2>3 DEF Unreported, Application, net
  <2>6. Cardinality(Unready') <= Cardinality(Unready)
    <3>1. Unready' \in SUBSET Unready
      BY <1>1, <2>3, <2>4 DEF Unready
    <3> QED BY <3>1, FiniteSets, FS_Subset
  <2>7. ~down => part[t] = Chunks
    BY <1>4, StartupAssumption DEF Inv, TypeOK
  <2>8. Mail'
    BY <1>1, <1>2, <2>3, <2>4 DEF Inv, Mail, Application, net
  <2>9. Phases'
    <3>1. threadCounter' >= Cardinality(Unready')
      <4>1. threadCounter >= Cardinality(Unready) /\ threadCounter \in Nat /\ threadCounter' = threadCounter
        BY <1>1 DEF Inv, Phases, TypeOK, Application, net
      <4>2. Cardinality(Unready') \in Nat
        BY FS_Subset, FS_CardinalityType, StartupAssumption DEF Unready
      <4> QED BY <2>6, <4>1, <4>2, FiniteSets
    <3>2. Phases /\ UNCHANGED <<load, ready, down, threadCounter>>
      BY DEF Inv, Application, net
    <3>3. load' = "seeded" /\ Launched'
      BY <1>1, <1>2, <3>2
    <3>4. \A x \in Threads : thread'[x] \in {"loading", "loaded"}
      BY <1>1, <2>4, <3>2 DEF Phases
    <3>5. ~down' => \A x \in Threads : thread'[x] = "loaded" => part'[x] = Chunks
      BY <2>1, <2>4, <2>7, <3>2 DEF Phases
    <3>6. Received("ready", Net)' => Received("ready", Net)
      BY <2>3
    <3>7. ~Received("ready", Net) /\ ready # 1
      BY <1>1, <3>2 DEF Phases, Whole
    <3>8. ~Received("ready", Net)' /\ ready' # 1
      BY <3>2, <3>6, <3>7
    <3> QED BY <3>1, <3>3, <3>4, <3>5, <3>8 DEF Phases
  <2>10. Reports'
    BY <1>2, <2>5 DEF Inv, Reports, Application, net
  <2> QED BY <2>2, <2>8, <2>9, <2>10 DEF Inv, Application, gov
<1> QED BY <1>3, <1>4

\* A thread has loaded the model.  With the last report every thread has.
LEMMA ThreadReadyStep == ASSUME Inv, NEW t \in Threads, on_thread_ready(t) PROVE Inv'
<1>1. Received("thread_ready", t) /\ thread[t] = "loaded" /\ load = "seeded" /\ Launched
  BY DEF on_thread_ready, Inv, Mail, Phases
<1>2. \A y, b : Received(y, b)' <=> (Received(y, b) /\ ~(y = "thread_ready" /\ b = t))
                                \/ (y = "ready" /\ b = Net /\ threadCounter = 1 /\ ~down)
  <2>1. CASE threadCounter = 1 /\ ~down
    <3>1. inbox' = (inbox \ {Msg("thread_ready", t)}) \cup {Msg("ready", Net)}
      BY <2>1 DEF on_thread_ready
    <3> QED BY <2>1, <3>1, Swapped
  <2>2. CASE ~(threadCounter = 1 /\ ~down)
    <3>1. inbox' = inbox \ {Msg("thread_ready", t)}
      BY <2>2 DEF on_thread_ready
    <3> QED BY <2>2, <3>1, MsgDiffers DEF Received
  <2> QED BY <2>1, <2>2
<1>3. t \in Unready /\ threadCounter >= Cardinality(Unready) /\ threadCounter \in Nat
  BY <1>1 DEF Unready, Inv, Phases, TypeOK
<1>4. /\ Cardinality(Unready) \in Nat \ {0}
      /\ Cardinality(Unready \ {t}) = Cardinality(Unready) - 1
      /\ Cardinality(Unready) = 1 => Unready = {t}
  BY <1>3, OneLess, FiniteSets
<1>5. threadCounter # 0 /\ ready = 0 /\ ~Received("ready", Net)
  BY <1>3, <1>4 DEF Inv, Phases, TypeOK
<1>6. threadCounter' = threadCounter - 1
  BY DEF on_thread_ready
<1>7. TypeOK'
  BY <1>3, <1>5, <1>6 DEF Inv, TypeOK, on_thread_ready, gov
<1>8. Launched' = Launched /\ Held' = Held
  BY DEF Launched, Held, on_thread_ready
<1>9. Unreported' = Unreported
  BY <1>2 DEF Unreported, on_thread_ready
<1>10. Mail'
  BY <1>2, <1>8 DEF Inv, Mail, on_thread_ready
<1>11. threadCounter' >= Cardinality(Unready')
  <2>1. Unready' = Unready \ {t}
    BY <1>1, <1>2 DEF Unready, on_thread_ready
  <2> QED BY <1>3, <1>4, <1>6, <2>1
<1>12. ASSUME threadCounter = 1, ~down PROVE Whole
  <2>1. Unready = {t}
    BY <1>3, <1>4, <1>12
  <2>2. \A x \in Threads : thread[x] = "loaded"
    BY <1>1, <2>1 DEF Unready, Inv, Phases
  <2> QED BY <2>2, <1>12 DEF Whole, Inv, Phases
<1>13. Phases'
  <2>1. Phases /\ UNCHANGED <<load, ready, down, thread, part>>
    BY DEF Inv, on_thread_ready
  <2>2. load' = "seeded" /\ Launched' /\ ready' = 0
    BY <1>1, <1>5, <1>8, <2>1
  <2>3. \A x \in Threads : thread'[x] \in {"loading", "loaded"}
    BY <1>1, <2>1 DEF Phases
  <2>4. ~down' => \A x \in Threads : thread'[x] = "loaded" => part'[x] = Chunks
    BY <2>1 DEF Phases
  <2>5. Received("ready", Net)' => threadCounter = 1 /\ ~down
    BY <1>2, <1>5
  <2>6. Received("ready", Net)' => Whole' /\ threadCounter' = 0
    BY <1>6, <1>12, <2>1, <2>5 DEF Whole
  <2> QED BY <1>11, <2>2, <2>3, <2>4, <2>6 DEF Phases
<1>14. Reports'
  BY <1>8, <1>9 DEF Inv, Reports, on_thread_ready
<1> QED BY <1>7, <1>10, <1>13, <1>14 DEF Inv, on_thread_ready, gov

\* ready_t: the actors made last take over from the one that was held back.
LEMMA ReadyStep == ASSUME Inv, on_ready PROVE Inv'
<1>1. /\ Received("ready", Net) /\ ready = 0 /\ load = "seeded" /\ Launched /\ localReady = 0
      /\ \A y, b : Received(y, b)' <=> Received(y, b) /\ ~(y = "ready" /\ b = Net)
  BY TakenOut DEF on_ready, Inv, Phases, Reports
<1>2. /\ ready' = 1 /\ localCounter' = localCounter + Cardinality(Late) - 1
      /\ actor' = [a \in Actors |-> IF a \in Late THEN "starting" ELSE actor[a]]
      /\ UNCHANGED <<threadCounter, localReady, thread, load, part, down>>
  BY <1>1 DEF on_ready, Guard
<1>3. Launched' /\ Held = 1 /\ Held' = 0
  BY <1>1, <1>2, Finite, StartupAssumption DEF Launched, Held, Early
<1>4. Unreported' = Unreported \cup Late /\ Unreported \cap Late = {}
  BY <1>1, <1>2 DEF Unreported, Actors, Inv, Reports, Mail
<1>5. Cardinality(Unreported \cup Late) = Cardinality(Unreported) + Cardinality(Late)
  <2>1. Cardinality(Unreported \cup Late) =
          Cardinality(Unreported) + Cardinality(Late) - Cardinality(Unreported \cap Late)
    BY FiniteSets, Finite, FS_Union
  <2>2. Cardinality(Unreported \cap Late) = 0
    BY <1>4, FS_EmptySet
  <2> QED BY <2>1, <2>2, FiniteSets, Finite
<1>6. localCounter' = Cardinality(Unreported)' + Held' /\ localCounter' \in Nat
  BY <1>2, <1>3, <1>4, <1>5, FiniteSets, Finite DEF Inv, Reports
<1>7. TypeOK'
  BY <1>2, <1>6 DEF Inv, TypeOK, on_ready, gov
<1>8. Unready' = Unready
  BY <1>1, <1>2 DEF Unready
<1>9. Mail'
  <2>1. \A a \in Actors : Received("local_up", a) => actor'[a] = "started"
    BY <1>1, <1>2 DEF Inv, Mail, Reports
  <2> QED BY <1>1, <1>2, <2>1 DEF Inv, Mail
<1>10. Phases'
  BY <1>1, <1>2, <1>3, <1>8 DEF Inv, Phases, Whole
<1>11. Reports'
  <2>1. \A a \in Actors : actor'[a] # "absent"
    BY <1>1, <1>2 DEF Inv, Reports, Actors
  <2>2. Outside \subseteq Actors /\ Early \subseteq Actors
    BY DEF Actors
  <2> QED BY <1>1, <1>2, <1>3, <1>6, <2>1, <2>2 DEF Inv, Reports
<1> QED BY <1>7, <1>9, <1>10, <1>11 DEF Inv, on_ready, gov

\* An actor's report.  The counter gets to zero only after ready_t: before the
\* launch the file actor has not started, and afterwards one is held back.
LEMMA LocalUpStep == ASSUME Inv, NEW a \in Actors, on_local_up(a) PROVE Inv'
<1>1. Received("local_up", a) /\ actor[a] = "started"
  BY DEF on_local_up, Inv, Mail
<1>2. a \in Unreported /\ localCounter = Cardinality(Unreported) + Held /\ Held \in {0, 1}
  BY <1>1 DEF Unreported, Inv, Reports, Held
<1>3. /\ Cardinality(Unreported) \in Nat \ {0}
      /\ Cardinality(Unreported \ {a}) = Cardinality(Unreported) - 1
      /\ Cardinality(Unreported) = 1 => Unreported = {a}
  BY <1>2, OneLess, FiniteSets
<1>4. localReady = 0
  BY <1>2, <1>3 DEF Inv, Reports
<1>5. localCounter = 1 => ready = 1
  <2>1. SUFFICES ASSUME localCounter = 1 PROVE ready = 1
    OBVIOUS
  <2>2. Unreported = {a} /\ Held = 0
    BY <1>2, <1>3, <2>1
  <2>3. Launched
    <3>1. SUFFICES ASSUME ~Launched PROVE FALSE
      OBVIOUS
    <3>2. actor["fs"] = "starting"
      BY <3>1 DEF Inv, Reports
    <3>3. "fs" \in Unreported
      BY <3>2, Finite DEF Unreported
    <3> QED BY <1>1, <2>2, <3>2, <3>3
  <2> QED BY <2>2, <2>3 DEF Held, Inv, TypeOK
<1>6. \A y \in Counted \cup {"load_success"} : \A b : Received(y, b)' <=> Received(y, b) /\ ~(y = "local_up" /\ b = a)
  <2>1. CASE localCounter = 1
    BY <2>1, Swapped DEF on_local_up, Counted
  <2>2. CASE localCounter # 1
    BY <2>2, TakenOut DEF on_local_up
  <2> QED BY <2>1, <2>2
<1>7. Unreported' = Unreported \ {a}
  BY <1>1, <1>6 DEF Counted, Unreported, on_local_up
<1>8. localCounter' = localCounter - 1 /\ localCounter' = Cardinality(Unreported') + Held
  BY <1>2, <1>3, <1>7 DEF on_local_up
<1>9. localCounter' \in Nat /\ (localReady' = 0 \/ (localReady' = 1 /\ localCounter' = 0 /\ ready = 1))
  BY <1>2, <1>3, <1>4, <1>5, <1>8 DEF on_local_up
<1>10. TypeOK'
  BY <1>9 DEF Inv, TypeOK, on_local_up, gov
<1>11. Launched' = Launched /\ Held' = Held
  BY DEF Launched, Held, on_local_up
<1>12. Upcoming' = Upcoming /\ Unasked' = Unasked /\ Unready' = Unready
  BY <1>6 DEF Counted, Upcoming, Unasked, Unready, on_local_up
<1>13. Mail'
  BY <1>6, <1>11 DEF Counted, Inv, Mail, on_local_up
<1>14. Phases'
  BY <1>6, <1>11, <1>12 DEF Counted, Inv, Phases, Whole, on_local_up
<1>15. Reports'
  BY <1>8, <1>9, <1>11 DEF Inv, Reports, on_local_up
<1> QED BY <1>10, <1>13, <1>14, <1>15 DEF Inv, on_local_up, gov

----------------------------------------------------------------------------
\* governor_actor_t::process waits only for a command that is in the list.
LEMMA ProcessTyped ==
    ASSUME NEW s \in Seq(Kinds), process(s), deadline \in {"off", "on", "over"}
    PROVE  /\ commands' \in Seq(Kinds) /\ waiting' \in BOOLEAN /\ deadline' \in {"off", "on", "over"}
           /\ waiting' => commands' # <<>>
<1>1. waiting' \in BOOLEAN /\ deadline' \in {"off", "on", "over"}
  BY DEF process
<1>2. CASE First(s) = {}
  BY <1>1, <1>2 DEF process
<1>3. CASE First(s) # {}
  <2> DEFINE i == CHOOSE i \in First(s) : TRUE
  <2>1. i \in 1 .. Len(s)
    BY <1>3 DEF First
  <2>2. commands' = SubSeq(s, i, Len(s))
    BY <1>3 DEF process
  <2> HIDE DEF i
  <2>3. commands' \in Seq(Kinds) /\ Len(commands') = Len(s) - i + 1
    <3>1. Len(s) \in Nat /\ i \in Nat /\ i >= 1 /\ i <= Len(s)
      BY <2>1
    <3> QED BY <2>2, <3>1
  <2>4. Len(commands') # 0
    BY <2>1, <2>3
  <2> QED BY <1>1, <2>3, <2>4
<1> QED BY <1>2, <1>3

\* The steps of the governor, the timer and the shutdown.
LEMMA OtherSteps ==
    ASSUME Inv, on_load_cluster_fail \/ on_commit \/ on_local_ready \/ on_command \/ DeadlineOver
                \/ refresh_deadline \/ on_inactivity_timer \/ Shutdown \/ UNCHANGED vars
    PROVE  Inv'
<1>1. UNCHANGED <<net, thread, load, part>> /\ (down => down')
  BY DEF on_load_cluster_fail, on_commit, on_local_ready, on_command, DeadlineOver,
         refresh_deadline, on_inactivity_timer, Shutdown, vars, net
<1>2. \A y \in Counted \cup {"load_success"} : \A b : Received(y, b)' <=> Received(y, b)
  <2>1. CASE on_load_cluster_fail
    BY <2>1, TakenOut DEF on_load_cluster_fail, Counted
  <2>2. CASE on_local_ready
    BY <2>2, TakenOut DEF on_local_ready, Counted
  <2>3. CASE UNCHANGED inbox
    BY <2>3 DEF Received
  <2> QED BY <2>1, <2>2, <2>3 DEF on_commit, on_command, DeadlineOver,
         refresh_deadline, on_inactivity_timer, Shutdown, vars
<1>3. TypeOK' /\ (waiting' => commands' # <<>>)
  <2>1. CASE on_local_ready \/ on_command
    <3>0. commands \in Seq(Kinds) /\ (commands # <<>> => Tail(commands) \in Seq(Kinds))
      BY DEF Inv, TypeOK
    <3>1. \E s \in Seq(Kinds) : process(s)
      BY <2>1, <3>0 DEF on_local_ready, on_command, Inv
    <3>2. /\ commands' \in Seq(Kinds) /\ waiting' \in BOOLEAN /\ deadline' \in {"off", "on", "over"}
          /\ waiting' => commands' # <<>>
      BY <3>1, ProcessTyped DEF Inv, TypeOK
    <3>3. UNCHANGED <<net, thread, load, chunk, part, txn, down>>
      BY <2>1 DEF on_local_ready, on_command, net
    <3> QED BY <3>2, <3>3 DEF Inv, TypeOK, net
  <2>2. CASE ~(on_local_ready \/ on_command)
    <3>1. /\ UNCHANGED <<net, thread, load, chunk, part, commands, waiting>>
          /\ txn' \in {txn, "closed"} /\ deadline' \in {deadline, "off", "on", "over"} /\ down' \in {down, TRUE}
      BY <2>2 DEF on_load_cluster_fail, on_commit, DeadlineOver, refresh_deadline,
           on_inactivity_timer, Shutdown, vars, net, gov
    <3> QED BY <3>1 DEF net, Inv, TypeOK
  <2> QED BY <2>1, <2>2
<1> QED BY <1>1, <1>2, <1>3, QuietStep

\* Every step keeps the invariant.
LEMMA NextInv == Inv /\ [Next]_vars => Inv'
<1> SUFFICES ASSUME Inv, [Next]_vars PROVE Inv'
  OBVIOUS
<1>1. ASSUME NEW t \in Threads, on_thread_up(t) PROVE Inv'
  BY <1>1, ThreadUpCounted, LaunchStep
<1>2. ASSUME NEW t \in Threads, on_model_request(t) \/ on_thread_ready(t) PROVE Inv'
  BY <1>2, ModelRequestStep, ThreadReadyStep
<1>3. ASSUME NEW t \in Threads, ThreadUp(t) \/ on_db_loaded(t) \/ Application(t) PROVE Inv'
  BY <1>3, ThreadUpStep, DbLoadedStep, ApplicationStep
<1>4. ASSUME NEW a \in Actors, ActorUp(a) \/ on_local_up(a) PROVE Inv'
  BY <1>4, ActorUpStep, LocalUpStep
<1>5. CASE DbTrigger \/ PartialLoad \/ on_load_cluster_success \/ on_ready
  BY <1>5, DbTriggerStep, PartialLoadStep, LoadSuccessStep, ReadyStep
<1>6. CASE on_load_cluster_fail \/ on_commit \/ on_local_ready \/ on_command \/ DeadlineOver
           \/ refresh_deadline \/ on_inactivity_timer \/ Shutdown \/ UNCHANGED vars
  BY <1>6, OtherSteps
<1> QED BY <1>1, <1>2, <1>3, <1>4, <1>5, <1>6 DEF Next, System, Coordinator

\* The invariant is one.
THEOREM Invariant == Spec => []Inv
  BY InitInv, NextInv, PTL DEF Spec

\* net_supervisor_t::on_local_up: local_ready_t is sent once, after every actor has
\* started and every thread has the whole model; no actor of on_ready is made before.
THEOREM ReadyInOrder == Spec => []LocalReadyLast
<1>1. Inv => LocalReadyLast
  <2>1. SUFFICES ASSUME Inv PROVE LocalReadyLast
    OBVIOUS
  <2>2. localReady = 0 \/ (localReady = 1 /\ localCounter = 0 /\ ready = 1)
    BY <2>1 DEF Inv, Reports
  <2>3. ready = 1 => Whole
    BY <2>1 DEF Inv, Phases
  <2>4. ASSUME localReady = 1 PROVE \A a \in Actors : actor[a] = "started"
    <3>1. Cardinality(Unreported) = 0 /\ \A a \in Actors : actor[a] # "absent"
      BY <2>1, <2>2, <2>4, FiniteSets DEF Inv, Reports, Held
    <3>2. Unreported = {}
      BY <3>1, FiniteSets, FS_EmptySet
    <3> QED BY <2>1, <3>1, <3>2 DEF Unreported, Inv, TypeOK
  <2> QED BY <2>2, <2>3, <2>4 DEF LocalReadyLast, Whole
<1> QED BY Invariant, <1>1, PTL

\* net_supervisor_t::on_model_request finds the load diff, and seed_model leaves no
\* thread out of it.
THEOREM SeedsEverybody == Spec => []SeededWhole
<1>1. Inv => SeededWhole
  BY DEF Inv, Mail, Phases, SeededWhole
<1> QED BY Invariant, <1>1, PTL
============================================================================
