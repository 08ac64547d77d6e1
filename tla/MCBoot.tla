------------------------------- MODULE MCBoot --------------------------------
(* Starting up and working on time: Startup of the program with a user      *)
(* interface, and which folder is scanned when (Scheduler). A behaviour is  *)
(* one of Startup, while there is no folder, or one of Scheduler while      *)
(* Startup stands still, stopped before it began.                           *)
EXTENDS Startup, Scheduler, TLC

VARIABLE focus                              \* the component that runs

startup_ == vars
all == <<focus, schedulerVars, startup_>>

CommandLine == <<"change", "skip", "change", "inactivate">>
\* Directories "a", "ab" and "a/b".
Places == {"", "a", "a/b", "ab"}
IsWithin == {<<x, y>> \in Places \X Places : x = "" \/ x = y \/ <<x, y>> = <<"a", "a/b">>}
IsPrefix == IsWithin \cup {<<"a", "ab">>}

Requested == {<<"f", "a">>, <<"f", "a/b">>, <<"g", "">>}
Interval == [f \in Folders |-> IF f = "f" THEN 2 ELSE 1]
Happens == {<<"add", "g">>, <<"sync", "f">>, <<"error", "g">>, <<"remove", "g">>}

AllInit ==
    \/ focus = "scheduler" /\ SchedulerInit /\ Begun(TRUE)
    \/ focus = "startup" /\ Init /\ Loaded({})

AllNext ==
    \/ focus = "scheduler" /\ SchedulerNext /\ UNCHANGED <<focus, startup_>>
    \/ focus = "startup" /\ Next /\ UNCHANGED <<focus, schedulerVars>>

AllSpec ==
    /\ AllInit /\ [][AllNext]_all
    /\ WF_startup_(focus = "startup" /\ System)
    /\ WF_schedulerVars(focus = "scheduler" /\ scheduler_on_local_ready)
    /\ WF_schedulerVars(focus = "scheduler" /\ Apply)
    /\ WF_schedulerVars(focus = "scheduler" /\ on_timer)
    /\ WF_schedulerVars(focus = "scheduler" /\ Tick)
    /\ WF_schedulerVars(focus = "scheduler" /\ \E i \in 1 .. Len(scans) : ScanEnds(i))
==============================================================================
