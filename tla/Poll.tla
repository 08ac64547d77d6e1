-------------------------------- MODULE Poll --------------------------------
(***************************************************************************)
(* The thread of the file system actors sleeps in the kernel until there   *)
(* is something to do (fs_context_t::run).  Other threads push messages    *)
(* into its lock-free inbound queue and wake it (fs_supervisor_t::enqueue, *)
(* platform_context_t::notify): on unix by a byte in a pipe, unless        *)
(* async_flag says that there is one, on windows by an event.              *)
(*                                                                         *)
(* Every load, store, push, pop and system call is a step of its own.  The *)
(* queue is modelled by the number of messages in it.                      *)
(***************************************************************************)
EXTENDS Naturals

CONSTANTS Producers,            \* other threads
          MaxMessages           \* bound on the messages of a thread

Systems == {"unix", "windows"}

VARIABLES os, flag, pipe,       \* async_flag; bytes in the pipe, or the event
          inbound,              \* messages in the inbound queue
          queue,                \* messages in the supervisor's queue
          pc,                   \* where a producer is
          at,                   \* where the thread of the file system is
          nested,               \* it polls while it handles a message
          posted                \* messages sent by a producer

pollVars == <<os, flag, pipe, inbound, queue, pc, at, nested, posted>>

PollInit ==
    /\ os \in Systems /\ flag = FALSE /\ pipe = 0 /\ inbound = 0 /\ queue = 0
    /\ pc = [p \in Producers |-> "idle"] /\ at = "process" /\ nested = FALSE
    /\ posted = [p \in Producers |-> 0]

Goes(p, to) == pc' = [pc EXCEPT ![p] = to]

----------------------------------------------------------------------------
\* fs_supervisor_t::enqueue: inbound_queue.push, then notify
enqueue(p) ==
    /\ pc[p] = "idle" /\ posted[p] < MaxMessages
    /\ inbound' = inbound + 1 /\ posted' = [posted EXCEPT ![p] = @ + 1]
    /\ Goes(p, IF os = "unix" THEN "load" ELSE "write")
    /\ UNCHANGED <<os, flag, pipe, queue, at, nested>>

\* unix: platform_context_t::notify, three steps
load_flag(p) ==
    /\ pc[p] = "load" /\ Goes(p, IF flag THEN "idle" ELSE "store")
    /\ UNCHANGED <<os, flag, pipe, inbound, queue, at, nested, posted>>
store(p) ==
    /\ pc[p] = "store" /\ Goes(p, "write") /\ flag' = TRUE
    /\ UNCHANGED <<os, pipe, inbound, queue, at, nested, posted>>
\* the byte is written; windows: SetEvent
write(p) ==
    /\ pc[p] = "write" /\ Goes(p, "idle")
    /\ pipe' = (IF os = "unix" THEN pipe + 1 ELSE 1)
    /\ UNCHANGED <<os, flag, inbound, queue, at, nested, posted>>

notify(p) == load_flag(p) \/ store(p) \/ write(p)

----------------------------------------------------------------------------
\* fs_context_t::run: do_process handles what is in the queue; a handler may poll
\* (file_actor_t::on_io_commands calls poll_events).
do_process ==
    /\ at = "process"
    /\ \/ queue > 0 /\ queue' = queue - 1 /\ at' = "process" /\ nested' = FALSE
       \/ queue > 0 /\ queue' = queue - 1 /\ at' = "poll" /\ nested' = TRUE
       \/ queue = 0 /\ queue' = 0 /\ at' = "pop" /\ nested' = FALSE
    /\ UNCHANGED <<os, flag, pipe, inbound, pc, posted>>

\* try_pop_inbound: one message a step, until there is none
try_pop_inbound ==
    /\ at = "pop"
    /\ \/ inbound > 0 /\ inbound' = inbound - 1 /\ queue' = queue + 1 /\ at' = "pop"
       \/ inbound = 0 /\ inbound' = 0 /\ queue' = queue /\ at' = (IF queue = 0 THEN "spin" ELSE "process")
    /\ UNCHANGED <<os, flag, pipe, pc, nested, posted>>

\* the fast stage: pop again, or the time is over
spin ==
    /\ at = "spin" /\ at' \in {"pop", "poll"}
    /\ UNCHANGED <<os, flag, pipe, inbound, queue, pc, nested, posted>>

\* mutant: a single byte does not wake the thread up
PollTwo ==
    /\ at = "poll"
    /\ \/ pipe > 1 /\ at' = (IF os = "unix" THEN "drain" ELSE "process") /\ pipe' = (IF os = "unix" THEN pipe ELSE 0)
       \/ pipe <= 1 /\ nested /\ at' = "process" /\ pipe' = pipe
    /\ nested' = (at' # "process" /\ nested)
    /\ UNCHANGED <<os, flag, inbound, queue, pc, posted>>
\* backend_t::poll: a nested poll does not wait.  The time-out of the outer one is
\* left out: it would hide a lost wake-up for as long as it lasts.
poll ==
    /\ at = "poll"
    /\ \/ pipe > 0 /\ at' = (IF os = "unix" THEN "drain" ELSE "process") /\ pipe' = (IF os = "unix" THEN pipe ELSE 0)
       \/ pipe = 0 /\ nested /\ at' = "process" /\ pipe' = 0
    /\ nested' = (at' # "process" /\ nested)
    /\ UNCHANGED <<os, flag, inbound, queue, pc, posted>>

\* async_cb reads until the pipe is empty, then clears the flag.
drain ==
    /\ at = "drain"
    /\ \/ pipe > 0 /\ pipe' = pipe - 1 /\ at' = "drain"
       \/ pipe = 0 /\ pipe' = 0 /\ at' = "clear"
    /\ UNCHANGED <<os, flag, inbound, queue, pc, nested, posted>>
\* mutant: the queue is not looked at after the flag was cleared
ClearAndSpin ==
    /\ at = "clear" /\ at' = (IF nested THEN "process" ELSE "spin") /\ flag' = FALSE /\ nested' = FALSE
    /\ UNCHANGED <<os, pipe, inbound, queue, pc, posted>>
clear ==
    /\ at = "clear" /\ at' = "process" /\ flag' = FALSE /\ nested' = FALSE
    /\ UNCHANGED <<os, pipe, inbound, queue, pc, posted>>

async_cb == drain \/ clear
run == do_process \/ try_pop_inbound \/ spin \/ poll \/ async_cb

PollNext == run \/ \E p \in Producers : enqueue(p) \/ notify(p)

\* The scheduler runs every thread; the fast stage is over at some time.
Fairness == WF_pollVars(run) /\ (\A p \in Producers : WF_pollVars(notify(p))) /\ SF_pollVars(spin /\ at' = "poll")
PollSpec == PollInit /\ [][PollNext]_pollVars /\ Fairness

----------------------------------------------------------------------------
Places == {"process", "pop", "spin", "poll", "drain", "clear"}
Steps == {"idle", "load", "store", "write"}

PollTypeOK ==
    /\ os \in {"unix", "windows"} /\ flag \in BOOLEAN /\ nested \in BOOLEAN /\ at \in Places
    /\ pipe \in Nat /\ inbound \in Nat /\ queue \in Nat
    /\ pc \in [Producers -> Steps] /\ posted \in [Producers -> Nat]

\* The thread sleeps: it waits for the pipe, not as part of a handler.
Sleeping == at = "poll" /\ ~nested /\ pipe = 0

\* When the thread sleeps and a message is in its queue, the thread that sent it is
\* about to wake it up: no wake-up is lost between the check of async_flag, the
\* reading of the pipe and the clearing of the flag.
NoLostWakeup == Sleeping /\ inbound > 0 => \E p \in Producers : pc[p] # "idle"

\* The flag is never set for good: it is up with a byte in the pipe, a thread about
\* to write one, or while it is about to be cleared.
FlagBacked == flag => pipe > 0 \/ at \in {"drain", "clear"} \/ \E p \in Producers : pc[p] = "write"

\* Every message is taken from the inbound queue.
Taken == inbound > 0 ~> inbound = 0
=============================================================================
