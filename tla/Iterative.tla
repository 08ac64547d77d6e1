----------------------------- MODULE Iterative -----------------------------
(***************************************************************************)
(* iterative_controller_base_t: how a thread that has a copy of the model  *)
(* (net supervisor, fltk application supervisor) applies the updates the   *)
(* coordinator receives.  A long diff has interrupt_t parts in it.  At an  *)
(* interrupt the rest of the diff is sent to the thread itself through the *)
(* bouncer, so that other messages get their turn; updates that come in    *)
(* the meantime are delayed.                                               *)
(*                                                                         *)
(* Update 1 is the load diff, whose last part is load::commit_t.           *)
(***************************************************************************)
EXTENDS Integers, Sequences

CONSTANTS Threads,
          Parts(_),     \* the parts of an update, an interrupt between any two
          MaxUpdates    \* updates in a behaviour

ASSUME PartsAssumption == MaxUpdates \in Nat /\ \A u \in 0 .. MaxUpdates : Parts(u) \in Nat \ {0}

None == [u |-> 0, k |-> 0]

VARIABLES sent,         \* updates the coordinator received
          inbox,        \* inbox[t]: updates on their way to thread t
          delayed,      \* delayed_updates
          interrupted,  \* the flag
          resume,       \* the rest of an interrupted diff, with the bouncer or behind it
          draining,     \* on_model_interrupt is in its loop over delayed_updates
          stopping,     \* the actor left r::state_t::OPERATIONAL
          failed,       \* threads in which an application failed
          last,         \* the part applied last
          committed     \* threads that put the commit message of the load

vars == <<sent, inbox, delayed, interrupted, resume, draining, stopping, failed, last, committed>>

Init ==
    /\ sent = 0
    /\ inbox = [t \in Threads |-> <<>>]
    /\ delayed = [t \in Threads |-> <<>>]
    /\ interrupted = [t \in Threads |-> FALSE]
    /\ resume = [t \in Threads |-> None]
    /\ draining = [t \in Threads |-> FALSE]
    /\ stopping = {}
    /\ failed = {}
    /\ last = [t \in Threads |-> [u |-> 0, k |-> Parts(0)]]
    /\ committed = {}

\* A model_update_t at the coordinator, where every thread is subscribed.
Send ==
    /\ sent < MaxUpdates
    /\ sent' = sent + 1
    /\ inbox' = [t \in Threads |-> Append(inbox[t], sent + 1)]
    /\ UNCHANGED <<delayed, interrupted, resume, draining, stopping, failed, last, committed>>

----------------------------------------------------------------------------
\* process_impl: once the actor is shutting down the load is not continued
\* and only its commit is applied.
Target(t, u, k) == IF t \in stopping /\ u = 1 THEN Parts(1) ELSE k

\* The part is applied.  apply(interrupt_t) leaves the rest of the diff in
\* the context, and the rest is sent through the bouncer.
Apply(t, u, k) ==
    LET p == Target(t, u, k)
    IN  /\ last' = [last EXCEPT ![t] = [u |-> u, k |-> p]]
        /\ interrupted' = [interrupted EXCEPT ![t] = p < Parts(u)]
        /\ resume' = [resume EXCEPT ![t] = IF p < Parts(u) THEN [u |-> u, k |-> p + 1] ELSE None]
        /\ committed' = IF u = 1 /\ p = Parts(1) THEN committed \cup {t} ELSE committed
        /\ UNCHANGED <<stopping, failed>>

\* The application fails: do_shutdown, and neither the subscribers nor the
\* interrupted flag are touched.
Fail(t) ==
    /\ failed' = failed \cup {t}
    /\ stopping' = stopping \cup {t}
    /\ resume' = [resume EXCEPT ![t] = None]
    /\ UNCHANGED <<last, interrupted, committed>>

Process(t, u, k) == Apply(t, u, k) \/ Fail(t)

\* mutant: an update that comes while the thread is interrupted is dropped
UpdateDropped(t) ==
    /\ inbox[t] # <<>> /\ ~draining[t]
    /\ inbox' = [inbox EXCEPT ![t] = Tail(@)]
    /\ IF interrupted[t] THEN UNCHANGED <<interrupted, resume, stopping, failed, last, committed>>
       ELSE Process(t, Head(inbox[t]), 1)
    /\ UNCHANGED <<sent, draining, delayed>>
\* on_model_update.
Update(t) ==
    /\ inbox[t] # <<>> /\ ~draining[t]
    /\ inbox' = [inbox EXCEPT ![t] = Tail(@)]
    /\ IF interrupted[t]
       THEN /\ delayed' = [delayed EXCEPT ![t] = Append(@, Head(inbox[t]))]
            /\ UNCHANGED <<interrupted, resume, stopping, failed, last, committed>>
       ELSE Process(t, Head(inbox[t]), 1) /\ UNCHANGED delayed
    /\ UNCHANGED <<sent, draining>>

\* on_model_interrupt, up to its loop.
Interrupt(t) ==
    /\ resume[t] # None /\ ~draining[t]
    /\ Process(t, resume[t].u, resume[t].k)
    /\ draining' = [draining EXCEPT ![t] = TRUE]
    /\ UNCHANGED <<sent, inbox, delayed>>

\* mutant: the loop does not stop at another interrupt
DelayedUpdateOn(t) ==
    /\ draining[t] /\ delayed[t] # <<>>
    /\ Process(t, Head(delayed[t]), 1)
    /\ delayed' = [delayed EXCEPT ![t] = Tail(@)]
    /\ UNCHANGED <<sent, inbox, draining>>
\* A round of the loop, which belongs to the same handler.
DelayedUpdate(t) ==
    /\ draining[t] /\ ~interrupted[t] /\ delayed[t] # <<>>
    /\ Process(t, Head(delayed[t]), 1)
    /\ delayed' = [delayed EXCEPT ![t] = Tail(@)]
    /\ UNCHANGED <<sent, inbox, draining>>

\* mutants: the loop is left at any time; only an interrupt ends it
LoopEndEarly(t) ==
    /\ draining[t] /\ draining' = [draining EXCEPT ![t] = FALSE]
    /\ UNCHANGED <<sent, inbox, delayed, interrupted, resume, stopping, failed, last, committed>>
LoopEndNever(t) ==
    /\ draining[t] /\ interrupted[t] /\ draining' = [draining EXCEPT ![t] = FALSE]
    /\ UNCHANGED <<sent, inbox, delayed, interrupted, resume, stopping, failed, last, committed>>
LoopEnd(t) ==
    /\ draining[t] /\ (interrupted[t] \/ delayed[t] = <<>>)
    /\ draining' = [draining EXCEPT ![t] = FALSE]
    /\ UNCHANGED <<sent, inbox, delayed, interrupted, resume, stopping, failed, last, committed>>

\* The actor is told to shut down; the interrupt resource it holds keeps it
\* from finishing while the rest of a diff is with the bouncer.
Shutdown(t) ==
    /\ t \notin stopping
    /\ stopping' = stopping \cup {t}
    /\ UNCHANGED <<sent, inbox, delayed, interrupted, resume, draining, failed, last, committed>>

Handler(t) == Update(t) \/ Interrupt(t) \/ DelayedUpdate(t) \/ LoopEnd(t)
Next == Send \/ \E t \in Threads : Handler(t) \/ Shutdown(t)

\* The actor's thread keeps running its queue.
Spec == Init /\ [][Next]_vars /\ \A t \in Threads : WF_vars(Handler(t))

----------------------------------------------------------------------------
Part == [u : Nat, k : Nat]
TypeOK ==
    /\ sent \in Nat
    /\ inbox \in [Threads -> Seq(Nat)] /\ delayed \in [Threads -> Seq(Nat)]
    /\ interrupted \in [Threads -> BOOLEAN] /\ draining \in [Threads -> BOOLEAN]
    /\ resume \in [Threads -> Part] /\ last \in [Threads -> Part]
    /\ stopping \subseteq Threads /\ failed \subseteq stopping /\ committed \subseteq Threads

\* The updates that wait in a thread are the ones after the current one, all
\* of them, in the order they were sent: those delayed come first.
Waiting(t) == delayed[t] \o inbox[t]
NothingLost ==
    \A t \in Threads \ failed :
        /\ Len(Waiting(t)) = sent - last[t].u
        /\ \A i \in 1 .. Len(Waiting(t)) : Waiting(t)[i] = last[t].u + i

\* A thread is interrupted exactly while the rest of its diff is under way,
\* and updates are delayed only then: no update overtakes the rest of a diff.
InterruptedMatches ==
    \A t \in Threads \ failed :
        /\ interrupted[t] <=> resume[t] # None
        /\ interrupted[t] => resume[t] = [u |-> last[t].u, k |-> last[t].k + 1]
        /\ ~interrupted[t] => last[t].k = Parts(last[t].u)
        /\ delayed[t] # <<>> => interrupted[t] \/ draining[t]

\* The threads apply the updates as the queue they stand for.
Queue == INSTANCE UpdateQueue WITH gaveUp <- stopping
Refines == Queue!Spec

\* Every update is applied to its end in every thread that keeps running,
\* and the read transaction of the load is always released, unless the load
\* itself fails.
AllApplied ==
    \A t \in Threads :
        /\ \A u \in 1 .. MaxUpdates :
             sent >= u ~> \/ last[t].u > u \/ last[t] = [u |-> u, k |-> Parts(u)]
                          \/ t \in stopping
        /\ sent >= 1 ~> t \in committed \/ t \in failed
=============================================================================
