---------------------------- MODULE UpdateQueue ----------------------------
(***************************************************************************)
(* What the iterative application of diffs promises to the users of the    *)
(* model: every thread applies the same updates in the order they were     *)
(* sent, each of them part by part, and never goes back.  Only a thread    *)
(* that gave up (an application failed, or the thread is shutting down)    *)
(* may leave parts out.                                                    *)
(***************************************************************************)
EXTENDS Integers

CONSTANTS Threads, Parts(_)   \* Parts(u): the parts of update u

VARIABLES sent,     \* updates sent so far, they are numbered 1, 2, ...
          last,     \* last[t] = [u, k]: thread t applied part k of update u last
          gaveUp    \* threads that may leave parts out

vars == <<sent, last, gaveUp>>

Before(a, b) == a.u < b.u \/ (a.u = b.u /\ a.k < b.k)
Following(a, b) == \/ a.k < Parts(a.u) /\ b = [u |-> a.u, k |-> a.k + 1]
                   \/ a.k = Parts(a.u) /\ b = [u |-> a.u + 1, k |-> 1]

Init ==
    /\ sent = 0
    /\ last = [t \in Threads |-> [u |-> 0, k |-> Parts(0)]]
    /\ gaveUp = {}

Send == sent' = sent + 1 /\ UNCHANGED <<last, gaveUp>>

\* One part is applied: the next one, or a later one after giving up.
ApplyPart(t) ==
    /\ \E u \in 1 .. sent : \E k \in 1 .. Parts(u) :
        LET p == [u |-> u, k |-> k]
        IN  /\ IF t \in gaveUp THEN Before(last[t], p) ELSE Following(last[t], p)
            /\ last' = [last EXCEPT ![t] = p]
    /\ UNCHANGED <<sent, gaveUp>>

GiveUp(t) == gaveUp' = gaveUp \cup {t} /\ UNCHANGED <<sent, last>>

Next == Send \/ \E t \in Threads : ApplyPart(t) \/ GiveUp(t)

Spec == Init /\ [][Next]_vars
=============================================================================
