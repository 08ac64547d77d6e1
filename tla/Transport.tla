----------------------------- MODULE Transport ------------------------------
(***************************************************************************)
(* A transport (transport::impl, tcp or ssl): the operations of an actor   *)
(* run in the operating system (boost asio, external), their completion is *)
(* posted to the strand of the supervisor, and only there it reaches the   *)
(* actor.  A cancel is passed on at most once until an aborted operation   *)
(* is delivered (base_impl_t::cancelling).                                 *)
(***************************************************************************)
EXTENDS Naturals, FiniteSets

CONSTANTS Kinds,                \* subset of {"tcp", "ssl"}
          MaxStarts             \* bound on operations

ASSUME StartsAssumption == MaxStarts \in Nat

Ops == {"connect", "handshake", "read", "write"}

VARIABLES kind,                 \* tcp_socket_t or ssl_socket_t
          op,                   \* op[o]: idle, running, or the posted result
          cancelling,           \* base_impl_t::cancelling
          wanted,               \* operations the actor asked to cancel (history)
          stage,                \* what the actor may start
          vain,                 \* a cancel found nothing to abort, an abort did not clear it,
                                \* or an operation was started meanwhile (history)
          starts

transportVars == <<kind, op, cancelling, wanted, stage, vain, starts>>

TransportInit ==
    /\ kind \in Kinds
    /\ op = [o \in Ops |-> "idle"] /\ cancelling = FALSE /\ wanted = {}
    /\ stage = "new" /\ vain = FALSE /\ starts = 0

Post(o, res) == op' = [op EXCEPT ![o] = res]
Start(o) ==
    /\ op[o] = "idle" /\ starts < MaxStarts
    /\ starts' = starts + 1 /\ wanted' = wanted \ {o}
    /\ vain' = (vain \/ cancelling)

async_connect ==
    /\ stage = "new" /\ Start("connect") /\ Post("connect", "running")
    /\ UNCHANGED <<kind, cancelling, stage>>
\* Without TLS there is nothing to wait for: the endpoint is looked up at once.
async_handshake ==
    /\ stage = "connected" /\ Start("handshake")
    /\ IF kind = "ssl" THEN Post("handshake", "running") ELSE \E r \in {"ok", "failed"} : Post("handshake", r)
    /\ UNCHANGED <<kind, cancelling, stage>>
async_recv ==
    /\ stage = "open" /\ Start("read") /\ Post("read", "running")
    /\ UNCHANGED <<kind, cancelling, stage>>
async_send ==
    /\ stage = "open" /\ Start("write") /\ Post("write", "running")
    /\ UNCHANGED <<kind, cancelling, stage>>

\* The operating system completes an operation; the result is posted.
Complete(o) ==
    /\ op[o] = "running"
    /\ \E r \in {"ok", "failed"} : Post(o, r)
    /\ UNCHANGED <<kind, cancelling, wanted, stage, vain, starts>>

Aborted == [o \in Ops |-> IF op[o] = "running" THEN "aborted" ELSE op[o]]
\* impl::cancel, which actors call while an operation has not been delivered.
cancel ==
    /\ \E o \in Ops : op[o] # "idle"
    /\ wanted' = {o \in Ops : op[o] # "idle"}
    /\ vain' = (vain \/ \A o \in Ops : op[o] # "running")
    /\ IF cancelling THEN UNCHANGED <<op, cancelling>> ELSE op' = Aborted /\ cancelling' = TRUE
    /\ UNCHANGED <<kind, stage, starts>>

\* error_curry_t::error and success_curry_t::success, on the strand.
After(o) == IF o = "connect" THEN "connected" ELSE "open"
\* mutant: cancelling stays
ErrorUncleared(o) ==
    /\ op[o] \in {"failed", "aborted"} /\ Post(o, "idle")
    /\ vain' = (vain \/ (op[o] = "aborted" /\ o = "handshake"))
    /\ stage' = "closed"
    /\ UNCHANGED <<kind, cancelling, wanted, starts>>
error(o) ==
    /\ op[o] \in {"failed", "aborted"} /\ Post(o, "idle")
    \* the handshake of ssl does not look at the code of the error
    /\ cancelling' = (cancelling /\ ~(op[o] = "aborted" /\ o # "handshake"))
    /\ vain' = (vain \/ (op[o] = "aborted" /\ o = "handshake"))
    /\ stage' = "closed"
    /\ UNCHANGED <<kind, wanted, starts>>
success(o) ==
    /\ op[o] = "ok" /\ Post(o, "idle")
    /\ stage' = IF stage = "closed" THEN stage ELSE After(o)
    /\ UNCHANGED <<kind, cancelling, wanted, vain, starts>>

TransportNext ==
    \/ async_connect \/ async_handshake \/ async_recv \/ async_send \/ cancel
    \/ \E o \in Ops : Complete(o) \/ error(o) \/ success(o)

TransportSpec == TransportInit /\ [][TransportNext]_transportVars

----------------------------------------------------------------------------
\* Type invariant.
TransportTypeOK ==
    /\ kind \in Kinds /\ op \in [Ops -> {"idle", "running", "ok", "failed", "aborted"}]
    /\ cancelling \in BOOLEAN /\ wanted \subseteq Ops /\ vain \in BOOLEAN
    /\ stage \in {"new", "connected", "open", "closed"} /\ starts \in 0..MaxStarts

\* An operation that the actor asked to cancel does not keep running: its result
\* is posted, so an actor that waits for its resources can shut down.
CancelWorks == ~vain => \A o \in wanted : op[o] # "running"

\* cancelling is cleared by the operation that was aborted: a later cancel is not
\* mistaken for a repeated one.
CancelCleared == ~vain /\ cancelling => \E o \in Ops : op[o] = "aborted"

\* A cancel ends what was running, and does so again the next time.
Cancels == TransportTypeOK /\ CancelWorks /\ CancelCleared
=============================================================================
