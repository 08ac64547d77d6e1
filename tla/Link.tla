------------------------------- MODULE Link --------------------------------
(***************************************************************************)
(* One connection, from the attempt to its end: initiator_actor_t resolves,*)
(* connects and shakes hands, through a relay when the address is one, and *)
(* hands the transport over; peer_actor_t exchanges hello, forwards        *)
(* messages to the controller, and says close before it goes.              *)
(*                                                                         *)
(* An actor whose resources are held does not finish its shutdown (rotor): *)
(* res counts them.  do_shutdown only sends a message to the actor;        *)
(* messages already sent come before it ("asked"), I/O callbacks after it. *)
(***************************************************************************)
EXTENDS Naturals, Sequences

CONSTANTS Roles,       \* subset of {"active", "passive", "relay_passive"}
          UriLists,    \* address lists, "tcp", "relay" or "broken" (a relay with no device)
          MaxTx,       \* bound on transfers queued at once
          MaxRx        \* bound on messages read

ASSUME LinkAssumption ==
    /\ Roles \subseteq {"active", "passive", "relay_passive"}
    /\ UriLists \subseteq Seq({"tcp", "relay", "broken"})
    /\ MaxTx \in Nat /\ MaxRx \in Nat

VARIABLES role, linkUris, uri_idx,
          st,          \* "init", "asked", "stopping", "down" of the initiator, "none" before
          res,         \* resources held by the actor
          relaying, linked,
          session,     \* the transport is the one of a relay session
          state,       \* peer_state of the initiator is connecting
          handed,      \* peer_connected_t sent: "no", or with whom the handshake was
          peer         \* the peer actor

ivars == <<role, linkUris, uri_idx, st, res, relaying, linked, session, state, handed>>
linkVars == <<ivars, peer>>

Resources == {"initializing", "resolving", "connect", "handshake", "read", "write"}
PeerResources == {"io_read", "io_write", "ping_timer", "stats_timer", "finalization"}
Has(r) == res[r] > 0
Gone == [st |-> "none", res |-> [r \in PeerResources |-> 0], read |-> "hello", tx |-> <<>>, item |-> "none",
         io_error |-> FALSE, ping |-> FALSE, cut |-> FALSE, ctl |-> FALSE, early |-> 0, got |-> 0, rx |-> 0,
         had_reads |-> FALSE, had_writes |-> FALSE, had_ping |-> FALSE]

\* The constructor: relays are tried first, addresses of one kind in the order of
\* their text, which is any.
Sorted(us) ==
    LET D == 1 .. Len(us)
        orders == {f \in [D -> D] : \A a, b \in D : a < b => f[a] # f[b] /\ (us[f[a]] = "tcp" => us[f[b]] = "tcp")}
    IN  {[k \in D |-> us[f[k]]] : f \in orders}
LinkInit ==
    /\ role \in Roles /\ linkUris \in UNION {Sorted(us) : us \in UriLists}
    /\ uri_idx = 0 /\ st = "none" /\ res = [r \in Resources |-> 0]
    /\ relaying = FALSE /\ linked = FALSE /\ session = FALSE /\ state = FALSE
    /\ handed = "no" /\ peer = Gone

----------------------------------------------------------------------------
\* Steps of the initiator as functions on this record, for handlers call them
\* one after the other.
I == [idx |-> uri_idx, st |-> st, res |-> res, relaying |-> relaying, connected |-> linked,
      session |-> session, state |-> state]
Becomes(i) ==
    /\ uri_idx' = i.idx /\ st' = i.st /\ res' = i.res /\ relaying' = i.relaying
    /\ linked' = i.connected /\ session' = i.session /\ state' = i.state
Acquire(i, r) == [i EXCEPT !.res[r] = @ + 1]
Release(i, r) == [i EXCEPT !.res[r] = @ - 1]
do_shutdown(i) == IF i.st = "init" THEN [i EXCEPT !.st = "asked"] ELSE i
Stopping(i) == i.st \in {"stopping", "down"}

send_state(i) == [i EXCEPT !.state = TRUE]
resolve(i) == Acquire(i, "resolving")
initiate_active_tls(i) == resolve([i EXCEPT !.relaying = FALSE, !.session = FALSE])
initiate_active_relay(i) == resolve([i EXCEPT !.relaying = TRUE, !.session = FALSE])
\* The next address that can be tried; a relay without a device is skipped.
initiate_active(i) ==
    LET more == {k \in i.idx + 1 .. Len(linkUris) : linkUris[k] # "broken"}
        k == CHOOSE k \in more : \A j \in more : k <= j
        n == [i EXCEPT !.idx = k]
    IN  IF Stopping(i) THEN i
        ELSE IF more = {} THEN do_shutdown([i EXCEPT !.idx = Len(linkUris)])
        ELSE IF linkUris[k] = "tcp" THEN initiate_active_tls(n) ELSE initiate_active_relay(n)
initiate_handshake(i) == IF Stopping(i) THEN i ELSE Acquire([i EXCEPT !.connected = TRUE], "handshake")
initiate_passive(i) == initiate_handshake(i)
initiate_relay_passive(i) == resolve([i EXCEPT !.session = TRUE])
join_session(i) == IF Stopping(i) THEN i ELSE Acquire(Acquire(i, "read"), "write")
request_relay_connection(i) == IF Stopping(i) THEN i ELSE Acquire(Acquire(i, "read"), "write")

Configure ==
    /\ st = "none"
    /\ LET i == Acquire([I EXCEPT !.st = "init"], "initializing")
       IN  Becomes(IF role = "active" THEN initiate_active(send_state(i))
                   ELSE IF role = "passive" THEN initiate_passive(i) ELSE initiate_relay_passive(i))
    /\ UNCHANGED <<role, linkUris, handed, peer>>

on_resolve(ok) ==
    /\ Has("resolving")
    /\ LET i == Release(I, "resolving")
       IN  Becomes(IF Stopping(i) THEN i
                   ELSE IF ok THEN Acquire(i, "connect")
                   ELSE IF role = "active" THEN initiate_active(i) ELSE do_shutdown(i))
    /\ UNCHANGED <<role, linkUris, handed, peer>>

\* mutant: the handler returns before the resource is released
IoErrorKept(r) ==
    /\ st # "asked" /\ Has(r) /\ ~Stopping(I)
    /\ LET i == Release(I, r)
       IN  Becomes(IF ~linked /\ role = "active" THEN initiate_active(i)
                   ELSE do_shutdown([i EXCEPT !.connected = FALSE]))
    /\ UNCHANGED <<role, linkUris, handed, peer>>
\* A transport operation fails or is cancelled.
on_io_error(r) ==
    /\ st # "asked" /\ Has(r)
    /\ LET i == Release(I, r)
       IN  Becomes(IF Stopping(i) THEN i
                   ELSE IF ~linked /\ role = "active" THEN initiate_active(i)
                   ELSE do_shutdown([i EXCEPT !.connected = FALSE]))
    /\ UNCHANGED <<role, linkUris, handed, peer>>

on_connect ==
    /\ st # "asked" /\ Has("connect")
    /\ LET i == Release(I, "connect")
       IN  Becomes(IF role = "active" /\ (relaying \/ ~session) THEN initiate_handshake(i) ELSE join_session(i))
    /\ UNCHANGED <<role, linkUris, handed, peer>>

\* mutant: whose handshake it was does not matter
HandshakeAny(good) ==
    /\ st # "asked" /\ Has("handshake")
    /\ LET i == Release(I, "handshake")
           n == send_state(i)
       IN  Becomes(IF ~good THEN do_shutdown(i) ELSE IF ~Stopping(n) THEN Release(n, "initializing") ELSE n)
    /\ UNCHANGED <<role, linkUris, handed, peer>>
\* The other side of the handshake shows a certificate (good), or none of use.
\* `initializing` held no more lets the actor start.
on_handshake(good) ==
    /\ st # "asked" /\ Has("handshake")
    /\ LET i == Release(I, "handshake")
           n == send_state(i)
       IN  Becomes(IF ~good THEN do_shutdown(i)
                   ELSE IF relaying THEN request_relay_connection(n)
                   ELSE IF ~Stopping(n) THEN Release(n, "initializing") ELSE n)
    /\ UNCHANGED <<role, linkUris, handed, peer>>

on_write ==
    /\ st # "asked" /\ Has("write") /\ Becomes(Release(I, "write"))
    /\ UNCHANGED <<role, linkUris, handed, peer>>

\* The answer to join_session_request_t.  A relay answers after the request.
on_read_relay(ok) ==
    /\ st # "asked" /\ Has("read") /\ ~Has("write") /\ ~relaying
    /\ LET i == Release(I, "read")
       IN  Becomes(IF Stopping(i) THEN i ELSE IF ok THEN initiate_handshake(i) ELSE do_shutdown(i))
    /\ UNCHANGED <<role, linkUris, handed, peer>>

\* The answer to connect_request_t: an invitation, a refusal, or garbage.
on_read_relay_active(answer) ==
    /\ st # "asked" /\ Has("read") /\ ~Has("write") /\ relaying
    /\ LET i == Release(I, "read")
       IN  Becomes(IF answer = "garbage" THEN do_shutdown(i)
                   ELSE IF answer = "refusal" THEN initiate_active(i)
                   ELSE resolve([i EXCEPT !.relaying = FALSE, !.session = TRUE]))
    /\ UNCHANGED <<role, linkUris, handed, peer>>

i_on_start ==
    /\ st = "init" /\ ~Has("initializing")
    /\ handed' = IF relaying THEN "relay" ELSE "peer"
    /\ st' = "asked" /\ state' = FALSE
    /\ UNCHANGED <<role, linkUris, uri_idx, res, relaying, linked, session, peer>>

\* shutdown_start also comes from outside, e.g. when init_timeout is over;
\* transport->cancel() ends what is pending with on_io_error.
shutdown_start ==
    /\ st \in {"init", "asked"}
    /\ st' = "stopping" /\ res' = [res EXCEPT !["initializing"] = IF @ > 0 THEN @ - 1 ELSE @]
    /\ UNCHANGED <<role, linkUris, uri_idx, relaying, linked, session, state, handed, peer>>

\* The device is told to be offline when the attempt ends while connecting.
shutdown_finish ==
    /\ st = "stopping" /\ \A r \in Resources : ~Has(r)
    /\ st' = "down" /\ state' = FALSE
    /\ UNCHANGED <<role, linkUris, uri_idx, res, relaying, linked, session, handed, peer>>

Initiator ==
    \/ Configure \/ on_connect \/ on_write \/ i_on_start \/ shutdown_start \/ shutdown_finish
    \/ \E ok \in BOOLEAN : on_resolve(ok) \/ on_handshake(ok) \/ on_read_relay(ok)
    \/ \E r \in {"connect", "handshake", "read", "write"} : on_io_error(r)
    \/ \E a \in {"garbage", "refusal", "invitation"} : on_read_relay_active(a)

----------------------------------------------------------------------------
\* peer_actor_t, in the same way.
PHas(p, r) == p.res[r] > 0
PAcquire(p, r) == [p EXCEPT !.res[r] = @ + 1]
PRelease(p, r) == IF PHas(p, r) THEN [p EXCEPT !.res[r] = @ - 1] ELSE p
\* mutant: an actor whose connection broke does not close
GoneOnError(p) == IF p.st = "up" THEN [p EXCEPT !.st = IF p.io_error THEN "down" ELSE "asked"] ELSE p
p_do_shutdown(p) == IF p.st = "up" THEN [p EXCEPT !.st = "asked"] ELSE p
Up(p) == p.st \in {"up", "asked"}
Peer(p) == peer' = p /\ UNCHANGED ivars

process_tx_queue(p) ==
    IF p.tx = <<>> THEN p
    ELSE PAcquire([p EXCEPT !.item = Head(p.tx), !.tx = Tail(p.tx)], "io_write")
\* A buffer joins the last one that waits behind the one being sent.
push_write(p, final) ==
    IF p.io_error THEN p
    ELSE IF ~final /\ p.item # "none" /\ p.tx # <<>> THEN p
    ELSE LET q == [p EXCEPT !.tx = Append(@, IF final THEN "final" ELSE "data")]
             s == IF q.item = "none" THEN process_tx_queue(q) ELSE q
         IN  IF final THEN PAcquire(s, "finalization") ELSE s
read_more(p) == IF ~Up(p) THEN p ELSE PAcquire(p, "io_read")
reset_ping_timer(p) == IF Up(p) THEN PAcquire([p EXCEPT !.ping = TRUE], "ping_timer") ELSE p
reset_stats_timer(p) == IF Up(p) THEN PAcquire(p, "stats_timer") ELSE p
cancel_io(p) == [p EXCEPT !.cut = PHas(p, "io_read") \/ PHas(p, "io_write")]
cancel_ping(p) == IF p.ping THEN PRelease([p EXCEPT !.ping = FALSE], "ping_timer") ELSE p

p_on_start ==
    /\ handed # "no" /\ peer.st = "none"
    /\ Peer(reset_stats_timer(reset_ping_timer(read_more(push_write([peer EXCEPT !.st = "up"], FALSE)))))

p_on_io_error(r) ==
    /\ peer.st # "asked" /\ PHas(peer, r)
    /\ Peer(p_do_shutdown(PRelease(PRelease([peer EXCEPT !.io_error = TRUE], r), "finalization")))

\* on_write; the close message is the last one and ends the reading.
p_on_write ==
    /\ peer.st # "asked" /\ PHas(peer, "io_write")
    /\ LET p == [PRelease(peer, "io_write") EXCEPT !.had_writes = TRUE]
       IN  Peer(IF p.item = "final" THEN cancel_ping(cancel_io(PRelease(p, "finalization")))
                ELSE process_tx_queue([p EXCEPT !.item = "none"]))

\* on_read with what one message does; read_hello and read_controlled.
read_hello(p, m) ==
    IF m = "hello" THEN [p EXCEPT !.read = "controlled"]
    ELSE IF m = "stranger" THEN p_do_shutdown([p EXCEPT !.read = "controlled"]) ELSE p_do_shutdown(p)
read_controlled(p, m) ==
    IF m \in {"hello", "stranger", "close"} THEN p_do_shutdown(p)
    ELSE IF m = "ping" THEN p ELSE IF p.ctl THEN [p EXCEPT !.got = @ + 1] ELSE [p EXCEPT !.early = @ + 1]
ReadNext(p, m) == IF p.read = "hello" THEN m \in {"hello", "stranger"} ELSE m \in {"ping", "data"}
Messages == {"hello", "stranger", "close", "ping", "data"}
p_on_read(m) ==
    /\ peer.st # "asked" /\ PHas(peer, "io_read") /\ peer.rx < MaxRx
    /\ LET p == [PRelease(peer, "io_read") EXCEPT !.rx = @ + 1]
           r == IF p.read = "hello" THEN read_hello(p, m) ELSE read_controlled(p, m)
           q == IF ReadNext(p, m) /\ ~PHas(r, "finalization") THEN read_more(r) ELSE r
       IN  Peer([q EXCEPT !.had_reads = TRUE])
\* What does not parse.
p_on_garbage ==
    /\ peer.st # "asked" /\ PHas(peer, "io_read") /\ Peer(p_do_shutdown(PRelease(peer, "io_read")))

on_controller_up ==
    /\ peer.read = "controlled" /\ ~peer.ctl /\ peer.st \in {"up", "asked", "stopping"}
    /\ Peer([peer EXCEPT !.ctl = TRUE, !.got = @ + peer.early, !.early = 0])
on_controller_predown == peer.ctl /\ peer.st = "up" /\ Peer(p_do_shutdown(peer))
on_transfer ==
    /\ peer.ctl /\ peer.st # "down" /\ Len(peer.tx) < MaxTx /\ Peer(push_write(peer, FALSE))

on_ping_timeout ==
    /\ peer.st # "asked" /\ peer.ping
    /\ LET p == PRelease([peer EXCEPT !.ping = FALSE], "ping_timer")
       IN  Peer(IF PHas(p, "finalization") THEN cancel_io(p)
                ELSE IF (p.had_reads /\ p.had_writes) \/ ~p.had_ping
                THEN reset_ping_timer([p EXCEPT !.had_ping = TRUE]) ELSE cancel_io(p))
on_stats_timeout ==
    /\ peer.st # "asked" /\ PHas(peer, "stats_timer")
    /\ LET p == PRelease(peer, "stats_timer") IN Peer(IF p.ctl THEN reset_stats_timer(p) ELSE p)

\* shutdown_start.  A running ping timer is set anew, for less than the
\* shutdown timeout.
p_shutdown_start ==
    /\ peer.st \in {"up", "asked"}
    /\ LET p == PAcquire([peer EXCEPT !.st = "stopping", !.tx = <<>>], "finalization")
       IN  Peer(PRelease(push_write(p, TRUE), "finalization"))
p_shutdown_finish ==
    /\ peer.st = "stopping" /\ (\A r \in PeerResources : ~PHas(peer, r)) /\ Peer([peer EXCEPT !.st = "down"])

PeerActor ==
    \/ p_on_start \/ p_on_write \/ p_on_garbage \/ on_controller_up \/ on_controller_predown \/ on_transfer
    \/ on_ping_timeout \/ on_stats_timeout \/ p_shutdown_start \/ p_shutdown_finish
    \/ \E m \in Messages : p_on_read(m)
    \/ \E r \in {"io_read", "io_write"} : p_on_io_error(r)

LinkNext == Initiator \/ PeerActor

\* Actors that are asked to stop do so and get the errors of a cancelled
\* transport; timers fire; a name is resolved or times out, and init_timeout
\* ends an attempt; a broken connection breaks for reading and writing.
LinkSpec ==
    /\ LinkInit /\ [][LinkNext]_linkVars
    /\ WF_linkVars(Configure) /\ WF_linkVars(\E ok \in BOOLEAN : on_resolve(ok)) /\ WF_linkVars(shutdown_start)
    /\ WF_linkVars(shutdown_finish) /\ WF_linkVars(i_on_start) /\ WF_linkVars(p_on_start)
    /\ \A r \in {"connect", "handshake", "read", "write"} : WF_linkVars(st = "stopping" /\ on_io_error(r))
    /\ WF_linkVars(peer.st = "asked" /\ p_shutdown_start) /\ WF_linkVars(p_shutdown_finish)
    /\ \A r \in {"io_read", "io_write"} : WF_linkVars((peer.cut \/ peer.io_error) /\ p_on_io_error(r))
    /\ WF_linkVars(on_ping_timeout) /\ WF_linkVars(on_stats_timeout)

----------------------------------------------------------------------------
LinkTypeOK ==
    /\ uri_idx \in 0 .. Len(linkUris) /\ st \in {"none", "init", "asked", "stopping", "down"}
    /\ res \in [Resources -> Nat] /\ peer.res \in [PeerResources -> Nat]
    /\ {relaying, linked, session, state} \subseteq BOOLEAN
    /\ peer.st \in {"none", "up", "asked", "stopping", "down"} /\ peer.item \in {"none", "data", "final"}

\* A transport is handed over after a handshake with the device itself, never
\* after the one with the relay in between.
NotTheRelay == handed # "relay"

\* An actor has one operation of a kind at most: one lookup, one connect, one
\* handshake, one read, one write and one ping timer (the assertions of
\* read_more, process_tx_queue and reset_ping_timer).
OneOfEach ==
    /\ \A r \in Resources : res[r] <= 1
    /\ \A r \in PeerResources \ {"finalization"} : peer.res[r] <= 1
    /\ peer.item = "none" => ~PHas(peer, "io_write")

\* Messages that came before the controller are handed to it first: none waits
\* in received_queue while later ones are forwarded.
EarlyFirst == peer.ctl => peer.early = 0

\* The close message is what was sent last when the actor ends, unless the
\* connection broke.
CloseSaid == peer.st = "down" /\ ~peer.io_error => peer.item = "final"

\* The stages of a connection as Connections has them.  A connection goes through
\* them in their order: it is dialed or accepted, ready, greeted, active, closing
\* and closed.
Stage ==
    IF handed = "no"
    THEN IF st = "none" THEN "idle" ELSE IF st = "down" THEN "closed"
         ELSE IF role = "active" THEN "dialing" ELSE "accepting"
    ELSE IF peer.st = "none" THEN "ready" ELSE IF peer.st = "down" THEN "closed"
         ELSE IF peer.st # "up" THEN "closing" ELSE IF peer.read = "hello" THEN "hello" ELSE "active"
StageStep ==
    Stage' = Stage \/ <<Stage, Stage'>> \in
        {"idle"} \X {"dialing", "accepting"} \cup {"dialing", "accepting"} \X {"ready", "closed"} \cup
        {<<"ready", "hello">>, <<"hello", "active">>, <<"hello", "closing">>, <<"active", "closing">>,
         <<"closing", "closed">>}
StageSteps == [][StageStep]_linkVars

\* An attempt ends, and so does a peer actor that was asked to.
AttemptEnds == <>(st = "down")
PeerEnds == peer.st = "asked" ~> peer.st = "down"

\* One connection, from the first handshake to the last message: it is handed over
\* after a handshake with the device and not the relay in between, an actor has
\* one operation of a kind at most, messages that came before the controller are
\* handed to it first, and the close message is the last one.
LinkSound == LinkTypeOK /\ NotTheRelay /\ OneOfEach /\ EarlyFirst /\ CloseSaid
=============================================================================
