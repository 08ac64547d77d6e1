------------------------------ MODULE Contacts -----------------------------
(***************************************************************************)
(* How this device can be reached, and who is told: acceptor_actor_t       *)
(* listens, ssdp_actor_t finds a router and upnp_actor_t maps a port on    *)
(* it, relay_actor_t joins a relay, and global_discovery_actor_t announces *)
(* the addresses.  Each reads the addresses of the device and sends an     *)
(* update_contact_t with all of them, applied later.  Prompt: updates are  *)
(* applied before the next I/O event (see Connections).                    *)
(***************************************************************************)
EXTENDS Naturals, Sequences, FiniteSets

CONSTANTS Setups,     \* configurations: [upnp ("off", "on", or "found": the search
                      \*                  is over), relay (enabled), relays (in the list),
                      \*                  reads (bound on messages from the relay), announce]
          Prompt, MaxQueue

ASSUME ContactsAssumption ==
    \A c \in Setups : c.relays \in Nat /\ c.reads \in Nat

VARIABLES uris, queue,      \* addresses of the device; update_contact_t on the way
          accepting,        \* acceptor_actor_t: "off", "on", "down"
          ssdp,             \* [st, res]
          upnp,             \* [st, step, port, lock]
          router,           \* the router forwards the port (external)
          relay,            \* relay_actor_t
          gda,              \* [st, sent, known, timer]
          server            \* addresses the discovery server has (external)

contactsVars == <<uris, queue, accepting, ssdp, upnp, router, relay, gda, server>>

Configured(c) ==
    /\ uris = {} /\ queue = <<>> /\ accepting = "off" /\ router = FALSE /\ server = {}
    /\ ssdp = [st |-> IF c.upnp = "on" THEN "off" ELSE "down", res |-> {}]
    /\ upnp = [st |-> IF c.upnp = "found" THEN "up" ELSE "none", port |-> FALSE, lock |-> FALSE,
               step |-> IF c.upnp = "found" THEN "description" ELSE "none"]
    /\ relay = [st |-> IF c.relay THEN "list" ELSE "down", left |-> c.relays, at |-> 0, rx |-> {}, io |-> {},
                tx |-> 0, timers |-> {}, torn |-> FALSE, reads |-> c.reads]
    /\ gda = [st |-> IF c.announce THEN "up" ELSE "down", sent |-> <<>>, known |-> {}, timer |-> FALSE]
ContactsInit == \E c \in Setups : Configured(c)

\* An I/O event is handled; the actors have started before the first one.
Turn == accepting # "off" /\ (Prompt => queue = <<>>) /\ Len(queue) < MaxQueue
Tells(us) == queue' = Append(queue, us)

----------------------------------------------------------------------------
\* acceptor_actor_t::on_start: the local addresses, or the socket cannot listen.
acceptor_on_start ==
    /\ accepting = "off"
    /\ \/ accepting' = "on" /\ Tells({"tcp"})
       \/ accepting' = "down" /\ UNCHANGED queue
    /\ UNCHANGED <<uris, ssdp, upnp, router, relay, gda, server>>

----------------------------------------------------------------------------
\* ssdp_actor_t.  A do_shutdown leads to shutdown_start, which cancels all.
Stops(s) == [s EXCEPT !.st = "stopping", !.res = @ \ {"timer"}]
ssdp_on_start ==
    /\ Turn /\ ssdp.st = "off"
    /\ \/ ssdp' = [st |-> "up", res |-> {"recv", "send", "timer"}]
       \/ ssdp' = [st |-> "down", res |-> {}]
    /\ UNCHANGED <<uris, queue, accepting, upnp, router, relay, gda, server>>
on_discovery_sent ==
    /\ Turn /\ "send" \in ssdp.res /\ ssdp.st = "up" /\ ssdp' = [ssdp EXCEPT !.res = @ \ {"send"}]
    /\ UNCHANGED <<uris, queue, accepting, upnp, router, relay, gda, server>>
\* The first answer launches upnp_actor_t; one that does not parse ends it.
on_discovery_received(good) ==
    /\ Turn /\ "recv" \in ssdp.res /\ ssdp.st = "up"
    /\ ssdp' = Stops([ssdp EXCEPT !.res = @ \ {"recv"}])
    /\ upnp' = IF good THEN [upnp EXCEPT !.st = "up", !.step = "description"] ELSE upnp
    /\ UNCHANGED <<uris, queue, accepting, router, relay, gda, server>>
on_udp_error(r) ==
    /\ Turn /\ r \in ssdp.res /\ ssdp' = Stops([ssdp EXCEPT !.res = @ \ {r}])
    /\ UNCHANGED <<uris, queue, accepting, upnp, router, relay, gda, server>>
ssdp_on_timer ==
    /\ Turn /\ "timer" \in ssdp.res /\ ssdp' = Stops(ssdp)
    /\ UNCHANGED <<uris, queue, accepting, upnp, router, relay, gda, server>>
ssdp_finish ==
    /\ ssdp.st = "stopping" /\ ssdp.res = {} /\ ssdp' = [ssdp EXCEPT !.st = "down"]
    /\ UNCHANGED <<uris, queue, accepting, upnp, router, relay, gda, server>>

----------------------------------------------------------------------------
\* upnp_actor_t: one HTTP request after the other; the router acts on a
\* request whether or not its answer arrives.
on_igd_description(ok) ==
    /\ Turn /\ upnp.step = "description"
    /\ upnp' = IF ok /\ upnp.st = "up" THEN [upnp EXCEPT !.step = "external_ip"]
               ELSE [upnp EXCEPT !.step = "none", !.st = "stopping"]
    /\ UNCHANGED <<uris, queue, accepting, ssdp, router, relay, gda, server>>
on_external_ip(ok) ==
    /\ Turn /\ upnp.step = "external_ip"
    /\ upnp' = IF ok /\ upnp.st = "up" THEN [upnp EXCEPT !.step = "mapping"]
               ELSE [upnp EXCEPT !.step = "none", !.st = "stopping"]
    /\ UNCHANGED <<uris, queue, accepting, ssdp, router, relay, gda, server>>
RouterMaps ==
    /\ upnp.step = "mapping" /\ ~router /\ router' = TRUE
    /\ UNCHANGED <<uris, queue, accepting, ssdp, upnp, relay, gda, server>>
\* An error ends the actor, a refusal leaves it idle.
on_mapping_port(answer) ==
    /\ Turn /\ upnp.step = "mapping" /\ (answer = "ok" => router)
    /\ upnp' = IF answer = "error" THEN [upnp EXCEPT !.step = "none", !.st = "stopping"]
               ELSE IF answer = "refused" \/ upnp.st # "up" THEN [upnp EXCEPT !.step = "none"]
               ELSE [upnp EXCEPT !.step = "validate"]
    /\ UNCHANGED <<uris, queue, accepting, ssdp, router, relay, gda, server>>
\* mutant: only its own addresses are kept
ValidateOwn(ok) ==
    /\ Turn /\ upnp.step = "validate" /\ (ok => router)
    /\ IF ok THEN upnp' = [upnp EXCEPT !.step = "none", !.port = TRUE, !.lock = TRUE] /\ Tells({"tcp", "ext"})
             ELSE upnp' = [upnp EXCEPT !.step = "none"] /\ UNCHANGED queue
    /\ UNCHANGED <<uris, accepting, ssdp, router, relay, gda, server>>
\* The state of the actor is not looked at.
on_validate(ok) ==
    /\ Turn /\ upnp.step = "validate" /\ (ok => router)
    /\ IF ok THEN upnp' = [upnp EXCEPT !.step = "none", !.port = TRUE, !.lock = TRUE] /\ Tells(uris \cup {"ext"})
             ELSE upnp' = [upnp EXCEPT !.step = "none"] /\ UNCHANGED queue
    /\ UNCHANGED <<uris, accepting, ssdp, router, relay, gda, server>>
upnp_shutdown_start ==
    /\ Turn /\ upnp.st = "up"
    /\ upnp' = [upnp EXCEPT !.st = "stopping", !.step = IF upnp.port THEN "unmapping" ELSE @]
    /\ UNCHANGED <<uris, queue, accepting, ssdp, router, relay, gda, server>>
RouterUnmaps ==
    /\ upnp.step = "unmapping" /\ router /\ router' = FALSE
    /\ UNCHANGED <<uris, queue, accepting, ssdp, upnp, relay, gda, server>>
\* The lock of the HTTP client is kept when it fails.
on_unmapping_port(ok) ==
    /\ Turn /\ upnp.step = "unmapping" /\ (ok => ~router)
    /\ upnp' = [upnp EXCEPT !.step = "none", !.port = FALSE, !.lock = @ /\ ~ok]
    /\ UNCHANGED <<uris, queue, accepting, ssdp, router, relay, gda, server>>
upnp_finish ==
    /\ upnp.st = "stopping" /\ upnp.step = "none" /\ ~upnp.port
    /\ upnp' = [upnp EXCEPT !.st = "down"]
    /\ UNCHANGED <<uris, queue, accepting, ssdp, router, relay, gda, server>>

----------------------------------------------------------------------------
\* relay_actor_t.
Ending(r) == r.st \in {"stopping", "down"}
respawn(r, t) == IF Ending(r) THEN [r EXCEPT !.timers = @ \ {t}] ELSE [r EXCEPT !.timers = @ \cup {t}]
write_master(r) == IF Ending(r) THEN r ELSE respawn([r EXCEPT !.io = @ \cup {"write"}], "tx")
push_master(r) ==
    LET n == [r EXCEPT !.tx = @ + 1] IN IF "write" \in r.io THEN n ELSE write_master(n)
read_master(r) == IF Ending(r) THEN r ELSE [r EXCEPT !.io = @ \cup {"read"}]
\* do_shutdown and shutdown_start: the relay is taken off the addresses.
Leaves(r) ==
    /\ relay' = [r EXCEPT !.st = "stopping", !.timers = {}]
    /\ IF r.rx # {} THEN Tells(uris \ {"relay"}) ELSE UNCHANGED queue
RelayOnly == UNCHANGED <<uris, accepting, ssdp, upnp, router, gda, server>>

on_list(ok) ==
    /\ Turn /\ relay.st = "list"
    /\ IF ok /\ relay.left > 0 THEN relay' = [relay EXCEPT !.st = "up", !.at = 1] /\ UNCHANGED queue
       ELSE Leaves(relay)
    /\ RelayOnly
\* on_connect; connect_to_relay picks another one, or none is found in ten tries.
on_connect(ok, found) ==
    /\ Turn /\ relay.st = "up" /\ relay.at = 1
    /\ IF ok
       THEN /\ relay' = push_master(respawn(read_master([relay EXCEPT !.at = 2, !.rx = {"response"}]), "rx"))
            /\ UNCHANGED queue
       ELSE IF found /\ relay.left > 1 THEN relay' = [relay EXCEPT !.left = @ - 1] /\ UNCHANGED queue
       ELSE Leaves([relay EXCEPT !.left = @ - 1])
    /\ RelayOnly
OnWrite ==
    /\ Turn /\ "write" \in relay.io /\ relay.st = "up"
    /\ LET r == [relay EXCEPT !.io = @ \ {"write"}, !.tx = @ - 1, !.timers = @ \ {"tx"}]
       IN  relay' = IF r.tx > 0 THEN write_master(r) ELSE r
    /\ UNCHANGED queue /\ RelayOnly
\* An error; what shutdown cancelled only ends.
relay_on_io_error(o) ==
    /\ Turn /\ o \in relay.io
    /\ LET r == [relay EXCEPT !.io = @ \ {o}]
       IN  IF Ending(relay) THEN relay' = r /\ UNCHANGED queue ELSE Leaves(r)
    /\ RelayOnly

\* on_read with one whole message m, followed (rest) by the first bytes of the
\* next one, which stay behind the message: the next read is parsed wrongly.
OnMessage(r, m) ==
    IF m = "pong" /\ "pong" \in r.rx THEN [r EXCEPT !.rx = @ \ {"pong"}, !.timers = @ \ {"rx"}]
    ELSE IF m = "ping" THEN push_master(r)
    ELSE IF m = "response" /\ "response" \in r.rx
    THEN respawn([r EXCEPT !.rx = (@ \ {"response"}) \cup {"invitation"}, !.timers = @ \ {"rx"}], "ping")
    ELSE IF m = "session" /\ "invitation" \in r.rx THEN r
    ELSE [r EXCEPT !.st = "protocol error"]
relay_on_read(m, rest) ==
    /\ Turn /\ "read" \in relay.io /\ relay.st = "up" /\ relay.reads > 0
    /\ LET r == OnMessage([relay EXCEPT !.io = @ \ {"read"}, !.reads = @ - 1], IF relay.torn THEN "garbage" ELSE m)
       IN  IF r.st # "up" THEN Leaves(r)
           ELSE /\ relay' = read_master([r EXCEPT !.torn = rest])
                /\ IF m = "response" THEN Tells(uris \cup {"relay"}) ELSE UNCHANGED queue
    /\ RelayOnly
\* response_t with an error code.
RelayRefuses ==
    /\ Turn /\ "read" \in relay.io /\ relay.st = "up" /\ "response" \in relay.rx
    /\ Leaves([relay EXCEPT !.io = @ \ {"read"}, !.rx = @ \ {"response"}]) /\ RelayOnly
\* on_ping_timer with send_ping; on_tx_timer and on_rx_timer.
on_ping_timer ==
    /\ Turn /\ "ping" \in relay.timers
    /\ relay' = push_master([relay EXCEPT !.timers = @ \ {"ping"}, !.rx = @ \cup {"pong"}])
    /\ UNCHANGED queue /\ RelayOnly
OnTimeout(t) == /\ Turn /\ t \in relay.timers \cap {"tx", "rx"} /\ Leaves([relay EXCEPT !.timers = @ \ {t}]) /\ RelayOnly
relay_shutdown_start == Turn /\ relay.st \in {"list", "up"} /\ Leaves(relay) /\ RelayOnly
relay_finish ==
    /\ relay.st = "stopping" /\ relay.io = {} /\ relay' = [relay EXCEPT !.st = "down"]
    /\ UNCHANGED queue /\ RelayOnly

----------------------------------------------------------------------------
\* global_discovery_actor_t: announce() when something is new.
announce(g, us) ==
    IF us \ g.known = {} THEN g ELSE [g EXCEPT !.known = @ \cup us, !.sent = Append(@, us)]
gda_update_contact(us) ==
    IF gda.st # "up" THEN gda
    ELSE announce(IF gda.timer THEN [gda EXCEPT !.timer = FALSE, !.known = {}] ELSE gda, us)
on_announce_response(ok) ==
    /\ Turn /\ gda.sent # <<>>
    /\ LET g == [gda EXCEPT !.sent = Tail(@)]
       IN  /\ gda' = IF ~ok THEN [g EXCEPT !.st = "down", !.timer = FALSE]
                     ELSE IF g.st # "up" THEN g
                     ELSE [g EXCEPT !.timer = TRUE, !.known = IF gda.timer THEN {} ELSE @]
           /\ server' = IF ok THEN Head(gda.sent) ELSE server
    /\ UNCHANGED <<uris, queue, accepting, ssdp, upnp, router, relay>>
\* mutant: what was announced is announced again, too
AnnounceSame ==
    /\ Turn /\ gda.timer /\ gda' = announce([gda EXCEPT !.timer = FALSE, !.known = {}], gda.known \cup uris)
    /\ UNCHANGED <<uris, queue, accepting, ssdp, upnp, router, relay, server>>
gda_on_timer ==
    /\ Turn /\ gda.timer /\ gda' = announce([gda EXCEPT !.timer = FALSE, !.known = {}], uris)
    /\ UNCHANGED <<uris, queue, accepting, ssdp, upnp, router, relay, server>>

\* update_contact_t is applied, and visited by the discovery.
update_contact ==
    /\ queue # <<>>
    /\ uris' = Head(queue) /\ queue' = Tail(queue) /\ gda' = gda_update_contact(Head(queue))
    /\ UNCHANGED <<accepting, ssdp, upnp, router, relay, server>>

----------------------------------------------------------------------------
ContactsNext ==
    \/ update_contact \/ acceptor_on_start
    \/ ssdp_on_start \/ on_discovery_sent \/ ssdp_on_timer \/ ssdp_finish
    \/ \E r \in {"recv", "send"} : on_udp_error(r)
    \/ \E ok \in BOOLEAN : \/ on_discovery_received(ok) \/ on_igd_description(ok) \/ on_external_ip(ok)
                           \/ on_validate(ok) \/ on_unmapping_port(ok) \/ on_list(ok) \/ on_announce_response(ok)
                           \/ \E found \in BOOLEAN : on_connect(ok, found)
    \/ RouterMaps \/ RouterUnmaps \/ \E a \in {"ok", "refused", "error"} : on_mapping_port(a)
    \/ upnp_shutdown_start \/ upnp_finish
    \/ OnWrite \/ RelayRefuses \/ on_ping_timer \/ relay_shutdown_start \/ relay_finish
    \/ \E o \in {"read", "write"} : relay_on_io_error(o)
    \/ \E m \in {"pong", "ping", "response", "session"}, rest \in BOOLEAN : relay_on_read(m, rest)
    \/ \E t \in {"tx", "rx"} : OnTimeout(t)
    \/ gda_on_timer

\* Updates are applied, requests are answered (the client has a timeout),
\* timers fire, and cancelled operations end.
ContactsSpec ==
    /\ ContactsInit /\ [][ContactsNext]_contactsVars
    /\ WF_contactsVars(update_contact) /\ WF_contactsVars(\E ok \in BOOLEAN : on_announce_response(ok)) /\ WF_contactsVars(gda_on_timer)
    /\ WF_contactsVars(relay.st = "stopping" /\ \E o \in {"read", "write"} : relay_on_io_error(o)) /\ WF_contactsVars(relay_finish)
    /\ WF_contactsVars(ssdp_on_timer) /\ WF_contactsVars(ssdp_finish)
    /\ WF_contactsVars(ssdp.st = "stopping" /\ \E r \in {"recv", "send"} : on_udp_error(r))

----------------------------------------------------------------------------
ContactsTypeOK ==
    /\ uris \subseteq {"tcp", "ext", "relay"} /\ server \subseteq {"tcp", "ext", "relay"}
    /\ \A i \in 1 .. Len(queue) : queue[i] \subseteq {"tcp", "ext", "relay"}
    /\ relay.rx \subseteq {"response", "pong", "invitation"} /\ relay.io \subseteq {"read", "write"}
    /\ relay.tx \in Nat /\ upnp.step \in {"none", "description", "external_ip", "mapping", "validate", "unmapping"}

Joined == relay.st = "up" /\ "invitation" \in relay.rx

\* No address is lost by another actor's update: a joined relay and a mapped
\* port are among the addresses once the updates are applied, and a relay the
\* device left is not.
ContactsRight ==
    queue = <<>> => /\ Joined => "relay" \in uris
                    /\ upnp.port => "ext" \in uris
                    /\ relay.st \in {"stopping", "down"} => "relay" \notin uris

\* A write to the relay and the answer to the request to join are waited for
\* under a timer.
RelayWatched ==
    relay.st = "up" => /\ "write" \in relay.io => "tx" \in relay.timers
                       /\ "response" \in relay.rx => "rx" \in relay.timers
                       /\ relay.tx > 0 => "write" \in relay.io

\* A port the actor holds is forwarded by the router, until it is unmapped.
PortForwarded == upnp.port /\ upnp.step # "unmapping" => router

\* While the device has addresses an announcement is under way or scheduled.
NeverIdle == gda.st = "up" /\ queue = <<>> /\ uris # {} => gda.sent # <<>> \/ gda.timer

\* The search for a router ends.
SearchEnds == ssdp.st # "off" ~> ssdp.st = "down"
\* A relay actor that stops gets there: what it waits for was cancelled.
RelayEnds == relay.st = "stopping" ~> relay.st = "down"

\* The discovery server gets to know an address that stays, and forgets one
\* that is gone, as long as announcing goes on and there is an address left; the
\* search for a router ends, and so does a relay actor that stops.
Announced ==
    /\ \A u \in {"tcp", "ext", "relay"} :
        /\ <>[](u \in uris) => []<>(u \in server \/ gda.st = "down")
        /\ <>[](u \notin uris /\ uris # {}) => []<>(u \notin server \/ gda.st = "down")
    /\ SearchEnds /\ RelayEnds

\* The addresses are those the device can be reached at: no actor's update
\* undoes another's, and what is asked of relay and router is waited for.
ContactsSound == ContactsTypeOK /\ ContactsRight /\ RelayWatched /\ PortForwarded /\ NeverIdle
=============================================================================
