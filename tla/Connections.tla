---------------------------- MODULE Connections ----------------------------
(***************************************************************************)
(* How a known device comes online and goes offline again: dialer_actor_t, *)
(* global_discovery_actor_t and local_discovery_actor_t find it,           *)
(* acceptor_actor_t and relay_actor_t accept it, peer_supervisor_t makes   *)
(* an initiator_actor_t and then a peer_actor_t for every connection, and  *)
(* cluster_supervisor_t makes a controller_actor_t once it is online.      *)
(* They meet in the state of the device, changed by peer_state_t diffs.    *)
(*                                                                         *)
(* Updates are applied in the order they are sent.  The net thread empties *)
(* its queue before it returns to I/O, unless the application of a long    *)
(* diff is interrupted (see Iterative): Prompt tells the two apart.        *)
(***************************************************************************)
EXTENDS Integers, Sequences, FiniteSets

CONSTANTS Links,        \* connections in a behaviour, each with its own token
          Self,         \* the token device_t is created with
          Rank(_),      \* the order of online states: relay before tcp, then ports
          SkipDiscovers,
          Prompt,
          MaxQueue, MaxOutside   \* bounds on pending updates and on events from outside

ASSUME LinksAssumption ==
    Self \notin Links /\ SkipDiscovers \in Nat /\ \A l \in Links : Rank(l) \in Nat

offline == 0
unknown == 1
discovering == 2
connecting == 3
connected == 4
online == 5

VARIABLES dev,       \* device_state_t of the device: [tok, st]
          queue,     \* model updates sent to the coordinator
          link,      \* link[l]: where the connection is
          known,     \* known[l]: the connection state its actor holds (peer_state)
          ctl,       \* connections with a controller_actor_t
          dialer,    \* [started, timer, recent, skip, announced]
          dynamic,   \* the device has no static addresses
          uris,      \* the device has addresses
          lookup,    \* a discovery request is on its way (discovering_devices)
          outside    \* events from outside so far

vars == <<dev, queue, link, known, ctl, dialer, dynamic, uris, lookup, outside>>

Stages == {"idle", "dialing", "accepting", "ready", "hello", "active", "closing", "closed"}

Init ==
    /\ dev = [tok |-> Self, st |-> offline] /\ queue = <<>>
    /\ link = [l \in Links |-> "idle"] /\ known = [l \in Links |-> offline]
    /\ ctl = {} /\ uris = FALSE /\ lookup = FALSE /\ outside = 0
    /\ dynamic \in BOOLEAN
    /\ dialer = [started |-> FALSE, timer |-> FALSE, recent |-> FALSE, skip |-> 0, announced |-> FALSE]

----------------------------------------------------------------------------
\* device_state_t::operator< and can_roollback_to.
Less(a, b) == IF a.st = online /\ b.st = online THEN Rank(a.tok) < Rank(b.tok) ELSE a.st < b.st
CanRollback(a, b) == a.tok = b.tok /\ Less(b, a)
AnyRollback(a, b) == Less(a, b) \/ Less(b, a)      \* mutant: whose state it is does not matter
Allowed(a, b) == Less(a, b) \/ CanRollback(a, b)

\* peer_state_t::create: no diff when the state of the device forbids it.
\* The second is what the dialer sends with itself as the custom pointer.
State(d, tok, st) ==
    IF Allowed(d, [tok |-> tok, st |-> st]) THEN <<[k |-> "state", tok |-> tok, st |-> st, mine |-> FALSE]>> ELSE <<>>
Unknown(d) == <<[k |-> "state", tok |-> d.tok, st |-> unknown, mine |-> TRUE]>>
Plain(k) == <<[k |-> k, tok |-> Self, st |-> offline, mine |-> FALSE]>>
OfLink(k, l) == <<[k |-> k, tok |-> l, st |-> offline, mine |-> FALSE]>>

\* A new connection has a new token: one nothing refers to any more.
Free == {l \in Links : /\ link[l] \in {"idle", "closed"} /\ dev.tok # l
                       /\ \A i \in 1 .. Len(queue) : queue[i].tok # l}
Turn == (Prompt => queue = <<>>) /\ Len(queue) < MaxQueue
Room == Cardinality(Free) > 1

----------------------------------------------------------------------------
\* dialer_actor_t.  The operators give the dialer afterwards and what it sends.
discover_or_dial(d, dv, has) ==
    IF (dynamic /\ ~d.announced) \/ ~d.started THEN [d |-> d, out |-> <<>>]
    ELSE LET n == [d EXCEPT !.recent = TRUE]
         IN  IF ~dynamic
             THEN [d |-> n, out |-> IF has THEN Plain("dial") ELSE Plain("contact")]
             ELSE IF has /\ d.skip > 0
                  THEN [d |-> [n EXCEPT !.skip = @ - 1], out |-> Plain("dial")]
                  ELSE [d |-> n, out |-> IF dv.st = offline THEN Unknown(dv) ELSE <<>>]

schedule_redial(d, dv, has) ==
    IF d.timer THEN [d |-> d, out |-> <<>>]
    ELSE IF d.recent THEN [d |-> [d EXCEPT !.timer = TRUE], out |-> <<>>]
    ELSE discover_or_dial(d, dv, has)

\* dialer_actor_t visits a peer_state_t; dv is the state after its application.
DialerState(d, u, dv, has) ==
    IF dv.st = offline THEN schedule_redial(d, dv, has)
    ELSE IF dv.st = unknown /\ u.mine THEN [d |-> d, out |-> State(dv, dv.tok, offline)]
    ELSE IF dv.st = online THEN [d |-> [d EXCEPT !.timer = FALSE], out |-> <<>>]
    ELSE [d |-> d, out |-> <<>>]

\* ... and an update_contact_t.
DialerContact(d, dv, has) ==
    IF has /\ dv.st <= discovering
    THEN [d |-> [d EXCEPT !.skip = SkipDiscovers], out |-> Plain("dial")]
    ELSE [d |-> d, out |-> <<>>]

Sends(r) == dialer' = r.d /\ queue' = queue \o r.out

on_start ==
    /\ Turn /\ Room /\ ~dialer.started
    /\ Sends(schedule_redial([dialer EXCEPT !.started = TRUE], dev, uris))
    /\ UNCHANGED <<dev, link, known, ctl, dynamic, uris, lookup, outside>>

on_announce ==
    /\ Turn /\ Room /\ ~dialer.announced
    /\ Sends(schedule_redial([dialer EXCEPT !.announced = TRUE], dev, uris))
    /\ UNCHANGED <<dev, link, known, ctl, dynamic, uris, lookup, outside>>

on_timer ==
    /\ Turn /\ Room /\ dialer.timer
    /\ Sends(discover_or_dial([dialer EXCEPT !.timer = FALSE, !.recent = FALSE], dev, uris))
    /\ UNCHANGED <<dev, link, known, ctl, dynamic, uris, lookup, outside>>

\* The redial timeout passes with no timer set.
Elapse ==
    /\ Turn /\ dialer.recent /\ ~dialer.timer
    /\ dialer' = [dialer EXCEPT !.recent = FALSE]
    /\ UNCHANGED <<dynamic, dev, queue, link, known, ctl, uris, lookup, outside>>

----------------------------------------------------------------------------
\* global_discovery_actor_t visits a peer_state_t: it asks for an unknown
\* device once and moves it to discovering.
GdaState(dv) == dv.st = unknown /\ ~lookup
GdaSends(dv) == IF GdaState(dv) THEN State(dv, dv.tok, discovering) ELSE <<>>

\* on_discovery_response: addresses, or nothing, or an error.
on_discovery_response(found) ==
    /\ Turn /\ lookup /\ (found => Room)
    /\ lookup' = FALSE
    /\ queue' = IF dev.st # discovering THEN queue
                ELSE queue \o (IF found THEN OfLink("found", dev.tok) ELSE State(dev, dev.tok, offline))
    /\ UNCHANGED <<dynamic, dev, link, known, ctl, dialer, uris, outside>>

\* local_discovery_actor_t::handle: an announcement of the device.
LocalAnnounce ==
    /\ Turn /\ Room /\ outside < MaxOutside
    /\ outside' = outside + 1 /\ queue' = queue \o Plain("contact")
    /\ UNCHANGED <<dynamic, dev, link, known, ctl, dialer, uris, lookup>>

\* acceptor_actor_t::on_accept and the invitation in relay_actor_t.
on_accept(k) ==
    /\ Turn /\ Room /\ outside < MaxOutside
    /\ outside' = outside + 1 /\ queue' = queue \o Plain(k)
    /\ UNCHANGED <<dynamic, dev, link, known, ctl, dialer, uris, lookup>>

----------------------------------------------------------------------------
\* An update is applied, then visited by the dialer, the discovery, the
\* cluster supervisor, the controllers and the peer supervisor.
peer_state(u) ==
    LET new == [tok |-> u.tok, st |-> u.st]
        dv == IF Allowed(dev, new) THEN new ELSE dev
        r == DialerState(dialer, u, dv, uris)
        worse == {l \in ctl : Less([tok |-> l, st |-> online], new)}
    IN  /\ dev' = dv
        /\ dialer' = r.d
        /\ queue' = Tail(queue) \o r.out \o GdaSends(dv)
        /\ lookup' = (lookup \/ GdaState(dv))
        /\ ctl' = (ctl \cup (IF dv = new /\ new.st = online THEN {u.tok} ELSE {})) \ worse
        /\ link' = [l \in Links |-> IF l \in worse /\ link[l] = "active" THEN "closing" ELSE link[l]]
        /\ UNCHANGED <<dynamic, known, uris, outside>>

update_contact(u) ==
    LET off == [tok |-> u.tok, st |-> offline]
        dv == IF u.k = "found" /\ Allowed(dev, off) THEN off ELSE dev
        r1 == DialerContact(dialer, dv, TRUE)
        r2 == IF u.k = "found" /\ dv.st = offline THEN schedule_redial(r1.d, dv, TRUE) ELSE [d |-> r1.d, out |-> <<>>]
    IN  /\ dev' = dv /\ uris' = TRUE
        /\ dialer' = r2.d
        /\ queue' = Tail(queue) \o r1.out \o r2.out
        /\ UNCHANGED <<dynamic, link, known, ctl, lookup, outside>>

\* peer_supervisor_t makes an initiator.  An active one reports at once that
\* it is connecting, a passive one after its handshake (send_state).
dial_request ==
    /\ \/ /\ dev.st # online
          /\ \E l \in Free :
                /\ link' = [link EXCEPT ![l] = "dialing"]
                /\ known' = [known EXCEPT ![l] = connecting]
                /\ queue' = Tail(queue) \o State(dev, l, connecting)
       \/ /\ dev.st = online
          /\ queue' = Tail(queue) /\ UNCHANGED <<link, known>>
    /\ UNCHANGED <<dynamic, dev, ctl, dialer, uris, lookup, outside>>
connect_request ==
    /\ \E l \in Free : (link' = [link EXCEPT ![l] = "accepting"] /\ known' = [known EXCEPT ![l] = offline])
    /\ queue' = Tail(queue)
    /\ UNCHANGED <<dynamic, dev, ctl, dialer, uris, lookup, outside>>
relay_connect_request ==
    /\ \/ dev.st = offline /\ \E l \in Free : (link' = [link EXCEPT ![l] = "accepting"] /\ known' = [known EXCEPT ![l] = offline])
       \/ dev.st # offline /\ UNCHANGED <<link, known>>
    /\ queue' = Tail(queue)
    /\ UNCHANGED <<dynamic, dev, ctl, dialer, uris, lookup, outside>>

Update ==
    /\ queue # <<>>
    /\ LET u == Head(queue)
       IN  \/ u.k = "state" /\ peer_state(u)
           \/ u.k \in {"contact", "found"} /\ update_contact(u)
           \/ u.k = "dial" /\ dial_request
           \/ u.k = "accept" /\ connect_request
           \/ u.k = "relay" /\ relay_connect_request

----------------------------------------------------------------------------
\* initiator_actor_t, see Link for its steps: the handshake of a passive one,
\* on_start, and shutdown_finish after a failure.
Handshake(l) ==
    /\ Turn /\ link[l] = "accepting" /\ known[l] = offline
    /\ known' = [known EXCEPT ![l] = connecting]
    /\ queue' = queue \o State(dev, l, connecting)
    /\ UNCHANGED <<dynamic, dev, link, ctl, dialer, uris, lookup, outside>>
Connected(l) ==
    /\ Turn /\ link[l] \in {"dialing", "accepting"} /\ known[l] = connecting
    /\ known' = [known EXCEPT ![l] = connected]
    /\ link' = [link EXCEPT ![l] = "ready"]
    /\ UNCHANGED <<dynamic, dev, queue, ctl, dialer, uris, lookup, outside>>
Failed(l) ==
    /\ Turn /\ link[l] \in {"dialing", "accepting"}
    /\ link' = [link EXCEPT ![l] = "closed"]
    /\ queue' = IF known[l] = connecting THEN queue \o State(dev, l, offline) ELSE queue
    /\ UNCHANGED <<dynamic, dev, known, ctl, dialer, uris, lookup, outside>>

\* peer_supervisor_t::on_peer_ready.
on_peer_ready(l) ==
    /\ link[l] = "ready" /\ Turn
    /\ IF dev.st = online
       THEN link' = [link EXCEPT ![l] = "closed"] /\ UNCHANGED queue
       ELSE link' = [link EXCEPT ![l] = "hello"] /\ queue' = queue \o State(dev, l, connected)
    /\ UNCHANGED <<dynamic, dev, known, ctl, dialer, uris, lookup, outside>>

\* peer_actor_t::handle_hello for a known device.
handle_hello(l) ==
    /\ Turn /\ link[l] = "hello"
    /\ IF dev.st = online
       THEN link' = [link EXCEPT ![l] = "closing"] /\ UNCHANGED <<queue, known>>
       ELSE /\ link' = [link EXCEPT ![l] = "active"]
            /\ known' = [known EXCEPT ![l] = online]
            /\ queue' = queue \o State(dev, l, online)
    /\ UNCHANGED <<dynamic, dev, ctl, dialer, uris, lookup, outside>>

\* The connection breaks, the peer closes it, or the controller goes down.
Breaks(l) ==
    /\ Turn /\ link[l] \in {"hello", "active"}
    /\ link' = [link EXCEPT ![l] = "closing"]
    /\ UNCHANGED <<dynamic, dev, queue, known, ctl, dialer, uris, lookup, outside>>

\* peer_actor_t::shutdown_finish: peer_down_t ends the controller, and the
\* device goes offline if the connection is still the one it is known by.
PeerFinish(l) ==
    /\ Turn /\ link[l] = "closing"
    /\ link' = [link EXCEPT ![l] = "closed"]
    /\ ctl' = ctl \ {l}
    /\ queue' = queue \o State(dev, l, offline)
    /\ UNCHANGED <<dynamic, dev, known, dialer, uris, lookup, outside>>

Actor == \/ on_start \/ on_announce \/ on_timer \/ Elapse \/ LocalAnnounce
         \/ \E found \in BOOLEAN : on_discovery_response(found)
         \/ \E k \in {"accept", "relay"} : on_accept(k)
         \/ \E l \in Links : \/ Handshake(l) \/ Connected(l) \/ Failed(l) \/ on_peer_ready(l)
                             \/ handle_hello(l) \/ Breaks(l) \/ PeerFinish(l)
Next == Update \/ Actor

\* Updates are applied, connections attempts end, lookups are answered (the
\* HTTP client has a timeout), and the redial timer fires.
Spec == /\ Init /\ [][Next]_vars
        /\ WF_vars(Update) /\ WF_vars(on_timer)
        /\ \A l \in Links : WF_vars(Failed(l) \/ on_peer_ready(l) \/ PeerFinish(l))
        /\ WF_vars(\E found \in BOOLEAN : on_discovery_response(found))

----------------------------------------------------------------------------
TypeOK ==
    /\ dev \in [tok : Links \cup {Self}, st : offline .. online]
    /\ link \in [Links -> Stages] /\ known \in [Links -> offline .. online]
    /\ ctl \subseteq Links /\ {dynamic, uris} \subseteq BOOLEAN /\ lookup \in BOOLEAN
    /\ dialer \in [started : BOOLEAN, timer : BOOLEAN, recent : BOOLEAN, skip : 0 .. SkipDiscovers, announced : BOOLEAN]
    /\ \A i \in 1 .. Len(queue) : queue[i].k \in {"state", "contact", "found", "dial", "accept", "relay"}

Alive(l) == link[l] \in {"dialing", "accepting", "ready", "hello", "active", "closing"}
Queued(l, st) == \E i \in 1 .. Len(queue) : queue[i].k = "state" /\ queue[i].tok = l /\ queue[i].st = st

\* A device is shown as connecting, connected or online only while the
\* connection it is known by is there: when the connection is gone, the
\* update that takes the device offline is on its way.
NoGhost ==
    dev.st >= connecting => Alive(dev.tok) \/ Queued(dev.tok, offline)

\* A device has one controller at most, and it is the one of the connection
\* by which the device is online.
OneController == \A l \in ctl : dev.st = online => dev.tok = l

\* An online device has a controller, and so its folders are synchronized.
OnlineServed == dev.st = online /\ queue = <<>> => dev.tok \in ctl \/ link[dev.tok] = "closing"

Quiet == queue = <<>> /\ ~lookup /\ \A l \in Links : ~Alive(l)

\* The dialer does not forget a device: when nothing is under way, an
\* offline device has its redial timer set.
Redialed ==
    Quiet /\ dialer.started /\ (dynamic => dialer.announced) /\ dev.st = offline => dialer.timer

\* A lookup ends: the device does not stay unknown or discovering.
DiscoveryEnds == dev.st \in {unknown, discovering} ~> dev.st \notin {unknown, discovering}

\* The state of the device is that of its connections and its controller.
DeviceSound == TypeOK /\ NoGhost /\ OneController /\ OnlineServed /\ Redialed
=============================================================================
