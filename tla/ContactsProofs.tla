--------------------------- MODULE ContactsProofs --------------------------
(***************************************************************************)
(* Proof that the addresses of the device are those it can be reached at   *)
(* (Contacts), for every configuration, however many relays are tried and  *)
(* messages are read.                                                      *)
(*                                                                         *)
(* Well states what holds however long an update_contact_t is on its way.  *)
(* Current needs the updates to be applied in turn: an actor computes the  *)
(* new list from the addresses it sees, so one that is still on its way    *)
(* would be undone by the next one.                                        *)
(***************************************************************************)
EXTENDS Contacts, SequenceTheorems, TLAPS

Addresses == {"tcp", "ext", "relay"}
RelayStates == {"list", "up", "stopping", "down"}
UpnpSteps == {"none", "description", "external_ip", "mapping", "validate", "unmapping"}
RelayRecords(states) ==
    [st : states, left : Nat, at : {0, 1, 2}, rx : SUBSET {"response", "pong", "invitation"},
     io : SUBSET {"read", "write"}, tx : Nat, timers : SUBSET {"tx", "rx", "ping"}, torn : BOOLEAN, reads : Nat]
Relays == RelayRecords(RelayStates)
Upnps == [st : {"none", "up", "stopping", "down"}, step : UpnpSteps, port : BOOLEAN, lock : BOOLEAN]
Searches == [st : {"off", "up", "stopping", "down"}, res : SUBSET {"recv", "send", "timer"}]
Announcers == [st : {"up", "down"}, sent : Seq(SUBSET Addresses), known : SUBSET Addresses, timer : BOOLEAN]

\* The types of all variables that matter to the properties.
Typed ==
    /\ uris \in SUBSET Addresses /\ server \in SUBSET Addresses /\ queue \in Seq(SUBSET Addresses)
    /\ accepting \in {"off", "on", "down"} /\ router \in BOOLEAN
    /\ relay \in Relays /\ upnp \in Upnps /\ gda \in Announcers
    /\ ssdp \in Searches

\* Before the actor is connected nothing goes on; the relay is joined, and pinged,
\* after it has answered.
Orderly(r) ==
    /\ r.at # 2 => r.rx = {} /\ r.io = {} /\ r.tx = 0 /\ r.timers = {}
    /\ "ping" \in r.timers \/ "pong" \in r.rx \/ "invitation" \in r.rx => "response" \notin r.rx

\* The relay actor by its state: what it waits for has its timer, and when it
\* stops no timer runs.
RelayAt(r) ==
    /\ Orderly(r)
    /\ r.st = "up" =>
        /\ "write" \in r.io <=> r.tx > 0
        /\ "write" \in r.io => "tx" \in r.timers
        /\ "response" \in r.rx => "rx" \in r.timers
        /\ r.at = 1 => r.left > 0
    /\ r.st = "list" => r.at = 0
    /\ Ending(r) => r.timers = {}

\* An announcer that has told addresses waits for the answer or for its timer.
Waiting(g) == g.st = "up" => g.timer \/ g.sent # <<>> \/ g.known = {}

\* A device that has addresses is being announced, or will be.
Announces(g, us) == g.st = "up" /\ us # {} => g.timer \/ g.sent # <<>>

\* The search ends as it launches the actor that maps a port.
Launched == ssdp.st \in {"off", "up"} => upnp.st = "none" /\ upnp.step = "none" /\ ~upnp.port

Well ==
    /\ Launched /\ Typed /\ RelayAt(relay) /\ PortForwarded /\ Waiting(gda)
    /\ Announces(gda, uris)

\* The addresses once the updates under way are applied.
Latest == IF queue = <<>> THEN uris ELSE queue[Len(queue)]

\* The latest addresses have the relay just as long as it is joined, and the port
\* as long as it is mapped.
Listed(us, r, u) ==
    /\ "relay" \in us <=> r.st = "up" /\ "invitation" \in r.rx
    /\ u.port => "ext" \in us
Current ==
    /\ Len(queue) <= 1 /\ Listed(Latest, relay, upnp)
    /\ accepting = "off" => queue = <<>> /\ relay.rx = {} /\ ~upnp.port

----------------------------------------------------------------------------
(* The relay actor *)

\* A list of addresses joins the ones under way.
LEMMA Appended ==
    ASSUME NEW S, NEW q \in Seq(S), NEW x \in S
    PROVE  /\ Append(q, x) \in Seq(S) /\ Append(q, x) # <<>>
           /\ Len(Append(q, x)) = Len(q) + 1 /\ Append(q, x)[Len(q) + 1] = x
OBVIOUS

\* What a step of the relay actor does to the addresses: it takes the relay off
\* them as it leaves, adds it as it joins, and says nothing otherwise.
Member(r) == r.st = "up" /\ "invitation" \in r.rx
RelayEffect ==
    \/ UNCHANGED queue /\ (Member(relay') <=> Member(relay))
    \/ Tells(uris \ {"relay"}) /\ ~Member(relay')
    \/ Tells(uris \cup {"relay"}) /\ Member(relay')
RelayGood == relay' \in Relays /\ RelayAt(relay') /\ queue' \in Seq(SUBSET Addresses) /\ RelayEffect

\* An actor that leaves its relay stops with nothing to time out.
LEMMA LeavesWell ==
    ASSUME Typed, NEW r \in RelayRecords(RelayStates \cup {"protocol error"}), Orderly(r), Leaves(r),
           r.rx = {} => ~Member(relay)
    PROVE  RelayGood
<1>1. relay' = [r EXCEPT !.st = "stopping", !.timers = {}]
  BY DEF Leaves
<1>2. relay' \in Relays /\ RelayAt(relay') /\ ~Member(relay')
  BY <1>1 DEF RelayRecords, Relays, RelayStates, RelayAt, Orderly, Ending, Member
<1>3. queue' \in Seq(SUBSET Addresses)
  <2>1. uris \ {"relay"} \in SUBSET Addresses /\ queue \in Seq(SUBSET Addresses)
    BY DEF Typed
  <2>2. Append(queue, uris \ {"relay"}) \in Seq(SUBSET Addresses)
    BY <2>1, Appended
  <2> QED BY <2>1, <2>2 DEF Leaves, Tells
<1>4. RelayEffect
  BY <1>2 DEF Leaves, RelayEffect
<1> QED BY <1>2, <1>3, <1>4 DEF RelayGood

\* push_master: a message to send is being written, under its timer.
LEMMA PushWell ==
    ASSUME NEW r \in Relays, r.st = "up", r.at = 2, Orderly(r),
           "write" \in r.io <=> r.tx > 0, "write" \in r.io => "tx" \in r.timers
    PROVE  LET s == push_master(r) IN
           /\ s \in Relays /\ Orderly(s) /\ s.st = "up" /\ s.at = 2 /\ s.rx = r.rx /\ s.left = r.left
           /\ "write" \in s.io /\ s.tx > 0 /\ "tx" \in s.timers
           /\ r.timers \subseteq s.timers /\ s.timers \subseteq r.timers \cup {"tx"}
           /\ s.torn = r.torn
<1>1. CASE "write" \in r.io
  BY <1>1 DEF push_master, Relays, RelayRecords, Orderly
<1>2. CASE "write" \notin r.io
  <2> DEFINE n == [r EXCEPT !.tx = @ + 1]
             w == [n EXCEPT !.io = @ \cup {"write"}]
             s == [w EXCEPT !.timers = @ \cup {"tx"}]
  <2>1. n.st = "up" /\ w.st = "up"
    BY DEF Relays, RelayRecords
  <2>2. push_master(r) = s
    <3>1. push_master(r) = write_master(n)
      BY <1>2 DEF push_master
    <3>2. write_master(n) = respawn(w, "tx")
      BY <2>1, Zenon DEF write_master, Ending
    <3>3. respawn(w, "tx") = s
      BY <2>1, Zenon DEF respawn, Ending
    <3> QED BY <3>1, <3>2, <3>3
  <2>3. s \in Relays
    <3>1. n \in Relays
      BY DEF Relays, RelayRecords
    <3> HIDE DEF n
    <3>2. w \in Relays
      BY <3>1 DEF Relays, RelayRecords
    <3> HIDE DEF w
    <3> QED BY <3>2 DEF Relays, RelayRecords
  <2>4. /\ s.st = "up" /\ s.at = 2 /\ s.rx = r.rx /\ s.left = r.left /\ s.torn = r.torn
        /\ s.io = r.io \cup {"write"} /\ s.tx = r.tx + 1 /\ s.timers = r.timers \cup {"tx"}
    BY DEF Relays, RelayRecords
  <2>5. s.tx > 0
    BY <2>4 DEF Relays, RelayRecords
  <2> HIDE DEF s
  <2>6. Orderly(s)
    BY <2>4 DEF Orderly
  <2> QED BY <2>2, <2>3, <2>4, <2>5, <2>6
<1> QED BY <1>1, <1>2

\* A step that says nothing is good when the record it leads to is.
LEMMA QuietWell ==
    ASSUME Typed, relay' \in Relays, RelayAt(relay'), UNCHANGED queue, Member(relay') <=> Member(relay)
    PROVE  RelayGood
<1>1. queue \in Seq(SUBSET Addresses)
  BY DEF Typed
<1> QED BY <1>1 DEF RelayGood, RelayEffect

\* The list of relays arrives, or the request for it fails.
LEMMA ListWell ==
    ASSUME Well, NEW ok \in BOOLEAN, on_list(ok)
    PROVE  RelayGood
<1>1. Typed /\ relay \in Relays /\ RelayAt(relay) /\ relay.st = "list"
  BY DEF Well, Typed, on_list
<1>2. relay.at = 0 /\ Orderly(relay) /\ ~Member(relay)
  BY <1>1 DEF RelayAt, Member
<1>3. CASE ok /\ relay.left > 0
  <2>1. relay' = [relay EXCEPT !.st = "up", !.at = 1] /\ UNCHANGED queue
    BY <1>3 DEF on_list
  <2>2. relay' \in Relays
    BY <1>1, <2>1 DEF Relays, RelayRecords, RelayStates
  <2>3. RelayAt(relay') /\ ~Member(relay')
    BY <1>1, <1>2, <1>3, <2>1 DEF Relays, RelayRecords, RelayAt, Orderly, Ending, Member
  <2> QED BY <1>1, <1>2, <2>1, <2>2, <2>3, QuietWell
<1>4. CASE ~(ok /\ relay.left > 0)
  <2>1. Leaves(relay)
    BY <1>4 DEF on_list
  <2>2. relay \in RelayRecords(RelayStates \cup {"protocol error"})
    BY <1>1 DEF Relays, RelayRecords
  <2> QED BY <1>1, <1>2, <2>1, <2>2, LeavesWell
<1> QED BY <1>3, <1>4

\* The connection to a relay is made, or fails.
LEMMA ConnectWell ==
    ASSUME Well, NEW ok \in BOOLEAN, NEW found \in BOOLEAN, on_connect(ok, found)
    PROVE  RelayGood
<1>1. Typed /\ relay \in Relays /\ RelayAt(relay) /\ relay.st = "up" /\ relay.at = 1
  BY DEF Well, Typed, on_connect
<1>2. /\ Orderly(relay) /\ relay.left > 0
      /\ relay.rx = {} /\ relay.io = {} /\ relay.tx = 0 /\ relay.timers = {} /\ ~Member(relay)
  BY <1>1 DEF RelayAt, Orderly, Member
<1>3. CASE ok
  <2> DEFINE a == [relay EXCEPT !.at = 2, !.rx = {"response"}]
             b == [a EXCEPT !.io = @ \cup {"read"}]
             c == [b EXCEPT !.timers = @ \cup {"rx"}]
  <2>1. a \in Relays /\ a.st = "up"
    BY <1>1 DEF Relays, RelayRecords
  <2>2. /\ a.at = 2 /\ a.rx = {"response"} /\ a.io = {} /\ a.tx = 0 /\ a.timers = {} /\ a.left > 0
    BY <1>1, <1>2 DEF Relays, RelayRecords
  <2> HIDE DEF a
  <2>3. b \in Relays /\ b.st = "up"
    BY <2>1 DEF Relays, RelayRecords
  <2>4. /\ b.at = 2 /\ b.rx = {"response"} /\ b.io = {"read"} /\ b.tx = 0 /\ b.timers = {} /\ b.left > 0
    BY <2>1, <2>2 DEF Relays, RelayRecords
  <2>5. read_master(a) = b
    BY <2>1, Zenon DEF read_master, Ending
  <2> HIDE DEF b
  <2>6. c \in Relays /\ c.st = "up"
    BY <2>3 DEF Relays, RelayRecords
  <2>7. /\ c.at = 2 /\ c.rx = {"response"} /\ c.io = {"read"} /\ c.tx = 0 /\ c.timers = {"rx"} /\ c.left > 0
    BY <2>3, <2>4 DEF Relays, RelayRecords
  <2>8. respawn(b, "rx") = c
    BY <2>3, Zenon DEF respawn, Ending
  <2> HIDE DEF c
  <2>9. Orderly(c) /\ ("write" \in c.io <=> c.tx > 0) /\ ("write" \in c.io => "tx" \in c.timers)
    BY <2>7 DEF Orderly
  <2>10. relay' = push_master(c) /\ UNCHANGED queue
    BY <1>3, <2>5, <2>8 DEF on_connect, a
  <2>11. /\ relay' \in Relays /\ Orderly(relay') /\ relay'.st = "up" /\ relay'.at = 2 /\ relay'.rx = {"response"}
         /\ "write" \in relay'.io /\ relay'.tx > 0 /\ "tx" \in relay'.timers /\ "rx" \in relay'.timers
    BY <2>6, <2>7, <2>9, <2>10, PushWell
  <2>12. RelayAt(relay') /\ ~Member(relay')
    BY <2>11 DEF RelayAt, Ending, Member
  <2> QED BY <1>1, <1>2, <2>10, <2>11, <2>12, QuietWell
<1>4. CASE ~ok /\ found /\ relay.left > 1
  <2>1. relay' = [relay EXCEPT !.left = @ - 1] /\ UNCHANGED queue
    BY <1>4 DEF on_connect
  <2>2. relay' \in Relays
    BY <1>1, <1>4, <2>1 DEF Relays, RelayRecords
  <2>3. RelayAt(relay') /\ ~Member(relay')
    BY <1>1, <1>2, <1>4, <2>1 DEF Relays, RelayRecords, RelayAt, Orderly, Ending, Member
  <2> QED BY <1>1, <1>2, <2>1, <2>2, <2>3, QuietWell
<1>5. CASE ~ok /\ ~(found /\ relay.left > 1)
  <2> DEFINE r == [relay EXCEPT !.left = @ - 1]
  <2>1. Leaves(r)
    BY <1>5 DEF on_connect
  <2>2. relay \in RelayRecords(RelayStates)
    BY <1>1 DEF Relays
  <2>3. r \in RelayRecords(RelayStates \cup {"protocol error"})
    <3>1. relay.left - 1 \in Nat
      BY <1>2, <2>2 DEF RelayRecords
    <3> QED BY <2>2, <3>1 DEF RelayRecords
  <2>4. Orderly(r)
    BY <1>2, <2>2 DEF RelayRecords, Orderly
  <2> HIDE DEF r
  <2> QED BY <1>1, <1>2, <2>1, <2>3, <2>4, LeavesWell
<1> QED BY <1>3, <1>4, <1>5

\* A message was written: the next one is, or no write goes on.
LEMMA WriteWell ==
    ASSUME Well, OnWrite
    PROVE  RelayGood
<1>1. Typed /\ relay \in Relays /\ RelayAt(relay) /\ relay.st = "up" /\ "write" \in relay.io /\ UNCHANGED queue
  BY DEF Well, Typed, OnWrite
<1>2. Orderly(relay) /\ relay.at = 2 /\ relay.tx > 0
  BY <1>1 DEF RelayAt, Orderly, Relays, RelayRecords
<1> DEFINE r == [relay EXCEPT !.io = @ \ {"write"}, !.tx = @ - 1, !.timers = @ \ {"tx"}]
<1>3. r \in Relays
  <2>1. relay.tx - 1 \in Nat
    BY <1>1, <1>2 DEF Relays, RelayRecords
  <2> QED BY <1>1, <2>1 DEF Relays, RelayRecords
<1>4. /\ r.st = "up" /\ r.at = 2 /\ r.rx = relay.rx /\ r.io = relay.io \ {"write"} /\ r.tx = relay.tx - 1
      /\ r.timers = relay.timers \ {"tx"} /\ r.left = relay.left
  BY <1>1, <1>2 DEF Relays, RelayRecords
<1>5. relay' = IF r.tx > 0 THEN write_master(r) ELSE r
  BY DEF OnWrite
<1> HIDE DEF r
<1>6. CASE r.tx > 0
  <2> DEFINE w == [r EXCEPT !.io = @ \cup {"write"}]
             s == [w EXCEPT !.timers = @ \cup {"tx"}]
  <2>1. w \in Relays /\ w.st = "up"
    BY <1>3, <1>4 DEF Relays, RelayRecords
  <2>2. write_master(r) = respawn(w, "tx")
    BY <1>4, Zenon DEF write_master, Ending
  <2>3. respawn(w, "tx") = s
    BY <2>1, Zenon DEF respawn, Ending
  <2>4. /\ w.at = 2 /\ w.rx = relay.rx /\ w.io = r.io \cup {"write"} /\ w.tx > 0
        /\ w.timers = r.timers
    BY <1>3, <1>4, <1>6 DEF Relays, RelayRecords
  <2> HIDE DEF w
  <2>5. s \in Relays
    BY <2>1 DEF Relays, RelayRecords
  <2>6. /\ s.st = "up" /\ s.at = 2 /\ s.rx = relay.rx /\ "write" \in s.io /\ s.tx > 0
        /\ s.timers = r.timers \cup {"tx"}
    BY <2>1, <2>4 DEF Relays, RelayRecords
  <2> HIDE DEF s
  <2>7. relay' = s
    BY <1>5, <1>6, <2>2, <2>3
  <2>8. RelayAt(s) /\ (Member(s) <=> Member(relay))
    BY <1>1, <1>2, <1>4, <2>6 DEF RelayAt, Orderly, Ending, Member
  <2> QED BY <1>1, <2>5, <2>7, <2>8, QuietWell
<1>7. CASE ~(r.tx > 0)
  <2>1. relay' = r
    BY <1>5, <1>7
  <2>2. RelayAt(r) /\ (Member(r) <=> Member(relay))
    BY <1>1, <1>2, <1>4, <1>7 DEF RelayAt, Orderly, Ending, Member, Relays, RelayRecords
  <2> QED BY <1>1, <1>3, <2>1, <2>2, QuietWell
<1> QED BY <1>6, <1>7

\* An operation fails, or ends because it was cancelled.
LEMMA IoErrorWell ==
    ASSUME Well, NEW o \in {"read", "write"}, relay_on_io_error(o)
    PROVE  RelayGood
<1>1. Typed /\ relay \in Relays /\ RelayAt(relay)
  BY DEF Well, Typed
<1> DEFINE r == [relay EXCEPT !.io = @ \ {o}]
<1>2. r \in Relays
  BY <1>1 DEF Relays, RelayRecords
<1>3. /\ r.st = relay.st /\ r.at = relay.at /\ r.rx = relay.rx /\ r.io = relay.io \ {o} /\ r.tx = relay.tx
      /\ r.timers = relay.timers
  BY <1>1 DEF Relays, RelayRecords
<1>4. IF Ending(relay) THEN relay' = r /\ UNCHANGED queue ELSE Leaves(r)
  BY DEF relay_on_io_error
<1> HIDE DEF r
<1>5. Orderly(r) /\ Orderly(relay)
  BY <1>1, <1>3 DEF RelayAt, Orderly
<1>6. CASE Ending(relay)
  <2>1. RelayAt(r) /\ (Member(r) <=> Member(relay))
    BY <1>1, <1>3, <1>5, <1>6 DEF RelayAt, Ending, Member
  <2> QED BY <1>1, <1>2, <1>4, <1>6, <2>1, QuietWell
<1>7. CASE ~Ending(relay)
  <2>1. r \in RelayRecords(RelayStates \cup {"protocol error"})
    BY <1>2 DEF Relays, RelayRecords
  <2>2. r.rx = {} => ~Member(relay)
    BY <1>3 DEF Member
  <2> QED BY <1>1, <1>4, <1>5, <1>7, <2>1, <2>2, LeavesWell
<1> QED BY <1>6, <1>7

\* A relay that refuses the device is left.
LEMMA RefusedWell ==
    ASSUME Well, RelayRefuses
    PROVE  RelayGood
<1>1. Typed /\ relay \in Relays /\ RelayAt(relay) /\ "response" \in relay.rx
  BY DEF Well, Typed, RelayRefuses
<1> DEFINE r == [relay EXCEPT !.io = @ \ {"read"}, !.rx = @ \ {"response"}]
<1>2. relay \in RelayRecords(RelayStates)
  BY <1>1 DEF Relays
<1>3. r \in RelayRecords(RelayStates \cup {"protocol error"})
  BY <1>2 DEF RelayRecords
<1>4. Orderly(r)
  BY <1>1, <1>2 DEF RelayRecords, RelayAt, Orderly
<1>5. ~Member(relay)
  BY <1>1 DEF RelayAt, Orderly, Member
<1>6. Leaves(r)
  BY DEF RelayRefuses
<1> HIDE DEF r
<1> QED BY <1>1, <1>3, <1>4, <1>5, <1>6, LeavesWell

\* A transmission or an answer that does not come in time ends the relay.
LEMMA TimeoutWell ==
    ASSUME Well, NEW t \in {"tx", "rx"}, OnTimeout(t)
    PROVE  RelayGood
<1>1. Typed /\ relay \in Relays /\ RelayAt(relay)
  BY DEF Well, Typed
<1> DEFINE r == [relay EXCEPT !.timers = @ \ {t}]
<1>2. relay \in RelayRecords(RelayStates)
  BY <1>1 DEF Relays
<1>3. r \in RelayRecords(RelayStates \cup {"protocol error"})
  BY <1>2 DEF RelayRecords
<1>4. Orderly(r) /\ r.rx = relay.rx
  BY <1>1, <1>2 DEF RelayRecords, RelayAt, Orderly
<1>5. Leaves(r)
  BY DEF OnTimeout
<1>6. r.rx = {} => ~Member(relay)
  BY <1>4 DEF Member
<1> HIDE DEF r
<1> QED BY <1>1, <1>3, <1>4, <1>5, <1>6, LeavesWell

\* The actor is told to stop.
LEMMA ShutdownWell ==
    ASSUME Well, relay_shutdown_start
    PROVE  RelayGood
<1>1. Typed /\ relay \in Relays /\ RelayAt(relay) /\ Leaves(relay)
  BY DEF Well, Typed, relay_shutdown_start
<1>2. relay \in RelayRecords(RelayStates \cup {"protocol error"})
  BY <1>1 DEF Relays, RelayRecords
<1>3. Orderly(relay) /\ (relay.rx = {} => ~Member(relay))
  BY <1>1 DEF RelayAt, Member
<1> QED BY <1>1, <1>2, <1>3, LeavesWell

\* The last of its resources is released.
LEMMA FinishWell ==
    ASSUME Well, relay_finish
    PROVE  RelayGood
<1>1. Typed /\ relay \in Relays /\ RelayAt(relay) /\ relay.st = "stopping" /\ UNCHANGED queue
  BY DEF Well, Typed, relay_finish
<1>2. relay' = [relay EXCEPT !.st = "down"]
  BY DEF relay_finish
<1>3. relay' \in Relays
  BY <1>1, <1>2 DEF Relays, RelayRecords, RelayStates
<1>4. RelayAt(relay') /\ (Member(relay') <=> Member(relay))
  BY <1>1, <1>2 DEF Relays, RelayRecords, RelayAt, Orderly, Ending, Member
<1> QED BY <1>1, <1>3, <1>4, QuietWell

\* The keep-alive timer makes it write a ping.
LEMMA PingWell ==
    ASSUME Well, on_ping_timer
    PROVE  RelayGood
<1>1. Typed /\ relay \in Relays /\ RelayAt(relay) /\ "ping" \in relay.timers /\ UNCHANGED queue
  BY DEF Well, Typed, on_ping_timer
<1>2. Orderly(relay) /\ relay.at = 2 /\ "response" \notin relay.rx /\ relay.st = "up"
  BY <1>1 DEF RelayAt, Orderly, Ending, Relays, RelayRecords, RelayStates
<1> DEFINE r == [relay EXCEPT !.timers = @ \ {"ping"}, !.rx = @ \cup {"pong"}]
<1>3. r \in Relays
  BY <1>1 DEF Relays, RelayRecords
<1>4. /\ r.st = "up" /\ r.at = 2 /\ r.rx = relay.rx \cup {"pong"} /\ r.io = relay.io /\ r.tx = relay.tx
      /\ r.timers = relay.timers \ {"ping"}
  BY <1>1, <1>2 DEF Relays, RelayRecords
<1>5. relay' = push_master(r)
  BY DEF on_ping_timer
<1> HIDE DEF r
<1>6. Orderly(r) /\ ("write" \in r.io <=> r.tx > 0) /\ ("write" \in r.io => "tx" \in r.timers)
  BY <1>1, <1>2, <1>4 DEF RelayAt, Orderly
<1>7. /\ relay' \in Relays /\ Orderly(relay') /\ relay'.st = "up" /\ relay'.at = 2 /\ relay'.rx = r.rx
      /\ "write" \in relay'.io /\ relay'.tx > 0 /\ "tx" \in relay'.timers
  BY <1>3, <1>4, <1>5, <1>6, PushWell
<1>8. RelayAt(relay') /\ (Member(relay') <=> Member(relay))
  BY <1>2, <1>4, <1>7 DEF RelayAt, Ending, Member
<1> QED BY <1>1, <1>7, <1>8, QuietWell

\* A message that is understood leaves the actor as it should be, a member of the
\* relay after the answer to its request and before just as after any other one.
LEMMA MessageWell ==
    ASSUME NEW b \in Relays, b.st = "up", b.at = 2, RelayAt(b),
           NEW m \in {"pong", "ping", "response", "session", "garbage"}
    PROVE  LET r == OnMessage(b, m) IN
           \/ /\ r \in Relays /\ RelayAt(r) /\ r.st = "up" /\ r.at = 2
              /\ IF m = "response" THEN Member(r) ELSE Member(r) <=> Member(b)
           \/ /\ r \in RelayRecords(RelayStates \cup {"protocol error"}) /\ Orderly(r) /\ r.st = "protocol error"
              /\ r.rx = b.rx
<1>0. Orderly(b)
  BY DEF RelayAt
<1>1. CASE m = "pong" /\ "pong" \in b.rx
  <2> DEFINE r == [b EXCEPT !.rx = @ \ {"pong"}, !.timers = @ \ {"rx"}]
  <2>1. OnMessage(b, m) = r
    BY <1>1, Zenon DEF OnMessage
  <2>2. r \in Relays
    BY DEF Relays, RelayRecords
  <2>3. /\ r.st = "up" /\ r.at = 2 /\ r.rx = b.rx \ {"pong"} /\ r.io = b.io /\ r.tx = b.tx
        /\ r.timers = b.timers \ {"rx"} /\ r.left = b.left
    BY DEF Relays, RelayRecords
  <2> HIDE DEF r
  <2>4. "response" \notin b.rx
    BY <1>0, <1>1 DEF Orderly
  <2>5. RelayAt(r) /\ (Member(r) <=> Member(b))
    BY <1>0, <2>3, <2>4 DEF RelayAt, Orderly, Ending, Member
  <2> QED BY <1>1, <2>1, <2>2, <2>3, <2>5
<1>2. CASE m = "ping"
  <2>1. OnMessage(b, m) = push_master(b)
    BY <1>2, Zenon DEF OnMessage
  <2> DEFINE r == push_master(b)
  <2>2. ("write" \in b.io <=> b.tx > 0) /\ ("write" \in b.io => "tx" \in b.timers)
    BY DEF RelayAt
  <2>3. /\ r \in Relays /\ Orderly(r) /\ r.st = "up" /\ r.at = 2 /\ r.rx = b.rx
        /\ "write" \in r.io /\ r.tx > 0 /\ "tx" \in r.timers /\ b.timers \subseteq r.timers
    BY <1>0, <2>2, PushWell
  <2> HIDE DEF r
  <2>4. RelayAt(r) /\ (Member(r) <=> Member(b))
    BY <2>3 DEF RelayAt, Ending, Member
  <2> QED BY <1>2, <2>1, <2>3, <2>4 DEF r
<1>3. CASE m = "response" /\ "response" \in b.rx
  <2> DEFINE s == [b EXCEPT !.rx = (@ \ {"response"}) \cup {"invitation"}, !.timers = @ \ {"rx"}]
             r == [s EXCEPT !.timers = @ \cup {"ping"}]
  <2>1. OnMessage(b, m) = respawn(s, "ping")
    BY <1>3, Zenon DEF OnMessage
  <2>2. s \in Relays
    BY DEF Relays, RelayRecords
  <2>3. /\ s.st = "up" /\ s.at = 2 /\ s.rx = (b.rx \ {"response"}) \cup {"invitation"} /\ s.io = b.io /\ s.tx = b.tx
        /\ s.timers = b.timers \ {"rx"} /\ s.left = b.left
    BY DEF Relays, RelayRecords
  <2> HIDE DEF s
  <2>4. respawn(s, "ping") = r
    BY <2>3, Zenon DEF respawn, Ending
  <2>5. r \in Relays
    BY <2>2 DEF Relays, RelayRecords
  <2>6. /\ r.st = "up" /\ r.at = 2 /\ r.rx = s.rx /\ r.io = b.io /\ r.tx = b.tx
        /\ r.timers = (b.timers \ {"rx"}) \cup {"ping"} /\ r.left = b.left
    BY <2>2, <2>3 DEF Relays, RelayRecords
  <2> HIDE DEF r
  <2>7. RelayAt(r) /\ Member(r)
    BY <2>3, <2>6 DEF RelayAt, Orderly, Ending, Member
  <2> QED BY <1>3, <2>1, <2>4, <2>5, <2>6, <2>7
<1>4. CASE m = "session" /\ "invitation" \in b.rx
  <2>1. OnMessage(b, m) = b
    BY <1>4, Zenon DEF OnMessage
  <2> QED BY <1>4, <2>1
<1>5. CASE ~ \/ m = "pong" /\ "pong" \in b.rx
             \/ m = "ping"
             \/ m = "response" /\ "response" \in b.rx
             \/ m = "session" /\ "invitation" \in b.rx
  <2> DEFINE r == [b EXCEPT !.st = "protocol error"]
  <2>1. OnMessage(b, m) = r
    BY <1>5, Zenon DEF OnMessage
  <2>2. r \in RelayRecords(RelayStates \cup {"protocol error"}) /\ r.st = "protocol error" /\ r.rx = b.rx
    BY DEF Relays, RelayRecords
  <2>3. Orderly(r)
    BY <1>0 DEF Relays, RelayRecords, Orderly
  <2> HIDE DEF r
  <2> QED BY <2>1, <2>2, <2>3
<1> QED BY <1>1, <1>2, <1>3, <1>4, <1>5

\* A read completes, whatever the bytes hold.
LEMMA ReadWell ==
    ASSUME Well, NEW m \in {"pong", "ping", "response", "session"}, NEW rest \in BOOLEAN, relay_on_read(m, rest)
    PROVE  RelayGood
<1>1. Typed /\ relay \in Relays /\ RelayAt(relay) /\ relay.st = "up" /\ "read" \in relay.io /\ relay.reads > 0
  BY DEF Well, Typed, relay_on_read
<1> DEFINE b == [relay EXCEPT !.io = @ \ {"read"}, !.reads = @ - 1]
           mm == IF relay.torn THEN "garbage" ELSE m
           r == OnMessage(b, mm)
           n == [r EXCEPT !.torn = rest]
<1>2. b \in Relays
  <2>1. relay.reads - 1 \in Nat
    BY <1>1 DEF Relays, RelayRecords
  <2> QED BY <1>1, <2>1 DEF Relays, RelayRecords
<1>3. /\ b.st = "up" /\ b.at = relay.at /\ b.rx = relay.rx /\ b.io = relay.io \ {"read"} /\ b.tx = relay.tx
      /\ b.timers = relay.timers /\ b.left = relay.left
  BY <1>1 DEF Relays, RelayRecords
<1>4. IF r.st # "up" THEN Leaves(r)
      ELSE /\ relay' = read_master(n)
           /\ IF m = "response" THEN Tells(uris \cup {"relay"}) ELSE UNCHANGED queue
  BY DEF relay_on_read
<1>5. mm \in {"pong", "ping", "response", "session", "garbage"}
  OBVIOUS
<1>6. mm = "garbage" \/ mm = m
  OBVIOUS
<1> HIDE DEF b, mm
<1>7. b.at = 2 /\ RelayAt(b) /\ (Member(b) <=> Member(relay))
  BY <1>1, <1>3 DEF RelayAt, Orderly, Ending, Member
<1>8. \/ /\ r \in Relays /\ RelayAt(r) /\ r.st = "up" /\ r.at = 2
         /\ IF mm = "response" THEN Member(r) ELSE Member(r) <=> Member(b)
      \/ /\ r \in RelayRecords(RelayStates \cup {"protocol error"}) /\ Orderly(r) /\ r.st = "protocol error"
         /\ r.rx = b.rx
  BY <1>2, <1>3, <1>5, <1>7, MessageWell
<1>9. mm # "garbage" \/ r.st # "up"
  <2>1. OnMessage(b, "garbage") = [b EXCEPT !.st = "protocol error"]
    BY Zenon DEF OnMessage
  <2>2. [b EXCEPT !.st = "protocol error"].st # "up"
    BY <1>2 DEF Relays, RelayRecords
  <2> QED BY <2>1, <2>2
<1> HIDE DEF r
<1>10. CASE r.st # "up"
  <2>1. r \in RelayRecords(RelayStates \cup {"protocol error"}) /\ Orderly(r) /\ r.rx = relay.rx
    BY <1>3, <1>8, <1>10
  <2>2. Leaves(r) /\ (r.rx = {} => ~Member(relay))
    BY <1>4, <1>10, <2>1 DEF Member
  <2> QED BY <1>1, <2>1, <2>2, LeavesWell
<1>11. CASE r.st = "up"
  <2>1. r \in Relays /\ RelayAt(r) /\ r.at = 2 /\ mm = m
    BY <1>6, <1>8, <1>9, <1>11
  <2> DEFINE s == [n EXCEPT !.io = @ \cup {"read"}]
  <2>2. n \in Relays
    BY <2>1 DEF Relays, RelayRecords
  <2>3. /\ n.st = "up" /\ n.at = r.at /\ n.rx = r.rx /\ n.io = r.io /\ n.tx = r.tx /\ n.timers = r.timers
        /\ n.left = r.left
    BY <1>11, <2>1 DEF Relays, RelayRecords
  <2> HIDE DEF n
  <2>4. read_master(n) = s
    BY <2>3, Zenon DEF read_master, Ending
  <2>5. s \in Relays
    BY <2>2 DEF Relays, RelayRecords
  <2>6. /\ s.st = "up" /\ s.at = 2 /\ s.rx = r.rx /\ s.io = r.io \cup {"read"} /\ s.tx = r.tx
        /\ s.timers = r.timers /\ s.left = r.left
    BY <2>1, <2>2, <2>3 DEF Relays, RelayRecords
  <2> HIDE DEF s
  <2>7. RelayAt(s) /\ (Member(s) <=> Member(r))
    BY <1>11, <2>1, <2>6 DEF RelayAt, Orderly, Ending, Member
  <2>8. relay' = s
    BY <1>4, <1>11, <2>4
  <2>9. CASE m = "response"
    <3>1. Tells(uris \cup {"relay"}) /\ Member(s)
      BY <1>4, <1>8, <1>11, <2>1, <2>7, <2>9
    <3>2. uris \cup {"relay"} \in SUBSET Addresses /\ queue \in Seq(SUBSET Addresses)
      BY <1>1 DEF Typed, Addresses
    <3>3. queue' \in Seq(SUBSET Addresses)
      BY <3>1, <3>2, Appended DEF Tells
    <3> QED BY <2>5, <2>7, <2>8, <3>1, <3>3 DEF RelayGood, RelayEffect
  <2>10. CASE m # "response"
    <3>1. UNCHANGED queue /\ (Member(s) <=> Member(relay))
      BY <1>4, <1>7, <1>8, <1>11, <2>1, <2>7, <2>10
    <3> QED BY <1>1, <2>5, <2>7, <2>8, <3>1, QuietWell
  <2> QED BY <2>9, <2>10
<1> QED BY <1>10, <1>11

----------------------------------------------------------------------------
(* Every step *)

\* The steps by the actor that takes them.
RelaySteps ==
    \/ \E ok \in BOOLEAN : on_list(ok) \/ \E found \in BOOLEAN : on_connect(ok, found)
    \/ OnWrite \/ RelayRefuses \/ on_ping_timer \/ relay_shutdown_start \/ relay_finish
    \/ \E o \in {"read", "write"} : relay_on_io_error(o)
    \/ \E m \in {"pong", "ping", "response", "session"}, rest \in BOOLEAN : relay_on_read(m, rest)
    \/ \E t \in {"tx", "rx"} : OnTimeout(t)
SearchSteps ==
    \/ ssdp_on_start \/ on_discovery_sent \/ ssdp_on_timer \/ ssdp_finish
    \/ \E r \in {"recv", "send"} : on_udp_error(r)
PortSteps ==
    \/ \E ok \in BOOLEAN : \/ on_discovery_received(ok) \/ on_igd_description(ok) \/ on_external_ip(ok)
                           \/ on_validate(ok) \/ on_unmapping_port(ok)
    \/ RouterMaps \/ RouterUnmaps \/ upnp_shutdown_start \/ upnp_finish
    \/ \E a \in {"ok", "refused", "error"} : on_mapping_port(a)
AnnouncerSteps == gda_on_timer \/ \E ok \in BOOLEAN : on_announce_response(ok)

\* Every step is one of the relay's, the search's, the port's or the announcer's,
\* the start of the acceptor, or the update of the addresses.
LEMMA Steps ==
    ASSUME ContactsNext
    PROVE  RelaySteps \/ SearchSteps \/ PortSteps \/ AnnouncerSteps \/ acceptor_on_start \/ update_contact
BY Zenon DEF ContactsNext, RelaySteps, SearchSteps, PortSteps, AnnouncerSteps

\* The relay actor changes itself and what is told, nothing else.
LEMMA RelayStep ==
    ASSUME Well, RelaySteps
    PROVE  /\ RelayGood /\ UNCHANGED <<uris, accepting, ssdp, upnp, router, gda, server>>
           /\ accepting # "off" \/ (UNCHANGED queue /\ relay'.rx = relay.rx)
           /\ UNCHANGED queue \/ Turn
<1>1. CASE \E ok \in BOOLEAN : on_list(ok)
  BY <1>1, ListWell, Zenon DEF on_list, RelayOnly, Turn
<1>2. CASE \E ok \in BOOLEAN, found \in BOOLEAN : on_connect(ok, found)
  BY <1>2, ConnectWell, Zenon DEF on_connect, RelayOnly, Turn
<1>3. CASE OnWrite
  BY <1>3, WriteWell, Zenon DEF OnWrite, RelayOnly, Turn
<1>4. CASE RelayRefuses
  BY <1>4, RefusedWell, Zenon DEF RelayRefuses, RelayOnly, Turn
<1>5. CASE on_ping_timer
  BY <1>5, PingWell, Zenon DEF on_ping_timer, RelayOnly, Turn
<1>6. CASE relay_shutdown_start
  BY <1>6, ShutdownWell, Zenon DEF relay_shutdown_start, RelayOnly, Turn
<1>7. CASE relay_finish
  <2>1. relay'.rx = relay.rx
    <3>1. relay \in Relays /\ relay' = [relay EXCEPT !.st = "down"]
      BY <1>7 DEF Well, Typed, relay_finish
    <3> QED BY <3>1 DEF Relays, RelayRecords
  <2> QED BY <1>7, <2>1, FinishWell, Zenon DEF relay_finish, RelayOnly
<1>8. CASE \E o \in {"read", "write"} : relay_on_io_error(o)
  BY <1>8, IoErrorWell, Zenon DEF relay_on_io_error, RelayOnly, Turn
<1>9. CASE \E m \in {"pong", "ping", "response", "session"}, rest \in BOOLEAN : relay_on_read(m, rest)
  BY <1>9, ReadWell, Zenon DEF relay_on_read, RelayOnly, Turn
<1>10. CASE \E t \in {"tx", "rx"} : OnTimeout(t)
  BY <1>10, TimeoutWell, Zenon DEF OnTimeout, RelayOnly, Turn
<1> QED BY <1>1, <1>2, <1>3, <1>4, <1>5, <1>6, <1>7, <1>8, <1>9, <1>10 DEF RelaySteps

\* The port: forwarded as long as the actor holds it, and listed when it is got.
LEMMA UpnpStep ==
    ASSUME Well, PortSteps
    PROVE  /\ upnp' \in Upnps /\ router' \in BOOLEAN /\ PortForwarded' /\ Launched'
           /\ queue' \in Seq(SUBSET Addresses) /\ ssdp' \in Searches
           /\ UNCHANGED <<uris, accepting, relay, gda, server>>
           /\ \/ UNCHANGED queue /\ (upnp'.port => upnp.port)
              \/ Turn /\ Tells(uris \cup {"ext"})
<1>1. /\ upnp \in Upnps /\ router \in BOOLEAN /\ PortForwarded /\ Launched
      /\ queue \in Seq(SUBSET Addresses) /\ ssdp \in Searches
  BY DEF Well, Typed
<1>2. CASE \E ok \in BOOLEAN : on_discovery_received(ok)
  <2>1. upnp' \in {upnp, [upnp EXCEPT !.st = "up", !.step = "description"]}
    BY <1>2 DEF on_discovery_received
  <2>2. ~upnp.port /\ UNCHANGED <<uris, queue, accepting, router, relay, gda, server>>
    BY <1>1, <1>2 DEF on_discovery_received, Launched
  <2>3. upnp' \in Upnps /\ (upnp'.port <=> upnp.port)
    BY <1>1, <2>1 DEF Upnps, UpnpSteps
  <2>4. ssdp' \in Searches /\ ssdp'.st = "stopping"
    BY <1>1, <1>2 DEF on_discovery_received, Stops, Searches
  <2> QED BY <1>1, <2>2, <2>3, <2>4 DEF PortForwarded, Launched
<1>3. CASE \E ok \in BOOLEAN : on_igd_description(ok)
  <2>1. upnp' \in {[upnp EXCEPT !.step = "external_ip"], [upnp EXCEPT !.step = "none", !.st = "stopping"]}
    BY <1>3 DEF on_igd_description
  <2>2. upnp.step \notin {"none", "unmapping"} /\ UNCHANGED <<uris, ssdp, queue, accepting, router, relay, gda, server>>
    BY <1>3 DEF on_igd_description
  <2>3. upnp' \in Upnps /\ (upnp'.port <=> upnp.port) /\ (upnp'.step = "unmapping" => upnp' = upnp)
    BY <1>1, <2>1 DEF Upnps, UpnpSteps
  <2> QED BY <1>1, <2>2, <2>3 DEF PortForwarded, Launched
<1>4. CASE \E ok \in BOOLEAN : on_external_ip(ok)
  <2>1. upnp' \in {[upnp EXCEPT !.step = "mapping"], [upnp EXCEPT !.step = "none", !.st = "stopping"]}
    BY <1>4 DEF on_external_ip
  <2>2. upnp.step \notin {"none", "unmapping"} /\ UNCHANGED <<uris, ssdp, queue, accepting, router, relay, gda, server>>
    BY <1>4 DEF on_external_ip
  <2>3. upnp' \in Upnps /\ (upnp'.port <=> upnp.port) /\ (upnp'.step = "unmapping" => upnp' = upnp)
    BY <1>1, <2>1 DEF Upnps, UpnpSteps
  <2> QED BY <1>1, <2>2, <2>3 DEF PortForwarded, Launched
<1>5. CASE \E ok \in BOOLEAN : on_validate(ok)
  <2>1. PICK ok \in BOOLEAN : on_validate(ok)
    BY <1>5
  <2>2. CASE ok
    <3>1. upnp' = [upnp EXCEPT !.step = "none", !.port = TRUE, !.lock = TRUE] /\ Tells(uris \cup {"ext"})
      BY <2>1, <2>2 DEF on_validate
    <3>2. router /\ Turn /\ upnp.step # "none" /\ UNCHANGED <<uris, ssdp, accepting, router, relay, gda, server>>
      BY <2>1, <2>2 DEF on_validate
    <3>3. uris \cup {"ext"} \in SUBSET Addresses
      BY DEF Well, Typed, Addresses
    <3>4. queue' \in Seq(SUBSET Addresses)
      BY <1>1, <3>1, <3>3, Appended DEF Tells
    <3>5. upnp' \in Upnps /\ router' \in BOOLEAN /\ PortForwarded' /\ Launched' /\ ssdp' \in Searches
      BY <1>1, <3>1, <3>2 DEF Upnps, UpnpSteps, PortForwarded, Launched
    <3> QED BY <3>1, <3>2, <3>4, <3>5
  <2>3. CASE ~ok
    BY <1>1, <2>1, <2>3 DEF on_validate, Upnps, UpnpSteps, PortForwarded, Launched
  <2> QED BY <2>2, <2>3
<1>6. CASE \E ok \in BOOLEAN : on_unmapping_port(ok)
  BY <1>1, <1>6 DEF on_unmapping_port, Upnps, UpnpSteps, PortForwarded, Launched
<1>7. CASE RouterMaps
  BY <1>1, <1>7 DEF RouterMaps, Upnps, UpnpSteps, PortForwarded, Launched
<1>8. CASE RouterUnmaps
  BY <1>1, <1>8 DEF RouterUnmaps, Upnps, UpnpSteps, PortForwarded, Launched
<1>9. CASE upnp_shutdown_start
  BY <1>1, <1>9 DEF upnp_shutdown_start, Upnps, UpnpSteps, PortForwarded, Launched
<1>10. CASE upnp_finish
  BY <1>1, <1>10 DEF upnp_finish, Upnps, UpnpSteps, PortForwarded, Launched
<1>11. CASE \E a \in {"ok", "refused", "error"} : on_mapping_port(a)
  <2>1. upnp' \in {[upnp EXCEPT !.step = "none", !.st = "stopping"], [upnp EXCEPT !.step = "none"],
                    [upnp EXCEPT !.step = "validate"]}
    BY <1>11 DEF on_mapping_port
  <2>2. upnp.step \notin {"none", "unmapping"} /\ UNCHANGED <<uris, ssdp, queue, accepting, router, relay, gda, server>>
    BY <1>11 DEF on_mapping_port
  <2>3. upnp' \in Upnps /\ (upnp'.port <=> upnp.port) /\ (upnp'.step = "unmapping" => upnp' = upnp)
    BY <1>1, <2>1 DEF Upnps, UpnpSteps
  <2> QED BY <1>1, <2>2, <2>3 DEF PortForwarded, Launched
<1> QED BY <1>2, <1>3, <1>4, <1>5, <1>6, <1>7, <1>8, <1>9, <1>10, <1>11 DEF PortSteps

\* What is announced is waited for; addresses that are new are announced.
LEMMA AnnounceWell ==
    ASSUME NEW g \in Announcers, NEW us \in SUBSET Addresses, Waiting(g)
    PROVE  LET n == announce(g, us) IN
           /\ n \in Announcers /\ Waiting(n) /\ n.st = g.st
           /\ Announces(n, us)
<1>1. CASE us \ g.known = {}
  <2>1. announce(g, us) = g
    BY <1>1, Zenon DEF announce
  <2>2. us # {} => g.known # {}
    BY <1>1
  <2> QED BY <2>1, <2>2 DEF Waiting, Announces
<1>2. CASE us \ g.known # {}
  <2> DEFINE k == [g EXCEPT !.known = @ \cup us]
             n == [g EXCEPT !.known = @ \cup us, !.sent = Append(@, us)]
  <2>1. announce(g, us) = n
    BY <1>2, Zenon DEF announce
  <2>2. g.sent \in Seq(SUBSET Addresses) /\ g.known \cup us \in SUBSET Addresses
    BY DEF Announcers
  <2>3. Append(g.sent, us) \in Seq(SUBSET Addresses) /\ Append(g.sent, us) # <<>>
    BY <2>2, Appended
  <2>4. n \in Announcers
    BY <2>2, <2>3 DEF Announcers
  <2>5. n.sent = Append(g.sent, us) /\ n.st = g.st
    BY DEF Announcers
  <2> HIDE DEF n
  <2> QED BY <2>1, <2>3, <2>4, <2>5 DEF Waiting, Announces
<1> QED BY <1>1, <1>2

\* The announcer's own steps: an answer starts its timer, the timer announces
\* again, and an update is announced at once.
LEMMA AnnouncerStep ==
    ASSUME Well, AnnouncerSteps
    PROVE  /\ gda' \in Announcers /\ Waiting(gda') /\ Announces(gda', uris) /\ server' \in SUBSET Addresses
           /\ UNCHANGED <<uris, queue, accepting, ssdp, upnp, router, relay>>
<1>1. gda \in Announcers /\ Waiting(gda) /\ server \in SUBSET Addresses /\ uris \in SUBSET Addresses
  BY DEF Well, Typed
<1>2. CASE gda_on_timer
  <2> DEFINE g == [gda EXCEPT !.timer = FALSE, !.known = {}]
  <2>1. g \in Announcers /\ Waiting(g)
    BY <1>1 DEF Announcers, Waiting
  <2>2. gda' = announce(g, uris) /\ UNCHANGED <<uris, queue, accepting, ssdp, upnp, router, relay, server>>
    BY <1>2 DEF gda_on_timer
  <2> HIDE DEF g
  <2>3. gda' \in Announcers /\ Waiting(gda') /\ gda'.st = g.st /\ Announces(gda', uris)
    BY <1>1, <2>1, <2>2, AnnounceWell
  <2> QED BY <1>1, <2>2, <2>3
<1>3. CASE \E ok \in BOOLEAN : on_announce_response(ok)
  <2>1. PICK ok \in BOOLEAN : on_announce_response(ok)
    BY <1>3
  <2>2. gda.sent \in Seq(SUBSET Addresses) /\ gda.sent # <<>>
    BY <1>1, <2>1 DEF on_announce_response, Announcers
  <2>3. Tail(gda.sent) \in Seq(SUBSET Addresses) /\ Head(gda.sent) \in SUBSET Addresses
    BY <2>2
  <2> DEFINE g == [gda EXCEPT !.sent = Tail(@)]
  <2>4. g \in Announcers /\ g.st = gda.st
    BY <1>1, <2>3 DEF Announcers
  <2>5. /\ gda' = IF ~ok THEN [g EXCEPT !.st = "down", !.timer = FALSE]
                  ELSE IF g.st # "up" THEN g
                  ELSE [g EXCEPT !.timer = TRUE, !.known = IF gda.timer THEN {} ELSE @]
        /\ server' = IF ok THEN Head(gda.sent) ELSE server
    BY <2>1 DEF on_announce_response
  <2> HIDE DEF g
  <2>6. gda' \in Announcers /\ (gda'.st = "up" => gda'.timer)
    BY <2>4, <2>5 DEF Announcers
  <2>7. server' \in SUBSET Addresses /\ UNCHANGED <<uris, queue, accepting, ssdp, upnp, router, relay>>
    BY <1>1, <2>1, <2>3, <2>5 DEF on_announce_response
  <2> QED BY <2>6, <2>7 DEF Waiting, Announces
<1> QED BY <1>2, <1>3 DEF AnnouncerSteps

\* An applied update is the head of the queue, and the announcer starts on it.
LEMMA UpdateStep ==
    ASSUME Well, update_contact
    PROVE  /\ gda' \in Announcers /\ Waiting(gda') /\ Announces(gda', uris')
           /\ uris' = Head(queue) /\ queue' = Tail(queue)
           /\ uris' \in SUBSET Addresses /\ queue' \in Seq(SUBSET Addresses) /\ queue # <<>>
           /\ UNCHANGED <<accepting, ssdp, upnp, router, relay, server>>
<1>1. gda \in Announcers /\ Waiting(gda) /\ queue \in Seq(SUBSET Addresses) /\ queue # <<>>
  BY DEF Well, Typed, update_contact
<1>2. Head(queue) \in SUBSET Addresses /\ Tail(queue) \in Seq(SUBSET Addresses)
  BY <1>1
<1>3. gda' = gda_update_contact(Head(queue)) /\ uris' = Head(queue) /\ queue' = Tail(queue)
  BY DEF update_contact
<1>4. CASE gda.st # "up"
  BY <1>1, <1>2, <1>3, <1>4, Zenon DEF gda_update_contact, Waiting, Announces, update_contact
<1>5. CASE gda.st = "up"
  <2> DEFINE g == IF gda.timer THEN [gda EXCEPT !.timer = FALSE, !.known = {}] ELSE gda
  <2>1. g \in Announcers /\ Waiting(g)
    BY <1>1 DEF Announcers, Waiting
  <2>2. gda' = announce(g, Head(queue))
    BY <1>3, <1>5, Zenon DEF gda_update_contact
  <2> HIDE DEF g
  <2>3. gda' \in Announcers /\ Waiting(gda') /\ gda'.st = g.st /\ Announces(gda', Head(queue))
    BY <1>2, <2>1, <2>2, AnnounceWell
  <2> QED BY <1>1, <1>2, <1>3, <2>3 DEF update_contact
<1> QED BY <1>4, <1>5

\* The search touches nothing but itself.
LEMMA SearchStep ==
    ASSUME Well, SearchSteps
    PROVE  /\ ssdp' \in Searches /\ Launched'
           /\ UNCHANGED <<uris, queue, accepting, upnp, router, relay, gda, server>>
<1>1. ssdp \in Searches /\ Launched
  BY DEF Well, Typed
<1>2. CASE ssdp_on_start
  BY <1>1, <1>2 DEF ssdp_on_start, Searches, Launched
<1>3. CASE on_discovery_sent
  BY <1>1, <1>3 DEF on_discovery_sent, Searches, Launched
<1>4. CASE ssdp_on_timer
  BY <1>1, <1>4 DEF ssdp_on_timer, Stops, Searches, Launched
<1>5. CASE ssdp_finish
  BY <1>1, <1>5 DEF ssdp_finish, Searches, Launched
<1>6. CASE \E r \in {"recv", "send"} : on_udp_error(r)
  <2> PICK r \in {"recv", "send"} : on_udp_error(r)
    BY <1>6
  <2>1. UNCHANGED <<uris, queue, accepting, upnp, router, relay, gda, server>>
    BY DEF on_udp_error
  <2>2. ssdp' \in Searches
    BY <1>1 DEF on_udp_error, Stops, Searches
  <2>3. ssdp'.st \in {"off", "up"} => ssdp.st \in {"off", "up"}
    BY <1>1 DEF on_udp_error, Stops, Searches
  <2> QED BY <1>1, <2>1, <2>2, <2>3 DEF Launched
<1> QED BY <1>2, <1>3, <1>4, <1>5, <1>6 DEF SearchSteps

\* The acceptor starts before any other actor handles an event.
LEMMA AcceptorStep ==
    ASSUME Well, acceptor_on_start
    PROVE  /\ queue' \in Seq(SUBSET Addresses) /\ accepting' \in {"on", "down"} /\ accepting = "off"
           /\ UNCHANGED queue \/ Tells({"tcp"})
           /\ UNCHANGED <<uris, ssdp, upnp, router, relay, gda, server>>
<1>1. queue \in Seq(SUBSET Addresses) /\ {"tcp"} \in SUBSET Addresses
  BY DEF Well, Typed, Addresses
<1>2. Append(queue, {"tcp"}) \in Seq(SUBSET Addresses)
  BY <1>1, Appended
<1> QED BY <1>1, <1>2 DEF acceptor_on_start, Tells

\* The invariant holds of every configuration at the start.
LEMMA WellInit == ContactsInit => Well
<1> SUFFICES ASSUME NEW c \in Setups, Configured(c)
             PROVE  Well
  BY DEF ContactsInit
<1>1. c.relays \in Nat /\ c.reads \in Nat
  BY ContactsAssumption
<1>2. relay \in Relays /\ RelayAt(relay)
  BY <1>1 DEF Configured, Relays, RelayRecords, RelayStates, RelayAt, Orderly, Ending
<1>3. gda \in Announcers /\ Waiting(gda)
  BY DEF Configured, Announcers, Waiting
<1>4. upnp \in Upnps /\ ssdp \in Searches /\ Launched /\ PortForwarded
  BY DEF Configured, Upnps, UpnpSteps, Searches, Launched, PortForwarded
<1>5. /\ uris \in SUBSET Addresses /\ server \in SUBSET Addresses /\ queue \in Seq(SUBSET Addresses)
      /\ accepting \in {"off", "on", "down"} /\ router \in BOOLEAN /\ uris = {}
  <2>1. uris = {} /\ server = {} /\ queue = <<>> /\ accepting = "off" /\ router = FALSE
    BY DEF Configured
  <2>2. <<>> \in Seq(SUBSET Addresses)
    OBVIOUS
  <2>3. queue \in Seq(SUBSET Addresses)
    BY <2>1, <2>2
  <2> QED BY <2>1, <2>3
<1> QED BY <1>2, <1>3, <1>4, <1>5 DEF Well, Typed, Announces

\* Whatever happens next, what is asked of relay, router and discovery server
\* stays waited for.
LEMMA WellNext ==
    ASSUME Well, [ContactsNext]_contactsVars
    PROVE  Well'
<1>0. Typed /\ RelayAt(relay) /\ PortForwarded /\ Launched /\ Waiting(gda) /\ Announces(gda, uris)
  BY DEF Well
<1>1. CASE RelaySteps
  <2>1. RelayGood /\ UNCHANGED <<uris, accepting, ssdp, upnp, router, gda, server>>
    BY <1>1, RelayStep
  <2>2. relay' \in Relays /\ RelayAt(relay') /\ queue' \in Seq(SUBSET Addresses)
    BY <2>1 DEF RelayGood
  <2>3. Typed'
    BY <1>0, <2>1, <2>2 DEF Typed
  <2>4. PortForwarded' /\ Launched' /\ Waiting(gda') /\ Announces(gda', uris')
    BY <1>0, <2>1 DEF PortForwarded, Launched
  <2> QED BY <2>2, <2>3, <2>4 DEF Well
<1>2. CASE SearchSteps
  <2>1. ssdp' \in Searches /\ Launched' /\ UNCHANGED <<uris, queue, accepting, upnp, router, relay, gda, server>>
    BY <1>2, SearchStep
  <2>2. Typed'
    BY <1>0, <2>1 DEF Typed
  <2>3. RelayAt(relay') /\ PortForwarded' /\ Waiting(gda') /\ Announces(gda', uris')
    BY <1>0, <2>1 DEF PortForwarded
  <2> QED BY <2>1, <2>2, <2>3 DEF Well
<1>3. CASE PortSteps
  <2>1. /\ upnp' \in Upnps /\ router' \in BOOLEAN /\ PortForwarded' /\ Launched'
        /\ queue' \in Seq(SUBSET Addresses) /\ ssdp' \in Searches
        /\ UNCHANGED <<uris, accepting, relay, gda, server>>
    BY <1>3, UpnpStep
  <2>2. Typed'
    BY <1>0, <2>1 DEF Typed
  <2> QED BY <1>0, <2>1, <2>2 DEF Well
<1>4. CASE AnnouncerSteps
  <2>1. /\ gda' \in Announcers /\ Waiting(gda') /\ Announces(gda', uris) /\ server' \in SUBSET Addresses
        /\ UNCHANGED <<uris, queue, accepting, ssdp, upnp, router, relay>>
    BY <1>4, AnnouncerStep
  <2>2. Typed'
    BY <1>0, <2>1 DEF Typed
  <2>3. RelayAt(relay') /\ PortForwarded' /\ Launched'
    BY <1>0, <2>1 DEF PortForwarded, Launched
  <2> QED BY <2>1, <2>2, <2>3 DEF Well
<1>5. CASE acceptor_on_start
  <2>1. /\ queue' \in Seq(SUBSET Addresses) /\ accepting' \in {"on", "down"}
        /\ UNCHANGED <<uris, ssdp, upnp, router, relay, gda, server>>
    BY <1>5, AcceptorStep
  <2>2. Typed'
    BY <1>0, <2>1 DEF Typed
  <2>3. RelayAt(relay') /\ PortForwarded' /\ Launched' /\ Waiting(gda') /\ Announces(gda', uris')
    BY <1>0, <2>1 DEF PortForwarded, Launched
  <2> QED BY <2>2, <2>3 DEF Well
<1>6. CASE update_contact
  <2>1. /\ gda' \in Announcers /\ Waiting(gda') /\ Announces(gda', uris')
        /\ uris' \in SUBSET Addresses /\ queue' \in Seq(SUBSET Addresses)
        /\ UNCHANGED <<accepting, ssdp, upnp, router, relay, server>>
    BY <1>6, UpdateStep
  <2>2. Typed'
    BY <1>0, <2>1 DEF Typed
  <2>3. RelayAt(relay') /\ PortForwarded' /\ Launched'
    BY <1>0, <2>1 DEF PortForwarded, Launched
  <2> QED BY <2>1, <2>2, <2>3 DEF Well
<1>7. CASE UNCHANGED contactsVars
  BY <1>0, <1>7 DEF contactsVars, Well, Typed, PortForwarded, Launched
<1> QED BY <1>1, <1>2, <1>3, <1>4, <1>5, <1>6, <1>7, Steps

\* When one list of addresses at most is on its way, it is made of the latest.
LEMMA LatestTold ==
    ASSUME Typed, NEW us \in SUBSET Addresses, Tells(us), queue = <<>>
    PROVE  Latest' = us /\ Len(queue') = 1 /\ queue' # <<>> /\ Latest = uris
<1>1. queue' = Append(queue, us) /\ queue \in Seq(SUBSET Addresses) /\ Len(queue) = 0
  BY DEF Tells, Typed
<1>2. queue' # <<>> /\ Len(queue') = 1 /\ queue'[1] = us
  BY <1>1, Appended
<1> QED BY <1>2 DEF Latest

\* No actor's update undoes another's, when updates are applied in turn.
LEMMA CurrentNext ==
    ASSUME Prompt, Well, Current, [ContactsNext]_contactsVars
    PROVE  Current'
<1>0. /\ Typed /\ Len(queue) <= 1 /\ Listed(Latest, relay, upnp)
      /\ accepting = "off" => queue = <<>> /\ relay.rx = {} /\ ~upnp.port
  BY DEF Well, Current
<1>1. CASE RelaySteps
  <2>1. /\ RelayGood /\ UNCHANGED <<uris, accepting, ssdp, upnp, router, gda, server>>
        /\ accepting # "off" \/ (UNCHANGED queue /\ relay'.rx = relay.rx)
        /\ UNCHANGED queue \/ Turn
    BY <1>1, RelayStep
  <2>2. CASE UNCHANGED queue /\ (Member(relay') <=> Member(relay))
    <3>1. Latest' = Latest
      BY <2>1, <2>2 DEF Latest
    <3> QED BY <1>0, <2>1, <2>2, <3>1 DEF Current, Listed, Member
  <2>3. ASSUME NEW us \in SUBSET Addresses, Tells(us), "ext" \in uris => "ext" \in us,
               "relay" \in us <=> Member(relay')
        PROVE  Current'
    <3>1. queue # queue'
      <4>1. queue \in Seq(SUBSET Addresses) /\ queue' = Append(queue, us)
        BY <1>0, <2>3 DEF Typed, Tells
      <4>2. Len(queue') = Len(queue) + 1
        BY <4>1, Appended
      <4> QED BY <4>1, <4>2
    <3>2. queue = <<>> /\ accepting # "off"
      BY <2>1, <3>1 DEF Turn
    <3>3. Latest' = us /\ Len(queue') = 1 /\ Latest = uris
      BY <1>0, <2>3, <3>2, LatestTold
    <3> QED BY <1>0, <2>1, <2>3, <3>2, <3>3 DEF Current, Listed, Member
  <2>4. CASE Tells(uris \ {"relay"}) /\ ~Member(relay')
    <3>1. uris \ {"relay"} \in SUBSET Addresses
      BY <1>0 DEF Typed
    <3> QED BY <2>3, <2>4, <3>1
  <2>5. CASE Tells(uris \cup {"relay"}) /\ Member(relay')
    <3>1. uris \cup {"relay"} \in SUBSET Addresses
      BY <1>0 DEF Typed, Addresses
    <3> QED BY <2>3, <2>5, <3>1
  <2> QED BY <2>1, <2>2, <2>4, <2>5 DEF RelayGood, RelayEffect
<1>2. CASE SearchSteps
  <2>1. UNCHANGED <<uris, queue, accepting, upnp, relay>>
    BY <1>2, SearchStep
  <2> QED BY <1>0, <2>1 DEF Current, Latest
<1>3. CASE PortSteps
  <2>1. /\ UNCHANGED <<uris, accepting, relay>>
        /\ \/ UNCHANGED queue /\ (upnp'.port => upnp.port)
           \/ Turn /\ Tells(uris \cup {"ext"})
    BY <1>3, UpnpStep
  <2>2. CASE UNCHANGED queue /\ (upnp'.port => upnp.port)
    BY <1>0, <2>1, <2>2 DEF Current, Latest, Listed
  <2>3. CASE Turn /\ Tells(uris \cup {"ext"})
    <3>1. uris \cup {"ext"} \in SUBSET Addresses
      BY <1>0 DEF Typed, Addresses
    <3>2. queue = <<>> /\ accepting # "off"
      BY <2>3 DEF Turn
    <3>3. Latest' = uris \cup {"ext"} /\ Len(queue') = 1 /\ Latest = uris
      BY <1>0, <2>3, <3>1, <3>2, LatestTold
    <3> QED BY <1>0, <2>1, <3>2, <3>3 DEF Current, Listed
  <2> QED BY <2>1, <2>2, <2>3
<1>4. CASE AnnouncerSteps
  <2>1. UNCHANGED <<uris, queue, accepting, upnp, relay>>
    BY <1>4, AnnouncerStep
  <2> QED BY <1>0, <2>1 DEF Current, Latest
<1>5. CASE acceptor_on_start
  <2>1. /\ accepting' \in {"on", "down"} /\ accepting = "off"
        /\ UNCHANGED queue \/ Tells({"tcp"})
        /\ UNCHANGED <<uris, upnp, relay>>
    BY <1>5, AcceptorStep
  <2>2. CASE UNCHANGED queue
    BY <1>0, <2>1, <2>2 DEF Current, Latest
  <2>3. CASE Tells({"tcp"})
    <3>1. {"tcp"} \in SUBSET Addresses
      BY DEF Addresses
    <3>2. Latest' = {"tcp"} /\ Len(queue') = 1
      BY <1>0, <2>1, <2>3, <3>1, LatestTold
    <3> QED BY <1>0, <2>1, <3>2 DEF Current, Listed
  <2> QED BY <2>1, <2>2, <2>3
<1>6. CASE update_contact
  <2>1. /\ uris' = Head(queue) /\ queue' = Tail(queue) /\ queue # <<>>
        /\ UNCHANGED <<accepting, upnp, relay>>
    BY <1>6, UpdateStep
  <2>2. queue \in Seq(SUBSET Addresses) /\ Len(queue) = 1
    <3>1. queue \in Seq(SUBSET Addresses) /\ Len(queue) <= 1
      BY <1>0 DEF Typed
    <3>2. Len(queue) \in Nat /\ Len(queue) # 0
      BY <2>1, <3>1, EmptySeq
    <3>3. \A n \in Nat : n # 0 /\ n <= 1 => n = 1
      OBVIOUS
    <3> QED BY <3>1, <3>2, <3>3, Zenon
  <2>3. queue' = <<>> /\ uris' = queue[1]
    BY <2>1, <2>2
  <2>4. Latest' = Latest
    BY <2>1, <2>2, <2>3 DEF Latest
  <2>5. Len(queue') <= 1
    BY <2>3
  <2> QED BY <1>0, <2>1, <2>3, <2>4, <2>5 DEF Current
<1>7. CASE UNCHANGED contactsVars
  BY <1>0, <1>7 DEF contactsVars, Current, Latest
<1> QED BY <1>1, <1>2, <1>3, <1>4, <1>5, <1>6, <1>7, Steps

----------------------------------------------------------------------------
(* Theorems *)

\* What is asked is waited for: a write to the relay and its answer have timers, a
\* port the actor holds is forwarded, and a device with addresses is announced
\* or about to be, however long updates are on their way.
THEOREM Watched == ContactsSpec => [](RelayWatched /\ PortForwarded /\ NeverIdle)
<1>1. ContactsInit => Well
  BY WellInit
<1>2. Well /\ [ContactsNext]_contactsVars => Well'
  BY WellNext
<1>3. Well => RelayWatched /\ PortForwarded /\ NeverIdle
  BY DEF Well, RelayAt, RelayWatched, NeverIdle, Announces
<1> QED BY <1>1, <1>2, <1>3, PTL DEF ContactsSpec

\* The addresses are those the device can be reached at: a relay it joined and a
\* port it mapped are listed, a relay it left is not, whichever actors send
\* their lists, as long as an update is applied before the next event is handled.
THEOREM AddressesRight ==
    ASSUME Prompt
    PROVE  ContactsSpec => []ContactsSound
<1>1. ContactsInit => Well /\ Current
  <2> SUFFICES ASSUME ContactsInit
               PROVE  Well /\ Current
    OBVIOUS
  <2>1. uris = {} /\ queue = <<>> /\ relay.rx = {} /\ ~upnp.port
    BY DEF ContactsInit, Configured
  <2>2. Latest = {} /\ Len(queue) <= 1
    BY <2>1 DEF Latest
  <2> QED BY <2>1, <2>2, WellInit DEF Current, Listed
<1>2. Well /\ Current /\ [ContactsNext]_contactsVars => (Well /\ Current)'
  BY WellNext, CurrentNext
<1>3. Well /\ Current => ContactsSound
  <2> SUFFICES ASSUME Well, Current
               PROVE  ContactsSound
    OBVIOUS
  <2>1. RelayWatched /\ PortForwarded /\ NeverIdle
    BY DEF Well, RelayAt, RelayWatched, NeverIdle, Announces
  <2>2. ContactsTypeOK
    BY DEF Well, Typed, ContactsTypeOK, Addresses, Relays, RelayRecords, Upnps, UpnpSteps
  <2>3. ContactsRight
    BY DEF Current, Latest, Listed, ContactsRight, Joined
  <2> QED BY <2>1, <2>2, <2>3 DEF ContactsSound
<1> QED BY <1>1, <1>2, <1>3, PTL DEF ContactsSpec
=============================================================================
