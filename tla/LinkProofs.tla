----------------------------- MODULE LinkProofs -----------------------------
(***************************************************************************)
(* One connection, for any addresses and however many messages: the attempt*)
(* and the peer actor keep their invariants, one step of one of them at a  *)
(* time.                                                                   *)
(***************************************************************************)
EXTENDS Link, SequenceTheorems, WellFoundedInduction, TLAPS

\* The records of the two actors.
Attempts ==
    [idx : Nat, st : {"none", "init", "asked", "stopping", "down"}, res : [Resources -> Nat],
     relaying : BOOLEAN, connected : BOOLEAN, session : BOOLEAN, state : BOOLEAN]
Peers ==
    [st : {"none", "up", "asked", "stopping", "down"}, res : [PeerResources -> Nat],
     read : {"hello", "controlled"}, tx : Seq({"data", "final"}), item : {"none", "data", "final"},
     io_error : BOOLEAN, ping : BOOLEAN, cut : BOOLEAN, ctl : BOOLEAN, early : Nat, got : Nat, rx : Nat,
     had_reads : BOOLEAN, had_writes : BOOLEAN, had_ping : BOOLEAN]

\* The operations of an attempt; a lookup, a connect and a handshake run alone.
Pending == Resources \ {"initializing"}
Quiet(i) == \A r \in Pending : i.res[r] = 0
Alone(i) == \A r \in {"resolving", "connect", "handshake"} : i.res[r] > 0 => \A x \in Pending \ {r} : i.res[x] = 0

\* What an attempt has reached.  One that may go on to the next address has not
\* connected, so that nothing is left to fail a second time; one that lets go of
\* `initializing` has talked to the device.
AttemptWell(i) ==
    /\ i \in Attempts /\ i.idx <= Len(linkUris)
    /\ \A r \in Resources : i.res[r] <= 1
    /\ Alone(i)
    /\ i.relaying => role = "active"
    /\ i.st = "none" => i.res["initializing"] = 0 /\ ~i.relaying /\ ~i.session
    /\ i.st \in {"none", "down"} => Quiet(i)
    /\ i.st = "init" /\ i.res["initializing"] = 0 => Quiet(i) /\ ~i.relaying
    /\ i.st = "init" /\ role = "active" =>
          (i.res["read"] > 0 \/ i.res["write"] > 0 \/ i.res["handshake"] > 0 \/ i.session => i.connected)
    /\ i.st = "asked" => \A r \in {"resolving", "connect", "handshake"} : i.res[r] = 0

\* What a peer actor has reached.  Between the shutdown and the end it waits for
\* the close message: it is queued, or it was sent.
PeerWell(p) ==
    /\ p \in Peers
    /\ \A r \in PeerResources \ {"finalization"} : p.res[r] <= 1
    /\ p.item = "none" => p.res["io_write"] = 0
    /\ p.ping <=> p.res["ping_timer"] > 0
    /\ p.ctl => p.early = 0
    /\ p.st = "none" => p = Gone
    /\ p.st \in {"up", "asked"} => p.res["finalization"] = 0
    /\ p.st = "stopping" /\ ~p.io_error => p.res["finalization"] > 0 \/ p.item = "final"
    /\ p.st = "down" => (\A r \in PeerResources : p.res[r] = 0) /\ (p.io_error \/ p.item = "final")

LinkWell ==
    /\ role \in Roles
    /\ linkUris \in Seq({"tcp", "relay", "broken"})
    /\ AttemptWell(I) /\ PeerWell(peer)
    /\ handed \in {"no", "peer"}
    /\ handed = "no" => peer.st = "none"
    /\ handed # "no" => st \notin {"none", "init"}

----------------------------------------------------------------------------
(* The attempt *)

\* An attempt that has let go of its last operation and may start the next.
Free(i) ==
    /\ i \in Attempts /\ i.idx <= Len(linkUris) /\ i.st = "init"
    /\ Quiet(i) /\ i.res["initializing"] = 1
    /\ i.relaying => role = "active"
    /\ role = "active" /\ i.session => i.connected

\* But for its resources q is i.
Alike(i, q) ==
    q.idx = i.idx /\ q.st = i.st /\ q.relaying = i.relaying /\ q.connected = i.connected /\ q.session = i.session

\* Resources are taken and given back one by one.
LEMMA AcquireIs ==
    ASSUME NEW i \in Attempts, NEW r \in Resources
    PROVE  /\ Acquire(i, r) \in Attempts /\ Alike(i, Acquire(i, r))
           /\ Acquire(i, r).res = [i.res EXCEPT ![r] = @ + 1]
  BY DEF Acquire, Attempts, Alike
LEMMA ReleaseIs ==
    ASSUME NEW i \in Attempts, NEW r \in Resources, i.res[r] > 0
    PROVE  /\ Release(i, r) \in Attempts /\ Alike(i, Release(i, r))
           /\ Release(i, r).res = [i.res EXCEPT ![r] = @ - 1]
<1>1. i.res[r] - 1 \in Nat
  BY DEF Attempts
<1> QED BY <1>1 DEF Release, Attempts, Alike

\* The record is what the variables become.
LEMMA Became ==
    ASSUME NEW i, Becomes(i), AttemptWell(i), UNCHANGED <<role, linkUris>>
    PROVE  AttemptWell(I)' /\ st' = i.st
<1>1. i = [idx |-> i.idx, st |-> i.st, res |-> i.res, relaying |-> i.relaying, connected |-> i.connected,
           session |-> i.session, state |-> i.state]
  BY DEF AttemptWell, Attempts
<1>2. I' = i
  BY <1>1 DEF I, Becomes
<1>3. AttemptWell(I') = AttemptWell(i)
  BY <1>2
<1> QED BY <1>2 DEF Becomes, AttemptWell, Alone, Quiet

\* do_shutdown asks an attempt to stop that waits for nothing but a relay.
LEMMA Asks ==
    ASSUME NEW i \in Attempts, i.idx <= Len(linkUris), i.st = "init", i.relaying => role = "active",
           \A r \in Resources : i.res[r] <= 1,
           \A r \in {"resolving", "connect", "handshake"} : i.res[r] = 0
    PROVE  AttemptWell(do_shutdown(i)) /\ do_shutdown(i).st = "asked"
<1> DEFINE q == [i EXCEPT !.st = "asked"]
<1>1. q \in Attempts /\ q.st = "asked" /\ q.res = i.res /\ q.idx = i.idx /\ q.relaying = i.relaying
  BY DEF Attempts
<1>2. do_shutdown(i) = q
  BY DEF do_shutdown
<1> HIDE DEF q
<1>3. AttemptWell(q)
  BY <1>1 DEF AttemptWell, Alone, Quiet, Pending
<1> QED BY <1>1, <1>2, <1>3

\* A free attempt can be asked to stop.
LEMMA FreeAsks ==
    ASSUME NEW i, Free(i) PROVE AttemptWell(do_shutdown(i)) /\ do_shutdown(i).st = "asked"
<1>1. i \in Attempts /\ i.idx <= Len(linkUris) /\ i.st = "init" /\ (i.relaying => role = "active")
  BY DEF Free
<1>2. \A r \in Resources : i.res[r] <= 1
  BY DEF Free, Quiet, Pending, Resources, Attempts
<1>3. \A r \in {"resolving", "connect", "handshake"} : i.res[r] = 0
  BY DEF Free, Quiet, Pending, Resources
<1> QED BY <1>1, <1>2, <1>3, Asks

\* A lookup starts in a free attempt.
LEMMA ResolveWell ==
    ASSUME NEW i, Free(i) PROVE AttemptWell(resolve(i)) /\ resolve(i).st = "init"
<1> DEFINE q == Acquire(i, "resolving")
<1>1. q \in Attempts /\ Alike(i, q) /\ q.res = [i.res EXCEPT !["resolving"] = @ + 1]
  BY AcquireIs DEF Free, Resources
<1>2. resolve(i) = q
  BY DEF resolve
<1> HIDE DEF q
<1>3. /\ q.res["resolving"] = 1 /\ q.res["initializing"] = 1
      /\ \A r \in Pending \ {"resolving"} : q.res[r] = 0
  BY <1>1 DEF Free, Quiet, Pending, Resources, Attempts
<1>4. \A r \in Resources : q.res[r] <= 1
  BY <1>3 DEF Pending, Resources
<1>5. q.st = "init" /\ q.idx <= Len(linkUris) /\ (q.relaying => role = "active")
      /\ (role = "active" /\ q.session => q.connected)
  BY <1>1 DEF Free, Alike
<1>6. Alone(q)
  BY <1>3 DEF Alone, Pending, Resources
<1>7. AttemptWell(q)
  BY <1>1, <1>3, <1>4, <1>5, <1>6 DEF AttemptWell, Pending, Resources
<1> QED BY <1>2, <1>5, <1>7

\* Every set of numbers has a least one.
LEMMA Least ==
    ASSUME NEW S \in SUBSET Nat, S # {}
    PROVE  \E n \in S : \A m \in S : n <= m
<1>1. PICK n \in S : \A m \in S : ~(<<m, n>> \in OpToRel(<, Nat))
  BY NatLessThanWellFounded, WFMin, Zenon
<1>2. \A m \in S : <<m, n>> \in OpToRel(<, Nat) <=> m < n
  BY DEF OpToRel
<1>3. \A m \in S : ~(m < n)
  BY <1>1, <1>2, Zenon
<1> QED BY <1>3

\* initiate_active takes the next address, or gives up.
LEMMA TryNext ==
    ASSUME linkUris \in Seq({"tcp", "relay", "broken"}), NEW i, Free(i), role = "active"
    PROVE  AttemptWell(initiate_active(i)) /\ initiate_active(i).st \in {"init", "asked"}
<1> DEFINE more == {k \in i.idx + 1 .. Len(linkUris) : linkUris[k] # "broken"}
           k == CHOOSE k \in more : \A j \in more : k <= j
           n == [i EXCEPT !.idx = k]
           e == [i EXCEPT !.idx = Len(linkUris)]
<1>1. i.idx \in Nat /\ Len(linkUris) \in Nat /\ i \in Attempts /\ ~Stopping(i)
  BY DEF Free, Attempts, Stopping
<1>2. more \in SUBSET Nat
  BY <1>1
<1>3. initiate_active(i) = IF more = {} THEN do_shutdown(e)
                           ELSE IF linkUris[k] = "tcp" THEN initiate_active_tls(n) ELSE initiate_active_relay(n)
  BY <1>1 DEF initiate_active
<1>4. CASE more = {}
  <2>1. e \in Attempts /\ e.idx = Len(linkUris) /\ e.st = i.st /\ e.res = i.res /\ e.relaying = i.relaying
        /\ e.session = i.session /\ e.connected = i.connected
    BY <1>1 DEF Attempts
  <2> HIDE DEF e
  <2>2. Free(e)
    BY <1>1, <2>1 DEF Free, Quiet
  <2> QED BY <1>3, <1>4, <2>2, FreeAsks
<1>5. CASE more # {}
  <2>1. k \in more
    <3> HIDE DEF more
    <3>1. \E x \in more : \A j \in more : x <= j
      BY <1>2, <1>5, Least
    <3> QED BY <3>1, Zenon
  <2>2. k \in Nat /\ k <= Len(linkUris)
    BY <1>1, <2>1
  <2> HIDE DEF k
  <2> DEFINE a == [n EXCEPT !.relaying = FALSE, !.session = FALSE]
             b == [n EXCEPT !.relaying = TRUE, !.session = FALSE]
  <2>3. /\ a \in Attempts /\ a.idx = k /\ a.st = i.st /\ a.res = i.res /\ a.relaying = FALSE /\ a.session = FALSE
        /\ b \in Attempts /\ b.idx = k /\ b.st = i.st /\ b.res = i.res /\ b.relaying = TRUE /\ b.session = FALSE
    BY <1>1, <2>2 DEF Attempts
  <2>4. initiate_active_tls(n) = resolve(a) /\ initiate_active_relay(n) = resolve(b)
    BY DEF initiate_active_tls, initiate_active_relay
  <2> HIDE DEF a, b
  <2>5. Free(a) /\ Free(b)
    BY <2>2, <2>3 DEF Free, Quiet
  <2>6. initiate_active(i) \in {resolve(a), resolve(b)}
    BY <1>3, <1>5, <2>4
  <2> QED BY <2>5, <2>6, ResolveWell
<1> QED BY <1>4, <1>5

\* initiate_handshake: from now on the attempt has connected.
LEMMA HandshakeWell ==
    ASSUME NEW i, Free(i)
    PROVE  AttemptWell(initiate_handshake(i)) /\ initiate_handshake(i).st = "init"
<1> DEFINE c == [i EXCEPT !.connected = TRUE]
           q == Acquire(c, "handshake")
<1>1. c \in Attempts /\ c.idx = i.idx /\ c.st = "init" /\ c.res = i.res /\ c.relaying = i.relaying
      /\ c.connected = TRUE
  BY DEF Free, Attempts
<1>2. initiate_handshake(i) = q
  BY DEF initiate_handshake, Stopping, Free
<1> HIDE DEF c
<1>3. q \in Attempts /\ Alike(c, q) /\ q.res = [i.res EXCEPT !["handshake"] = @ + 1]
  BY <1>1, AcquireIs DEF Resources
<1> HIDE DEF q
<1>4. /\ q.res["handshake"] = 1 /\ q.res["initializing"] = 1
      /\ \A r \in Pending \ {"handshake"} : q.res[r] = 0
  BY <1>3 DEF Free, Quiet, Pending, Resources, Attempts
<1>5. \A r \in Resources : q.res[r] <= 1
  BY <1>4 DEF Pending, Resources
<1>6. q.st = "init" /\ q.idx <= Len(linkUris) /\ (q.relaying => role = "active") /\ q.connected
  BY <1>1, <1>3 DEF Free, Alike
<1>7. Alone(q)
  BY <1>4 DEF Alone, Pending, Resources
<1>8. AttemptWell(q)
  BY <1>3, <1>4, <1>5, <1>6, <1>7 DEF AttemptWell, Pending, Resources
<1> QED BY <1>2, <1>6, <1>8

\* A request to a relay and its answer: an active attempt has connected before.
LEMMA AskRelayWell ==
    ASSUME NEW i, Free(i), role = "active" => i.connected
    PROVE  /\ AttemptWell(Acquire(Acquire(i, "read"), "write"))
           /\ Acquire(Acquire(i, "read"), "write").st = "init"
<1> DEFINE a == Acquire(i, "read")
           q == Acquire(a, "write")
<1>1. a \in Attempts /\ Alike(i, a) /\ a.res = [i.res EXCEPT !["read"] = @ + 1]
  BY AcquireIs DEF Free, Resources
<1> HIDE DEF a
<1>2. q \in Attempts /\ Alike(a, q) /\ q.res = [a.res EXCEPT !["write"] = @ + 1]
  BY <1>1, AcquireIs DEF Resources
<1> HIDE DEF q
<1>3. /\ q.res["read"] = 1 /\ q.res["write"] = 1 /\ q.res["initializing"] = 1
      /\ \A r \in Pending \ {"read", "write"} : q.res[r] = 0
  <2>1. i.res \in [Resources -> Nat] /\ a.res \in [Resources -> Nat]
    BY <1>1 DEF Free, Attempts
  <2>2. /\ a.res["read"] = 1 /\ a.res["initializing"] = 1
        /\ \A r \in Pending \ {"read"} : a.res[r] = 0
    BY <1>1, <2>1 DEF Free, Quiet, Pending, Resources
  <2> QED BY <1>2, <2>1, <2>2 DEF Pending, Resources
<1>4. \A r \in Resources : q.res[r] <= 1
  BY <1>3 DEF Pending, Resources
<1>5. q.st = "init" /\ q.idx <= Len(linkUris) /\ (q.relaying => role = "active") /\ (role = "active" => q.connected)
  BY <1>1, <1>2 DEF Free, Alike
<1>6. Alone(q)
  BY <1>3 DEF Alone, Pending, Resources
<1>7. AttemptWell(q)
  BY <1>2, <1>3, <1>4, <1>5, <1>6 DEF AttemptWell, Pending, Resources
<1> QED BY <1>5, <1>7, Zenon DEF a, q

\* The life of an attempt.
Onward ==
    \/ st' = st
    \/ st = "none" /\ st' \in {"init", "asked"}
    \/ st = "init" /\ st' \in {"asked", "stopping"}
    \/ st = "asked" /\ st' = "stopping"
    \/ st = "stopping" /\ st' = "down"

\* Whoever waits for an operation is not idle or gone, and waits for a lookup, a
\* connect or a handshake only until it is asked to stop.
LEMMA Held ==
    ASSUME AttemptWell(I), NEW r \in Pending, Has(r)
    PROVE  /\ st \in {"init", "asked", "stopping"} /\ I \in Attempts /\ I.res = res /\ I.st = st /\ res[r] > 0
           /\ r \in {"resolving", "connect", "handshake"} => st # "asked"
<1>1. I.res = res /\ I.st = st /\ res[r] > 0 /\ I \in Attempts
  BY DEF I, AttemptWell, Has
<1>2. st \in {"none", "init", "asked", "stopping", "down"}
  BY <1>1 DEF Attempts
<1>3. st \notin {"none", "down"}
  BY <1>1 DEF AttemptWell, Quiet
<1>4. r \in {"resolving", "connect", "handshake"} => st # "asked"
  BY <1>1 DEF AttemptWell
<1> QED BY <1>1, <1>2, <1>3, <1>4

\* The end of the only operation frees the attempt.
LEMMA Freed ==
    ASSUME AttemptWell(I), NEW r \in Pending, Has(r), st = "init",
           r \in {"resolving", "connect", "handshake"} \/ (r = "read" /\ ~Has("write"))
    PROVE  Free(Release(I, r)) /\ (role = "active" /\ r \in {"handshake", "read"} => Release(I, r).connected)
<1> DEFINE q == Release(I, r)
<1>1. I \in Attempts /\ I.res = res /\ I.st = "init" /\ res[r] > 0 /\ r \in Resources
  BY Held DEF Pending
<1>2. q \in Attempts /\ Alike(I, q) /\ q.res = [res EXCEPT ![r] = @ - 1]
  BY <1>1, ReleaseIs
<1> HIDE DEF q
<1>3. res \in [Resources -> Nat]
  BY <1>1 DEF Attempts
<1>4. \A x \in Pending \ {r} : res[x] = 0
  <2>1. CASE r \in {"resolving", "connect", "handshake"}
    BY <1>1, <2>1 DEF AttemptWell, Alone
  <2>2. CASE r = "read" /\ ~Has("write")
    <3>1. \A x \in {"resolving", "connect", "handshake"} : x \in Resources /\ ~(res[x] > 0)
      BY <1>1, <2>2 DEF AttemptWell, Alone, Pending, Resources
    <3>2. \A x \in {"resolving", "connect", "handshake", "write"} : res[x] = 0
      BY <1>3, <2>2, <3>1 DEF Has, Resources
    <3> QED BY <2>2, <3>2 DEF Pending, Resources
  <2> QED BY <2>1, <2>2
<1>5. res[r] = 1 /\ res["initializing"] = 1
  <2>1. res[r] <= 1 /\ res["initializing"] <= 1
    BY <1>1 DEF AttemptWell, Resources
  <2>2. res["initializing"] # 0
    BY <1>1 DEF AttemptWell, Quiet
  <2> QED BY <1>1, <1>3, <2>1, <2>2 DEF Resources
<1>6. Quiet(q) /\ q.res["initializing"] = 1
  BY <1>2, <1>3, <1>4, <1>5 DEF Quiet, Pending, Resources
<1>7. q.idx <= Len(linkUris) /\ q.st = "init" /\ (q.relaying => role = "active")
      /\ (role = "active" /\ (q.session \/ r \in {"handshake", "read"}) => q.connected)
  BY <1>1, <1>2 DEF Alike, AttemptWell
<1>8. Free(q)
  BY <1>2, <1>6, <1>7 DEF Free
<1> QED BY <1>7, <1>8 DEF q

\* While the actor stops, operations only end.
LEMMA Stopped ==
    ASSUME AttemptWell(I), NEW r \in Pending, Has(r), st = "stopping"
    PROVE  AttemptWell(Release(I, r)) /\ Release(I, r).st = "stopping" /\ Stopping(Release(I, r))
<1> DEFINE q == Release(I, r)
<1>1. I \in Attempts /\ I.res = res /\ I.st = "stopping" /\ res[r] > 0 /\ r \in Resources
  BY Held DEF Pending
<1>2. q \in Attempts /\ Alike(I, q) /\ q.res = [res EXCEPT ![r] = @ - 1]
  BY <1>1, ReleaseIs
<1> HIDE DEF q
<1>3. res \in [Resources -> Nat] /\ q.res \in [Resources -> Nat]
  BY <1>1, <1>2 DEF Attempts
<1>4. \A x \in Resources : q.res[x] <= res[x] /\ res[x] <= 1
  BY <1>1, <1>2, <1>3 DEF AttemptWell
<1>5. Alone(q)
  <2>1. ASSUME NEW x \in {"resolving", "connect", "handshake"}, q.res[x] > 0, NEW y \in Pending \ {x}
        PROVE  q.res[y] = 0
    <3>1. x \in Resources /\ y \in Resources
      BY DEF Resources, Pending
    <3>2. res[x] > 0
      BY <1>3, <1>4, <2>1, <3>1
    <3>3. res[y] = 0
      BY <1>1, <3>2 DEF AttemptWell, Alone
    <3> QED BY <1>3, <1>4, <3>1, <3>3
  <2> QED BY <2>1 DEF Alone
<1>6. q.st = "stopping" /\ q.idx <= Len(linkUris) /\ (q.relaying => role = "active")
  BY <1>1, <1>2 DEF Alike, AttemptWell
<1>7. \A x \in Resources : q.res[x] <= 1
  BY <1>3, <1>4
<1>8. AttemptWell(q)
  BY <1>2, <1>5, <1>6, <1>7 DEF AttemptWell
<1> QED BY <1>6, <1>8 DEF q, Stopping

\* configure begins the attempt in the way of its role.
LEMMA ConfigureWell ==
    ASSUME AttemptWell(I), linkUris \in Seq({"tcp", "relay", "broken"}), Configure
    PROVE  AttemptWell(I)' /\ Onward
<1> DEFINE a == [I EXCEPT !.st = "init"]
           i == Acquire(a, "initializing")
           s == send_state(i)
           t == [i EXCEPT !.session = TRUE]
<1>1. I \in Attempts /\ I.st = "none" /\ I.res["initializing"] = 0 /\ ~I.relaying /\ ~I.session /\ Quiet(I)
      /\ I.idx <= Len(linkUris) /\ I.res \in [Resources -> Nat]
  <2>1. I.st = "none" /\ I \in Attempts
    BY DEF I, Configure, AttemptWell
  <2> QED BY <2>1 DEF AttemptWell, Attempts
<1>2. a \in Attempts /\ a.st = "init" /\ a.res = I.res /\ a.idx = I.idx /\ a.relaying = I.relaying
      /\ a.session = I.session
  BY <1>1 DEF Attempts
<1> HIDE DEF a
<1>3. i \in Attempts /\ Alike(a, i) /\ i.res = [I.res EXCEPT !["initializing"] = @ + 1]
  BY <1>2, AcquireIs DEF Resources
<1> HIDE DEF i
<1>4. Quiet(i) /\ i.res["initializing"] = 1
  BY <1>1, <1>3 DEF Quiet, Pending, Resources
<1>5. Free(i)
  BY <1>1, <1>2, <1>3, <1>4 DEF Free, Alike
<1>6. s \in Attempts /\ Alike(i, s) /\ s.res = i.res
  BY <1>3 DEF send_state, Attempts, Alike
<1>7. t \in Attempts /\ t.idx = i.idx /\ t.st = i.st /\ t.res = i.res /\ t.relaying = i.relaying
  BY <1>3 DEF Attempts
<1>8. Becomes(IF role = "active" THEN initiate_active(s) ELSE IF role = "passive" THEN initiate_handshake(i) ELSE resolve(t))
  BY DEF Configure, initiate_passive, initiate_relay_passive, a, i
<1> HIDE DEF s, t
<1>9. Free(s) /\ (role # "active" => Free(t))
  BY <1>4, <1>5, <1>6, <1>7 DEF Free, Alike, Quiet
<1>10. \E q : Becomes(q) /\ AttemptWell(q) /\ q.st \in {"init", "asked"}
  <2>1. CASE role = "active"
    BY <2>1, <1>8, <1>9, TryNext
  <2>2. CASE role = "passive"
    BY <2>2, <1>5, <1>8, HandshakeWell
  <2>3. CASE role \notin {"active", "passive"}
    BY <2>3, <1>8, <1>9, ResolveWell
  <2> QED BY <2>1, <2>2, <2>3
<1>11. UNCHANGED <<role, linkUris>> /\ st = "none"
  BY DEF Configure
<1> QED BY <1>10, <1>11, Became DEF Onward

\* A lookup ends: connect, the next address, or give up.
LEMMA ResolvedWell ==
    ASSUME AttemptWell(I), linkUris \in Seq({"tcp", "relay", "broken"}), NEW ok \in BOOLEAN, on_resolve(ok)
    PROVE  AttemptWell(I)' /\ Onward
<1> DEFINE i == Release(I, "resolving")
           c == Acquire(i, "connect")
<1>1. UNCHANGED <<role, linkUris>> /\ Has("resolving") /\ "resolving" \in Pending
      /\ Becomes(IF Stopping(i) THEN i ELSE IF ok THEN c
                 ELSE IF role = "active" THEN initiate_active(i) ELSE do_shutdown(i))
  BY DEF on_resolve, Pending, Resources
<1>2. CASE st = "stopping"
  <2>1. AttemptWell(i) /\ i.st = "stopping" /\ Stopping(i)
    BY <1>1, <1>2, Stopped
  <2> QED BY <1>1, <1>2, <2>1, Became DEF Onward
<1>3. CASE st = "init"
  <2>1. Free(i)
    BY <1>1, <1>3, Freed
  <2> HIDE DEF i
  <2>2. ~Stopping(i) /\ i.st = "init"
    BY <2>1 DEF Free, Stopping
  <2>3. AttemptWell(c) /\ c.st = "init"
    <3>1. c \in Attempts /\ Alike(i, c) /\ c.res = [i.res EXCEPT !["connect"] = @ + 1]
      BY <2>1, AcquireIs DEF Free, Resources
    <3> HIDE DEF c
    <3>2. /\ c.res["connect"] = 1 /\ c.res["initializing"] = 1
          /\ \A r \in Pending \ {"connect"} : c.res[r] = 0
      BY <2>1, <3>1 DEF Free, Quiet, Pending, Resources, Attempts
    <3>3. \A r \in Resources : c.res[r] <= 1
      BY <3>2 DEF Pending, Resources
    <3>4. c.st = "init" /\ c.idx <= Len(linkUris) /\ (c.relaying => role = "active")
          /\ (role = "active" /\ c.session => c.connected)
      BY <2>1, <3>1 DEF Free, Alike
    <3>5. Alone(c)
      BY <3>2 DEF Alone, Pending, Resources
    <3> QED BY <3>1, <3>2, <3>3, <3>4, <3>5 DEF AttemptWell, Pending, Resources
  <2> HIDE DEF c
  <2>4. \E q : Becomes(q) /\ AttemptWell(q) /\ q.st \in {"init", "asked"}
    BY <1>1, <2>1, <2>2, <2>3, TryNext, FreeAsks
  <2> QED BY <1>1, <1>3, <2>4, Became DEF Onward
<1> QED BY <1>1, <1>2, <1>3, Held

\* An operation fails.  An attempt that has not connected goes on; the other half
\* of an exchange with a relay may still fail, but then the actor is stopping.
LEMMA FailedWell ==
    ASSUME AttemptWell(I), linkUris \in Seq({"tcp", "relay", "broken"}),
           NEW r \in {"connect", "handshake", "read", "write"}, on_io_error(r)
    PROVE  AttemptWell(I)' /\ Onward
<1> DEFINE i == Release(I, r)
           d == [i EXCEPT !.connected = FALSE]
<1>1. UNCHANGED <<role, linkUris>> /\ Has(r) /\ r \in Pending /\ r \in Resources /\ st # "asked"
      /\ Becomes(IF Stopping(i) THEN i ELSE IF ~linked /\ role = "active" THEN initiate_active(i) ELSE do_shutdown(d))
  BY DEF on_io_error, Pending, Resources
<1>2. CASE st = "stopping"
  <2>1. AttemptWell(i) /\ i.st = "stopping" /\ Stopping(i)
    BY <1>1, <1>2, Stopped
  <2> QED BY <1>1, <1>2, <2>1, Became DEF Onward
<1>3. CASE st = "init"
  <2>1. I \in Attempts /\ I.res = res /\ I.st = "init" /\ res[r] > 0 /\ res \in [Resources -> Nat] /\ I.connected = linked
    BY <1>1, <1>3, Held DEF Attempts, I
  <2>2. i \in Attempts /\ Alike(I, i) /\ i.res = [res EXCEPT ![r] = @ - 1]
    BY <1>1, <2>1, ReleaseIs
  <2>3. CASE ~linked /\ role = "active"
    <3>1. r = "connect"
      BY <2>1, <2>3 DEF AttemptWell
    <3>2. Free(i)
      BY <1>1, <1>3, <3>1, Freed
    <3> HIDE DEF i
    <3>3. ~Stopping(i)
      BY <3>2 DEF Free, Stopping
    <3> QED BY <1>1, <1>3, <2>3, <3>2, <3>3, TryNext, Became DEF Onward
  <2>4. CASE ~(~linked /\ role = "active")
    <3> HIDE DEF i
    <3>1. d \in Attempts /\ d.idx = i.idx /\ d.st = i.st /\ d.res = i.res /\ d.relaying = i.relaying
      BY <2>2 DEF Attempts
    <3> HIDE DEF d
    <3>2. \A x \in Resources : d.res[x] <= 1
      BY <2>1, <2>2, <3>1 DEF AttemptWell
    <3>3. ASSUME NEW x \in {"resolving", "connect", "handshake"} PROVE d.res[x] = 0
      <4>1. x \in Resources /\ (x # r => res[x] = 0)
        <5>1. x \in Resources
          BY DEF Resources
        <5>2. ASSUME x # r, res[x] > 0 PROVE FALSE
          BY <1>1, <2>1, <5>2 DEF AttemptWell, Alone
        <5> QED BY <2>1, <5>1, <5>2
      <4>2. res[r] = 1
        BY <1>1, <2>1 DEF AttemptWell
      <4> QED BY <1>1, <2>1, <2>2, <3>1, <4>1, <4>2
    <3>4. d.idx <= Len(linkUris) /\ d.st = "init" /\ (d.relaying => role = "active")
      BY <2>1, <2>2, <3>1 DEF AttemptWell, Alike
    <3>5. AttemptWell(do_shutdown(d)) /\ do_shutdown(d).st = "asked"
      BY <3>1, <3>2, <3>3, <3>4, Asks
    <3>6. ~Stopping(i)
      BY <3>1, <3>4 DEF Stopping
    <3> QED BY <1>1, <1>3, <2>4, <3>5, <3>6, Became DEF Onward
  <2> QED BY <2>3, <2>4
<1> QED BY <1>1, <1>2, <1>3, Held

\* The transport connects: a handshake, or the request to join a session, for
\* which an active attempt was invited over a connection it had.
LEMMA ConnectWell ==
    ASSUME AttemptWell(I), on_connect PROVE AttemptWell(I)' /\ Onward
<1> DEFINE i == Release(I, "connect")
<1>1. UNCHANGED <<role, linkUris>> /\ Has("connect") /\ "connect" \in Pending
      /\ Becomes(IF role = "active" /\ (relaying \/ ~session) THEN initiate_handshake(i) ELSE join_session(i))
  BY DEF on_connect, Pending, Resources
<1>2. CASE st = "stopping"
  <2>1. AttemptWell(i) /\ i.st = "stopping" /\ Stopping(i)
    BY <1>1, <1>2, Stopped
  <2> HIDE DEF i
  <2>2. initiate_handshake(i) = i /\ join_session(i) = i
    BY <2>1 DEF initiate_handshake, join_session
  <2> QED BY <1>1, <1>2, <2>1, <2>2, Became DEF Onward
<1>3. CASE st = "init"
  <2>1. Free(i)
    BY <1>1, <1>3, Freed
  <2>2. i.session = session
    <3>1. I \in Attempts /\ I.res["connect"] > 0 /\ I.session = session /\ "connect" \in Resources
      BY <1>1, Held DEF I, Resources
    <3> QED BY <3>1, ReleaseIs DEF Alike
  <2> HIDE DEF i
  <2>3. ~Stopping(i)
    BY <2>1 DEF Free, Stopping
  <2>4. CASE role = "active" /\ (relaying \/ ~session)
    BY <1>1, <1>3, <2>1, <2>4, HandshakeWell, Became DEF Onward
  <2>5. CASE ~(role = "active" /\ (relaying \/ ~session))
    <3>1. role = "active" => i.connected
      BY <2>1, <2>2, <2>5 DEF Free
    <3>2. join_session(i) = Acquire(Acquire(i, "read"), "write")
      BY <2>3 DEF join_session
    <3>3. Becomes(join_session(i))
      BY <1>1, <2>5
    <3> QED BY <1>1, <1>3, <2>1, <3>1, <3>2, <3>3, AskRelayWell, Became DEF Onward
  <2> QED BY <2>4, <2>5
<1> QED BY <1>1, <1>2, <1>3, Held

\* A handshake ends.  The one with the relay leads to a request; only the one with
\* the device lets go of `initializing`.
LEMMA ShakenWell ==
    ASSUME AttemptWell(I), NEW good \in BOOLEAN, on_handshake(good) PROVE AttemptWell(I)' /\ Onward
<1> DEFINE i == Release(I, "handshake")
           n == send_state(i)
           e == Release(n, "initializing")
<1>1. UNCHANGED <<role, linkUris>> /\ Has("handshake") /\ "handshake" \in Pending /\ "handshake" \in Resources
      /\ Becomes(IF ~good THEN do_shutdown(i) ELSE IF relaying THEN request_relay_connection(n)
                 ELSE IF ~Stopping(n) THEN e ELSE n)
  BY DEF on_handshake, Pending, Resources
<1>2. I \in Attempts /\ I.res["handshake"] > 0 /\ I.relaying = relaying
  BY <1>1, Held DEF I
<1>3. i \in Attempts /\ i.relaying = relaying
  BY <1>1, <1>2, ReleaseIs DEF Alike
<1>4. n \in Attempts /\ Alike(i, n) /\ n.res = i.res
  <2> HIDE DEF i
  <2> QED BY <1>3 DEF send_state, Attempts, Alike
<1>5. CASE st = "stopping"
  <2>1. AttemptWell(i) /\ i.st = "stopping" /\ Stopping(i)
    BY <1>1, <1>5, Stopped
  <2> HIDE DEF i, n, e
  <2>2. Stopping(n) /\ n.st = "stopping" /\ do_shutdown(i) = i
    BY <1>4, <2>1 DEF Alike, Stopping, do_shutdown
  <2>3. AttemptWell(n)
    BY <1>4, <2>1 DEF AttemptWell, Alike, Alone, Quiet
  <2>4. request_relay_connection(n) = n
    BY <2>2 DEF request_relay_connection
  <2>5. \E q : Becomes(q) /\ AttemptWell(q) /\ q.st = "stopping"
    BY <1>1, <2>1, <2>2, <2>3, <2>4
  <2> QED BY <1>1, <1>5, <2>5, Became DEF Onward
<1>6. CASE st = "init"
  <2>1. Free(i) /\ (role = "active" => i.connected)
    BY <1>1, <1>6, Freed
  <2> HIDE DEF i, n
  <2>2. Free(n) /\ (role = "active" => n.connected) /\ ~Stopping(n)
    BY <1>4, <2>1 DEF Free, Alike, Quiet, Stopping
  <2>3. CASE ~good
    BY <1>1, <1>6, <2>1, <2>3, FreeAsks, Became DEF Onward
  <2>4. CASE good /\ relaying
    <3>1. request_relay_connection(n) = Acquire(Acquire(n, "read"), "write")
      BY <2>2 DEF request_relay_connection
    <3>2. Becomes(request_relay_connection(n))
      BY <1>1, <2>4
    <3> QED BY <1>1, <1>6, <2>2, <3>1, <3>2, AskRelayWell, Became DEF Onward
  <2>5. CASE good /\ ~relaying
    <3>1. "initializing" \in Resources /\ n.res["initializing"] = 1 /\ n \in Attempts
      BY <2>2 DEF Free, Resources
    <3>2. e \in Attempts /\ Alike(n, e) /\ e.res = [n.res EXCEPT !["initializing"] = @ - 1]
      BY <3>1, ReleaseIs
    <3>3. Becomes(e)
      BY <1>1, <2>2, <2>5
    <3> HIDE DEF e
    <3>4. e.res["initializing"] = 0 /\ Quiet(e)
      BY <2>2, <3>1, <3>2 DEF Free, Quiet, Pending, Resources, Attempts
    <3>5. e.st = "init" /\ e.idx <= Len(linkUris) /\ ~e.relaying /\ (role = "active" /\ e.session => e.connected)
      BY <1>3, <1>4, <2>2, <2>5, <3>2 DEF Free, Alike
    <3>6. \A r \in Resources : e.res[r] = 0
      BY <3>4 DEF Quiet, Pending
    <3>7. AttemptWell(e)
      BY <3>2, <3>4, <3>5, <3>6 DEF AttemptWell, Alone, Resources
    <3> QED BY <1>1, <1>6, <3>3, <3>5, <3>7, Became DEF Onward
  <2> QED BY <2>3, <2>4, <2>5
<1> QED BY <1>1, <1>5, <1>6, Held

\* A request was sent; its answer is still awaited.
LEMMA WrittenWell ==
    ASSUME AttemptWell(I), on_write PROVE AttemptWell(I)' /\ Onward
<1> DEFINE q == Release(I, "write")
<1>1. UNCHANGED <<role, linkUris>> /\ Has("write") /\ "write" \in Pending /\ "write" \in Resources /\ Becomes(q)
      /\ st # "asked"
  BY DEF on_write, Pending, Resources
<1>2. CASE st = "stopping"
  BY <1>1, <1>2, Stopped, Became DEF Onward
<1>3. CASE st = "init"
  <2>1. I \in Attempts /\ I.res = res /\ I.st = "init" /\ res["write"] > 0 /\ res \in [Resources -> Nat]
    BY <1>1, <1>3, Held DEF Attempts
  <2>2. q \in Attempts /\ Alike(I, q) /\ q.res = [res EXCEPT !["write"] = @ - 1]
    BY <1>1, <2>1, ReleaseIs
  <2> HIDE DEF q
  <2>3. res["write"] = 1 /\ q.res["write"] = 0 /\ \A x \in Resources \ {"write"} : q.res[x] = res[x]
    BY <1>1, <2>1, <2>2 DEF AttemptWell
  <2>4. ASSUME NEW x \in {"resolving", "connect", "handshake"} PROVE q.res[x] = 0
    <3>1. x \in Resources /\ "write" \in Pending \ {x} /\ ~(res[x] > 0)
      BY <1>1, <2>1, <2>3 DEF AttemptWell, Alone, Resources
    <3> QED BY <2>1, <2>3, <3>1
  <2>5. \A x \in Resources : q.res[x] <= 1
    BY <2>1, <2>3 DEF AttemptWell
  <2>6. Alone(q)
    BY <2>4 DEF Alone
  <2>7. q.res["initializing"] # 0
    BY <1>1, <2>1, <2>3 DEF AttemptWell, Quiet, Resources
  <2>8. q.st = "init" /\ q.idx <= Len(linkUris) /\ (q.relaying => role = "active") /\ (role = "active" => q.connected)
    BY <2>1, <2>2 DEF Alike, AttemptWell
  <2>9. AttemptWell(q)
    BY <2>2, <2>5, <2>6, <2>7, <2>8 DEF AttemptWell
  <2> QED BY <1>1, <1>3, <2>8, <2>9, Became DEF Onward
<1> QED BY <1>1, <1>2, <1>3, Held

\* The relay let the attempt join a session, or not.
LEMMA JoinedWell ==
    ASSUME AttemptWell(I), NEW ok \in BOOLEAN, on_read_relay(ok) PROVE AttemptWell(I)' /\ Onward
<1> DEFINE i == Release(I, "read")
<1>1. UNCHANGED <<role, linkUris>> /\ Has("read") /\ ~Has("write") /\ "read" \in Pending /\ st # "asked"
      /\ Becomes(IF Stopping(i) THEN i ELSE IF ok THEN initiate_handshake(i) ELSE do_shutdown(i))
  BY DEF on_read_relay, Pending, Resources
<1>2. CASE st = "stopping"
  BY <1>1, <1>2, Stopped, Became DEF Onward
<1>3. CASE st = "init"
  <2>1. Free(i)
    BY <1>1, <1>3, Freed
  <2> HIDE DEF i
  <2>2. ~Stopping(i)
    BY <2>1 DEF Free, Stopping
  <2>3. \E q : Becomes(q) /\ AttemptWell(q) /\ q.st \in {"init", "asked"}
    BY <1>1, <2>1, <2>2, HandshakeWell, FreeAsks
  <2> QED BY <1>1, <1>3, <2>3, Became DEF Onward
<1> QED BY <1>1, <1>2, <1>3, Held

\* The relay invites the attempt into a session, or refuses.  An invitation is
\* followed even by an actor that stops.
LEMMA InvitedWell ==
    ASSUME AttemptWell(I), linkUris \in Seq({"tcp", "relay", "broken"}),
           NEW answer \in {"garbage", "refusal", "invitation"}, on_read_relay_active(answer)
    PROVE  AttemptWell(I)' /\ Onward
<1> DEFINE i == Release(I, "read")
           v == [i EXCEPT !.relaying = FALSE, !.session = TRUE]
           q == Acquire(v, "resolving")
<1>1. UNCHANGED <<role, linkUris>> /\ Has("read") /\ ~Has("write") /\ "read" \in Pending /\ st # "asked"
      /\ "read" \in Resources /\ "resolving" \in Resources /\ relaying
      /\ Becomes(IF answer = "garbage" THEN do_shutdown(i) ELSE IF answer = "refusal" THEN initiate_active(i) ELSE q)
  BY DEF on_read_relay_active, Pending, Resources, resolve
<1>2. role = "active" /\ I \in Attempts /\ I.res["read"] > 0 /\ I.res = res /\ res \in [Resources -> Nat]
  <2>1. I \in Attempts /\ I.res = res /\ res["read"] > 0
    BY <1>1, Held
  <2>2. I.relaying
    BY <1>1 DEF I
  <2> QED BY <2>1, <2>2 DEF AttemptWell, Attempts
<1>3. i \in Attempts /\ i.res = [res EXCEPT !["read"] = @ - 1] /\ Alike(I, i)
  BY <1>1, <1>2, ReleaseIs
<1>4. v \in Attempts /\ v.idx = i.idx /\ v.st = i.st /\ v.res = i.res /\ v.relaying = FALSE /\ v.session = TRUE
      /\ v.connected = i.connected
  <2> HIDE DEF i
  <2> QED BY <1>3 DEF Attempts
<1>5. CASE st = "stopping"
  <2>1. AttemptWell(i) /\ i.st = "stopping" /\ Stopping(i)
    BY <1>1, <1>5, Stopped
  <2>2. ASSUME NEW x \in Pending PROVE i.res[x] = 0
    <3>1. x \in Resources /\ res["read"] = 1
      BY <1>1, <1>2 DEF AttemptWell, Pending
    <3>2. x \in {"resolving", "connect", "handshake"} => ~(res[x] > 0)
      BY <1>1, <1>2 DEF AttemptWell, Alone
    <3>3. res["write"] = 0
      BY <1>1, <1>2 DEF Has, Resources
    <3>4. x # "read" => res[x] = 0
      BY <1>2, <3>1, <3>2, <3>3 DEF Pending, Resources
    <3> HIDE DEF i
    <3> QED BY <1>1, <1>2, <1>3, <3>1, <3>4
  <2> HIDE DEF i, v
  <2>3. do_shutdown(i) = i /\ initiate_active(i) = i
    BY <2>1 DEF do_shutdown, initiate_active
  <2>4. q \in Attempts /\ Alike(v, q) /\ q.res = [i.res EXCEPT !["resolving"] = @ + 1]
    BY <1>1, <1>4, AcquireIs
  <2> HIDE DEF q
  <2>5. i.res \in [Resources -> Nat] /\ "resolving" \in Pending
    BY <1>3 DEF Attempts, Pending, Resources
  <2>6. q.res["resolving"] = 1 /\ \A x \in Pending \ {"resolving"} : q.res[x] = 0
    BY <2>2, <2>4, <2>5, <1>1 DEF Pending
  <2>7. \A x \in Resources : q.res[x] <= 1
    <3>1. i.res["initializing"] <= 1 /\ q.res["initializing"] = i.res["initializing"]
      BY <2>1, <2>4, <2>5 DEF AttemptWell, Resources
    <3> QED BY <2>6, <3>1 DEF Pending
  <2>8. Alone(q)
    BY <2>6 DEF Alone, Pending, Resources
  <2>9. q.st = "stopping" /\ q.idx <= Len(linkUris) /\ ~q.relaying
    BY <1>4, <2>1, <2>4 DEF Alike, AttemptWell
  <2>10. AttemptWell(q)
    BY <2>4, <2>7, <2>8, <2>9 DEF AttemptWell
  <2>11. \E w : Becomes(w) /\ AttemptWell(w) /\ w.st = "stopping"
    BY <1>1, <2>1, <2>3, <2>9, <2>10
  <2> QED BY <1>1, <1>5, <2>11, Became DEF Onward
<1>6. CASE st = "init"
  <2>1. Free(i) /\ i.connected
    BY <1>1, <1>2, <1>6, Freed
  <2> HIDE DEF i, v
  <2>2. Free(v)
    BY <1>4, <2>1 DEF Free, Quiet
  <2>3. q = resolve(v)
    BY DEF resolve
  <2> HIDE DEF q
  <2>4. \E w : Becomes(w) /\ AttemptWell(w) /\ w.st \in {"init", "asked"}
    BY <1>1, <1>2, <2>1, <2>2, <2>3, ResolveWell, FreeAsks, TryNext
  <2> QED BY <1>1, <1>6, <2>4, Became DEF Onward
<1> QED BY <1>1, <1>5, <1>6, Held

\* The transport is handed over, and the attempt is over.
LEMMA HandedWell ==
    ASSUME AttemptWell(I), i_on_start PROVE AttemptWell(I)' /\ Onward /\ handed' = "peer" /\ st = "init" /\ st' = "asked"
<1>1. /\ I.st = "init" /\ I.res = res /\ I.idx = uri_idx /\ I.relaying = relaying /\ I \in Attempts
      /\ I'.st = "asked" /\ I'.res = res /\ I'.idx = uri_idx /\ I'.relaying = relaying
      /\ UNCHANGED <<role, linkUris>>
  BY DEF I, i_on_start, AttemptWell
<1>2. I' \in Attempts
  BY <1>1 DEF I, i_on_start, Attempts
<1>3. res \in [Resources -> Nat]
  BY <1>1 DEF Attempts
<1>4. res["initializing"] = 0
  BY <1>3 DEF i_on_start, Has, Resources
<1>5. Quiet(I) /\ ~relaying /\ uri_idx <= Len(linkUris)
  BY <1>1, <1>4 DEF AttemptWell
<1>6. \A r \in Resources : res[r] = 0
  BY <1>1, <1>4, <1>5 DEF Quiet, Pending
<1>7. AttemptWell(I)'
  BY <1>1, <1>2, <1>5, <1>6 DEF AttemptWell, Alone, Quiet, Resources, Pending
<1> QED BY <1>1, <1>5, <1>7 DEF i_on_start, Onward

\* The actor stops, by itself or because its time is over.
LEMMA StopWell ==
    ASSUME AttemptWell(I), shutdown_start PROVE AttemptWell(I)' /\ Onward
<1>1. /\ I.st = st /\ I.res = res /\ I.idx = uri_idx /\ I.relaying = relaying /\ I \in Attempts
      /\ I'.st = "stopping" /\ I'.res = res' /\ I'.idx = uri_idx /\ I'.relaying = relaying
      /\ UNCHANGED <<role, linkUris>>
  BY DEF I, shutdown_start, AttemptWell
<1>2. res \in [Resources -> Nat] /\ "initializing" \in Resources
  BY <1>1 DEF Attempts, Resources
<1>3. /\ res' \in [Resources -> Nat] /\ \A r \in Resources : res'[r] <= res[r]
      /\ \A r \in Pending : res'[r] = res[r]
  <2>1. res' = [res EXCEPT !["initializing"] = IF res["initializing"] > 0 THEN res["initializing"] - 1 ELSE res["initializing"]]
    BY DEF shutdown_start
  <2> QED BY <1>2, <2>1 DEF Pending
<1>4. I' \in Attempts
  BY <1>1, <1>3 DEF I, shutdown_start, Attempts
<1>5. \A r \in Resources : res'[r] <= 1
  BY <1>1, <1>2, <1>3 DEF AttemptWell
<1>6. Alone(I)'
  BY <1>1, <1>3 DEF AttemptWell, Alone, Pending, Resources
<1>7. AttemptWell(I)'
  BY <1>1, <1>4, <1>5, <1>6 DEF AttemptWell
<1> QED BY <1>7 DEF shutdown_start, Onward

\* Nothing is held any more: the actor is gone.
LEMMA FinishWell ==
    ASSUME AttemptWell(I), shutdown_finish PROVE AttemptWell(I)' /\ Onward
<1>1. /\ I.res = res /\ I.idx = uri_idx /\ I.relaying = relaying /\ I \in Attempts
      /\ I'.st = "down" /\ I'.res = res /\ I'.idx = uri_idx /\ I'.relaying = relaying
      /\ UNCHANGED <<role, linkUris>>
  BY DEF I, shutdown_finish, AttemptWell
<1>2. res \in [Resources -> Nat]
  BY <1>1 DEF Attempts
<1>3. \A r \in Resources : res[r] = 0
  BY <1>2 DEF shutdown_finish, Has
<1>4. I' \in Attempts
  BY <1>1 DEF I, shutdown_finish, Attempts
<1>5. AttemptWell(I)'
  BY <1>1, <1>3, <1>4 DEF AttemptWell, Alone, Quiet, Pending, Resources
<1> QED BY <1>5 DEF shutdown_finish, Onward

\* Every step of the attempt.
LEMMA AttemptSteps ==
    ASSUME LinkWell, Initiator
    PROVE  /\ AttemptWell(I)' /\ Onward
           /\ UNCHANGED <<role, linkUris, peer>>
           /\ handed' = handed \/ (st = "init" /\ st' = "asked" /\ handed' = "peer")
<1>1. AttemptWell(I) /\ linkUris \in Seq({"tcp", "relay", "broken"})
  BY DEF LinkWell
<1>2. CASE Configure
  BY <1>1, <1>2, ConfigureWell DEF Configure
<1>3. CASE on_connect
  BY <1>1, <1>3, ConnectWell DEF on_connect
<1>4. CASE on_write
  BY <1>1, <1>4, WrittenWell DEF on_write
<1>5. CASE i_on_start
  BY <1>1, <1>5, HandedWell DEF i_on_start
<1>6. CASE shutdown_start
  BY <1>1, <1>6, StopWell DEF shutdown_start
<1>7. CASE shutdown_finish
  BY <1>1, <1>7, FinishWell DEF shutdown_finish
<1>8. ASSUME NEW ok \in BOOLEAN, on_resolve(ok) PROVE AttemptWell(I)' /\ Onward /\ UNCHANGED <<role, linkUris, peer, handed>>
  BY <1>1, <1>8, ResolvedWell DEF on_resolve
<1>9. ASSUME NEW ok \in BOOLEAN, on_handshake(ok) PROVE AttemptWell(I)' /\ Onward /\ UNCHANGED <<role, linkUris, peer, handed>>
  BY <1>1, <1>9, ShakenWell DEF on_handshake
<1>10. ASSUME NEW ok \in BOOLEAN, on_read_relay(ok) PROVE AttemptWell(I)' /\ Onward /\ UNCHANGED <<role, linkUris, peer, handed>>
  BY <1>1, <1>10, JoinedWell DEF on_read_relay
<1>11. ASSUME NEW r \in {"connect", "handshake", "read", "write"}, on_io_error(r)
       PROVE AttemptWell(I)' /\ Onward /\ UNCHANGED <<role, linkUris, peer, handed>>
  BY <1>1, <1>11, FailedWell DEF on_io_error
<1>12. ASSUME NEW a \in {"garbage", "refusal", "invitation"}, on_read_relay_active(a)
       PROVE AttemptWell(I)' /\ Onward /\ UNCHANGED <<role, linkUris, peer, handed>>
  BY <1>1, <1>12, InvitedWell DEF on_read_relay_active
<1> QED BY <1>2, <1>3, <1>4, <1>5, <1>6, <1>7, <1>8, <1>9, <1>10, <1>11, <1>12 DEF Initiator

----------------------------------------------------------------------------
(* The peer actor *)

\* But for what is sent and the resources q is p.
Steady(p, q) ==
    /\ q.st = p.st /\ q.read = p.read /\ q.io_error = p.io_error /\ q.ping = p.ping /\ q.ctl = p.ctl /\ q.early = p.early
\* The peer goes on as before, greets, or ends.
Moves(p, q) ==
    \/ q.st = p.st /\ q.read \in {p.read, "controlled"}
    \/ p.st = "none" /\ q.st = "up" /\ q.read = "hello"
    \/ p.st = "up" /\ q.st \in {"asked", "stopping"}
    \/ p.st = "asked" /\ q.st = "stopping"
    \/ p.st = "stopping" /\ q.st = "down"

\* Resources are taken and given back one by one.
LEMMA PAcquireIs ==
    ASSUME NEW p \in Peers, NEW r \in PeerResources
    PROVE  /\ PAcquire(p, r) \in Peers /\ Steady(p, PAcquire(p, r))
           /\ PAcquire(p, r).tx = p.tx /\ PAcquire(p, r).item = p.item
           /\ PAcquire(p, r).res = [p.res EXCEPT ![r] = @ + 1]
<1> DEFINE f == [p.res EXCEPT ![r] = @ + 1]
           q == [p EXCEPT !.res = f]
<1>1. f \in [PeerResources -> Nat]
  BY DEF Peers
<1>2. PAcquire(p, r) = q
  BY DEF PAcquire, Peers
<1> HIDE DEF f
<1>3. q \in Peers /\ q.res = f /\ q.tx = p.tx /\ q.item = p.item
  BY <1>1 DEF Peers
<1>4. Steady(p, q)
  BY DEF Peers, Steady
<1> QED BY <1>2, <1>3, <1>4 DEF f
LEMMA PReleaseIs ==
    ASSUME NEW p \in Peers, NEW r \in PeerResources
    PROVE  /\ PRelease(p, r) \in Peers /\ Steady(p, PRelease(p, r))
           /\ PRelease(p, r).tx = p.tx /\ PRelease(p, r).item = p.item
           /\ PRelease(p, r).res = [p.res EXCEPT ![r] = IF @ > 0 THEN @ - 1 ELSE 0]
<1>1. CASE p.res[r] > 0
  <2>1. p.res[r] - 1 \in Nat
    BY <1>1 DEF Peers
  <2> QED BY <1>1, <2>1 DEF PRelease, PHas, Peers, Steady
<1>2. CASE ~(p.res[r] > 0)
  <2>1. p.res \in [PeerResources -> Nat] /\ p.res[r] = 0
    BY <1>2 DEF Peers
  <2>2. p.res = [p.res EXCEPT ![r] = IF @ > 0 THEN @ - 1 ELSE 0]
    BY <2>1
  <2> QED BY <1>2, <2>2 DEF PRelease, PHas, Steady
<1> QED BY <1>1, <1>2

\* process_tx_queue sends what is first in the queue.
LEMMA TurnIs ==
    ASSUME NEW p \in Peers, p.tx # <<>>
    PROVE  LET q == process_tx_queue(p)
           IN  /\ q \in Peers /\ Steady(p, q) /\ q.item # "none"
               /\ q.res = [p.res EXCEPT !["io_write"] = @ + 1]
<1> DEFINE a == [p EXCEPT !.item = Head(p.tx), !.tx = Tail(p.tx)]
           q == PAcquire(a, "io_write")
<1>1. Head(p.tx) \in {"data", "final"} /\ Tail(p.tx) \in Seq({"data", "final"})
  BY DEF Peers
<1>2. a \in Peers /\ Steady(p, a) /\ a.item # "none" /\ a.res = p.res
  BY <1>1 DEF Peers, Steady
<1>3. process_tx_queue(p) = q
  BY DEF process_tx_queue
<1> HIDE DEF a
<1>4. q \in Peers /\ Steady(a, q) /\ q.item = a.item /\ q.res = [a.res EXCEPT !["io_write"] = @ + 1]
  BY <1>2, PAcquireIs DEF PeerResources
<1> HIDE DEF q
<1> QED BY <1>2, <1>3, <1>4 DEF Steady

\* At most one buffer is being sent.
Pushed(p, q) ==
    /\ q \in Peers /\ Steady(p, q)
    /\ \A r \in PeerResources \ {"io_write", "finalization"} : q.res[r] = p.res[r]
    /\ \/ q.item = p.item /\ q.res["io_write"] = p.res["io_write"]
       \/ p.item = "none" /\ q.item # "none" /\ q.res["io_write"] = 1

\* push_write puts a message behind what is being sent, or sends it at once; for
\* the close message finalization is taken.
LEMMA PushIs ==
    ASSUME NEW p \in Peers, NEW final \in BOOLEAN, p.item = "none" => p.res["io_write"] = 0
    PROVE  LET q == push_write(p, final)
           IN  /\ Pushed(p, q)
               /\ q.res["finalization"] =
                      IF final /\ ~p.io_error THEN p.res["finalization"] + 1 ELSE p.res["finalization"]
<1> DEFINE m == IF final THEN "final" ELSE "data"
           a == [p EXCEPT !.tx = Append(@, m)]
           s == IF a.item = "none" THEN process_tx_queue(a) ELSE a
           f == PAcquire(s, "finalization")
<1>0. p.res \in [PeerResources -> Nat] /\ p.tx \in Seq({"data", "final"}) /\ m \in {"data", "final"}
  BY DEF Peers
<1>1. Append(p.tx, m) \in Seq({"data", "final"}) /\ Append(p.tx, m) # <<>>
  <2> HIDE DEF m
  <2> QED BY <1>0, AppendProperties
<1>2. a \in Peers /\ Steady(p, a) /\ a.tx # <<>> /\ a.item = p.item /\ a.res = p.res
  <2> HIDE DEF m
  <2> QED BY <1>1 DEF Peers, Steady
<1>3. push_write(p, final) = IF p.io_error THEN p ELSE IF ~final /\ p.item # "none" /\ p.tx # <<>> THEN p
                             ELSE IF final THEN f ELSE s
  BY DEF push_write
<1>4. Pushed(p, p)
  BY DEF Pushed, Steady
<1> HIDE DEF a
<1>5. Pushed(p, s) /\ s.res["finalization"] = p.res["finalization"] /\ s.res \in [PeerResources -> Nat]
  <2>1. CASE a.item = "none"
    <3>1. /\ s \in Peers /\ Steady(a, s) /\ s.item # "none"
          /\ s.res = [p.res EXCEPT !["io_write"] = @ + 1]
      BY <1>2, <2>1, TurnIs
    <3> HIDE DEF s
    <3>2. s.res["io_write"] = 1
      BY <1>0, <1>2, <2>1, <3>1 DEF PeerResources
    <3>3. \A r \in PeerResources \ {"io_write"} : s.res[r] = p.res[r]
      BY <1>0, <3>1
    <3>4. Steady(p, s)
      BY <1>2, <3>1 DEF Steady
    <3> QED BY <1>2, <2>1, <3>1, <3>2, <3>3, <3>4 DEF Pushed, PeerResources, Peers
  <2>2. CASE a.item # "none"
    <3>1. s = a
      BY <2>2
    <3> HIDE DEF s
    <3> QED BY <1>2, <3>1 DEF Pushed, Peers
  <2> QED BY <2>1, <2>2
<1> HIDE DEF s
<1>6. Pushed(p, f) /\ f.res["finalization"] = p.res["finalization"] + 1
  <2>1. f \in Peers /\ Steady(s, f) /\ f.item = s.item /\ f.res = [s.res EXCEPT !["finalization"] = @ + 1]
    BY <1>5, PAcquireIs DEF Pushed, PeerResources
  <2> HIDE DEF f
  <2>2. /\ f.res["finalization"] = p.res["finalization"] + 1
        /\ \A r \in PeerResources \ {"finalization"} : f.res[r] = s.res[r]
    BY <1>5, <2>1 DEF PeerResources
  <2>3. Steady(p, f)
    BY <1>5, <2>1 DEF Steady, Pushed
  <2> QED BY <1>5, <2>1, <2>2, <2>3 DEF Pushed, PeerResources
<1> HIDE DEF f, m
<1> QED BY <1>3, <1>4, <1>5, <1>6

\* A peer actor that runs.
Runs(p) == PeerWell(p) /\ p.st \in {"up", "asked", "stopping"}
\* From p to q nothing changes that the stages show, and no resource but those of R.
Tame(p, q, R) == q.st = p.st /\ q.read = p.read /\ \A r \in PeerResources \ R : q.res[r] = p.res[r]

\* Fields that do not matter.
LEMMA SameRuns ==
    ASSUME NEW p, Runs(p), NEW q \in Peers, Steady(p, q), q.item = p.item, q.res = p.res
    PROVE  Runs(q) /\ Tame(p, q, {})
<1>1. PeerWell(q)
  BY DEF Runs, PeerWell, Steady
<1> QED BY <1>1 DEF Runs, Steady, Tame

\* One resource of an operation is taken that was not held.
LEMMA TakeRuns ==
    ASSUME NEW p, Runs(p), NEW r \in {"io_read", "stats_timer"}, p.res[r] = 0
    PROVE  Runs(PAcquire(p, r)) /\ Tame(p, PAcquire(p, r), {r}) /\ Steady(p, PAcquire(p, r))
<1> DEFINE q == PAcquire(p, r)
<1>1. p \in Peers /\ p.res \in [PeerResources -> Nat] /\ r \in PeerResources
  BY DEF Runs, PeerWell, Peers, PeerResources
<1>2. q \in Peers /\ Steady(p, q) /\ q.item = p.item /\ q.res = [p.res EXCEPT ![r] = @ + 1]
  BY <1>1, PAcquireIs
<1> HIDE DEF q
<1>3. q.res[r] = 1 /\ \A x \in PeerResources \ {r} : q.res[x] = p.res[x]
  BY <1>1, <1>2
<1>4. \A x \in PeerResources \ {"finalization"} : q.res[x] <= 1
  BY <1>3 DEF Runs, PeerWell
<1>5. \A x \in {"io_write", "ping_timer", "finalization"} : x \in PeerResources /\ q.res[x] = p.res[x]
  BY <1>3 DEF PeerResources
<1>6. PeerWell(q)
  BY <1>2, <1>4, <1>5 DEF Runs, PeerWell, Steady
<1> QED BY <1>2, <1>3, <1>6 DEF Runs, Tame, Steady, q

\* The resource of an operation is given back.
LEMMA GiveRuns ==
    ASSUME NEW p, Runs(p), NEW r \in {"io_read", "io_write", "stats_timer"}
    PROVE  /\ Runs(PRelease(p, r)) /\ Tame(p, PRelease(p, r), {r}) /\ Steady(p, PRelease(p, r))
           /\ PRelease(p, r).res[r] = 0 /\ PRelease(p, r).item = p.item /\ PRelease(p, r).tx = p.tx
<1> DEFINE q == PRelease(p, r)
<1>1. p \in Peers /\ p.res \in [PeerResources -> Nat] /\ r \in PeerResources /\ p.res[r] <= 1
  BY DEF Runs, PeerWell, Peers, PeerResources
<1>2. q \in Peers /\ Steady(p, q) /\ q.item = p.item /\ q.tx = p.tx
      /\ q.res = [p.res EXCEPT ![r] = IF @ > 0 THEN @ - 1 ELSE 0]
  BY <1>1, PReleaseIs
<1> HIDE DEF q
<1>3. q.res[r] = 0 /\ \A x \in PeerResources \ {r} : q.res[x] = p.res[x]
  BY <1>1, <1>2
<1>4. \A x \in PeerResources \ {"finalization"} : q.res[x] <= 1
  BY <1>3 DEF Runs, PeerWell
<1>5. \A x \in {"ping_timer", "finalization"} : x \in PeerResources /\ q.res[x] = p.res[x]
  BY <1>3 DEF PeerResources
<1>6. q.item = "none" => q.res["io_write"] = 0
  BY <1>2, <1>3 DEF Runs, PeerWell, PeerResources
<1>7. PeerWell(q)
  BY <1>2, <1>4, <1>5, <1>6 DEF Runs, PeerWell, Steady
<1> QED BY <1>2, <1>3, <1>7 DEF Runs, Tame, Steady, q

\* The ping timer and what stands for it.
LEMMA PingRuns ==
    ASSUME NEW p, Runs(p), ~p.ping
    PROVE  Runs(reset_ping_timer(p)) /\ Tame(p, reset_ping_timer(p), {"ping_timer"})
<1> DEFINE a == [p EXCEPT !.ping = TRUE]
           q == PAcquire(a, "ping_timer")
<1>1. p \in Peers /\ p.res \in [PeerResources -> Nat] /\ p.res["ping_timer"] = 0
  BY DEF Runs, PeerWell, Peers, PeerResources
<1>2. a \in Peers /\ a.st = p.st /\ a.read = p.read /\ a.io_error = p.io_error /\ a.ping = TRUE /\ a.ctl = p.ctl
      /\ a.early = p.early /\ a.item = p.item /\ a.res = p.res
  BY <1>1 DEF Peers
<1> HIDE DEF a
<1>3. q \in Peers /\ Steady(a, q) /\ q.item = a.item /\ q.res = [p.res EXCEPT !["ping_timer"] = @ + 1]
  BY <1>2, PAcquireIs DEF PeerResources
<1>4. reset_ping_timer(p) \in {p, q}
  BY DEF reset_ping_timer, a
<1> HIDE DEF q
<1>5. q.res["ping_timer"] = 1 /\ \A x \in PeerResources \ {"ping_timer"} : q.res[x] = p.res[x]
  BY <1>1, <1>3 DEF PeerResources
<1>6. \A x \in PeerResources \ {"finalization"} : q.res[x] <= 1
  BY <1>5 DEF Runs, PeerWell
<1>7. \A x \in {"io_write", "finalization"} : q.res[x] = p.res[x]
  BY <1>5 DEF PeerResources
<1>8. PeerWell(q)
  BY <1>2, <1>3, <1>5, <1>6, <1>7 DEF Runs, PeerWell, Steady
<1>9. Runs(q) /\ Tame(p, q, {"ping_timer"}) /\ Tame(p, p, {"ping_timer"})
  BY <1>2, <1>3, <1>5, <1>8 DEF Runs, Tame, Steady
<1> QED BY <1>4, <1>9
LEMMA UnpingRuns ==
    ASSUME NEW p, Runs(p), p.ping
    PROVE  LET q == PRelease([p EXCEPT !.ping = FALSE], "ping_timer")
           IN  Runs(q) /\ Tame(p, q, {"ping_timer"}) /\ ~q.ping /\ q.item = p.item
<1> DEFINE a == [p EXCEPT !.ping = FALSE]
           q == PRelease(a, "ping_timer")
<1>1. p \in Peers /\ p.res \in [PeerResources -> Nat] /\ p.res["ping_timer"] <= 1
  BY DEF Runs, PeerWell, Peers, PeerResources
<1>2. a \in Peers /\ a.st = p.st /\ a.read = p.read /\ a.io_error = p.io_error /\ a.ping = FALSE /\ a.ctl = p.ctl
      /\ a.early = p.early /\ a.item = p.item /\ a.res = p.res
  BY <1>1 DEF Peers
<1> HIDE DEF a
<1>3. q \in Peers /\ Steady(a, q) /\ q.item = a.item
      /\ q.res = [p.res EXCEPT !["ping_timer"] = IF @ > 0 THEN @ - 1 ELSE 0]
  <2>1. "ping_timer" \in PeerResources
    BY DEF PeerResources
  <2>2. q \in Peers /\ Steady(a, q) /\ q.item = a.item
        /\ q.res = [a.res EXCEPT !["ping_timer"] = IF @ > 0 THEN @ - 1 ELSE 0]
    BY <1>2, <2>1, PReleaseIs
  <2> QED BY <1>2, <2>2
<1> HIDE DEF q
<1>4. q.res["ping_timer"] = 0 /\ \A x \in PeerResources \ {"ping_timer"} : q.res[x] = p.res[x]
  <2>1. "ping_timer" \in PeerResources
    BY DEF PeerResources
  <2> QED BY <1>1, <1>3, <2>1
<1>5. \A x \in PeerResources \ {"finalization"} : q.res[x] <= 1
  BY <1>4 DEF Runs, PeerWell
<1>6. \A x \in {"io_write", "finalization"} : q.res[x] = p.res[x]
  BY <1>4 DEF PeerResources
<1>7. PeerWell(q)
  BY <1>2, <1>3, <1>4, <1>5, <1>6 DEF Runs, PeerWell, Steady
<1>8. Runs(q) /\ Tame(p, q, {"ping_timer"}) /\ ~q.ping /\ q.item = p.item
  BY <1>2, <1>3, <1>4, <1>7 DEF Runs, Tame, Steady
<1> QED BY <1>8, Zenon DEF q, a

\* finalization is given back when the close message was sent, or cannot be.
LEMMA EndRuns ==
    ASSUME NEW p, Runs(p), p.io_error \/ p.item = "final"
    PROVE  LET q == PRelease(p, "finalization")
           IN  Runs(q) /\ Tame(p, q, {"finalization"}) /\ Steady(p, q) /\ q.item = p.item
<1> DEFINE q == PRelease(p, "finalization")
<1>1. p \in Peers /\ p.res \in [PeerResources -> Nat] /\ "finalization" \in PeerResources
  BY DEF Runs, PeerWell, Peers, PeerResources
<1>2. q \in Peers /\ Steady(p, q) /\ q.item = p.item
      /\ q.res = [p.res EXCEPT !["finalization"] = IF @ > 0 THEN @ - 1 ELSE 0]
  BY <1>1, PReleaseIs
<1> HIDE DEF q
<1>3. (p.res["finalization"] = 0 => q.res["finalization"] = 0) /\ \A x \in PeerResources \ {"finalization"} : q.res[x] = p.res[x]
  BY <1>1, <1>2
<1>4. \A x \in PeerResources \ {"finalization"} : q.res[x] <= 1
  BY <1>3 DEF Runs, PeerWell
<1>5. \A x \in {"ping_timer", "io_write"} : q.res[x] = p.res[x]
  BY <1>3 DEF PeerResources
<1>6. PeerWell(q)
  BY <1>2, <1>3, <1>4, <1>5 DEF Runs, PeerWell, Steady
<1>7. Runs(q) /\ Tame(p, q, {"finalization"}) /\ Steady(p, q) /\ q.item = p.item
  BY <1>2, <1>3, <1>6 DEF Runs, Tame, Steady
<1> QED BY <1>7, Zenon DEF q

\* do_shutdown asks an actor to stop that is up.
LEMMA AskRuns ==
    ASSUME NEW p, Runs(p)
    PROVE  LET q == p_do_shutdown(p)
           IN  /\ Runs(q) /\ q.read = p.read /\ q.res = p.res /\ q.ping = p.ping
               /\ q.st = (IF p.st = "up" THEN "asked" ELSE p.st)
<1> DEFINE a == [p EXCEPT !.st = "asked"]
<1>1. CASE p.st = "up"
  <2>1. a \in Peers /\ a.st = "asked" /\ a.read = p.read /\ a.res = p.res /\ a.item = p.item /\ a.ping = p.ping
        /\ a.ctl = p.ctl /\ a.early = p.early
    BY DEF Runs, PeerWell, Peers
  <2>2. p_do_shutdown(p) = a
    BY <1>1 DEF p_do_shutdown
  <2> HIDE DEF a
  <2>3. PeerWell(a)
    BY <1>1, <2>1 DEF Runs, PeerWell
  <2> QED BY <1>1, <2>1, <2>2, <2>3 DEF Runs
<1>2. CASE p.st # "up"
  BY <1>2 DEF p_do_shutdown
<1> QED BY <1>1, <1>2

\* read_more reads on while the actor is up.
LEMMA ReadRuns ==
    ASSUME NEW p, Runs(p), p.res["io_read"] = 0
    PROVE  Runs(read_more(p)) /\ Tame(p, read_more(p), {"io_read"}) /\ read_more(p).ping = p.ping
<1>1. read_more(p) \in {p, PAcquire(p, "io_read")}
  BY DEF read_more
<1>2. Tame(p, p, {"io_read"})
  BY DEF Tame
<1> QED BY <1>1, <1>2, TakeRuns DEF Steady

\* cancel_io only marks the transport.
LEMMA CutRuns ==
    ASSUME NEW p, Runs(p)
    PROVE  LET q == cancel_io(p) IN Runs(q) /\ Tame(p, q, {}) /\ Steady(p, q)
<1> DEFINE b == PHas(p, "io_read") \/ PHas(p, "io_write")
           q == [p EXCEPT !.cut = b]
<1>1. b \in BOOLEAN
  OBVIOUS
<1>2. cancel_io(p) = q
  BY DEF cancel_io
<1> HIDE DEF b
<1>3. q \in Peers /\ Steady(p, q) /\ q.item = p.item /\ q.res = p.res
  BY <1>1 DEF Runs, PeerWell, Peers, Steady
<1> HIDE DEF q
<1> QED BY <1>2, <1>3, SameRuns

\* A message of the controller is queued or sent.
LEMMA SendRuns ==
    ASSUME NEW p, Runs(p)
    PROVE  LET q == push_write(p, FALSE) IN Runs(q) /\ Tame(p, q, {"io_write"}) /\ Steady(p, q)
<1> DEFINE q == push_write(p, FALSE)
<1>1. p \in Peers /\ (p.item = "none" => p.res["io_write"] = 0)
  BY DEF Runs, PeerWell
<1>2. Pushed(p, q) /\ q.res["finalization"] = p.res["finalization"]
  BY <1>1, PushIs
<1> HIDE DEF q
<1>3. /\ \A x \in PeerResources \ {"io_write"} : q.res[x] = p.res[x]
      /\ q.res["ping_timer"] = p.res["ping_timer"]
  BY <1>2 DEF Pushed, PeerResources
<1>4. q.res["io_write"] <= 1 /\ (q.item = "none" => q.res["io_write"] = 0)
  <2>1. p.res["io_write"] <= 1
    BY DEF Runs, PeerWell, PeerResources
  <2> QED BY <1>1, <1>2, <2>1 DEF Pushed
<1>5. \A x \in PeerResources \ {"finalization"} : q.res[x] <= 1
  BY <1>3, <1>4 DEF Runs, PeerWell
<1>6. p.st = "stopping" /\ ~p.io_error => q.res["finalization"] > 0 \/ q.item = "final"
  <2>1. CASE q.item = p.item
    BY <1>2, <2>1 DEF Runs, PeerWell
  <2>2. CASE q.item # p.item
    <3>1. p.item = "none"
      BY <1>2, <2>2 DEF Pushed
    <3> QED BY <1>2, <3>1 DEF Runs, PeerWell
  <2> QED BY <2>1, <2>2
<1>7. PeerWell(q)
  BY <1>2, <1>3, <1>4, <1>5, <1>6 DEF Runs, PeerWell, Pushed, Steady
<1>8. Runs(q) /\ Tame(p, q, {"io_write"}) /\ Steady(p, q)
  BY <1>2, <1>3, <1>7 DEF Runs, Tame, Pushed, Steady
<1> QED BY <1>8, Zenon DEF q

\* An actor that holds something runs.
LEMMA Holds ==
    ASSUME NEW p, PeerWell(p), NEW r \in PeerResources, PHas(p, r) PROVE Runs(p) /\ p.res[r] > 0
<1>1. p.res[r] > 0 /\ p.st \in {"none", "up", "asked", "stopping", "down"}
  BY DEF PHas, PeerWell, Peers
<1>2. p.st # "none"
  BY <1>1 DEF PeerWell, Gone
<1>3. p.st # "down"
  BY <1>1 DEF PeerWell
<1> QED BY <1>1, <1>2, <1>3 DEF Runs

\* The record is what the variable becomes.
LEMMA PeerBecomes == ASSUME NEW q, PeerWell(q), peer' = q PROVE PeerWell(peer)'
  BY DEF PeerWell

\* The peer actor starts with hello.
LEMMA PeerStart ==
    ASSUME PeerWell(peer), p_on_start PROVE PeerWell(peer)' /\ Moves(peer, peer')
<1> DEFINE a == [peer EXCEPT !.st = "up"]
           b == push_write(a, FALSE)
           c == read_more(b)
           d == reset_ping_timer(c)
           e == reset_stats_timer(d)
<1>1. peer = Gone /\ peer \in Peers /\ peer' = e
  BY DEF p_on_start, PeerWell, Peer
<1>2. /\ a \in Peers /\ a.st = "up" /\ a.read = "hello" /\ a.item = "none" /\ ~a.ping /\ ~a.ctl
      /\ \A r \in PeerResources : a.res[r] = 0
  <2>1. a \in Peers /\ a.st = "up"
    BY <1>1 DEF Peers
  <2> QED BY <1>1, <2>1 DEF Gone
<1> HIDE DEF a
<1>3. Runs(a)
  BY <1>2 DEF Runs, PeerWell, PeerResources
<1>4. Runs(b) /\ Tame(a, b, {"io_write"}) /\ Steady(a, b)
  BY <1>3, SendRuns
<1> HIDE DEF b
<1>5. b.res["io_read"] = 0 /\ b.res["stats_timer"] = 0 /\ ~b.ping /\ b.st = "up" /\ b.read = "hello"
  BY <1>2, <1>4 DEF Tame, Steady, PeerResources
<1>6. Runs(c) /\ Tame(b, c, {"io_read"}) /\ c.ping = b.ping
  BY <1>4, <1>5, ReadRuns
<1> HIDE DEF c
<1>7. Runs(d) /\ Tame(c, d, {"ping_timer"})
  BY <1>5, <1>6, PingRuns
<1> HIDE DEF d
<1>8. d.res["stats_timer"] = 0 /\ d.st = "up" /\ d.read = "hello"
  BY <1>5, <1>6, <1>7 DEF Tame, PeerResources
<1>9. Runs(e) /\ Tame(d, e, {"stats_timer"})
  <2>1. e = PAcquire(d, "stats_timer")
    BY <1>8 DEF reset_stats_timer, Up
  <2> QED BY <1>7, <1>8, <2>1, TakeRuns
<1>10. PeerWell(e) /\ e.st = "up" /\ e.read = "hello" /\ peer.st = "none"
  BY <1>1, <1>8, <1>9 DEF Runs, Tame, Gone
<1> HIDE DEF e
<1> QED BY <1>1, <1>10 DEF Moves, PeerWell

\* A broken connection: nothing is waited for any more, and the actor ends.
LEMMA PeerFails ==
    ASSUME PeerWell(peer), NEW r \in {"io_read", "io_write"}, p_on_io_error(r)
    PROVE  PeerWell(peer)' /\ Moves(peer, peer')
<1> DEFINE a == [peer EXCEPT !.io_error = TRUE]
           b == PRelease(a, r)
           c == PRelease(b, "finalization")
           d == p_do_shutdown(c)
<1>1. Runs(peer) /\ peer' = d
  BY Holds DEF p_on_io_error, Peer, PeerResources
<1>2. a \in Peers /\ a.st = peer.st /\ a.read = peer.read /\ a.io_error = TRUE /\ a.ping = peer.ping /\ a.ctl = peer.ctl
      /\ a.early = peer.early /\ a.item = peer.item /\ a.res = peer.res
  BY <1>1 DEF Runs, PeerWell, Peers
<1> HIDE DEF a
<1>3. Runs(a)
  BY <1>1, <1>2 DEF Runs, PeerWell
<1>4. Runs(b) /\ Steady(a, b)
  BY <1>3, GiveRuns
<1> HIDE DEF b
<1>5. Runs(c) /\ Steady(b, c)
  BY <1>2, <1>4, EndRuns DEF Steady
<1> HIDE DEF c
<1>6. Runs(d) /\ d.read = c.read /\ d.st = (IF c.st = "up" THEN "asked" ELSE c.st)
  BY <1>5, AskRuns
<1> HIDE DEF d
<1>7. c.st = peer.st /\ c.read = peer.read
  BY <1>2, <1>4, <1>5 DEF Steady
<1> QED BY <1>1, <1>6, <1>7 DEF Runs, Moves, PeerWell

\* A buffer was sent: the next one is, or the close message was the last.
LEMMA PeerWrites ==
    ASSUME PeerWell(peer), p_on_write PROVE PeerWell(peer)' /\ Moves(peer, peer')
<1> DEFINE g == PRelease(peer, "io_write")
           p == [g EXCEPT !.had_writes = TRUE]
           f == PRelease(p, "finalization")
           c == cancel_io(f)
           k == cancel_ping(c)
           n == [p EXCEPT !.item = "none"]
           t == process_tx_queue(n)
<1>1. Runs(peer) /\ peer.res["io_write"] > 0 /\ peer' = IF p.item = "final" THEN k ELSE t
  BY Holds DEF p_on_write, Peer, PeerResources
<1>2. Runs(g) /\ Steady(peer, g) /\ g.res["io_write"] = 0
  BY <1>1, GiveRuns
<1> HIDE DEF g
<1>3. p \in Peers /\ Steady(g, p) /\ p.item = g.item /\ p.res = g.res
  BY <1>2 DEF Runs, PeerWell, Peers, Steady
<1> HIDE DEF p
<1>4. Runs(p) /\ p.st = peer.st /\ p.read = peer.read
  BY <1>2, <1>3, SameRuns DEF Steady
<1>5. CASE p.item = "final"
  <2>1. Runs(f) /\ Steady(p, f)
    BY <1>4, <1>5, EndRuns
  <2> HIDE DEF f
  <2>2. Runs(c) /\ Steady(f, c)
    BY <2>1, CutRuns
  <2> HIDE DEF c
  <2>3. Runs(k) /\ k.st = c.st /\ k.read = c.read
    <3>1. CASE c.ping
      <4>1. k = PRelease([c EXCEPT !.ping = FALSE], "ping_timer")
        BY <3>1 DEF cancel_ping
      <4> QED BY <2>2, <3>1, <4>1, UnpingRuns DEF Tame
    <3>2. CASE ~c.ping
      BY <2>2, <3>2 DEF cancel_ping
    <3> QED BY <3>1, <3>2
  <2> HIDE DEF k
  <2>4. k.st = peer.st /\ k.read = peer.read
    BY <1>4, <2>1, <2>2, <2>3 DEF Steady
  <2> QED BY <1>1, <1>5, <2>3, <2>4 DEF Runs, Moves, PeerWell
<1>6. CASE p.item # "final"
  <2>1. n \in Peers /\ Steady(p, n) /\ n.item = "none" /\ n.res = p.res /\ n.tx = p.tx
    BY <1>3 DEF Peers, Steady
  <2>2. p.st = "stopping" /\ ~p.io_error => p.res["finalization"] > 0
    BY <1>4, <1>6 DEF Runs, PeerWell
  <2> HIDE DEF n
  <2>3. Runs(n)
    <3>1. n.st = p.st /\ n.io_error = p.io_error /\ n.ping = p.ping /\ n.ctl = p.ctl /\ n.early = p.early
      BY <2>1 DEF Steady
    <3>2. n.res["io_write"] = 0
      BY <1>2, <1>3, <2>1
    <3>3. p.st \in {"up", "asked", "stopping"} /\ PeerWell(p)
      BY <1>4 DEF Runs
    <3>4. PeerWell(n)
      BY <2>1, <2>2, <3>1, <3>2, <3>3 DEF PeerWell
    <3> QED BY <3>1, <3>3, <3>4 DEF Runs
  <2>4. CASE n.tx = <<>>
    <3>1. t = n
      BY <2>4 DEF process_tx_queue
    <3> HIDE DEF t
    <3> QED BY <1>1, <1>4, <1>6, <2>1, <2>3, <3>1 DEF Runs, Moves, PeerWell, Steady
  <2>5. CASE n.tx # <<>>
    <3>1. t \in Peers /\ Steady(n, t) /\ t.item # "none" /\ t.res = [n.res EXCEPT !["io_write"] = @ + 1]
      BY <2>1, <2>5, TurnIs
    <3> HIDE DEF t
    <3>2. n.res \in [PeerResources -> Nat] /\ "io_write" \in PeerResources /\ n.res["io_write"] = 0
      BY <1>2, <1>3, <2>1 DEF Peers, PeerResources
    <3>3. t.res["io_write"] = 1 /\ \A x \in PeerResources \ {"io_write"} : t.res[x] = n.res[x]
      BY <3>1, <3>2
    <3>4. \A x \in PeerResources \ {"finalization"} : t.res[x] <= 1
      BY <2>3, <3>3 DEF Runs, PeerWell
    <3>5. \A x \in {"ping_timer", "finalization"} : t.res[x] = n.res[x]
      BY <3>3 DEF PeerResources
    <3>6. t.st = "stopping" /\ ~t.io_error => t.res["finalization"] > 0
      BY <2>1, <2>2, <3>1, <3>5 DEF Steady
    <3>7. PeerWell(t)
      BY <2>3, <3>1, <3>4, <3>5, <3>6 DEF Runs, PeerWell, Steady
    <3>8. t.st = peer.st /\ t.read = peer.read
      BY <1>4, <2>1, <3>1 DEF Steady
    <3> QED BY <1>1, <1>6, <3>7, <3>8 DEF Moves, PeerWell
  <2> QED BY <2>4, <2>5
<1> QED BY <1>5, <1>6

\* A message came; what came before the controller waits for it.
LEMMA PeerReads ==
    ASSUME PeerWell(peer), NEW m \in Messages, p_on_read(m) PROVE PeerWell(peer)' /\ Moves(peer, peer')
<1> DEFINE g == PRelease(peer, "io_read")
           p == [g EXCEPT !.rx = @ + 1]
           h == [p EXCEPT !.read = "controlled"]
           x == [p EXCEPT !.got = @ + 1]
           y == [p EXCEPT !.early = @ + 1]
           r == IF p.read = "hello" THEN read_hello(p, m) ELSE read_controlled(p, m)
           q == IF ReadNext(p, m) /\ ~PHas(r, "finalization") THEN read_more(r) ELSE r
           e == [q EXCEPT !.had_reads = TRUE]
<1>1. Runs(peer) /\ peer' = e
  BY Holds DEF p_on_read, Peer, PeerResources
<1>2. Runs(g) /\ Steady(peer, g) /\ g.res["io_read"] = 0
  BY <1>1, GiveRuns
<1> HIDE DEF g
<1>3. p \in Peers /\ Steady(g, p) /\ p.item = g.item /\ p.res = g.res
  <2>0. g \in Peers
    BY <1>2 DEF Runs, PeerWell
  <2>1. g \in Peers /\ g.rx + 1 \in Nat
    BY <2>0 DEF Peers
  <2>2. p = [g EXCEPT !.rx = g.rx + 1]
    OBVIOUS
  <2>3. p \in Peers
    BY <2>1, <2>2 DEF Peers
  <2> QED BY <2>1, <2>2, <2>3 DEF Peers, Steady
<1> HIDE DEF p
<1>4. Runs(p) /\ p.st = peer.st /\ p.read = peer.read /\ p.res["io_read"] = 0
  BY <1>2, <1>3, SameRuns DEF Steady
<1>5. Runs(h) /\ h.st = p.st /\ h.read = "controlled" /\ h.res = p.res
  <2>1. /\ h \in Peers /\ h.st = p.st /\ h.read = "controlled" /\ h.io_error = p.io_error /\ h.ping = p.ping
        /\ h.ctl = p.ctl /\ h.early = p.early /\ h.item = p.item /\ h.res = p.res
    BY <1>3 DEF Peers
  <2> HIDE DEF h
  <2> QED BY <1>4, <2>1 DEF Runs, PeerWell
<1>6. Runs(x) /\ x.st = p.st /\ x.read = p.read /\ x.res = p.res
  <2>1. x \in Peers /\ Steady(p, x) /\ x.item = p.item /\ x.res = p.res
    <3>1. p.got \in Nat
      BY <1>3 DEF Peers
    <3>2. p.got + 1 \in Nat
      BY <3>1
    <3>3. x = [p EXCEPT !.got = p.got + 1]
      OBVIOUS
    <3>4. x \in Peers
      BY <1>3, <3>2, <3>3 DEF Peers
    <3> QED BY <1>3, <3>3, <3>4 DEF Peers, Steady
  <2> HIDE DEF x
  <2> QED BY <1>4, <2>1, SameRuns DEF Steady
<1>7. ~p.ctl => Runs(y) /\ y.st = p.st /\ y.read = p.read /\ y.res = p.res
  <2>1. /\ y \in Peers /\ y.st = p.st /\ y.read = p.read /\ y.io_error = p.io_error /\ y.ping = p.ping
        /\ y.ctl = p.ctl /\ y.item = p.item /\ y.res = p.res
    <3>1. p \in Peers /\ p.early + 1 \in Nat
      BY <1>3 DEF Peers
    <3>2. y = [p EXCEPT !.early = p.early + 1]
      OBVIOUS
    <3>3. y \in Peers
      BY <3>1, <3>2 DEF Peers
    <3> QED BY <3>1, <3>2, <3>3 DEF Peers
  <2> HIDE DEF y
  <2> QED BY <1>4, <2>1 DEF Runs, PeerWell
<1>8. r \in {h, p_do_shutdown(h), p_do_shutdown(p), p, x} \/ (~p.ctl /\ r = y)
  BY DEF read_hello, read_controlled
<1> HIDE DEF h, x, y, r
<1>9. Runs(r) /\ r.res = p.res /\ r.read \in {p.read, "controlled"}
      /\ (r.st = p.st \/ (p.st = "up" /\ r.st = "asked"))
  <2>1. /\ Runs(p_do_shutdown(h)) /\ p_do_shutdown(h).res = p.res /\ p_do_shutdown(h).read = "controlled"
        /\ p_do_shutdown(h).st = (IF p.st = "up" THEN "asked" ELSE p.st)
    BY <1>5, AskRuns
  <2>2. /\ Runs(p_do_shutdown(p)) /\ p_do_shutdown(p).res = p.res /\ p_do_shutdown(p).read = p.read
        /\ p_do_shutdown(p).st = (IF p.st = "up" THEN "asked" ELSE p.st)
    BY <1>4, AskRuns
  <2> QED BY <1>4, <1>5, <1>6, <1>7, <1>8, <2>1, <2>2
<1>10. Runs(q) /\ q.st = r.st /\ q.read = r.read
  BY <1>4, <1>9, ReadRuns DEF Tame
<1> HIDE DEF q
<1>11. e \in Peers /\ Steady(q, e) /\ e.item = q.item /\ e.res = q.res
  BY <1>10 DEF Runs, PeerWell, Peers, Steady
<1> HIDE DEF e
<1>12. Runs(e) /\ e.st = q.st /\ e.read = q.read
  BY <1>10, <1>11, SameRuns DEF Steady
<1>13. Moves(peer, e) /\ PeerWell(e)
  BY <1>4, <1>9, <1>10, <1>12 DEF Runs, Moves
<1> QED BY <1>1, <1>13, PeerBecomes

LEMMA PeerGarbage ==
    ASSUME PeerWell(peer), p_on_garbage PROVE PeerWell(peer)' /\ Moves(peer, peer')
<1> DEFINE g == PRelease(peer, "io_read")
           d == p_do_shutdown(g)
<1>1. Runs(peer) /\ peer' = d
  BY Holds DEF p_on_garbage, Peer, PeerResources
<1>2. Runs(g) /\ Steady(peer, g)
  BY <1>1, GiveRuns
<1> HIDE DEF g
<1>3. Runs(d) /\ d.read = g.read /\ d.st = (IF g.st = "up" THEN "asked" ELSE g.st)
  BY <1>2, AskRuns
<1> HIDE DEF d
<1> QED BY <1>1, <1>2, <1>3 DEF Runs, Moves, PeerWell, Steady

\* The controller takes over what came before it.
LEMMA PeerAdopts ==
    ASSUME PeerWell(peer), on_controller_up PROVE PeerWell(peer)' /\ Moves(peer, peer')
<1> DEFINE q == [peer EXCEPT !.ctl = TRUE, !.got = @ + peer.early, !.early = 0]
<1>1. Runs(peer) /\ peer' = q
  BY DEF on_controller_up, Peer, Runs
<1>2. q \in Peers /\ q.st = peer.st /\ q.read = peer.read /\ q.io_error = peer.io_error /\ q.ping = peer.ping
      /\ q.early = 0 /\ q.item = peer.item /\ q.res = peer.res
  <2>1. peer \in Peers /\ peer.got + peer.early \in Nat
    BY <1>1 DEF Runs, PeerWell, Peers
  <2>2. q = [peer EXCEPT !.ctl = TRUE, !.got = peer.got + peer.early, !.early = 0]
    OBVIOUS
  <2>3. q \in Peers
    BY <2>1, <2>2 DEF Peers
  <2> QED BY <2>1, <2>2, <2>3 DEF Peers
<1> HIDE DEF q
<1>3. PeerWell(q)
  BY <1>1, <1>2 DEF Runs, PeerWell
<1> QED BY <1>1, <1>2, <1>3 DEF Moves, PeerWell

LEMMA PeerDropped ==
    ASSUME PeerWell(peer), on_controller_predown PROVE PeerWell(peer)' /\ Moves(peer, peer')
<1> DEFINE d == p_do_shutdown(peer)
<1>1. Runs(peer) /\ peer' = d
  BY DEF on_controller_predown, Peer, Runs
<1>2. Runs(d) /\ d.read = peer.read /\ d.st = (IF peer.st = "up" THEN "asked" ELSE peer.st)
  BY <1>1, AskRuns
<1> HIDE DEF d
<1> QED BY <1>1, <1>2 DEF Runs, Moves, PeerWell

LEMMA PeerSends ==
    ASSUME PeerWell(peer), on_transfer PROVE PeerWell(peer)' /\ Moves(peer, peer')
<1> DEFINE q == push_write(peer, FALSE)
<1>1. Runs(peer) /\ peer' = q
  <2>1. peer.st # "down" /\ peer.ctl /\ peer.st \in {"none", "up", "asked", "stopping", "down"}
    BY DEF on_transfer, PeerWell, Peers
  <2>2. peer.st # "none"
    BY <2>1 DEF PeerWell, Gone
  <2> QED BY <2>1, <2>2 DEF Runs, on_transfer, Peer
<1>2. Runs(q) /\ Steady(peer, q)
  BY <1>1, SendRuns
<1> HIDE DEF q
<1> QED BY <1>1, <1>2 DEF Runs, Moves, PeerWell, Steady

\* The ping timer is set again, or the transport is cancelled.
LEMMA PeerPings ==
    ASSUME PeerWell(peer), on_ping_timeout PROVE PeerWell(peer)' /\ Moves(peer, peer')
<1> DEFINE p == PRelease([peer EXCEPT !.ping = FALSE], "ping_timer")
           h == [p EXCEPT !.had_ping = TRUE]
<1>1. Runs(peer) /\ peer.ping
  <2>1. peer.ping /\ PHas(peer, "ping_timer")
    BY DEF on_ping_timeout, PeerWell, PHas
  <2> QED BY <2>1, Holds DEF PeerResources
<1>2. peer' \in {cancel_io(p), reset_ping_timer(h)}
  BY DEF on_ping_timeout, Peer
<1>3. Runs(p) /\ ~p.ping /\ p.st = peer.st /\ p.read = peer.read
  BY <1>1, UnpingRuns DEF Tame
<1> HIDE DEF p
<1>4. h \in Peers /\ Steady(p, h) /\ h.item = p.item /\ h.res = p.res
  BY <1>3 DEF Runs, PeerWell, Peers, Steady
<1> HIDE DEF h
<1>5. Runs(h) /\ ~h.ping /\ h.st = p.st /\ h.read = p.read
  BY <1>3, <1>4, SameRuns DEF Steady
<1>6. /\ Runs(cancel_io(p)) /\ cancel_io(p).st = p.st /\ cancel_io(p).read = p.read
      /\ Runs(reset_ping_timer(h)) /\ reset_ping_timer(h).st = h.st /\ reset_ping_timer(h).read = h.read
  BY <1>3, <1>5, CutRuns, PingRuns DEF Tame
<1>7. Runs(peer') /\ peer'.st = peer.st /\ peer'.read = peer.read
  BY <1>2, <1>3, <1>5, <1>6
<1> QED BY <1>7 DEF Runs, Moves, PeerWell

LEMMA PeerCounts ==
    ASSUME PeerWell(peer), on_stats_timeout PROVE PeerWell(peer)' /\ Moves(peer, peer')
<1> DEFINE p == PRelease(peer, "stats_timer")
<1>1. Runs(peer) /\ peer' \in {p, reset_stats_timer(p)}
  BY Holds DEF on_stats_timeout, Peer, PeerResources
<1>2. Runs(p) /\ Steady(peer, p) /\ p.res["stats_timer"] = 0
  BY <1>1, GiveRuns
<1> HIDE DEF p
<1>3. peer' \in {p, PAcquire(p, "stats_timer")}
  BY <1>1 DEF reset_stats_timer
<1>4. Runs(PAcquire(p, "stats_timer")) /\ Steady(p, PAcquire(p, "stats_timer"))
  BY <1>2, TakeRuns
<1>5. Runs(peer') /\ peer'.st = peer.st /\ peer'.read = peer.read
  BY <1>2, <1>3, <1>4 DEF Steady
<1> QED BY <1>5 DEF Runs, Moves, PeerWell

\* The actor stops: what waits is dropped, and the close message is queued unless
\* the connection is broken.
LEMMA PeerStops ==
    ASSUME PeerWell(peer), p_shutdown_start PROVE PeerWell(peer)' /\ Moves(peer, peer')
<1> DEFINE a == [peer EXCEPT !.st = "stopping", !.tx = <<>>]
           p == PAcquire(a, "finalization")
           s == push_write(p, TRUE)
           e == PRelease(s, "finalization")
<1>1. peer.st \in {"up", "asked"} /\ peer' = e /\ peer \in Peers /\ peer.res["finalization"] = 0
      /\ peer.res \in [PeerResources -> Nat] /\ "finalization" \in PeerResources
  BY DEF p_shutdown_start, Peer, PeerWell, Peers, PeerResources
<1>2. a \in Peers /\ a.st = "stopping" /\ a.read = peer.read /\ a.io_error = peer.io_error /\ a.ping = peer.ping
      /\ a.ctl = peer.ctl /\ a.early = peer.early /\ a.item = peer.item /\ a.res = peer.res
  <2>1. <<>> \in Seq({"data", "final"})
    OBVIOUS
  <2> QED BY <1>1, <2>1 DEF Peers
<1> HIDE DEF a
<1>3. p \in Peers /\ Steady(a, p) /\ p.item = peer.item /\ p.res = [peer.res EXCEPT !["finalization"] = @ + 1]
  BY <1>1, <1>2, PAcquireIs
<1> HIDE DEF p
<1>4. p.res["finalization"] = 1 /\ \A x \in PeerResources \ {"finalization"} : p.res[x] = peer.res[x]
  BY <1>1, <1>3
<1>5. p.item = "none" => p.res["io_write"] = 0
  BY <1>3, <1>4 DEF PeerWell, PeerResources
<1>6. Pushed(p, s) /\ s.res["finalization"] = IF ~p.io_error THEN 2 ELSE 1
  <2>1. Pushed(p, s) /\ s.res["finalization"] = IF TRUE /\ ~p.io_error THEN p.res["finalization"] + 1 ELSE p.res["finalization"]
    BY <1>3, <1>5, PushIs
  <2> HIDE DEF s
  <2> QED BY <1>4, <2>1
<1> HIDE DEF s
<1>7. e \in Peers /\ Steady(s, e) /\ e.item = s.item /\ e.res = [s.res EXCEPT !["finalization"] = IF @ > 0 THEN @ - 1 ELSE 0]
      /\ s.res \in [PeerResources -> Nat]
  <2>1. s \in Peers
    BY <1>6 DEF Pushed
  <2>2. s.res \in [PeerResources -> Nat]
    BY <2>1 DEF Peers
  <2> QED BY <1>1, <2>1, <2>2, PReleaseIs
<1> HIDE DEF e
<1>8. /\ ~p.io_error => e.res["finalization"] = 1
      /\ \A x \in PeerResources \ {"finalization"} : e.res[x] = s.res[x]
  <2>1. \A x \in PeerResources \ {"finalization"} : e.res[x] = s.res[x]
    BY <1>7
  <2>2. e.res["finalization"] = IF s.res["finalization"] > 0 THEN s.res["finalization"] - 1 ELSE 0
    BY <1>1, <1>7
  <2>3. ~p.io_error => s.res["finalization"] = 2
    BY <1>6
  <2>4. ~p.io_error => e.res["finalization"] = 1
    BY <2>2, <2>3
  <2> QED BY <2>1, <2>4
<1>9. e.st = "stopping" /\ e.read = peer.read /\ e.io_error = p.io_error /\ e.ping = peer.ping
      /\ e.ctl = peer.ctl /\ e.early = peer.early
  BY <1>2, <1>3, <1>6, <1>7 DEF Steady, Pushed
<1>10. \A x \in PeerResources \ {"io_write", "finalization"} : e.res[x] = peer.res[x]
  BY <1>4, <1>6, <1>8 DEF Pushed
<1>11. e.res["io_write"] <= 1 /\ (e.item = "none" => e.res["io_write"] = 0)
  <2>1. e.res["io_write"] = s.res["io_write"] /\ p.res["io_write"] = peer.res["io_write"] /\ peer.res["io_write"] <= 1
    BY <1>4, <1>8 DEF PeerWell, PeerResources
  <2> QED BY <1>5, <1>6, <1>7, <2>1 DEF Pushed
<1>12. \A x \in PeerResources \ {"finalization"} : e.res[x] <= 1
  BY <1>10, <1>11 DEF PeerWell
<1>13. e.res["ping_timer"] = peer.res["ping_timer"]
  BY <1>10 DEF PeerResources
<1>14. (e.ping <=> e.res["ping_timer"] > 0) /\ (e.ctl => e.early = 0)
  BY <1>9, <1>13 DEF PeerWell
<1>15. PeerWell(e)
  <2>1. e \in Peers /\ e.st = "stopping"
    BY <1>7, <1>9
  <2>2. ~e.io_error => e.res["finalization"] > 0
    BY <1>8, <1>9
  <2> QED BY <2>1, <2>2, <1>11, <1>12, <1>14 DEF PeerWell
<1>16. Moves(peer, e)
  BY <1>1, <1>9 DEF Moves
<1> QED BY <1>1, <1>15, <1>16, PeerBecomes

\* Nothing is held any more: the actor is gone.
LEMMA PeerFinishes ==
    ASSUME PeerWell(peer), p_shutdown_finish PROVE PeerWell(peer)' /\ Moves(peer, peer')
<1> DEFINE q == [peer EXCEPT !.st = "down"]
<1>1. peer.st = "stopping" /\ peer' = q /\ peer \in Peers /\ peer.res \in [PeerResources -> Nat]
  BY DEF p_shutdown_finish, Peer, PeerWell, Peers
<1>2. q \in Peers /\ q.st = "down" /\ q.io_error = peer.io_error /\ q.ping = peer.ping /\ q.ctl = peer.ctl
      /\ q.early = peer.early /\ q.item = peer.item /\ q.res = peer.res
  BY <1>1 DEF Peers
<1>3. \A r \in PeerResources : peer.res[r] = 0
  BY <1>1 DEF p_shutdown_finish, PHas
<1>4. peer.io_error \/ peer.item = "final"
  BY <1>1, <1>3 DEF PeerWell, PeerResources
<1> HIDE DEF q
<1>5. PeerWell(q)
  BY <1>1, <1>2, <1>3, <1>4 DEF PeerWell, PeerResources
<1> QED BY <1>1, <1>2, <1>5 DEF Moves, PeerWell

\* Every step of the peer actor.
LEMMA PeerSteps ==
    ASSUME LinkWell, PeerActor
    PROVE  PeerWell(peer)' /\ Moves(peer, peer') /\ UNCHANGED ivars /\ (handed = "no" => FALSE)
<1>1. PeerWell(peer)
  BY DEF LinkWell
<1>2. ASSUME handed = "no" PROVE FALSE
  <2>1. peer = Gone
    BY <1>1, <1>2 DEF LinkWell, PeerWell
  <2>2. \A r \in PeerResources : ~PHas(peer, r)
    BY <2>1 DEF Gone, PHas
  <2>3. peer.st = "none" /\ ~peer.ctl /\ ~peer.ping
    BY <2>1 DEF Gone
  <2> QED BY <1>2, <2>2, <2>3 DEF PeerActor, p_on_start, p_on_write, p_on_garbage, on_controller_up,
             on_controller_predown, on_transfer, on_ping_timeout, on_stats_timeout, p_shutdown_start,
             p_shutdown_finish, p_on_read, p_on_io_error, PeerResources
<1>3. CASE p_on_start
  BY <1>1, <1>2, <1>3, PeerStart DEF p_on_start, Peer
<1>4. CASE p_on_write
  BY <1>1, <1>2, <1>4, PeerWrites DEF p_on_write, Peer
<1>5. CASE p_on_garbage
  BY <1>1, <1>2, <1>5, PeerGarbage DEF p_on_garbage, Peer
<1>6. CASE on_controller_up
  BY <1>1, <1>2, <1>6, PeerAdopts DEF on_controller_up, Peer
<1>7. CASE on_controller_predown
  BY <1>1, <1>2, <1>7, PeerDropped DEF on_controller_predown, Peer
<1>8. CASE on_transfer
  BY <1>1, <1>2, <1>8, PeerSends DEF on_transfer, Peer
<1>9. CASE on_ping_timeout
  BY <1>1, <1>2, <1>9, PeerPings DEF on_ping_timeout, Peer
<1>10. CASE on_stats_timeout
  BY <1>1, <1>2, <1>10, PeerCounts DEF on_stats_timeout, Peer
<1>11. CASE p_shutdown_start
  BY <1>1, <1>2, <1>11, PeerStops DEF p_shutdown_start, Peer
<1>12. CASE p_shutdown_finish
  BY <1>1, <1>2, <1>12, PeerFinishes DEF p_shutdown_finish, Peer
<1>13. ASSUME NEW m \in Messages, p_on_read(m) PROVE PeerWell(peer)' /\ Moves(peer, peer') /\ UNCHANGED ivars
  BY <1>1, <1>13, PeerReads DEF p_on_read, Peer
<1>14. ASSUME NEW r \in {"io_read", "io_write"}, p_on_io_error(r)
       PROVE  PeerWell(peer)' /\ Moves(peer, peer') /\ UNCHANGED ivars
  BY <1>1, <1>14, PeerFails DEF p_on_io_error, Peer
<1> QED BY <1>2, <1>3, <1>4, <1>5, <1>6, <1>7, <1>8, <1>9, <1>10, <1>11, <1>12, <1>13, <1>14 DEF PeerActor

----------------------------------------------------------------------------
(* The connection *)

\* The constructor's order of the addresses is one of the same addresses.
LEMMA LinkBegins == ASSUME LinkInit PROVE LinkWell
<1>1. PICK us \in UriLists : linkUris \in Sorted(us)
  BY DEF LinkInit
<1>2. us \in Seq({"tcp", "relay", "broken"})
  BY LinkAssumption
<1> DEFINE D == 1 .. Len(us)
<1>3. PICK f \in [D -> D] : linkUris = [k \in D |-> us[f[k]]]
  BY <1>1 DEF Sorted
<1>4. Len(us) \in Nat /\ \A k \in D : us[f[k]] \in {"tcp", "relay", "broken"}
  BY <1>2, <1>3
<1>5. linkUris \in Seq({"tcp", "relay", "broken"})
  BY <1>3, <1>4
<1>6. I = [idx |-> 0, st |-> "none", res |-> [r \in Resources |-> 0], relaying |-> FALSE, connected |-> FALSE,
           session |-> FALSE, state |-> FALSE]
  BY DEF I, LinkInit
<1>7. I \in Attempts /\ \A r \in Resources : I.res[r] = 0
  BY <1>6 DEF Attempts
<1>8. Len(linkUris) \in Nat
  BY <1>5
<1>9. AttemptWell(I)
  BY <1>6, <1>7, <1>8 DEF AttemptWell, Alone, Quiet, Pending, Resources
<1>10. peer = Gone /\ peer \in Peers
  <2>1. <<>> \in Seq({"data", "final"}) /\ [r \in PeerResources |-> 0] \in [PeerResources -> Nat]
    OBVIOUS
  <2> QED BY <2>1 DEF LinkInit, Gone, Peers
<1>11. /\ peer.st = "none" /\ ~peer.ping /\ ~peer.ctl /\ peer.item = "none"
       /\ \A r \in PeerResources : peer.res[r] = 0
  BY <1>10 DEF Gone
<1>12. PeerWell(peer)
  BY <1>10, <1>11 DEF PeerWell, PeerResources
<1> QED BY <1>5, <1>9, <1>11, <1>12 DEF LinkWell, LinkInit

LEMMA LinkKept == ASSUME LinkWell, [LinkNext]_linkVars PROVE LinkWell'
<1>1. CASE Initiator
  BY <1>1, AttemptSteps DEF LinkWell, Onward, PeerWell
<1>2. CASE PeerActor
  <2>1. UNCHANGED <<role, linkUris, I, handed, st>>
    BY <1>2, PeerSteps DEF ivars, I
  <2>2. AttemptWell(I)'
    BY <2>1 DEF LinkWell, AttemptWell, Alone, Quiet
  <2> QED BY <1>2, <2>1, <2>2, PeerSteps DEF LinkWell
<1>3. CASE UNCHANGED linkVars
  <2>1. UNCHANGED <<role, linkUris, I, handed, st, peer>>
    BY <1>3 DEF linkVars, ivars, I
  <2>2. AttemptWell(I)'
    BY <2>1 DEF LinkWell, AttemptWell, Alone, Quiet
  <2>3. PeerWell(peer)'
    BY <2>1, PeerBecomes DEF LinkWell
  <2> QED BY <2>1, <2>2, <2>3 DEF LinkWell
<1> QED BY <1>1, <1>2, <1>3 DEF LinkNext

\* What the invariant says of a connection.
LEMMA LinkIsSound == ASSUME LinkWell PROVE LinkSound
<1>1. /\ I.res = res /\ I.st = st /\ I.idx = uri_idx /\ I.relaying = relaying /\ I.connected = linked
      /\ I.session = session /\ I.state = state /\ I \in Attempts /\ peer \in Peers
  BY DEF I, LinkWell, AttemptWell, PeerWell
<1>2. /\ uri_idx \in Nat /\ Len(linkUris) \in Nat /\ uri_idx <= Len(linkUris)
  BY <1>1 DEF LinkWell, AttemptWell, Attempts
<1>3. LinkTypeOK
  BY <1>1, <1>2 DEF LinkTypeOK, Attempts, Peers
<1>4. OneOfEach
  <2>1. peer.item = "none" => peer.res["io_write"] = 0
    BY DEF LinkWell, PeerWell
  <2>2. peer.item = "none" => ~PHas(peer, "io_write")
    BY <2>1 DEF PHas
  <2>3. \A r \in PeerResources \ {"finalization"} : peer.res[r] <= 1
    BY DEF LinkWell, PeerWell
  <2>4. \A r \in Resources : res[r] <= 1
    BY <1>1 DEF LinkWell, AttemptWell
  <2> QED BY <2>2, <2>3, <2>4 DEF OneOfEach
<1>5. NotTheRelay /\ EarlyFirst /\ CloseSaid
  BY DEF NotTheRelay, EarlyFirst, CloseSaid, LinkWell, PeerWell
<1> QED BY <1>3, <1>4, <1>5 DEF LinkSound

\* A step of a connection leads to the same stage or to one that follows it.
LEMMA LinkStages == ASSUME LinkWell, [LinkNext]_linkVars PROVE [StageStep]_linkVars
<1>1. CASE Initiator
  <2>1. AttemptWell(I)' /\ Onward /\ UNCHANGED <<role, linkUris, peer>>
        /\ (handed' = handed \/ (st = "init" /\ st' = "asked" /\ handed' = "peer"))
    BY <1>1, AttemptSteps
  <2>2. st \in {"none", "init", "asked", "stopping", "down"} /\ (handed = "no" => peer.st = "none")
        /\ (handed # "no" => st \notin {"none", "init"})
    BY DEF LinkWell, AttemptWell, Attempts, I
  <2> QED BY <2>1, <2>2 DEF StageStep, Stage, Onward
<1>2. CASE PeerActor
  <2>1. Moves(peer, peer') /\ handed' = handed /\ handed # "no"
    BY <1>2, PeerSteps DEF ivars
  <2>2. peer.st \in {"none", "up", "asked", "stopping", "down"} /\ peer.read \in {"hello", "controlled"}
    BY DEF LinkWell, PeerWell, Peers
  <2> QED BY <2>1, <2>2 DEF StageStep, Stage, Moves
<1>3. CASE UNCHANGED linkVars
  BY <1>3
<1> QED BY <1>1, <1>2, <1>3 DEF LinkNext

\* initiator_actor_t and peer_actor_t: whatever fails and in whatever order, a
\* transport is handed over after a handshake with the device itself, an actor has
\* one operation of a kind at most, messages that came before the controller are
\* handed to it first, and an actor whose connection is not broken ends with the
\* close message.
THEOREM OneConnection == LinkSpec => []LinkSound
<1>1. LinkInit => LinkWell
  BY LinkBegins
<1>2. LinkWell /\ [LinkNext]_linkVars => LinkWell'
  BY LinkKept
<1>3. LinkWell => LinkSound
  BY LinkIsSound
<1> QED BY <1>1, <1>2, <1>3, PTL DEF LinkSpec

\* A connection goes through the stages that Connections has, in their order.
THEOREM StagesInOrder == LinkSpec => StageSteps
<1>1. LinkInit => LinkWell
  BY LinkBegins
<1>2. LinkWell /\ [LinkNext]_linkVars => LinkWell'
  BY LinkKept
<1>3. LinkWell /\ [LinkNext]_linkVars => [StageStep]_linkVars
  BY LinkStages
<1> QED BY <1>1, <1>2, <1>3, PTL DEF LinkSpec, StageSteps
=============================================================================
