------------------------- MODULE ConnectionsProofs -------------------------
(***************************************************************************)
(* The state of a device, its connections and its controller agree, for    *)
(* any number of connections, as long as the net thread applies the        *)
(* updates before it returns to I/O (Prompt).  The invariant says what an  *)
(* update that is under way tells about the connection it is of.           *)
(***************************************************************************)
EXTENDS Connections, TLAPS

Toks == Links \cup {Self}
DevStates == [tok : Toks, st : 0 .. 5]
Dialers == [started : BOOLEAN, timer : BOOLEAN, recent : BOOLEAN, skip : 0 .. SkipDiscovers, announced : BOOLEAN]
Updates == [k : {"state", "contact", "found", "dial", "accept", "relay"}, tok : Toks, st : 0 .. 5, mine : BOOLEAN]
Sent(q) == {q[i] : i \in 1 .. Len(q)}

Types ==
    /\ dev \in DevStates /\ queue \in Seq(Updates) /\ link \in [Links -> Stages]
    /\ known \in [Links -> 0 .. 5] /\ ctl \subseteq Links /\ dialer \in Dialers
    /\ dynamic \in BOOLEAN /\ uris \in BOOLEAN /\ lookup \in BOOLEAN

\* A token no connection has any more.
Gone(t) == t = Self \/ (t \in Links /\ link[t] = "closed")

\* What an update says of the connection it comes from.
Fits(u) ==
    /\ u.k = "state" /\ u.st = connecting =>
         u.tok \in Links /\ link[u.tok] \in {"dialing", "accepting"} /\ known[u.tok] = connecting
    /\ u.k = "state" /\ u.st = connected => u.tok \in Links /\ link[u.tok] = "hello"
    /\ u.k = "state" /\ u.st = online => u.tok \in Links /\ link[u.tok] \in {"active", "closing"}
    /\ u.k \in {"state", "found"} /\ u.st <= discovering => Gone(u.tok)
    /\ u.k = "found" => u.st = offline

\* The update that takes the device offline is on its way.
Leaving(t) == \E u \in Sent(queue) : u.k = "state" /\ u.tok = t /\ u.st = offline

DevFits ==
    /\ dev.st <= discovering => Gone(dev.tok)
    /\ dev.st >= connecting => dev.tok \in Links /\ (Alive(dev.tok) \/ Leaving(dev.tok))
    /\ dev.st = online => /\ link[dev.tok] \in {"active", "closing", "closed"}
                          /\ dev.tok \in ctl \/ Leaving(dev.tok)

KnownFits ==
    \A l \in Links : /\ link[l] = "dialing" => known[l] = connecting
                     /\ link[l] = "accepting" => known[l] = connecting \/ (known[l] = offline /\ dev.tok # l)

CtlFits == \A l \in ctl : dev.tok = l /\ dev.st = online /\ link[l] \in {"active", "closing"}

\* The dialer knows what it needs to dial.
Able(d) == d.started /\ (dynamic => d.announced)

\* What makes the dialer, or somebody else, go on with an offline device.
Rings(u) == u.k \in {"dial", "contact", "found"} \/ (u.k = "state" /\ u.st > offline)

Redials == Able(dialer) /\ dev.st = offline => dialer.timer \/ \E u \in Sent(queue) : Rings(u)

\* The inductive invariant.
Inv == Types /\ (\A u \in Sent(queue) : Fits(u)) /\ DevFits /\ KnownFits /\ CtlFits /\ Redials

----------------------------------------------------------------------------
\* Sequences as the sets of what is in them.
LEMMA SentEmpty == Sent(<<>>) = {}
  BY DEF Sent

LEMMA SentOne == ASSUME NEW u PROVE Sent(<<u>>) = {u}
<1>1. Len(<<u>>) = 1 /\ <<u>>[1] = u
  OBVIOUS
<1> QED BY <1>1 DEF Sent

LEMMA SentCat ==
    ASSUME NEW q \in Seq(Updates), NEW r \in Seq(Updates)
    PROVE  q \o r \in Seq(Updates) /\ Sent(q \o r) = Sent(q) \cup Sent(r)
<1>1. q \o r \in Seq(Updates) /\ Len(q \o r) = Len(q) + Len(r) /\ Len(q) \in Nat /\ Len(r) \in Nat
  OBVIOUS
<1>2. \A i \in 1 .. Len(q) : i \in 1 .. Len(q \o r) /\ (q \o r)[i] = q[i]
  BY <1>1
<1>3. \A i \in 1 .. Len(r) : i + Len(q) \in 1 .. Len(q \o r) /\ (q \o r)[i + Len(q)] = r[i]
  BY <1>1
<1>4. \A i \in 1 .. Len(q \o r) : (i \in 1 .. Len(q) /\ (q \o r)[i] = q[i])
                                \/ (i - Len(q) \in 1 .. Len(r) /\ (q \o r)[i] = r[i - Len(q)])
  BY <1>1
<1>5. Sent(q \o r) \subseteq Sent(q) \cup Sent(r)
  BY <1>4 DEF Sent
<1>6. Sent(q) \subseteq Sent(q \o r)
  BY <1>2 DEF Sent
<1>7. Sent(r) \subseteq Sent(q \o r)
  BY <1>3 DEF Sent
<1> QED BY <1>1, <1>5, <1>6, <1>7

LEMMA SentAssoc ==
    ASSUME NEW q \in Seq(Updates), NEW r \in Seq(Updates), NEW s \in Seq(Updates)
    PROVE  (q \o r) \o s = q \o (r \o s)
  OBVIOUS

LEMMA SentTail ==
    ASSUME NEW q \in Seq(Updates), q # <<>>
    PROVE  Tail(q) \in Seq(Updates) /\ Head(q) \in Updates /\ Sent(q) = {Head(q)} \cup Sent(Tail(q))
<1>1. Tail(q) \in Seq(Updates) /\ Len(q) \in Nat \ {0} /\ Len(Tail(q)) = Len(q) - 1 /\ Head(q) = q[1] /\ Head(q) \in Updates
  OBVIOUS
<1>2. \A i \in 1 .. Len(q) : i = 1 \/ (i - 1 \in 1 .. Len(Tail(q)) /\ Tail(q)[i - 1] = q[i])
  BY <1>1
<1>3. \A i \in 1 .. Len(Tail(q)) : i + 1 \in 1 .. Len(q) /\ Tail(q)[i] = q[i + 1]
  BY <1>1
<1>4. Sent(q) \subseteq {Head(q)} \cup Sent(Tail(q))
  BY <1>1, <1>2 DEF Sent
<1>5. Sent(Tail(q)) \subseteq Sent(q)
  BY <1>3 DEF Sent
<1>6. Head(q) \in Sent(q)
  BY <1>1 DEF Sent
<1> QED BY <1>1, <1>4, <1>5, <1>6

LEMMA SentTyped == ASSUME NEW q \in Seq(Updates) PROVE Sent(q) \subseteq Updates
<1>1. \A i \in 1 .. Len(q) : q[i] \in Updates
  OBVIOUS
<1> QED BY <1>1 DEF Sent
----------------------------------------------------------------------------
LEMMA Sts == {offline, unknown, discovering, connecting, connected, online} \subseteq 0 .. 5
  BY DEF offline, unknown, discovering, connecting, connected, online

\* What State, Plain and OfLink send.
LEMMA StateSends ==
    ASSUME NEW d \in DevStates, NEW t \in Toks, NEW st \in 0 .. 5
    PROVE  /\ State(d, t, st) \in Seq(Updates)
           /\ \A u \in Sent(State(d, t, st)) : u = [k |-> "state", tok |-> t, st |-> st, mine |-> FALSE]
           /\ Allowed(d, [tok |-> t, st |-> st]) =>
                [k |-> "state", tok |-> t, st |-> st, mine |-> FALSE] \in Sent(State(d, t, st))
<1> DEFINE u == [k |-> "state", tok |-> t, st |-> st, mine |-> FALSE]
<1>1. u \in Updates
  BY DEF Updates
<1>2. <<u>> \in Seq(Updates) /\ <<>> \in Seq(Updates)
  BY <1>1
<1> HIDE DEF u
<1>3. State(d, t, st) = IF Allowed(d, [tok |-> t, st |-> st]) THEN <<u>> ELSE <<>>
  BY DEF State, u
<1>4. CASE Allowed(d, [tok |-> t, st |-> st])
  BY <1>2, <1>3, <1>4, SentOne DEF u
<1>5. CASE ~Allowed(d, [tok |-> t, st |-> st])
  BY <1>2, <1>3, <1>5, SentEmpty DEF u
<1> QED BY <1>4, <1>5

LEMMA PlainSends ==
    ASSUME NEW k \in {"contact", "dial", "accept", "relay"}
    PROVE  /\ Plain(k) \in Seq(Updates)
           /\ Sent(Plain(k)) = {[k |-> k, tok |-> Self, st |-> offline, mine |-> FALSE]}
<1> DEFINE u == [k |-> k, tok |-> Self, st |-> offline, mine |-> FALSE]
<1>1. u \in Updates
  BY DEF Updates, Toks, offline
<1>2. Plain(k) = <<u>>
  BY DEF Plain
<1> HIDE DEF u
<1>3. <<u>> \in Seq(Updates)
  BY <1>1
<1>4. Sent(<<u>>) = {u}
  BY SentOne
<1> QED BY <1>2, <1>3, <1>4 DEF u

LEMMA FoundSends ==
    ASSUME NEW t \in Toks
    PROVE  /\ OfLink("found", t) \in Seq(Updates)
           /\ Sent(OfLink("found", t)) = {[k |-> "found", tok |-> t, st |-> offline, mine |-> FALSE]}
<1> DEFINE u == [k |-> "found", tok |-> t, st |-> offline, mine |-> FALSE]
<1>1. u \in Updates
  BY DEF Updates, offline
<1>2. OfLink("found", t) = <<u>>
  BY DEF OfLink
<1> HIDE DEF u
<1>3. <<u>> \in Seq(Updates)
  BY <1>1
<1>4. Sent(<<u>>) = {u}
  BY SentOne
<1> QED BY <1>2, <1>3, <1>4 DEF u

LEMMA UnknownSends ==
    ASSUME NEW d \in DevStates
    PROVE  /\ Unknown(d) \in Seq(Updates)
           /\ Sent(Unknown(d)) = {[k |-> "state", tok |-> d.tok, st |-> unknown, mine |-> TRUE]}
<1> DEFINE u == [k |-> "state", tok |-> d.tok, st |-> unknown, mine |-> TRUE]
<1>1. u \in Updates
  BY DEF Updates, DevStates, unknown
<1>2. Unknown(d) = <<u>>
  BY DEF Unknown
<1> HIDE DEF u
<1>3. <<u>> \in Seq(Updates)
  BY <1>1
<1>4. Sent(<<u>>) = {u}
  BY SentOne
<1> QED BY <1>2, <1>3, <1>4 DEF u

\* The dialer asks, in these words, for a dial, for an address or for a lookup of
\* an offline device.
Asks(u, dv) ==
    \/ u \in [k : {"dial", "contact"}, tok : {Self}, st : {offline}, mine : {FALSE}]
    \/ dv.st = offline /\ u = [k |-> "state", tok |-> dv.tok, st |-> unknown, mine |-> TRUE]

\* An able dialer does ask when it is told to.
LEMMA DialSends ==
    ASSUME NEW d \in Dialers, NEW dv \in DevStates, NEW has \in BOOLEAN, dynamic \in BOOLEAN
    PROVE  LET r == discover_or_dial(d, dv, has) IN
           /\ r.d \in Dialers /\ r.out \in Seq(Updates)
           /\ r.d.started = d.started /\ r.d.announced = d.announced
           /\ \A u \in Sent(r.out) : Asks(u, dv)
           /\ Able(d) /\ dv.st = offline => \E u \in Sent(r.out) : Rings(u)
<1> DEFINE r == discover_or_dial(d, dv, has)
           n == [d EXCEPT !.recent = TRUE]
           m == [n EXCEPT !.skip = @ - 1]
           dial == [k |-> "dial", tok |-> Self, st |-> offline, mine |-> FALSE]
           contact == [k |-> "contact", tok |-> Self, st |-> offline, mine |-> FALSE]
           ask == [k |-> "state", tok |-> dv.tok, st |-> unknown, mine |-> TRUE]
<1>1. n \in Dialers /\ n.started = d.started /\ n.announced = d.announced /\ n.skip = d.skip
  BY DEF Dialers
<1> HIDE DEF n
<1>2. ASSUME d.skip > 0 PROVE m \in Dialers /\ m.started = d.started /\ m.announced = d.announced
  <2>1. d.skip \in 0 .. SkipDiscovers
    BY DEF Dialers
  <2>2. n.skip - 1 \in 0 .. SkipDiscovers
    BY <1>1, <1>2, <2>1, LinksAssumption
  <2> QED BY <1>1, <2>2 DEF Dialers
<1>3. /\ Plain("dial") \in Seq(Updates) /\ Sent(Plain("dial")) = {dial}
      /\ Plain("contact") \in Seq(Updates) /\ Sent(Plain("contact")) = {contact}
      /\ Unknown(dv) \in Seq(Updates) /\ Sent(Unknown(dv)) = {ask}
      /\ <<>> \in Seq(Updates) /\ Sent(<<>>) = {}
  <2>1. Plain("dial") \in Seq(Updates) /\ Sent(Plain("dial")) = {dial}
    BY PlainSends, Zenon
  <2>2. Plain("contact") \in Seq(Updates) /\ Sent(Plain("contact")) = {contact}
    BY PlainSends, Zenon
  <2>3. Unknown(dv) \in Seq(Updates) /\ Sent(Unknown(dv)) = {ask}
    BY UnknownSends, Zenon
  <2> QED BY <2>1, <2>2, <2>3, SentEmpty
<1>4. Asks(dial, dv) /\ Asks(contact, dv) /\ (dv.st = offline => Asks(ask, dv)) /\ Rings(dial) /\ Rings(contact) /\ Rings(ask)
  BY DEF Asks, Rings, unknown, offline
<1> HIDE DEF m, dial, contact, ask
<1>5. CASE (dynamic /\ ~d.announced) \/ ~d.started
  <2>1. r = [d |-> d, out |-> <<>>]
    BY <1>5 DEF discover_or_dial
  <2> HIDE DEF r
  <2>2. r.d = d /\ r.out = <<>> /\ ~Able(d)
    BY <2>1, <1>5 DEF Able
  <2> QED BY <1>3, <2>2 DEF r
<1>6. CASE ~((dynamic /\ ~d.announced) \/ ~d.started) /\ ~dynamic
  <2>1. r = [d |-> n, out |-> IF has THEN Plain("dial") ELSE Plain("contact")]
    BY <1>6 DEF discover_or_dial, n
  <2> HIDE DEF r
  <2>2. r.d = n /\ (r.out = Plain("dial") \/ r.out = Plain("contact"))
    BY <2>1
  <2> QED BY <1>1, <1>3, <1>4, <2>2 DEF r
<1>7. CASE ~((dynamic /\ ~d.announced) \/ ~d.started) /\ dynamic /\ has /\ d.skip > 0
  <2>1. r = [d |-> m, out |-> Plain("dial")]
    BY <1>7 DEF discover_or_dial, n, m
  <2> HIDE DEF r
  <2>2. r.d = m /\ r.out = Plain("dial")
    BY <2>1
  <2> QED BY <1>2, <1>3, <1>4, <1>7, <2>2 DEF r
<1>8. CASE ~((dynamic /\ ~d.announced) \/ ~d.started) /\ dynamic /\ ~(has /\ d.skip > 0)
  <2>1. r = [d |-> n, out |-> IF dv.st = offline THEN Unknown(dv) ELSE <<>>]
    BY <1>8 DEF discover_or_dial, n
  <2> HIDE DEF r
  <2>2. r.d = n /\ r.out = IF dv.st = offline THEN Unknown(dv) ELSE <<>>
    BY <2>1
  <2>3. CASE dv.st = offline
    BY <1>1, <1>3, <1>4, <2>2, <2>3 DEF r
  <2>4. CASE dv.st # offline
    BY <1>1, <1>3, <1>4, <2>2, <2>4 DEF r
  <2> QED BY <2>3, <2>4
<1> QED BY <1>5, <1>6, <1>7, <1>8

\* ... or it sets its timer.
LEMMA RedialSends ==
    ASSUME NEW d \in Dialers, NEW dv \in DevStates, NEW has \in BOOLEAN, dynamic \in BOOLEAN
    PROVE  LET r == schedule_redial(d, dv, has) IN
           /\ r.d \in Dialers /\ r.out \in Seq(Updates)
           /\ r.d.started = d.started /\ r.d.announced = d.announced
           /\ \A u \in Sent(r.out) : Asks(u, dv)
           /\ Able(d) /\ dv.st = offline => r.d.timer \/ \E u \in Sent(r.out) : Rings(u)
<1> DEFINE r == schedule_redial(d, dv, has)
           n == [d EXCEPT !.timer = TRUE]
<1>1. <<>> \in Seq(Updates) /\ Sent(<<>>) = {}
  BY SentEmpty
<1>2. n \in Dialers /\ n.started = d.started /\ n.announced = d.announced /\ n.timer
  BY DEF Dialers
<1> HIDE DEF n
<1>3. CASE d.timer
  <2>1. r = [d |-> d, out |-> <<>>]
    BY <1>3 DEF schedule_redial
  <2> HIDE DEF r
  <2>2. r.d = d /\ r.out = <<>>
    BY <2>1
  <2> QED BY <1>1, <1>3, <2>2 DEF r
<1>4. CASE ~d.timer /\ d.recent
  <2>1. r = [d |-> n, out |-> <<>>]
    BY <1>4 DEF schedule_redial, n
  <2> HIDE DEF r
  <2>2. r.d = n /\ r.out = <<>>
    BY <2>1
  <2> QED BY <1>1, <1>2, <2>2 DEF r
<1>5. CASE ~d.timer /\ ~d.recent
  <2>1. r = discover_or_dial(d, dv, has)
    BY <1>5 DEF schedule_redial
  <2> HIDE DEF r
  <2> QED BY <2>1, DialSends DEF r
<1> QED BY <1>3, <1>4, <1>5

----------------------------------------------------------------------------
\* The net thread has applied everything when it looks at I/O again.
LEMMA TurnIsEmpty == ASSUME Prompt, Turn PROVE queue = <<>>
  BY DEF Turn

LEMMA InitInv == ASSUME Init PROVE Inv
<1>1. Sent(queue) = {} /\ queue \in Seq(Updates)
  BY SentEmpty DEF Init
<1>2. Types
  <2>1. dev \in DevStates /\ dialer \in Dialers
    BY LinksAssumption DEF Init, DevStates, Toks, Dialers, offline
  <2>2. link \in [Links -> Stages] /\ known \in [Links -> 0 .. 5] /\ ctl \subseteq Links
    BY DEF Init, Stages, offline
  <2>3. dynamic \in BOOLEAN /\ uris \in BOOLEAN /\ lookup \in BOOLEAN
    BY DEF Init
  <2> QED BY <1>1, <2>1, <2>2, <2>3 DEF Types
<1>3. DevFits /\ KnownFits /\ CtlFits /\ Redials
  BY DEF Init, DevFits, KnownFits, CtlFits, Redials, Able, Gone, offline, discovering, connecting, online
<1> QED BY <1>1, <1>2, <1>3 DEF Inv

\* What the dialer asks for fits.
LEMMA AskFits ==
    ASSUME NEW dv, dv.st = offline => Gone(dv.tok), NEW u, Asks(u, dv)
    PROVE  Fits(u)
<1>1. CASE u \in [k : {"dial", "contact"}, tok : {Self}, st : {offline}, mine : {FALSE}]
  BY <1>1 DEF Fits
<1>2. CASE dv.st = offline /\ u = [k |-> "state", tok |-> dv.tok, st |-> unknown, mine |-> TRUE]
  <2>1. Gone(dv.tok)
    BY <1>2
  <2> QED BY <1>2, <2>1 DEF Fits, unknown, discovering, connecting, connected, online
<1> QED BY <1>1, <1>2 DEF Asks

\* A step that sends fitting updates and leaves the connections as they are.
LEMMA CalmStep ==
    ASSUME Inv, queue = <<>>, UNCHANGED <<dev, link, known, ctl, dynamic>>,
           queue' \in Seq(Updates), dialer' \in Dialers, uris' \in BOOLEAN, lookup' \in BOOLEAN,
           \A u \in Sent(queue') : Fits(u), Redials'
    PROVE  Inv'
<1>1. Sent(queue) = {}
  BY SentEmpty
<1>2. Types'
  BY DEF Inv, Types
<1>3. \A u \in Sent(queue') : Fits(u)'
  BY DEF Fits, Gone
<1>4. DevFits'
  <2>1. \A t : ~Leaving(t)
    BY <1>1 DEF Leaving
  <2> QED BY <2>1 DEF Inv, DevFits, Gone, Alive
<1>5. KnownFits' /\ CtlFits'
  BY DEF Inv, KnownFits, CtlFits
<1>6. Sent(queue)' = Sent(queue')
  BY DEF Sent
<1> QED BY <1>2, <1>3, <1>4, <1>5, <1>6 DEF Inv

\* The handlers of the dialer.
LEMMA DialerStep ==
    ASSUME Inv, Prompt, NEW d \in Dialers, NEW r, Turn, Sends(r),
           UNCHANGED <<dev, link, known, ctl, dynamic, uris, lookup>>,
           r = schedule_redial(d, dev, uris) \/ r = discover_or_dial(d, dev, uris)
    PROVE  Inv'
<1>1. queue = <<>> /\ dev \in DevStates /\ uris \in BOOLEAN /\ dynamic \in BOOLEAN /\ lookup \in BOOLEAN
  BY TurnIsEmpty DEF Inv, Types
<1>2. /\ r.d \in Dialers /\ r.out \in Seq(Updates)
      /\ r.d.started = d.started /\ r.d.announced = d.announced
      /\ \A u \in Sent(r.out) : Asks(u, dev)
      /\ Able(d) /\ dev.st = offline => r.d.timer \/ \E u \in Sent(r.out) : Rings(u)
  <2>1. CASE r = schedule_redial(d, dev, uris)
    BY <1>1, <2>1, RedialSends
  <2>2. CASE r = discover_or_dial(d, dev, uris)
    BY <1>1, <2>2, DialSends
  <2> QED BY <2>1, <2>2
<1>3. queue' = r.out /\ dialer' = r.d
  BY <1>1, <1>2 DEF Sends
<1>4. \A u \in Sent(queue') : Fits(u)
  <2>1. dev.st = offline => Gone(dev.tok)
    BY DEF Inv, DevFits, offline, discovering
  <2> QED BY <1>2, <1>3, <2>1, AskFits
<1>5. Redials'
  BY <1>2, <1>3 DEF Redials, Able, Rings, Sent
<1> QED BY <1>1, <1>2, <1>3, <1>4, <1>5, CalmStep

----------------------------------------------------------------------------
LEMMA StartInv == ASSUME Inv, Prompt, on_start PROVE Inv'
<1> DEFINE d == [dialer EXCEPT !.started = TRUE]
<1>1. d \in Dialers
  BY DEF Inv, Types, Dialers
<1> HIDE DEF d
<1>2. Turn /\ Sends(schedule_redial(d, dev, uris)) /\ UNCHANGED <<dev, link, known, ctl, dynamic, uris, lookup>>
  BY DEF on_start, d
<1> QED BY <1>1, <1>2, DialerStep

LEMMA AnnounceInv == ASSUME Inv, Prompt, on_announce PROVE Inv'
<1> DEFINE d == [dialer EXCEPT !.announced = TRUE]
<1>1. d \in Dialers
  BY DEF Inv, Types, Dialers
<1> HIDE DEF d
<1>2. Turn /\ Sends(schedule_redial(d, dev, uris)) /\ UNCHANGED <<dev, link, known, ctl, dynamic, uris, lookup>>
  BY DEF on_announce, d
<1> QED BY <1>1, <1>2, DialerStep

LEMMA TimerInv == ASSUME Inv, Prompt, on_timer PROVE Inv'
<1> DEFINE d == [dialer EXCEPT !.timer = FALSE, !.recent = FALSE]
<1>1. d \in Dialers
  BY DEF Inv, Types, Dialers
<1> HIDE DEF d
<1>2. Turn /\ Sends(discover_or_dial(d, dev, uris)) /\ UNCHANGED <<dev, link, known, ctl, dynamic, uris, lookup>>
  BY DEF on_timer, d
<1> QED BY <1>1, <1>2, DialerStep

LEMMA ElapseInv == ASSUME Inv, Prompt, Elapse PROVE Inv'
<1>1. queue = <<>> /\ queue' = queue /\ UNCHANGED <<dev, link, known, ctl, dynamic, uris, lookup>>
  BY TurnIsEmpty DEF Elapse
<1>2. dialer \in Dialers /\ Sent(queue') = {} /\ queue' \in Seq(Updates) /\ uris \in BOOLEAN /\ lookup \in BOOLEAN
  BY <1>1, SentEmpty DEF Inv, Types
<1>3. dialer' = [dialer EXCEPT !.recent = FALSE]
  BY DEF Elapse
<1>4. dialer' \in Dialers /\ dialer'.started = dialer.started /\ dialer'.announced = dialer.announced /\ dialer'.timer = dialer.timer
  BY <1>2, <1>3 DEF Dialers
<1>5. Redials'
  BY <1>1, <1>4 DEF Inv, Redials, Able, Sent
<1> QED BY <1>1, <1>2, <1>4, <1>5, CalmStep

\* One plain update is sent.
LEMMA PlainStep ==
    ASSUME Inv, Prompt, Turn, NEW k \in {"contact", "accept", "relay"}, queue' = queue \o Plain(k),
           UNCHANGED <<dev, link, known, ctl, dynamic, dialer, uris, lookup>>
    PROVE  Inv'
<1>1. queue = <<>> /\ dialer \in Dialers /\ uris \in BOOLEAN /\ lookup \in BOOLEAN
  BY TurnIsEmpty DEF Inv, Types
<1> DEFINE u == [k |-> k, tok |-> Self, st |-> offline, mine |-> FALSE]
<1>2. Plain(k) \in Seq(Updates) /\ Sent(Plain(k)) = {u}
  BY PlainSends, Zenon
<1>3. Fits(u)
  BY DEF Fits
<1> HIDE DEF u
<1>4. queue' = Plain(k)
  BY <1>1, <1>2
<1>5. Sent(queue) = {}
  BY <1>1, SentEmpty
<1>6. Redials'
  BY <1>5 DEF Inv, Redials, Able
<1> QED BY <1>1, <1>2, <1>3, <1>4, <1>6, CalmStep

LEMMA LocalAnnounceInv == ASSUME Inv, Prompt, LocalAnnounce PROVE Inv'
  BY PlainStep DEF LocalAnnounce

LEMMA AcceptInv == ASSUME Inv, Prompt, NEW k \in {"accept", "relay"}, on_accept(k) PROVE Inv'
  BY PlainStep DEF on_accept

LEMMA ResponseInv == ASSUME Inv, Prompt, NEW found \in BOOLEAN, on_discovery_response(found) PROVE Inv'
<1>1. /\ queue = <<>> /\ dialer \in Dialers /\ uris \in BOOLEAN /\ dev \in DevStates /\ lookup' = FALSE
      /\ UNCHANGED <<dev, link, known, ctl, dynamic, dialer, uris>>
      /\ dev.tok \in Toks /\ Sent(queue) = {}
  BY TurnIsEmpty, SentEmpty DEF Inv, Types, on_discovery_response, DevStates
<1> DEFINE f == [k |-> "found", tok |-> dev.tok, st |-> offline, mine |-> FALSE]
           s == [k |-> "state", tok |-> dev.tok, st |-> offline, mine |-> FALSE]
<1>2. CASE dev.st # discovering
  <2>1. queue' = queue
    BY <1>2 DEF on_discovery_response
  <2>2. Sent(queue') = {} /\ queue' \in Seq(Updates)
    BY <1>1, <2>1
  <2>3. Redials'
    BY <1>1, <2>1 DEF Inv, Redials, Able
  <2> QED BY <1>1, <2>2, <2>3, CalmStep
<1>3. CASE dev.st = discovering
  <2>1. Gone(dev.tok) /\ dev.st # offline
    BY <1>3 DEF Inv, DevFits, discovering, offline
  <2>2. Fits(f) /\ Fits(s)
    BY <2>1 DEF Fits, offline, connecting, connected, online
  <2>3. OfLink("found", dev.tok) \in Seq(Updates) /\ Sent(OfLink("found", dev.tok)) = {f}
    BY <1>1, FoundSends, Zenon
  <2>4. State(dev, dev.tok, offline) \in Seq(Updates) /\ \A u \in Sent(State(dev, dev.tok, offline)) : u = s
    <3>1. offline \in 0 .. 5
      BY Sts
    <3> QED BY <1>1, <3>1, StateSends, Zenon
  <2> HIDE DEF f, s
  <2>5. queue' = OfLink("found", dev.tok) \/ queue' = State(dev, dev.tok, offline)
    BY <1>1, <1>3, <2>3, <2>4 DEF on_discovery_response
  <2>6. queue' \in Seq(Updates) /\ \A u \in Sent(queue') : Fits(u)
    BY <2>2, <2>3, <2>4, <2>5
  <2>7. Redials'
    BY <1>1, <2>1 DEF Redials
  <2> QED BY <1>1, <2>6, <2>7, CalmStep
<1> QED BY <1>2, <1>3

----------------------------------------------------------------------------
\* A device that is known by a connection can be taken offline by it.
LEMMA OfflineSent ==
    ASSUME dev \in DevStates, dev.st >= connecting
    PROVE  \E u \in Sent(State(dev, dev.tok, offline)) : u.k = "state" /\ u.tok = dev.tok /\ u.st = offline
<1> DEFINE off == [tok |-> dev.tok, st |-> offline]
<1>1. off.tok = dev.tok /\ off.st = 0 /\ dev.tok \in Toks /\ dev.st \in 3 .. 5
  BY DEF DevStates, offline, connecting
<1> HIDE DEF off
<1>2. Less(off, dev)
  BY <1>1 DEF Less, online
<1>3. Allowed(dev, off)
  BY <1>1, <1>2 DEF Allowed, CanRollback
<1> DEFINE u == [k |-> "state", tok |-> dev.tok, st |-> offline, mine |-> FALSE]
<1>4. offline \in 0 .. 5
  BY Sts
<1>5. u \in Sent(State(dev, dev.tok, offline))
  BY <1>1, <1>3, <1>4, StateSends, Zenon DEF off
<1>6. u.k = "state" /\ u.tok = dev.tok /\ u.st = offline
  OBVIOUS
<1> HIDE DEF u
<1> QED BY <1>5, <1>6

\* A step of the actor of a connection.
LEMMA LinkStep ==
    ASSUME Inv, queue = <<>>, NEW l \in Links, NEW s \in Stages, NEW c \in 0 .. 5, NEW q \in Seq(Updates),
           UNCHANGED <<dev, dialer, dynamic, uris, lookup>>, link[l] # "closed",
           link' = [link EXCEPT ![l] = s], known' = [known EXCEPT ![l] = c], queue' = q,
           ctl' = ctl \/ ctl' = ctl \ {l}, l \in ctl' => s \in {"active", "closing"},
           s = "dialing" => c = connecting,
           s = "accepting" => c = connecting \/ (c = offline /\ dev.tok # l),
           \A u \in Sent(q) : Fits(u)', dev.tok = l => DevFits'
    PROVE  Inv'
<1>1. Sent(queue) = {}
  BY SentEmpty
<1>2. Types /\ DevFits /\ KnownFits /\ CtlFits /\ Redials
  BY DEF Inv
<1>3. link'[l] = s /\ known'[l] = c /\ \A m \in Links \ {l} : link'[m] = link[m] /\ known'[m] = known[m]
  BY <1>2 DEF Types
<1>4. link' \in [Links -> Stages] /\ known' \in [Links -> 0 .. 5] /\ ctl' \subseteq Links
  BY <1>2 DEF Types
<1>5. Types'
  BY <1>2, <1>4 DEF Types
<1>6. DevFits'
  <2>1. CASE dev.tok # l
    <3>1. \A t : ~Leaving(t)
      BY <1>1 DEF Leaving
    <3>2. dev.st <= discovering => Gone(dev.tok)'
      BY <1>2, <1>3, <2>1 DEF DevFits, Gone
    <3>3. dev.st >= connecting => dev.tok \in Links /\ Alive(dev.tok)'
      BY <1>2, <1>3, <2>1, <3>1 DEF DevFits, Alive
    <3>4. dev.st = online => link'[dev.tok] \in {"active", "closing", "closed"} /\ dev.tok \in ctl'
      <4>1. dev.st = online => dev.st >= connecting
        BY DEF online, connecting
      <4> QED BY <1>2, <1>3, <2>1, <3>1, <3>3, <4>1 DEF DevFits
    <3> QED BY <3>2, <3>3, <3>4 DEF DevFits, Alive, Gone
  <2> QED BY <2>1
<1>7. KnownFits'
  BY <1>2, <1>3 DEF KnownFits
<1>8. CtlFits'
  BY <1>2, <1>3 DEF CtlFits
<1>9. Redials'
  BY <1>1, <1>2 DEF Redials, Able
<1>10. Sent(queue)' = Sent(q)
  BY DEF Sent
<1> QED BY <1>5, <1>6, <1>7, <1>8, <1>9, <1>10 DEF Inv

\* What the state of the device says of a connection it is known by.
LEMMA KnownBy ==
    ASSUME Inv, queue = <<>>, dev.tok \in Links, link[dev.tok] # "closed"
    PROVE  /\ dev.st >= connecting /\ dev \in DevStates /\ dev.st \in 3 .. 5
           /\ dev.st = online => dev.tok \in ctl /\ link[dev.tok] \in {"active", "closing"}
<1>1. Sent(queue) = {}
  BY SentEmpty
<1>2. dev \in DevStates /\ dev.st \in 0 .. 5 /\ dev.tok # Self
  BY LinksAssumption DEF Inv, Types, DevStates
<1>3. ~Gone(dev.tok) /\ ~Leaving(dev.tok)
  BY <1>1, <1>2 DEF Gone, Leaving
<1>4. dev.st \in 3 .. 5
  BY <1>2, <1>3 DEF Inv, DevFits, discovering
<1> QED BY <1>2, <1>3, <1>4 DEF Inv, DevFits, connecting

LEMMA HandshakeInv == ASSUME Inv, Prompt, NEW l \in Links, Handshake(l) PROVE Inv'
<1>1. queue = <<>> /\ Types /\ dev \in DevStates /\ l \in Toks
  BY TurnIsEmpty DEF Inv, Types, Toks, Handshake
<1>2. dev.tok # l
  BY DEF Inv, KnownFits, Handshake, offline, connecting
<1> DEFINE q == State(dev, l, connecting)
<1>3. q \in Seq(Updates) /\ \A u \in Sent(q) : u = [k |-> "state", tok |-> l, st |-> connecting, mine |-> FALSE]
  <2>1. connecting \in 0 .. 5
    BY Sts
  <2> QED BY <1>1, <2>1, StateSends, Zenon
<1> HIDE DEF q
<1>4. queue' = q /\ link' = link /\ link[l] = "accepting" /\ known' = [known EXCEPT ![l] = connecting]
  BY <1>1, <1>3 DEF Handshake, q
<1>5. link' = [link EXCEPT ![l] = "accepting"] /\ known'[l] = connecting /\ link'[l] = "accepting"
  BY <1>1, <1>4 DEF Types
<1>6. \A u \in Sent(q) : Fits(u)'
  BY <1>3, <1>5 DEF Fits, connecting, connected, online, discovering
<1>7. connecting \in 0 .. 5 /\ "accepting" \in Stages
  BY DEF connecting, Stages
<1>8. UNCHANGED <<dev, dialer, dynamic, uris, lookup, ctl>>
  BY DEF Handshake
<1>9. l \notin ctl
  BY <1>2 DEF Inv, CtlFits
<1> QED BY <1>1, <1>2, <1>3, <1>4, <1>5, <1>6, <1>7, <1>8, <1>9, LinkStep

LEMMA ConnectedInv == ASSUME Inv, Prompt, NEW l \in Links, Connected(l) PROVE Inv'
<1>1. queue = <<>> /\ Types /\ Sent(queue) = {}
  BY TurnIsEmpty, SentEmpty DEF Inv, Connected
<1>2. /\ queue' = <<>> /\ link' = [link EXCEPT ![l] = "ready"] /\ known' = [known EXCEPT ![l] = connected]
      /\ UNCHANGED <<dev, dialer, dynamic, uris, lookup, ctl>> /\ link[l] \in {"dialing", "accepting"}
  BY <1>1 DEF Connected
<1>3. link'[l] = "ready"
  BY <1>1, <1>2 DEF Types
<1>4. ASSUME dev.tok = l PROVE DevFits'
  <2>1. dev.st >= connecting /\ dev.st \in 3 .. 5 /\ dev.st # online
    BY <1>1, <1>2, <1>4, KnownBy
  <2> QED BY <1>2, <1>3, <1>4, <2>1 DEF DevFits, Alive, discovering
<1>5. connected \in 0 .. 5 /\ "ready" \in Stages /\ <<>> \in Seq(Updates) /\ Sent(<<>>) = {}
  BY SentEmpty DEF connected, Stages
<1>6. l \notin ctl
  BY <1>2 DEF Inv, CtlFits
<1> QED BY <1>1, <1>2, <1>4, <1>5, <1>6, LinkStep

----------------------------------------------------------------------------
LEMMA FailedInv == ASSUME Inv, Prompt, NEW l \in Links, Failed(l) PROVE Inv'
<1>1. queue = <<>> /\ Types /\ dev \in DevStates /\ l \in Toks /\ offline \in 0 .. 5 /\ known[l] \in 0 .. 5
  BY TurnIsEmpty, Sts DEF Inv, Types, Toks, Failed
<1> DEFINE q == IF known[l] = connecting THEN State(dev, l, offline) ELSE <<>>
<1>2. State(dev, l, offline) \in Seq(Updates) /\ \A u \in Sent(State(dev, l, offline)) : u = [k |-> "state", tok |-> l, st |-> offline, mine |-> FALSE]
  BY <1>1, StateSends, Zenon
<1>3. q \in Seq(Updates) /\ \A u \in Sent(q) : u = [k |-> "state", tok |-> l, st |-> offline, mine |-> FALSE]
  BY <1>2, SentEmpty
<1>4. queue' = q
  BY <1>1, <1>2 DEF Failed
<1>5. /\ link' = [link EXCEPT ![l] = "closed"] /\ known' = known /\ link[l] \in {"dialing", "accepting"}
      /\ UNCHANGED <<dev, dialer, dynamic, uris, lookup, ctl>>
  BY DEF Failed
<1>6. link'[l] = "closed" /\ known' = [known EXCEPT ![l] = known[l]]
  BY <1>1, <1>5 DEF Types
<1>7. \A u \in Sent(q) : Fits(u)'
  BY <1>3, <1>6 DEF Fits, Gone, offline, connecting, connected, online, discovering
<1>8. ASSUME dev.tok = l PROVE DevFits'
  <2>1. dev.st >= connecting /\ dev.st \in 3 .. 5 /\ dev.st # online
    BY <1>1, <1>5, <1>8, KnownBy
  <2>2. known[l] = connecting
    BY <1>5, <1>8 DEF Inv, KnownFits
  <2>3. \E u \in Sent(q) : u.k = "state" /\ u.tok = dev.tok /\ u.st = offline
    BY <1>1, <1>8, <2>1, <2>2, OfflineSent
  <2> HIDE DEF q
  <2>4. Leaving(dev.tok)'
    BY <1>4, <1>5, <2>3 DEF Leaving
  <2> QED BY <1>5, <1>8, <2>1, <2>4 DEF DevFits, discovering
<1>9. "closed" \in Stages /\ l \notin ctl
  BY <1>5 DEF Inv, CtlFits, Stages
<1> HIDE DEF q
<1> QED BY <1>1, <1>3, <1>4, <1>5, <1>6, <1>7, <1>8, <1>9, LinkStep

LEMMA ReadyInv == ASSUME Inv, Prompt, NEW l \in Links, on_peer_ready(l) PROVE Inv'
<1>1. queue = <<>> /\ Types /\ dev \in DevStates /\ l \in Toks /\ connected \in 0 .. 5 /\ known[l] \in 0 .. 5
  BY TurnIsEmpty, Sts DEF Inv, Types, Toks, on_peer_ready
<1>2. known' = known /\ link[l] = "ready" /\ UNCHANGED <<dev, dialer, dynamic, uris, lookup, ctl>>
  BY DEF on_peer_ready
<1>3. known' = [known EXCEPT ![l] = known[l]]
  BY <1>1, <1>2 DEF Types
<1>4. l \notin ctl /\ {"closed", "hello"} \subseteq Stages /\ <<>> \in Seq(Updates) /\ Sent(<<>>) = {}
  BY <1>2, SentEmpty DEF Inv, CtlFits, Stages
<1>5. dev.tok = l => dev.st # online /\ dev.st >= connecting /\ dev.st \in 3 .. 5
  BY <1>1, <1>2, KnownBy
<1>6. CASE dev.st = online
  <2>1. link' = [link EXCEPT ![l] = "closed"] /\ queue' = <<>>
    BY <1>1, <1>6 DEF on_peer_ready
  <2> QED BY <1>1, <1>2, <1>3, <1>4, <1>5, <1>6, <2>1, LinkStep
<1>7. CASE dev.st # online
  <2> DEFINE q == State(dev, l, connected)
  <2>1. q \in Seq(Updates) /\ \A u \in Sent(q) : u = [k |-> "state", tok |-> l, st |-> connected, mine |-> FALSE]
    BY <1>1, StateSends, Zenon
  <2> HIDE DEF q
  <2>2. link' = [link EXCEPT ![l] = "hello"] /\ queue' = q
    BY <1>1, <1>7, <2>1 DEF on_peer_ready, q
  <2>3. link'[l] = "hello"
    BY <1>1, <2>2 DEF Types
  <2>4. \A u \in Sent(q) : Fits(u)'
    <3>1. \A u \in Sent(q) : u.k = "state" /\ u.tok = l /\ u.st = 4
      BY <2>1 DEF connected
    <3>2. SUFFICES ASSUME NEW u, u.k = "state" /\ u.tok = l /\ u.st = 4 PROVE Fits(u)'
      BY <3>1
    <3> QED BY <2>3, <3>2 DEF Fits, connecting, connected, online, discovering
  <2>5. dev.tok = l => DevFits'
    BY <1>2, <1>5, <2>3 DEF DevFits, Alive, discovering
  <2> QED BY <1>1, <1>2, <1>3, <1>4, <2>1, <2>2, <2>4, <2>5, LinkStep
<1> QED BY <1>6, <1>7

LEMMA HelloInv == ASSUME Inv, Prompt, NEW l \in Links, handle_hello(l) PROVE Inv'
<1>1. queue = <<>> /\ Types /\ dev \in DevStates /\ l \in Toks /\ online \in 0 .. 5 /\ known[l] \in 0 .. 5
  BY TurnIsEmpty, Sts DEF Inv, Types, Toks, handle_hello
<1>2. link[l] = "hello" /\ UNCHANGED <<dev, dialer, dynamic, uris, lookup, ctl>>
  BY DEF handle_hello
<1>3. l \notin ctl /\ {"closing", "active"} \subseteq Stages /\ <<>> \in Seq(Updates) /\ Sent(<<>>) = {}
  BY <1>2, SentEmpty DEF Inv, CtlFits, Stages
<1>4. dev.tok = l => dev.st # online /\ dev.st >= connecting /\ dev.st \in 3 .. 5
  BY <1>1, <1>2, KnownBy
<1>5. CASE dev.st = online
  <2>1. link' = [link EXCEPT ![l] = "closing"] /\ queue' = <<>> /\ known' = known
    BY <1>1, <1>5 DEF handle_hello
  <2>2. known' = [known EXCEPT ![l] = known[l]]
    BY <1>1, <2>1 DEF Types
  <2> QED BY <1>1, <1>2, <1>3, <1>4, <1>5, <2>1, <2>2, LinkStep
<1>6. CASE dev.st # online
  <2> DEFINE q == State(dev, l, online)
  <2>1. q \in Seq(Updates) /\ \A u \in Sent(q) : u = [k |-> "state", tok |-> l, st |-> online, mine |-> FALSE]
    BY <1>1, StateSends, Zenon
  <2> HIDE DEF q
  <2>2. link' = [link EXCEPT ![l] = "active"] /\ queue' = q /\ known' = [known EXCEPT ![l] = online]
    BY <1>1, <1>6, <2>1 DEF handle_hello, q
  <2>3. link'[l] = "active"
    BY <1>1, <2>2 DEF Types
  <2>4. \A u \in Sent(q) : Fits(u)'
    <3>1. \A u \in Sent(q) : u.k = "state" /\ u.tok = l /\ u.st = 5
      BY <2>1 DEF online
    <3>2. SUFFICES ASSUME NEW u, u.k = "state" /\ u.tok = l /\ u.st = 5 PROVE Fits(u)'
      BY <3>1
    <3> QED BY <2>3, <3>2 DEF Fits, connecting, connected, online, discovering
  <2>5. dev.tok = l => DevFits'
    BY <1>2, <1>4, <2>3 DEF DevFits, Alive, discovering
  <2> QED BY <1>1, <1>2, <1>3, <2>1, <2>2, <2>4, <2>5, LinkStep
<1> QED BY <1>5, <1>6

----------------------------------------------------------------------------
LEMMA BreaksInv == ASSUME Inv, Prompt, NEW l \in Links, Breaks(l) PROVE Inv'
<1>1. queue = <<>> /\ Types /\ known[l] \in 0 .. 5 /\ "closing" \in Stages /\ <<>> \in Seq(Updates) /\ Sent(<<>>) = {}
  BY TurnIsEmpty, SentEmpty DEF Inv, Types, Breaks, Stages
<1>2. /\ queue' = <<>> /\ link' = [link EXCEPT ![l] = "closing"] /\ known' = known
      /\ UNCHANGED <<dev, dialer, dynamic, uris, lookup, ctl>> /\ link[l] \in {"hello", "active"}
  BY <1>1 DEF Breaks
<1>3. link'[l] = "closing" /\ known' = [known EXCEPT ![l] = known[l]]
  BY <1>1, <1>2 DEF Types
<1>4. ASSUME dev.tok = l PROVE DevFits'
  <2>1. dev.st >= connecting /\ dev.st \in 3 .. 5 /\ (dev.st = online => dev.tok \in ctl)
    BY <1>1, <1>2, <1>4, KnownBy
  <2> QED BY <1>2, <1>3, <1>4, <2>1 DEF DevFits, Alive, discovering
<1> QED BY <1>1, <1>2, <1>3, <1>4, LinkStep

LEMMA FinishInv == ASSUME Inv, Prompt, NEW l \in Links, PeerFinish(l) PROVE Inv'
<1>1. queue = <<>> /\ Types /\ dev \in DevStates /\ l \in Toks /\ offline \in 0 .. 5 /\ known[l] \in 0 .. 5
  BY TurnIsEmpty, Sts DEF Inv, Types, Toks, PeerFinish
<1> DEFINE q == State(dev, l, offline)
<1>2. q \in Seq(Updates) /\ \A u \in Sent(q) : u = [k |-> "state", tok |-> l, st |-> offline, mine |-> FALSE]
  BY <1>1, StateSends, Zenon
<1> HIDE DEF q
<1>3. queue' = q
  BY <1>1, <1>2 DEF PeerFinish, q
<1>4. /\ link' = [link EXCEPT ![l] = "closed"] /\ known' = known /\ link[l] = "closing" /\ ctl' = ctl \ {l}
      /\ UNCHANGED <<dev, dialer, dynamic, uris, lookup>>
  BY DEF PeerFinish
<1>5. link'[l] = "closed" /\ known' = [known EXCEPT ![l] = known[l]]
  BY <1>1, <1>4 DEF Types
<1>6. \A u \in Sent(q) : Fits(u)'
  BY <1>2, <1>5 DEF Fits, Gone, offline, connecting, connected, online, discovering
<1>7. ASSUME dev.tok = l PROVE DevFits'
  <2>1. dev.st >= connecting /\ dev.st \in 3 .. 5
    BY <1>1, <1>4, <1>7, KnownBy
  <2>2. \E u \in Sent(q) : u.k = "state" /\ u.tok = dev.tok /\ u.st = offline
    BY <1>1, <1>7, <2>1, OfflineSent DEF q
  <2>3. Leaving(dev.tok)'
    BY <1>3, <1>4, <2>2 DEF Leaving
  <2> QED BY <1>4, <1>5, <1>7, <2>1, <2>3 DEF DevFits, discovering
<1>8. "closed" \in Stages /\ l \notin ctl'
  BY <1>4 DEF Stages
<1> QED BY <1>1, <1>2, <1>3, <1>4, <1>5, <1>6, <1>7, <1>8, LinkStep

----------------------------------------------------------------------------
\* A new connection is of no update that is under way.
LEMMA FreeIs ==
    ASSUME NEW l \in Free
    PROVE  /\ l \in Links /\ link[l] \in {"idle", "closed"} /\ dev.tok # l
           /\ \A w \in Sent(queue) : w.tok # l
  BY DEF Free, Sent

\* A connection is made, or not, when a request for it is applied.
LEMMA NewLink ==
    ASSUME Inv, queue # <<>>, Head(queue).k # "state", NEW l \in Free, NEW s \in {"dialing", "accepting"},
           NEW c \in {offline, connecting}, s = "dialing" => c = connecting, NEW q \in Seq(Updates),
           link' = [link EXCEPT ![l] = s], known' = [known EXCEPT ![l] = c], queue' = Tail(queue) \o q,
           UNCHANGED <<dev, ctl, dialer, dynamic, uris, lookup>>, \A w \in Sent(q) : Fits(w)', Redials'
    PROVE  Inv'
<1>1. Types /\ DevFits /\ KnownFits /\ CtlFits /\ queue \in Seq(Updates) /\ \A w \in Sent(queue) : Fits(w)
  BY DEF Inv, Types
<1>2. l \in Links /\ link[l] \in {"idle", "closed"} /\ dev.tok # l /\ \A w \in Sent(queue) : w.tok # l
  BY FreeIs
<1>3. Tail(queue) \in Seq(Updates) /\ Sent(queue) = {Head(queue)} \cup Sent(Tail(queue))
  BY <1>1, SentTail
<1>4. queue' \in Seq(Updates) /\ Sent(queue') = Sent(Tail(queue)) \cup Sent(q)
  BY <1>3, SentCat
<1>5. link'[l] = s /\ known'[l] = c /\ \A m \in Links \ {l} : link'[m] = link[m] /\ known'[m] = known[m]
  BY <1>1, <1>2 DEF Types
<1>6. s \in Stages /\ c \in 0 .. 5
  BY Sts DEF Stages
<1>7. Types'
  <2>1. link' \in [Links -> Stages] /\ known' \in [Links -> 0 .. 5]
    BY <1>1, <1>6 DEF Types
  <2> QED BY <1>1, <1>4, <2>1 DEF Types
<1>8. \A w \in Sent(queue') : Fits(w)'
  <2>1. ASSUME NEW w \in Sent(Tail(queue)) PROVE Fits(w)'
    <3>1. Fits(w) /\ w.tok # l
      BY <1>1, <1>2, <1>3
    <3>2. Gone(w.tok) => Gone(w.tok)'
      BY <1>5, <3>1 DEF Gone
    <3>3. w.tok \in Links => link'[w.tok] = link[w.tok] /\ known'[w.tok] = known[w.tok]
      BY <1>5, <3>1
    <3> QED BY <3>1, <3>2, <3>3 DEF Fits
  <2> QED BY <1>4, <2>1
<1>9. DevFits'
  <2>1. Leaving(dev.tok) => Leaving(dev.tok)'
    BY <1>3, <1>4 DEF Leaving
  <2>2. Gone(dev.tok) => Gone(dev.tok)'
    BY <1>2, <1>5 DEF Gone
  <2>3. dev.tok \in Links => link'[dev.tok] = link[dev.tok]
    BY <1>2, <1>5
  <2>4. dev.st = online => dev.st >= connecting
    BY DEF online, connecting
  <2> QED BY <1>1, <2>1, <2>2, <2>3, <2>4 DEF DevFits, Alive
<1>10. KnownFits'
  BY <1>1, <1>2, <1>5 DEF KnownFits
<1>11. CtlFits'
  BY <1>1, <1>2, <1>5 DEF CtlFits, Types
<1>12. Sent(queue)' = Sent(queue')
  BY DEF Sent
<1> QED BY <1>7, <1>8, <1>9, <1>10, <1>11, <1>12 DEF Inv

LEMMA NoLink ==
    ASSUME Inv, queue # <<>>, Head(queue).k # "state", queue' = Tail(queue),
           UNCHANGED <<dev, link, known, ctl, dialer, dynamic, uris, lookup>>, Redials'
    PROVE  Inv'
<1>1. Types /\ DevFits /\ KnownFits /\ CtlFits /\ queue \in Seq(Updates) /\ \A w \in Sent(queue) : Fits(w)
  BY DEF Inv, Types
<1>2. Tail(queue) \in Seq(Updates) /\ Sent(queue) = {Head(queue)} \cup Sent(Tail(queue))
  BY <1>1, SentTail
<1>3. Types'
  BY <1>1, <1>2 DEF Types
<1>4. \A w \in Sent(queue') : Fits(w)'
  BY <1>1, <1>2 DEF Fits, Gone
<1>5. Leaving(dev.tok) => Leaving(dev.tok)'
  BY <1>2 DEF Leaving
<1>6. DevFits' /\ KnownFits' /\ CtlFits'
  BY <1>1, <1>5 DEF DevFits, KnownFits, CtlFits, Gone, Alive
<1>7. Sent(queue)' = Sent(queue')
  BY DEF Sent
<1> QED BY <1>3, <1>4, <1>6, <1>7 DEF Inv

\* An update that calls for nothing leaves what does.
LEMMA StillRings ==
    ASSUME Inv, queue # <<>>, Head(queue).k \in {"accept", "relay"}, NEW q \in Seq(Updates),
           queue' = Tail(queue) \o q, UNCHANGED <<dev, dialer, dynamic>>
    PROVE  Redials'
<1>1. queue \in Seq(Updates) /\ Redials
  BY DEF Inv, Types
<1>2. Tail(queue) \in Seq(Updates) /\ Sent(queue) = {Head(queue)} \cup Sent(Tail(queue))
  BY <1>1, SentTail
<1>3. Sent(queue') = Sent(Tail(queue)) \cup Sent(q)
  BY <1>2, SentCat
<1>4. ~Rings(Head(queue))
  BY DEF Rings
<1>5. (\E w \in Sent(queue) : Rings(w)) => \E w \in Sent(queue') : Rings(w)
  BY <1>2, <1>3, <1>4
<1> QED BY <1>1, <1>5 DEF Redials, Able

----------------------------------------------------------------------------
LEMMA DialRequestInv ==
    ASSUME Inv, queue # <<>>, Head(queue).k = "dial", dial_request PROVE Inv'
<1>1. UNCHANGED <<dev, ctl, dialer, dynamic, uris, lookup>> /\ dev \in DevStates /\ connecting \in 0 .. 5
  BY Sts DEF Inv, Types, dial_request
<1>2. Tail(queue) \in Seq(Updates)
  BY SentTail DEF Inv, Types
<1>3. CASE dev.st = online /\ queue' = Tail(queue) /\ UNCHANGED <<link, known>>
  <2>1. Redials'
    BY <1>1, <1>3 DEF Redials, online, offline
  <2> QED BY <1>1, <1>3, <2>1, NoLink
<1>4. ASSUME dev.st # online, NEW l \in Free, link' = [link EXCEPT ![l] = "dialing"],
             known' = [known EXCEPT ![l] = connecting], queue' = Tail(queue) \o State(dev, l, connecting)
      PROVE  Inv'
  <2>1. l \in Links /\ l \in Toks
    BY FreeIs DEF Toks
  <2> DEFINE u == [k |-> "state", tok |-> l, st |-> connecting, mine |-> FALSE]
             q == State(dev, l, connecting)
  <2>2. q \in Seq(Updates) /\ \A w \in Sent(q) : w = u
    BY <1>1, <2>1, StateSends, Zenon
  <2>3. Allowed(dev, [tok |-> l, st |-> connecting]) => u \in Sent(q)
    BY <1>1, <2>1, StateSends, Zenon
  <2>4. link'[l] = "dialing" /\ known'[l] = connecting
    BY <1>4, <2>1 DEF Inv, Types
  <2>5. Fits(u)' /\ Rings(u)
    BY <2>1, <2>4 DEF Fits, Rings, offline, discovering, connecting, connected, online
  <2> HIDE DEF u, q
  <2>6. dev.st = offline => Allowed(dev, [tok |-> l, st |-> connecting])
    BY DEF Allowed, Less, offline, connecting, online
  <2>7. Sent(queue') = Sent(Tail(queue)) \cup Sent(q)
    BY <1>2, <1>4, <2>2, SentCat DEF q
  <2>8. Redials'
    BY <1>1, <2>3, <2>5, <2>6, <2>7 DEF Redials
  <2>9. queue' = Tail(queue) \o q
    BY <1>4 DEF q
  <2> QED BY <1>1, <1>4, <2>2, <2>5, <2>8, <2>9, NewLink
<1> QED BY <1>3, <1>4 DEF dial_request

LEMMA AcceptLink ==
    ASSUME Inv, queue # <<>>, Head(queue).k \in {"accept", "relay"}, NEW l \in Free,
           link' = [link EXCEPT ![l] = "accepting"], known' = [known EXCEPT ![l] = offline],
           queue' = Tail(queue), UNCHANGED <<dev, ctl, dialer, dynamic, uris, lookup>>
    PROVE  Inv'
<1>1. Tail(queue) \in Seq(Updates) /\ <<>> \in Seq(Updates) /\ Sent(<<>>) = {}
  BY SentTail, SentEmpty DEF Inv, Types
<1>2. queue' = Tail(queue) \o <<>>
  BY <1>1
<1>3. Redials'
  BY <1>1, <1>2, StillRings
<1> QED BY <1>1, <1>2, <1>3, NewLink

LEMMA ConnectRequestInv ==
    ASSUME Inv, queue # <<>>, Head(queue).k = "accept", connect_request PROVE Inv'
  BY AcceptLink DEF connect_request

LEMMA RelayRequestInv ==
    ASSUME Inv, queue # <<>>, Head(queue).k = "relay", relay_connect_request PROVE Inv'
<1>1. queue' = Tail(queue) /\ UNCHANGED <<dev, ctl, dialer, dynamic, uris, lookup>>
  BY DEF relay_connect_request
<1>2. CASE UNCHANGED <<link, known>>
  <2>1. Tail(queue) \in Seq(Updates) /\ <<>> \in Seq(Updates)
    BY SentTail DEF Inv, Types
  <2>2. queue' = Tail(queue) \o <<>>
    BY <1>1, <2>1
  <2>3. Redials'
    BY <1>1, <2>1, <2>2, StillRings
  <2> QED BY <1>1, <1>2, <2>3, NoLink
<1>3. CASE \E l \in Free : (link' = [link EXCEPT ![l] = "accepting"] /\ known' = [known EXCEPT ![l] = offline])
  BY <1>1, <1>3, AcceptLink
<1> QED BY <1>2, <1>3 DEF relay_connect_request

\* The dialer after update_contact_t: it dials a device nobody talks to.
LEMMA ContactSends ==
    ASSUME NEW d \in Dialers, NEW dv \in DevStates
    PROVE  LET r == DialerContact(d, dv, TRUE) IN
           /\ r.d \in Dialers /\ r.out \in Seq(Updates)
           /\ r.d.started = d.started /\ r.d.announced = d.announced
           /\ \A u \in Sent(r.out) : Fits(u)
           /\ dv.st = offline => \E u \in Sent(r.out) : Rings(u)
<1> DEFINE r == DialerContact(d, dv, TRUE)
           n == [d EXCEPT !.skip = SkipDiscovers]
           dial == [k |-> "dial", tok |-> Self, st |-> offline, mine |-> FALSE]
<1>1. n \in Dialers /\ n.started = d.started /\ n.announced = d.announced
  BY LinksAssumption DEF Dialers
<1>2. Plain("dial") \in Seq(Updates) /\ Sent(Plain("dial")) = {dial}
  BY PlainSends, Zenon
<1>3. Fits(dial) /\ Rings(dial)
  BY DEF Fits, Rings
<1> HIDE DEF n, dial
<1>4. CASE dv.st <= discovering
  <2>1. r = [d |-> n, out |-> Plain("dial")]
    BY <1>4 DEF DialerContact, n
  <2> HIDE DEF r
  <2>2. r.d = n /\ r.out = Plain("dial")
    BY <2>1
  <2> QED BY <1>1, <1>2, <1>3, <2>2 DEF r
<1>5. CASE ~(dv.st <= discovering)
  <2>1. r = [d |-> d, out |-> <<>>]
    BY <1>5 DEF DialerContact
  <2> HIDE DEF r
  <2>2. r.d = d /\ r.out = <<>>
    BY <2>1
  <2>3. dv.st # offline
    BY <1>5 DEF offline, discovering
  <2>4. <<>> \in Seq(Updates) /\ Sent(<<>>) = {}
    BY SentEmpty
  <2> QED BY <2>2, <2>3, <2>4 DEF r
<1> QED BY <1>4, <1>5

----------------------------------------------------------------------------
\* An update is applied to the device; connections that lose it are closing.
LEMMA ApplyStep ==
    ASSUME Inv, queue # <<>>, dev' \in DevStates, NEW q \in Seq(Updates), queue' = Tail(queue) \o q,
           \A w \in Sent(q) : Fits(w), dialer' \in Dialers, uris' \in BOOLEAN, lookup' \in BOOLEAN,
           UNCHANGED <<known, dynamic>>, link' \in [Links -> Stages], ctl' \subseteq Links,
           \A l \in Links : link'[l] = link[l] \/ (link[l] = "active" /\ link'[l] = "closing"),
           \A l \in Links : link[l] = "accepting" /\ known[l] = offline => dev'.tok # l,
           DevFits', CtlFits', Redials'
    PROVE  Inv'
<1>1. Types /\ KnownFits /\ queue \in Seq(Updates) /\ \A w \in Sent(queue) : Fits(w)
  BY DEF Inv, Types
<1>2. Tail(queue) \in Seq(Updates) /\ Sent(queue) = {Head(queue)} \cup Sent(Tail(queue))
  BY <1>1, SentTail
<1>3. queue' \in Seq(Updates) /\ Sent(queue') = Sent(Tail(queue)) \cup Sent(q)
  BY <1>2, SentCat
<1>4. ASSUME NEW w, Fits(w) PROVE Fits(w)'
  <2>1. Gone(w.tok) => Gone(w.tok)'
    BY DEF Gone
  <2> QED BY <1>4, <2>1 DEF Fits
<1>5. \A w \in Sent(queue') : Fits(w)'
  BY <1>1, <1>2, <1>3, <1>4
<1>6. Types'
  BY <1>1, <1>3 DEF Types
<1>7. KnownFits'
  BY <1>1 DEF KnownFits, offline, connecting
<1>8. Sent(queue)' = Sent(queue')
  BY DEF Sent
<1> QED BY <1>5, <1>6, <1>7, <1>8 DEF Inv

\* What an update leaves of the invariant of the device when it is refused.
LEMMA DevKept ==
    ASSUME Inv, queue # <<>>, NEW q \in Seq(Updates), queue' = Tail(queue) \o q, UNCHANGED <<dev, link>>,
           ctl \subseteq ctl',
           ~(Head(queue).k = "state" /\ Head(queue).tok = dev.tok /\ Head(queue).st = offline /\ dev.st >= connecting)
    PROVE  DevFits'
<1>1. DevFits /\ queue \in Seq(Updates)
  BY DEF Inv, Types
<1>2. Tail(queue) \in Seq(Updates) /\ Sent(queue) = {Head(queue)} \cup Sent(Tail(queue))
  BY <1>1, SentTail
<1>3. Sent(queue') = Sent(Tail(queue)) \cup Sent(q)
  BY <1>2, SentCat
<1>4. dev.st >= connecting /\ Leaving(dev.tok) => Leaving(dev.tok)'
  BY <1>2, <1>3 DEF Leaving
<1>5. dev.st = online => dev.st >= connecting
  BY DEF online, connecting
<1> QED BY <1>1, <1>4, <1>5 DEF DevFits, Gone, Alive

LEMMA ContactInv ==
    ASSUME Inv, queue # <<>>, Head(queue).k \in {"contact", "found"}, update_contact(Head(queue))
    PROVE  Inv'
<1> DEFINE u == Head(queue)
           off == [tok |-> u.tok, st |-> offline]
           dv == IF u.k = "found" /\ Allowed(dev, off) THEN off ELSE dev
           r1 == DialerContact(dialer, dv, TRUE)
           r2 == IF u.k = "found" /\ dv.st = offline THEN schedule_redial(r1.d, dv, TRUE) ELSE [d |-> r1.d, out |-> <<>>]
<1>1. /\ dev' = dv /\ uris' = TRUE /\ dialer' = r2.d /\ queue' = (Tail(queue) \o r1.out) \o r2.out
      /\ UNCHANGED <<dynamic, link, known, ctl, lookup>>
  BY DEF update_contact
<1>2. /\ Types /\ DevFits /\ KnownFits /\ CtlFits /\ dev \in DevStates /\ dialer \in Dialers /\ dynamic \in BOOLEAN
      /\ link \in [Links -> Stages] /\ ctl \subseteq Links /\ lookup \in BOOLEAN
  BY DEF Inv, Types
<1>3. Tail(queue) \in Seq(Updates) /\ u \in Updates /\ Sent(queue) = {u} \cup Sent(Tail(queue))
  BY <1>2, SentTail DEF Types
<1>4. Fits(u) /\ u.tok \in Toks
  BY <1>3 DEF Inv, Updates
<1>5. off \in DevStates /\ off.tok = u.tok /\ off.st = offline
  BY <1>4 DEF DevStates, offline
<1> HIDE DEF u, off
<1>6. u.k = "found" => Gone(u.tok)
  BY <1>4 DEF Fits, offline, discovering
<1>7. dv \in DevStates /\ (dv = dev \/ (dv = off /\ Gone(dv.tok) /\ dv.st = offline /\ Allowed(dev, off)))
  BY <1>2, <1>5, <1>6
<1>8. dv.st = offline => Gone(dv.tok)
  BY <1>2, <1>7 DEF DevFits, offline, discovering
<1> HIDE DEF dv
<1>9. /\ r1.d \in Dialers /\ r1.out \in Seq(Updates) /\ \A w \in Sent(r1.out) : Fits(w)
      /\ dv.st = offline => \E w \in Sent(r1.out) : Rings(w)
  BY <1>2, <1>7, ContactSends
<1> HIDE DEF r1
<1>10. r2.d \in Dialers /\ r2.out \in Seq(Updates) /\ \A w \in Sent(r2.out) : Fits(w)
  <2> DEFINE r == schedule_redial(r1.d, dv, TRUE)
  <2>1. r.d \in Dialers /\ r.out \in Seq(Updates) /\ \A w \in Sent(r.out) : Asks(w, dv)
    BY <1>2, <1>7, <1>9, RedialSends
  <2>2. \A w \in Sent(r.out) : Fits(w)
    BY <1>8, <2>1, AskFits
  <2> HIDE DEF r
  <2>3. CASE u.k = "found" /\ dv.st = offline
    BY <2>1, <2>2, <2>3 DEF r
  <2>4. CASE ~(u.k = "found" /\ dv.st = offline)
    <3>1. r2.d = r1.d /\ r2.out = <<>>
      BY <2>4
    <3>2. <<>> \in Seq(Updates) /\ Sent(<<>>) = {}
      BY SentEmpty
    <3> QED BY <1>9, <3>1, <3>2
  <2> QED BY <2>3, <2>4
<1> HIDE DEF r2
<1> DEFINE q == r1.out \o r2.out
<1>11. q \in Seq(Updates) /\ Sent(q) = Sent(r1.out) \cup Sent(r2.out)
  BY <1>9, <1>10, SentCat
<1>12. queue' = Tail(queue) \o q
  BY <1>1, <1>3, <1>9, <1>10, SentAssoc
<1> HIDE DEF q
<1>13. Sent(queue') = Sent(Tail(queue)) \cup Sent(q)
  BY <1>3, <1>11, <1>12, SentCat
<1>14. Redials'
  BY <1>1, <1>9, <1>11, <1>13 DEF Redials
<1>15. CASE dv = dev
  <2>1. DevFits'
    BY <1>1, <1>11, <1>12, <1>15, DevKept
  <2>2. CtlFits'
    BY <1>1, <1>2, <1>15 DEF CtlFits
  <2>3. \A l \in Links : link[l] = "accepting" /\ known[l] = offline => dev'.tok # l
    BY <1>1, <1>2, <1>15 DEF KnownFits, offline, connecting
  <2> QED BY <1>1, <1>2, <1>7, <1>9, <1>10, <1>11, <1>12, <1>14, <2>1, <2>2, <2>3, ApplyStep
<1>16. CASE dv = off /\ Gone(dv.tok) /\ dv.st = offline /\ Allowed(dev, off) /\ dv # dev
  <2>1. DevFits'
    <3>1. dev'.st = 0 /\ (dev'.tok = Self \/ (dev'.tok \in Links /\ link'[dev'.tok] = "closed"))
      BY <1>1, <1>16 DEF Gone, offline
    <3> QED BY <3>1 DEF DevFits, Gone, discovering, connecting, online
  <2>2. dev.tok = off.tok
    BY <1>2, <1>5, <1>16 DEF Allowed, Less, CanRollback, DevStates, offline, online
  <2>3. ctl = {}
    BY <1>2, <1>16, <2>2, LinksAssumption DEF CtlFits, Gone
  <2>4. CtlFits'
    BY <1>1, <2>3 DEF CtlFits
  <2>5. \A l \in Links : link[l] = "accepting" /\ known[l] = offline => dev'.tok # l
    BY <1>1, <1>16, LinksAssumption DEF Gone
  <2> QED BY <1>1, <1>2, <1>7, <1>9, <1>10, <1>11, <1>12, <1>14, <2>1, <2>4, <2>5, ApplyStep
<1> QED BY <1>7, <1>15, <1>16

----------------------------------------------------------------------------
\* The dialer after peer_state_t.
LEMMA StateReply ==
    ASSUME NEW d \in Dialers, NEW dv \in DevStates, NEW has \in BOOLEAN, NEW u, dynamic \in BOOLEAN,
           dv.st <= discovering => Gone(dv.tok)
    PROVE  LET r == DialerState(d, u, dv, has) IN
           /\ r.d \in Dialers /\ r.out \in Seq(Updates)
           /\ r.d.started = d.started /\ r.d.announced = d.announced
           /\ \A w \in Sent(r.out) : Fits(w)
           /\ Able(d) /\ dv.st = offline => r.d.timer \/ \E w \in Sent(r.out) : Rings(w)
<1> DEFINE r == DialerState(d, u, dv, has)
           s == schedule_redial(d, dv, has)
           n == [d EXCEPT !.timer = FALSE]
           q == State(dv, dv.tok, offline)
           v == [k |-> "state", tok |-> dv.tok, st |-> offline, mine |-> FALSE]
<1>1. <<>> \in Seq(Updates) /\ Sent(<<>>) = {}
  BY SentEmpty
<1>2. CASE dv.st = offline
  <2>1. r = s
    BY <1>2 DEF DialerState
  <2>2. /\ s.d \in Dialers /\ s.out \in Seq(Updates) /\ s.d.started = d.started /\ s.d.announced = d.announced
        /\ \A w \in Sent(s.out) : Asks(w, dv)
        /\ Able(d) /\ dv.st = offline => s.d.timer \/ \E w \in Sent(s.out) : Rings(w)
    BY RedialSends
  <2>3. dv.st = offline => Gone(dv.tok)
    BY DEF offline, discovering
  <2>4. \A w \in Sent(s.out) : Fits(w)
    BY <2>2, <2>3, AskFits
  <2> QED BY <2>1, <2>2, <2>4
<1>3. CASE dv.st = unknown /\ u.mine
  <2>1. r = [d |-> d, out |-> q]
    BY <1>3 DEF DialerState, unknown, offline
  <2> HIDE DEF r
  <2>2. r.d = d /\ r.out = q
    BY <2>1
  <2>3. offline \in 0 .. 5 /\ dv.tok \in Toks
    BY Sts DEF DevStates
  <2>4. q \in Seq(Updates) /\ \A w \in Sent(q) : w = v
    BY <2>3, StateSends, Zenon
  <2>5. Gone(dv.tok) /\ dv.st # offline
    BY <1>3 DEF unknown, offline, discovering
  <2>6. Fits(v)
    <3>1. v.k = "state" /\ v.st = 0 /\ Gone(v.tok)
      BY <2>5 DEF offline
    <3> HIDE DEF v
    <3> QED BY <3>1 DEF Fits, offline, connecting, connected, online
  <2> HIDE DEF q, v
  <2> QED BY <2>2, <2>4, <2>5, <2>6 DEF r
<1>4. CASE dv.st # offline /\ ~(dv.st = unknown /\ u.mine)
  <2>1. n \in Dialers /\ n.started = d.started /\ n.announced = d.announced
    BY DEF Dialers
  <2> HIDE DEF n
  <2>2. r = [d |-> n, out |-> <<>>] \/ r = [d |-> d, out |-> <<>>]
    BY <1>4 DEF DialerState, n
  <2> HIDE DEF r
  <2>3. (r.d = n \/ r.d = d) /\ r.out = <<>>
    BY <2>2
  <2> QED BY <1>1, <1>4, <2>1, <2>3 DEF r
<1> QED BY <1>2, <1>3, <1>4

LEMMA LookupSends ==
    ASSUME NEW dv \in DevStates, dv.st <= discovering => Gone(dv.tok)
    PROVE  GdaSends(dv) \in Seq(Updates) /\ \A w \in Sent(GdaSends(dv)) : Fits(w)
<1> DEFINE q == State(dv, dv.tok, discovering)
           v == [k |-> "state", tok |-> dv.tok, st |-> discovering, mine |-> FALSE]
<1>1. discovering \in 0 .. 5 /\ dv.tok \in Toks
  BY Sts DEF DevStates
<1>2. q \in Seq(Updates) /\ \A w \in Sent(q) : w = v
  BY <1>1, StateSends, Zenon
<1>3. CASE GdaState(dv)
  <2>1. GdaSends(dv) = q
    BY <1>3 DEF GdaSends
  <2>2. Gone(dv.tok)
    BY <1>3 DEF GdaState, unknown, discovering
  <2>3. Fits(v)
    BY <2>2 DEF Fits, discovering, connecting, connected, online
  <2> HIDE DEF q, v
  <2> QED BY <1>2, <2>1, <2>3
<1>4. CASE ~GdaState(dv)
  <2>1. GdaSends(dv) = <<>> /\ <<>> \in Seq(Updates) /\ Sent(<<>>) = {}
    BY <1>4, SentEmpty DEF GdaSends
  <2> QED BY <2>1
<1> QED BY <1>3, <1>4

\* The only controller that gives way is that of a device online by a worse connection.
LEMMA GivesWay ==
    ASSUME Inv, NEW new \in DevStates, NEW l \in ctl
    PROVE  /\ dev.tok = l /\ dev.st = online /\ link[l] \in {"active", "closing"} /\ l \in Links /\ l # Self
           /\ Less([tok |-> l, st |-> online], new) <=> Less(dev, new)
<1>1. dev.tok = l /\ dev.st = online /\ link[l] \in {"active", "closing"} /\ dev \in DevStates /\ l \in Links /\ l # Self
  BY LinksAssumption DEF Inv, CtlFits, Types
<1>2. dev = [tok |-> l, st |-> online]
  BY <1>1 DEF DevStates
<1> QED BY <1>1, <1>2

----------------------------------------------------------------------------
LEMMA StateInv ==
    ASSUME Inv, queue # <<>>, Head(queue).k = "state", peer_state(Head(queue))
    PROVE  Inv'
<1> DEFINE u == Head(queue)
           new == [tok |-> u.tok, st |-> u.st]
           dv == IF Allowed(dev, new) THEN new ELSE dev
           r == DialerState(dialer, u, dv, uris)
           worse == {l \in ctl : Less([tok |-> l, st |-> online], new)}
<1>1. /\ dev' = dv /\ dialer' = r.d /\ queue' = (Tail(queue) \o r.out) \o GdaSends(dv)
      /\ lookup' = (lookup \/ GdaState(dv))
      /\ ctl' = (ctl \cup (IF dv = new /\ new.st = online THEN {u.tok} ELSE {})) \ worse
      /\ link' = [l \in Links |-> IF l \in worse /\ link[l] = "active" THEN "closing" ELSE link[l]]
      /\ UNCHANGED <<dynamic, known, uris>>
  BY DEF peer_state
<1>2. /\ DevFits /\ KnownFits /\ CtlFits /\ dev \in DevStates /\ dialer \in Dialers /\ dynamic \in BOOLEAN
      /\ link \in [Links -> Stages] /\ ctl \subseteq Links /\ lookup \in BOOLEAN /\ uris \in BOOLEAN
      /\ queue \in Seq(Updates)
  BY DEF Inv, Types
<1>3. Tail(queue) \in Seq(Updates) /\ u \in Updates /\ Sent(queue) = {u} \cup Sent(Tail(queue))
  BY <1>2, SentTail
<1>4. Fits(u) /\ u.k = "state" /\ u.tok \in Toks /\ u.st \in 0 .. 5
  BY <1>3 DEF Inv, Updates
<1>5. new \in DevStates /\ new.tok = u.tok /\ new.st = u.st
  BY <1>4 DEF DevStates
<1>6. \A l \in ctl : l \in worse <=> Less(dev, new)
  BY <1>5, GivesWay
<1> HIDE DEF u, new
<1>7. dv \in DevStates /\ (dv = dev \/ dv = new)
  BY <1>2, <1>5
<1>8. dv.st <= discovering => Gone(dv.tok)
  BY <1>2, <1>4, <1>5, <1>7 DEF DevFits, Fits
<1>9. (Allowed(dev, new) => dv = new) /\ (~Allowed(dev, new) => dv = dev)
  OBVIOUS
<1> HIDE DEF dv, worse
<1>10. /\ r.d \in Dialers /\ r.out \in Seq(Updates) /\ r.d.started = dialer.started /\ r.d.announced = dialer.announced
       /\ \A w \in Sent(r.out) : Fits(w)
       /\ Able(dialer) /\ dv.st = offline => r.d.timer \/ \E w \in Sent(r.out) : Rings(w)
  BY <1>2, <1>7, <1>8, StateReply
<1> HIDE DEF r
<1>11. GdaSends(dv) \in Seq(Updates) /\ \A w \in Sent(GdaSends(dv)) : Fits(w)
  BY <1>7, <1>8, LookupSends
<1> DEFINE q == r.out \o GdaSends(dv)
<1>12. q \in Seq(Updates) /\ Sent(q) = Sent(r.out) \cup Sent(GdaSends(dv))
  BY <1>10, <1>11, SentCat
<1>13. queue' = Tail(queue) \o q
  BY <1>1, <1>3, <1>10, <1>11, SentAssoc
<1> HIDE DEF q
<1>14. Sent(queue') = Sent(Tail(queue)) \cup Sent(q)
  BY <1>3, <1>12, <1>13, SentCat
<1>15. Redials'
  BY <1>1, <1>10, <1>12, <1>14 DEF Redials, Able
<1>16. \A l \in Links : link'[l] = link[l] \/ (link[l] = "active" /\ link'[l] = "closing")
  BY <1>1
<1>17. link' \in [Links -> Stages]
  BY <1>1, <1>2 DEF Stages
<1>18. lookup' \in BOOLEAN
  BY <1>1, <1>2 DEF GdaState
<1>19. new.st >= connecting => new.tok \in Links
  BY <1>4, <1>5 DEF Fits, connecting, connected, online
<1>20. ctl' \subseteq Links
  BY <1>1, <1>2, <1>5, <1>19 DEF online, connecting
<1>21. \A l \in Links : link[l] = "accepting" /\ known[l] = offline => new.tok # l /\ dev.tok # l
  <2>1. SUFFICES ASSUME NEW l \in Links, link[l] = "accepting", known[l] = offline, new.tok = l PROVE FALSE
    BY <1>2 DEF KnownFits, offline, connecting
  <2>2. ~Gone(l)
    BY <2>1, LinksAssumption DEF Gone
  <2>3. u.st \in 3 .. 5
    <3>1. ~(u.st <= 2)
      BY <1>4, <1>5, <2>1, <2>2 DEF Fits, discovering
    <3> QED BY <1>4, <3>1
  <2> QED BY <1>4, <1>5, <2>1, <2>3 DEF Fits, offline, connecting, connected, online
<1>22. \A l \in Links : link[l] = "accepting" /\ known[l] = offline => dev'.tok # l
  BY <1>1, <1>7, <1>21
<1>23. CASE ~Allowed(dev, new)
  <2>1. dv = dev /\ ~Less(dev, new) /\ ~CanRollback(dev, new)
    BY <1>9, <1>23 DEF Allowed
  <2>2. worse = {}
    BY <1>6, <2>1 DEF worse
  <2>3. link' = link
    BY <1>1, <1>2, <2>2
  <2>4. ctl \subseteq ctl'
    BY <1>1, <2>2
  <2>5. ~(u.k = "state" /\ u.tok = dev.tok /\ u.st = offline /\ dev.st >= connecting)
    BY <1>2, <1>5, <2>1 DEF CanRollback, Less, DevStates, offline, connecting, online
  <2>6. DevFits'
    BY <1>1, <1>12, <1>13, <2>1, <2>3, <2>4, <2>5, DevKept DEF u
  <2>7. CtlFits'
    <3>1. SUFFICES ASSUME NEW l \in ctl' PROVE dev.tok = l /\ dev.st = online /\ link[l] \in {"active", "closing"}
      BY <1>1, <2>1, <2>3 DEF CtlFits
    <3>2. CASE l \in ctl
      BY <1>2, <3>2 DEF CtlFits
    <3>3. CASE l \notin ctl
      <4>1. dv = new /\ new.st = online /\ l = u.tok
        BY <1>1, <3>1, <3>3
      <4> QED BY <1>4, <1>5, <2>1, <4>1 DEF Fits
    <3> QED BY <3>2, <3>3
  <2> QED BY <1>1, <1>2, <1>7, <1>10, <1>11, <1>12, <1>13, <1>15, <1>16, <1>17, <1>18, <1>20, <1>22, <2>6, <2>7, ApplyStep
<1>24. CASE Allowed(dev, new)
  <2>1. dv = new
    BY <1>9, <1>24
  <2>2. new.st = online => new.tok \in Links /\ link[new.tok] \in {"active", "closing"}
    BY <1>4, <1>5 DEF Fits
  <2>3. new.st >= connecting => new.tok \in Links /\ link'[new.tok] \in {"dialing", "accepting", "ready", "hello", "active", "closing"}
    <3>1. SUFFICES ASSUME new.st >= connecting
                   PROVE  new.tok \in Links /\ link'[new.tok] \in {"dialing", "accepting", "ready", "hello", "active", "closing"}
      OBVIOUS
    <3>2. new.st \in {connecting, connected, online}
      BY <1>4, <1>5, <3>1 DEF connecting, connected, online
    <3>3. new.tok \in Links /\ link[new.tok] \in {"dialing", "accepting", "hello", "active", "closing"}
      BY <1>4, <1>5, <3>2 DEF Fits
    <3> QED BY <1>16, <3>3
  <2>4. new.st = online => new.tok \notin worse
    <3>1. SUFFICES ASSUME new.st = online, Less([tok |-> new.tok, st |-> online], new) PROVE FALSE
      BY DEF worse
    <3>2. Rank(new.tok) < Rank(new.tok) /\ Rank(new.tok) \in Nat
      BY <2>2, <3>1, LinksAssumption DEF Less
    <3> QED BY <3>2
  <2>5. new.st = online => new.tok \in ctl'
    BY <1>1, <1>5, <2>1, <2>4
  <2>6. DevFits'
    <3>1. new.st <= discovering => new.tok = Self \/ (new.tok \in Links /\ link'[new.tok] = "closed")
      BY <1>8, <1>16, <2>1 DEF Gone
    <3>2. new.st = online => link'[new.tok] \in {"active", "closing", "closed"}
      BY <1>16, <2>2
    <3>3. dev' = new
      BY <1>1, <2>1
    <3> QED BY <2>3, <2>5, <3>1, <3>2, <3>3 DEF DevFits, Alive, Gone
  <2>7. CtlFits'
    <3>1. SUFFICES ASSUME NEW l \in ctl' PROVE new.tok = l /\ new.st = online /\ link'[l] \in {"active", "closing"}
      BY <1>1, <2>1 DEF CtlFits
    <3>2. CASE l \in ctl
      <4>1. dev.tok = l /\ dev.st = online /\ link[l] \in {"active", "closing"} /\ l \in Links /\ l # Self
        BY <1>5, <3>2, GivesWay
      <4>2. ~Less(dev, new)
        BY <1>1, <1>6, <3>1, <3>2
      <4>3. new.tok = l
        BY <1>24, <4>1, <4>2 DEF Allowed, CanRollback
      <4>4. ~Gone(l)
        BY <4>1 DEF Gone
      <4>5. u.st = online
        <5>1. u.tok = l /\ ~(u.st <= 2)
          BY <1>4, <1>5, <4>3, <4>4 DEF Fits, discovering
        <5>2. u.st # 3 /\ u.st # 4
          BY <1>4, <4>1, <5>1 DEF Fits, connecting, connected
        <5> QED BY <1>4, <5>1, <5>2 DEF online
      <4> QED BY <1>5, <1>16, <4>1, <4>3, <4>5
    <3>3. CASE l \notin ctl
      <4>1. new.st = online /\ l = new.tok
        BY <1>1, <1>5, <3>1, <3>3
      <4> QED BY <1>16, <2>2, <4>1
    <3> QED BY <3>2, <3>3
  <2> QED BY <1>1, <1>2, <1>7, <1>10, <1>11, <1>12, <1>13, <1>15, <1>16, <1>17, <1>18, <1>20, <1>22, <2>6, <2>7, ApplyStep
<1> QED BY <1>23, <1>24

----------------------------------------------------------------------------
LEMMA UpdateInv == ASSUME Inv, Update PROVE Inv'
<1>1. queue # <<>>
  BY DEF Update
<1>2. CASE Head(queue).k = "state" /\ peer_state(Head(queue))
  BY <1>1, <1>2, StateInv
<1>3. CASE Head(queue).k \in {"contact", "found"} /\ update_contact(Head(queue))
  BY <1>1, <1>3, ContactInv
<1>4. CASE Head(queue).k = "dial" /\ dial_request
  BY <1>1, <1>4, DialRequestInv
<1>5. CASE Head(queue).k = "accept" /\ connect_request
  BY <1>1, <1>5, ConnectRequestInv
<1>6. CASE Head(queue).k = "relay" /\ relay_connect_request
  BY <1>1, <1>6, RelayRequestInv
<1> QED BY <1>2, <1>3, <1>4, <1>5, <1>6 DEF Update

LEMMA ActorInv == ASSUME Inv, Prompt, Actor PROVE Inv'
<1>1. ASSUME NEW l \in Links,
             Handshake(l) \/ Connected(l) \/ Failed(l) \/ on_peer_ready(l) \/ handle_hello(l) \/ Breaks(l) \/ PeerFinish(l)
      PROVE  Inv'
  BY <1>1, HandshakeInv, ConnectedInv, FailedInv, ReadyInv, HelloInv, BreaksInv, FinishInv
<1>2. ASSUME on_start \/ on_announce \/ on_timer \/ Elapse \/ LocalAnnounce PROVE Inv'
  BY <1>2, StartInv, AnnounceInv, TimerInv, ElapseInv, LocalAnnounceInv
<1>3. ASSUME NEW found \in BOOLEAN, on_discovery_response(found) PROVE Inv'
  BY <1>3, ResponseInv
<1>4. ASSUME NEW k \in {"accept", "relay"}, on_accept(k) PROVE Inv'
  BY <1>4, AcceptInv
<1> QED BY <1>1, <1>2, <1>3, <1>4, Zenon DEF Actor

LEMMA StutterInv == ASSUME Inv, UNCHANGED vars PROVE Inv'
<1>1. Types' /\ KnownFits' /\ CtlFits' /\ Redials'
  BY DEF Inv, vars, Types, KnownFits, CtlFits, Redials, Able, Rings, Sent
<1>2. DevFits'
  BY DEF Inv, vars, DevFits, Gone, Alive, Leaving, Sent
<1>3. (\A u \in Sent(queue) : Fits(u))'
  BY DEF Inv, vars, Fits, Gone, Sent
<1> QED BY <1>1, <1>2, <1>3 DEF Inv

\* The invariant says that the device, its connections and its controller agree.
LEMMA InvAgrees == ASSUME Inv PROVE DeviceSound
<1>1. TypeOK
  <2>1. dev \in [tok : Links \cup {Self}, st : offline .. online] /\ known \in [Links -> offline .. online]
    BY DEF Inv, Types, DevStates, Toks, offline, online
  <2>2. link \in [Links -> Stages] /\ ctl \subseteq Links /\ {dynamic, uris} \subseteq BOOLEAN /\ lookup \in BOOLEAN
    BY DEF Inv, Types
  <2>3. dialer \in [started : BOOLEAN, timer : BOOLEAN, recent : BOOLEAN, skip : 0 .. SkipDiscovers, announced : BOOLEAN]
    BY DEF Inv, Types, Dialers
  <2>4. \A i \in 1 .. Len(queue) : queue[i].k \in {"state", "contact", "found", "dial", "accept", "relay"}
    <3>1. queue \in Seq(Updates)
      BY DEF Inv, Types
    <3>2. \A i \in 1 .. Len(queue) : queue[i] \in Updates
      BY <3>1
    <3> QED BY <3>2 DEF Updates
  <2> QED BY <2>1, <2>2, <2>3, <2>4 DEF TypeOK
<1>2. Leaving(dev.tok) => Queued(dev.tok, offline)
  BY DEF Leaving, Sent, Queued
<1>3. NoGhost
  BY <1>2 DEF Inv, DevFits, NoGhost
<1>4. OneController
  BY DEF Inv, CtlFits, OneController
<1>5. OnlineServed
  <2>1. queue = <<>> => ~Leaving(dev.tok)
    BY SentEmpty DEF Leaving
  <2> QED BY <2>1 DEF Inv, DevFits, OnlineServed
<1>6. Redialed
  <2>1. queue = <<>> => ~\E u \in Sent(queue) : Rings(u)
    BY SentEmpty
  <2> QED BY <2>1 DEF Inv, Redials, Able, Redialed, Quiet
<1> QED BY <1>1, <1>3, <1>4, <1>5, <1>6 DEF DeviceSound

\* However many connections there are and whatever their actors do, a device
\* is shown as connecting, connected or online only by a connection that is
\* there or whose farewell is on its way, it has one controller at most, that
\* of the connection it is online by, an online device has one, and the
\* dialer keeps a timer for an offline device nobody is busy with
\* (dialer_actor_t, peer_supervisor_t, peer_actor_t, cluster_supervisor_t).
\* The net thread is supposed to apply its updates before it does more I/O.
THEOREM DeviceAgrees == ASSUME Prompt PROVE Spec => []DeviceSound
<1>1. Init => Inv
  BY InitInv
<1>2. Inv /\ [Next]_vars => Inv'
  <2>1. SUFFICES ASSUME Inv, [Next]_vars PROVE Inv'
    OBVIOUS
  <2> QED BY <2>1, UpdateInv, ActorInv, StutterInv DEF Next
<1>3. Inv => DeviceSound
  BY InvAgrees
<1> QED BY <1>1, <1>2, <1>3, PTL DEF Spec

----------------------------------------------------------------------------
=============================================================================
