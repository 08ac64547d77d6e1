------------------------------ MODULE Resolver -----------------------------
(***************************************************************************)
(* resolver_actor_t: one DNS query at a time for a queue of requests, with *)
(* a cache, a timer and cancellation.  Handlers call one another, so each  *)
(* is an operator on the record of the actor's state:                      *)
(*   q, cur, io, cut, timer, tx, cache   the members of the actor          *)
(*   said                                what each request was answered    *)
(*   fault                               an assertion or a null reference  *)
(***************************************************************************)
EXTENDS Naturals, Sequences, FiniteSets

CONSTANTS Lookups,       \* requests to the resolver
          HostOf,        \* the name asked for
          Ips, BadNames, \* names that are addresses, or c-ares refuses
          None

VARIABLE dns

Names == {HostOf[r] : r \in Lookups}
Fresh == [q |-> <<>>, cur |-> None, io |-> {}, cut |-> FALSE, timer |-> FALSE, tx |-> FALSE, cache |-> {},
          said |-> [r \in Lookups |-> "no"], fault |-> "no"]
Entries(q) == {q[i] : i \in 1 .. Len(q)}

\* reply_to and reply_with_error, and the two mass_reply.
Says(d, rs, what) ==
    [d EXCEPT !.said = [r \in Lookups |-> IF r \in rs THEN what ELSE @[r]], !.q = SelectSeq(@, LAMBDA r : r \notin rs)]
Asking(d, host) == {r \in Entries(d.q) : HostOf[r] = host}
mass_reply(d, host) == [Says(d, Asking(d, host), "ok") EXCEPT !.cur = None, !.cache = @ \cup {host}]
mass_error(d, host, what) == Says(d, Asking(d, host), what)

RECURSIVE process(_), resolve_start(_)
process(d) ==
    IF d.io # {} \/ d.q = <<>> THEN d
    ELSE LET h == HostOf[Head(d.q)]
         IN  IF h \in d.cache THEN process(mass_reply(d, h)) ELSE resolve_start(d)

\* resolve_as_ip and resolve_locally answer at once; a name c-ares refuses is
\* answered with an error, and the rest of the queue waits.
resolve_start(d) ==
    LET r == Head(d.q)
        h == HostOf[r]
    IN  IF d.timer THEN d
        ELSE IF h \in Ips THEN process(mass_reply(d, h))
        ELSE IF h \in BadNames THEN Says(d, {r}, "refused")
        ELSE [d EXCEPT !.fault = IF d.tx THEN "tx_buff" ELSE @, !.tx = TRUE, !.io = {"recv", "send"},
                       !.cut = FALSE, !.timer = TRUE, !.cur = r]

TimerEnds(d) == [d EXCEPT !.timer = FALSE]
CancelSocket(d) == [d EXCEPT !.cut = d.io # {}]
on_timer(d, cancelled) ==
    process(TimerEnds(IF cancelled THEN CancelSocket(d)
                      ELSE IF d.q # <<>> /\ d.cur # None
                      THEN CancelSocket(mass_error(d, HostOf[d.cur], "timeout")) ELSE d))
cancel_timer(d) == IF d.timer THEN on_timer(d, TRUE) ELSE d

on_request(d, r) == process([d EXCEPT !.q = Append(@, r)])

\* A request that waits behind another one: the other one is cancelled.
on_cancel(d, r) ==
    IF r \notin Entries(d.q) THEN d
    ELSE IF d.cur = None THEN [d EXCEPT !.fault = "no query"]
    ELSE IF d.cur = r /\ ~d.timer THEN Says(d, {r}, "cancelled")
    ELSE cancel_timer(d)

on_write(d) == [d EXCEPT !.io = @ \ {"send"}, !.tx = FALSE]
Failure(d, what) == IF d.cur # None THEN mass_error(d, HostOf[d.cur], what) ELSE d
on_write_error(d) == process(Failure([d EXCEPT !.io = @ \ {"send"}], "failed"))
on_read_error(d) == process(Failure([d EXCEPT !.io = @ \ {"recv"}], "failed"))

\* A datagram answers the query, or not: it does not parse, is not about the
\* name, or has no address.
on_read(d, good) ==
    LET e == [d EXCEPT !.io = @ \ {"recv"}]
    IN  IF e.cur = None THEN [e EXCEPT !.fault = "no query"]
        ELSE IF good THEN process(cancel_timer(mass_reply(e, HostOf[e.cur])))
        ELSE process(mass_error(e, HostOf[e.cur], "garbage"))

----------------------------------------------------------------------------
\* The callbacks of the socket and the timer.  A name server answers what it
\* was asked, so the query has been sent; a cancelled operation fails.
DnsSent ==
    \/ "send" \in dns.io /\ ~dns.cut /\ dns' = on_write(dns)
    \/ "send" \in dns.io /\ dns' = on_write_error(dns)
DnsRead ==
    \/ "recv" \in dns.io /\ dns' = on_read_error(dns)
    \/ "recv" \in dns.io /\ "send" \notin dns.io /\ ~dns.cut /\ \E good \in BOOLEAN : dns' = on_read(dns, good)
DnsCut == dns.cut /\ "recv" \in dns.io /\ dns' = on_read_error(dns)
DnsTimer == dns.timer /\ dns' = on_timer(dns, FALSE)
DnsStep == DnsSent \/ DnsRead \/ DnsTimer
=============================================================================
