-------------------------------- MODULE Http -------------------------------
(***************************************************************************)
(* http_actor_t and the resolver it asks: requests are served one after    *)
(* the other, over a connection that may be kept alive, under one timer.   *)
(* The record of the actor's state has                                     *)
(*   q, io, timer, ask, need, cancel, kept, stop, lock   its members       *)
(*   cut      the transport was cancelled: its operation may still succeed *)
(*   op       the request the operation was started for                    *)
(*   said     what each request was answered: an error, or whose response  *)
(*   conn     the host the transport is connected to                       *)
(*   fault    front() of an empty queue, or the assertion of spawn_timer   *)
(***************************************************************************)
EXTENDS Resolver

CONSTANTS Posts,          \* requests to the HTTP client; each is also a lookup
          KeepAlive,
          Others          \* lookups of other actors

VARIABLES http, clients  \* clients: requests not yet made

vars == <<dns, http, clients>>

Idle == [q |-> <<>>, io |-> "none", cut |-> FALSE, op |-> None, timer |-> FALSE, ask |-> None, need |-> FALSE,
         cancel |-> FALSE, kept |-> None, conn |-> None, stop |-> FALSE, said |-> [p \in Posts |-> "no"], fault |-> "no"]
Init == dns = Fresh /\ http = Idle /\ clients = Posts \cup Others

\* The state of both, since process() sends to the resolver.
Both == [h |-> http, d |-> dns]
Becomes(b) == http' = b.h /\ dns' = b.d

Answer(b, what) ==
    IF b.h.q = <<>> THEN [b EXCEPT !.h.fault = "front"]
    ELSE [b EXCEPT !.h.said[Head(b.h.q)] = IF @ = "no" THEN what ELSE "twice", !.h.q = Tail(@), !.h.need = FALSE]
AnswerAll(b, what) ==
    [b EXCEPT !.h.said = [p \in Posts |-> IF p \in Entries(b.h.q) THEN what ELSE @[p]], !.h.q = <<>>]
Starts(b, op) == [b EXCEPT !.h.io = op, !.h.cut = FALSE, !.h.op = IF b.h.q = <<>> THEN None ELSE Head(b.h.q)]
Ends(b) == [b EXCEPT !.h.io = "none"]

\* cancel_io, with on_timer(cancelled) in it, which calls it again.
cancel_io(b) ==
    [b EXCEPT !.h.cut = @ \/ b.h.io # "none", !.h.timer = FALSE,
              !.d = IF b.h.ask # None THEN on_cancel(@, b.h.ask) ELSE @]
spawn_timer(b) == [b EXCEPT !.h.timer = TRUE, !.h.fault = IF b.h.timer THEN "timer" ELSE @]

write_request(b) ==
    IF b.h.q = <<>> THEN [b EXCEPT !.h.fault = "front"]
    ELSE IF b.h.cancel THEN cancel_io(Answer(b, "cancelled")) ELSE Starts(b, "write")

\* mutant: the kept connection is used for any host
AnyHost(b, fresh) ==
    IF b.h.stop THEN [AnswerAll(b, "stopped") EXCEPT !.h.cut = @ \/ b.h.io # "none"]
    ELSE IF b.h.q = <<>> \/ b.h.io # "none" \/ b.h.timer \/ b.h.ask # None THEN b
    ELSE LET n == [b EXCEPT !.h.need = TRUE, !.h.cancel = FALSE]
         IN  IF KeepAlive /\ b.h.kept # None /\ fresh THEN write_request(spawn_timer(n))
             ELSE [n EXCEPT !.h.kept = None, !.h.ask = Head(b.h.q), !.d = on_request(@, Head(b.h.q))]
\* process: the kept connection is of use for the same host, if it is not old.
h_process(b, fresh) ==
    IF b.h.stop THEN [AnswerAll(b, "stopped") EXCEPT !.h.cut = @ \/ b.h.io # "none"]
    ELSE IF b.h.q = <<>> \/ b.h.io # "none" \/ b.h.timer \/ b.h.ask # None THEN b
    ELSE LET p == Head(b.h.q)
             n == [b EXCEPT !.h.need = TRUE, !.h.cancel = FALSE]
         IN  IF KeepAlive /\ b.h.kept = HostOf[p] /\ fresh THEN write_request(spawn_timer(n))
             ELSE [n EXCEPT !.h.kept = None, !.h.ask = p, !.d = on_request(@, p)]

h_on_request(p, fresh) ==
    /\ p \in clients \cap Posts /\ clients' = clients \ {p}
    /\ Becomes(h_process([Both EXCEPT !.h.q = Append(@, p)], fresh))
h_on_cancel(p) ==
    /\ http.q # <<>> /\ p \in Posts \ clients /\ http.said[p] = "no"
    /\ LET b == [Both EXCEPT !.h.cancel = TRUE]
       IN  Becomes(IF p # Head(http.q)
                   THEN [b EXCEPT !.h.q = SelectSeq(@, LAMBDA r : r # p), !.h.said[p] = "cancelled"]
                   ELSE IF http.ask # None THEN [b EXCEPT !.d = on_cancel(@, http.ask)] ELSE cancel_io(b))
    /\ UNCHANGED clients

\* An answer of the resolver, or rotor's when resolve_timeout is over (late).
on_resolve(fresh, late) ==
    /\ http.ask # None /\ late = (dns.said[http.ask] = "no")
    /\ LET b == [Both EXCEPT !.h.ask = None]
       IN  Becomes(IF dns.said[http.ask] # "ok" THEN h_process(Answer(b, "unresolved"), fresh)
                   ELSE IF b.h.stop \/ b.h.q = <<>> THEN h_process(b, fresh)
                   ELSE spawn_timer([Starts(b, "connect") EXCEPT !.h.conn = HostOf[Head(b.h.q)]]))
    /\ UNCHANGED clients
on_connect(fresh) ==
    /\ http.io = "connect"
    /\ Becomes(IF ~http.need \/ http.stop THEN h_process(Ends(Both), fresh) ELSE Starts(Ends(Both), "handshake"))
    /\ UNCHANGED clients
on_handshake(fresh) ==
    /\ http.io = "handshake"
    /\ Becomes(IF ~http.need \/ http.stop THEN h_process(Ends(Both), fresh) ELSE write_request(Ends(Both)))
    /\ UNCHANGED clients
on_request_sent(fresh) ==
    /\ http.io = "write"
    /\ Becomes(IF ~http.need \/ http.stop THEN h_process(Ends(Both), fresh)
               ELSE IF http.cancel THEN h_process(Answer(Ends(Both), "cancelled"), fresh)
               ELSE Starts(Ends(Both), "read"))
    /\ UNCHANGED clients
on_request_read(fresh, again) ==
    /\ http.io = "read"
    /\ LET b == [Ends(Both) EXCEPT !.h.kept = IF KeepAlive /\ again THEN HostOf[http.op] ELSE None]
           t == IF http.timer THEN cancel_io([b EXCEPT !.h.timer = FALSE]) ELSE b
       IN  Becomes(h_process(Answer(t, http.op), fresh))
    /\ UNCHANGED clients

on_io_error(fresh) ==
    /\ http.io \in {"connect", "write", "read"}
    /\ LET b == cancel_io([Ends(Both) EXCEPT !.h.kept = None])
       IN  Becomes(IF ~http.need \/ http.stop THEN h_process(b, fresh) ELSE Answer(b, "failed"))
    /\ UNCHANGED clients
on_handshake_error(fresh) ==
    /\ http.io = "handshake"
    /\ Becomes(IF ~http.need \/ http.stop THEN h_process(Ends(Both), fresh)
               ELSE h_process(cancel_io(Answer(Ends(Both), "failed")), fresh))
    /\ UNCHANGED clients

\* on_timer when the time is over.
h_on_timer ==
    /\ http.timer
    /\ LET b == [Both EXCEPT !.h.timer = FALSE, !.h.cut = @ \/ http.io # "none"]
           t == Answer(b, "timeout")
       IN  Becomes(IF http.kept = None THEN cancel_io(t) ELSE t)
    /\ UNCHANGED clients
on_close_connection ==
    /\ ~http.stop /\ Becomes(cancel_io([Both EXCEPT !.h.stop = TRUE])) /\ UNCHANGED clients

\* Another actor asks the resolver, or takes its question back.
Lookup(r) ==
    /\ r \in clients \cap Others /\ clients' = clients \ {r}
    /\ dns' = on_request(dns, r) /\ UNCHANGED http
Withdraw(r) ==
    /\ r \in Others \ clients /\ dns.said[r] = "no"
    /\ dns' = on_cancel(dns, r) /\ dns' # dns /\ UNCHANGED <<http, clients>>

\* What has no defined outcome ends a behaviour.
Sound == http.fault # "front" /\ dns.fault # "no query"
Next ==
    /\ Sound
    /\ \/ \E fresh \in BOOLEAN :
            \/ \E p \in Posts : h_on_request(p, fresh)
            \/ on_resolve(fresh, FALSE) \/ on_resolve(fresh, TRUE) \/ on_connect(fresh) \/ on_handshake(fresh) \/ on_request_sent(fresh)
            \/ \E again \in BOOLEAN : on_request_read(fresh, again)
            \/ on_io_error(fresh) \/ on_handshake_error(fresh)
       \/ \E p \in Posts : h_on_cancel(p)
       \/ h_on_timer \/ on_close_connection
       \/ \E r \in Others : Lookup(r) \/ Withdraw(r)
       \/ DnsStep /\ UNCHANGED <<http, clients>>

\* The actors' own messages and timers, and the errors of what was cancelled.
Spec ==
    /\ Init /\ [][Next]_vars
    /\ WF_vars(Sound /\ \E fresh, late \in BOOLEAN : on_resolve(fresh, late)) /\ WF_vars(Sound /\ h_on_timer)
    /\ WF_vars(Sound /\ http.cut /\ \E fresh \in BOOLEAN : on_io_error(fresh) \/ on_handshake_error(fresh))
    /\ WF_vars(Sound /\ DnsTimer /\ UNCHANGED <<http, clients>>)
    /\ WF_vars(Sound /\ DnsSent /\ UNCHANGED <<http, clients>>)
    /\ WF_vars(Sound /\ DnsCut /\ UNCHANGED <<http, clients>>)

----------------------------------------------------------------------------
TypeOK ==
    /\ Entries(http.q) \subseteq Posts /\ Entries(dns.q) \subseteq Lookups
    /\ http.io \in {"none", "connect", "handshake", "write", "read"} /\ dns.io \subseteq {"recv", "send"}
    /\ http.ask \in Posts \cup {None} /\ dns.cur \in Lookups \cup {None}
    /\ clients \subseteq Posts \cup Others

\* A request that was made is in the queue or has been answered, also in the
\* resolver: none is dropped, whatever fails, is cancelled or times out.
NoneDropped ==
    /\ \A p \in Posts \ clients : p \in Entries(http.q) \/ http.said[p] # "no"
    /\ \A r \in Others \ clients : r \in Entries(dns.q) \/ dns.said[r] # "no"
    /\ http.ask # None => http.ask \in Entries(dns.q) \/ dns.said[http.ask] # "no"

\* A request is written to, and its response read from, a connection to the
\* host it is for, also when the connection is kept and used again.
SameHost == http.io \in {"write", "read"} /\ ~http.cut => http.conn = HostOf[http.op]

\* A request is timed by its own timer: the assertion in spawn_timer.
OneTimer == http.fault # "timer"

\* No operation is left alone: one under way has a timer that will end it, or
\* was cancelled.  (After on_cancel it may be: a connect that succeeds all the
\* same goes on to the handshake without a timer.)
Watched == http.io # "none" /\ ~http.cancel => http.timer \/ http.cut

\* Every lookup is answered, by an address or an error.
LookupsAnswered == \A r \in Others : r \notin clients ~> dns.said[r] # "no" \/ ~Sound

\* A response is given to the request it answers.
RightAnswer == \A p \in Posts : http.said[p] \in Posts => http.said[p] = p

\* A request is kept until it is answered, on a connection to its own host,
\* and under its own timer.
RequestsKept == TypeOK /\ NoneDropped /\ SameHost /\ OneTimer /\ Watched
=============================================================================
