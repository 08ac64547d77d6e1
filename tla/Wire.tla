-------------------------------- MODULE Wire --------------------------------
(***************************************************************************)
(* BEP messages as bytes: how peer_actor_t merges messages into writes,    *)
(* how TLS cuts a write into records, and how the peer_actor_t of the      *)
(* other side finds the messages again (proto::parse_bep); and the same    *)
(* for the messages of a relay (relay_actor_t, proto::relay::parse).       *)
(*                                                                         *)
(* Contents are abstracted away: a byte is known by its place in the       *)
(* stream, so a buffer is an interval of places.  A read of bytes that     *)
(* have not come yet (what an earlier message left in the buffer) gives    *)
(* junk.  TLS is external: a write becomes records of at most RecordSize   *)
(* bytes and a read returns what is left of one record, as far as the      *)
(* buffer has room.                                                        *)
(***************************************************************************)
EXTENDS Naturals, Sequences, FiniteSets, SequencesExt

CONSTANTS Types,                \* BEP messages: [type, size]
          Hello,                \* size of the Hello message
          Levels,               \* settings of compression: subset of {"never", "metadata", "always"}
          Threshold,            \* compression_threshold
          Compressed,           \* size after LZ4 (external)
          RecordSize, RxSize,   \* of a TLS record; rx_buff_size
          MaxTxChunk,           \* MAX_TX_CHUNK
          MaxMessages,          \* bound on the messages of a connection
          RelayTypes,           \* messages of a relay: [type, key, from]
          MaxPacket             \* max_packet_sz

VARIABLES link,                 \* the connection looked at: "peer" or "relay"
          level,                \* compression
          msgs,                 \* messages pushed so far, Hello first
          tx,                   \* sender: [item |-> messages on the way, queue |-> items]
          net,                  \* records on the way: their sizes
          rx,                   \* receiver: [pos, idx, state, done]
          cut,                  \* a record ended inside the sizes of a frame (history)
          relay                 \* the relay's connection

vars == <<link, level, msgs, tx, net, rx, cut, relay>>

----------------------------------------------------------------------------
\* Frames: hello is <<magic 4, size 2, body>>, others are
\* <<header size 2, header, message size 4, body>>.

applied_compression(m, lv) ==
    /\ m.size > Threshold /\ lv # "never"
    /\ m.type = "RESPONSE" => lv = "always"
header_sz(m, lz4) == (IF m.type = "CLUSTER_CONFIG" THEN 0 ELSE 2) + (IF lz4 THEN 2 ELSE 0)
serialize(m, lv) ==
    LET lz4 == applied_compression(m, lv)
    IN  [type |-> m.type, hdr |-> header_sz(m, lz4), lz4 |-> lz4, size |-> m.size,
         body |-> IF lz4 THEN 4 + Compressed[m.size] ELSE m.size]
make_hello_message == [type |-> "HELLO", hdr |-> 0, lz4 |-> FALSE, size |-> Hello, body |-> Hello]
Length(f) == IF f.type = "HELLO" THEN 6 + f.body ELSE 6 + f.hdr + f.body

Total(fs) == FoldLeft(LAMBDA n, f : n + Length(f), 0, fs)
Start(fs, i) == Total(SubSeq(fs, 1, i - 1))

\* Results of the parsers.
Incomplete == [res |-> "incomplete", used |-> 0]
Message(used) == [res |-> "message", used |-> used]
Failed == [res |-> "error", used |-> 0]
Junk == [res |-> "junk", used |-> 0]

\* buff: the frame f begins the buffer and sz bytes of the stream are there.
parse_hello(f, sz) ==
    IF sz < 2 \/ f.body < sz - 2 THEN Incomplete         \* sz - 2 is unsigned
    ELSE IF f.body > sz - 2 THEN Junk ELSE Message(f.body + 6)
\* mutant: the body need not be there
ParseEarly(f, sz) ==
    IF sz < 4 THEN {Incomplete}
    ELSE IF f.type = "HELLO" THEN {parse_hello(f, sz - 4)}
    ELSE IF 6 + f.hdr > sz THEN {Incomplete}
    ELSE IF 6 + f.hdr + f.body > sz THEN {Junk} ELSE {Message(6 + f.hdr + f.body)}
\* The result is a set: junk in the size of the message may say anything.
parse_bep(f, sz) ==
    IF sz < 4 THEN {Incomplete}
    ELSE IF f.type = "HELLO" THEN {parse_hello(f, sz - 4)}
    ELSE IF 2 + f.hdr > sz THEN {Incomplete}
    ELSE IF 2 + f.hdr + 4 > sz THEN {Incomplete, Junk}
    ELSE IF 6 + f.hdr + f.body > sz THEN {Incomplete}
    ELSE {Message(6 + f.hdr + f.body)}

----------------------------------------------------------------------------
\* The sender.

NoItem == <<>>
Bytes(item) == Total([i \in DOMAIN item |-> msgs[item[i]]])

RECURSIVE Records(_)
Records(n) == IF n = 0 THEN <<>> ELSE IF n <= RecordSize THEN <<n>> ELSE <<RecordSize>> \o Records(n - RecordSize)

process_tx_queue(t, ms) ==
    IF t.queue = <<>> THEN [tx |-> [t EXCEPT !.item = NoItem], sent |-> <<>>]
    ELSE LET item == Head(t.queue)
         IN  [tx |-> [item |-> item, queue |-> Tail(t.queue)],
              sent |-> Records(Total([i \in DOMAIN item |-> ms[item[i]]]))]

\* push_write: while a write is on the way messages are merged.
push_write(m) ==
    LET ms == Append(msgs, serialize(m, level))
        n == Len(ms)
        q == tx.queue
        last == Len(q)
        merged == tx.item # NoItem /\ q # <<>> /\ Bytes(q[last]) < MaxTxChunk
        t == [tx EXCEPT !.queue = IF merged THEN [q EXCEPT ![last] = Append(@, n)] ELSE Append(q, <<n>>)]
        go == process_tx_queue(t, ms)
    IN  /\ Len(msgs) < MaxMessages
        /\ msgs' = ms
        /\ IF ~merged /\ tx.item = NoItem THEN tx' = go.tx /\ net' = net \o go.sent ELSE tx' = t /\ UNCHANGED net
        /\ UNCHANGED <<link, level, rx, cut, relay>>

on_write ==
    LET go == process_tx_queue(tx, msgs)
    IN  /\ tx.item # NoItem
        /\ tx' = go.tx /\ net' = net \o go.sent
        /\ UNCHANGED <<link, level, msgs, rx, cut, relay>>

----------------------------------------------------------------------------
\* The receiver: rx.pos is the place of rx_buff[0], rx.idx is rx_idx, rx.done
\* counts the messages that were handed over.

\* The loop of on_read, over a set of states (see parse_bep).
RECURSIVE parse_all(_, _)
parse_all(r, left) ==
    IF left = 0 THEN {r}
    ELSE UNION {
        CASE p.res = "incomplete" -> {r}
        []   p.res \in {"error", "junk"} -> {[r EXCEPT !.state = p.res]}
        []   p.res = "message" -> parse_all([r EXCEPT !.pos = @ + p.used, !.idx = @ - p.used, !.done = @ + 1], left - p.used)
        : p \in parse_bep(msgs[r.done + 1], left)}

on_read ==
    /\ rx.state = "reading" /\ net # <<>>
    /\ LET room == RxSize - rx.idx
           n == IF Head(net) <= room THEN Head(net) ELSE room
           got == rx.idx + n
       IN  /\ n > 0
           /\ rx' \in parse_all([rx EXCEPT !.idx = got], got)
           /\ net' = IF n = Head(net) THEN Tail(net) ELSE <<Head(net) - n>> \o Tail(net)
           /\ cut' = (cut \/ \E i \in DOMAIN msgs :
                        LET off == rx.pos + got - Start(msgs, i)
                        IN  rx.pos + got > Start(msgs, i) /\ off < 6 + msgs[i].hdr)
    /\ UNCHANGED <<link, level, msgs, tx, relay>>

\* read_more: rx_limit_reached.
read_more ==
    /\ rx.state = "reading" /\ rx.idx >= RxSize
    /\ rx' = [rx EXCEPT !.state = "limit"]
    /\ UNCHANGED <<link, level, msgs, tx, net, cut, relay>>

----------------------------------------------------------------------------
\* The relay: <<magic 4, type 4, length 4, payload>>.

RelayHeader == 12
payload_sz(m) ==
    CASE m.type \in {"ping", "pong", "join_relay_request"} -> 0
    []   m.type \in {"join_session_request", "connect_request"} -> 4 + m.key
    []   m.type = "response" -> 8 + m.key
    []   m.type = "session_invitation" -> 4 * 6 + m.from + m.key + 4

\* data: sz bytes after the header.  A result says how long the key it found is.
Found(used, key) == [res |-> "message", used |-> used, key |-> key]
Refused == [res |-> "error", used |-> 0, key |-> 0]
Wait == [res |-> "incomplete", used |-> 0, key |-> 0]
parse_empty(m, sz) == Found(RelayHeader, m.key)
parse_join_session_request(m, sz) == IF m.key + 4 > sz THEN Refused ELSE Found(RelayHeader + sz, sz - 4)
parse_response(m, sz) == IF m.key + 8 > sz THEN Refused ELSE Found(RelayHeader + sz, m.key)
parse_connect_request(m, sz) == IF m.key + 4 # sz THEN Refused ELSE Found(RelayHeader + sz, sz - 4)
parse_session_invitation(m, sz) == IF 4 * 5 + m.from + m.key + 4 > sz THEN Refused ELSE Found(RelayHeader + sz, m.key)
relay_parse(m, sz) ==
    IF sz < RelayHeader THEN Wait
    ELSE IF payload_sz(m) > MaxPacket THEN Refused
    ELSE IF sz < RelayHeader + payload_sz(m) THEN Wait
    ELSE LET tail == sz - RelayHeader IN
         CASE m.type = "join_session_request" -> parse_join_session_request(m, tail)
         []   m.type = "response" -> parse_response(m, tail)
         []   m.type = "connect_request" -> parse_connect_request(m, tail)
         []   m.type = "session_invitation" -> parse_session_invitation(m, tail)
         []   OTHER -> parse_empty(m, tail)

\* The relay (external) writes a message at a time; TLS keeps the writes apart.
relay_send(m) ==
    /\ Len(relay.sent) < MaxMessages
    /\ relay' = [relay EXCEPT !.sent = Append(@, m)]
    /\ UNCHANGED <<link, level, msgs, tx, net, rx, cut>>

\* relay_actor_t::on_read: what is left is not moved to the front of rx_buff.
relay_on_read ==
    /\ relay.state = "reading" /\ relay.read < Len(relay.sent)
    /\ LET m == relay.sent[relay.read + 1]
           sz == relay.idx + RelayHeader + payload_sz(m)
           p == relay_parse(relay.sent[Len(relay.keys) + 1], sz)
       IN  relay' = [relay EXCEPT !.read = @ + 1,
                                  !.idx = sz - p.used,
                                  !.keys = IF p.res = "message" THEN Append(@, p.key) ELSE @,
                                  !.state = IF p.res = "error" THEN "error"
                                            ELSE IF p.used # 0 /\ sz # p.used THEN "junk" ELSE @]
    /\ UNCHANGED <<link, level, msgs, tx, net, rx, cut>>

Init ==
    /\ link \in {"peer", "relay"} /\ level \in Levels
    /\ msgs = <<make_hello_message>>
    /\ tx = [item |-> <<1>>, queue |-> <<>>] /\ net = Records(Length(make_hello_message))
    /\ rx = [pos |-> 0, idx |-> 0, state |-> "reading", done |-> 0] /\ cut = FALSE
    /\ relay = [sent |-> <<>>, read |-> 0, idx |-> 0, keys |-> <<>>, state |-> "reading"]

Next ==
    \/ link = "peer" /\ rx.state = "reading" /\ ((\E m \in Types : push_write(m)) \/ on_write \/ on_read \/ read_more)
    \/ link = "relay" /\ ((\E m \in RelayTypes : relay_send(m)) \/ relay_on_read)

Spec == Init /\ [][Next]_vars

----------------------------------------------------------------------------
\* Type invariant.
TypeOK ==
    /\ level \in Levels /\ cut \in BOOLEAN
    /\ Len(msgs) \in 1..MaxMessages /\ \A i \in DOMAIN net : net[i] \in 1..RecordSize
    /\ rx.idx \in 0..RxSize /\ rx.done \in 0..Len(msgs)
    /\ rx.state \in {"reading", "limit", "error", "junk"}
    /\ relay.read \in 0..Len(relay.sent) /\ relay.state \in {"reading", "error", "junk"}

\* However writes were merged and cut into records, the parser stands at the
\* beginning of a message and has handed over all messages before it, once each.
AtMessage == rx.pos = Start(msgs, rx.done + 1)

\* Nothing is made of bytes that did not come: parse_bep is right about when a
\* message is complete, unless a record ends inside the sizes of a frame.
NoJunk == ~cut => rx.state \notin {"junk", "error"}

\* When every byte was read, every message was handed over: none waits in rx_buff
\* for bytes of the next one.
AllParsed ==
    tx.item = NoItem /\ net = <<>> /\ rx.state = "reading" => rx.done = Len(msgs) /\ rx.idx = 0

\* The connection is given up for a full buffer only if a message does not fit.
LimitRight == rx.state = "limit" => Length(msgs[rx.done + 1]) > RxSize

\* No byte is lost or duplicated between the two sides.
BytesKept ==
    LET waiting == FoldLeft(LAMBDA n, item : n + Bytes(item), 0, tx.queue)
        flying == FoldLeft(LAMBDA n, k : n + k, 0, net)
    IN  rx.pos + rx.idx + flying + waiting = Total(msgs)

\* The relay's messages are found one by one, each when it has come, with the keys
\* that were sent; only one that is too long is an error.
RelayRight ==
    /\ relay.state # "junk" /\ (relay.state = "error" => \E i \in DOMAIN relay.sent : payload_sz(relay.sent[i]) > MaxPacket)
    /\ relay.state = "reading" => Len(relay.keys) = relay.read
    /\ \A i \in DOMAIN relay.keys : relay.keys[i] = relay.sent[i].key

\* What one side sends is what the other side handles, message by message,
\* however it was merged and cut on the way; nothing else ends the connection.
Delivered == TypeOK /\ AtMessage /\ NoJunk /\ AllParsed /\ LimitRight /\ BytesKept /\ RelayRight
=============================================================================
