------------------------------- MODULE Uplink -------------------------------
(***************************************************************************)
(* What a controller sends to its peer: the index of the shared folders    *)
(* (model::updates_streamer_t, push_pending) and the blocks the peer asks  *)
(* for (on_message(Request)).  Both go through the outgoing buffer that    *)
(* peer_actor_t empties write by write.                                    *)
(*                                                                         *)
(* A file is known by the sequence of its last change.  The files wait in  *)
(* a multi_index container ordered by sequence; the container holds        *)
(* pointers, so a change of a file changes its key in place, and only      *)
(* put() moves it.  The peer (external) keeps what an Index or IndexUpdate *)
(* says and the greatest sequence, and tells it when it connects.          *)
(***************************************************************************)
EXTENDS Naturals, Sequences, FiniteSets, SequencesExt, FiniteSetsExt

CONSTANTS Files, Folders, FolderOf,
          MaxSeq,               \* bound on the sequence of a folder
          Budgets,              \* bounds: connections (links), further ClusterConfigs of the peer
                                \* (configs), changes of a folder's type, requests, diffs
          OutgoingMax,          \* outgoing_buffer_max
          Word,                 \* 2^32: the buffer's size is a uint32_t
          MaxRead               \* blocks_max_requested * tx_blocks_max_factor

VARIABLES seq,                  \* seq[f]: sequence of the last change, 0: no file
          top,                  \* top[x]: folder_info_t::max_sequence
          sends,                \* folders whose type is not receive-only
          up,                   \* the controller and its connection exist
          view,                 \* remote_view: what the peer said of our folder
          str,                  \* updates_streamer
          tx,                   \* transfers on their way: [size, msgs]
          outgoing,             \* *outgoing_buffer
          signals,              \* tx_signal_t messages on their way
          config,               \* ClusterConfig on its way from the peer
          peer,                 \* what the peer knows: [has, max, index] per folder
          serve,                \* requested blocks
          odd,                  \* the waiting files got out of order or are not all (history)
          full,                 \* push_pending met an overfull buffer (history)
          left                  \* what is left of the bounds

vars == <<seq, top, sends, up, view, str, tx, outgoing, signals, config, peer, serve, odd, full, left>>

In(x) == {f \in Files : FolderOf[f] = x}
----------------------------------------------------------------------------
\* updates_streamer_t.

NoView == [known |-> FALSE, index |-> FALSE, max |-> 0]
NoStreamer == [on |-> FALSE, seen |-> [x \in Folders |-> 0], knows |-> {}, at |-> "none", unseen |-> <<>>]
Idle(st) == [st EXCEPT !.at = "none", !.unseen = <<>>]

\* mutant: what changed last comes first
LastFirst(x, from, sq) == SetToSortSeq({f \in In(x) : sq[f] >= from}, LAMBDA f, g : sq[f] > sq[g])
\* file_infos_map_t::range(from, max_sequence), in order.
range(x, from, sq) == SetToSortSeq({f \in In(x) : sq[f] >= from}, LAMBDA f, g : sq[f] < sq[g])

\* seen_info: st.knows are its keys.  index of a view: it is the index we have.
refresh_remote(st, vw, snd) ==
    LET now == {x \in snd : vw[x].known}
        remote_max(x) == IF vw[x].index THEN vw[x].max ELSE 0
        prev(x) == IF x \in st.knows THEN st.seen[x] ELSE 0
        seen == [x \in Folders |-> IF x \in now THEN Max({remote_max(x), prev(x)}) ELSE 0]
        new == [st EXCEPT !.seen = seen, !.knows = now]
    IN  IF st.at = "none" THEN new
        ELSE IF st.at \notin snd \/ (vw[st.at].known /\ ~vw[st.at].index) THEN Idle(new)
        ELSE new

\* file_infos_map_t::put: a search among keys that are out of order may end in
\* any gap between a smaller and a greater neighbour.
put(s, f, sq) ==
    LET rest == SelectSeq(s, LAMBDA g : g # f)
        n == Len(rest)
    IN  {SubSeq(rest, 1, i) \o <<f>> \o SubSeq(rest, i + 1, n) :
            i \in {j \in 0..n : /\ (j > 0 => sq[rest[j]] < sq[f])
                                /\ (j < n => sq[rest[j + 1]] > sq[f])}}

\* The result is a set of streamers.
on_update(st, f, sq) ==
    LET x == FolderOf[f]
    IN  IF st.at = "none"
        THEN IF x \in st.knows THEN {[st EXCEPT !.at = x, !.unseen = range(x, st.seen[x] + 1, sq)]} ELSE {st}
        ELSE IF st.at = x THEN {[st EXCEPT !.unseen = u] : u \in put(st.unseen, f, sq)} ELSE {st}

Found(st, f, sq) == [st |-> [st EXCEPT !.seen[FolderOf[f]] = sq[f]], file |-> f, first |-> st.seen[FolderOf[f]] = 0]
Nothing(st) == [st |-> st, file |-> "none", first |-> FALSE]
next(st, sq, tp) ==
    IF st.unseen # <<>>
    THEN Found([st EXCEPT !.unseen = Tail(@)], Head(st.unseen), sq)
    ELSE LET s0 == Idle(st)
             behind == {x \in st.knows : st.seen[x] < tp[x] /\ range(x, st.seen[x] + 1, sq) # <<>>}
         IN  IF behind = {} THEN Nothing(s0)
             ELSE LET x == CHOOSE y \in behind : TRUE
                      r == range(x, st.seen[x] + 1, sq)
                      s1 == IF Len(r) > 1 THEN [s0 EXCEPT !.at = x, !.unseen = Tail(r)] ELSE s0
                  IN  Found(s1, Head(r), sq)

----------------------------------------------------------------------------
\* controller_actor_t.

Unsigned(n, m) == IF n >= m THEN n - m ELSE (n + Word) - m

NoUpdate == [files |-> <<>>, first |-> FALSE]
\* The loop of push_pending: acc[x] is the message for folder x.
RECURSIVE collect(_, _, _, _, _)
collect(st, sq, tp, room, acc) ==
    LET add(n, u) == [files |-> Append(u.files, <<n.file, sq[n.file]>>), first |-> u.first \/ n.first]
        step(n) == IF n.file = "none" THEN [st |-> n.st, acc |-> acc]
                   ELSE collect(n.st, sq, tp, room - 1, [acc EXCEPT ![FolderOf[n.file]] = add(n, @)])
    IN  IF room = 0 THEN [st |-> st, acc |-> acc] ELSE step(next(st, sq, tp))

Min2(a, b) == IF a < b THEN a ELSE b
\* push_pending with the streamer st; data is what the context already holds.
push_pending(st, sq, tp, data, out) ==
    LET room == Unsigned(OutgoingMax, out)
        pushed(c, filled) ==
            [st |-> c.st, size |-> data + FoldSet(LAMBDA x, n : n + Len(c.acc[x].files), 0, filled),
             msgs |-> [x \in filled |-> c.acc[x]]]
        push(c) == pushed(c, {x \in Folders : c.acc[x].files # <<>>})
    IN  IF st.on
        THEN push(collect(st, sq, tp, Min2(room, Cardinality(Files)), [x \in Folders |-> NoUpdate]))
        ELSE [st |-> st, size |-> data, msgs |-> [x \in {} |-> NoUpdate]]

Sorted(st, sq) == \A i \in 1 .. Len(st.unseen) - 1 : sq[st.unseen[i]] < sq[st.unseen[i + 1]]

\* ~stack_context_t: what was pushed becomes one transfer.
Send(p) ==
    /\ str' = p.st
    /\ tx' = IF p.size = 0 THEN tx ELSE Append(tx, [size |-> p.size, msgs |-> p.msgs])
    /\ outgoing' = outgoing + p.size

\* The folders of a diff are changed, then the diff is visited.
RECURSIVE apply_all(_, _)
apply_all(fs, s) ==
    IF fs = <<>> THEN s
    ELSE LET f == Head(fs)
             x == FolderOf[f]
         IN  apply_all(Tail(fs), [seq |-> [s.seq EXCEPT ![f] = s.top[x] + 1], top |-> [s.top EXCEPT ![x] = @ + 1]])
RECURSIVE visit_all(_, _, _)
visit_all(sts, fs, sq) ==
    IF fs = <<>> THEN sts ELSE visit_all(UNION {on_update(st, Head(fs), sq) : st \in sts}, Tail(fs), sq)

\* advance_t: files are changed by this device, by this peer or by another peer.
advance(fs, who) ==
    LET s == apply_all(fs, [seq |-> seq, top |-> top])
    IN  /\ \A x \in Folders : s.top[x] <= MaxSeq
        /\ left.diffs > 0 /\ left' = [left EXCEPT !.diffs = @ - 1]
        /\ seq' = s.seq /\ top' = s.top
        /\ \E st \in IF str.on /\ who # "other" THEN visit_all({str}, fs, s.seq) ELSE {str} :
              \* a change that comes from another peer is not told to a busy streamer
              /\ odd' = (odd \/ ~Sorted(st, s.seq) \/ (who = "other" /\ \E i \in DOMAIN fs : str.at = FolderOf[fs[i]]))
              /\ full' = (full \/ (up /\ outgoing > OutgoingMax))
              /\ IF up THEN Send(push_pending(st, s.seq, s.top, 0, outgoing)) ELSE UNCHANGED <<str, tx, outgoing>>
        /\ UNCHANGED <<sends, up, view, signals, config, peer, serve>>

\* upsert_folder_t: the folder becomes receive-only, or no longer is.
upsert_folder(x) ==
    LET snd == IF x \in sends THEN sends \ {x} ELSE sends \cup {x}
        st == IF str.on THEN refresh_remote(str, view, snd) ELSE str
    IN  /\ left.types > 0 /\ left' = [left EXCEPT !.types = @ - 1]
        /\ sends' = snd
        /\ full' = (full \/ (up /\ outgoing > OutgoingMax))
        /\ IF up THEN Send(push_pending(st, seq, top, 0, outgoing)) ELSE UNCHANGED <<str, tx, outgoing>>
        /\ UNCHANGED <<seq, top, up, view, signals, config, peer, serve, odd>>

\* An index that the peer does not know is started anew.
send_new_indices(st, vw, snd) ==
    IF st.on /\ \E x \in Folders : vw[x].known /\ ~vw[x].index THEN refresh_remote(st, vw, snd) ELSE st
send_cluster_config == [size |-> 1, msgs |-> [x \in {} |-> NoUpdate]]

\* on_start: our ClusterConfig is sent; the peer sends its own.
NoServe == [asked |-> 0, waiting |-> 0, reading |-> 0, tx_blocks_requested |-> 0, answered |-> 0]
Config == [x \in Folders |-> [known |-> TRUE, index |-> peer[x].index, max |-> peer[x].max]]
on_start ==
    /\ ~up /\ left.links > 0 /\ left' = [left EXCEPT !.links = @ - 1]
    /\ up' = TRUE /\ outgoing' = 1
    /\ tx' = <<send_cluster_config>>
    /\ config' = <<Config>> /\ serve' = NoServe
    /\ str' = NoStreamer
    /\ UNCHANGED <<seq, top, sends, view, signals, peer, odd, full>>

\* cluster_update_t: a new streamer.
on_cluster_config ==
    LET st == send_new_indices(refresh_remote([NoStreamer EXCEPT !.on = TRUE], Head(config), sends), Head(config), sends)
    IN  /\ up /\ config # <<>>
        /\ config' = Tail(config) /\ view' = Head(config)
        /\ full' = (full \/ outgoing > OutgoingMax)
        /\ Send(push_pending(st, seq, top, 0, outgoing))
        /\ UNCHANGED <<seq, top, sends, up, signals, peer, serve, odd, left>>

on_tx_signal ==
    /\ up /\ signals > 0 /\ signals' = signals - 1
    /\ full' = (full \/ outgoing > OutgoingMax)
    /\ Send(push_pending(str, seq, top, 0, outgoing))
    /\ UNCHANGED <<seq, top, sends, up, view, config, peer, serve, odd, left>>

\* Flushing the context: blocks that wait are read as far as allowed.
read_blocks(s) ==
    LET n == IF s.tx_blocks_requested > MaxRead THEN 0
             ELSE Min2(s.waiting, MaxRead + 1 - s.tx_blocks_requested)
    IN  [s EXCEPT !.waiting = @ - n, !.reading = @ + n, !.tx_blocks_requested = @ + n]

\* on_message(Request): an error is answered at once.
on_request(code) ==
    LET s == [serve EXCEPT !.asked = @ + 1]
        forward == s.tx_blocks_requested <= MaxRead
    IN  /\ up /\ left.requests > 0 /\ left' = [left EXCEPT !.requests = @ - 1]
        /\ IF code = "error"
           THEN /\ serve' = read_blocks([s EXCEPT !.answered = @ + 1])
                /\ tx' = Append(tx, [size |-> 1, msgs |-> [x \in {} |-> NoUpdate]]) /\ outgoing' = outgoing + 1
           ELSE /\ serve' = read_blocks(IF forward THEN [s EXCEPT !.reading = @ + 1, !.tx_blocks_requested = @ + 1]
                                        ELSE [s EXCEPT !.waiting = @ + 1])
                /\ UNCHANGED <<tx, outgoing>>
        /\ UNCHANGED <<seq, top, sends, up, view, str, signals, config, peer, odd, full>>

\* postprocess_io(block_request_t).
on_block_read ==
    /\ up /\ serve.reading > 0
    /\ serve' = read_blocks([serve EXCEPT !.reading = @ - 1, !.tx_blocks_requested = @ - 1, !.answered = @ + 1])
    /\ tx' = Append(tx, [size |-> 1, msgs |-> [x \in {} |-> NoUpdate]]) /\ outgoing' = outgoing + 1
    /\ UNCHANGED <<seq, top, sends, up, view, str, signals, config, peer, odd, full, left>>

----------------------------------------------------------------------------
\* The peer actor and the peer.

Receive(p, m) ==
    LET new == [f \in Files |-> IF \E i \in DOMAIN m.files : m.files[i][1] = f
                                THEN Max({m.files[i][2] : i \in {j \in DOMAIN m.files : m.files[j][1] = f}})
                                ELSE IF m.first THEN 0 ELSE p.has[f]]
        said == {m.files[i][2] : i \in DOMAIN m.files}
    IN  [p EXCEPT !.has = new, !.max = Max(said \cup (IF m.first THEN {0} ELSE {p.max}))]

\* peer_actor_t::on_write; the peer reads what was written.  Our ClusterConfig
\* comes first, and tells the peer to forget an index that is not ours.
on_write ==
    /\ up /\ tx # <<>>
    /\ tx' = Tail(tx)
    /\ outgoing' = outgoing - Head(tx).size /\ signals' = signals + 1
    /\ peer' = [x \in Folders |->
                  LET p == IF peer[x].index THEN peer[x] ELSE [has |-> [f \in Files |-> 0], max |-> 0, index |-> TRUE]
                      m == Head(tx).msgs
                  IN  IF x \in DOMAIN m THEN Receive(p, m[x]) ELSE p]
    /\ UNCHANGED <<seq, top, sends, up, view, str, config, serve, odd, full, left>>

\* The peer sends its ClusterConfig again.
PeerConfig ==
    /\ up /\ left.configs > 0 /\ left' = [left EXCEPT !.configs = @ - 1]
    /\ config' = Append(config, Config)
    /\ UNCHANGED <<seq, top, sends, up, view, str, tx, outgoing, signals, peer, serve, odd, full>>

\* The connection is lost with all that was not written.
Disconnect ==
    /\ up /\ up' = FALSE
    /\ str' = NoStreamer /\ tx' = <<>> /\ outgoing' = 0 /\ signals' = 0 /\ config' = <<>> /\ serve' = NoServe
    /\ UNCHANGED <<seq, top, sends, view, peer, odd, full, left>>

Init ==
    /\ seq = [f \in Files |-> 0] /\ top = [x \in Folders |-> 0] /\ sends = Folders
    /\ up = FALSE /\ view = [x \in Folders |-> NoView] /\ str = NoStreamer
    /\ tx = <<>> /\ outgoing = 0 /\ signals = 0 /\ config = <<>> /\ serve = NoServe
    \* the peer may remember another index of the folder
    /\ \E i \in BOOLEAN : peer = [x \in Folders |-> [has |-> [f \in Files |-> 0], max |-> IF i THEN 0 ELSE MaxSeq, index |-> i]]
    /\ odd = FALSE /\ full = FALSE
    /\ left \in Budgets

Change == {<<f>> : f \in Files} \cup {<<f, g>> : f, g \in Files}
Step ==
    \/ \E fs \in {c \in Change : IsInjective(c)}, who \in {"self", "peer", "other"} : advance(fs, who)
    \/ \E x \in Folders : upsert_folder(x)
    \/ on_start \/ on_cluster_config \/ on_tx_signal \/ on_write \/ PeerConfig \/ Disconnect
    \/ \E c \in {"ok", "error"} : on_request(c)
    \/ on_block_read
\* Once changes are left behind nothing more is asked of the behaviour.
Next == ~odd /\ Step

Spec == Init /\ [][Next]_vars

----------------------------------------------------------------------------
\* Type invariant.
TypeOK ==
    /\ seq \in [Files -> 0..MaxSeq] /\ top \in [Folders -> 0..MaxSeq] /\ sends \subseteq Folders
    /\ up \in BOOLEAN /\ str.seen \in [Folders -> 0..MaxSeq] /\ str.knows \subseteq Folders
    /\ outgoing \in Nat /\ signals \in Nat /\ odd \in BOOLEAN /\ full \in BOOLEAN

\* The peer tells us the greatest sequence it has, and we never send again what is
\* below: so it must have the last state of every file up to that sequence, at any
\* moment, as the connection may be lost at any moment.
NothingSkipped ==
    ~odd => \A f \in Files :
        LET p == peer[FolderOf[f]] IN p.index /\ seq[f] <= p.max => p.has[f] = seq[f]

\* When nothing is on its way the peer has everything: no change is left behind
\* because the buffer was full or the streamer was busy with another folder.
AllSent ==
    up /\ str.on /\ tx = <<>> /\ signals = 0 /\ config = <<>> /\ ~odd
        => \A f \in Files : FolderOf[f] \in sends => peer[FolderOf[f]].has[f] = seq[f]

\* Index messages wait in the outgoing buffer up to its limit only, unless blocks
\* had already filled it: then the unsigned difference wraps around.
IndexBounded ==
    ~full => FoldLeft(LAMBDA n, t : n + FoldSet(LAMBDA x, k : k + Len(t.msgs[x].files), 0, DOMAIN t.msgs), 0, tx)
                <= OutgoingMax

\* Every request is answered, read or queued, exactly once; and none is queued
\* while a read is allowed, or nobody would ever read it.
Served ==
    /\ serve.asked = serve.answered + serve.reading + serve.waiting
    /\ serve.tx_blocks_requested = serve.reading /\ serve.reading <= MaxRead + 1
    /\ serve.waiting > 0 => serve.reading > 0

\* The peer gets every change and every block it asks for, whatever is in
\* the outgoing buffer, and however often the connection is lost.
PeerServed == TypeOK /\ NothingSkipped /\ AllSent /\ IndexBounded /\ Served
=============================================================================
