------------------------------ MODULE MCTraffic ------------------------------
(* What goes over a connection and what comes before it: messages and       *)
(* records (Wire), pending operations of a transport (Transport), the index *)
(* and the blocks sent to a peer (Uplink), HTTP requests and name lookups   *)
(* (Http, where two requests go to one host), the configuration (Settings)  *)
(* and device ids (Ids). A behaviour is one of Transport, or one of the     *)
(* others with a transport that is not used.                                *)
EXTENDS Transport, Integers, Sequences, TLC

CONSTANTS p1, p2, p3, r1, none

VARIABLES
    focus,                                  \* the component that runs
    link, level, msgs, wireTx, net, rx, cut, relay,
    seq, top, sends, up, view, str, uplinkTx, outgoing, signals, config, peer,
    serve, uplinkOdd, full, left,
    http, clients, dns,
    dir, file, app, orig, props, ran, edits, settingsOdd,
    sha, text, slips, id

wire_ == <<link, level, msgs, wireTx, net, rx, cut, relay>>
transport_ == transportVars
uplink_ == <<seq, top, sends, up, view, str, uplinkTx, outgoing, signals,
              config, peer, serve, uplinkOdd, full, left>>
http_ == <<http, clients, dns>>
settings_ == <<dir, file, app, orig, props, ran, edits, settingsOdd>>
ids_ == <<sha, text, slips, id>>
all == <<focus, wire_, transport_, uplink_, http_, settings_, ids_>>

Messages == {[type |-> "CLUSTER_CONFIG", size |-> 3], [type |-> "PING", size |-> 0],
             [type |-> "INDEX", size |-> 20], [type |-> "RESPONSE", size |-> 9]}
Half == [n \in 0 .. 20 |-> n \div 2]
RelayMessages ==
    {[type |-> "ping", key |-> 0, from |-> 0], [type |-> "response", key |-> 2, from |-> 0],
     [type |-> "session_invitation", key |-> 1, from |-> 2], [type |-> "join_session_request", key |-> 2, from |-> 0],
     [type |-> "connect_request", key |-> 1, from |-> 0], [type |-> "response", key |-> 50, from |-> 0]}

Holder == [f \in {"a", "b", "c"} |-> IF f = "c" THEN "y" ELSE "x"]
Budget(l, c, t, r, d) == [links |-> l, configs |-> c, types |-> t, requests |-> r, diffs |-> d]

Host == [r \in {p1, p2, p3, r1} |-> CASE r = p3 -> "beta" [] r = r1 -> "bad" [] OTHER -> "alpha"]

Hashes == {[i \in 1..32 |-> 0], [i \in 1..32 |-> 255], [i \in 1..32 |-> (i * 37) % 256],
           [i \in 1..32 |-> (i * i * 7 + 11) % 256]}

W == INSTANCE Wire WITH
    Types <- Messages, Hello <- 5, Levels <- {"never", "metadata", "always"},
    Threshold <- 8, Compressed <- Half, RecordSize <- 13, RxSize <- 24,
    MaxTxChunk <- 20, MaxMessages <- 5, RelayTypes <- RelayMessages,
    MaxPacket <- 40, tx <- wireTx
U == INSTANCE Uplink WITH
    Files <- {"a", "b", "c"}, Folders <- {"x", "y"}, FolderOf <- Holder,
    MaxSeq <- 3,
    Budgets <- {Budget(2, 0, 0, 0, 3), Budget(1, 1, 0, 0, 2), Budget(1, 0, 1, 0, 2), Budget(1, 0, 0, 3, 1)},
    OutgoingMax <- 2, Word <- 100, MaxRead <- 1, tx <- uplinkTx,
    odd <- uplinkOdd
H == INSTANCE Http WITH
    Posts <- {p1, p2, p3}, Others <- {}, Lookups <- {p1, p2, p3},
    HostOf <- Host, Ips <- {}, BadNames <- {"bad"}, KeepAlive <- TRUE,
    None <- none
\* ... with another user of the resolver, who asks for a name that is not one.
R == INSTANCE Http WITH
    Posts <- {p1, p3}, Others <- {r1}, Lookups <- {p1, p3, r1},
    HostOf <- Host, Ips <- {}, BadNames <- {"bad"}, KeepAlive <- TRUE,
    None <- none
C == INSTANCE Settings WITH
    Dirs <- {"home", "custom"}, MaxEdits <- 4, odd <- settingsOdd
I == INSTANCE Ids WITH
    Digests <- Hashes, MaxSlips <- 1

\* The variables of a component that does not run.
Off_wire == link = 0 /\ level = 0 /\ msgs = 0 /\ wireTx = 0 /\ net = 0
            /\ rx = 0 /\ cut = 0 /\ relay = 0
Off_transport == TransportInit /\ kind = "tcp"
Off_uplink == seq = 0 /\ top = 0 /\ sends = 0 /\ up = 0 /\ view = 0 /\ str = 0
              /\ uplinkTx = 0 /\ outgoing = 0 /\ signals = 0 /\ config = 0
              /\ peer = 0 /\ serve = 0 /\ uplinkOdd = 0 /\ full = 0
              /\ left = 0
Off_http == http = 0 /\ clients = 0 /\ dns = 0
Off_settings == dir = 0 /\ file = 0 /\ app = 0 /\ orig = 0 /\ props = 0
                /\ ran = 0 /\ edits = 0 /\ settingsOdd = 0
Off_ids == sha = 0 /\ text = 0 /\ slips = 0 /\ id = 0

AllInit ==
    \/ focus = "wire" /\ W!Init /\ Off_transport /\ Off_uplink /\ Off_http /\ Off_settings /\ Off_ids
    \/ focus = "transport" /\ TransportInit /\ Off_wire /\ Off_uplink /\ Off_http /\ Off_settings /\ Off_ids
    \/ focus = "uplink" /\ U!Init /\ Off_wire /\ Off_transport /\ Off_http /\ Off_settings /\ Off_ids
    \/ focus = "http" /\ H!Init /\ Off_wire /\ Off_transport /\ Off_uplink /\ Off_settings /\ Off_ids
    \/ focus = "lookup" /\ R!Init /\ Off_wire /\ Off_transport /\ Off_uplink /\ Off_settings /\ Off_ids
    \/ focus = "settings" /\ C!Init /\ Off_wire /\ Off_transport /\ Off_uplink /\ Off_http /\ Off_ids
    \/ focus = "ids" /\ I!Init /\ Off_wire /\ Off_transport /\ Off_uplink /\ Off_http /\ Off_settings

AllNext ==
    \/ focus = "wire" /\ W!Next /\ UNCHANGED <<focus, transport_, uplink_, http_, settings_, ids_>>
    \/ focus = "transport" /\ TransportNext /\ UNCHANGED <<focus, wire_, uplink_, http_, settings_, ids_>>
    \/ focus = "uplink" /\ U!Next /\ UNCHANGED <<focus, wire_, transport_, http_, settings_, ids_>>
    \/ focus = "http" /\ H!Next /\ UNCHANGED <<focus, wire_, transport_, uplink_, settings_, ids_>>
    \/ focus = "lookup" /\ R!Next /\ UNCHANGED <<focus, wire_, transport_, uplink_, settings_, ids_>>
    \/ focus = "settings" /\ C!Next /\ UNCHANGED <<focus, wire_, transport_, uplink_, http_, ids_>>
    \/ focus = "ids" /\ I!Next /\ UNCHANGED <<focus, wire_, transport_, uplink_, http_, settings_>>

AllSpec == AllInit /\ [][AllNext]_all

------------------------------------------------------------------------------
\* What one side sends is what the other side handles, message by message,
\* however it was merged and cut into records on the way.
Delivered == focus = "wire" => W!Delivered

\* The peer gets every change and every block it asks for, whatever is in the
\* outgoing buffer and however often the connection is lost.
PeerServed == focus = "uplink" => U!PeerServed

\* A request is kept until it is answered, on a connection to its own host and
\* under its own timer, whatever fails, is cancelled or times out.
RequestsKept == (focus = "http" => H!RequestsKept) /\ (focus = "lookup" => R!RequestsKept)

\* Saving and starting anew give the same configuration, and in the default
\* directory the program starts whatever was saved, reset, edited or lost.
ConfigKept == focus = "settings" => C!ConfigKept

\* An id typed without error is the device's, and a single slip is found: a wrong
\* letter, one left out, or two neighbours that changed places - except the first
\* and the last letter of the alphabet, and a check digit with the letter before
\* it (both count once).
IdsRight == focus = "ids" => I!IdsRight

\* What the dialog saves is what it shows, as long as no number was undone or
\* reset and the relay's debug flag is as its enabled flag; and the window's
\* settings and the dialog's do not undo one another.
Independent == [][focus = "settings" => C!SavesShown /\ C!KeepsOthers]_settings_
==============================================================================
