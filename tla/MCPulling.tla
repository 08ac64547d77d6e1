------------------------------ MODULE MCPulling ------------------------------
(* Controller in five setups that differ in peers, files and faults, and how *)
(* the thread of the file system, which the controllers send their commands  *)
(* to, is woken (Poll).  setup says which of them a behaviour is in; Poll    *)
(* stands still in the others.                                               *)
EXTENDS Poll, Integers, Sequences, TLC

CONSTANTS p1, p2, c1, c2, c3, n1, n2, b1, b2, b3, Self, None, Hole, prod1, prod2

VARIABLES
    setup,
    ver, have, unreach, links, locked, paths, writeReq, syncs, iterOf, st,
    subs, peer, slots, next, rx, pool, iter, fileQueue, postponed, ready,
    guards, finished, fetching, sync, wqueue, fsReqs, hashing, timer,
    agenda, io, diffs, inner, failed, fsq, replies, handle, tmp, disk

poll_ == pollVars
files_ == <<ver, have, unreach, links, locked, paths, writeReq, syncs, iterOf,
          st, subs, peer, slots, next, rx, pool, iter, fileQueue,
          postponed, ready, guards, finished, fetching, sync,
          wqueue, fsReqs, hashing, timer, agenda, io, diffs, inner,
          failed, fsq, replies, handle, tmp, disk>>

Names == {n1, n2}
Blocks == {b1, b2, b3}
Ranks == [n \in Names |-> IF n = n1 THEN 1 ELSE 2]
Offers(peers, content) == [p \in peers |-> [n \in DOMAIN content |-> DOMAIN content[n]]]
Files(first, second) == [n \in Names |-> IF n = n1 THEN first ELSE second]

Overlap == Files(<<<<b1, b2>>>>, <<<<b2, b2>>>>)
Trivial == Files(<<<<>>, <<>>>>, <<<<b1>>, <<>>>>)
Distinct == Files(<<<<b1, b2>>>>, <<<<b3>>>>)
Common == Files(<<<<b1>>>>, <<<<b1>>>>)
Partly == [p \in {p1, p2} |-> [n \in Names |-> IF p = p1 \/ n = n2 THEN {1} ELSE {}]]
One == [n \in {n1} |-> <<<<b1, b2>>>>]

Single == INSTANCE Controller WITH
        Conn <- {c1}, Peer <- {p1}, PeerOf <- [c \in {c1} |-> p1],
        Name <- Names, Rank <- Ranks, Block <- Blocks, Content <- Overlap,
        Offer <- Offers({p1}, Overlap), MaxRequested <- 2, WriteRequests <- 1,
        RequestPool <- 2, queue <- fileQueue, Faults <- {}
Empty == INSTANCE Controller WITH
        Conn <- {c1}, Peer <- {p1}, PeerOf <- [c \in {c1} |-> p1],
        Name <- Names, Rank <- Ranks, Block <- Blocks, Content <- Trivial,
        Offer <- Offers({p1}, Trivial), MaxRequested <- 2, WriteRequests <- 1,
        RequestPool <- 2, queue <- fileQueue, Faults <- {}
Faulty == INSTANCE Controller WITH
        Conn <- {c1}, Peer <- {p1}, PeerOf <- [c \in {c1} |-> p1],
        Name <- Names, Rank <- Ranks, Block <- Blocks, Content <- Distinct,
        Offer <- Offers({p1}, Distinct), MaxRequested <- 2, WriteRequests <- 2,
        RequestPool <- 2, queue <- fileQueue,
        Faults <- {"peer_down", "shutdown", "response_error", "bad_data", "io_error"}
Two == INSTANCE Controller WITH
        Conn <- {c1, c2}, Peer <- {p1, p2}, PeerOf <- (c1 :> p1 @@ c2 :> p2),
        Name <- Names, Rank <- Ranks, Block <- Blocks, Content <- Common,
        Offer <- Partly, MaxRequested <- 2, WriteRequests <- 1,
        RequestPool <- 2, queue <- fileQueue, Faults <- {"peer_down"}
Again == INSTANCE Controller WITH
        Conn <- {c1, c3}, Peer <- {p1}, PeerOf <- [c \in {c1, c3} |-> p1],
        Name <- {n1}, Rank <- [n \in {n1} |-> 1], Block <- Blocks, Content <- One,
        Offer <- Offers({p1}, One), MaxRequested <- 2, WriteRequests <- 1,
        RequestPool <- 2, queue <- fileQueue, Faults <- {"peer_down", "fs_silent"}

\* The variables of a component that does not run.
Off_files == ver = 0 /\ have = 0 /\ unreach = 0 /\ links = 0 /\ locked = 0
             /\ paths = 0 /\ writeReq = 0 /\ syncs = 0 /\ iterOf = 0 /\ st = 0
             /\ subs = 0 /\ peer = 0 /\ slots = 0 /\ next = 0 /\ rx = 0
             /\ pool = 0 /\ iter = 0 /\ fileQueue = 0 /\ postponed = 0
             /\ ready = 0 /\ guards = 0 /\ finished = 0 /\ fetching = 0
             /\ sync = 0 /\ wqueue = 0 /\ fsReqs = 0 /\ hashing = 0
             /\ timer = 0 /\ agenda = 0 /\ io = 0 /\ diffs = 0 /\ inner = 0
             /\ failed = 0 /\ fsq = 0 /\ replies = 0 /\ handle = 0 /\ tmp = 0
             /\ disk = 0
Off_poll == PollInit /\ os = "unix"

AllInit ==
    \/ setup = "single" /\ Single!Init /\ Off_poll
    \/ setup = "empty" /\ Empty!Init /\ Off_poll
    \/ setup = "faulty" /\ Faulty!Init /\ Off_poll
    \/ setup = "two" /\ Two!Init /\ Off_poll
    \/ setup = "again" /\ Again!Init /\ Off_poll
    \/ setup = "poll" /\ PollInit /\ Off_files

AllNext ==
    \/ setup = "single" /\ Single!Next /\ UNCHANGED <<setup, poll_>>
    \/ setup = "empty" /\ Empty!Next /\ UNCHANGED <<setup, poll_>>
    \/ setup = "faulty" /\ Faulty!Next /\ UNCHANGED <<setup, poll_>>
    \/ setup = "two" /\ Two!Next /\ UNCHANGED <<setup, poll_>>
    \/ setup = "again" /\ Again!Next /\ UNCHANGED <<setup, poll_>>
    \/ setup = "poll" /\ PollNext /\ UNCHANGED <<setup, files_>>

AllSpec ==
    /\ AllInit /\ [][AllNext]_<<setup, files_, poll_>>
    /\ WF_files_(setup = "single" /\ Single!Progress)
    /\ WF_files_(setup = "empty" /\ Empty!Progress)
    /\ WF_poll_(setup = "poll" /\ run)
    /\ \A p \in Producers : WF_poll_(setup = "poll" /\ notify(p))
    /\ SF_poll_(setup = "poll" /\ spin /\ at' = "poll")

\* Whatever fails, what is held is accounted for: the write requests out and left
\* make up the pool, every block acquired for fetching is released exactly once,
\* the folder's count of synchronisations is that of the controllers at work, the
\* handlers' assertions hold; across peers and reconnections a path has one owner
\* and a block is downloaded once at a time.  Without faults a locked block is one
\* some controller fetches or writes.
Accounts ==
    /\ setup = "single" => Single!WritePool /\ Single!LocksAreHeld
    /\ setup = "faulty" => Faulty!WritePool /\ Faulty!FetchAccounting /\ Faulty!SyncCounter /\ Faulty!AssertionsHold
    /\ setup = "two" => Two!OneDownload /\ Two!PathExclusion
    /\ setup = "again" => Again!SyncCounter /\ Again!PathExclusion

\* A file renamed to its final name has every block of its version, and a file the
\* model calls complete has its bytes on disk, blocks cloned from another file and
\* updates to empty contents included.
PublishedRight ==
    /\ setup = "single" => Single!ModelMatchesDisk
    /\ setup = "empty" => Empty!ModelMatchesDisk
    /\ setup = "faulty" => Faulty!PublishedWhole
    /\ setup = "again" => Again!PublishedWhole

\* Every file offered is eventually here in its newest version, also one
\* postponed on a block another file was fetching.
EachPulled == <>[](
    /\ setup = "single" => Single!Pulled
    /\ setup = "empty" => Empty!Pulled)
==============================================================================
