------------------------------- MODULE MCLinks -------------------------------
(* Finding and keeping a peer: the device, its connections and its          *)
(* controller (Connections, where l1 goes through a relay and l2 and l3 are *)
(* tcp with different ports) and one connection from the dialing to the     *)
(* closing of its peer actor (Link). A behaviour is one of Connections, or  *)
(* one of Link while the device is not dialed.                              *)
EXTENDS Connections, Link, TLC

CONSTANTS l1, l2, l3

VARIABLE focus                              \* the component that runs

device_ == vars
link_ == linkVars
all == <<focus, device_, link_>>

RankOf(l) == CASE l = l1 -> 1 [] l = l2 -> 2 [] OTHER -> 3

Addresses == {<<>>, <<"tcp">>, <<"tcp", "relay">>, <<"relay", "broken", "tcp">>}

\* The variables of a component that does not run.
Off_device == Init /\ dynamic
Off_link == LinkInit /\ role = "active" /\ linkUris = <<>>

AllInit ==
    \/ focus = "device" /\ Init /\ Off_link
    \/ focus = "link" /\ LinkInit /\ Off_device

AllNext ==
    \/ focus = "device" /\ Next /\ UNCHANGED <<focus, link_>>
    \/ focus = "link" /\ LinkNext /\ UNCHANGED <<focus, device_>>

AllSpec ==
    /\ AllInit /\ [][AllNext]_all
    /\ WF_device_(focus = "device" /\ Update)
    /\ WF_device_(focus = "device" /\ on_timer)
    /\ \A l \in Links : WF_device_(focus = "device" /\ (Failed(l) \/ on_peer_ready(l) \/ PeerFinish(l)))
    /\ WF_device_(focus = "device" /\ \E found \in BOOLEAN : on_discovery_response(found))
    /\ WF_link_(focus = "link" /\ Configure)
    /\ WF_link_(focus = "link" /\ \E ok \in BOOLEAN : on_resolve(ok))
    /\ WF_link_(focus = "link" /\ shutdown_start)
    /\ WF_link_(focus = "link" /\ shutdown_finish)
    /\ WF_link_(focus = "link" /\ i_on_start)
    /\ WF_link_(focus = "link" /\ p_on_start)
    /\ \A r \in {"connect", "handshake", "read", "write"} : WF_link_(focus = "link" /\ st = "stopping" /\ on_io_error(r))
    /\ WF_link_(focus = "link" /\ peer.st = "asked" /\ p_shutdown_start)
    /\ WF_link_(focus = "link" /\ p_shutdown_finish)
    /\ \A r \in {"io_read", "io_write"} : WF_link_(focus = "link" /\ (peer.cut \/ peer.io_error) /\ p_on_io_error(r))
    /\ WF_link_(focus = "link" /\ on_ping_timeout)
    /\ WF_link_(focus = "link" /\ on_stats_timeout)

------------------------------------------------------------------------------
\* Connecting ends: the device does not stay unknown or discovering, an attempt to
\* connect ends, and so does a peer actor that was asked to stop (what it waits
\* for is released).
ConnectingEnds ==
    /\ focus = "device" /\ dev.st \in {unknown, discovering} ~> focus = "device" /\ dev.st \notin {unknown, discovering}
    /\ <>(focus = "link" => st = "down")
    /\ focus = "link" /\ peer.st = "asked" ~> focus = "link" /\ peer.st = "down"
==============================================================================
