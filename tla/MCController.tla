---------------------------- MODULE MCController ----------------------------
(* Instances of Controller for TLC. *)
EXTENDS Controller

CONSTANTS p1, p2, c1, c2, c3, n1, n2, b1, b2, b3

OnePeer == [c \in Conn |-> p1]
TwoPeers == [c \in Conn |-> IF c = c2 THEN p2 ELSE p1]
Ranks == [n \in Name |-> IF n = n1 THEN 1 ELSE 2]
Updated == [n \in Name |-> IF n = n1 THEN <<<<b1>>, <<b2>>>> ELSE <<<<b3>>>>]
Revised == [n \in Name |-> <<<<b1, b1>>, <<b1, b1>>, <<>>>>]
OfferSome == [p \in Peer |-> [n \in Name |-> IF p = p1 THEN {1} ELSE {2, 3}]]
OfferAll == [p \in Peer |-> [n \in Name |-> DOMAIN Content[n]]]
=============================================================================
