----------------------------- MODULE MCPeerPool ------------------------------
(***************************************************************************)
(* PeerPool for TLC: node a is dialled and dials at the same time, node b   *)
(* dials, node c is dialled; a and b share an address.                      *)
(***************************************************************************)
EXTENDS PeerPool

CONSTANTS a, b, c, aOut, aIn, bIn, cOut, ip1, ip2

MCSessions == {aOut, aIn, bIn, cOut}
MCNodes == {a, b, c}
MCNodeOf == [s \in MCSessions |->
               CASE s \in {aOut, aIn} -> a [] s = bIn -> b [] s = cOut -> c]
MCIpOf == [n \in MCNodes |-> IF n = c THEN ip2 ELSE ip1]
MCInbound == {aIn, bIn}

\* Two sessions with one node and a third node
SmallSessions == {aOut, aIn, cOut}
SmallNodes == {a, c}
SmallNodeOf == [s \in SmallSessions |-> IF s = cOut THEN c ELSE a]
SmallIpOf == [n \in SmallNodes |-> ip1]
SmallInbound == {aIn}
=============================================================================
