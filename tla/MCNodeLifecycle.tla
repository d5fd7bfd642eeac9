-------------------------- MODULE MCNodeLifecycle --------------------------
(* A user's calls, one connection of a peer and one of the node's own       *)
(* bridge loop.                                                             *)
EXTENDS NodeLifecycle, TLC

CONSTANTS u1, u2, p1, b1

MCCallers == {u1, u2}
MCCaller == {u1}
MCPeers == {p1}
MCLocals == {b1}
MCNoConns == {}
MCBasePorts == {1, 2}
MCOnePort == {1}
MCSymmetry == Permutations(MCCallers)
=============================================================================
