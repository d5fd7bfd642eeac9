------------------------------ MODULE MCTrust ------------------------------
(* Two own certificates, enough for a second one to be generated after a    *)
(* crash, two peers, two handshakes at once.                                *)
EXTENDS Trust, TLC

CONSTANTS x1, x2, p1, p2, c1, c2, any

MCOwnCerts == {x1, x2}
MCPeerCerts == {p1, p2}
MCConns == {c1, c2}

MCSymmetry == Permutations(MCOwnCerts) \cup Permutations(MCPeerCerts) \cup Permutations(MCConns)
=============================================================================
