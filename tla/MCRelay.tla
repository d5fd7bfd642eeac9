------------------------------ MODULE MCRelay ------------------------------
(* Three slots for the receiver's connections: one in use, one replaced and *)
(* not yet gone, one to come.                                               *)
EXTENDS Relay

CONSTANTS l1, l2, l3, c1, c2, d1, d2, d3

MCListeners == {l1, l2, l3}
MCSenders == {c1, c2}
=============================================================================
