--------------------------- MODULE MCRendezvous ----------------------------
(* Three relay users on networks of their own, two of them behind one NAT. *)
EXTENDS Discovery, TLC

CONSTANTS a, b, c, pub, far, lan1, lan2, lan3

MCPublicOf == (a :> pub) @@ (b :> pub) @@ (c :> far)
MCAliasOf == (a :> "a") @@ (b :> "b") @@ (c :> "c")
MCSegment == (a :> lan1) @@ (b :> lan2) @@ (c :> lan3)
MCMaxStarts == [n \in Nodes |-> 1]
=============================================================================
