---------------------------- MODULE MCDiscovery ----------------------------
(* a and b share a LAN and leave it by different gateways.                 *)
EXTENDS Discovery, TLC

CONSTANTS a, b, pub, far, lan1

MCPublicOf == (a :> pub) @@ (b :> far)
MCMaxStarts == (a :> 2) @@ (b :> 1)
MCAliasOf == (a :> "a") @@ (b :> "b")
MCSegment == (a :> lan1) @@ (b :> lan1)
=============================================================================
