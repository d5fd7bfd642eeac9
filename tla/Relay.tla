------------------------------- MODULE Relay -------------------------------
(***************************************************************************)
(* The relay as a whole: one port, at which handle_client looks at the     *)
(* first bytes of a connection and gives it to handle_bridge or serves it  *)
(* as TURN (relay/turn_server.rs).  The two services share the port and    *)
(* nothing else: BRIDGE_LISTENERS is touched by handle_bridge only, the    *)
(* sessions and PENDING by the TURN side only.  So it is enough to follow  *)
(* the relay serving either kind of traffic.                               *)
(***************************************************************************)
EXTENDS RelayBridge, TurnRelay

VARIABLE
    service    \* which traffic the connections of a behaviour begin with

relayVars == <<bridgeVars, vars, service>>

RelayInit == BridgeInit /\ Init /\ service \in {"bridge", "turn"}

RelayNext ==
    /\ \/ service = "bridge" /\ BridgeNext /\ UNCHANGED vars
       \/ service = "turn" /\ Next /\ UNCHANGED bridgeVars
    /\ UNCHANGED service

(* The fairness of both services.  Only a relay that serves the bridge has  *)
(* a receiver that dials it; the other steps need a client to be there.     *)
RelayFairness ==
    /\ BridgeTaskFairness /\ Fairness
    /\ WF_bridgeVars(service = "bridge" /\ \E l \in Listeners : Listen(l))

RelaySpec == RelayInit /\ [][RelayNext]_relayVars /\ RelayFairness

-----------------------------------------------------------------------------
(* "Maintain a persistent BRIDGE LISTEN connection to the relay"            *)
(* (handle.rs:925): when connections stop dying and senders stop coming,    *)
(* the receiver ends up registered for good, or in a tunnel.  It holds for  *)
(* one loop, although a replaced task also evicts its replacement; a        *)
(* restart of the core adds a loop, and then the loops evict one another    *)
(* for ever.                                                                *)
ReceiverStaysReachable ==
    service = "bridge" =>
        <>[](registry # NoOne \/ \E l \in Listeners : lis[l].pc = "splicing")
=============================================================================
