----------------------------- MODULE Discovery -----------------------------
(***************************************************************************)
(* How devices learn of each other: multicast announces on a LAN, the      *)
(* /register route, and the rendezvous registry of the relay, all merged   *)
(* into the device table each node keeps (device.rs, discovery.rs, the     *)
(* register and offer routes of server.rs, relay_discovery in handle.rs,   *)
(* relay/discovery_server.rs).                                             *)
(*                                                                         *)
(* A device is known by its fingerprint, here the node itself.  A node's   *)
(* private address is the node; PublicOf gives the address the relay sees  *)
(* it at: nodes behind one NAT share it, and a relay on the LAN sees the   *)
(* node itself.  An address stands for address and port (the relay entry   *)
(* has the probed port, or the listening port when the probe failed);      *)
(* alias, model and protocol are functions of the node.                    *)
(***************************************************************************)
EXTENDS Integers, FiniteSets

CONSTANTS
    Nodes,          \* the devices, and their private addresses
    Publics,        \* public addresses
    PublicOf,       \* the address a node's requests reach the relay from
    AliasOf,        \* the alias a node is configured with, "" for none
    Segment,        \* the multicast domain of a node
    Https,          \* the nodes that announce the https protocol
    RelayUsers,     \* the nodes with a relay and a TLS identity configured
    Senders,        \* the relay users that send files, and so look up and tunnel
    Stopping,       \* the nodes that are shut down at times
    Probe,          \* the fingerprint "lookup-probe"
    Loopback,       \* source of a connection that came through a local bridge
    RelayHost,      \* source of a connection the relay opened (TURN Connect)
    Tunnels,        \* the sources of tunnelled requests that are exercised
    NoDevice,       \* an absent table entry
    None,
    MaxStarts,      \* bound: starts of each node
    MaxFaults       \* bound: failed heartbeats, lookups and restarts together

ASSUME DiscoveryAssumption ==
    /\ PublicOf \in [Nodes -> Publics]
    /\ Https \subseteq Nodes /\ RelayUsers \subseteq Nodes
    /\ Senders \subseteq RelayUsers /\ Stopping \subseteq Nodes
    /\ Tunnels \subseteq {Loopback, RelayHost}
    /\ Probe \notin Nodes /\ None \notin Nodes \cup Publics
    /\ MaxStarts \in [Nodes -> Nat] /\ MaxFaults \in Nat

Fingerprints == Nodes \cup {Probe}
Addresses == Nodes \cup Publics \cup {Loopback, RelayHost}
Device == [addr : Addresses, source : {"lan", "relay"}]
Loops(n) == 1 .. MaxStarts[n]

ASSUME NoDeviceAssumption == NoDevice \notin Device

LanDevice(addr) == [addr |-> addr, source |-> "lan"]
RelayDevice(addr) == [addr |-> addr, source |-> "relay"]

VARIABLES
    running,      \* the nodes whose server and multicast actor are up
    loops,        \* relay_discovery loops a node has started, never stopped
    clearing,     \* the nodes in start or shutdown, about to clear the table
    table,        \* device_map of each node
    shown,        \* the device list last published to the front end
    air,          \* announces in flight, <<from, to>>
    heard,        \* the announced device a multicast actor is about to add
    posts,        \* POST /register requests in flight, <<from, to>>
    registry,     \* the relay's registry: fingerprint to address
    missed,       \* heartbeats missed in a row, per fingerprint
    merging,      \* what a loop has still to merge, and the entry it checked
    faults        \* failed heartbeats, lookups and restarts so far

vars == <<running, loops, clearing, table, shown, air, heard, posts,
          registry, missed, merging, faults>>
nodeVars == <<running, loops, clearing>>
relayVars == <<registry, missed, faults>>

Entry == [fp : Fingerprints, addr : Publics]
Idle == [todo |-> {}, pend |-> None]

Init ==
    /\ running = {}
    /\ loops = [n \in Nodes |-> 0]
    /\ clearing = {}
    /\ table = [n \in Nodes |-> [fp \in Fingerprints |-> NoDevice]]
    /\ shown = [n \in Nodes |-> [fp \in Fingerprints |-> NoDevice]]
    /\ air = {}
    /\ heard = [n \in Nodes |-> None]
    /\ posts = {}
    /\ registry = [fp \in Fingerprints |-> None]
    /\ missed = [fp \in Fingerprints |-> 0]
    /\ merging = [n \in Nodes |-> [l \in Loops(n) |-> Idle]]
    /\ faults = 0

-----------------------------------------------------------------------------
(* The device actor.                                                       *)

SameRenderedByName(old, new) == old # NoDevice

\* same_rendered_device: alias and model are functions of the node; the
\* discovery source is not among the fields it compares.
SameRendered(old, new) ==
    old # NoDevice /\ old.addr = new.addr

\* DeviceMessage::Add: replace the entry, publish only a visible change.
AddDevice(n, fp, device) ==
    /\ table' = [table EXCEPT ![n][fp] = device]
    /\ shown' = IF SameRendered(table[n][fp], device)
                THEN shown
                ELSE [shown EXCEPT ![n] = table'[n]]

\* DeviceMessage::Clear.
ClearTable(n) ==
    /\ table' = [table EXCEPT ![n] = [fp \in Fingerprints |-> NoDevice]]
    /\ shown' = [shown EXCEPT ![n] = table'[n]]

\* What waits in the sockets of a server that stops is lost.
CloseSockets(n) ==
    /\ air' = {d \in air : d[2] # n}
    /\ posts' = {p \in posts : p[2] # n}

\* Starting spawns one more relay_discovery loop, also over a running node.
\* The multicast actor it replaces finishes the datagram it is handling.
Start(n) ==
    /\ n \notin clearing /\ loops[n] < MaxStarts[n] /\ heard[n] = None
    /\ running' = running \cup {n}
    /\ loops' = [loops EXCEPT ![n] = @ + 1]
    /\ clearing' = clearing \cup {n}
    /\ faults' = IF loops[n] = 0 THEN faults ELSE faults + 1
    /\ faults' <= MaxFaults
    /\ CloseSockets(n)
    /\ UNCHANGED <<table, shown, heard, registry, missed, merging>>

Shutdown(n) ==
    /\ n \in running \cap Stopping /\ n \notin clearing /\ heard[n] = None
    /\ running' = running \ {n}
    /\ clearing' = clearing \cup {n}
    /\ CloseSockets(n)
    /\ UNCHANGED <<loops, table, shown, heard, merging, relayVars>>

\* start and shutdown return after clear_devices.
ClearDevices(n) ==
    /\ n \in clearing
    /\ clearing' = clearing \ {n}
    /\ ClearTable(n)
    /\ UNCHANGED <<running, loops, air, heard, posts, merging, relayVars>>

-----------------------------------------------------------------------------
(* Multicast.                                                              *)

Neighbours(n) == {m \in Nodes \ {n} : Segment[m] = Segment[n]}
Announcement(n) == {<<n, m>> : m \in Neighbours(n) \cap running}

AnnounceClearing(n, m) ==
    /\ n \in running /\ <<n, m>> \in Announcement(n)
    /\ ClearTable(n)
    /\ air' = air \cup {<<n, m>>}
    /\ UNCHANGED <<nodeVars, heard, posts, merging, relayVars>>

\* The periodic announce, as far as it reaches the socket of m.  A datagram
\* that is lost is a step that changes nothing, and the second copy is a
\* second announce.
Announce(n, m) ==
    /\ n \in running /\ <<n, m>> \in Announcement(n)
    /\ air' = air \cup {<<n, m>>}
    /\ UNCHANGED <<nodeVars, table, shown, heard, posts, merging, relayVars>>

HearKnownSwapped(n, m) ==
    /\ n \in running /\ <<m, n>> \in air /\ heard[n] = None
    /\ table[n][m] # NoDevice
    /\ air' = air \ {<<m, n>>}
    /\ posts' = IF m \in running \cap Https THEN posts \cup {<<n, m>>} ELSE posts
    /\ UNCHANGED <<nodeVars, table, shown, heard, merging, relayVars>>

\* run_udp_actor asks the table whether the announcing device is known.  A
\* known device is answered with a register request unless it is an https
\* peer; its entry stays as it is.
HearKnown(n, m) ==
    /\ n \in running /\ <<m, n>> \in air /\ heard[n] = None
    /\ table[n][m] # NoDevice
    /\ air' = air \ {<<m, n>>}
    /\ posts' = IF m \in running \ Https THEN posts \cup {<<n, m>>} ELSE posts
    /\ UNCHANGED <<nodeVars, table, shown, heard, merging, relayVars>>

HearUnknown(n, m) ==
    /\ n \in running /\ <<m, n>> \in air /\ heard[n] = None
    /\ table[n][m] = NoDevice
    /\ air' = air \ {<<m, n>>}
    /\ heard' = [heard EXCEPT ![n] = m]
    /\ UNCHANGED <<nodeVars, table, shown, posts, merging, relayVars>>

\* ... and adds the unknown one in a message of its own, then announces back.
AddHeard(n) ==
    /\ heard[n] # None
    /\ AddDevice(n, heard[n], LanDevice(heard[n]))
    /\ heard' = [heard EXCEPT ![n] = None]
    /\ \E got \in SUBSET Announcement(n) : air' = air \cup got
    /\ UNCHANGED <<nodeVars, posts, merging, relayVars>>

-----------------------------------------------------------------------------
(* Requests that carry a device: /register and prepare-upload record the   *)
(* requester at the source address of its connection.                      *)

HandleRegister(n, m) ==
    /\ <<m, n>> \in posts /\ n \in running
    /\ posts' = posts \ {<<m, n>>}
    /\ AddDevice(n, m, LanDevice(m))
    /\ UNCHANGED <<nodeVars, air, heard, merging, relayVars>>

\* The send driver registers and offers through whatever route it found: the
\* receiver's bridge listener connects to itself, a TURN relay to the peer.
HandleTunnelled(n, m, source) ==
    /\ n # m /\ n \in running
    /\ n \in RelayUsers /\ m \in Senders
    /\ AddDevice(n, m, LanDevice(source))
    /\ UNCHANGED <<nodeVars, air, heard, posts, merging, relayVars>>

-----------------------------------------------------------------------------
(* The relay's registry.  TTL is 75 s and heartbeats come every 30 s with  *)
(* at most 13 s of delay, so an entry outlives one missed heartbeat and    *)
(* may be gone after the second.                                           *)

RegisteredUnlessTaken(fp, addr) ==
    IF \E g \in Fingerprints \ {fp} : registry[g] = addr
    THEN registry ELSE [registry EXCEPT ![fp] = addr]

\* A registration retires every other entry from its source address.
Registered(fp, addr) ==
    [g \in Fingerprints |->
        IF g = fp THEN addr
        ELSE IF registry[g] = addr THEN None ELSE registry[g]]

RegisterAt(fp, addr) ==
    /\ registry' = Registered(fp, addr)
    /\ missed' = [missed EXCEPT ![fp] = 0]

Listed == {e \in Entry : registry[e.fp] = e.addr}

\* The loop takes an entry for its own by the fingerprint, or by the alias
\* unless that is empty.  The probe's alias is a name no device has.
IsSelf(n, fp) ==
    \/ fp = n
    \/ fp \in Nodes /\ AliasOf[fp] = AliasOf[n] /\ AliasOf[n] # ""

\* One relay_discovery round of a loop: register, take the list, skip self.
Heartbeat(n, l) ==
    /\ n \in RelayUsers /\ l <= loops[n] /\ merging[n][l] = Idle
    /\ RegisterAt(n, PublicOf[n])
    /\ merging' = [merging EXCEPT ![n][l].todo =
                     {e \in Listed' : ~IsSelf(n, e.fp)}]
    /\ UNCHANGED <<nodeVars, table, shown, air, heard, posts, faults>>

\* The request or its answer is lost; the loop tries again in 30 s.
HeartbeatFails(n, l, arrived) ==
    /\ n \in RelayUsers /\ l <= loops[n] /\ merging[n][l] = Idle
    /\ faults < MaxFaults
    /\ faults' = faults + 1
    /\ \/ arrived /\ RegisterAt(n, PublicOf[n])
       \/ /\ ~arrived
          /\ missed' = [missed EXCEPT ![n] = IF @ < 2 THEN @ + 1 ELSE @]
          /\ UNCHANGED registry
    /\ UNCHANGED <<nodeVars, table, shown, air, heard, posts, merging>>

\* with_registry drops the entries older than TTL at each access.
Expire(fp) ==
    /\ registry[fp] # None
    /\ fp = Probe \/ missed[fp] = 2
    /\ registry' = [registry EXCEPT ![fp] = None]
    /\ UNCHANGED <<nodeVars, table, shown, air, heard, posts, missed, merging,
                   faults>>

\* lookup_fingerprint_on_relay registers under a name of its own to get the
\* list; the fingerprint it finds is the send driver's.
Lookup(n) ==
    /\ n \in Senders /\ faults < MaxFaults
    /\ faults' = faults + 1
    /\ RegisterAt(Probe, PublicOf[n])
    /\ UNCHANGED <<nodeVars, table, shown, air, heard, posts, merging>>

IsPrivate(addr) == addr \in Nodes \cup {Loopback}

IsLanPeer(device) ==
    /\ device # NoDevice
    /\ device.source = "lan" /\ IsPrivate(device.addr)

\* For each listed device the loop asks the table what it knows ...
MergeCheck(n, l) ==
    /\ merging[n][l].pend = None
    /\ \E e \in merging[n][l].todo :
         merging' = [merging EXCEPT ![n][l] =
            [todo |-> @.todo \ {e},
             pend |-> IF IsLanPeer(table[n][e.fp]) THEN None ELSE e]]
    /\ UNCHANGED <<nodeVars, table, shown, air, heard, posts, relayVars>>

\* ... and writes the relay's address in a second message.
MergeAdd(n, l) ==
    LET e == merging[n][l].pend IN
    /\ e # None
    /\ AddDevice(n, e.fp, RelayDevice(e.addr))
    /\ merging' = [merging EXCEPT ![n][l].pend = None]
    /\ UNCHANGED <<nodeVars, air, heard, posts, relayVars>>

-----------------------------------------------------------------------------
\* The multicast actor takes a datagram; a relay_discovery loop takes a step.
Hear(n, m) == HearKnown(n, m) \/ HearUnknown(n, m)
LoopStep(n, l) == Heartbeat(n, l) \/ MergeCheck(n, l) \/ MergeAdd(n, l)

Next ==
    \/ \E n \in Nodes :
         \/ Start(n) \/ Shutdown(n) \/ ClearDevices(n)
         \/ AddHeard(n) \/ Lookup(n)
         \/ \E m \in Neighbours(n) :
              \/ Announce(n, m) \/ HearKnown(n, m) \/ HearUnknown(n, m)
              \/ HandleRegister(n, m)
         \/ \E m \in Nodes, source \in Tunnels : HandleTunnelled(n, m, source)
         \/ \E l \in Loops(n) :
              \/ Heartbeat(n, l) \/ MergeCheck(n, l) \/ MergeAdd(n, l)
              \/ \E arrived \in BOOLEAN : HeartbeatFails(n, l, arrived)
    \/ \E fp \in Fingerprints : Expire(fp)

\* Timers fire and messages to the actors are handled; an announce that is
\* repeated every five seconds gets through in the end.  A request that waits
\* at a server may wait for ever: the accept loop peeks at one connection
\* after the other.
Fairness ==
    \A n \in Nodes :
        /\ WF_vars(ClearDevices(n)) /\ WF_vars(AddHeard(n))
        /\ \A m \in Neighbours(n) : /\ WF_vars(Announce(n, m))
                                    /\ SF_vars(Hear(n, m))
        /\ \A l \in Loops(n) : WF_vars(LoopStep(n, l))

Spec == Init /\ [][Next]_vars /\ Fairness

-----------------------------------------------------------------------------
TypeOK ==
    /\ running \subseteq Nodes /\ clearing \subseteq Nodes
    /\ loops \in [Nodes -> Nat]
    /\ \A n \in Nodes : loops[n] <= MaxStarts[n]
    /\ table \in [Nodes -> [Fingerprints -> Device \cup {NoDevice}]]
    /\ shown \in [Nodes -> [Fingerprints -> Device \cup {NoDevice}]]
    /\ air \subseteq Nodes \X Nodes /\ posts \subseteq Nodes \X Nodes
    /\ heard \in [Nodes -> Nodes \cup {None}]
    /\ registry \in [Fingerprints -> Publics \cup {None}]
    /\ missed \in [Fingerprints -> 0 .. 2]
    /\ DOMAIN merging = Nodes
    /\ \A n \in Nodes : merging[n] \in
         [Loops(n) -> [todo : SUBSET Entry, pend : Entry \cup {None}]]
    /\ faults \in 0 .. MaxFaults

\* What a front end was last told has the devices of the table at their
\* addresses: suppressing the notification of a re-announce never hides a
\* device, keeps one that is gone, or leaves an address behind.  The
\* discovery source, which the app's list is split by, is left out: it may
\* lag, since same_rendered_device (device.rs:230) does not compare it.
ListIsCurrent ==
    \A n \in Nodes, fp \in Fingerprints :
        \/ table[n][fp] = NoDevice /\ shown[n][fp] = NoDevice
        \/ /\ table[n][fp] # NoDevice /\ shown[n][fp] # NoDevice
           /\ shown[n][fp].addr = table[n][fp].addr

\* Two running nodes on one segment end up in each other's table and stay,
\* whatever datagrams are lost, whoever restarts, and whatever the relay says.
LanPeersMeet ==
    <>[](\A n \in Nodes : \A m \in Neighbours(n) :
            {n, m} \subseteq running => table[n][m] # NoDevice)

\* Relay users find each other, as far as the registry lets them: of those
\* that share a public address it keeps only the last to register, which
\* hides the others.  In the end a relay user has, for every other public
\* address with users on it, one of them in its table (the only one, if the
\* address is not shared), also after lost heartbeats, expiry, restarts and
\* lookups that replaced an entry.  Not so when one of them has its alias,
\* which relay_discovery takes for its own.
UsersAt(p) == {m \in RelayUsers : PublicOf[m] = p /\ loops[m] > 0}
RemotePeersMeet ==
    <>[](\A n \in RelayUsers : \A p \in Publics \ {PublicOf[n]} :
            /\ loops[n] > 0 /\ UsersAt(p) # {}
            /\ \A m \in UsersAt(p) : ~IsSelf(n, m)
            => \E m \in UsersAt(p) : table[n][m] # NoDevice)

\* A node that announces plain http, and whose server gets round to the
\* register requests it is sent, always gets a neighbour's LAN address back
\* after a relay entry or a tunnelled request replaced it.
PlainPeersReachable ==
    \A n \in Nodes \ Https : \A m \in Neighbours(n) :
        []<>(<<m, n>> \notin posts) =>
            []<>({n, m} \subseteq running => table[n][m] = LanDevice(m))

\* "Never overwrite a multicast-discovered LAN peer with the relay-registered
\* public address" (handle.rs:911).
LanPeerKeepsAddress ==
    [][\A n \in Nodes, m \in Nodes :
        IsLanPeer(table[n][m]) =>
            (table'[n][m] # NoDevice => table'[n][m].source = "lan")]_vars
=============================================================================
