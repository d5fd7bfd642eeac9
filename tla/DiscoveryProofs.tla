-------------------------- MODULE DiscoveryProofs --------------------------
(***************************************************************************)
(* Types of Discovery, and that the published device list has the devices  *)
(* and addresses of the table, for any nodes, aliases, addresses, relay    *)
(* users, networks and bounds.                                             *)
(***************************************************************************)
EXTENDS Discovery, TLAPS

Table == [Nodes -> [Fingerprints -> Device \cup {NoDevice}]]
Merge == [todo : SUBSET Entry, pend : Entry \cup {None}]
MergingOK ==
    /\ DOMAIN merging = Nodes
    /\ \A n \in Nodes : merging[n] \in [Loops(n) -> Merge]

(* What a step may not leave: the two tables, whatever else it does. *)
TablesOK == table \in Table /\ shown \in Table

-----------------------------------------------------------------------------
(* The device actor.  The list it publishes is the table after every        *)
(* message, but for the discovery source: Add publishes unless nothing that *)
(* same_rendered_device compares has changed.                               *)
LEMMA AddDeviceCurrent ==
  ASSUME TablesOK, ListIsCurrent,
         NEW n \in Nodes, NEW fp \in Fingerprints, NEW device \in Device,
         AddDevice(n, fp, device)
  PROVE  TablesOK' /\ ListIsCurrent'
<1> USE NoDeviceAssumption DEF TablesOK, Table
<1>1. table' = [table EXCEPT ![n][fp] = device]
  BY DEF AddDevice
<1>2. table' \in Table
  BY <1>1
<1>3. CASE SameRendered(table[n][fp], device)
  <2>1. shown' = shown /\ table[n][fp] # NoDevice /\ table[n][fp].addr = device.addr
    BY <1>3 DEF AddDevice, SameRendered
  <2>2. shown[n][fp] # NoDevice /\ shown[n][fp].addr = device.addr
    BY <2>1 DEF ListIsCurrent
  <2>3. device # NoDevice
    OBVIOUS
  <2>4. ASSUME NEW m \in Nodes, NEW g \in Fingerprints
        PROVE  \/ table'[m][g] = NoDevice /\ shown'[m][g] = NoDevice
               \/ /\ table'[m][g] # NoDevice /\ shown'[m][g] # NoDevice
                  /\ shown'[m][g].addr = table'[m][g].addr
    <3>1. CASE m = n /\ g = fp
      BY <1>1, <2>1, <2>2, <2>3, <3>1
    <3>2. CASE ~(m = n /\ g = fp)
      <4>1. table'[m][g] = table[m][g]
        BY <1>1, <3>2
      <4> QED
        BY <2>1, <4>1 DEF ListIsCurrent
    <3> QED
      BY <3>1, <3>2
  <2> QED
    BY <1>2, <2>1, <2>4 DEF ListIsCurrent
<1>4. CASE ~SameRendered(table[n][fp], device)
  <2>1. shown' = [shown EXCEPT ![n] = table'[n]]
    BY <1>4 DEF AddDevice
  <2>2. shown' \in Table
    BY <1>2, <2>1
  <2>3. ASSUME NEW m \in Nodes, NEW g \in Fingerprints
        PROVE  \/ table'[m][g] = NoDevice /\ shown'[m][g] = NoDevice
               \/ /\ table'[m][g] # NoDevice /\ shown'[m][g] # NoDevice
                  /\ shown'[m][g].addr = table'[m][g].addr
    <3>1. CASE m = n
      <4>1. shown'[m][g] = table'[m][g]
        BY <2>1, <3>1
      <4> QED
        BY <4>1
    <3>2. CASE m # n
      <4>1. table'[m][g] = table[m][g] /\ shown'[m][g] = shown[m][g]
        BY <1>1, <2>1, <3>2
      <4> QED
        BY <4>1 DEF ListIsCurrent
    <3> QED
      BY <3>1, <3>2
  <2> QED
    BY <1>2, <2>2, <2>3 DEF ListIsCurrent
<1> QED
  BY <1>3, <1>4

LEMMA ClearTableCurrent ==
  ASSUME TablesOK, ListIsCurrent, NEW n \in Nodes, ClearTable(n)
  PROVE  TablesOK' /\ ListIsCurrent'
<1> USE DEF TablesOK, Table
<1>1. /\ table' = [table EXCEPT ![n] = [fp \in Fingerprints |-> NoDevice]]
      /\ shown' = [shown EXCEPT ![n] = [fp \in Fingerprints |-> NoDevice]]
  BY DEF ClearTable
<1>2. TablesOK'
  BY <1>1
<1>3. ASSUME NEW m \in Nodes, NEW g \in Fingerprints
      PROVE  \/ table'[m][g] = table[m][g] /\ shown'[m][g] = shown[m][g]
             \/ table'[m][g] = NoDevice /\ shown'[m][g] = NoDevice
  BY <1>1
<1> QED
  BY <1>2, <1>3 DEF ListIsCurrent

-----------------------------------------------------------------------------
(* The parts of TypeOK a step may disturb besides the tables. *)
RestOK ==
    /\ running \subseteq Nodes /\ clearing \subseteq Nodes
    /\ loops \in [Nodes -> Nat]
    /\ \A n \in Nodes : loops[n] <= MaxStarts[n]
    /\ air \subseteq Nodes \X Nodes /\ posts \subseteq Nodes \X Nodes
    /\ heard \in [Nodes -> Nodes \cup {None}]
    /\ registry \in [Fingerprints -> Publics \cup {None}]
    /\ missed \in [Fingerprints -> 0 .. 2]
    /\ faults \in 0 .. MaxFaults

IInv == TablesOK /\ ListIsCurrent /\ MergingOK /\ RestOK

LEMMA InitInv == Init => IInv
<1> SUFFICES ASSUME Init PROVE IInv
  OBVIOUS
<1> USE DiscoveryAssumption DEF Init
<1>1. TablesOK /\ ListIsCurrent
  BY DEF TablesOK, Table, ListIsCurrent
<1>2. MergingOK
  BY DEF MergingOK, Merge, Idle
<1>3. RestOK
  BY DEF RestOK
<1> QED
  BY <1>1, <1>2, <1>3 DEF IInv

(* Starting, stopping and the datagrams in between leave the tables alone. *)
LEMMA LifecycleInv ==
  ASSUME IInv, NEW n \in Nodes, Start(n) \/ Shutdown(n)
  PROVE  IInv'
<1> USE DiscoveryAssumption DEF IInv
<1>1. UNCHANGED <<table, shown, heard, registry, missed, merging>>
  BY DEF Start, Shutdown, relayVars
<1>2. TablesOK' /\ ListIsCurrent' /\ MergingOK'
  BY <1>1 DEF TablesOK, ListIsCurrent, MergingOK
<1>3. RestOK'
  <2>1. CASE Start(n)
    BY <1>1, <2>1 DEF Start, CloseSockets, RestOK
  <2>2. CASE Shutdown(n)
    BY <1>1, <2>2 DEF Shutdown, CloseSockets, relayVars, RestOK
  <2> QED
    BY <2>1, <2>2
<1> QED
  BY <1>2, <1>3

LEMMA ClearDevicesInv ==
  ASSUME IInv, NEW n \in Nodes, ClearDevices(n)
  PROVE  IInv'
<1> USE DEF IInv, ClearDevices, relayVars
<1>1. TablesOK' /\ ListIsCurrent'
  BY ClearTableCurrent
<1>2. MergingOK' /\ RestOK'
  BY DEF MergingOK, RestOK
<1> QED
  BY <1>1, <1>2

LEMMA DatagramInv ==
  ASSUME IInv, NEW n \in Nodes, NEW m \in Neighbours(n),
         Announce(n, m) \/ HearKnown(n, m) \/ HearUnknown(n, m)
  PROVE  IInv'
<1> USE DEF IInv
<1>1. m \in Nodes
  BY DEF Neighbours
<1>2. UNCHANGED <<nodeVars, table, shown, merging, relayVars>>
  BY DEF Announce, HearKnown, HearUnknown
<1>3. TablesOK' /\ ListIsCurrent' /\ MergingOK'
  BY <1>2 DEF TablesOK, ListIsCurrent, MergingOK
<1>4. air' \subseteq Nodes \X Nodes /\ posts' \subseteq Nodes \X Nodes
  BY <1>1 DEF Announce, HearKnown, HearUnknown, RestOK
<1>5. heard' \in [Nodes -> Nodes \cup {None}]
  BY <1>1 DEF Announce, HearKnown, HearUnknown, RestOK
<1>6. RestOK'
  BY <1>2, <1>4, <1>5 DEF RestOK, nodeVars, relayVars
<1> QED
  BY <1>3, <1>6

(* The four steps that write a device to a table. *)
LEMMA AddHeardInv ==
  ASSUME IInv, NEW n \in Nodes, AddHeard(n)
  PROVE  IInv'
<1> USE DEF IInv
<1>1. heard[n] \in Nodes
  BY DEF AddHeard, RestOK
<1>2. heard[n] \in Fingerprints /\ LanDevice(heard[n]) \in Device
  BY <1>1 DEF Fingerprints, LanDevice, Device, Addresses
<1>3. TablesOK' /\ ListIsCurrent'
  BY <1>2, AddDeviceCurrent DEF AddHeard
<1>4. MergingOK'
  BY DEF AddHeard, MergingOK
<1>5. air' \subseteq Nodes \X Nodes
  BY DEF AddHeard, Announcement, Neighbours, RestOK
<1>6. RestOK'
  BY <1>5 DEF AddHeard, RestOK, nodeVars, relayVars
<1> QED
  BY <1>3, <1>4, <1>6

LEMMA RequestInv ==
  ASSUME IInv, NEW n \in Nodes, NEW m \in Nodes, NEW source \in Tunnels,
         HandleTunnelled(n, m, source)
  PROVE  IInv'
<1> USE DEF IInv
<1>1. m \in Fingerprints /\ LanDevice(source) \in Device
  BY DiscoveryAssumption DEF Fingerprints, LanDevice, Device, Addresses
<1>2. TablesOK' /\ ListIsCurrent'
  BY <1>1, AddDeviceCurrent DEF HandleTunnelled
<1>3. MergingOK' /\ RestOK'
  BY DEF HandleTunnelled, MergingOK, RestOK, nodeVars, relayVars
<1> QED
  BY <1>2, <1>3

LEMMA RegisterRequestInv ==
  ASSUME IInv, NEW n \in Nodes, NEW m \in Neighbours(n), HandleRegister(n, m)
  PROVE  IInv'
<1> USE DEF IInv
<1>1. m \in Fingerprints /\ LanDevice(m) \in Device
  BY DEF Neighbours, Fingerprints, LanDevice, Device, Addresses
<1>2. TablesOK' /\ ListIsCurrent'
  BY <1>1, AddDeviceCurrent DEF HandleRegister
<1>3. MergingOK' /\ RestOK'
  BY DEF HandleRegister, MergingOK, RestOK, nodeVars, relayVars
<1> QED
  BY <1>2, <1>3

LEMMA MergeAddInv ==
  ASSUME IInv, NEW n \in Nodes, NEW l \in Loops(n), MergeAdd(n, l)
  PROVE  IInv'
<1> USE DEF IInv
<1> DEFINE e == merging[n][l].pend
<1>1. e \in Entry /\ merging[n][l] \in Merge
  BY DEF MergeAdd, MergingOK, Merge
<1>2. e.fp \in Fingerprints /\ RelayDevice(e.addr) \in Device
  BY <1>1 DEF Entry, RelayDevice, Device, Addresses
<1>3. TablesOK' /\ ListIsCurrent'
  BY <1>2, AddDeviceCurrent DEF MergeAdd
<1>4. MergingOK'
  BY <1>1 DEF MergeAdd, MergingOK, Merge
<1>5. RestOK'
  BY DEF MergeAdd, RestOK, nodeVars, relayVars
<1> QED
  BY <1>3, <1>4, <1>5

(* The relay's registry and the loops that read it. *)
LEMMA RegisterAtOK ==
  ASSUME RestOK, NEW fp \in Fingerprints, NEW addr \in Publics, RegisterAt(fp, addr)
  PROVE  /\ registry' \in [Fingerprints -> Publics \cup {None}]
         /\ missed' \in [Fingerprints -> 0 .. 2]
BY DEF RegisterAt, Registered, RestOK

LEMMA HeartbeatInv ==
  ASSUME IInv, NEW n \in Nodes, NEW l \in Loops(n), Heartbeat(n, l)
  PROVE  IInv'
<1> USE DEF IInv, Heartbeat
<1>1. TablesOK' /\ ListIsCurrent'
  BY DEF TablesOK, ListIsCurrent
<1>2. /\ registry' \in [Fingerprints -> Publics \cup {None}]
      /\ missed' \in [Fingerprints -> 0 .. 2]
  BY RegisterAtOK, DiscoveryAssumption DEF Fingerprints
<1>3. RestOK'
  BY <1>2 DEF RestOK, nodeVars
<1>4. {e \in Listed' : ~IsSelf(n, e.fp)} \in SUBSET Entry
  BY DEF Listed
<1>5. merging[n][l] \in Merge
  BY DEF MergingOK
<1>6. MergingOK'
  BY <1>4, <1>5 DEF MergingOK, Merge
<1> QED
  BY <1>1, <1>3, <1>6

LEMMA MergeCheckInv ==
  ASSUME IInv, NEW n \in Nodes, NEW l \in Loops(n), MergeCheck(n, l)
  PROVE  IInv'
<1> USE DEF IInv
<1>1. TablesOK' /\ ListIsCurrent' /\ RestOK'
  BY DEF MergeCheck, TablesOK, ListIsCurrent, RestOK, nodeVars, relayVars
<1>2. merging[n][l] \in Merge
  BY DEF MergingOK
<1>3. PICK e \in merging[n][l].todo :
         merging' = [merging EXCEPT ![n][l] =
            [todo |-> @.todo \ {e},
             pend |-> IF IsLanPeer(table[n][e.fp]) THEN None ELSE e]]
  BY DEF MergeCheck
<1>4. [todo |-> merging[n][l].todo \ {e},
       pend |-> IF IsLanPeer(table[n][e.fp]) THEN None ELSE e] \in Merge
  BY <1>2 DEF Merge
<1>5. MergingOK'
  BY <1>3, <1>4 DEF MergingOK
<1> QED
  BY <1>1, <1>5

LEMMA RegistryInv ==
  ASSUME IInv,
         \/ \E n \in Nodes : Lookup(n)
         \/ \E n \in Nodes, l \in Nat, arrived \in BOOLEAN : HeartbeatFails(n, l, arrived)
         \/ \E fp \in Fingerprints : Expire(fp)
  PROVE  IInv'
<1> USE DiscoveryAssumption DEF IInv
<1>1. TablesOK' /\ ListIsCurrent' /\ MergingOK'
  BY DEF Lookup, HeartbeatFails, Expire, TablesOK, ListIsCurrent, MergingOK
<1>2. UNCHANGED <<running, loops, clearing, air, heard, posts>>
  BY DEF Lookup, HeartbeatFails, Expire, nodeVars
<1>3. faults' \in 0 .. MaxFaults
  BY DEF Lookup, HeartbeatFails, Expire, RestOK
<1>4. /\ registry' \in [Fingerprints -> Publics \cup {None}]
      /\ missed' \in [Fingerprints -> 0 .. 2]
  <2>1. CASE \E n \in Nodes : Lookup(n)
    BY <2>1, RegisterAtOK DEF Lookup, Fingerprints
  <2>2. CASE \E n \in Nodes, l \in Nat, arrived \in BOOLEAN : HeartbeatFails(n, l, arrived)
    <3>1. PICK n \in Nodes, l \in Nat, arrived \in BOOLEAN : HeartbeatFails(n, l, arrived)
      BY <2>2
    <3>2. CASE RegisterAt(n, PublicOf[n])
      BY <3>2, RegisterAtOK DEF Fingerprints
    <3>3. CASE UNCHANGED registry /\ missed' = [missed EXCEPT ![n] = IF @ < 2 THEN @ + 1 ELSE @]
      <4>1. (IF missed[n] < 2 THEN missed[n] + 1 ELSE missed[n]) \in 0 .. 2
        BY DEF RestOK, Fingerprints
      <4> QED
        BY <3>3, <4>1 DEF RestOK
    <3> QED
      BY <3>1, <3>2, <3>3 DEF HeartbeatFails
  <2>3. CASE \E fp \in Fingerprints : Expire(fp)
    BY <2>3 DEF Expire, RestOK
  <2> QED
    BY <2>1, <2>2, <2>3
<1>5. RestOK'
  BY <1>2, <1>3, <1>4 DEF RestOK
<1> QED
  BY <1>1, <1>5

-----------------------------------------------------------------------------
LEMMA StepInv == IInv /\ [Next]_vars => IInv'
<1> SUFFICES ASSUME IInv, [Next]_vars PROVE IInv'
  OBVIOUS
<1>1. CASE UNCHANGED vars
  BY <1>1 DEF vars, IInv, TablesOK, ListIsCurrent, MergingOK, RestOK
<1>2. ASSUME NEW n \in Nodes, Start(n) \/ Shutdown(n) \/ ClearDevices(n) \/ AddHeard(n)
      PROVE  IInv'
  BY <1>2, LifecycleInv, ClearDevicesInv, AddHeardInv
<1>3. ASSUME NEW n \in Nodes, NEW m \in Neighbours(n),
             Announce(n, m) \/ HearKnown(n, m) \/ HearUnknown(n, m) \/ HandleRegister(n, m)
      PROVE  IInv'
  BY <1>3, DatagramInv, RegisterRequestInv
<1>4. ASSUME NEW n \in Nodes, NEW m \in Nodes, NEW source \in Tunnels,
             HandleTunnelled(n, m, source)
      PROVE  IInv'
  BY <1>4, RequestInv
<1>5. ASSUME NEW n \in Nodes, NEW l \in Loops(n),
             Heartbeat(n, l) \/ MergeCheck(n, l) \/ MergeAdd(n, l)
      PROVE  IInv'
  BY <1>5, HeartbeatInv, MergeCheckInv, MergeAddInv
<1>6. ASSUME \/ \E n \in Nodes : Lookup(n)
             \/ \E n \in Nodes, l \in Nat, arrived \in BOOLEAN : HeartbeatFails(n, l, arrived)
             \/ \E fp \in Fingerprints : Expire(fp)
      PROVE  IInv'
  BY <1>6, RegistryInv
<1>7. \A n \in Nodes : Loops(n) \subseteq Nat
  BY DiscoveryAssumption DEF Loops
<1> QED
  BY <1>1, <1>2, <1>3, <1>4, <1>5, <1>6, <1>7 DEF Next

LEMMA Invariant == Spec => []IInv
BY InitInv, StepInv, PTL DEF Spec

(* Tables, lists, datagrams, registry and loops keep their shape. *)
THEOREM DiscoveryTypeCorrect == Spec => []TypeOK
<1>1. IInv => TypeOK
  BY DEF IInv, TablesOK, Table, MergingOK, Merge, RestOK, TypeOK
<1> QED
  BY <1>1, Invariant, PTL

(* Whatever announces, requests and relay entries do to the table, and in   *)
(* whatever order, the list the front end was last told has the devices of  *)
(* the table at their addresses (device.rs: Add publishes unless            *)
(* same_rendered_device).  Nothing is said of the discovery source, which   *)
(* that comparison leaves out.                                              *)
THEOREM PublishedListIsCurrent == Spec => []ListIsCurrent
BY Invariant, PTL DEF IInv
=============================================================================
