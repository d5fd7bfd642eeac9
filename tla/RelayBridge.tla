---------------------------- MODULE RelayBridge ----------------------------
(***************************************************************************)
(* The relay's bridge, by which two peers behind NAT meet: both connect    *)
(* out to the relay and it splices the connections.  The receiver's loop   *)
(* (maintain_bridge_listener in rust/core/src/handle.rs) keeps a BRIDGE    *)
(* LISTEN connection parked at the relay; a sender's dial_bridge asks for  *)
(* it with BRIDGE CONNECT; handle_bridge in relay/turn_server.rs runs one  *)
(* task for each.  This is the traffic of one fingerprint: the registry    *)
(* BRIDGE_LISTENERS is keyed by it and its entries are independent.        *)
(*                                                                         *)
(* The tasks run on several threads and share the registry under a mutex,  *)
(* so every critical section and every await is a step of its own.  The    *)
(* registry holds the sending half of a listener's channel (capacity 1);   *)
(* the channel closes when the registry and every CONNECT task have        *)
(* dropped their copies.                                                   *)
(***************************************************************************)
EXTENDS Naturals, FiniteSets, Sequences

CONSTANTS
    Listeners,  \* slots for LISTEN connections, reused when a task ended
    Senders,    \* the CONNECT connections of a behaviour
    Loops,      \* how many maintain_bridge_listener loops the receiver runs
    MaxCloses,  \* bound on the LISTEN connections that die unexpectedly
    NoOne

ASSUME LoopsAssumption == Loops \in Nat /\ MaxCloses \in Nat
ASSUME NoOneAssumption == NoOne \notin Listeners \cup Senders

VARIABLES
    registry,  \* the listener whose channel BRIDGE_LISTENERS holds
    lis,       \* listener -> its task at the relay
    con,       \* sender -> its task at the relay
    box,       \* listener -> the streams in its channel
    closes     \* how many connections have died unexpectedly

bridgeVars == <<registry, lis, con, box, closes>>

(* waiting: in rx.recv(); paired: it has a stream and is about to drop its *)
(* registry entry; closed: recv returned None, likewise.                   *)
LisPc == {"unused", "waiting", "paired", "splicing", "closed", "ended"}

(* open: the receiver's end of the connection is open.  peer: the stream   *)
(* it was given.                                                           *)
Listener == [pc : LisPc, open : BOOLEAN, peer : Senders \cup {NoOne}]

(* found: it holds a copy of the channel; told: it has written BRIDGE OK;  *)
(* queued: the stream is in the channel; over: its splice has ended; lost: *)
(* the stream was dropped after BRIDGE OK without having been spliced;     *)
(* gone: the sender left before BRIDGE OK.                                 *)
ConPc == {"unused", "found", "told", "queued", "spliced", "over", "notfound", "lost", "gone"}

Sender == [pc : ConPc, to : Listeners \cup {NoOne}]

(* mpsc::channel(1) *)
Channel == {<<>>} \cup {<<c>> : c \in Senders}

(* A CONNECT task keeps listener l's channel open. *)
Held(l) == \E c \in Senders : con[c].pc \in {"found", "told"} /\ con[c].to = l

-----------------------------------------------------------------------------
(* The receiver *)

(* A loop of the receiver connects again and the relay registers it,       *)
(* replacing what the registry held.                                       *)
Listen(l) ==
    /\ lis[l].pc \in {"unused", "ended"}
    /\ ~Held(l)
    /\ Cardinality({k \in Listeners : lis[k].open}) < Loops
    /\ lis' = [lis EXCEPT ![l] = [pc |-> "waiting", open |-> TRUE, peer |-> NoOne]]
    /\ registry' = l
    /\ UNCHANGED <<con, box, closes>>

(* The connection dies; the relay's task is waiting on its channel and     *)
(* does not look at the connection.                                        *)
CloseListener(l) ==
    /\ lis[l].open
    /\ closes < MaxCloses
    /\ closes' = closes + 1
    /\ lis' = [lis EXCEPT ![l].open = FALSE]
    /\ UNCHANGED <<registry, con, box>>

-----------------------------------------------------------------------------
(* handle_bridge, LISTEN *)

RecvStream(l) ==
    /\ lis[l].pc = "waiting"
    /\ box[l] # <<>>
    /\ lis' = [lis EXCEPT ![l] = [@ EXCEPT !.pc = "paired", !.peer = Head(box[l])]]
    /\ box' = [box EXCEPT ![l] = Tail(@)]
    /\ UNCHANGED <<registry, con, closes>>

SpliceKeepingEntry(l) ==
    /\ lis[l].pc = "paired"
    /\ lis' = [lis EXCEPT ![l].pc = "splicing"]
    /\ con' = [con EXCEPT ![lis[l].peer].pc = "spliced"]
    /\ UNCHANGED <<registry, box, closes>>

(* The entry of the fingerprint is removed, whoever's it is by now. *)
Splice(l) ==
    /\ lis[l].pc = "paired"
    /\ registry' = NoOne
    /\ lis' = [lis EXCEPT ![l].pc = "splicing"]
    /\ con' = [con EXCEPT ![lis[l].peer].pc = "spliced"]
    /\ UNCHANGED <<box, closes>>

(* Either end closed.  The task returns, and a stream that waited in its   *)
(* channel is dropped with it.                                             *)
BridgeSpliceEnds(l) ==
    /\ lis[l].pc = "splicing"
    /\ lis' = [lis EXCEPT ![l] = [pc |-> "ended", open |-> FALSE, peer |-> NoOne]]
    /\ con' = [c \in Senders |-> [con[c] EXCEPT
                  !.pc = IF c = lis[l].peer THEN "over"
                         ELSE IF box[l] = <<c>> THEN "lost" ELSE @]]
    /\ box' = [box EXCEPT ![l] = <<>>]
    /\ UNCHANGED <<registry, closes>>

ChannelClosedAtEviction(l) ==
    /\ lis[l].pc = "waiting"
    /\ box[l] = <<>>
    /\ registry # l
    /\ lis' = [lis EXCEPT ![l].pc = "closed"]
    /\ UNCHANGED <<registry, con, box, closes>>

(* recv returns None: the entry was replaced or removed, and no CONNECT     *)
(* task has a copy of the channel.                                          *)
ChannelClosed(l) ==
    /\ lis[l].pc = "waiting"
    /\ box[l] = <<>>
    /\ registry # l
    /\ ~Held(l)
    /\ lis' = [lis EXCEPT ![l].pc = "closed"]
    /\ UNCHANGED <<registry, con, box, closes>>

LeaveKeepingConnection(l) ==
    /\ lis[l].pc = "closed"
    /\ lis' = [lis EXCEPT ![l].pc = "ended"]
    /\ registry' = NoOne
    /\ UNCHANGED <<con, box, closes>>

(* The None branch: again whatever entry there is, and the connection is   *)
(* closed.                                                                 *)
Leave(l) ==
    /\ lis[l].pc = "closed"
    /\ lis' = [lis EXCEPT ![l].pc = "ended", ![l].open = FALSE]
    /\ registry' = NoOne
    /\ UNCHANGED <<con, box, closes>>

-----------------------------------------------------------------------------
(* handle_bridge, CONNECT *)

Lookup(c) ==
    /\ con[c].pc = "unused"
    /\ con' = [con EXCEPT ![c] = IF registry = NoOne
                                 THEN [pc |-> "notfound", to |-> NoOne]
                                 ELSE [pc |-> "found", to |-> registry]]
    /\ UNCHANGED <<registry, lis, box, closes>>

(* BRIDGE OK is written, or the sender is gone and the task returns. *)
TellOk(c) ==
    /\ con[c].pc = "found"
    /\ \E pc \in {"told", "gone"} : con' = [con EXCEPT ![c].pc = pc]
    /\ UNCHANGED <<registry, lis, box, closes>>

HandOverWaiting(c) ==
    /\ con[c].pc = "told"
    /\ lis[con[c].to].pc # "ended"
    /\ box[con[c].to] = <<>>
    /\ box' = [box EXCEPT ![con[c].to] = <<c>>]
    /\ con' = [con EXCEPT ![c].pc = "queued"]
    /\ UNCHANGED <<registry, lis, closes>>

(* tx.send: waits while the channel is full, fails once the listener's     *)
(* task has returned.                                                      *)
HandOver(c) ==
    /\ con[c].pc = "told"
    /\ LET l == con[c].to IN
       \/ /\ lis[l].pc # "ended"
          /\ box[l] = <<>>
          /\ box' = [box EXCEPT ![l] = <<c>>]
          /\ con' = [con EXCEPT ![c].pc = "queued"]
       \/ /\ lis[l].pc = "ended"
          /\ con' = [con EXCEPT ![c].pc = "lost"]
          /\ UNCHANGED box
    /\ UNCHANGED <<registry, lis, closes>>

-----------------------------------------------------------------------------
BridgeInit ==
    /\ registry = NoOne
    /\ lis = [l \in Listeners |-> [pc |-> "unused", open |-> FALSE, peer |-> NoOne]]
    /\ con = [c \in Senders |-> [pc |-> "unused", to |-> NoOne]]
    /\ box = [l \in Listeners |-> <<>>]
    /\ closes = 0

RelayListenStep(l) == RecvStream(l) \/ Splice(l) \/ ChannelClosed(l) \/ Leave(l)

RelayConnectStep(c) == TellOk(c) \/ HandOver(c)

BridgeNext ==
    \/ \E l \in Listeners : Listen(l) \/ CloseListener(l) \/ RelayListenStep(l) \/ BridgeSpliceEnds(l)
    \/ \E c \in Senders : Lookup(c) \/ RelayConnectStep(c)

(* The relay's runtime polls every ready task.  A splice may last as long   *)
(* as its two ends like.                                                    *)
BridgeTaskFairness ==
    /\ \A l \in Listeners : WF_bridgeVars(RelayListenStep(l))
    /\ \A c \in Senders : WF_bridgeVars(RelayConnectStep(c))

(* A loop of the receiver that lost its connection dials again (after       *)
(* 100 ms or 15 s).                                                         *)
BridgeFairness ==
    BridgeTaskFairness /\ WF_bridgeVars(\E l \in Listeners : Listen(l))

BridgeSpec == BridgeInit /\ [][BridgeNext]_bridgeVars /\ BridgeFairness

-----------------------------------------------------------------------------
(* Properties *)

(* The registry and the tasks have the shape of BRIDGE_LISTENERS and of the *)
(* two branches of handle_bridge.                                           *)
BridgeTypeOK ==
    /\ registry \in Listeners \cup {NoOne}
    /\ lis \in [Listeners -> Listener]
    /\ con \in [Senders -> Sender]
    /\ box \in [Listeners -> Channel]
    /\ closes \in 0..MaxCloses

(* Once a tunnel is up, or its task has returned, no sender finds it any    *)
(* more, although every task removes the fingerprint's entry without        *)
(* looking whose it is.  An entry may be of a task that has its one stream  *)
(* and has not reached the lock yet: who finds it then is cut off.          *)
RegisteredBeforeSplice ==
    registry # NoOne => lis[registry].pc \in {"waiting", "paired"}

(* A sender that was told OK is cut off only where another sender got the   *)
(* listener it had found: neither the replacement of that listener, nor its *)
(* eviction by another task, nor the death of a connection loses a stream.  *)
LostOnlyToAnother ==
    \A c \in Senders : con[c].pc = "lost" =>
        \E d \in Senders : con[d].to = con[c].to /\ con[d].pc \in {"spliced", "over"}

(* As long as splices end, a sender that found a listener gets a tunnel or  *)
(* loses its connection: it does not hang in a channel nobody reads.        *)
FoundSenderIsServed ==
    (\A l \in Listeners : WF_bridgeVars(BridgeSpliceEnds(l))) =>
        \A c \in Senders :
            con[c].pc \in {"found", "told", "queued"} ~>
                con[c].pc \in {"spliced", "over", "lost", "gone"}
=============================================================================
