---------------------------- MODULE RelayProofs ----------------------------
(***************************************************************************)
(* Proofs about the two services of the relay, which share a process and   *)
(* no state: the bridge, for any number of connections, loops and          *)
(* failures, and the TURN relay, for any number of dials and connection    *)
(* ids, repeated ids included.  The theorems of one service mention no     *)
(* variable of the other.                                                  *)
(***************************************************************************)
EXTENDS RelayBridge, TurnRelay, FiniteSetTheorems, TLAPS

(* Part 1: the bridge *)

-----------------------------------------------------------------------------
(* Type correctness *)

LEMMA ChannelHolds == <<>> \in Channel /\ \A c \in Senders : <<c>> \in Channel
  BY DEF Channel

LEMMA ChannelTakenFrom ==
  ASSUME NEW q \in Channel, q # <<>>
  PROVE  Head(q) \in Senders /\ Tail(q) = <<>>
  <1>1. PICK c \in Senders : q = <<c>>
    BY DEF Channel
  <1>2. QED
    BY <1>1

LEMMA BridgeTypeInit == BridgeInit => BridgeTypeOK
  BY LoopsAssumption, ChannelHolds DEF BridgeInit, BridgeTypeOK, Listener, Sender, LisPc, ConPc

LEMMA BridgeTypeNext == BridgeTypeOK /\ [BridgeNext]_bridgeVars => BridgeTypeOK'
  <1> SUFFICES ASSUME BridgeTypeOK, [BridgeNext]_bridgeVars
               PROVE  BridgeTypeOK'
    OBVIOUS
  <1> USE DEF BridgeTypeOK, Listener, Sender, LisPc, ConPc
  <1>1. ASSUME NEW l \in Listeners, Listen(l) PROVE BridgeTypeOK'
    BY <1>1 DEF Listen
  <1>2. ASSUME NEW l \in Listeners, CloseListener(l) PROVE BridgeTypeOK'
    <2>1. closes' \in 0..MaxCloses
      BY <1>2, LoopsAssumption DEF CloseListener
    <2>2. QED
      BY <1>2, <2>1 DEF CloseListener
  <1>3. ASSUME NEW l \in Listeners, RecvStream(l) PROVE BridgeTypeOK'
    <2>1. box[l] \in Channel /\ box[l] # <<>>
      BY <1>3 DEF RecvStream
    <2>2. Head(box[l]) \in Senders /\ Tail(box[l]) = <<>>
      BY <2>1, ChannelTakenFrom
    <2> DEFINE m == [lis[l] EXCEPT !.pc = "paired", !.peer = Head(box[l])]
    <2>3. lis' \in [Listeners -> Listener]
      <3>1. lis[l] \in Listener
        OBVIOUS
      <3>2. m \in Listener
        BY <2>2, <3>1
      <3>3. lis' = [lis EXCEPT ![l] = m]
        BY <1>3 DEF RecvStream
      <3>4. QED
        BY <3>2, <3>3
    <2>4. box' \in [Listeners -> Channel]
      BY <1>3, <2>2, ChannelHolds DEF RecvStream
    <2>5. QED
      BY <1>3, <2>3, <2>4 DEF RecvStream
  <1>4. ASSUME NEW l \in Listeners, Splice(l) PROVE BridgeTypeOK'
    BY <1>4 DEF Splice
  <1>5. ASSUME NEW l \in Listeners, BridgeSpliceEnds(l) PROVE BridgeTypeOK'
    BY <1>5, ChannelHolds DEF BridgeSpliceEnds
  <1>6. ASSUME NEW l \in Listeners, ChannelClosed(l) PROVE BridgeTypeOK'
    BY <1>6 DEF ChannelClosed
  <1>7. ASSUME NEW l \in Listeners, Leave(l) PROVE BridgeTypeOK'
    <2>1. /\ lis' = [lis EXCEPT ![l].pc = "ended", ![l].open = FALSE]
          /\ registry' = NoOne /\ con' = con /\ box' = box /\ closes' = closes
      BY <1>7 DEF Leave
    <2> DEFINE mid == [lis EXCEPT ![l].pc = "ended"]
    <2>2. mid \in [Listeners -> Listener]
      OBVIOUS
    <2>3. lis' = [mid EXCEPT ![l].open = FALSE]
      BY <2>1
    <2> HIDE DEF mid
    <2>4. lis' \in [Listeners -> Listener]
      BY <2>2, <2>3
    <2>5. QED
      BY <2>1, <2>4
  <1>8. ASSUME NEW c \in Senders, Lookup(c) PROVE BridgeTypeOK'
    BY <1>8 DEF Lookup
  <1>9. ASSUME NEW c \in Senders, TellOk(c) PROVE BridgeTypeOK'
    BY <1>9 DEF TellOk
  <1>10. ASSUME NEW c \in Senders, HandOver(c) PROVE BridgeTypeOK'
    <2>1. con' \in [Senders -> Sender]
      BY <1>10 DEF HandOver
    <2>2. box' \in [Listeners -> Channel]
      BY <1>10, ChannelHolds DEF HandOver
    <2>3. QED
      BY <1>10, <2>1, <2>2 DEF HandOver
  <1>11. CASE UNCHANGED bridgeVars
    BY <1>11 DEF bridgeVars
  <1>12. QED
    BY <1>1, <1>2, <1>3, <1>4, <1>5, <1>6, <1>7, <1>8, <1>9, <1>10, <1>11
       DEF BridgeNext, RelayListenStep, RelayConnectStep

(* The tasks of handle_bridge and the registry keep their shape; the        *)
(* channel of a listener never holds more than its capacity, one stream.    *)
THEOREM BridgeTypeCorrect == BridgeSpec => []BridgeTypeOK
  BY BridgeTypeInit, BridgeTypeNext, PTL DEF BridgeSpec

-----------------------------------------------------------------------------
(* The registry *)

LEMMA RegistryNext ==
  BridgeTypeOK /\ RegisteredBeforeSplice /\ [BridgeNext]_bridgeVars
    => RegisteredBeforeSplice'
  <1> SUFFICES ASSUME BridgeTypeOK, RegisteredBeforeSplice, [BridgeNext]_bridgeVars
               PROVE  RegisteredBeforeSplice'
    OBVIOUS
  <1> USE NoOneAssumption DEF BridgeTypeOK, RegisteredBeforeSplice, Listener
  <1>1. ASSUME NEW l \in Listeners, Listen(l) PROVE RegisteredBeforeSplice'
    BY <1>1 DEF Listen
  <1>2. ASSUME NEW l \in Listeners, CloseListener(l) PROVE RegisteredBeforeSplice'
    BY <1>2 DEF CloseListener
  <1>3. ASSUME NEW l \in Listeners, RecvStream(l) PROVE RegisteredBeforeSplice'
    BY <1>3 DEF RecvStream
  <1>4. ASSUME NEW l \in Listeners, Splice(l) PROVE RegisteredBeforeSplice'
    BY <1>4 DEF Splice
  <1>5. ASSUME NEW l \in Listeners, BridgeSpliceEnds(l) PROVE RegisteredBeforeSplice'
    BY <1>5 DEF BridgeSpliceEnds
  <1>6. ASSUME NEW l \in Listeners, ChannelClosed(l) PROVE RegisteredBeforeSplice'
    BY <1>6 DEF ChannelClosed
  <1>7. ASSUME NEW l \in Listeners, Leave(l) PROVE RegisteredBeforeSplice'
    BY <1>7 DEF Leave
  <1>8. ASSUME NEW c \in Senders, Lookup(c) \/ RelayConnectStep(c)
        PROVE  RegisteredBeforeSplice'
    BY <1>8 DEF Lookup, RelayConnectStep, TellOk, HandOver
  <1>9. CASE UNCHANGED bridgeVars
    BY <1>9 DEF bridgeVars
  <1>10. QED
    BY <1>1, <1>2, <1>3, <1>4, <1>5, <1>6, <1>7, <1>8, <1>9
       DEF BridgeNext, RelayListenStep

(* However many loops register the same fingerprint and evict one another,  *)
(* a CONNECT never finds a task that is splicing or has returned; it may    *)
(* find one that has its stream and is about to remove the entry.           *)
THEOREM RegistryIsLive == BridgeSpec => []RegisteredBeforeSplice
  <1>1. BridgeInit => RegisteredBeforeSplice
    BY DEF BridgeInit, RegisteredBeforeSplice
  <1>2. QED
    BY <1>1, RegistryNext, BridgeTypeCorrect, PTL DEF BridgeSpec

-----------------------------------------------------------------------------
(* Streams *)

(* Listener l was given a stream. *)
Taken(l) == \E d \in Senders : con[d].to = l /\ con[d].pc \in {"spliced", "over"}

(* A task has a peer exactly while it is paired or splicing, and that       *)
(* sender's stream is the one it holds.                                     *)
PeerInv ==
    \A l \in Listeners :
        /\ lis[l].peer # NoOne <=> lis[l].pc \in {"paired", "splicing"}
        /\ lis[l].peer # NoOne => con[lis[l].peer].to = l
        /\ lis[l].pc = "paired" => con[lis[l].peer].pc = "queued"
        /\ lis[l].pc = "splicing" => con[lis[l].peer].pc = "spliced"

(* A stream in a channel is that of a queued sender that found the channel, *)
(* and the task that reads it has not returned.                             *)
BoxInv ==
    \A l \in Listeners, c \in Senders : box[l] = <<c>> =>
        /\ con[c].pc = "queued" /\ con[c].to = l
        /\ lis[l].pc \in {"waiting", "paired", "splicing"}

(* A stream in a channel has not been taken from it. *)
OnePlaceInv ==
    \A c \in Senders, l \in Listeners : ~(box[l] = <<c>> /\ lis[l].peer = c)

(* A CONNECT task with a copy of the channel keeps its listener from        *)
(* leaving by the None branch: if the listener has returned, it was given a *)
(* stream.                                                                  *)
HeldInv ==
    \A c \in Senders : con[c].pc \in {"found", "told"} =>
        /\ con[c].to \in Listeners /\ lis[con[c].to].pc \notin {"unused", "closed"}
        /\ lis[con[c].to].pc = "ended" => Taken(con[c].to)

LostInv == \A c \in Senders : con[c].pc = "lost" => Taken(con[c].to)

StreamInv == BridgeTypeOK /\ RegisteredBeforeSplice
             /\ PeerInv /\ BoxInv /\ OnePlaceInv /\ HeldInv /\ LostInv

LEMMA OneStream ==
  ASSUME NEW c \in Senders, NEW d \in Senders
  PROVE  <<c>> # <<>> /\ (<<c>> = <<d>> => c = d)
  OBVIOUS

LEMMA StreamInit == BridgeInit => StreamInv
  <1> SUFFICES ASSUME BridgeInit PROVE StreamInv
    OBVIOUS
  <1>1. BridgeTypeOK /\ RegisteredBeforeSplice
    BY BridgeTypeInit DEF BridgeInit, RegisteredBeforeSplice
  <1>2. PeerInv /\ BoxInv /\ OnePlaceInv /\ HeldInv /\ LostInv
    BY NoOneAssumption, OneStream
       DEF BridgeInit, PeerInv, BoxInv, OnePlaceInv, HeldInv, LostInv
  <1>3. QED
    BY <1>1, <1>2 DEF StreamInv

(* A sender whose task moved as little as this stays where it was. *)
LEMMA TakenStays ==
  ASSUME \A d \in Senders : con[d].pc \in {"spliced", "over"} =>
            con'[d].to = con[d].to /\ con'[d].pc \in {"spliced", "over"}
  PROVE  \A l : Taken(l) => Taken(l)'
  BY DEF Taken

LEMMA ListenStreams ==
  ASSUME StreamInv, NEW l \in Listeners, Listen(l)
  PROVE  PeerInv' /\ BoxInv' /\ OnePlaceInv' /\ HeldInv' /\ LostInv'
  <1> USE NoOneAssumption DEF StreamInv, BridgeTypeOK, Listener, Sender
  <1>1. /\ con' = con /\ box' = box /\ lis[l].pc \in {"unused", "ended"} /\ ~Held(l)
        /\ lis'[l].pc = "waiting" /\ lis'[l].peer = NoOne
        /\ \A k \in Listeners : k # l => lis'[k] = lis[k]
    BY DEF Listen
  <1>2. PeerInv'
    BY <1>1 DEF PeerInv
  <1>3. BoxInv'
    BY <1>1 DEF BoxInv
  <1>4. OnePlaceInv'
    BY <1>1 DEF OnePlaceInv
  <1>5. \A k : Taken(k) => Taken(k)'
    BY <1>1 DEF Taken
  <1>6. HeldInv'
    BY <1>1, <1>5 DEF HeldInv, Held
  <1>7. LostInv'
    BY <1>1, <1>5 DEF LostInv
  <1>8. QED
    BY <1>2, <1>3, <1>4, <1>6, <1>7

(* Steps that change only the open flag or the program counter of a task    *)
(* without a peer.                                                          *)
LEMMA IdleStreams ==
  ASSUME StreamInv, NEW l \in Listeners, CloseListener(l) \/ ChannelClosed(l) \/ Leave(l)
  PROVE  PeerInv' /\ BoxInv' /\ OnePlaceInv' /\ HeldInv' /\ LostInv'
  <1> USE NoOneAssumption DEF StreamInv, BridgeTypeOK, Listener, Sender
  <1>1. /\ con' = con /\ box' = box
        /\ \A k \in Listeners : lis'[k].peer = lis[k].peer
    BY DEF CloseListener, ChannelClosed, Leave
  <1>2. \A k \in Listeners :
          \/ lis'[k].pc = lis[k].pc
          \/ k = l /\ lis[l].pc = "waiting" /\ lis'[l].pc = "closed" /\ box[l] = <<>> /\ ~Held(l)
          \/ k = l /\ lis[l].pc = "closed" /\ lis'[l].pc = "ended"
    BY DEF CloseListener, ChannelClosed, Leave
  <1>3. PeerInv'
    BY <1>1, <1>2 DEF PeerInv
  <1>4. BoxInv'
    <2> SUFFICES ASSUME NEW k \in Listeners, NEW c \in Senders, box[k] = <<c>>
                 PROVE  /\ con[c].pc = "queued" /\ con[c].to = k
                        /\ lis'[k].pc \in {"waiting", "paired", "splicing"}
      BY <1>1 DEF BoxInv
    <2>1. /\ con[c].pc = "queued" /\ con[c].to = k /\ box[k] # <<>>
          /\ lis[k].pc \in {"waiting", "paired", "splicing"}
      BY OneStream DEF BoxInv
    <2>2. lis'[k].pc = lis[k].pc
      BY <1>2, <2>1
    <2>3. QED
      BY <2>1, <2>2
  <1>5. OnePlaceInv'
    BY <1>1 DEF OnePlaceInv
  <1>6. \A k : Taken(k) => Taken(k)'
    BY <1>1 DEF Taken
  <1>7. HeldInv'
    BY <1>1, <1>2, <1>6 DEF HeldInv, Held
  <1>8. LostInv'
    BY <1>1, <1>6 DEF LostInv
  <1>9. QED
    BY <1>3, <1>4, <1>5, <1>7, <1>8

LEMMA RecvStreams ==
  ASSUME StreamInv, NEW l \in Listeners, RecvStream(l)
  PROVE  PeerInv' /\ BoxInv' /\ OnePlaceInv' /\ HeldInv' /\ LostInv'
  <1> USE NoOneAssumption, OneStream DEF StreamInv, BridgeTypeOK, Listener, Sender
  <1>1. PICK s \in Senders : box[l] = <<s>>
    BY DEF RecvStream, Channel
  <1>2. /\ lis[l].pc = "waiting" /\ lis[l].peer = NoOne /\ con[s].pc = "queued" /\ con[s].to = l
        /\ con' = con /\ box' = [box EXCEPT ![l] = <<>>]
    BY <1>1 DEF RecvStream, PeerInv, BoxInv
  <1>3. /\ lis'[l].pc = "paired" /\ lis'[l].peer = s
        /\ \A k \in Listeners : k # l => lis'[k] = lis[k]
    BY <1>1 DEF RecvStream
  <1>4. PeerInv'
    BY <1>2, <1>3 DEF PeerInv
  <1>5. BoxInv'
    <2> SUFFICES ASSUME NEW k \in Listeners, NEW c \in Senders, box'[k] = <<c>>
                 PROVE  /\ con'[c].pc = "queued" /\ con'[c].to = k
                        /\ lis'[k].pc \in {"waiting", "paired", "splicing"}
      BY DEF BoxInv
    <2>1. k # l /\ box[k] = <<c>>
      BY <1>2
    <2>2. /\ con[c].pc = "queued" /\ con[c].to = k
          /\ lis[k].pc \in {"waiting", "paired", "splicing"}
      BY <2>1 DEF BoxInv
    <2>3. QED
      BY <1>2, <1>3, <2>1, <2>2
  <1>6. OnePlaceInv'
    <2>1. box'[l] = <<>> /\ \A k \in Listeners : k # l => box'[k] = box[k]
      BY <1>2
    <2>2. QED
      BY <1>3, <2>1 DEF OnePlaceInv
  <1>7. \A k : Taken(k) => Taken(k)'
    BY <1>2 DEF Taken
  <1>8. HeldInv'
    BY <1>2, <1>3, <1>7 DEF HeldInv
  <1>9. LostInv'
    BY <1>2, <1>7 DEF LostInv
  <1>10. QED
    BY <1>4, <1>5, <1>6, <1>8, <1>9

LEMMA SpliceStreams ==
  ASSUME StreamInv, NEW l \in Listeners, Splice(l)
  PROVE  PeerInv' /\ BoxInv' /\ OnePlaceInv' /\ HeldInv' /\ LostInv'
  <1> USE NoOneAssumption DEF StreamInv, BridgeTypeOK, Listener, Sender
  <1> DEFINE s == lis[l].peer
  <1>1. /\ s \in Senders /\ con[s].pc = "queued" /\ con[s].to = l /\ lis[l].pc = "paired"
        /\ box' = box
    BY DEF Splice, PeerInv
  <1>2. /\ lis'[l].pc = "splicing" /\ lis'[l].peer = s
        /\ \A k \in Listeners : k # l => lis'[k] = lis[k]
    BY DEF Splice
  <1>3. /\ con'[s].pc = "spliced" /\ con'[s].to = l
        /\ \A c \in Senders : c # s => con'[c] = con[c]
    BY <1>1 DEF Splice
  <1>4. PeerInv'
    BY <1>1, <1>2, <1>3 DEF PeerInv
  <1>5. BoxInv'
    BY <1>1, <1>2, <1>3 DEF BoxInv, OnePlaceInv
  <1>6. OnePlaceInv'
    BY <1>1, <1>2 DEF OnePlaceInv
  <1>7. \A k : Taken(k) => Taken(k)'
    BY <1>1, <1>3, TakenStays
  <1>8. HeldInv'
    BY <1>1, <1>2, <1>3, <1>7 DEF HeldInv
  <1>9. LostInv'
    BY <1>1, <1>3, <1>7 DEF LostInv
  <1>10. QED
    BY <1>4, <1>5, <1>6, <1>8, <1>9

(* The end of a splice: whoever waits in the channel loses to its peer. *)
LEMMA SpliceEndsStreams ==
  ASSUME StreamInv, NEW l \in Listeners, BridgeSpliceEnds(l)
  PROVE  PeerInv' /\ BoxInv' /\ OnePlaceInv' /\ HeldInv' /\ LostInv'
  <1> USE NoOneAssumption, OneStream DEF StreamInv, BridgeTypeOK, Listener, Sender
  <1> DEFINE s == lis[l].peer
  <1>1. /\ s \in Senders /\ con[s].pc = "spliced" /\ con[s].to = l /\ lis[l].pc = "splicing"
        /\ box' = [box EXCEPT ![l] = <<>>]
    BY DEF BridgeSpliceEnds, PeerInv
  <1>2. /\ lis'[l].pc = "ended" /\ lis'[l].peer = NoOne
        /\ \A k \in Listeners : k # l => lis'[k] = lis[k]
    BY DEF BridgeSpliceEnds
  <1>3. \A c \in Senders : con'[c].to = con[c].to /\
          con'[c].pc = IF c = s THEN "over" ELSE IF box[l] = <<c>> THEN "lost" ELSE con[c].pc
    BY DEF BridgeSpliceEnds
  <1>4. \A c \in Senders : box[l] = <<c>> => con[c].pc = "queued" /\ con[c].to = l
    BY DEF BoxInv
  <1>5. PeerInv'
    <2> SUFFICES ASSUME NEW k \in Listeners
                 PROVE  /\ lis'[k].peer # NoOne <=> lis'[k].pc \in {"paired", "splicing"}
                        /\ lis'[k].peer # NoOne => con'[lis'[k].peer].to = k
                        /\ lis'[k].pc = "paired" => con'[lis'[k].peer].pc = "queued"
                        /\ lis'[k].pc = "splicing" => con'[lis'[k].peer].pc = "spliced"
      BY DEF PeerInv
    <2>1. CASE k = l
      BY <1>2, <2>1
    <2>2. CASE k # l
      <3>1. /\ lis'[k] = lis[k] /\ lis[k].peer \in Senders \cup {NoOne}
            /\ lis[k].peer # NoOne <=> lis[k].pc \in {"paired", "splicing"}
            /\ lis[k].peer # NoOne => con[lis[k].peer].to = k
            /\ lis[k].pc = "paired" => con[lis[k].peer].pc = "queued"
            /\ lis[k].pc = "splicing" => con[lis[k].peer].pc = "spliced"
        BY <1>2, <2>2 DEF PeerInv
      <3>2. lis[k].peer # NoOne => lis[k].peer # s /\ box[l] # <<lis[k].peer>>
        BY <1>1, <1>4, <2>2, <3>1
      <3>3. QED
        BY <1>3, <3>1, <3>2
    <2>3. QED
      BY <2>1, <2>2
  <1>6. BoxInv'
    <2> SUFFICES ASSUME NEW k \in Listeners, NEW c \in Senders, box'[k] = <<c>>
                 PROVE  /\ con'[c].pc = "queued" /\ con'[c].to = k
                        /\ lis'[k].pc \in {"waiting", "paired", "splicing"}
      BY DEF BoxInv
    <2>1. k # l /\ box[k] = <<c>>
      BY <1>1
    <2>2. con[c].pc = "queued" /\ con[c].to = k
          /\ lis[k].pc \in {"waiting", "paired", "splicing"}
      BY <2>1 DEF BoxInv
    <2>3. c # s /\ box[l] # <<c>>
      BY <1>1, <1>4, <2>1, <2>2
    <2>4. QED
      BY <1>2, <1>3, <2>1, <2>2, <2>3
  <1>7. OnePlaceInv'
    BY <1>1, <1>2 DEF OnePlaceInv
  <1>8. \A d \in Senders : con[d].pc \in {"spliced", "over"} =>
           con'[d].to = con[d].to /\ con'[d].pc \in {"spliced", "over"}
    BY <1>3, <1>4
  <1>9. Taken(l)' /\ \A k : Taken(k) => Taken(k)'
    <2>1. Taken(l)'
      BY <1>1, <1>3 DEF Taken
    <2>2. QED
      BY <1>8, <2>1, TakenStays
  <1>10. HeldInv'
    <2> SUFFICES ASSUME NEW c \in Senders, con'[c].pc \in {"found", "told"}
                 PROVE  /\ con'[c].to \in Listeners
                        /\ lis'[con'[c].to].pc \notin {"unused", "closed"}
                        /\ lis'[con'[c].to].pc = "ended" => Taken(con[c].to)'
      BY <1>3 DEF HeldInv
    <2>1. con[c].pc \in {"found", "told"} /\ con'[c].to = con[c].to
      BY <1>3
    <2>2. /\ con[c].to \in Listeners /\ lis[con[c].to].pc \notin {"unused", "closed"}
          /\ lis[con[c].to].pc = "ended" => Taken(con[c].to)
      BY <2>1 DEF HeldInv
    <2>3. lis'[con[c].to].pc = "ended" => con[c].to = l \/ Taken(con[c].to)
      BY <1>2, <2>2
    <2>4. Taken(con[c].to) \/ con[c].to = l =>
             \E d \in Senders : con'[d].to = con[c].to /\ con'[d].pc \in {"spliced", "over"}
      BY <1>9 DEF Taken
    <2>5. lis'[con[c].to].pc \notin {"unused", "closed"}
      BY <1>2, <2>2
    <2>6. QED
      BY <2>1, <2>2, <2>3, <2>4, <2>5 DEF Taken
  <1>11. LostInv'
    <2> SUFFICES ASSUME NEW c \in Senders, con'[c].pc = "lost"
                 PROVE  Taken(con[c].to)'
      BY <1>3 DEF LostInv
    <2>1. (con[c].pc = "lost" /\ Taken(con[c].to)) \/ con[c].to = l
      BY <1>3, <1>4 DEF LostInv
    <2>2. con'[c].to = con[c].to
      BY <1>3
    <2>3. \E d \in Senders : con'[d].to = con[c].to /\ con'[d].pc \in {"spliced", "over"}
      BY <1>9, <2>1 DEF Taken
    <2>4. QED
      BY <2>2, <2>3 DEF Taken
  <1>12. QED
    BY <1>5, <1>6, <1>7, <1>10, <1>11

(* A CONNECT task before its stream is in a channel has no stream anywhere: *)
(* what it does then leaves the streams alone.                              *)
LEMMA SenderMoves ==
  ASSUME StreamInv, NEW c \in Senders, lis' = lis, box' = box,
         con[c].pc \in {"unused", "found", "told"}, con'[c].pc # "queued",
         \A d \in Senders : d # c => con'[d] = con[d]
  PROVE  PeerInv' /\ BoxInv' /\ OnePlaceInv' /\ \A k : Taken(k) => Taken(k)'
  <1>1. \A k \in Listeners : lis[k].peer \in Senders \cup {NoOne} /\ lis[k].peer # c
    BY NoOneAssumption DEF StreamInv, BridgeTypeOK, Listener, PeerInv
  <1>2. \A k \in Listeners : box[k] # <<c>>
    BY DEF StreamInv, BoxInv
  <1>3. PeerInv'
    <2> SUFFICES ASSUME NEW k \in Listeners
                 PROVE  /\ lis[k].peer # NoOne <=> lis[k].pc \in {"paired", "splicing"}
                        /\ lis[k].peer # NoOne => con'[lis[k].peer].to = k
                        /\ lis[k].pc = "paired" => con'[lis[k].peer].pc = "queued"
                        /\ lis[k].pc = "splicing" => con'[lis[k].peer].pc = "spliced"
      BY DEF PeerInv
    <2>1. /\ lis[k].peer # NoOne <=> lis[k].pc \in {"paired", "splicing"}
          /\ lis[k].peer # NoOne => con[lis[k].peer].to = k
          /\ lis[k].pc = "paired" => con[lis[k].peer].pc = "queued"
          /\ lis[k].pc = "splicing" => con[lis[k].peer].pc = "spliced"
      BY DEF StreamInv, PeerInv
    <2>2. lis[k].peer # NoOne => con'[lis[k].peer] = con[lis[k].peer]
      BY <1>1
    <2>3. QED
      BY <2>1, <2>2
  <1>4. BoxInv'
    <2> SUFFICES ASSUME NEW k \in Listeners, NEW d \in Senders, box[k] = <<d>>
                 PROVE  /\ con'[d].pc = "queued" /\ con'[d].to = k
                        /\ lis[k].pc \in {"waiting", "paired", "splicing"}
      BY DEF BoxInv
    <2>1. d # c
      BY <1>2
    <2>2. QED
      BY <2>1 DEF StreamInv, BoxInv
  <1>5. OnePlaceInv'
    BY DEF StreamInv, OnePlaceInv
  <1>6. \A k : Taken(k) => Taken(k)'
    BY TakenStays
  <1>7. QED
    BY <1>3, <1>4, <1>5, <1>6

LEMMA LookupStreams ==
  ASSUME StreamInv, NEW c \in Senders, Lookup(c) \/ TellOk(c)
  PROVE  PeerInv' /\ BoxInv' /\ OnePlaceInv' /\ HeldInv' /\ LostInv'
  <1> USE NoOneAssumption DEF StreamInv, BridgeTypeOK, Listener, Sender
  <1>1. /\ lis' = lis /\ box' = box /\ con[c].pc \in {"unused", "found"}
        /\ con'[c].pc \in {"notfound", "found", "told", "gone"}
        /\ \A d \in Senders : d # c => con'[d] = con[d]
    BY DEF Lookup, TellOk
  <1>2. PeerInv' /\ BoxInv' /\ OnePlaceInv' /\ \A k : Taken(k) => Taken(k)'
    BY <1>1, SenderMoves
  <1>3. \A d \in Senders : d # c /\ con[d].pc \in {"found", "told"} =>
           /\ con[d].to \in Listeners /\ lis[con[d].to].pc \notin {"unused", "closed"}
           /\ lis[con[d].to].pc = "ended" => Taken(con[d].to)
    BY DEF HeldInv
  <1>4. HeldInv'
    <2>1. CASE Lookup(c)
      <3>1. con'[c].pc = "found" => con'[c].to = registry /\ registry \in Listeners
                                    /\ lis[registry].pc \in {"waiting", "paired"}
        BY <1>1, <2>1 DEF Lookup, RegisteredBeforeSplice
      <3>2. con'[c].pc # "told"
        BY <2>1 DEF Lookup
      <3>3. QED
        BY <1>1, <1>2, <1>3, <3>1, <3>2 DEF HeldInv
    <2>2. CASE TellOk(c)
      <3>1. con'[c].to = con[c].to /\ con[c].pc = "found"
        BY <2>2 DEF TellOk
      <3>2. QED
        BY <1>1, <1>2, <3>1 DEF HeldInv
    <2>3. QED
      BY <2>1, <2>2
  <1>5. LostInv'
    BY <1>1, <1>2 DEF LostInv
  <1>6. QED
    BY <1>2, <1>4, <1>5

LEMMA HandOverStreams ==
  ASSUME StreamInv, NEW c \in Senders, HandOver(c)
  PROVE  PeerInv' /\ BoxInv' /\ OnePlaceInv' /\ HeldInv' /\ LostInv'
  <1> USE NoOneAssumption, OneStream DEF StreamInv, BridgeTypeOK, Listener, Sender
  <1> DEFINE l == con[c].to
  <1>1. /\ lis' = lis /\ con[c].pc = "told" /\ l \in Listeners
        /\ lis[l].pc \notin {"unused", "closed"} /\ (lis[l].pc = "ended" => Taken(l))
        /\ con'[c].to = l /\ con'[c].pc \in {"queued", "lost"}
        /\ \A d \in Senders : d # c => con'[d] = con[d]
    BY DEF HandOver, HeldInv
  <1>2. \A k \in Listeners : box[k] # <<c>> /\ lis[k].peer # c
    BY <1>1 DEF BoxInv, PeerInv
  <1>3. \A k : Taken(k) => Taken(k)'
    BY <1>1, TakenStays
  <1>4. HeldInv'
    BY <1>1, <1>3 DEF HeldInv
  <1>5. CASE lis[l].pc # "ended"
    <2>1. box[l] = <<>> /\ box' = [box EXCEPT ![l] = <<c>>] /\ con'[c].pc = "queued"
      BY <1>5 DEF HandOver
    <2>2. PeerInv'
      BY <1>1, <1>2, <2>1 DEF PeerInv
    <2>3. BoxInv'
      BY <1>1, <1>5, <2>1 DEF BoxInv, LisPc
    <2>4. OnePlaceInv'
      BY <1>1, <1>2, <2>1 DEF OnePlaceInv
    <2>5. LostInv'
      BY <1>1, <1>3, <2>1 DEF LostInv
    <2>6. QED
      BY <1>4, <2>2, <2>3, <2>4, <2>5
  <1>6. CASE lis[l].pc = "ended"
    <2>1. box' = box /\ con'[c].pc = "lost"
      BY <1>6 DEF HandOver
    <2>2. PeerInv' /\ BoxInv' /\ OnePlaceInv'
      BY <1>1, <2>1, SenderMoves
    <2>3. LostInv'
      BY <1>1, <1>3, <1>6 DEF LostInv
    <2>4. QED
      BY <1>4, <2>2, <2>3
  <1>7. QED
    BY <1>5, <1>6

LEMMA StreamNext == StreamInv /\ [BridgeNext]_bridgeVars => StreamInv'
  <1> SUFFICES ASSUME StreamInv, [BridgeNext]_bridgeVars
               PROVE  StreamInv'
    OBVIOUS
  <1>1. BridgeTypeOK' /\ RegisteredBeforeSplice'
    BY BridgeTypeNext, RegistryNext DEF StreamInv
  <1> DEFINE Kept == PeerInv' /\ BoxInv' /\ OnePlaceInv' /\ HeldInv' /\ LostInv'
  <1>2. ASSUME NEW l \in Listeners,
               Listen(l) \/ CloseListener(l) \/ RelayListenStep(l) \/ BridgeSpliceEnds(l)
        PROVE  Kept
    BY <1>2, ListenStreams, IdleStreams, RecvStreams, SpliceStreams, SpliceEndsStreams
       DEF RelayListenStep
  <1>3. ASSUME NEW c \in Senders, Lookup(c) \/ RelayConnectStep(c)
        PROVE  Kept
    BY <1>3, LookupStreams, HandOverStreams DEF RelayConnectStep
  <1>4. CASE UNCHANGED bridgeVars
    <2>1. lis' = lis /\ con' = con /\ box' = box
      BY <1>4 DEF bridgeVars
    <2>2. PeerInv'
      BY <2>1 DEF StreamInv, PeerInv
    <2>3. BoxInv'
      BY <2>1 DEF StreamInv, BoxInv
    <2>4. OnePlaceInv'
      BY <2>1 DEF StreamInv, OnePlaceInv
    <2>5. HeldInv' /\ LostInv'
      BY <2>1 DEF StreamInv, HeldInv, LostInv, Taken
    <2>6. QED
      BY <1>1, <2>2, <2>3, <2>4, <2>5 DEF StreamInv
  <1>5. QED
    BY <1>1, <1>2, <1>3, <1>4 DEF BridgeNext, StreamInv

(* For any number of loops that replace and evict one another, of senders   *)
(* and of dying connections: a sender that was told OK and cut off lost its *)
(* listener to another sender, and never to an eviction (handle_bridge).    *)
THEOREM EvictionsLoseNoStream == BridgeSpec => []LostOnlyToAnother
  <1>1. StreamInv => LostOnlyToAnother
    BY DEF StreamInv, LostInv, Taken, LostOnlyToAnother
  <1>2. QED
    BY <1>1, StreamInit, StreamNext, PTL DEF BridgeSpec

-----------------------------------------------------------------------------
(* Part 2: the TURN relay *)

(* Where a dial is, and what can be on its connections.  A request the      *)
(* relay has not read is the one the dial awaits, or was left by a dial     *)
(* that failed.                                                             *)
StageInv ==
    \A c \in Dials :
        /\ pc[c] \in {"listening", "handshake", "open", "closed"} =>
              req[c] = None /\ resp[c] = None /\ sess[c] # "dialling"
        /\ pc[c] = "listening" => sess[c] = "none"
        /\ pc[c] = "failed" => resp[c] = None
        /\ pc[c] \in Asking => IF resp[c] = None THEN req[c] = pc[c] ELSE req[c] = None
        /\ sess[c] = "dialling" => /\ c \in perms /\ resp[c] = None
                                   /\ pc[c] \in {"connect", "failed"}
        /\ resp[c] # None => (resp[c].id \in ConnIds <=> pc[c] = "connect" /\ resp[c].code = 200)
        /\ req[c] = "bind" => connId[c] \in ConnIds /\ sess[c] # "dialling"

(* The relay has no connection to the dial's peer. *)
Unparked(c) ==
    /\ \A i \in ConnIds : pending[i] # c
    /\ \A d \in Dials : splice[d] # c

(* A peer connection is parked for one dial, under the id this dial holds,  *)
(* or was left there by a dial that failed; it is in one place.             *)
ParkInv ==
    /\ perms \subseteq Holders \cap V4
    /\ \A i, j \in ConnIds : (pending[i] # None /\ pending[i] = pending[j]) => i = j
    /\ \A d, e \in Dials : (splice[d] # None /\ splice[d] = splice[e]) => d = e
    /\ \A i \in ConnIds : \A c \in Dials : pending[i] = c =>
          /\ c \in Holders \cap V4
          /\ HoldsId(c, i) \/ pc[c] = "failed"
          /\ \A d \in Dials : splice[d] # c

(* A dial that shared its id with nobody finds its connection under it.     *)
DialOK(c) ==
    /\ \/ pc[c] \in {"listening", "probe", "allocate", "permit"}
       \/ sess[c] = "dialling"
       \/ req[c] \in {"probe", "allocate", "permit", "connect"}
       => Unparked(c)
    /\ \A i \in ConnIds : (HoldsId(c, i) /\ c \notin shared) =>
          /\ pending[i] = c
          /\ \A d \in Dials : HoldsId(d, i) => d = c
    /\ (pc[c] = "bind" /\ resp[c] # None /\ c \notin shared) => splice[c] = c
    /\ (pc[c] \in {"handshake", "open"} /\ c \notin shared) => splice[c] = c

DialInv == \A c \in Dials : DialOK(c)

IInv == TypeOK /\ StageInv /\ ParkInv /\ DialInv

-----------------------------------------------------------------------------
LEMMA InitInv == Init => IInv
BY TurnAssumption, NoneAssumption DEF Init, IInv, TypeOK, StageInv, ParkInv, HoldsId, DialInv, DialOK, HoldsId, Unparked, Stages,
   Asking, Requests, Ended

-----------------------------------------------------------------------------
(* A step of one dial that moves no peer connection.  What is parked for    *)
(* the dial is under the id it still holds, or it has failed.               *)
LEMMA ParkKept ==
  ASSUME IInv, NEW c \in Dials, UNCHANGED <<pending, splice>>,
         perms' \subseteq Holders \cap V4,
         \A d \in Dials \ {c} :
            /\ pc'[d] = pc[d] /\ req'[d] = req[d]
            /\ resp'[d] = resp[d] /\ connId'[d] = connId[d],
         \A i \in ConnIds : pending[i] = c => HoldsId(c, i)' \/ pc'[c] = "failed"
  PROVE  ParkInv'
<1>1. \A d \in Dials \ {c} : \A i \in ConnIds : HoldsId(d, i) => HoldsId(d, i)'
  BY DEF HoldsId
<1>2. ASSUME NEW i \in ConnIds, NEW d \in Dials, pending[i] = d
      PROVE  HoldsId(d, i)' \/ pc'[d] = "failed"
  <2>1. CASE d = c
    BY <1>2, <2>1
  <2>2. CASE d # c
    BY <1>1, <1>2, <2>2 DEF IInv, ParkInv
  <2> QED
    BY <2>1, <2>2
<1>3. QED
  BY <1>2 DEF IInv, ParkInv

-----------------------------------------------------------------------------
(* The steps of a bridge leave the relay's tables as they are. *)

LEMMA AcceptInv ==
  ASSUME IInv, NEW c \in Dials, Accept(c)
  PROVE  IInv'
<1> USE TurnAssumption, NoneAssumption DEF IInv, Accept, Ask
<1>1. TypeOK'
  BY DEF TypeOK, Stages, Asking, Requests
<1>2. StageInv'
  BY DEF TypeOK, StageInv, Asking, Requests
<1>3. ParkInv'
  <2>1. Unparked(c)
    BY DEF DialInv, DialOK
  <2>2. \A d \in Dials \ {c} : pc'[d] = pc[d] /\ req'[d] = req[d]
    BY DEF TypeOK
  <2> QED
    BY <2>1, <2>2, ParkKept DEF ParkInv, Unparked
<1>4. DialInv'
  BY DEF TypeOK, StageInv, DialInv, DialOK, HoldsId, Unparked
<1> QED
  BY <1>1, <1>2, <1>3, <1>4

LEMMA ProceedInv ==
  ASSUME IInv, NEW c \in Dials, Proceed(c)
  PROVE  IInv'
<1> USE TurnAssumption, NoneAssumption DEF IInv
<1>0. /\ pc[c] \in Asking /\ resp[c] # None /\ req[c] = None
      /\ resp[c] \in Response /\ sess[c] # "dialling"
      /\ resp' = [resp EXCEPT ![c] = None]
      /\ UNCHANGED <<sess, alloc, perms, pending, splice, stale, shared>>
  BY DEF Proceed, TypeOK, StageInv, serverVars
<1>1. CASE pc[c] \in {"probe", "allocate", "permit"}
  <2>1. PICK s \in {"allocate", "permit", "connect"} :
           pc' = [pc EXCEPT ![c] = s] /\ req' = [req EXCEPT ![c] = s] /\ connId' = connId
    BY <1>1 DEF Proceed, Ask, NextStage
  <2>2. Unparked(c)
    BY <1>1 DEF DialInv, DialOK
  <2>3. TypeOK'
    BY <1>0, <2>1 DEF TypeOK, Stages, Asking, Requests
  <2>4. StageInv'
    BY <1>0, <2>1 DEF TypeOK, StageInv, Asking, Requests
  <2>5. ParkInv'
    BY <1>0, <2>1, <2>2 DEF TypeOK, ParkInv, HoldsId, Unparked
  <2>6. DialInv'
    BY <1>0, <2>1, <2>2 DEF TypeOK, DialInv, DialOK, HoldsId, Unparked
  <2> QED
    BY <2>3, <2>4, <2>5, <2>6
<1>2. CASE pc[c] = "connect"
  <2>1. /\ pc' = [pc EXCEPT ![c] = "bind"] /\ req' = [req EXCEPT ![c] = "bind"]
        /\ connId' = [connId EXCEPT ![c] = resp[c].id] /\ resp[c].code = 200
    BY <1>2 DEF Proceed, Ask, NextStage
  <2>2. resp[c].id \in ConnIds
    BY <1>0, <1>2, <2>1 DEF StageInv
  <2>3. TypeOK'
    BY <1>0, <2>1, <2>2 DEF TypeOK, Stages, Asking, Requests
  <2>4. StageInv'
    BY <1>0, <2>1, <2>2 DEF TypeOK, StageInv, Asking, Requests
  <2>5. \A d \in Dials : \A i \in ConnIds : HoldsId(d, i)' <=> HoldsId(d, i)
    BY <1>0, <2>1, <2>2 DEF TypeOK, HoldsId, Requests
  <2>6. ParkInv'
    BY <1>0, <1>2, <2>1, <2>5 DEF TypeOK, ParkInv
  <2>7. DialInv'
    <3> SUFFICES ASSUME NEW d \in Dials PROVE DialOK(d)'
      BY DEF DialInv
    <3>1. CASE d = c
      BY <1>0, <2>1, <2>5, <3>1 DEF TypeOK, DialInv, DialOK
    <3>2. CASE d # c
      BY <1>0, <2>1, <2>5, <3>2 DEF TypeOK, DialInv, DialOK, Unparked
    <3> QED
      BY <3>1, <3>2
  <2> QED
    BY <2>3, <2>4, <2>6, <2>7
<1>3. CASE pc[c] = "bind"
  <2>1. PICK s \in {"handshake", "open"} :
           pc' = [pc EXCEPT ![c] = s] /\ req' = req /\ connId' = connId
    BY <1>3 DEF Proceed
  <2>2. c \notin shared => splice[c] = c
    BY <1>0, <1>3 DEF DialInv, DialOK
  <2>3. TypeOK'
    BY <1>0, <2>1 DEF TypeOK, Stages
  <2>4. StageInv'
    BY <1>0, <2>1 DEF TypeOK, StageInv, Asking, Requests
  <2>5. ParkInv'
    <3>1. \A k \in ConnIds : ~HoldsId(c, k)
      BY <1>0, <1>3 DEF StageInv, HoldsId, Requests
    <3>2. \A k \in ConnIds : pending[k] # c
      BY <1>3, <3>1 DEF ParkInv
    <3>3. \A d \in Dials \ {c} : /\ pc'[d] = pc[d] /\ req'[d] = req[d]
                                /\ resp'[d] = resp[d] /\ connId'[d] = connId[d]
      BY <1>0, <2>1 DEF TypeOK
    <3> QED
      BY <1>0, <3>2, <3>3, ParkKept DEF ParkInv
  <2>6. DialInv'
    BY <1>0, <2>1, <2>2 DEF TypeOK, DialInv, DialOK, HoldsId, Unparked
  <2> QED
    BY <2>3, <2>4, <2>5, <2>6
<1> QED
  BY <1>0, <1>1, <1>2, <1>3 DEF Asking, Requests

(* A dial that ends, with or without its request still unread. *)
LEMMA DropInv ==
  ASSUME IInv, NEW c \in Dials, NEW s \in {"failed", "closed", "open"},
         pc[c] \in Asking \cup {"handshake", "open"},
         s = "closed" => pc[c] = "open",
         s = "open" => pc[c] = "handshake",
         pc' = [pc EXCEPT ![c] = s],
         resp' = [resp EXCEPT ![c] = None],
         req' \in {req, [req EXCEPT ![c] = None]},
         UNCHANGED <<connId, sess, alloc, perms, pending, splice, stale, shared>>
  PROVE  IInv'
<1> USE TurnAssumption, NoneAssumption DEF IInv
<1>1. TypeOK'
  BY DEF TypeOK, Stages, Ended
<1>2. StageInv'
  BY DEF TypeOK, StageInv, Asking, Requests
<1>3. ParkInv'
  <2>1. \A i \in ConnIds : (pending[i] = c /\ s # "failed") => FALSE
    <3> SUFFICES ASSUME NEW i \in ConnIds, pending[i] = c, s # "failed" PROVE FALSE
      OBVIOUS
    <3>1. pc[c] \in {"handshake", "open"}
      OBVIOUS
    <3>2. ~HoldsId(c, i)
      BY <3>1 DEF StageInv, HoldsId, Requests
    <3> QED
      BY <3>1, <3>2 DEF ParkInv
  <2>2. \A d \in Dials \ {c} : /\ pc'[d] = pc[d] /\ req'[d] = req[d]
                              /\ resp'[d] = resp[d] /\ connId'[d] = connId[d]
    BY DEF TypeOK
  <2>3. s = "failed" => pc'[c] = "failed"
    BY DEF TypeOK
  <2> QED
    BY <2>1, <2>2, <2>3, ParkKept DEF ParkInv
<1>4. DialInv'
  <2> SUFFICES ASSUME NEW d \in Dials PROVE DialOK(d)'
    BY DEF DialInv
  <2>1. CASE d = c
    BY <2>1 DEF TypeOK, StageInv, DialInv, DialOK, HoldsId, Unparked, Asking, Requests
  <2>2. CASE d # c
    BY <2>2 DEF TypeOK, StageInv, DialInv, DialOK, HoldsId, Unparked, Asking, Requests
  <2> QED
    BY <2>1, <2>2
<1> QED
  BY <1>1, <1>2, <1>3, <1>4

LEMMA ClientEndInv ==
  ASSUME IInv, NEW c \in Dials, Rejected(c) \/ TimeOut(c) \/ Handshake(c) \/ CloseTunnel(c)
  PROVE  IInv'
<1>1. CASE Rejected(c)
  BY <1>1, DropInv DEF Rejected, Drop, serverVars
<1>2. CASE TimeOut(c)
  BY <1>2, DropInv DEF TimeOut, Drop, serverVars
<1>3. CASE Handshake(c)
  BY <1>3, DropInv DEF Handshake, Drop, serverVars
<1>4. CASE CloseTunnel(c)
  BY <1>4, DropInv DEF CloseTunnel, Drop, serverVars
<1> QED
  BY <1>1, <1>2, <1>3, <1>4

-----------------------------------------------------------------------------
(* The steps of the relay. *)

(* An answer that carries no connection id and opens nothing. *)
LEMMA PlainAnswerInv ==
  ASSUME IInv, NEW c \in Dials, NEW code \in Codes,
         req[c] \in {"probe", "allocate", "permit", "connect"},
         req[c] = "connect" => code # 200,
         Answer(c, code, None),
         sess[c] = "serving", sess' = sess,
         alloc' \in SUBSET Dials, perms' \in SUBSET Dials,
         perms \subseteq perms', perms' \subseteq Holders \cap V4,
         UNCHANGED <<pending, splice, stale, shared>>
  PROVE  IInv'
<1> USE TurnAssumption, NoneAssumption DEF IInv, Answer
<1>1. [code |-> code, id |-> None] \in Response
  BY DEF Response
<1>2. TypeOK'
  BY <1>1 DEF TypeOK
<1>3. StageInv'
  BY <1>1 DEF TypeOK, StageInv, Asking, Requests, Gone, Ended, Stages
<1>4. ParkInv'
  <2>1. Unparked(c)
    BY DEF DialInv, DialOK
  <2>2. \A d \in Dials \ {c} : /\ pc'[d] = pc[d] /\ req'[d] = req[d]
                              /\ resp'[d] = resp[d] /\ connId'[d] = connId[d]
    BY DEF TypeOK
  <2> QED
    BY <2>1, <2>2, ParkKept DEF Unparked
<1>5. DialInv'
  <2> SUFFICES ASSUME NEW d \in Dials PROVE DialOK(d)'
    BY DEF DialInv
  <2>1. CASE d = c
    BY <1>1, <2>1 DEF TypeOK, StageInv, DialInv, DialOK, HoldsId, Unparked, Asking, Requests, Gone, Ended, Stages
  <2>2. CASE d # c
    BY <1>1, <2>2 DEF TypeOK, StageInv, DialInv, DialOK, HoldsId, Unparked, Asking, Requests, Gone, Ended, Stages
  <2> QED
    BY <2>1, <2>2
<1> QED
  BY <1>2, <1>3, <1>4, <1>5

LEMMA AllocateInv ==
  ASSUME IInv, NEW c \in Dials, Allocate(c)
  PROVE  IInv'
<1>1. PICK code \in {200, 401} : Answer(c, code, None)
  BY DEF Allocate
<1>2. sess[c] = "serving" /\ req[c] \in {"probe", "allocate"} /\ UNCHANGED <<sess, perms, pending, splice, stale, shared>>
  BY DEF Allocate
<1>3. alloc' \in SUBSET Dials
  BY DEF Allocate, IInv, TypeOK
<1>4. perms' \in SUBSET Dials /\ perms' \subseteq Holders \cap V4 /\ perms \subseteq perms'
  BY <1>2 DEF IInv, TypeOK, ParkInv, HoldsId
<1> QED
  BY <1>1, <1>2, <1>3, <1>4, PlainAnswerInv DEF Codes

LEMMA PermissionInv ==
  ASSUME IInv, NEW c \in Dials, Permission(c)
  PROVE  IInv'
<1>1. PICK code \in {200, 400, 401} : Answer(c, code, None)
  BY DEF Permission
<1>2. sess[c] = "serving" /\ req[c] = "permit" /\ UNCHANGED <<sess, alloc, pending, splice, stale, shared>>
  BY DEF Permission
<1>3. perms' = perms \/ (perms' = perms \cup ({c} \cap alloc) /\ c \in Holders \cap V4)
  BY DEF Permission, Verified
<1>4. perms' \in SUBSET Dials /\ perms' \subseteq Holders \cap V4 /\ perms \subseteq perms'
  BY <1>3 DEF IInv, TypeOK, ParkInv, HoldsId
<1>5. alloc' \in SUBSET Dials
  BY <1>2 DEF IInv, TypeOK
<1> QED
  BY <1>1, <1>2, <1>4, <1>5, PlainAnswerInv DEF Codes

LEMMA ConnectInv ==
  ASSUME IInv, NEW c \in Dials, Connect(c)
  PROVE  IInv'
<1> USE TurnAssumption, NoneAssumption DEF IInv
<1>1. sess[c] = "serving" /\ req[c] = "connect" /\ UNCHANGED <<alloc, perms, pending, splice, stale, shared>>
  BY DEF Connect
<1>2. CASE c \in perms
  <2>1. sess' = [sess EXCEPT ![c] = "dialling"] /\ UNCHANGED <<pc, req, resp, connId>>
    BY <1>2 DEF Connect
  <2>2. TypeOK'
    BY <1>1, <2>1 DEF TypeOK
  <2>3. StageInv'
    BY <1>1, <1>2, <2>1 DEF TypeOK, StageInv, Asking, Requests, Stages, Ended
  <2>4. ParkInv'
    BY <1>1, <2>1 DEF TypeOK, ParkInv, HoldsId
  <2>5. DialInv'
    BY <1>1, <2>1 DEF TypeOK, DialInv, DialOK, HoldsId, Unparked
  <2> QED
    BY <2>2, <2>3, <2>4, <2>5
<1>3. CASE c \notin perms
  <2>1. PICK code \in {400, 403} : Answer(c, code, None)
    BY <1>3 DEF Connect
  <2>2. sess' = sess
    BY <1>3 DEF Connect
  <2>3. /\ alloc' \in SUBSET Dials /\ perms' \in SUBSET Dials
        /\ perms \subseteq perms' /\ perms' \subseteq Holders \cap V4
    BY <1>1 DEF TypeOK, ParkInv, HoldsId
  <2> QED
    BY <1>1, <2>1, <2>2, <2>3, PlainAnswerInv DEF Codes
<1> QED
  BY <1>2, <1>3

(* The connect that succeeded parks the connection, also when its client    *)
(* has given up.  Whoever holds the id joins shared, with the dial itself.  *)
LEMMA ConnectedInv ==
  ASSUME IInv, NEW c \in Dials, Connected(c)
  PROVE  IInv'
<1> USE TurnAssumption, NoneAssumption DEF IInv
<1>1. PICK i \in ConnIds :
        /\ pending' = [pending EXCEPT ![i] = c]
        /\ Answer(c, 200, i)
        /\ shared' = IF {d \in Dials : HoldsId(d, i)} = {} THEN shared
                     ELSE shared \cup {d \in Dials : HoldsId(d, i)} \cup {c}
  BY DEF Connected
<1>2. /\ sess[c] = "dialling" /\ sess' = [sess EXCEPT ![c] = "serving"]
      /\ UNCHANGED <<pc, connId, alloc, perms, splice, stale>>
      /\ req' = [req EXCEPT ![c] = None]
  BY <1>1 DEF Connected, Answer
<1>3. /\ shared \subseteq shared' /\ shared' \subseteq Dials
      /\ \A d \in Dials : HoldsId(d, i) => d \in shared' /\ c \in shared'
  BY <1>1 DEF TypeOK
<1>4. /\ Unparked(c) /\ c \in perms /\ c \in Holders \cap V4 /\ resp[c] = None
      /\ pc[c] \in {"connect", "failed"} /\ req[c] # "bind"
  BY <1>2 DEF StageInv, ParkInv, DialInv, DialOK
<1>5. [code |-> 200, id |-> i] \in Response
  BY DEF Response, Codes
<1>6. resp' = IF Gone(c) THEN resp ELSE [resp EXCEPT ![c] = [code |-> 200, id |-> i]]
  BY <1>1 DEF Answer
<1>7. TypeOK'
  BY <1>1, <1>2, <1>3, <1>5, <1>6 DEF TypeOK
<1>8. StageInv'
  BY <1>2, <1>4, <1>5, <1>6 DEF TypeOK, StageInv, Asking, Requests, Gone, Ended, Stages
<1>9. \A d \in Dials \ {c} : \A j \in ConnIds : HoldsId(d, j)' <=> HoldsId(d, j)
  BY <1>2, <1>6 DEF TypeOK, HoldsId
<1>10. \A j \in ConnIds : HoldsId(c, j)' => j = i
  BY <1>2, <1>4, <1>5, <1>6 DEF TypeOK, HoldsId, Requests
<1>11. HoldsId(c, i)' \/ pc[c] = "failed"
  BY <1>2, <1>4, <1>5, <1>6 DEF TypeOK, HoldsId, Gone, Ended
<1>12. ParkInv'
  <2> HIDE DEF HoldsId
  <2>1. /\ \A j \in ConnIds : pending[j] # c
        /\ \A d \in Dials : splice[d] # c
    BY <1>4 DEF Unparked
  <2>2. /\ (perms \subseteq Holders \cap V4)'
        /\ (\A j, k \in ConnIds : (pending[j] # None /\ pending[j] = pending[k]) => j = k)'
        /\ (\A d, e \in Dials : (splice[d] # None /\ splice[d] = splice[e]) => d = e)'
    BY <1>1, <1>2, <2>1 DEF TypeOK, ParkInv
  <2>3. ASSUME NEW j \in ConnIds, NEW e \in Dials, pending'[j] = e
        PROVE  /\ e \in Holders \cap V4
               /\ HoldsId(e, j)' \/ pc'[e] = "failed"
               /\ \A d \in Dials : splice'[d] # e
    <3>1. CASE j = i
      BY <1>1, <1>2, <1>4, <1>11, <2>1, <2>3, <3>1 DEF TypeOK
    <3>2. CASE j # i
      <4>1. pending[j] = e /\ e # c
        BY <1>1, <2>1, <2>3, <3>2 DEF TypeOK
      <4> QED
        BY <1>2, <1>9, <4>1 DEF TypeOK, ParkInv
    <3> QED
      BY <3>1, <3>2
  <2> QED
    BY <2>2, <2>3 DEF ParkInv
<1>13. DialInv'
  <2> SUFFICES ASSUME NEW d \in Dials PROVE DialOK(d)'
    BY DEF DialInv
  <2>1. ASSUME NEW j \in ConnIds, HoldsId(d, j)', d \notin shared'
        PROVE  /\ pending'[j] = d
               /\ \A e \in Dials : HoldsId(e, j)' => e = d
    <3>1. CASE d = c
      BY <1>1, <1>3, <1>9, <1>10, <2>1, <3>1 DEF TypeOK
    <3>2. CASE d # c
      <4>1. HoldsId(d, j) /\ j # i /\ d \notin shared
        BY <1>3, <1>9, <2>1, <3>2
      <4> QED
        BY <1>1, <1>9, <1>10, <4>1 DEF TypeOK, DialInv, DialOK
    <3> QED
      BY <3>1, <3>2
  <2>2. CASE d = c
    BY <1>2, <1>3, <1>4, <2>1, <2>2 DEF TypeOK, DialOK, Requests
  <2>3. CASE d # c
    BY <1>1, <1>2, <1>3, <1>6, <2>1, <2>3 DEF TypeOK, DialInv, DialOK, Unparked
  <2> QED
    BY <2>2, <2>3
<1> QED
  BY <1>7, <1>8, <1>12, <1>13

LEMMA ConnectFailsInv ==
  ASSUME IInv, NEW c \in Dials, ConnectFails(c)
  PROVE  IInv'
<1> USE TurnAssumption, NoneAssumption DEF IInv
<1>1. /\ sess[c] = "dialling" /\ sess' = [sess EXCEPT ![c] = "serving"]
      /\ Answer(c, 447, None) /\ UNCHANGED <<alloc, perms, pending, splice, stale, shared>>
  BY DEF ConnectFails
<1>2. [code |-> 447, id |-> None] \in Response
  BY DEF Response, Codes
<1>3. TypeOK'
  BY <1>1, <1>2 DEF TypeOK, Answer
<1>4. StageInv'
  BY <1>1, <1>2 DEF TypeOK, StageInv, Answer, Asking, Requests, Gone, Ended, Stages
<1>5. ParkInv'
  <2>1. Unparked(c)
    BY <1>1 DEF DialInv, DialOK
  <2>2. \A d \in Dials \ {c} : /\ pc'[d] = pc[d] /\ req'[d] = req[d]
                              /\ resp'[d] = resp[d] /\ connId'[d] = connId[d]
    BY <1>1 DEF TypeOK, Answer
  <2> QED
    BY <1>1, <2>1, <2>2, ParkKept DEF Unparked, ParkInv
<1>6. DialInv'
  <2> SUFFICES ASSUME NEW d \in Dials PROVE DialOK(d)'
    BY DEF DialInv
  <2>1. CASE d = c
    BY <1>1, <1>2, <2>1 DEF TypeOK, StageInv, DialInv, DialOK, HoldsId, Unparked, Answer, Gone, Ended, Requests
  <2>2. CASE d # c
    BY <1>1, <1>2, <2>2 DEF TypeOK, StageInv, DialInv, DialOK, HoldsId, Unparked, Answer, Gone, Ended, Requests
  <2> QED
    BY <2>1, <2>2
<1> QED
  BY <1>3, <1>4, <1>5, <1>6

(* A bind takes what is parked under its id: nothing, if another dial with  *)
(* the id was first.                                                        *)
LEMMA ConnectionBindInv ==
  ASSUME IInv, NEW c \in Dials, ConnectionBind(c)
  PROVE  IInv'
<1> USE TurnAssumption, NoneAssumption DEF IInv
<1> DEFINE i == connId[c]
<1>1. req[c] = "bind" /\ i \in ConnIds /\ HoldsId(c, i)
  BY DEF ConnectionBind, StageInv, HoldsId
<1>2. pc[c] \in {"bind", "failed"} /\ resp[c] = None /\ sess[c] # "dialling"
  BY <1>1 DEF TypeOK, StageInv, Stages, Asking, Requests, Ended
<1>3. PICK code \in {200, 437} : Answer(c, code, None)
  BY DEF ConnectionBind
<1>4. [code |-> code, id |-> None] \in Response
  BY DEF Response, Codes
<1>5. /\ UNCHANGED <<pc, connId, sess, alloc, perms, stale, shared>>
      /\ req' = [req EXCEPT ![c] = None]
      /\ resp' = IF Gone(c) THEN resp ELSE [resp EXCEPT ![c] = [code |-> code, id |-> None]]
  BY <1>3 DEF ConnectionBind, Answer
<1>6. /\ pending' = [pending EXCEPT ![i] = None]
      /\ splice' = IF pending[i] = None THEN splice ELSE [splice EXCEPT ![c] = pending[i]]
  BY <1>1 DEF ConnectionBind, TypeOK
<1>7. TypeOK'
  BY <1>1, <1>4, <1>5, <1>6 DEF TypeOK
<1>8. StageInv'
  BY <1>1, <1>2, <1>4, <1>5 DEF TypeOK, StageInv, Asking, Requests, Gone, Ended, Stages
<1>9. \A d \in Dials \ {c} : \A j \in ConnIds : HoldsId(d, j)' <=> HoldsId(d, j)
  BY <1>5 DEF TypeOK, HoldsId
<1>10. \A j \in ConnIds : ~HoldsId(c, j)'
  BY <1>2, <1>4, <1>5 DEF TypeOK, HoldsId, Requests
<1>11. \A j \in ConnIds : HoldsId(c, j) => j = i
  BY <1>2 DEF HoldsId
<1>12. ParkInv'
  <2> HIDE DEF HoldsId
  <2>1. /\ (perms \subseteq Holders \cap V4)'
        /\ (\A j, k \in ConnIds : (pending[j] # None /\ pending[j] = pending[k]) => j = k)'
    BY <1>1, <1>5, <1>6 DEF TypeOK, ParkInv
  <2>2. (\A d, e \in Dials : (splice[d] # None /\ splice[d] = splice[e]) => d = e)'
    BY <1>1, <1>6 DEF TypeOK, ParkInv
  <2>3. ASSUME NEW j \in ConnIds, NEW e \in Dials, pending'[j] = e
        PROVE  /\ e \in Holders \cap V4
               /\ HoldsId(e, j)' \/ pc'[e] = "failed"
               /\ \A d \in Dials : splice'[d] # e
    <3>1. j # i /\ pending[j] = e
      BY <1>1, <1>6, <2>3 DEF TypeOK
    <3>2. HoldsId(e, j)' \/ pc'[e] = "failed"
      BY <1>5, <1>9, <1>11, <3>1 DEF ParkInv
    <3> QED
      BY <1>1, <1>6, <3>1, <3>2 DEF TypeOK, ParkInv
  <2> QED
    BY <2>1, <2>2, <2>3 DEF ParkInv
<1>13. DialInv'
  <2> SUFFICES ASSUME NEW d \in Dials PROVE DialOK(d)'
    BY DEF DialInv
  <2>1. ASSUME NEW j \in ConnIds, HoldsId(d, j)', d \notin shared'
        PROVE  /\ pending'[j] = d
               /\ \A e \in Dials : HoldsId(e, j)' => e = d
    <3>1. d # c /\ HoldsId(d, j) /\ d \notin shared
      BY <1>5, <1>9, <1>10, <2>1
    <3>2. j # i
      BY <1>1, <3>1 DEF DialInv, DialOK
    <3> QED
      BY <1>1, <1>6, <1>9, <1>10, <3>1, <3>2 DEF TypeOK, DialInv, DialOK
  <2>2. ASSUME \/ pc[d] \in {"listening", "probe", "allocate", "permit"}
               \/ sess[d] = "dialling"
               \/ req'[d] \in {"probe", "allocate", "permit", "connect"}
        PROVE  Unparked(d)'
    <3>1. d # c
      BY <1>2, <1>5, <2>2 DEF TypeOK, Requests
    <3>2. Unparked(d)
      BY <1>5, <2>2, <3>1 DEF TypeOK, DialInv, DialOK
    <3> QED
      BY <1>1, <1>6, <3>2 DEF TypeOK, Unparked
  <2>3. CASE d = c
    <3>1. c \notin shared => pending[i] = c
      BY <1>1 DEF DialInv, DialOK
    <3>2. c \notin shared => splice'[c] = c
      BY <1>6, <3>1 DEF TypeOK
    <3> QED
      BY <1>2, <1>5, <2>1, <2>2, <2>3, <3>2 DEF TypeOK, DialOK
  <2>4. CASE d # c
    BY <1>5, <1>6, <2>1, <2>2, <2>4 DEF TypeOK, DialInv, DialOK
  <2> QED
    BY <2>3, <2>4
<1> QED
  BY <1>7, <1>8, <1>12, <1>13

LEMMA EndingsInv ==
  ASSUME IInv, NEW c \in Dials, SessionEnds(c) \/ PeerCloses(c) \/ SpliceEnds(c)
  PROVE  IInv'
<1> USE TurnAssumption, NoneAssumption DEF IInv
<1>1. CASE SessionEnds(c)
  <2>1. TypeOK' /\ StageInv' /\ ParkInv'
    BY <1>1 DEF SessionEnds, TypeOK, StageInv, ParkInv, HoldsId
  <2>2. DialInv'
    BY <1>1 DEF SessionEnds, TypeOK, DialInv, DialOK, HoldsId, Unparked
  <2> QED
    BY <2>1, <2>2
<1>2. CASE PeerCloses(c)
  BY <1>2 DEF PeerCloses, TypeOK, StageInv, ParkInv, HoldsId, DialInv, DialOK, HoldsId, Unparked
<1>3. CASE SpliceEnds(c)
  <2>1. TypeOK' /\ StageInv' /\ ParkInv'
    BY <1>3 DEF SpliceEnds, TypeOK, StageInv, ParkInv, HoldsId
  <2>2. DialInv'
    BY <1>3 DEF SpliceEnds, TypeOK, DialInv, DialOK, HoldsId, Unparked, Gone, Ended
  <2> QED
    BY <2>1, <2>2
<1> QED
  BY <1>1, <1>2, <1>3

-----------------------------------------------------------------------------
LEMMA StepInv ==
  IInv /\ [Next]_vars => IInv'
<1> SUFFICES ASSUME IInv, [Next]_vars PROVE IInv'
  OBVIOUS
<1>1. CASE UNCHANGED vars
  BY <1>1 DEF vars, IInv, TypeOK, StageInv, ParkInv, HoldsId, DialInv, DialOK, HoldsId, Unparked
<1>2. ASSUME NEW c \in Dials,
             \/ Accept(c) \/ CloseTunnel(c)
             \/ Proceed(c) \/ Rejected(c) \/ TimeOut(c) \/ Handshake(c)
             \/ Allocate(c) \/ Permission(c) \/ Connect(c)
             \/ Connected(c) \/ ConnectFails(c) \/ SessionEnds(c)
             \/ ConnectionBind(c) \/ SpliceEnds(c) \/ PeerCloses(c)
      PROVE  IInv'
  BY <1>2, AcceptInv, ProceedInv, ClientEndInv, AllocateInv, PermissionInv, ConnectInv,
     ConnectedInv, ConnectFailsInv, ConnectionBindInv, EndingsInv
<1> QED
  BY <1>1, <1>2 DEF Next

LEMMA Invariant ==
  Spec => []IInv
BY InitInv, StepInv, PTL DEF Spec

(* The tables of bridges and relay keep their shape. *)
THEOREM TurnTypeCorrect ==
  Spec => []TypeOK
BY Invariant, PTL DEF IInv

(* However many dials run and time out at one relay, and whatever ids the   *)
(* clock gives them, a dial that held its id alone finds its own peer       *)
(* connection parked until it binds, and its tunnel is spliced with its own *)
(* target (turn_server.rs connect and connection_bind).                     *)
THEOREM TunnelsKeptApart ==
  Spec => []TunnelReachesTarget
<1>1. IInv => TunnelReachesTarget
  BY DEF IInv, StageInv, DialInv, DialOK, HoldsId, TunnelReachesTarget
<1> QED
  BY <1>1, Invariant, PTL

(* Whatever ids the clock gives, the relay keeps one connection per dial    *)
(* in one place, for a dial that proved the secret and was granted an IPv4  *)
(* peer, and a dial that succeeded leaves none parked.                      *)
THEOREM ConnectionsAccounted ==
  Spec => []PeerConnectionsAccountedFor
<1>1. IInv => PeerConnectionsAccountedFor
  <2> SUFFICES ASSUME IInv PROVE PeerConnectionsAccountedFor
    OBVIOUS
  <2> USE TurnAssumption DEF IInv
  <2>1. ASSUME NEW i \in ConnIds, pending[i] # None
        PROVE  /\ pending[i] \in Holders \cap V4
               /\ pc[pending[i]] \in {"connect", "bind", "failed"}
    <3>1. pending[i] \in Dials
      BY <2>1 DEF TypeOK
    <3>2. pending[i] \in Holders \cap V4 /\ (HoldsId(pending[i], i) \/ pc[pending[i]] = "failed")
      BY <3>1 DEF ParkInv
    <3>3. HoldsId(pending[i], i) => pc[pending[i]] \in {"connect", "bind", "failed"}
      BY <3>1, NoneAssumption DEF TypeOK, StageInv, HoldsId, Stages, Asking, Requests, Ended
    <3> QED
      BY <3>2, <3>3
  <2>2. ASSUME NEW c \in Dials
        PROVE  Cardinality({i \in ConnIds : pending[i] = c})
                  + Cardinality({d \in Dials : splice[d] = c}) <= 1
    <3> DEFINE parked == {i \in ConnIds : pending[i] = c}
               spliced == {d \in Dials : splice[d] = c}
    <3>1. CASE parked = {}
      <4>1. spliced = {} \/ \E d \in Dials : spliced = {d}
        BY DEF ParkInv
      <4>2. Cardinality(spliced) \in {0, 1}
        BY <4>1, FS_EmptySet, FS_Singleton
      <4>3. Cardinality(parked) = 0
        BY <3>1, FS_EmptySet
      <4> QED
        BY <4>2, <4>3
    <3>2. CASE parked # {}
      <4>1. PICK i \in ConnIds : parked = {i} /\ pending[i] = c
        BY <3>2 DEF ParkInv
      <4>2. spliced = {}
        BY <4>1 DEF ParkInv, DialInv, DialOK
      <4>3. Cardinality(parked) = 1 /\ Cardinality(spliced) = 0
        BY <4>1, <4>2, FS_EmptySet, FS_Singleton
      <4> QED
        BY <4>3
    <3> QED
      BY <3>1, <3>2
  <2> QED
    BY <2>1, <2>2 DEF PeerConnectionsAccountedFor
<1> QED
  BY <1>1, Invariant, PTL
=============================================================================
