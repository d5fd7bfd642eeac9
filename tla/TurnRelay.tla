----------------------------- MODULE TurnRelay -----------------------------
(***************************************************************************)
(* A tunnel through the TURN relay: the local bridge that takes one        *)
(* connection of the HTTP client (relay/bridge.rs), the dial it makes      *)
(* (relay/turn.rs: challenge, allocate, permission and connect on a        *)
(* control connection, bind on a second one), and the relay's sessions     *)
(* with the global table of peer connections that wait for their bind      *)
(* (relay/turn_server.rs).                                                 *)
(*                                                                         *)
(* A dial is one bridge with one target.  Every request of the client has  *)
(* a timeout after which it drops both its connections; what it had        *)
(* written may still be read by the relay.  The stale-nonce retry of the   *)
(* client is left out: this relay never answers 438.                       *)
(***************************************************************************)
EXTENDS Integers, FiniteSets

CONSTANTS
    Dials,        \* bridges, each with its own target
    Holders,      \* the dials whose secret is the relay's
    V4,           \* the dials whose target is an IPv4 address
    Tls,          \* the dials of spawn_tls_bridge: a handshake comes last
    ConnIds,      \* connection ids
    None

ASSUME TurnAssumption ==
    /\ Holders \subseteq Dials /\ V4 \subseteq Dials
    /\ Tls \subseteq Dials
    /\ None \notin Dials \cup ConnIds

VARIABLES
    pc,           \* where the bridge task of a dial is
    req,          \* the request the relay has yet to read on a connection
    resp,         \* the answer the client has yet to read
    sess,         \* the relay's task for the control connection
    alloc,        \* the dials whose session holds an allocation
    perms,        \* the dials whose allocation permits their target
    connId,       \* the connection id the client was given
    pending,      \* PENDING: parked peer connections, by id, with their dial
    splice,       \* the peer connection a data connection is spliced with
    stale,        \* the dials whose peer connection the peer has closed
    shared        \* history: the dials that held an id another dial held

vars == <<pc, req, resp, sess, alloc, perms, connId, pending, splice, stale,
          shared>>
serverVars == <<sess, alloc, perms, pending, splice, stale, shared>>

Requests == {"probe", "allocate", "permit", "connect", "bind"}
Asking == Requests                       \* stages that await an answer
Ended == {"closed", "failed"}
Stages == {"listening", "handshake", "open"} \cup Asking \cup Ended
Codes == {200, 400, 401, 403, 437, 447}
Response == [code : Codes, id : ConnIds \cup {None}]

ASSUME NoneAssumption == None \notin Requests \cup Response

Gone(c) == pc[c] \in Ended

Init ==
    /\ pc = [c \in Dials |-> "listening"]
    /\ req = [c \in Dials |-> None]
    /\ resp = [c \in Dials |-> None]
    /\ sess = [c \in Dials |-> "none"]
    /\ alloc = {} /\ perms = {}
    /\ connId = [c \in Dials |-> None]
    /\ pending = [i \in ConnIds |-> None]
    /\ splice = [c \in Dials |-> None]
    /\ stale = {} /\ shared = {}

-----------------------------------------------------------------------------
(* The bridge and its dial.                                                *)

Ask(c, what) ==
    /\ pc' = [pc EXCEPT ![c] = what]
    /\ req' = [req EXCEPT ![c] = what]

\* The one local connection is accepted and the relay is dialled.
Accept(c) ==
    /\ pc[c] = "listening"
    /\ Ask(c, "probe")
    /\ sess' = [sess EXCEPT ![c] = "serving"]
    /\ UNCHANGED <<resp, alloc, perms, connId, pending, splice, stale, shared>>

\* What dial_via_relay sends after a success: allocate, permission, connect,
\* and the bind on a second connection.
NextStage(stage) ==
    CASE stage = "allocate" -> "permit"
      [] stage = "permit" -> "connect"
      [] stage = "connect" -> "bind"

\* A transact that succeeded.  The challenge succeeds with 401.
Proceed(c) ==
    /\ pc[c] \in Asking /\ resp[c] # None
    /\ \/ pc[c] = "probe" /\ resp[c].code = 401 /\ Ask(c, "allocate")
       \/ /\ pc[c] \in {"allocate", "permit", "connect"}
          /\ resp[c].code = 200
          /\ Ask(c, NextStage(pc[c]))
       \/ /\ pc[c] = "bind" /\ resp[c].code = 200
          /\ pc' = [pc EXCEPT ![c] = IF c \in Tls THEN "handshake" ELSE "open"]
          /\ UNCHANGED req
    /\ connId' = IF pc[c] = "connect"
                 THEN [connId EXCEPT ![c] = resp[c].id] ELSE connId
    /\ resp' = [resp EXCEPT ![c] = None]
    /\ UNCHANGED serverVars

\* The dial ends: both connections are dropped and the local one is closed.
Drop(c, stage) ==
    /\ pc' = [pc EXCEPT ![c] = stage]
    /\ resp' = [resp EXCEPT ![c] = None]
    /\ UNCHANGED connId

Rejected(c) ==
    /\ pc[c] \in Asking /\ resp[c] # None
    /\ resp[c].code # IF pc[c] = "probe" THEN 401 ELSE 200
    /\ Drop(c, "failed")
    /\ UNCHANGED <<req, serverVars>>

\* IO_TIMEOUT, or an error on the connection.  The request may have reached
\* the relay, which then answers nobody.
TimeOut(c) ==
    /\ pc[c] \in Asking /\ resp[c] = None
    /\ Drop(c, "failed")
    /\ req' \in {req, [req EXCEPT ![c] = None]}
    /\ UNCHANGED serverVars

\* The TLS handshake over the tunnel: the peer's certificate is taken or not.
Handshake(c) ==
    /\ pc[c] = "handshake"
    /\ \E stage \in {"open", "failed"} : Drop(c, stage)
    /\ UNCHANGED <<req, serverVars>>

\* copy_bidirectional returns: the HTTP client, or the tunnel, closed.
CloseTunnel(c) ==
    /\ pc[c] = "open"
    /\ Drop(c, "closed")
    /\ UNCHANGED <<req, serverVars>>

-----------------------------------------------------------------------------
(* The relay.                                                              *)

Answer(c, code, id) ==
    /\ resp' = IF Gone(c) THEN resp
               ELSE [resp EXCEPT ![c] = [code |-> code, id |-> id]]
    /\ req' = [req EXCEPT ![c] = None]
    /\ UNCHANGED <<pc, connId>>

VerifiedUnsigned(c) == req[c] # "probe"

\* verify_integrity: the request is signed, and with the relay's secret.
Verified(c) == req[c] # "probe" /\ c \in Holders

\* Allocate without integrity is the challenge, with it an allocation.
Allocate(c) ==
    /\ sess[c] = "serving" /\ req[c] \in {"probe", "allocate"}
    /\ alloc' = IF Verified(c) THEN alloc \cup {c} ELSE alloc
    /\ Answer(c, IF Verified(c) THEN 200 ELSE 401, None)
    /\ UNCHANGED <<sess, perms, pending, splice, stale, shared>>

\* CreatePermission adds the peer to every allocation of the session; an
\* IPv6 peer address does not decode.
Permission(c) ==
    /\ sess[c] = "serving" /\ req[c] = "permit"
    /\ LET code == IF ~Verified(c) THEN 401
                   ELSE IF c \notin V4 THEN 400 ELSE 200
       IN /\ perms' = IF code = 200 THEN perms \cup ({c} \cap alloc) ELSE perms
          /\ Answer(c, code, None)
    /\ UNCHANGED <<sess, alloc, pending, splice, stale, shared>>

\* Connect: without a permission no dial.  With one the session is in
\* TcpStream::connect, which only the kernel bounds.
Connect(c) ==
    /\ sess[c] = "serving" /\ req[c] = "connect"
    /\ IF c \in perms
       THEN /\ sess' = [sess EXCEPT ![c] = "dialling"]
            /\ UNCHANGED <<pc, req, resp, connId>>
       ELSE /\ Answer(c, IF c \in V4 THEN 403 ELSE 400, None)
            /\ UNCHANGED sess
    /\ UNCHANGED <<alloc, perms, pending, splice, stale, shared>>

\* The dial was told the id, and its bind has yet to be read.
HoldsId(c, i) ==
    \/ resp[c] # None /\ resp[c].id = i
    \/ req[c] = "bind" /\ connId[c] = i

\* The peer connection is parked under the low 32 bits of the clock, an id
\* that may be held or occupied: the insert is unchecked and drops the
\* connection parked there before.  The session does not know whether its
\* client is still there.
Connected(c) ==
    /\ sess[c] = "dialling"
    /\ \E i \in ConnIds :
         LET holders == {d \in Dials : HoldsId(d, i)} IN
         /\ pending' = [pending EXCEPT ![i] = c]
         /\ Answer(c, 200, i)
         /\ shared' = IF holders = {} THEN shared
                      ELSE shared \cup holders \cup {c}
    /\ sess' = [sess EXCEPT ![c] = "serving"]
    /\ UNCHANGED <<alloc, perms, splice, stale>>

ConnectFails(c) ==
    /\ sess[c] = "dialling"
    /\ Answer(c, 447, None)
    /\ sess' = [sess EXCEPT ![c] = "serving"]
    /\ UNCHANGED <<alloc, perms, pending, splice, stale, shared>>

ConnectionBindAny(c) ==
    /\ req[c] = "bind"
    /\ \E i \in ConnIds :
         /\ pending[i] # None
         /\ pending' = [pending EXCEPT ![i] = None]
         /\ splice' = [splice EXCEPT ![c] = pending[i]]
         /\ Answer(c, 200, None)
    /\ UNCHANGED <<sess, alloc, perms, stale, shared>>

\* ConnectionBind, on a connection and a task of its own: the parked peer
\* connection is taken and the two are spliced.
ConnectionBind(c) ==
    /\ req[c] = "bind"
    /\ LET peer == pending[connId[c]] IN
       IF peer = None
       THEN Answer(c, 437, None) /\ UNCHANGED <<pending, splice>>
       ELSE /\ pending' = [pending EXCEPT ![connId[c]] = None]
            /\ splice' = [splice EXCEPT ![c] = peer]
            /\ Answer(c, 200, None)
    /\ UNCHANGED <<sess, alloc, perms, stale, shared>>

SessionEndsIdle(c) ==
    /\ sess[c] = "serving" /\ req[c] \in {None, "bind"}
    /\ pc[c] \in {"handshake", "open"}
    /\ sess' = [sess EXCEPT ![c] = "none"]
    /\ alloc' = alloc \ {c} /\ perms' = perms \ {c}
    /\ UNCHANGED <<pc, req, resp, connId, pending, splice, stale, shared>>

\* The control task reads the end of the connection, or nothing for the
\* allocation lifetime, and ends.  Its allocations go with it; the spliced
\* connections are another task's.
SessionEnds(c) ==
    /\ sess[c] = "serving" /\ req[c] \in {None, "bind"}
    /\ Gone(c) \/ pc[c] \in {"handshake", "open"}
    /\ sess' = [sess EXCEPT ![c] = "none"]
    /\ alloc' = alloc \ {c} /\ perms' = perms \ {c}
    /\ UNCHANGED <<pc, req, resp, connId, pending, splice, stale, shared>>

\* The peer closes its end, parked or spliced.
PeerCloses(c) ==
    /\ c \notin stale
    /\ \/ \E i \in ConnIds : pending[i] = c
       \/ \E d \in Dials : splice[d] = c
    /\ stale' = stale \cup {c}
    /\ UNCHANGED <<pc, req, resp, sess, alloc, perms, connId, pending, splice,
                   shared>>

\* Both directions have ended: the peer closed, and the client is gone.
SpliceEnds(c) ==
    /\ splice[c] # None /\ Gone(c) /\ splice[c] \in stale
    /\ splice' = [splice EXCEPT ![c] = None]
    /\ UNCHANGED <<pc, req, resp, sess, alloc, perms, connId, pending, stale,
                   shared>>

-----------------------------------------------------------------------------
ClientStep(c) ==
    \/ Proceed(c) \/ Rejected(c) \/ TimeOut(c) \/ Handshake(c)
ServerStep(c) ==
    \/ Allocate(c) \/ Permission(c) \/ Connect(c)
    \/ Connected(c) \/ ConnectFails(c) \/ SessionEnds(c)

Next ==
    \E c \in Dials :
        \/ Accept(c) \/ CloseTunnel(c)
        \/ Proceed(c) \/ Rejected(c) \/ TimeOut(c) \/ Handshake(c)
        \/ Allocate(c) \/ Permission(c) \/ Connect(c)
        \/ Connected(c) \/ ConnectFails(c) \/ SessionEnds(c)
        \/ ConnectionBind(c) \/ SpliceEnds(c) \/ PeerCloses(c)

\* Timers fire, tasks run, the kernel ends a connect, and a peer closes a
\* connection whose other end was shut down.
Fairness ==
    \A c \in Dials :
        /\ WF_vars(ClientStep(c)) /\ WF_vars(ServerStep(c))
        /\ WF_vars(ConnectionBind(c))
        /\ WF_vars(PeerCloses(c)) /\ WF_vars(SpliceEnds(c))

Spec == Init /\ [][Next]_vars /\ Fairness

-----------------------------------------------------------------------------
TypeOK ==
    /\ pc \in [Dials -> Stages]
    /\ req \in [Dials -> Requests \cup {None}]
    /\ resp \in [Dials -> Response \cup {None}]
    /\ sess \in [Dials -> {"none", "serving", "dialling"}]
    /\ alloc \subseteq Dials /\ perms \subseteq Dials
    /\ connId \in [Dials -> ConnIds \cup {None}]
    /\ pending \in [ConnIds -> Dials \cup {None}]
    /\ splice \in [Dials -> Dials \cup {None}]
    /\ stale \subseteq Dials /\ shared \subseteq Dials

\* Ids repeat (turn_server.rs connect), and a parked connection may be lost
\* to another under its id.  That hurts only dials which held one id at one
\* time: any other dial finds the connection to its own target under the id
\* it was given until it binds, and its tunnel is spliced with that
\* connection, whatever timed-out dials left parked under the same id.
TunnelReachesTarget ==
    \A c \in Dials \ shared :
        /\ pc[c] \in {"handshake", "open"} => splice[c] = c
        /\ req[c] = "bind" => pending[connId[c]] = c

\* Every connection the relay opened to a peer belongs to one dial, which
\* proved the secret and was granted the peer.  It is parked only while that
\* dial is between Connect and ConnectionBind or failed there: a dial that
\* succeeded leaves none behind, even one that bound to another's.
PeerConnectionsAccountedFor ==
    /\ \A i \in ConnIds :
         pending[i] # None =>
            /\ pending[i] \in Holders \cap V4
            /\ pc[pending[i]] \in {"connect", "bind", "failed"}
    /\ \A c \in Dials :
         Cardinality({i \in ConnIds : pending[i] = c})
            + Cardinality({d \in Dials : splice[d] = c}) <= 1

\* A dial that ended holds neither a session nor a splice at the relay for
\* ever, also when the client timed out while the relay was still
\* connecting.  (A connection parked for it stays in PENDING.)
GoneClientsForgotten ==
    \A c \in Dials :
        Gone(c) ~> (sess[c] = "none" /\ splice[c] = None)
=============================================================================
