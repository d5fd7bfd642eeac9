--------------------------- MODULE NodeLifecycle ---------------------------
(***************************************************************************)
(* The life of a node: the core actor of rust/core/src/handle.rs, the HTTP *)
(* servers it starts and stops (rust/core/src/server.rs), their accept     *)
(* loops and handlers, the multicast discovery actors that live inside the *)
(* servers (discovery.rs) and the announce tickers.  Front ends call       *)
(* start, shutdown, change_port and change_path from several threads.      *)
(*                                                                         *)
(* The core actor takes one message at a time and keeps the others waiting *)
(* while it awaits: it awaits the old server's graceful shutdown and the   *)
(* new server's bind.  Every await of every task is a step of its own.     *)
(*                                                                         *)
(* Of the configuration and of the device, the port is kept: it is what a  *)
(* server binds and what the node announces.  The relay loops a start also *)
(* spawns only read the configuration and never end; RelayBridge is about  *)
(* them.  The device table that start and shutdown clear is not part of    *)
(* this module.                                                            *)
(***************************************************************************)
EXTENDS Integers, Sequences

CONSTANTS
    Callers,    \* front-end threads
    Peers,      \* connections of peers, which send their request
    Locals,     \* connections of maintain_bridge_listener to its own server,
                \* silent until a sender is spliced to them
    MaxPort,    \* 65535
    BasePorts,  \* the ports a user configures
    MaxRetry,   \* MAX_PORT_RETRY
    MaxCalls    \* bound on the calls of a behaviour

ASSUME PortAssumption ==
    MaxPort \in Nat \ {0} /\ MaxRetry \in Nat /\ BasePorts \subseteq 1 .. MaxPort

ASSUME CallsAssumption == MaxCalls \in Nat

VARIABLES
    inbox,    \* the core actor's channel
    actor,    \* what the core actor is doing
    config,   \* context.config.port
    device,   \* the port in the device actor's current device
    server,   \* the generation whose HttpServerHandle the actor holds, or 0
    gen,      \* how many servers have been started
    running,  \* the value of the server_state channel
    http,     \* generation -> run_http_actor
    disc,     \* generation -> its discovery actor
    ticker,   \* generation -> its announce ticker
    backlog,  \* accepted by the kernel, not yet by the accept loop
    conn,     \* connection -> its progress
    call,     \* caller -> its call
    calls,    \* how many calls were made
    crossed   \* history: a configuration change overlapped another call

actorVars == <<inbox, actor, config, device, server, gen, running>>
serverVars == <<http, disc, backlog, conn>>
callVars == <<call, calls, crossed>>
nodeVars == <<actorVars, serverVars, ticker, callVars>>

Gens == 1 .. MaxCalls
Ports == 1 .. MaxPort
Conns == Peers \cup Locals

(* An answer goes back on the oneshot of the one who asked: callers,       *)
(* tickers and connections are told apart by their names.                  *)
ASSUME NamesAssumption == Callers \cap (Gens \cup Conns) = {}

(* A message names who waits for the answer. *)
Message ==
    [kind : {"Start", "Shutdown", "ChangeConfig"}, from : Callers, port : Ports]
    \cup [kind : {"Listen"}, from : Gens, port : Ports]
    \cup [kind : {"GetConfig"}, from : Callers \cup Gens \cup Conns, port : Ports]

(* stopOld, stopServer: awaiting HttpServerHandle::shutdown; spawn: about  *)
(* to spawn the background tasks; advertise: has read the current device;  *)
(* bind: in wait_bound; publish: has answered a shutdown and not yet told  *)
(* the watchers.                                                           *)
Actor == [at : {"idle", "stopOld", "spawn", "advertise", "bind", "stopServer", "publish"},
          for : Callers, read : {0} \cup Ports]

(* bound: the listener exists and the result was sent; closing: the        *)
(* listener is gone and discovery is being shut down.                      *)
Http == [at : {"none", "binding", "bound", "serving", "draining", "closing", "stopped"},
         port : Ports,                            \* asked for, then bound
         result : {"pending", "bound", "noPort"}, \* the oneshot `bound`
         signal : BOOLEAN]                        \* ServerMessage::Shutdown was sent

(* unseen: the watch receiver has a change it has not looked at. *)
Ticker == [at : {"none", "spawned", "asking", "running", "announcing", "gone"},
           unseen : BOOLEAN]

(* silent, spoke: in the backlog or under the accept loop's peek, without  *)
(* or with what the loop waits for (a first byte, and the rest of a TLS    *)
(* handshake if that byte begins one); open: a hyper task has it; asking:  *)
(* its handler awaits get_config; working: the handler goes on.            *)
Conn == [at : {"none", "silent", "spoke", "open", "asking", "working", "closed"},
         srv : {0} \cup Gens]

(* reading: awaiting get_config; read: has the configuration to change;    *)
(* waiting: awaiting the actor's answer.  new: the port to set, or 0 to    *)
(* keep the one read; port: what will be written, once known.              *)
Call == [at : {"idle", "reading", "read", "waiting"}, changes : BOOLEAN,
         port : {0} \cup Ports, new : {0} \cup Ports]

NodeTypeOK ==
    /\ inbox \in Seq(Message)
    /\ actor \in Actor
    /\ config \in Ports /\ device \in Ports
    /\ server \in {0} \cup Gens /\ gen \in 0 .. MaxCalls
    /\ running \in BOOLEAN
    /\ http \in [Gens -> Http]
    /\ disc \in [Gens -> {"none", "up", "gone"}]
    /\ ticker \in [Gens -> Ticker]
    /\ backlog \in Seq(Conns)
    /\ conn \in [Conns -> Conn]
    /\ call \in [Callers -> Call]
    /\ calls \in 0 .. MaxCalls
    /\ crossed \in BOOLEAN

(* CoreActor::new makes the configuration agree with the device. *)
NodeInit ==
    /\ inbox = <<>> /\ backlog = <<>>
    /\ \E u \in Callers, p \in BasePorts :
          /\ actor = [at |-> "idle", for |-> u, read |-> 0]
          /\ config = p /\ device = p
          /\ http = [k \in Gens |->
                        [at |-> "none", port |-> p, result |-> "pending", signal |-> FALSE]]
          /\ call = [v \in Callers |-> [at |-> "idle", changes |-> FALSE, port |-> 0, new |-> 0]]
    /\ server = 0 /\ gen = 0 /\ running = FALSE
    /\ disc = [k \in Gens |-> "none"]
    /\ ticker = [k \in Gens |-> [at |-> "none", unseen |-> FALSE]]
    /\ conn = [c \in Conns |-> [at |-> "none", srv |-> 0]]
    /\ calls = 0 /\ crossed = FALSE

-----------------------------------------------------------------------------
(* Front ends *)

Post(kind, from) == Append(inbox, [kind |-> kind, from |-> from, port |-> 1])

(* Caller u makes a call that changes the configuration, or none that does. *)
Begin(u, at, changes, new) ==
    /\ call[u].at = "idle"
    /\ calls < MaxCalls
    /\ calls' = calls + 1
    /\ call' = [call EXCEPT ![u] =
                   [@ EXCEPT !.at = at, !.changes = changes, !.new = new]]
    /\ crossed' = (crossed \/ \E v \in Callers \ {u} :
                                 call[v].at # "idle" /\ (changes \/ call[v].changes))
    /\ UNCHANGED <<actor, config, device, server, gen, running, serverVars, ticker>>

(* start *)
CallStart(u) == Begin(u, "waiting", FALSE, 0) /\ inbox' = Post("Start", u)

(* shutdown *)
CallShutdown(u) == Begin(u, "waiting", FALSE, 0) /\ inbox' = Post("Shutdown", u)

(* change_port(p), or change_path when p is 0, asks for the configuration  *)
(* it will change.                                                         *)
CallChange(u, p) == Begin(u, "reading", TRUE, p) /\ inbox' = Post("GetConfig", u)

(* change_config: first the device, then the message to the actor. *)
ChangeConfig(u) ==
    /\ call[u].at = "read"
    /\ call' = [call EXCEPT ![u].at = "waiting"]
    /\ device' = call[u].port
    /\ inbox' = Append(inbox, [kind |-> "ChangeConfig", from |-> u, port |-> call[u].port])
    /\ UNCHANGED <<actor, config, server, gen, running, serverVars, ticker, calls, crossed>>

Answer(u) == call' = [call EXCEPT ![u] = [@ EXCEPT !.at = "idle", !.port = 0, !.new = 0]]

-----------------------------------------------------------------------------
(* The core actor *)

Receive(kind) ==
    /\ actor.at = "idle"
    /\ inbox # <<>>
    /\ Head(inbox).kind = kind
    /\ inbox' = Tail(inbox)

(* The change_port or change_path call u has its answer: the configuration *)
(* with one field replaced.                                                *)
Changed(c) == [c EXCEPT !.at = "read", !.port = IF c.new = 0 THEN config ELSE c.new]

HandleGetConfig ==
    /\ Receive("GetConfig")
    /\ LET who == Head(inbox).from IN
       /\ call' = [u \in Callers |-> IF u = who THEN Changed(call[u]) ELSE call[u]]
       /\ ticker' = [k \in Gens |->
                        IF k = who THEN [ticker[k] EXCEPT !.at = "running"] ELSE ticker[k]]
       /\ conn' = [c \in Conns |->
                        IF c = who /\ conn[c].at = "asking"
                        THEN [conn[c] EXCEPT !.at = "working"] ELSE conn[c]]
    /\ UNCHANGED <<actor, config, device, server, gen, running, http, disc, backlog,
                   calls, crossed>>

HandleChangeConfig ==
    /\ Receive("ChangeConfig")
    /\ config' = Head(inbox).port
    /\ Answer(Head(inbox).from)
    /\ UNCHANGED <<actor, device, server, gen, running, serverVars, ticker, calls, crossed>>

(* The clone of server_state_listener, which has seen nothing. *)
HandleListen ==
    /\ Receive("Listen")
    /\ ticker' = [ticker EXCEPT ![Head(inbox).from] = [at |-> "running", unseen |-> TRUE]]
    /\ UNCHANGED <<actor, config, device, server, gen, running, serverVars, callVars>>

(* Mutant: the message is not sent. *)
StopServerUnsignalled(stopping, without) ==
    /\ actor' = [actor EXCEPT !.at = IF server # 0 THEN stopping ELSE without,
                              !.for = Head(inbox).from]
    /\ UNCHANGED http

(* The actor sends Shutdown to the server it holds and awaits its end. *)
StopServer(stopping, without) ==
    /\ actor' = [actor EXCEPT !.at = IF server # 0 THEN stopping ELSE without,
                              !.for = Head(inbox).from]
    /\ http' = [k \in Gens |-> IF k = server THEN [http[k] EXCEPT !.signal = TRUE] ELSE http[k]]

(* Mutant: a start does not wait for the old server. *)
HandleStartAtOnce ==
    /\ Receive("Start")
    /\ StopServer("spawn", "spawn")
    /\ UNCHANGED <<config, device, server, gen, running, disc, backlog, conn, ticker, callVars>>

HandleStart ==
    /\ Receive("Start")
    /\ StopServer("stopOld", "spawn")
    /\ UNCHANGED <<config, device, server, gen, running, disc, backlog, conn, ticker, callVars>>

(* The old server has called back. *)
OldStopped ==
    /\ actor.at = "stopOld"
    /\ http[server].at = "stopped"
    /\ server' = 0
    /\ actor' = [actor EXCEPT !.at = "spawn"]
    /\ UNCHANGED <<inbox, config, device, gen, running, serverVars, ticker, callVars>>

(* The background tasks are spawned and the current device is read. *)
Spawn ==
    /\ actor.at = "spawn"
    /\ gen < MaxCalls
    /\ gen' = gen + 1
    /\ ticker' = [ticker EXCEPT ![gen + 1].at = "spawned"]
    /\ actor' = [actor EXCEPT !.at = "advertise", !.read = device]
    /\ UNCHANGED <<inbox, config, device, server, running, serverVars, callVars>>

(* The device that was read is written back with its scheme, and with the  *)
(* port it had then; HttpServerHandle::new spawns the server.              *)
Advertise ==
    /\ actor.at = "advertise"
    /\ device' = actor.read
    /\ http' = [http EXCEPT ![gen] = [@ EXCEPT !.at = "binding", !.port = config]]
    /\ actor' = [actor EXCEPT !.at = "bind", !.read = 0]
    /\ UNCHANGED <<inbox, config, server, gen, running, disc, backlog, conn, ticker, callVars>>

(* A value sent on the watch channel: every ticker that has a receiver has *)
(* a change to look at.                                                    *)
Publish(v) ==
    /\ running' = v
    /\ ticker' = [k \in Gens |-> [ticker[k] EXCEPT !.unseen = ticker[k].at \in {"running", "announcing"}]]

(* Mutant: the device keeps announcing the port that was taken. *)
BoundUnannounced ==
    /\ actor.at = "bind"
    /\ http[gen].result # "pending"
    /\ config' = IF http[gen].result = "bound" THEN http[gen].port ELSE config
    /\ Publish(http[gen].result = "bound")
    /\ server' = gen
    /\ Answer(actor.for)
    /\ actor' = [actor EXCEPT !.at = "idle"]
    /\ UNCHANGED <<inbox, device, gen, serverVars, calls, crossed>>

(* wait_bound returns: a port other than the configured one is taken over  *)
(* by the configuration and the device.                                    *)
Bound ==
    /\ actor.at = "bind"
    /\ http[gen].result # "pending"
    /\ LET ok == http[gen].result = "bound" IN
       /\ config' = IF ok THEN http[gen].port ELSE config
       /\ device' = IF ok /\ http[gen].port # config THEN http[gen].port ELSE device
       /\ Publish(ok)
    /\ server' = gen
    /\ Answer(actor.for)
    /\ actor' = [actor EXCEPT !.at = "idle"]
    /\ UNCHANGED <<inbox, gen, serverVars, calls, crossed>>

HandleShutdown ==
    /\ Receive("Shutdown")
    /\ StopServer("stopServer", "publish")
    /\ IF server = 0 THEN Answer(Head(inbox).from) ELSE UNCHANGED call
    /\ UNCHANGED <<config, device, server, gen, running, disc, backlog, conn, ticker,
                   calls, crossed>>

(* The caller is answered before the watchers are told. *)
ServerStopped ==
    /\ actor.at = "stopServer"
    /\ http[server].at = "stopped"
    /\ server' = 0
    /\ Answer(actor.for)
    /\ actor' = [actor EXCEPT !.at = "publish"]
    /\ UNCHANGED <<inbox, config, device, gen, running, serverVars, ticker, calls, crossed>>

(* Mutant: the watchers are not told. *)
StopUnpublished ==
    /\ actor.at = "publish"
    /\ actor' = [actor EXCEPT !.at = "idle"]
    /\ UNCHANGED <<inbox, config, device, server, gen, running, ticker, serverVars, callVars>>

PublishStopped ==
    /\ actor.at = "publish"
    /\ Publish(FALSE)
    /\ actor' = [actor EXCEPT !.at = "idle"]
    /\ UNCHANGED <<inbox, config, device, server, gen, serverVars, callVars>>

-----------------------------------------------------------------------------
(* The announce ticker of start k *)

(* server_state() *)
TickerAsks(k) ==
    /\ ticker[k].at = "spawned"
    /\ ticker' = [ticker EXCEPT ![k].at = "asking"]
    /\ inbox' = Post("Listen", k)
    /\ UNCHANGED <<actor, config, device, server, gen, running, serverVars, callVars>>

(* tick.tick(): announce() asks for the configuration *)
Tick(k) ==
    /\ ticker[k].at = "running"
    /\ ticker' = [ticker EXCEPT ![k].at = "announcing"]
    /\ inbox' = Post("GetConfig", k)
    /\ UNCHANGED <<actor, config, device, server, gen, running, serverVars, callVars>>

(* Mutant: a change is taken for a restart whatever its value. *)
TickerIgnoresState(k) ==
    /\ ticker[k].at = "running"
    /\ ticker[k].unseen
    /\ ticker' = [ticker EXCEPT ![k].unseen = FALSE]
    /\ UNCHANGED <<actorVars, serverVars, callVars>>

(* state.changed() *)
TickerSeesState(k) ==
    /\ ticker[k].at = "running"
    /\ ticker[k].unseen
    /\ ticker' = [ticker EXCEPT ![k] =
                     [at |-> IF running THEN "running" ELSE "gone", unseen |-> FALSE]]
    /\ UNCHANGED <<actorVars, serverVars, callVars>>

-----------------------------------------------------------------------------
(* The HTTP server of start k *)

Listening(k) == http[k].at \in {"bound", "serving"}

(* base_port.saturating_add(offset) for the offsets tried *)
Candidates(base) == {IF base + n > MaxPort THEN MaxPort ELSE base + n : n \in 0 .. MaxRetry}

(* Discovery is started, then the first candidate that is neither held by  *)
(* another program nor by a server of this node is bound.                  *)
Bind(k, others) ==
    LET own  == {http[j].port : j \in {i \in Gens : Listening(i)}}
        free == Candidates(http[k].port) \ (others \cup own)
    IN  /\ http[k].at = "binding"
        /\ disc' = [disc EXCEPT ![k] = "up"]
        /\ \/ /\ free = {}
              /\ http' = [http EXCEPT ![k] = [@ EXCEPT !.at = "closing", !.result = "noPort"]]
           \/ \E p \in free :
                 /\ \A q \in free : p <= q
                 /\ http' = [http EXCEPT ![k] =
                                [@ EXCEPT !.at = "bound", !.result = "bound", !.port = p]]
        /\ UNCHANGED <<actorVars, backlog, conn, ticker, callVars>>

(* The TLS configuration is resolved after the bind was reported. *)
Serve(k) ==
    /\ http[k].at = "bound"
    /\ http' = [http EXCEPT ![k].at = "serving"]
    /\ UNCHANGED <<actorVars, disc, backlog, conn, ticker, callVars>>

(* Mutant: connections that were not accepted yet are forgotten. *)
CloseListenerLeaking == backlog' = <<>> /\ UNCHANGED conn

(* The listener is dropped, and with it the connections no hyper task has. *)
CloseListener ==
    /\ backlog' = <<>>
    /\ conn' = [c \in Conns |-> IF conn[c].at \in {"silent", "spoke"}
                                THEN [conn[c] EXCEPT !.at = "closed"] ELSE conn[c]]

TlsFails(k) ==
    /\ http[k].at = "bound"
    /\ http' = [http EXCEPT ![k].at = "closing"]
    /\ CloseListener
    /\ UNCHANGED <<actorVars, disc, ticker, callVars>>

(* with_graceful_shutdown: the signal ends the accept loop, also in its    *)
(* peek, and the connections that were accepted are waited for.            *)
Drain(k) ==
    /\ http[k].at = "serving"
    /\ http[k].signal
    /\ http' = [http EXCEPT ![k].at = "draining"]
    /\ CloseListener
    /\ UNCHANGED <<actorVars, disc, ticker, callVars>>

Accepted(k) == {c \in Conns : conn[c].srv = k /\ conn[c].at \in {"open", "asking", "working"}}

Drained(k) ==
    /\ http[k].at = "draining"
    /\ Accepted(k) = {}
    /\ http' = [http EXCEPT ![k].at = "closing"]
    /\ UNCHANGED <<actorVars, disc, backlog, conn, ticker, callVars>>

(* DiscoverHandle::shutdown has returned; the shutdown callback is sent. *)
Stopped(k) ==
    /\ http[k].at = "closing"
    /\ disc[k] = "gone"
    /\ http' = [http EXCEPT ![k].at = "stopped"]
    /\ UNCHANGED <<actorVars, disc, backlog, conn, ticker, callVars>>

(* The discovery actor ends: by the server's Shutdown, or on its own when  *)
(* it cannot open its sockets.                                             *)
DiscoveryEnds(k) ==
    /\ disc[k] = "up"
    /\ disc' = [disc EXCEPT ![k] = "gone"]
    /\ UNCHANGED <<actorVars, http, backlog, conn, ticker, callVars>>

-----------------------------------------------------------------------------
(* Connections.  The head of the backlog is the one the accept loop peeks  *)
(* at, waiting for its first byte; those behind it wait.                   *)

Connect(c) ==
    /\ conn[c].at = "none"
    /\ \E k \in Gens : /\ Listening(k)
                       /\ conn' = [conn EXCEPT ![c] = [at |-> "silent", srv |-> k]]
    /\ backlog' = Append(backlog, c)
    /\ UNCHANGED <<actorVars, http, disc, ticker, callVars>>

Speak(c) ==
    /\ conn[c].at = "silent"
    /\ conn' = [conn EXCEPT ![c].at = "spoke"]
    /\ UNCHANGED <<actorVars, http, disc, backlog, ticker, callVars>>

(* DualProtocolListener::accept: a first byte, then plain HTTP or a TLS    *)
(* handshake; one that fails drops the connection.  An end of file         *)
(* satisfies the peek as well.                                             *)
Accept(k) ==
    /\ http[k].at = "serving"
    /\ backlog # <<>>
    /\ LET c == Head(backlog) IN
       \/ /\ conn[c].at = "spoke"
          /\ \E at \in {"open", "closed"} : conn' = [conn EXCEPT ![c].at = at]
       \/ conn[c].at = "closed" /\ UNCHANGED conn
    /\ backlog' = Tail(backlog)
    /\ UNCHANGED <<actorVars, http, disc, ticker, callVars>>

(* The other end closes the connection; it stays in the backlog if it is   *)
(* there, and hyper drops the handler of an accepted one.                  *)
HangUp(c) ==
    /\ conn[c].at \notin {"none", "closed"}
    /\ conn' = [conn EXCEPT ![c].at = "closed"]
    /\ UNCHANGED <<actorVars, http, disc, backlog, ticker, callVars>>

(* handle_upload, and handle_hole_punch through our_candidates: get_config *)
HandlerAsks(c) ==
    /\ conn[c].at = "open"
    /\ conn' = [conn EXCEPT ![c].at = "asking"]
    /\ inbox' = Post("GetConfig", c)
    /\ UNCHANGED <<actor, config, device, server, gen, running, http, disc, backlog,
                   ticker, callVars>>

(* The handlers that do not need the configuration. *)
HandlerWorks(c) ==
    /\ conn[c].at = "open"
    /\ conn' = [conn EXCEPT ![c].at = "working"]
    /\ UNCHANGED <<actorVars, http, disc, backlog, ticker, callVars>>

HandlerEnds(c) ==
    /\ conn[c].at = "working"
    /\ conn' = [conn EXCEPT ![c].at = "closed"]
    /\ UNCHANGED <<actorVars, http, disc, backlog, ticker, callVars>>

-----------------------------------------------------------------------------

ActorNext ==
    \/ HandleGetConfig \/ HandleChangeConfig \/ HandleListen
    \/ HandleStart \/ OldStopped \/ Spawn \/ Advertise \/ Bound
    \/ HandleShutdown \/ ServerStopped \/ PublishStopped

CallerNext(u) ==
    \/ CallStart(u) \/ CallShutdown(u)
    \/ \E p \in {0} \cup BasePorts : CallChange(u, p)
    \/ ChangeConfig(u)

TickerNext(k) == TickerAsks(k) \/ Tick(k) \/ TickerSeesState(k)

ServerNext(k) ==
    \/ \E others \in SUBSET Ports : Bind(k, others)
    \/ Serve(k) \/ TlsFails(k) \/ Accept(k) \/ Drain(k) \/ Drained(k) \/ Stopped(k)

ConnNext(c) ==
    \/ Connect(c) \/ Speak(c) \/ HangUp(c)
    \/ HandlerAsks(c) \/ HandlerWorks(c) \/ HandlerEnds(c)

NodeNext ==
    \/ ActorNext
    \/ \E u \in Callers : CallerNext(u)
    \/ \E k \in Gens : TickerNext(k) \/ ServerNext(k) \/ DiscoveryEnds(k)
    \/ \E c \in Conns : ConnNext(c)

(* The tasks of the node are polled: the actor, a call under way, tickers, *)
(* servers with their discovery, handlers.  A ticker's select takes a      *)
(* branch that stays ready sooner or later, so a change is seen although   *)
(* ticks go on.  A peer sends its request; the local end of a bridge need  *)
(* not.  How long a handler works (it may wait for the user) is not        *)
(* assumed.                                                                *)
NodeFairness ==
    /\ WF_nodeVars(ActorNext)
    /\ \A u \in Callers : WF_nodeVars(ChangeConfig(u))
    /\ \A k \in Gens : /\ WF_nodeVars(TickerAsks(k))
                       /\ SF_nodeVars(TickerSeesState(k))
                       /\ WF_nodeVars(ServerNext(k))
                       /\ WF_nodeVars(http[k].at = "closing" /\ DiscoveryEnds(k))
    /\ \A c \in Peers : WF_nodeVars(Speak(c))
    /\ \A c \in Conns : WF_nodeVars(HandlerAsks(c) \/ HandlerWorks(c))

NodeSpec == NodeInit /\ [][NodeNext]_nodeVars /\ NodeFairness

-----------------------------------------------------------------------------
(* Properties *)

(* HttpServerHandle::shutdown, awaited by a start: when a server of this   *)
(* node is started, every earlier one is stopped and its discovery gone,   *)
(* so a restart never finds its own port taken and no two discovery actors *)
(* answer for one node.                                                    *)
OneServer ==
    \A j, k \in Gens :
        j < k /\ http[k].at # "none" => http[j].at = "stopped" /\ disc[j] = "gone"

(* server_state ("Whether the HTTP server is currently running"): when the *)
(* actor is between messages the channel says whether there is a server,   *)
(* unless its TLS configuration failed after the bind had been reported.   *)
StateFollowsServer ==
    actor.at = "idle" =>
        IF running THEN server # 0 /\ http[server].result = "bound" /\ ~http[server].signal
                   ELSE server = 0 \/ http[server].result = "noPort"

(* change_config, and the fallback port of a start: with no call under way *)
(* the announced port is the configured one, as long as no configuration   *)
(* change overlapped another call.                                         *)
AnnouncesConfiguredPort ==
    (\A u \in Callers : call[u].at = "idle") /\ ~crossed => device = config

HandlersEnd == \A c \in Conns : []<>(conn[c].at # "working")

(* start, shutdown, change_port and change_path return, if handlers end    *)
(* and none waits for the actor for ever.                                  *)
CallsReturnUnlessHandlerAsks ==
    HandlersEnd /\ (\A c \in Conns : []<>(conn[c].at # "asking")) =>
        \A u \in Callers : call[u].at # "idle" ~> call[u].at = "idle"

SilentUnderPeek == backlog # <<>> /\ conn[Head(backlog)].at = "silent"

(* DualProtocolListener::accept: a peer that has sent its request is       *)
(* accepted or cut off, unless a connection ahead of it stays silent.      *)
SpeakerIsAccepted ==
    []<>~SilentUnderPeek => \A c \in Peers : conn[c].at = "spoke" ~> conn[c].at # "spoke"

(* The announce ticker: when the node stays stopped no ticker goes on      *)
(* announcing, as long as the actor goes on.                               *)
StoppedNodeFallsSilent ==
    []<>(actor.at = "idle") /\ <>[]~running =>
        <>[](\A k \in Gens : ticker[k].at \in {"none", "gone"})
=============================================================================
