# A TLA+ model of localsend_rs

localsend_rs is a peer-to-peer file transfer program: a Rust core (`rust/core`)
with a command line front end, a Flutter app over an FFI bridge, and a relay for
peers that are not on one network. This directory models the core as TLA+
modules, checks them with TLC on small instances, and proves what matters most
for all instances with TLAPS.

Run a check with `tlc -config X.cfg M`, a proof with `tlapm M.tla`. The runs, the
source lines each definition models, the hazards and the findings are listed in
`PROJECT.json`.

## Inventory

| Component | State | Operations | Hard part |
|---|---|---|---|
| **Session actor** (`session.rs`) | sessions by id (direction, state, file states, tokens, open decision, last event, cancel token, route), index watch channel | one message each: create (two directions), accept, decline, cancel, route marks, start/finish file, progress, file state, state, fail | messages of handlers, drivers, forwarders and users in any order; late ones after the end |
| **Receive handlers** (`server.rs`) | one task per request; the guard task of a prepare-upload; files on disk | prepare-upload, upload, cancel | a task may be dropped at any await; check-then-create of paths; copy racing cancel |
| **Send driver, client** (`handle.rs`, `client.rs`) | one task per send session, its route and outstanding request | route, prepare, fall back, upload, skip, cancel | lost answers, fallback after a lost answer, cancel at every await, partial acceptance |
| **Relay bridge** (`relay/turn_server.rs`, `handle.rs`) | registry of parked listeners, their channels, LISTEN and CONNECT tasks | register, look up, hand over, splice, evict | several threads on one registry; dead connections nobody notices; restarted receivers |
| **Core actor** (`handle.rs`, `config.rs`) | configuration, server handle, server state and error channels | start, shutdown, hot restart, change config | background loops that outlive a restart; awaiting a server that awaits the actor; the accept loop's peek |
| **Send queue** (`handle.rs`) | a semaphore per target | acquire, release | drivers that hold the lock while they wait |
| **Device table** (`device.rs`), **multicast discovery** (`discovery.rs`), **relay discovery** (`relay/discovery_server.rs`, `handle.rs`) | devices by fingerprint with their source; the relay's registry with a TTL | add, get, clear, announce, reply, register, list | check-then-add against a concurrent announce; eviction by source address; expiry |
| **TURN** (`relay/turn_server.rs`, `relay/turn.rs`) | allocations, permissions, pending connections | allocate, refresh, permit, connect, bind | connections never bound; expiry against use |
| **TLS trust** (`relay/identity.rs`, `relay/tls.rs`) | certificate and key files, pinned peers in memory and in a file | load or create, verify, pin | a crash between or within writes; first use racing first use |
| **Bridges and hole punch** (`relay/bridge.rs`, `relay/quic.rs`) | one local listener per tunnel, one QUIC endpoint | accept, dial, splice, punch | a tunnel given up half way |
| **Front ends** (`cli`, `ffi`, `lib`) | cards, focus, hidden sessions; loops over the index; ids already accepted | reducers, forwarders, keys, automatic acceptance | a watch channel keeps only the last value; two sources in any order |
| **Relay panel** (`relay-panel`) | samples of the relay's counters | collect, show | none |

How they interact. Everything a node does to a session is a message to its
session actor; the actor answers through oneshot channels (the decision of a
pending offer), watch channels (index, events) and a cancel token. The send
driver of one node talks HTTP to the receive handlers of another, directly or
through a bridge at the relay. The core actor starts and stops the server, and
with it discovery, the announce ticker and the relay loops.

What makes each correct: the session actor must keep consent (no file moves
unasked), answer each offer once and truthfully, end sessions exactly once and
tell everyone; the handlers must leave no offer or upload behind when a peer
goes; what the sender shows to have happened at the receiver must have happened
there, and a driver that was cancelled or granted files must end; the relay must
not leave a sender it said yes to hanging, nor lose a receiver that wants to be
found.

## Modules

| Module | Models | Uses |
|---|---|---|
| `Session` | one session's record and what the actor's helpers do to it; no variables | |
| `SessionManager` | the session actor, one action per message | `Session` |
| `SessionLifecycle` | what the actor promises: stages none, waiting, running, over; one answer per offer; a capacity | |
| `ReceiveServer` | prepare-upload, guard, upload and cancel handlers with their files | extends `SessionManager` |
| `Transfer` | a sender's session and driver, a lossy network, and a `ReceiveServer` | extends `ReceiveServer`, instantiates `SessionManager` for the sender |
| `RelayBridge` | the relay's bridge tasks, the receiver's loops and the senders' dials | |
| `NodeLifecycle` | the core actor, its servers with their accept loop and handlers, discovery actors and announce tickers, and the front ends' calls | |
| `Discovery` | the device tables of several nodes, multicast, the register and offer routes, the relay's rendezvous registry and the loops that merge it | |
| `TurnRelay` | local bridges, the client's dial and the sessions, allocations, parked connections and splices of the TURN relay | |
| `Relay` | the relay's port with either of its two services behind it | extends `RelayBridge` and `TurnRelay` |
| `Trust` | a node's identity files, pin store and handshakes over crashes and restarts | |
| `FrontEnd` | terminal UI, headless commands and the app's automatic acceptance over the session actor's watch channels | extends `SessionManager` |
| `SessionManagerProofs`, `ReceiveServerProofs`, `TransferProofs`, `FrontEndProofs`, `RelayProofs` (bridge and TURN), `NodeLifecycleProofs`, `DiscoveryProofs`, `TrustProofs` | theorems | |
| `MC*` | instances for TLC | |

A definition named like `CancelSessionKeepingToken` next to `CancelSession` is a
mutant: the same operation with a plausible bug, used to show that a property
can fail. No specification uses one.

### Session and SessionManager

The actor handles one message at a time, so a message is an atomic action and the
concurrency of the callers is the order of the actions. `sessions` is
`Actor.sessions`; an unused id maps to `NoSession`. `files` keeps "Absent" for a
file that was not offered. `decision` follows the oneshot sender (`"Open"` while
it is held). `granted` records the files whose tokens the accept decision
carried, and `started` the files an upload was begun for; both are history the
properties need. `event` is the last value of the watch channel. Tokens are
fresh per session and file, so a token is the pair. Bytes, names, sizes, failure
reasons and the peer's description are dropped. `Idle` and `Busy` are states the
code never assigns. Replies are modelled where they differ in effect: a message
the actor refuses changes nothing and is no step.

### ReceiveServer

A prepare-upload request and the session it creates share an id. `prep` is the
handler's position (posted, created, waiting, answering, then its answer) and
whether hyper has dropped it; `guard` is the mpsc channel to the guard task with
the one message the task takes. `upl` is an upload handler with one position per
await: it asks the core actor for the store path, posts `start_file`, chooses a
path, creates the file, copies, posts `finish_file` and returns. It may be dropped
at each of them; what it posted is still handled, so that a file can be Finish
although nobody was answered 200. `outcome` is what it reports, and `disk` says
which upload's bytes a path holds. All uploads carry one
file name, the case `dedup_path` exists for. The progress forwarders change only
a session's event and are checked in `SessionManager`.

### Transfer

The driver (`drv`) has one position per await of `run_send_driver`. Its two
possible requests are `Direct` and `Relayed`; `wire` holds requests that were
sent and have not arrived, also when their sender has given up on them;
`up` says whether the outstanding connection still works. `route_transport`
is reduced to which route came up: bridge, punched hole, byte pipe, or none.
The `register` request before each offer and the `cancel` request at the end are
awaits that no cancel token ends and no timeout bounds (`Uncancellable`, with
`route_transport`); the steps that leave them are `DriverReturns`. A handler of the receiver is dropped only when its connection is closed or broken.

### RelayBridge

The traffic of one fingerprint. Each LISTEN and each CONNECT is a task; each
critical section of `BRIDGE_LISTENERS` and each await is a step. A channel closes
when the registry and every CONNECT task have dropped their copies of its sender.
A listener takes one stream: a sender that found it too late waits in the channel,
or to get into it, and is `lost` when the task returns.
`Loops` is how many `maintain_bridge_listener` loops the receiver runs: one after
its first start, one more after every restart.

### NodeLifecycle

`inbox` is the core actor's channel and `actor` the await it is at; it takes the
next message only when idle. Every start makes a generation: an HTTP server, its
discovery actor and an announce ticker, each with its own position in its code. A
server listens from its bind to its drain, drains until no handler is left, then
shuts discovery down and calls back. The head of `backlog` is the connection the
accept loop peeks at. `Locals` are the connections `maintain_bridge_listener`
opens to its own server, which may stay silent; peers send their request. A
handler of an upload or a hole punch asks the core actor for the configuration,
the others do not. Of configuration and device the port is kept. A change of the
configuration is three steps, as in the code: read it, write the device, send it
back; `crossed` is history that says such a change overlapped another call.
A ticker's `unseen` is the version of its watch receiver: the receiver it is
given has seen nothing.

### Discovery

A device is its fingerprint, here the node. An address is a node's private
address, the public address its requests reach the relay from, or the source of a
tunnelled connection (the node's own bridge, the relay). `table` is `device_map`,
`shown` the list last sent on the watch channel. The multicast actor asks the
table and adds in two messages (`HearKnown`, `HearUnknown`, then `AddHeard`), and
so does the merge of the relay's list (`MergeCheck`, `MergeAdd`); a step of any
other task may come between. A datagram that is lost is a step that changes
nothing. The TTL of 75 s against heartbeats every 30 s is kept as a count: an
entry may go after two missed heartbeats. Each start adds a `relay_discovery`
loop, as in the code, and the old ones go on. Nodes behind one NAT share a public
address, and `PublicOf` of a node whose relay is on its LAN is the node's own
address. A loop skips the entries it takes for its own, by fingerprint or by alias
(`IsSelf`). `Stopping` are the nodes that are shut down at times. Alias, model, port
and protocol are functions of the node.

### TurnRelay

A dial is one local bridge with one target, from the accepted connection to the
end of the splice. `pc` is the request its client awaits; `req` and `resp` are what
is on the wire. A client may time out at any request and drop its connections,
while the relay still reads what was written or sits in `TcpStream::connect`.
`PENDING` is `pending`, by connection id. The code takes the clock's low 32 bits for
an id and inserts unchecked, so the model mints any id, and a connection parked
under it before is dropped. `shared` is history: the dials that held an id while
another dial did. Attributes, integrity and nonces are reduced to whether the dial holds
the relay's secret and whether its target is IPv4.

### Relay

`handle_client` looks at the first bytes of a connection and hands it to the bridge
or serves it as TURN. The two share the port and no state, so a behaviour of `Relay`
has one kind of traffic (`service`), with the other service at rest.

### Trust

A certificate stands for its digest, which is also the fingerprint a device
announces. Every file write may leave the old content, the new content or a
truncated file; a crash may come at any await and within a write. `used` is
history: the identities the node ever ran with. A pin id is the fingerprint of an
announced peer, or one without an announcement (manual targets, the shared ids of
hole punching).

### FrontEnd

One front end over a `SessionManager` that peers, handlers and drivers change at
will. `news` and `fresh` say that a watch channel holds a value its reader has not
taken; a subscription is a clone of the session's own receiver, which has not seen
what was sent before. The terminal UI has one forwarder task and a bounded queue per session and
takes index and events in any order; a card is its state. The headless loops have
a position per await: look at the index (`borrow`, which does not mark it seen),
act on what was found, wait for a change. The app's `AutoAccept` runs on every
index it is handed. Texts, byte counters, file rows, drawing and the prompt are
left out.

## Runs

| Run | Instance | Shows |
|---|---|---|
| `session` | 2 ids, 2 files (together at most 2 offered), limit 1; symmetric | consent, truthful verdicts, exact completion, exact cancel token, limit, current index, frozen ended sessions, refinement of `SessionLifecycle` |
| `receive_server` | 2 requests for 1 slot, 2 uploads, 1 file, 2 paths; symmetric | every handler step is one `SessionManager` allows; outcomes and answers match what was written; the guard cancels abandoned requests and no others; no offer with an armed guard is left unwatched |
| `transfer` | 2 attempts, 2 files, 2 uploads; symmetric files | what the sender shows did happen at the receiver, no file is stored twice, a returning driver has settled its session (but for partial grants) |
| `transfer_progress` | as above with 1 file, 1 upload, 1 slot and 1 kind of relay route | a cancelled driver ends unless it is for ever in an await without a cancel branch; a driver with a grant ends if the receiver takes its connections and its core actor answers; an abandoned offer ends; aborts stop uploads |
| `relay` | bridge: 1 loop, 3 connection slots, 2 senders, 2 connections dying; TURN: 3 dials (one without the secret, one with TLS), 2 connection ids that may repeat | bridge: a spliced listener is no longer found; a sender told OK is cut off only where another got its listener, and never hangs; the receiver stays reachable. TURN: tunnels of dials that shared no id end at their own targets; peer connections are accounted for; session and splice of an ended dial go (the parked connection of a dial that timed out stays in `PENDING`) |
| `node` | 2 callers, 3 calls, 1 peer, 2 ports and 1 retry; symmetric callers | a start never overlaps an earlier server or its discovery, the state channel is truthful, announced and configured port agree unless a configuration change overlapped another call |
| `node_progress` | 1 caller, 2 calls, 1 peer, 1 local connection | calls return unless a handler asks the awaiting actor, peers are accepted unless a silent connection is ahead, a stopped node stops announcing |
| `discovery` | a plain and an https node on one LAN, both with a relay; 2 starts of one node, 1 fault | the published list has the devices and addresses of the table; neighbours end up in each other's tables; a plain node whose server gets round to its requests gets LAN addresses back |
| `rendezvous` | 3 relay users on networks of their own, 2 of them behind one NAT, 1 that sends, 1 that restarts; 2 faults | each user ends up with a user of every other public address in its table, through eviction, expiry and lookups |
| `front_end` | each of the five front ends, 2 sessions (one with a file), queue of 1 | no false end is shown or returned; the focus stays with its session; front ends catch up and no wake-up is lost |
| `trust` | 2 own certificates, 2 peers, 2 handshakes, 1 shared pin id; symmetric | announced peers are recognised; one identity for life |

One run checks what a comment of the code says and finds it violated:

| Run | Instance | Violated |
|---|---|---|
| `discovery_lan_overwrite` | as `discovery` without faults and tunnels | a LAN address that an announce brought is overwritten by the relay's |

Bounds. Two ids are enough for every property, which are about one session or
about two that compete for a slot; with a limit of 1, the second waits or is
refused. Two files give partial acceptance; two uploads give both a repeated
token and two files. `MaxOffered` in `MCSessionManager` keeps the product of the
two sessions small: one session with two files beside an empty one, or one file
each. `MaxCopies` stands for 999. A transfer has a slot for each of its
two attempts in `transfer`, and in `transfer_progress` one, so that the second may be
refused as busy; `Vias`, how a relay route came up, is only shown, and progress is
checked with one. In `RelayBridge`, connection slots are reused
and the loops run for ever; senders and unexpected deaths are bounded, because
`ReceiverStaysReachable` speaks of what happens once they stop. In `NodeLifecycle`
`MaxCalls` bounds the calls and so the generations: three give start, restart and
a change between them. `MaxPort` stands for 65535 and sits next to the configured
ports, so that the retry saturates; other programs may hold any ports at each bind.
In `Discovery`, `MaxFaults` bounds lost heartbeats, lookups and restarts together;
announces are lost without bound. One node is plain and one https, because a known
device is answered by its protocol. An entry expires after two missed heartbeats, so
`rendezvous` has two faults, and three users are the least with a shared address and
another. In `TurnRelay` a dial without the secret never gets an id, so two ids serve
three dials; that ids repeat with two is what the clock does in 4.3 s. In `FrontEnd` a queue of one makes the
forwarders wait and skip values, which 256 places do only under load; one session
offers a file and one none. In `Trust` a second own certificate is enough to break
`OneIdentity`, and two handshakes to race on a pin.

Deadlock is not checked where a system may come to rest: all requests served, the
transfer over, the relay idle with its senders gone, the calls made, the nodes shut
down, the dials over, the front end left. The session actor never is at rest in its
instance, since a cancel is always possible, nor is a node that may crash and start.

Fairness. `ServerFairness`, `TransferFairness`, `BridgeFairness` and `NodeFairness` are weak
fairness of the tasks the tokio runtime polls: actors, handlers, guard tasks,
drivers, relay tasks, and a receiver's loop that redials. `Transfer` adds that a
connection that does not break delivers the body of an upload, which is TCP's
promise. Users, disconnections and failures are never assumed to happen. Nor is an
answer that the code awaits without a timeout: the core actor's to `get_config`
(`AnswerConfig`), and the returns of `route_transport`, `register` and `cancel`
(`DriverReturns`) have no fairness. `CancelEndsDriver` and `GrantedTransferEnds` name
those they need as hypotheses. A receiver need not read a request either, since its
accept loop may be peeking at a silent connection.
`NodeFairness` is strong in one place: a ticker's `select!` picks among its ready
branches at random, so a change that stays unseen is taken although ticks go on.
In `Discovery` timers fire and actors handle their messages; hearing is strongly
fair, because an announce is repeated every five seconds and not every one is lost.
`HandleRegister` is not fair, for the same accept loop; `PlainPeersReachable` has it as
a hypothesis that requests do not wait for ever.
`RelayFairness` is `BridgeFairness`, with a receiver only where the bridge is served, and
that of `TurnRelay`, where timers fire, relay tasks run, the kernel ends a connect, and a peer
closes a connection whose other end was shut down. `FrontFairness` is that a front
end with something to read reads it, and that calls it made are handled; nothing is
assumed of users, peers and drivers. `Trust` has no liveness property.
How long a handler works is not assumed; the properties about calls have it as a
hypothesis. `FoundSenderIsServed` has its own hypothesis, that splices end
("The relay tears down the splice after each request", `handle.rs:1035`).

## Proofs

`SessionManagerProofs` proves, for any finite set of ids, any files and any limit,
each safety property of the `session` run. None is inductive alone. The invariant
`IInv` is types, index and capacity together with `SessionInv` of every session:
which decision goes with which state and direction, that `granted` is
empty until acceptance and what moved is within it, that a tripped token and an
aborted state are the same, that an active session is not complete (`BaseInv` is all but the
last, which `check_finish` restores). The proof has one step per message; facts about the helpers (`SetState`, `CheckFinish`,
`FailSession`, ...) are lemmas on one record. The capacity needs cardinality facts:
updating one session adds at most that id to the active ones.

The same module proves that `SessionManager` implements `SessionLifecycle` under the
mapping of its states to stages and of the decision to an answer: each message is one
abstract step or none.

`ReceiveServerProofs` proves the safety properties of the `receive_server` run for any
number of requests, files, uploads and copies of a name. A handler changes a session
only by a message of the actor, so `ServerSpec` implements `SessionManager`
(`HandlersUseTheActor`) and `IInv` holds with it. The handlers' part is not inductive
without what relates each of them to its session: `RequestInv` (a request has a session
exactly from its creation on, and answers only what was decided), `GuardInv` (the first
message a guard task gets decides, and it is `true` only if the handler was dropped
while it waited), `UploadInv` (an upload past `start_file` works for a granted file
that the actor holds as started), `DiskInv` (a path holds what an upload that chose it
wrote) and `FinishInv` (a finished file has an upload that reported it, dropped or
not). All of them speak of a session that others change, so
the proof goes through one relation, `Keeps`: what no message takes from a session once
it has it (direction, decision and grants, offered files, started files, a finished
file unless the session is aborted). Each message is shown once to keep it, and each
handler uses it for the sessions it does not write. That `dedup_path` returns a path is
the one fact about a search, shown with a least free number.

`GuardMindsItsRequest` has two parts. `GuardSparesAnsweredRequests` is in `GuardInv`;
`PendingOffersWatched`, the safety half of `AbandonedOfferEnds`, adds `WatchInv` on top of
`ServerInv`: the guard task has nothing to read while its handler lives and has
not answered; the handler that is dropped leaves it a cancel as its first message; and
once that is read the session is over. The last part survives the messages of others
because no message changes an ended session (`OutcomesFrozen`, the step behind
`EndIsFinal`). The property names the gap that remains: an offer whose handler was
dropped before it resumed from `create_recv_session` is watched by nobody. The
invariant is carried over to `Transfer`, where the sender's driver closes the connection
at any of its awaits (`AbandonedTransfersWatched`).

`TransferProofs` proves all safety properties of the `transfer` run for any files and
uploads. Each step of a transfer is a step of `ReceiveServer` or leaves the receiver
alone (`TransferStepsAreServerSteps`), so `ServerInv` carries over and the receiving
node still implements `SessionManager`. The rest of `TransferInv` ties the driver to the
two sessions and the wire: `OfferInv` (both attempts offer the sender's files),
`FilesInv` (a file shown as sent has an upload that was answered 200 and so wrote it, a
skipped one was not granted), `LoopInv` (what a loop of the driver still has to do, and that the rest is
done unless the session ended) and `OnceInv` (a file's request is on the wire, or with
one upload, or gone). `StoredAtMostOnce` is in `OnceInv`; `DriverSettlesSession` is what
`LoopInv` says when a loop runs out. The last clause of `SenderClaimsHold` is derived: all
files of a Finished sender are finished or skipped, hence so are the receiver's, and an
active session is never complete. That the sender's own session implements
`SessionManager` (`SenderRefinement`) is proved by instance: each step of the driver or
the user is one message to a manager with that one session, or none.

`FrontEndProofs` proves types, `ReportedEndsHappened` and `FocusFollowsUser` for any
sessions, files, front ends and queue capacity. An end reaches a card by two ways that
overtake each other, and a card may show an older state after a newer one; what saves
`ReportedEndsHappened` is that an end, wherever it is on its way, is the end of its
session. `FrontInv` says so of every place: the last event of a session (`EventsInv`),
the queue of forwarded events (`QueueInv`), the end `receive --once` found in the index
(`FoundInv`); `CardsInv` says that a card is that of a session the user has not cleared.
Each message is shown to keep this through one relation, `Follows`: the event tells the
end the session has, an end is final, a session never goes away. `FocusFollowsUser`
needs that `apply_index` only appends: the index never loses a session, so its
`retain` drops nothing (`IndexAppends`). `Retained` states `retain` as a relation
between the old and the new list; that there is such a list, that it holds what it
should without repetition, and that it is the old one if nothing is dropped are lemmas,
shown with a least counterexample. Front ends only post messages the actor allows
(`FrontEndsUseTheActor`), so consent and the other theorems about `SessionManager` hold
under each of them.

`RelayProofs` holds the proofs of the relay's two services, which share no state. For
`RelayBridge` it proves the types (a channel never holds more than one
stream) and `RegisteredBeforeSplice`, for any number of loops, senders and failures;
it is inductive with the types. `LostOnlyToAnother` needs `StreamInv`, which says
where a stream can be: in one channel or with one task, queued until it is spliced;
that a CONNECT task with a copy of the channel keeps its listener from leaving, so
that a stream is put in the channel of a listener that has another or will take this
one; and, for every stream that was cut off, who got the listener (`LostInv`).

`NodeLifecycleProofs` proves types, `OneServer` and `StateFollowsServer` of a node,
for any callers, connections, ports and number of calls. `OneServer` rests on
`ServersInv`: which servers can be left at each await of the actor. At most the
last generation is, none once a start is past its first await, and a stopped
server has no discovery. `StateFollowsServer` adds `ResultsInv`: a server has a
result once it tried to bind, and only the actor signals it. `AnnouncesConfiguredPort`
needs `AnnounceInv`: a caller has one message in the channel or is the one the actor
works for, a change that overlapped nothing is the only call under way, and device and
configuration differ only between the two writes of such a change.

`DiscoveryProofs` proves types and `ListIsCurrent` for any nodes, aliases and networks:
`ListIsCurrent` is inductive with the types, and every step that writes a table does
so by one of two lemmas, on `AddDevice` and `ClearTable`.

For `TurnRelay`, `RelayProofs` proves `TunnelReachesTarget` and
`PeerConnectionsAccountedFor` for any dials and ids, with ids that repeat at will. `StageInv` relates a dial's stage to what is
on its connections, `ParkInv` says that a connection is parked once, for a dial
between its Connect and its bind, and `DialInv` that the dial with the id finds it
unless it is in `shared`. For a dial in `shared` the first is false: of two dials with
one id, the first binds to the connection of the second.

`TrustProofs` proves `AnnouncedPeersRecognised` and `OneIdentity`. The first rests on
`PinsInv`, that an announced peer is pinned to its own certificate or not at all, in
memory and on disk; the second on `FilesInv`, that a whole key exists only next to
its own certificate and no identity is used before its key is written.

The type invariants of `SessionManager`, `ReceiveServer`, `Transfer`, `RelayBridge`,
`NodeLifecycle`, `Discovery`, `TurnRelay`, `Trust` and `FrontEnd`, and the limit on receive sessions, are theorems and not
checked again by the runs.

The assumptions are those the modules name: `NoFile` is no file, ids are finite,
bounds are naturals, `NoOne`, `None`, `NoDevice`, `NoId`, `Nobody` and `Mixed` are
nothing else, configured ports are ports, callers are not generations or connections,
a transfer's two attempts are distinct, `Vias` are routes, and a session of `FrontEnd` has known files, a
queue some room and the `send` command a session of its own. Every safety property a
passing run checks is a theorem. Only model-checked is everything under fairness, which
is out of the prover's reach: the liveness properties of
`transfer_progress`, `relay`, `node_progress`, `discovery`, `rendezvous` and `front_end`.

## Findings

One disagreement between the code and its comments is shown by the violated run
above. The others were met while modelling; the models contain the behaviour, and
each is quoted with its line in `PROJECT.json`:

- sessions: a late progress report replaces the failure reason; an accepted offer of
  no files never finishes;
- receiving: two uploads of one name may choose one path, and the second truncates
  what the first stored;
- sending: after a partial acceptance the sender's session stays Transfering; a
  punched hole is shown as relayed after a fallback; a relay-discovered peer is still
  dialled directly first; the candidate exchange of a hole punch is always direct;
- bridge: two loops of a restarted receiver evict one another for ever (set `Loops`
  to 2 to see `ReceiverStaysReachable` fail); the relay does not notice a parked
  connection that closes; a sender told OK may be cut off when the
  listener it found took another;
- node: actor, server and upload handler may wait for each other at a stop; the accept
  loop waits for the node's own silent bridge connection; a start over a running server
  leaves the old ticker announcing; a server whose TLS configuration fails is still
  reported as running;
- discovery: the relay's entry overwrites a LAN address (`discovery_lan_overwrite`); an
  https peer the relay listed first keeps its public address; a change of
  the discovery source alone is not published; devices behind one NAT,
  and lookups, evict registrations; devices with one alias do not see each
  other through the relay; a sender through a bridge is recorded at the
  loopback address;
- TURN: connection ids repeat, and mix up the tunnels of dials that share one; an expired allocation does not close its data
  connections;
- trust: hole punches share one pin id; a torn key file leaves the node without TLS;
- app: turning quick save on does not accept offers that already wait.

## Plan

1. Done: session actor with its abstract lifecycle and proofs, receive handlers,
   end-to-end transfer, relay bridge, node lifecycle with proofs.
2. Done: discovery, TURN relay, TLS trust with proofs; front ends.
3. `SendQueue`: per-target lock and several drivers over the abstract transfer.
4. The candidate exchange and the race of a QUIC hole punch.
5. Done: proofs for `ReceiveServer` and `Transfer`, both ends of a transfer as
   implementations of `SessionManager`, the announced port.
6. Done: proofs for the front ends and for the offers a dropped request leaves.

## Not modelled

Generated code (`frb_generated.rs` and its Dart counterpart, a seventh of the Rust
lines), the Flutter widgets and the panel's pages are layout. The STUN codec, HMAC
credentials, certificates, TLS and QUIC are byte formats and libraries; the modules
take from them whether a request is authentic, which certificate was shown and
whether a route came up. The candidate exchange of a hole punch changes no state that
outlives it. The send queue is one semaphore per target: what could go wrong with it,
a driver that never returns, is checked for the driver itself, up to its awaits that
nothing ends. The panel samples
counters. Argument parsing, the configuration file and `diagnose` of the command line
are input and output. Byte counts, names and sizes are data no property depends on.
