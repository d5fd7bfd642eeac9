------------------------------ MODULE Transfer ------------------------------
(***************************************************************************)
(* One transfer end to end: a sending node's session and the send driver   *)
(* of rust/core/src/handle.rs (run_send_driver, with route_transport and   *)
(* the client's requests), over a network that may break any connection,   *)
(* to the receive server of ReceiveServer.                                 *)
(*                                                                         *)
(* The driver asks at most twice: directly, and through the relay when the *)
(* direct request died of a transport error.  The two requests, and the    *)
(* sessions they create at the receiver, are Direct and Relayed.  Before   *)
(* each of them it awaits a register request, of which only that await is  *)
(* here: what it writes are device tables.  The progress forwarders, which *)
(* touch only a session's event, are left out.  The target lock belongs to *)
(* the queue of drivers, not to one.                                       *)
(***************************************************************************)
EXTENDS ReceiveServer

CONSTANTS
    Direct, Relayed,
    Vias    \* the ways by which a route through the relay may come up

ASSUME AttemptsAssumption == Ids = {Direct, Relayed} /\ Direct # Relayed
ASSUME ViasAssumption == Vias \subseteq Route

VARIABLES
    snd,   \* the sender's session
    drv,   \* its driver
    wire   \* requests sent and neither arrived nor lost

transferVars == <<sessions, index, prep, guard, upl, disk, snd, drv, wire>>

(* routing: awaiting the configuration or in route_transport; routed: the  *)
(* relay route is up, mark_via_relay comes next; registering: the register *)
(* request is outstanding; preparing: prepare-upload is; skipping,         *)
(* uploading: in the loop over the files; sending: an upload is            *)
(* outstanding; cancelling: the request that tells the peer is.            *)
DrvPc == {"idle", "routing", "routed", "registering", "preparing", "skipping",
          "uploading", "sending", "cancelling", "done"}

(* The awaits of the driver that are in no select with the cancel token     *)
(* and have no timeout around them: the client's bounds only the dialling.  *)
Uncancellable == {"routing", "registering", "cancelling"}

(* relay: a relay is configured; force: force_relay; attempt: the request  *)
(* whose answer counts; todo: the files of the loop still to come; up: the *)
(* connection of the outstanding request has not broken.                   *)
Driver == [pc : DrvPc, relay : BOOLEAN, force : BOOLEAN, attempt : Ids,
           todo : SUBSET Files, file : Files \cup {NoFile}, up : BOOLEAN]

Request == [kind : {"prepare", "upload", "cancel"}, id : Ids, file : Files \cup {NoFile}]

PrepareRequest(r) == [kind |-> "prepare", id |-> r, file |-> NoFile]
UploadRequest(r, f) == [kind |-> "upload", id |-> r, file |-> f]
CancelRequest(r) == [kind |-> "cancel", id |-> r, file |-> NoFile]

(* The handler of the driver's current upload *)
Handler(u) == upl[u].id = drv.attempt /\ upl[u].file = drv.file

(* A handler's connection is open while the driver waits on it. *)
PrepareOpen(r) == drv.pc = "preparing" /\ drv.attempt = r /\ drv.up
UploadOpen(u) == drv.pc = "sending" /\ Handler(u) /\ drv.up

(* The connection a request was sent on is still the driver's. *)
RequestOpen(m) ==
    \/ m.kind = "prepare" /\ PrepareOpen(m.id)
    \/ m.kind = "upload" /\ drv.pc = "sending" /\ m.file = drv.file /\ drv.up
    \/ m.kind = "cancel" /\ drv.pc = "cancelling"

-----------------------------------------------------------------------------
(* The user of the sender *)

(* send_files_internal: the session is created and its driver spawned. *)
SendFiles(offered, relay, force) ==
    /\ drv.pc = "idle"
    /\ offered # {}
    /\ snd' = NewSession("Send", offered)
    /\ drv' = [drv EXCEPT !.pc = "routing", !.relay = relay, !.force = force,
                          !.attempt = IF force THEN Relayed ELSE Direct]
    /\ UNCHANGED <<serverVars, wire>>

CancelSend ==
    /\ IsActive(snd)
    /\ snd' = CancelSession(snd)
    /\ UNCHANGED <<serverVars, drv, wire>>

-----------------------------------------------------------------------------
(* The driver: routing *)

RouteDirect ==
    /\ drv.pc = "routing"
    /\ drv.attempt = Direct
    /\ drv' = [drv EXCEPT !.pc = "registering"]
    /\ UNCHANGED <<serverVars, snd, wire>>

(* route_transport with the relay: its bridge ("turn"), a punched hole     *)
(* ("stun"), or a byte pipe through it, which marks nothing ("local").     *)
RouteRelay(via) ==
    /\ drv.pc = "routing"
    /\ drv.attempt = Relayed
    /\ drv.relay
    /\ snd' = IF via = "local" THEN snd ELSE [snd EXCEPT !.route = via]
    /\ drv' = [drv EXCEPT !.pc = "routed"]
    /\ UNCHANGED <<serverVars, wire>>

(* mark_via_relay, which a forced relay leaves out when it reads "stun" in *)
(* the index and a fallback does not.                                      *)
MarkRelayed ==
    /\ drv.pc = "routed"
    /\ snd' = IF drv.force /\ snd.route = "stun" THEN snd
              ELSE [snd EXCEPT !.viaRelay = TRUE,
                               !.route = IF @ = "local" THEN "turn" ELSE @]
    /\ drv' = [drv EXCEPT !.pc = "registering"]
    /\ UNCHANGED <<serverVars, wire>>

(* register comes back, with an answer or an error, neither of which        *)
(* matters; prepare-upload goes out on a new connection.                    *)
Registered ==
    /\ drv.pc = "registering"
    /\ drv' = [drv EXCEPT !.pc = "preparing", !.up = TRUE]
    /\ wire' = wire \cup {PrepareRequest(drv.attempt)}
    /\ UNCHANGED <<serverVars, snd>>

(* bail! *)
GiveUp ==
    /\ snd' = FailSession(snd)
    /\ drv' = [drv EXCEPT !.pc = "done"]
    /\ UNCHANGED <<serverVars, wire>>

RouteFails == drv.pc = "routing" /\ GiveUp

-----------------------------------------------------------------------------
(* The driver: the answer to prepare-upload *)

PrepareGranted ==
    /\ PrepareOpen(drv.attempt)
    /\ prep[drv.attempt].pc = "accepted"
    /\ sessions[drv.attempt].granted # {}
    /\ snd' = SetState(snd, "Transfering")
    /\ drv' = [drv EXCEPT !.pc = "uploading", !.todo = sessions[drv.attempt].granted]
    /\ UNCHANGED <<serverVars, wire>>

(* 200 with no file: each file is reported skipped. *)
PrepareGrantedNothing ==
    /\ PrepareOpen(drv.attempt)
    /\ prep[drv.attempt].pc = "accepted"
    /\ sessions[drv.attempt].granted = {}
    /\ drv' = [drv EXCEPT !.pc = "skipping", !.todo = Offered(snd)]
    /\ UNCHANGED <<serverVars, snd, wire>>

PrepareRefusedUnreported ==
    /\ PrepareOpen(drv.attempt)
    /\ prep[drv.attempt].pc \in {"refused", "busy"}
    /\ drv' = [drv EXCEPT !.pc = "done"]
    /\ UNCHANGED <<serverVars, snd, wire>>

(* 403 or 409: an answer, which ends the session on either route. *)
PrepareRefused ==
    /\ PrepareOpen(drv.attempt)
    /\ prep[drv.attempt].pc \in {"refused", "busy"}
    /\ GiveUp

(* A transport error on the direct route: the relay is tried, once. *)
FallBack ==
    /\ drv.pc = "preparing" /\ ~drv.up
    /\ ~drv.force /\ drv.attempt = Direct /\ drv.relay
    /\ drv' = [drv EXCEPT !.pc = "routing", !.attempt = Relayed]
    /\ UNCHANGED <<serverVars, snd, wire>>

PrepareBroken ==
    /\ drv.pc = "preparing" /\ ~drv.up
    /\ drv.force \/ drv.attempt = Relayed \/ ~drv.relay
    /\ GiveUp

-----------------------------------------------------------------------------
(* The driver: the files *)

(* set_file_state of the sender's session, once per file not granted *)
SkipFile(f) ==
    /\ drv.pc = "skipping"
    /\ f \in drv.todo
    /\ snd' = SetFileState(snd, f, "Skip")
    /\ drv' = [drv EXCEPT !.todo = @ \ {f}, !.pc = IF drv.todo = {f} THEN "done" ELSE @]
    /\ UNCHANGED <<serverVars, wire>>

(* The next file, in the order of a HashMap.  No look at the cancel token. *)
BeginUpload(f) ==
    /\ drv.pc = "uploading"
    /\ f \in drv.todo
    /\ snd' = [SetFileState(snd, f, "Transfer") EXCEPT !.started = @ \cup {f}]
    /\ drv' = [drv EXCEPT !.pc = "sending", !.file = f, !.todo = @ \ {f}, !.up = TRUE]
    /\ wire' = wire \cup {UploadRequest(drv.attempt, f)}
    /\ UNCHANGED serverVars

UploadSentAnyAnswer(u) ==
    /\ UploadOpen(u)
    /\ upl[u].pc \in {"ok", "failed", "rejected"}
    /\ snd' = SetFileState(snd, drv.file, "Finish")
    /\ drv' = [drv EXCEPT !.pc = IF drv.todo = {} THEN "done" ELSE "uploading"]
    /\ UNCHANGED <<serverVars, wire>>

(* 200 *)
UploadSent(u) ==
    /\ UploadOpen(u)
    /\ upl[u].pc = "ok"
    /\ snd' = SetFileState(snd, drv.file, "Finish")
    /\ drv' = [drv EXCEPT !.pc = IF drv.todo = {} THEN "done" ELSE "uploading"]
    /\ UNCHANGED <<serverVars, wire>>

UploadErrUnlessRejected ==
    \/ ~drv.up
    \/ \E u \in Uploads : UploadOpen(u) /\ upl[u].pc = "failed"

(* The upload fails, by the peer's answer or by the connection. *)
UploadErr ==
    \/ ~drv.up
    \/ \E u \in Uploads : UploadOpen(u) /\ upl[u].pc \in {"failed", "rejected"}

UploadFailedRetrying ==
    /\ drv.pc = "sending"
    /\ UploadErr
    /\ drv' = [drv EXCEPT !.pc = "uploading", !.todo = @ \cup {drv.file}]
    /\ UNCHANGED <<serverVars, snd, wire>>

(* client.cancel goes out on a connection of its own. *)
TellPeer ==
    /\ drv' = [drv EXCEPT !.pc = "cancelling"]
    /\ wire' = wire \cup {CancelRequest(drv.attempt)}

UploadFailed ==
    /\ drv.pc = "sending"
    /\ UploadErr
    /\ snd' = SetFileState(snd, drv.file, "Fail")
    /\ TellPeer
    /\ UNCHANGED serverVars

ObserveCancelBeforePrepare ==
    /\ snd.cancelled
    /\ drv.pc = "registering"
    /\ drv' = [drv EXCEPT !.pc = "done"]
    /\ UNCHANGED <<serverVars, snd, wire>>

(* The cancel branch of the select around prepare-upload: the request is    *)
(* dropped, and there is no session id to cancel at the peer.               *)
ObserveCancelInPrepare ==
    /\ snd.cancelled
    /\ drv.pc = "preparing"
    /\ drv' = [drv EXCEPT !.pc = "done"]
    /\ UNCHANGED <<serverVars, snd, wire>>

(* The cancel branch of the select around an upload: the upload is dropped  *)
(* and the peer told.                                                       *)
ObserveCancelInUpload ==
    /\ snd.cancelled
    /\ drv.pc = "sending"
    /\ TellPeer
    /\ UNCHANGED <<serverVars, snd>>

(* client.cancel comes back, with an answer or an error. *)
CancelReturns ==
    /\ drv.pc = "cancelling"
    /\ drv' = [drv EXCEPT !.pc = "done"]
    /\ UNCHANGED <<serverVars, snd, wire>>

-----------------------------------------------------------------------------
(* The network *)

BreakConnection ==
    /\ drv.pc \in {"preparing", "sending"}
    /\ drv.up
    /\ drv' = [drv EXCEPT !.up = FALSE]
    /\ UNCHANGED <<serverVars, snd, wire>>

(* A request whose connection is gone may be gone with it. *)
LoseRequest(m) ==
    /\ m \in wire
    /\ ~RequestOpen(m)
    /\ wire' = wire \ {m}
    /\ UNCHANGED <<serverVars, snd, drv>>

(* A request arrives, possibly after its sender has dropped it. *)
DeliverPrepare(r) ==
    /\ PrepareRequest(r) \in wire
    /\ wire' = wire \ {PrepareRequest(r)}
    /\ PrepareUpload(r)
    /\ UNCHANGED <<snd, drv>>

DeliverUpload(u, f) ==
    /\ UploadRequest(drv.attempt, f) \in wire
    /\ wire' = wire \ {UploadRequest(drv.attempt, f)}
    /\ HandleUpload(u, drv.attempt, f)
    /\ UNCHANGED <<snd, drv>>

(* handle_cancel *)
DeliverCancel(r) ==
    /\ CancelRequest(r) \in wire
    /\ wire' = wire \ {CancelRequest(r)}
    /\ Cancel(r)
    /\ UNCHANGED <<prep, guard, upl, disk, snd, drv>>

-----------------------------------------------------------------------------
(* The receiving node, whose handlers lose their connections only when     *)
(* those are closed or broken.                                             *)

ReceiverHandler(r) ==
    /\ \/ CreateForRequest(r, Offered(snd))
       \/ RejectBusy(r)
       \/ ArmGuard(r)
       \/ Answer200Or403(r)
       \/ ReturnAnswer(r)
       \/ RunGuardTask(r)
    /\ UNCHANGED <<snd, drv, wire>>

ReceiverUpload(u) == UploadStep(u) /\ UNCHANGED <<snd, drv, wire>>

ReceiverConfig(u) == AnswerConfig(u) /\ UNCHANGED <<snd, drv, wire>>

ReceiveBody(u) == CopyBody(u) /\ UNCHANGED <<snd, drv, wire>>

ReceiverLosesConnection ==
    /\ \/ \E r \in Ids : ~PrepareOpen(r) /\ Disconnect(r)
       \/ \E u \in Uploads : ~UploadOpen(u) /\ DropUpload(u)
    /\ UNCHANGED <<snd, drv, wire>>

ReceiverFails(u) == FailUpload(u) /\ UNCHANGED <<snd, drv, wire>>

ReceiverAccepts(id, chosen) ==
    /\ chosen \subseteq Offered(sessions[id])
    /\ UserAccepts(id, chosen)
    /\ UNCHANGED <<snd, drv, wire>>

ReceiverDeclines(id) == UserDeclines(id) /\ UNCHANGED <<snd, drv, wire>>

ReceiverCancels(id) == HandleCancel(id) /\ UNCHANGED <<snd, drv, wire>>

-----------------------------------------------------------------------------
TransferInit ==
    /\ ServerInit
    /\ snd = NoSession
    /\ drv = [pc |-> "idle", relay |-> FALSE, force |-> FALSE, attempt |-> Direct,
              todo |-> {}, file |-> NoFile, up |-> FALSE]
    /\ wire = {}

(* What the driver does of itself, or when an answer or its cancel token    *)
(* wakes it.                                                                *)
DriverStep ==
    \/ MarkRelayed
    \/ PrepareGranted \/ PrepareGrantedNothing \/ PrepareRefused
    \/ FallBack \/ PrepareBroken
    \/ \E f \in Files : SkipFile(f) \/ BeginUpload(f)
    \/ \E u \in Uploads : UploadSent(u)
    \/ UploadFailed
    \/ ObserveCancelInPrepare
    \/ ObserveCancelInUpload

(* The returns from the uncancellable awaits, which nothing makes happen. *)
DriverReturns ==
    \/ RouteDirect
    \/ \E via \in Vias : RouteRelay(via)
    \/ RouteFails
    \/ Registered
    \/ CancelReturns

Delivery == \/ \E r \in Ids : DeliverPrepare(r) \/ DeliverCancel(r)
            \/ \E u \in Uploads, f \in Files : DeliverUpload(u, f)
            \/ \E m \in wire : LoseRequest(m)

TransferNext ==
    \/ \E offered \in SUBSET Files, relay, force \in BOOLEAN : SendFiles(offered, relay, force)
    \/ CancelSend
    \/ DriverStep
    \/ DriverReturns
    \/ BreakConnection
    \/ Delivery
    \/ \E r \in Ids : \/ ReceiverHandler(r)
                      \/ \E chosen \in SUBSET Files : ReceiverAccepts(r, chosen)
                      \/ ReceiverDeclines(r)
                      \/ ReceiverCancels(r)
    \/ \E u \in Uploads : \/ ReceiverConfig(u)
                          \/ ReceiverUpload(u)
                          \/ ReceiveBody(u)
                          \/ ReceiverFails(u)
    \/ ReceiverLosesConnection

(* Both runtimes poll every ready task, and TCP delivers the body of an    *)
(* upload on a connection that does not break.  Nothing makes a route, a   *)
(* register or a cancel request come back, the receiver's accept loop take *)
(* a connection, or its core actor answer a handler; no connection has to  *)
(* break and no user has to do anything.                                   *)
TransferFairness ==
    /\ WF_transferVars(DriverStep)
    /\ \A r \in Ids : WF_transferVars(ReceiverHandler(r))
    /\ \A u \in Uploads : /\ WF_transferVars(ReceiverUpload(u))
                          /\ WF_transferVars(UploadOpen(u) /\ ReceiveBody(u))

TransferSpec == TransferInit /\ [][TransferNext]_transferVars /\ TransferFairness

-----------------------------------------------------------------------------
(* Properties *)

(* The driver's state has the shape of run_send_driver's locals. *)
TransferTypeOK ==
    /\ ServerTypeOK
    /\ snd \in Session
    /\ drv \in Driver
    /\ wire \subseteq Request

(* What the sender shows to have happened at the receiver did happen, over  *)
(* lost connections, fallbacks and cancels: a file shown as sent was        *)
(* written in full by an upload of the session the driver talks to, one     *)
(* shown as skipped was not granted, and when the sender is Finished that   *)
(* session has ended.  The converse is not claimed: the receiver may have a *)
(* file whose 200 was lost, and its session may have been cancelled between *)
(* the last byte and the report of it.                                      *)
SenderClaimsHold ==
    /\ \A f \in Files :
          /\ snd.files[f] = "Finish" => \E u \in Uploads : /\ upl[u].id = drv.attempt
                                                           /\ upl[u].file = f
                                                           /\ Stored(u)
          /\ snd.files[f] = "Skip" => f \notin sessions[drv.attempt].granted
    /\ snd.state = "Finished" => ~IsActive(sessions[drv.attempt])

(* A file of one transfer is written in full at most once, though the offer *)
(* may be made twice and answered twice: fallback happens only before the   *)
(* first byte, and a failed upload is not repeated.                         *)
StoredAtMostOnce ==
    \A u, v \in Uploads :
        (/\ upl[u].outcome = "Finish" /\ upl[v].outcome = "Finish"
         /\ upl[u].file = upl[v].file) => u = v

(* A driver that returns leaves no session running with nobody to end it,   *)
(* on any of its return paths; the exception is PartlyGranted.              *)
PartlyGranted == LET granted == sessions[drv.attempt].granted IN
                 granted # {} /\ granted # Offered(snd)

DriverSettlesSession == drv.pc = "done" => ~IsActive(snd) \/ PartlyGranted

(* "All state changes go through the session manager" (handle.rs:1279):     *)
(* seen alone, the sender's session goes only through what SessionManager   *)
(* allows a driver and a user to do, so its theorems hold at this end too.  *)
Sender == INSTANCE SessionManager WITH
    Ids <- {Direct},
    MaxRecv <- 0,
    sessions <- [id \in {Direct} |-> snd],
    index <- [id \in {Direct} |-> Summary(snd)]

SenderUsesSessionManager == Sender!Spec

(* Cancelling a send ends its driver, wherever the cancel finds it, unless  *)
(* it is for ever in an await that looks at no cancel token: route_transport*)
(* (handle.rs:1324, 1364, 1409), register (1377, 1413), cancel (1494, 1513).*)
CancelEndsDriver ==
    []<>(drv.pc \notin Uncancellable) => (snd.cancelled ~> drv.pc = "done")

(* An upload request on an open connection that no handler has got *)
UploadUnread == \E m \in wire : m.kind = "upload" /\ RequestOpen(m)

(* Once the receiver has granted files, the driver ends, provided that the  *)
(* receiver takes its connections, the core actor there answers upload      *)
(* handlers, and the cancel request comes back: each upload is answered     *)
(* whatever the receiver does with it, or its connection breaks, and no     *)
(* other two of the parties wait on one another.                            *)
GrantedTransferEnds ==
    (/\ []<>(drv.pc # "cancelling")
     /\ []<>(~UploadUnread)
     /\ \A u \in Uploads : []<>(upl[u].pc # "asking")) =>
    (drv.pc = "uploading" ~> drv.pc = "done")
=============================================================================
