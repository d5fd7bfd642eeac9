--------------------------- MODULE TransferProofs ---------------------------
(***************************************************************************)
(* Proofs about Transfer, for any number of files and uploads.  The        *)
(* receiving node takes only steps of ReceiveServer, so ServerInv carries  *)
(* over; what is added relates the driver to the sender's session, to the  *)
(* requests on the wire and to the receiving session of its attempt.       *)
(***************************************************************************)
EXTENDS Transfer, ReceiveServerProofs

(* The receiving session of the attempt whose answer counts *)
Peer == sessions[drv.attempt]

(* Before the peer has accepted, nothing of a file has happened. *)
Early == {"idle", "routing", "routed", "registering", "preparing"}
Accepting == {"skipping", "uploading", "sending", "cancelling"}

(* The sender's session is one the session actor could hold. *)
SenderInv ==
    /\ SessionInv(snd)
    /\ snd.direction = "Send"
    /\ snd.state = "Absent" <=> drv.pc = "idle"
    /\ drv.pc # "idle" => Offered(snd) # {}

(* Both attempts offer the files of the sender's session. *)
OfferInv ==
    /\ \A r \in Ids : sessions[r].state # "Absent" => Offered(sessions[r]) = Offered(snd)
    /\ \A r \in Ids : prep[r].pc # "idle" \/ PrepareRequest(r) \in wire => drv.pc # "idle"

(* What the files of the sender's session say about the peer. *)
FilesInv ==
    /\ drv.pc \in Early =>
          /\ snd.started = {} /\ snd.state # "Transfering"
          /\ \A f \in Files : snd.files[f] \in {"Absent", "Pending"}
    /\ \A f \in Files : snd.files[f] = "Finish" =>
          \E u \in Uploads : upl[u].id = drv.attempt /\ upl[u].file = f /\ upl[u].pc = "ok"
    /\ \A f \in Files : snd.files[f] = "Skip" =>
          f \notin Peer.granted /\ prep[drv.attempt].pc = "accepted"

(* The loops: what is still to do, and what has been done for the rest.    *)
LoopInv ==
    /\ drv.pc \in Accepting => prep[drv.attempt].pc = "accepted"
    /\ drv.pc = "skipping" =>
          /\ Peer.granted = {} /\ drv.todo \subseteq Offered(snd) /\ drv.todo # {}
          /\ IsActive(snd) => \A f \in Offered(snd) \ drv.todo : snd.files[f] = "Skip"
    /\ drv.pc \in {"uploading", "sending"} =>
          /\ Peer.granted # {} /\ drv.todo \subseteq Peer.granted
          /\ drv.todo \cap snd.started = {}
    /\ drv.pc = "uploading" =>
          /\ drv.todo # {}
          /\ IsActive(snd) => \A f \in Peer.granted \ drv.todo : snd.files[f] = "Finish"
    /\ drv.pc = "sending" =>
          /\ drv.file \in Peer.granted /\ drv.file \notin drv.todo
          /\ IsActive(snd) =>
                \A f \in Peer.granted \ (drv.todo \cup {drv.file}) : snd.files[f] = "Finish"
    /\ drv.pc = "cancelling" => ~IsActive(snd)
    /\ DriverSettlesSession

(* A file is requested at most once: its request is on the wire, or with   *)
(* one upload handler, or gone.                                            *)
OnceInv ==
    /\ drv.pc \in Early => \A u \in Uploads : upl[u].pc = "idle"
    /\ \A r \in Ids, f \in Files : UploadRequest(r, f) \in wire =>
          /\ r = drv.attempt /\ f \in snd.started /\ drv.pc \notin Early
          /\ \A u \in Uploads : upl[u].pc # "idle" => upl[u].file # f
    /\ \A u \in Uploads : upl[u].pc # "idle" =>
          upl[u].id = drv.attempt /\ upl[u].file \in snd.started
    /\ \A u, v \in Uploads :
          (upl[u].pc # "idle" /\ upl[v].pc # "idle" /\ upl[u].file = upl[v].file) => u = v

DriverTypeOK == snd \in Session /\ drv \in Driver /\ wire \subseteq Request

TransferInv ==
    /\ ServerInv
    /\ DriverTypeOK
    /\ SenderInv
    /\ OfferInv
    /\ FilesInv
    /\ LoopInv
    /\ OnceInv

-----------------------------------------------------------------------------
(* The receiving node takes steps of ReceiveServer *)

(* What TransferInv says of the parts. *)
LEMMA Parts ==
    ASSUME TransferInv
    PROVE  /\ ServerInv /\ snd \in Session /\ drv \in Driver /\ wire \subseteq Request
           /\ SessionInv(snd) /\ snd.direction = "Send" /\ drv.attempt \in Ids
           /\ \A r \in Ids : sessions[r] \in Session /\ SessionInv(sessions[r])
  <1>1. ServerInv /\ snd \in Session /\ drv \in Driver /\ wire \subseteq Request
    BY DEF TransferInv, DriverTypeOK
  <1>2. SessionInv(snd) /\ snd.direction = "Send"
    BY DEF TransferInv, SenderInv
  <1>3. drv.attempt \in Ids
    BY <1>1 DEF Driver
  <1> QED BY <1>1, <1>2, <1>3, SessionFacts

(* An accepted request has a session, and its decision is made. *)
LEMMA AcceptedPeer ==
    ASSUME TransferInv, prep[drv.attempt].pc = "accepted"
    PROVE  /\ Peer.state # "Absent" /\ Peer.direction = "Receive"
           /\ Peer.decision = "Accepted" /\ Peer.granted \subseteq Offered(snd)
           /\ Offered(Peer) = Offered(snd)
  <1>1. drv.attempt \in Ids /\ ServerInv
    BY Parts
  <1>2. RequestInv(drv.attempt)
    BY <1>1 DEF ServerInv, HandlersInv
  <1>3. Peer.state # "Absent" /\ Peer.direction = "Receive" /\ Peer.decision = "Accepted"
    BY <1>2 DEF RequestInv, Peer
  <1>4. Offered(Peer) = Offered(snd)
    BY <1>1, <1>3 DEF TransferInv, OfferInv, Peer
  <1> QED BY <1>2, <1>3, <1>4 DEF RequestInv, Peer

(* A cancel request is handle_cancel, which an ended session ignores. *)
LEMMA CancelIsServerStep ==
    ASSUME TransferInv, NEW id \in Ids, DeliverCancel(id)
    PROVE  [ServerNext]_serverVars
  <1>1. ServerInv /\ sessions[id] \in Session
    BY Parts
  <1>2. Cancel(id) /\ UNCHANGED <<prep, guard, upl, disk>>
    BY DEF DeliverCancel
  <1>3. CASE IsActive(sessions[id])
    <2>1. HandleCancel(id)
      BY <1>2, <1>3 DEF HandleCancel
    <2> QED BY <2>1 DEF ServerNext
  <1>4. CASE ~IsActive(sessions[id])
    <2>1. CancelSession(sessions[id]) = sessions[id]
      BY <1>4 DEF CancelSession
    <2>2. sessions' = [sessions EXCEPT ![id] = sessions[id]] /\ index' = Summaries(sessions')
      BY <1>2, <2>1 DEF Cancel, Update
    <2>3. sessions \in [Ids -> Session] /\ index = Summaries(sessions)
      BY <1>1 DEF ServerInv, IInv, TypeOK, IndexIsCurrent
    <2>4. sessions' = sessions
      BY <2>2, <2>3
    <2>5. index' = index
      BY <2>2, <2>3, <2>4
    <2> QED BY <1>2, <2>4, <2>5 DEF serverVars
  <1> QED BY <1>3, <1>4

LEMMA TransferStepsAreServerSteps ==
    TransferInv /\ [TransferNext]_transferVars => [ServerNext]_serverVars
  <1> SUFFICES ASSUME TransferInv, [TransferNext]_transferVars PROVE [ServerNext]_serverVars
    OBVIOUS
  <1>0. CASE UNCHANGED transferVars
    BY <1>0 DEF transferVars, serverVars
  <1>1. ASSUME NEW offered \in SUBSET Files, NEW relay \in BOOLEAN, NEW force \in BOOLEAN,
               SendFiles(offered, relay, force)
        PROVE  UNCHANGED serverVars
    BY <1>1 DEF SendFiles
  <1>2. CASE CancelSend \/ BreakConnection
    BY <1>2 DEF CancelSend, BreakConnection
  <1>3. CASE DriverStep \/ DriverReturns
    BY <1>3
    DEF DriverStep, DriverReturns, RouteDirect, RouteRelay, MarkRelayed, Registered, RouteFails,
        PrepareGranted, PrepareGrantedNothing, PrepareRefused, FallBack, PrepareBroken, GiveUp,
        SkipFile, BeginUpload, UploadSent, UploadFailed, ObserveCancelInPrepare,
        ObserveCancelInUpload, CancelReturns
  <1>4. CASE Delivery
    <2>1. drv.attempt \in Ids
      BY Parts
    <2>2. ASSUME NEW m \in wire, LoseRequest(m) PROVE UNCHANGED serverVars
      BY <2>2 DEF LoseRequest
    <2>3. ASSUME NEW r \in Ids, DeliverPrepare(r) PROVE ServerNext
      BY <2>3 DEF DeliverPrepare, ServerNext
    <2>4. ASSUME NEW u \in Uploads, NEW f \in Files, DeliverUpload(u, f) PROVE ServerNext
      BY <2>1, <2>4 DEF DeliverUpload, ServerNext
    <2> QED BY <1>4, <2>2, <2>3, <2>4, CancelIsServerStep DEF Delivery
  <1>5. ASSUME NEW r \in Ids, ReceiverHandler(r) PROVE ServerNext
    <2>1. Offered(snd) \in SUBSET Files
      BY DEF Offered
    <2>2. HandlerStep(r)
      BY <1>5, <2>1 DEF ReceiverHandler, HandlerStep
    <2> QED BY <2>2 DEF ServerNext
  <1>6. ASSUME NEW r \in Ids, NEW chosen \in SUBSET Files, ReceiverAccepts(r, chosen)
        PROVE  ServerNext
    BY <1>6 DEF ReceiverAccepts, ServerNext
  <1>7. ASSUME NEW r \in Ids, ReceiverDeclines(r) \/ ReceiverCancels(r) PROVE ServerNext
    BY <1>7 DEF ReceiverDeclines, ReceiverCancels, ServerNext
  <1>8. ASSUME NEW u \in Uploads,
               ReceiverConfig(u) \/ ReceiverUpload(u) \/ ReceiveBody(u) \/ ReceiverFails(u)
        PROVE  ServerNext
    BY <1>8 DEF ReceiverConfig, ReceiverUpload, ReceiveBody, ReceiverFails, ServerNext
  <1>9. CASE ReceiverLosesConnection
    BY <1>9 DEF ReceiverLosesConnection, ServerNext
  <1> QED BY <1>0, <1>1, <1>2, <1>3, <1>4, <1>5, <1>6, <1>7, <1>8, <1>9 DEF TransferNext

-----------------------------------------------------------------------------
(* What the receiving node never takes back *)

SameUpload(u) == /\ upl'[u].id = upl[u].id /\ upl'[u].file = upl[u].file
                 /\ upl[u].pc = "ok" => upl'[u].pc = "ok"
                 /\ upl'[u].pc # "idle"

PeerKept ==
    /\ TokensStay
    /\ \A r \in Ids : sessions[r].state # "Absent" => Keeps(sessions[r], sessions'[r])
    /\ \A u \in Uploads : upl[u].pc # "idle" => SameUpload(u)

(* No upload arrives. *)
NoArrival == \A u \in Uploads : upl[u].pc = "idle" => upl'[u].pc = "idle"

(* The parts of PeerKept for a step of each kind. *)
LEMMA SessionsKept ==
    ASSUME ServerInv, [ServerNext]_serverVars, NEW r \in Ids, sessions[r].state # "Absent"
    PROVE  Keeps(sessions[r], sessions'[r])
  <1> DEFINE Goal == Keeps(sessions[r], sessions'[r])
  <1>1. ASSUME sessions' = sessions PROVE Goal
    BY <1>1, NoMessageKeeps
  <1>2. ASSUME NEW id \in Ids, NEW t \in Session, Keeps(sessions[id], t), Update(id, t)
        PROVE  Goal
    BY <1>2, UpdateKeeps
  <1> HIDE DEF Goal
  <1>3. \A id \in Ids : sessions[id] \in Session /\ SessionInv(sessions[id])
    BY SessionFacts
  <1>4. CASE UNCHANGED serverVars
    BY <1>1, <1>4 DEF serverVars, Goal
  <1>5. ASSUME NEW i \in Ids, PrepareUpload(i) \/ Disconnect(i) PROVE Goal
    BY <1>1, <1>5 DEF PrepareUpload, Disconnect
  <1>6. ASSUME NEW i \in Ids, HandlerStep(i) PROVE Goal
    <2>1. ASSUME NEW offered \in SUBSET Files, CreateForRequest(i, offered) PROVE Goal
      <3>1. /\ sessions \in [Ids -> Session] /\ sessions[i].state = "Absent"
            /\ sessions' = [sessions EXCEPT ![i] = NewSession("Receive", offered)]
        BY <2>1 DEF CreateForRequest, CreateRecvSession, Update, ServerInv, IInv, TypeOK
      <3>2. sessions'[r] = sessions[r]
        BY <3>1
      <3> QED BY <1>3, <3>2, SameFilesKeep DEF Goal
    <2>2. CASE RejectBusy(i) \/ ArmGuard(i) \/ Answer200Or403(i) \/ ReturnAnswer(i)
      BY <1>1, <2>2 DEF RejectBusy, ArmGuard, Answer200Or403, ReturnAnswer
    <2>3. CASE RunGuardTask(i)
      <3>1. sessions' = sessions \/ Update(i, CancelSession(sessions[i]))
        BY <2>3 DEF RunGuardTask
      <3> QED BY <1>1, <1>2, <1>3, <3>1, CancelSessionInv, CancelKeeps
    <2> QED BY <1>6, <2>1, <2>2, <2>3 DEF HandlerStep
  <1>7. ASSUME NEW u \in Uploads,
               \/ \E id \in Ids, f \in Files : HandleUpload(u, id, f)
               \/ AnswerConfig(u) \/ ChoosePath(u) \/ CreateFile(u) \/ CopyBody(u)
               \/ FailUpload(u) \/ AbortUpload(u) \/ ReturnOutcome(u) \/ DropUpload(u)
        PROVE  Goal
    <2>1. sessions' = sessions
      BY <1>7 DEF HandleUpload, AnswerConfig, ChoosePath, CreateFile, CopyBody, PostFail,
                  FailUpload, AbortUpload, ReturnOutcome, DropUpload
    <2> QED BY <1>1, <2>1
  <1>8. ASSUME NEW u \in Uploads, StartUpload(u) PROVE Goal
    <2> DEFINE id == upl[u].id
               f == upl[u].file
    <2>1. id \in Ids /\ f \in Files
      BY <1>8, SessionFacts DEF StartUpload
    <2>2. sessions' = sessions \/ (CanStart(sessions[id], f) /\ Update(id, Started(sessions[id], f)))
      BY <1>8 DEF StartUpload
    <2> QED BY <1>1, <1>2, <1>3, <2>1, <2>2, StartInv, StartKeeps
  <1>9. ASSUME NEW u \in Uploads, RecordOutcome(u) PROVE Goal
    <2> DEFINE st == upl[u].outcome
               s == sessions[upl[u].id]
               t == SetFileState(s, upl[u].file, st)
    <2>1. Update(upl[u].id, t) /\ upl[u].pc = "reporting"
      BY <1>9 DEF RecordOutcome
    <2>2. st \in {"Finish", "Fail"}
      BY <2>1 DEF ServerInv, HandlersInv, DiskInv
    <2>3. /\ upl[u].id \in Ids /\ upl[u].file \in Files /\ s \in Session /\ SessionInv(s)
          /\ s.direction = "Receive" /\ s.state # "Absent" /\ upl[u].file \in s.started
          /\ s.files[upl[u].file] \in Moving
      BY <2>1, SessionFacts DEF Begun
    <2>4. t \in Session
      BY <2>2, <2>3, SetFileStateInv DEF FileState
    <2>5. Keeps(s, t)
      BY <2>2, <2>3, ReportKeeps
    <2> QED BY <1>2, <2>1, <2>3, <2>4, <2>5
  <1>10. ASSUME NEW id \in Ids, NEW chosen \in SUBSET Files, UserAccepts(id, chosen) PROVE Goal
    BY <1>2, <1>3, <1>10, AcceptInv, AcceptKeeps DEF UserAccepts, Accept
  <1>11. ASSUME NEW id \in Ids, UserDeclines(id) PROVE Goal
    BY <1>2, <1>3, <1>11, DeclineInv, CancelKeeps DEF UserDeclines, Decline
  <1>12. ASSUME NEW id \in Ids, HandleCancel(id) PROVE Goal
    BY <1>2, <1>3, <1>12, CancelSessionInv, CancelKeeps DEF HandleCancel, Cancel
  <1> QED BY <1>4, <1>5, <1>6, <1>7, <1>8, <1>9, <1>10, <1>11, <1>12
          DEF ServerNext, UploadStep, Goal

LEMMA UploadsKept ==
    ASSUME ServerInv, [ServerNext]_serverVars
    PROVE  /\ \A u \in Uploads : upl[u].pc # "idle" => SameUpload(u)
           /\ \/ NoArrival
              \/ \E u \in Uploads, id \in Ids, f \in Files : HandleUpload(u, id, f)
  <1>1. upl \in [Uploads -> Upload]
    BY DEF ServerInv, ServerTypeOK
  <1>2. ASSUME upl' = upl
        PROVE  (\A u \in Uploads : upl[u].pc # "idle" => SameUpload(u)) /\ NoArrival
    BY <1>2 DEF SameUpload, NoArrival
  <1>3. ASSUME NEW v \in Uploads, upl[v].pc # "idle",
               \A u \in Uploads : u # v => upl'[u] = upl[u],
               upl'[v].id = upl[v].id, upl'[v].file = upl[v].file,
               upl[v].pc # "ok", upl'[v].pc # "idle"
        PROVE  (\A u \in Uploads : upl[u].pc # "idle" => SameUpload(u)) /\ NoArrival
    BY <1>3 DEF SameUpload, NoArrival
  <1>4. CASE UNCHANGED serverVars
    BY <1>2, <1>4 DEF serverVars
  <1>5. ASSUME NEW i \in Ids, PrepareUpload(i) \/ HandlerStep(i) \/ Disconnect(i)
        PROVE  upl' = upl
    BY <1>5 DEF PrepareUpload, HandlerStep, Disconnect, CreateForRequest, RejectBusy, ArmGuard,
                Answer200Or403, ReturnAnswer, RunGuardTask
  <1>6. ASSUME NEW v \in Uploads, NEW id \in Ids, NEW f \in Files, HandleUpload(v, id, f)
        PROVE  \A u \in Uploads : upl[u].pc # "idle" => SameUpload(u)
    <2>1. upl[v].pc = "idle" /\ \A u \in Uploads : u # v => upl'[u] = upl[u]
      BY <1>1, <1>6 DEF HandleUpload, Arrives
    <2> QED BY <2>1 DEF SameUpload
  <1>7. ASSUME NEW v \in Uploads, \/ AnswerConfig(v) \/ UploadStep(v) \/ CopyBody(v)
                                 \/ FailUpload(v) \/ DropUpload(v)
        PROVE  (\A u \in Uploads : upl[u].pc # "idle" => SameUpload(u)) /\ NoArrival
    <2>1. upl[v].pc \notin {"idle", "ok"}
      BY <1>7 DEF UploadStep, AnswerConfig, StartUpload, ChoosePath, CreateFile, CopyBody, PostFail,
                  FailUpload, AbortUpload, RecordOutcome, ReturnOutcome, DropUpload, InFlight,
                  Working
    <2>2. /\ \A u \in Uploads : u # v => upl'[u] = upl[u]
          /\ upl'[v].id = upl[v].id /\ upl'[v].file = upl[v].file /\ upl'[v].pc # "idle"
      <3>1. CASE StartUpload(v)
        BY <1>1, <3>1 DEF StartUpload, Resumes, Upload
      <3>2. CASE \/ AnswerConfig(v) \/ ChoosePath(v) \/ CreateFile(v) \/ CopyBody(v)
                 \/ FailUpload(v) \/ AbortUpload(v)
        BY <1>1, <3>2 DEF AnswerConfig, ChoosePath, CreateFile, CopyBody, PostFail, FailUpload,
                          AbortUpload, Upload
      <3>3. CASE RecordOutcome(v) \/ ReturnOutcome(v)
        BY <1>1, <3>3 DEF RecordOutcome, ReturnOutcome, Resumes, Upload
      <3>4. CASE DropUpload(v)
        BY <1>1, <2>1, <3>4 DEF DropUpload, Upload
      <3> QED BY <1>7, <3>1, <3>2, <3>3, <3>4 DEF UploadStep
    <2> QED BY <1>3, <2>1, <2>2
  <1>8. ASSUME NEW id \in Ids, \/ \E chosen \in SUBSET Files : UserAccepts(id, chosen)
                              \/ UserDeclines(id) \/ HandleCancel(id)
        PROVE  upl' = upl
    BY <1>8 DEF UserAccepts, UserDeclines, HandleCancel
  <1> QED BY <1>2, <1>4, <1>5, <1>6, <1>7, <1>8 DEF ServerNext

LEMMA TokensKept ==
    ASSUME ServerInv, [ServerNext]_serverVars
    PROVE  TokensStay
  <1>1. prep \in [Ids -> Prep]
    BY DEF ServerInv, ServerTypeOK
  <1>2. ASSUME prep' = prep PROVE TokensStay
    BY <1>2 DEF TokensStay
  <1>3. ASSUME NEW i \in Ids, prep[i].pc # "accepted",
               \A r \in Ids : r # i => prep'[r] = prep[r]
        PROVE  TokensStay
    BY <1>3 DEF TokensStay
  <1>4. CASE UNCHANGED serverVars
    BY <1>2, <1>4 DEF serverVars
  <1>5. ASSUME NEW i \in Ids, PrepareUpload(i) \/ HandlerStep(i) \/ Disconnect(i)
        PROVE  TokensStay
    <2>1. CASE RunGuardTask(i)
      BY <1>2, <2>1 DEF RunGuardTask
    <2>2. CASE ~RunGuardTask(i)
      <3>1. prep[i].pc # "accepted"
        BY <1>5, <2>2 DEF PrepareUpload, HandlerStep, Disconnect, CreateForRequest, RejectBusy,
                          ArmGuard, Answer200Or403, ReturnAnswer
      <3>2. \A r \in Ids : r # i => prep'[r] = prep[r]
        BY <1>1, <1>5, <2>2 DEF PrepareUpload, HandlerStep, Disconnect, CreateForRequest,
                                RejectBusy, ArmGuard, Answer200Or403, ReturnAnswer
      <3> QED BY <1>3, <3>1, <3>2
    <2> QED BY <2>1, <2>2
  <1>6. ASSUME NEW u \in Uploads, \/ \E id \in Ids, f \in Files : HandleUpload(u, id, f)
                                \/ AnswerConfig(u) \/ UploadStep(u) \/ CopyBody(u)
                                \/ FailUpload(u) \/ DropUpload(u)
        PROVE  prep' = prep
    BY <1>6 DEF HandleUpload, AnswerConfig, UploadStep, StartUpload, ChoosePath, CreateFile, CopyBody,
                PostFail, FailUpload, AbortUpload, RecordOutcome, ReturnOutcome, DropUpload
  <1>7. ASSUME NEW id \in Ids, \/ \E chosen \in SUBSET Files : UserAccepts(id, chosen)
                              \/ UserDeclines(id) \/ HandleCancel(id)
        PROVE  prep' = prep
    BY <1>7 DEF UserAccepts, UserDeclines, HandleCancel
  <1> QED BY <1>2, <1>4, <1>5, <1>6, <1>7 DEF ServerNext

LEMMA ServerStepKeeps ==
    ASSUME ServerInv, [ServerNext]_serverVars
    PROVE  PeerKept
  BY SessionsKept, UploadsKept, TokensKept DEF PeerKept

-----------------------------------------------------------------------------
(* Steps of the receiving node *)

(* The tokens of an accepted request stay as they are. *)
LEMMA GrantKept ==
    ASSUME TransferInv, PeerKept, drv'.attempt = drv.attempt,
           prep[drv.attempt].pc = "accepted" \/ Peer.granted # {}
    PROVE  Peer'.granted = Peer.granted
  <1>1. drv.attempt \in Ids /\ SessionInv(Peer)
    BY Parts DEF Peer
  <1>2. Peer.state # "Absent" /\ Peer.decision # "Open"
    <2>1. CASE prep[drv.attempt].pc = "accepted"
      BY <2>1, AcceptedPeer
    <2>2. CASE Peer.granted # {}
      BY <1>1, <2>2 DEF SessionInv, BaseInv
    <2> QED BY <2>1, <2>2
  <1>3. Keeps(Peer, Peer')
    BY <1>1, <1>2 DEF PeerKept, Peer
  <1> QED BY <1>2, <1>3 DEF Keeps

LEMMA SenderKept ==
    ASSUME TransferInv, snd' = snd, drv'.pc = "idle" <=> drv.pc = "idle"
    PROVE  SenderInv'
  <1>1. SenderInv
    BY DEF TransferInv
  <1> QED BY <1>1 DEF SenderInv, SessionInv, BaseInv, Offered, IsActive, Complete

LEMMA FilesKept ==
    ASSUME TransferInv, PeerKept, snd' = snd, drv'.attempt = drv.attempt,
           drv'.pc \in Early => drv.pc \in Early
    PROVE  FilesInv'
  <1>1. FilesInv /\ drv.attempt \in Ids
    BY Parts DEF TransferInv
  <1>2. ASSUME NEW f \in Files, snd.files[f] = "Finish"
        PROVE  \E u \in Uploads : upl'[u].id = drv.attempt /\ upl'[u].file = f /\ upl'[u].pc = "ok"
    <2>1. PICK u \in Uploads : upl[u].id = drv.attempt /\ upl[u].file = f /\ upl[u].pc = "ok"
      BY <1>1, <1>2 DEF FilesInv
    <2>2. SameUpload(u)
      BY <2>1 DEF PeerKept
    <2> QED BY <2>1, <2>2 DEF SameUpload
  <1>3. ASSUME NEW f \in Files, snd.files[f] = "Skip"
        PROVE  f \notin Peer'.granted /\ prep'[drv.attempt].pc = "accepted"
    <2>1. f \notin Peer.granted /\ prep[drv.attempt].pc = "accepted"
      BY <1>1, <1>3 DEF FilesInv
    <2> QED BY <1>1, <2>1, GrantKept DEF PeerKept, TokensStay
  <1> QED BY <1>1, <1>2, <1>3 DEF FilesInv, Peer

LEMMA LoopKept ==
    ASSUME TransferInv, PeerKept, UNCHANGED <<snd, drv>>
    PROVE  LoopInv'
  <1>1. LoopInv /\ drv.attempt \in Ids
    BY Parts DEF TransferInv
  <1>2. drv.pc \in Accepting => /\ prep'[drv.attempt].pc = "accepted"
                                /\ Peer'.granted = Peer.granted
    BY <1>1, GrantKept DEF LoopInv, PeerKept, TokensStay
  <1>3. DriverSettlesSession'
    <2>1. PartlyGranted => PartlyGranted'
      BY GrantKept DEF PartlyGranted, Peer, Offered
    <2> QED BY <1>1, <2>1 DEF LoopInv, DriverSettlesSession, IsActive
  <1> QED BY <1>1, <1>2, <1>3 DEF LoopInv, Accepting, Offered, IsActive

(* What the arrival of an upload changes in OnceInv is in DeliverUploadInv. *)
LEMMA OnceKept ==
    ASSUME TransferInv, PeerKept, NoArrival, snd' = snd, drv'.attempt = drv.attempt,
           drv'.pc \in Early <=> drv.pc \in Early,
           \A r \in Ids, f \in Files : UploadRequest(r, f) \in wire' => UploadRequest(r, f) \in wire
    PROVE  OnceInv'
  <1>1. OnceInv
    BY DEF TransferInv
  <1>2. \A u \in Uploads : upl'[u].pc # "idle" =>
           upl[u].pc # "idle" /\ upl'[u].id = upl[u].id /\ upl'[u].file = upl[u].file
    BY DEF PeerKept, NoArrival, SameUpload
  <1>3. drv.pc \in Early => \A u \in Uploads : upl'[u].pc = "idle"
    BY <1>1, <1>2 DEF OnceInv
  <1>4. ASSUME NEW r \in Ids, NEW f \in Files, UploadRequest(r, f) \in wire'
        PROVE  /\ r = drv.attempt /\ f \in snd.started /\ drv.pc \notin Early
               /\ \A u \in Uploads : upl'[u].pc # "idle" => upl'[u].file # f
    BY <1>1, <1>2, <1>4 DEF OnceInv
  <1>5. \A u \in Uploads : upl'[u].pc # "idle" =>
           upl'[u].id = drv.attempt /\ upl'[u].file \in snd.started
    BY <1>1, <1>2 DEF OnceInv
  <1>6. \A u, v \in Uploads :
          (upl'[u].pc # "idle" /\ upl'[v].pc # "idle" /\ upl'[u].file = upl'[v].file) => u = v
    BY <1>1, <1>2 DEF OnceInv
  <1> QED BY <1>3, <1>4, <1>5, <1>6 DEF OnceInv, UploadRequest

(* Sessions that exist keep their offer. *)
LEMMA OfferKept ==
    ASSUME TransferInv, PeerKept, snd' = snd, drv.pc # "idle" => drv'.pc # "idle",
           \A r \in Ids : sessions'[r].state # "Absent" =>
              sessions[r].state # "Absent" \/ Offered(sessions'[r]) = Offered(snd),
           \A r \in Ids : prep'[r].pc # "idle" \/ PrepareRequest(r) \in wire' =>
              prep[r].pc # "idle" \/ PrepareRequest(r) \in wire
    PROVE  OfferInv'
  <1>1. OfferInv
    BY DEF TransferInv
  <1>2. ASSUME NEW r \in Ids, sessions'[r].state # "Absent"
        PROVE  Offered(sessions'[r]) = Offered(snd)
    <2>1. CASE sessions[r].state # "Absent"
      <3>1. Offered(sessions'[r]) = Offered(sessions[r])
        BY <2>1 DEF PeerKept, Keeps
      <3> QED BY <1>1, <2>1, <3>1 DEF OfferInv
    <2>2. CASE sessions[r].state = "Absent"
      BY <1>2, <2>2
    <2> QED BY <2>1, <2>2
  <1>3. \A r \in Ids : prep'[r].pc # "idle" \/ PrepareRequest(r) \in wire' => drv'.pc # "idle"
    BY <1>1 DEF OfferInv
  <1>4. Offered(snd)' = Offered(snd)
    BY DEF Offered
  <1>5. \A r \in Ids : Offered(sessions[r])' = Offered(sessions'[r])
    BY DEF Offered
  <1> QED BY <1>2, <1>3, <1>4, <1>5 DEF OfferInv, PrepareRequest

(* A step of the receiving node at which no request arrives. *)
LEMMA ReceiverStepInv ==
    ASSUME TransferInv, [ServerNext]_serverVars, NoArrival, UNCHANGED <<snd, drv, wire>>,
           \A r \in Ids : prep'[r].pc # "idle" => prep[r].pc # "idle",
           \A r \in Ids : (prep'[r].pc \notin {"idle", "posted", "busy"} /\
                            prep[r].pc \in {"idle", "posted", "busy"})
              => Offered(sessions'[r]) = Offered(snd)
    PROVE  TransferInv'
  <1>1. ServerInv /\ ServerInv' /\ DriverTypeOK
    BY ServerNextInv DEF TransferInv
  <1>2. PeerKept
    BY <1>1, ServerStepKeeps
  <1>3. \A r \in Ids : sessions'[r].state # "Absent" =>
           sessions[r].state # "Absent" \/ Offered(sessions'[r]) = Offered(snd)
    BY <1>1 DEF ServerInv, HandlersInv, RequestInv
  <1>4. OfferInv'
    BY <1>2, <1>3, OfferKept
  <1>5. OnceInv'
    BY <1>2, OnceKept
  <1>6. DriverTypeOK'
    BY <1>1 DEF DriverTypeOK
  <1> QED BY <1>1, <1>2, <1>4, <1>5, <1>6, SenderKept, FilesKept, LoopKept DEF TransferInv

LEMMA ReceiverHandlerInv ==
    ASSUME TransferInv, [ServerNext]_serverVars, NEW r \in Ids, ReceiverHandler(r)
    PROVE  TransferInv'
  <1>1. /\ ServerInv /\ prep \in [Ids -> Prep] /\ sessions \in [Ids -> Session]
    BY DEF TransferInv, ServerInv, ServerTypeOK, TypeOK
  <1>2. upl' = upl /\ UNCHANGED <<snd, drv, wire>>
    BY DEF ReceiverHandler, CreateForRequest, RejectBusy, ArmGuard, Answer200Or403,
           ReturnAnswer, RunGuardTask
  <1>3. NoArrival
    BY <1>2 DEF NoArrival
  <1>4. CASE CreateForRequest(r, Offered(snd))
    <2>1. /\ prep[r].pc = "posted" /\ \A i \in Ids : i # r => prep'[i] = prep[i]
          /\ sessions'[r] = NewSession("Receive", Offered(snd))
      BY <1>1, <1>4 DEF CreateForRequest, CreateRecvSession, Update
    <2>2. Offered(sessions'[r]) = Offered(snd)
      BY <2>1 DEF NewSession, Offered
    <2> QED BY <1>2, <1>3, <2>1, <2>2, ReceiverStepInv
  <1>5. CASE ~CreateForRequest(r, Offered(snd))
    <2>1. CASE RunGuardTask(r)
      BY <1>2, <1>3, <2>1, ReceiverStepInv DEF RunGuardTask
    <2>2. CASE RejectBusy(r) \/ ArmGuard(r)
      <3>1. \A i \in Ids : /\ prep'[i].pc # "idle" => prep[i].pc # "idle"
                           /\ prep[i].pc \in {"idle", "posted", "busy"} =>
                                 prep'[i].pc \in {"idle", "posted", "busy"}
        BY <1>1, <2>2 DEF RejectBusy, ArmGuard, Prep
      <3> QED BY <1>2, <1>3, <3>1, ReceiverStepInv
    <2>3. CASE Answer200Or403(r) \/ ReturnAnswer(r)
      <3>1. prep[r].pc \in {"waiting", "answering"} /\ \A i \in Ids : i # r => prep'[i] = prep[i]
        BY <1>1, <2>3 DEF Answer200Or403, ReturnAnswer
      <3> QED BY <1>2, <1>3, <3>1, ReceiverStepInv
    <2> QED BY <1>5, <2>1, <2>2, <2>3 DEF ReceiverHandler
  <1> QED BY <1>4, <1>5

LEMMA ReceiverDisconnectInv ==
    ASSUME TransferInv, [ServerNext]_serverVars, ReceiverLosesConnection
    PROVE  TransferInv'
  <1>1. /\ prep \in [Ids -> Prep] /\ upl \in [Uploads -> Upload]
    BY DEF TransferInv, ServerInv, ServerTypeOK
  <1>2. UNCHANGED <<snd, drv, wire>>
    BY DEF ReceiverLosesConnection
  <1>3. ASSUME NEW r \in Ids, Disconnect(r) PROVE TransferInv'
    <2>1. \A i \in Ids : prep'[i].pc = prep[i].pc
      BY <1>1, <1>3 DEF Disconnect, Prep
    <2>2. NoArrival
      BY <1>3 DEF Disconnect, NoArrival
    <2> QED BY <1>2, <2>1, <2>2, ReceiverStepInv
  <1>4. ASSUME NEW u \in Uploads, DropUpload(u) PROVE TransferInv'
    <2>1. NoArrival
      BY <1>1, <1>4 DEF DropUpload, NoArrival, InFlight, Working, Upload
    <2> QED BY <1>2, <1>4, <2>1, ReceiverStepInv DEF DropUpload
  <1> QED BY <1>3, <1>4 DEF ReceiverLosesConnection

LEMMA ReceiverUploadInv ==
    ASSUME TransferInv, [ServerNext]_serverVars, NEW u \in Uploads,
           ReceiverConfig(u) \/ ReceiverUpload(u) \/ ReceiveBody(u) \/ ReceiverFails(u)
    PROVE  TransferInv'
  <1>1. upl \in [Uploads -> Upload]
    BY DEF TransferInv, ServerInv, ServerTypeOK
  <1>2. UNCHANGED <<snd, drv, wire>> /\ prep' = prep /\ upl[u].pc # "idle"
    BY DEF ReceiverConfig, ReceiverUpload, ReceiveBody, ReceiverFails, UploadStep, AnswerConfig,
           StartUpload, ChoosePath, CreateFile, CopyBody, PostFail, FailUpload, AbortUpload,
           RecordOutcome, ReturnOutcome
  <1>3. \A v \in Uploads : v # u => upl'[v] = upl[v]
    BY <1>1 DEF ReceiverConfig, ReceiverUpload, ReceiveBody, ReceiverFails, UploadStep,
                AnswerConfig, StartUpload, ChoosePath, CreateFile, CopyBody, PostFail, FailUpload,
                AbortUpload, RecordOutcome, ReturnOutcome
  <1>4. NoArrival
    BY <1>2, <1>3 DEF NoArrival
  <1> QED BY <1>2, <1>4, ReceiverStepInv

LEMMA ReceiverUserInv ==
    ASSUME TransferInv, [ServerNext]_serverVars, NEW id \in Ids,
           \/ \E chosen \in SUBSET Files : ReceiverAccepts(id, chosen)
           \/ ReceiverDeclines(id) \/ ReceiverCancels(id)
    PROVE  TransferInv'
  <1>1. UNCHANGED <<snd, drv, wire, prep, upl>>
    BY DEF ReceiverAccepts, ReceiverDeclines, ReceiverCancels, UserAccepts, UserDeclines,
           HandleCancel
  <1>2. NoArrival
    BY <1>1 DEF NoArrival
  <1> QED BY <1>1, <1>2, ReceiverStepInv

(* An offer arrives. *)
LEMMA DeliverPrepareInv ==
    ASSUME TransferInv, [ServerNext]_serverVars, NEW r \in Ids, DeliverPrepare(r)
    PROVE  TransferInv'
  <1>1. ServerInv /\ ServerInv' /\ DriverTypeOK /\ prep \in [Ids -> Prep]
    BY ServerNextInv DEF TransferInv, ServerInv, ServerTypeOK
  <1>2. PeerKept
    BY <1>1, ServerStepKeeps
  <1>3. /\ UNCHANGED <<snd, drv, sessions, upl>> /\ wire' \subseteq wire
        /\ PrepareRequest(r) \in wire /\ \A i \in Ids : i # r => prep'[i] = prep[i]
    BY <1>1 DEF DeliverPrepare, PrepareUpload
  <1>4. OfferInv'
    BY <1>2, <1>3, OfferKept
  <1>5. OnceInv'
    BY <1>2, <1>3, OnceKept DEF NoArrival
  <1>6. DriverTypeOK'
    BY <1>1, <1>3 DEF DriverTypeOK
  <1> QED BY <1>1, <1>2, <1>3, <1>4, <1>5, <1>6, SenderKept, FilesKept, LoopKept DEF TransferInv

(* An upload request arrives: the file has no other handler. *)
LEMMA DeliverUploadInv ==
    ASSUME TransferInv, [ServerNext]_serverVars, NEW u \in Uploads, NEW f \in Files,
           DeliverUpload(u, f)
    PROVE  TransferInv'
  <1> DEFINE a == drv.attempt
  <1>1. /\ ServerInv /\ ServerInv' /\ DriverTypeOK /\ upl \in [Uploads -> Upload]
        /\ a \in Ids /\ sessions \in [Ids -> Session] /\ OnceInv
    BY ServerNextInv, Parts DEF TransferInv, ServerInv, ServerTypeOK, TypeOK
  <1>2. PeerKept
    BY <1>1, ServerStepKeeps
  <1>3. /\ UNCHANGED <<snd, drv, prep>> /\ UploadRequest(a, f) \in wire
        /\ wire' = wire \ {UploadRequest(a, f)} /\ upl[u].pc = "idle"
        /\ \A v \in Uploads : v # u => upl'[v] = upl[v]
        /\ upl'[u].pc # "idle" /\ upl'[u].id = a /\ upl'[u].file = f
    <2>1. HandleUpload(u, a, f)
      BY DEF DeliverUpload
    <2>2. /\ \A v \in Uploads : v # u => upl'[v] = upl[v]
          /\ upl'[u].pc # "idle" /\ upl'[u].id = a /\ upl'[u].file = f
      BY <1>1, <2>1 DEF HandleUpload, Upload
    <2> QED BY <2>1, <2>2 DEF DeliverUpload, HandleUpload, Arrives
  <1>4. /\ f \in snd.started /\ drv.pc \notin Early
        /\ \A v \in Uploads : upl[v].pc # "idle" => upl[v].file # f
    BY <1>1, <1>3 DEF OnceInv
  <1>5. OnceInv'
    <2>1. ASSUME NEW r \in Ids, NEW g \in Files, UploadRequest(r, g) \in wire'
          PROVE  /\ r = a /\ g \in snd.started /\ drv.pc \notin Early
                 /\ \A v \in Uploads : upl'[v].pc # "idle" => upl'[v].file # g
      <3>1. UploadRequest(r, g) \in wire /\ UploadRequest(r, g) # UploadRequest(a, f)
        BY <1>3, <2>1
      <3>2. r = a /\ g \in snd.started /\ \A v \in Uploads : upl[v].pc # "idle" => upl[v].file # g
        BY <1>1, <3>1 DEF OnceInv
      <3>3. g # f
        BY <3>1, <3>2
      <3> QED BY <1>3, <1>4, <3>2, <3>3
    <2>2. \A v \in Uploads : upl'[v].pc # "idle" =>
             upl'[v].id = a /\ upl'[v].file \in snd.started
      BY <1>1, <1>3, <1>4 DEF OnceInv
    <2>3. \A v, w \in Uploads :
            (upl'[v].pc # "idle" /\ upl'[w].pc # "idle" /\ upl'[v].file = upl'[w].file) => v = w
      BY <1>1, <1>3, <1>4 DEF OnceInv
    <2> QED BY <1>3, <1>4, <2>1, <2>2, <2>3 DEF OnceInv, UploadRequest
  <1>6. OfferInv'
    <2>1. \A r \in Ids : sessions'[r].state # "Absent" => sessions[r].state # "Absent"
      BY <1>1, <1>3 DEF ServerInv, HandlersInv, RequestInv
    <2>2. wire' \subseteq wire
      BY <1>3
    <2> QED BY <1>2, <1>3, <2>1, <2>2, OfferKept
  <1>7. DriverTypeOK'
    BY <1>1, <1>3 DEF DriverTypeOK
  <1> QED BY <1>1, <1>2, <1>3, <1>5, <1>6, <1>7, SenderKept, FilesKept, LoopKept DEF TransferInv

(* A cancel arrives. *)
LEMMA DeliverCancelInv ==
    ASSUME TransferInv, [ServerNext]_serverVars, NEW r \in Ids, DeliverCancel(r)
    PROVE  TransferInv'
  <1>1. ServerInv /\ ServerInv' /\ DriverTypeOK
    BY ServerNextInv DEF TransferInv
  <1>2. PeerKept
    BY <1>1, ServerStepKeeps
  <1>3. UNCHANGED <<snd, drv, prep, upl>> /\ wire' \subseteq wire
    BY DEF DeliverCancel
  <1>4. OfferInv'
    <2>1. \A i \in Ids : sessions'[i].state # "Absent" => sessions[i].state # "Absent"
      BY <1>1, <1>3 DEF ServerInv, HandlersInv, RequestInv
    <2> QED BY <1>2, <1>3, <2>1, OfferKept
  <1>5. OnceInv'
    BY <1>2, <1>3, OnceKept DEF NoArrival
  <1>6. DriverTypeOK'
    BY <1>1, <1>3 DEF DriverTypeOK
  <1> QED BY <1>1, <1>2, <1>3, <1>4, <1>5, <1>6, SenderKept, FilesKept, LoopKept DEF TransferInv

(* A request is lost. *)
LEMMA LoseRequestInv ==
    ASSUME TransferInv, [ServerNext]_serverVars, NEW m \in wire, LoseRequest(m)
    PROVE  TransferInv'
  <1>1. ServerInv /\ ServerInv' /\ DriverTypeOK
    BY ServerNextInv DEF TransferInv
  <1>2. PeerKept
    BY <1>1, ServerStepKeeps
  <1>3. UNCHANGED <<snd, drv, prep, upl, sessions>> /\ wire' \subseteq wire
    BY DEF LoseRequest, serverVars
  <1>4. OfferInv'
    BY <1>2, <1>3, OfferKept
  <1>5. OnceInv'
    BY <1>2, <1>3, OnceKept DEF NoArrival
  <1>6. DriverTypeOK'
    BY <1>1, <1>3 DEF DriverTypeOK
  <1> QED BY <1>1, <1>2, <1>3, <1>4, <1>5, <1>6, SenderKept, FilesKept, LoopKept DEF TransferInv

-----------------------------------------------------------------------------
(* Steps of the driver *)

(* client.cancel puts a request of its own kind on the wire. *)
LEMMA TellPeerFacts ==
    ASSUME TransferInv, TellPeer
    PROVE  /\ drv' \in Driver /\ drv'.attempt = drv.attempt /\ drv'.pc = "cancelling"
           /\ wire' \subseteq Request
           /\ \A r \in Ids : PrepareRequest(r) \in wire' => PrepareRequest(r) \in wire
           /\ \A r \in Ids, f \in Files : UploadRequest(r, f) \in wire' => UploadRequest(r, f) \in wire
  <1>1. drv \in Driver /\ wire \subseteq Request /\ drv.attempt \in Ids
    BY Parts
  <1>2. drv' = [drv EXCEPT !.pc = "cancelling"] /\ wire' = wire \cup {CancelRequest(drv.attempt)}
    BY DEF TellPeer
  <1>3. CancelRequest(drv.attempt) \in Request
    BY <1>1 DEF CancelRequest, Request
  <1>4. /\ \A r \in Ids : PrepareRequest(r) # CancelRequest(drv.attempt)
        /\ \A r \in Ids, f \in Files : UploadRequest(r, f) # CancelRequest(drv.attempt)
    BY DEF PrepareRequest, UploadRequest, CancelRequest
  <1>5. drv' \in Driver /\ drv'.attempt = drv.attempt /\ drv'.pc = "cancelling"
    BY <1>1, <1>2 DEF Driver, DrvPc
  <1> QED BY <1>1, <1>2, <1>3, <1>4, <1>5

(* A step of the sending node leaves the server alone. *)
LEMMA DriverFrame ==
    ASSUME TransferInv, UNCHANGED serverVars,
           drv.pc # "idle", drv' \in Driver, drv'.pc # "idle", wire' \subseteq Request,
           snd' \in Session, SessionInv(snd'), snd'.direction = "Send",
           snd'.state # "Absent", Offered(snd') = Offered(snd),
           FilesInv', LoopInv', OnceInv'
    PROVE  TransferInv'
  <1>1. ServerInv'
    BY ServerNextInv DEF TransferInv
  <1>2. SenderInv'
    <2>1. Offered(snd)' = Offered(snd')
      BY DEF Offered
    <2>2. SessionInv(snd)' <=> SessionInv(snd')
      BY DEF SessionInv, BaseInv, Offered, IsActive, Complete
    <2> QED BY <2>1, <2>2 DEF SenderInv, TransferInv
  <1>3. OfferInv'
    <2>1. \A r \in Ids : sessions'[r].state # "Absent" => Offered(sessions'[r]) = Offered(snd')
      BY DEF TransferInv, OfferInv, serverVars
    <2>2. Offered(snd)' = Offered(snd') /\ \A r \in Ids : Offered(sessions[r])' = Offered(sessions'[r])
      BY DEF Offered
    <2> QED BY <2>1, <2>2 DEF OfferInv
  <1> QED BY <1>1, <1>2, <1>3 DEF TransferInv, DriverTypeOK

(* What holds before the peer has answered. *)
LEMMA EarlyFacts ==
    ASSUME TransferInv, drv.pc \in Early
    PROVE  /\ snd.started = {} /\ snd.state # "Transfering"
           /\ \A f \in Files : snd.files[f] \in {"Absent", "Pending"}
           /\ \A u \in Uploads : upl[u].pc = "idle"
           /\ \A r \in Ids, f \in Files : UploadRequest(r, f) \notin wire
           /\ drv.pc # "idle" => snd.state # "Absent"
  BY DEF TransferInv, FilesInv, OnceInv, SenderInv

(* Routing, asking, falling back: the driver goes round before the answer. *)
LEMMA EarlyMoves ==
    ASSUME TransferInv, UNCHANGED serverVars, drv.pc \in Early, drv.pc # "idle",
           drv' \in Driver, drv'.pc \in Early, drv'.pc # "idle",
           wire' \subseteq wire \cup {PrepareRequest(r) : r \in Ids},
           snd' \in Session, snd'.direction = snd.direction, snd'.state = snd.state,
           snd'.files = snd.files, snd'.decision = snd.decision, snd'.granted = snd.granted,
           snd'.cancelled = snd.cancelled, snd'.started = snd.started
    PROVE  TransferInv'
  <1>1. /\ snd.started = {} /\ snd.state # "Transfering" /\ snd.state # "Absent"
        /\ \A f \in Files : snd.files[f] \in {"Absent", "Pending"}
        /\ \A u \in Uploads : upl[u].pc = "idle"
        /\ \A r \in Ids, f \in Files : UploadRequest(r, f) \notin wire
    BY EarlyFacts
  <1>2. /\ snd \in Session /\ SessionInv(snd) /\ snd.direction = "Send" /\ wire \subseteq Request
        /\ upl' = upl
    BY Parts DEF serverVars
  <1>3. SessionInv(snd') /\ Offered(snd') = Offered(snd)
    BY <1>2, SideFieldsInv DEF Offered
  <1>4. wire' \subseteq Request /\ \A r \in Ids, f \in Files : UploadRequest(r, f) \notin wire'
    <2>1. \A r \in Ids : PrepareRequest(r) \in Request
      BY DEF PrepareRequest, Request
    <2>2. \A r, i \in Ids, f \in Files : UploadRequest(r, f) # PrepareRequest(i)
      BY DEF PrepareRequest, UploadRequest
    <2> QED BY <1>1, <1>2, <2>1, <2>2
  <1>5. FilesInv'
    BY <1>1 DEF FilesInv
  <1>6. LoopInv'
    BY DEF LoopInv, Early, Accepting, DriverSettlesSession
  <1>7. OnceInv'
    BY <1>1, <1>2, <1>4 DEF OnceInv, UploadRequest
  <1> QED BY <1>1, <1>2, <1>3, <1>4, <1>5, <1>6, <1>7, DriverFrame

(* The driver returns before the first upload. *)
LEMMA EarlyEnds ==
    ASSUME TransferInv, UNCHANGED <<serverVars, wire>>, drv.pc \in Early, drv.pc # "idle",
           drv' = [drv EXCEPT !.pc = "done"],
           snd' \in Session, SessionInv(snd'), snd'.direction = "Send", snd'.state # "Absent",
           ~IsActive(snd'), snd'.files = snd.files
    PROVE  TransferInv'
  <1>1. /\ \A f \in Files : snd.files[f] \in {"Absent", "Pending"}
        /\ \A u \in Uploads : upl[u].pc = "idle"
        /\ \A r \in Ids, f \in Files : UploadRequest(r, f) \notin wire
    BY EarlyFacts
  <1>2. drv \in Driver /\ wire \subseteq Request /\ upl' = upl
    BY Parts DEF serverVars
  <1>3. drv' \in Driver /\ drv'.pc = "done"
    BY <1>2 DEF Driver, DrvPc
  <1>4. FilesInv'
    BY <1>1, <1>3 DEF FilesInv, Early
  <1>5. LoopInv'
    BY <1>3 DEF LoopInv, Accepting, DriverSettlesSession, IsActive
  <1>6. OnceInv'
    BY <1>1, <1>2, <1>3 DEF OnceInv, UploadRequest, Early
  <1>7. Offered(snd') = Offered(snd)
    BY DEF Offered
  <1> QED BY <1>2, <1>3, <1>4, <1>5, <1>6, <1>7, DriverFrame

(* send_files_internal makes a session no request was ever made for. *)
LEMMA SendFilesInv ==
    ASSUME TransferInv, NEW offered \in SUBSET Files, NEW relay \in BOOLEAN,
           NEW force \in BOOLEAN, SendFiles(offered, relay, force)
    PROVE  TransferInv'
  <1>1. /\ drv.pc = "idle" /\ offered # {} /\ UNCHANGED <<serverVars, wire>>
        /\ snd' = NewSession("Send", offered)
    BY DEF SendFiles
  <1>2. /\ ServerInv /\ drv \in Driver /\ wire \subseteq Request
    BY Parts
  <1>3. drv' \in Driver /\ drv'.pc = "routing"
    BY <1>2, AttemptsAssumption DEF SendFiles, Driver, DrvPc
  <1>4. /\ snd' \in Session /\ SessionInv(snd')
    BY <1>1, NewSessionInv DEF Direction
  <1>5. /\ snd'.direction = "Send" /\ snd'.state = "Pending" /\ snd'.started = {}
        /\ \A f \in Files : snd'.files[f] = IF f \in offered THEN "Pending" ELSE "Absent"
    BY <1>1 DEF NewSession
  <1>6. Offered(snd') # {}
    BY <1>1, <1>5 DEF Offered
  <1>7. ServerInv'
    BY <1>1, <1>2, ServerNextInv
  <1>8. SenderInv'
    <2>1. SessionInv(snd)' <=> SessionInv(snd')
      BY DEF SessionInv, BaseInv, Offered, IsActive, Complete
    <2>2. Offered(snd)' = Offered(snd')
      BY DEF Offered
    <2> QED BY <1>3, <1>4, <1>5, <1>6, <2>1, <2>2 DEF SenderInv
  <1>9. \A r \in Ids : prep[r].pc = "idle" /\ PrepareRequest(r) \notin wire /\ sessions[r].state = "Absent"
    BY <1>1, <1>2 DEF TransferInv, OfferInv, ServerInv, HandlersInv, RequestInv
  <1>10. OfferInv'
    BY <1>1, <1>3, <1>9 DEF OfferInv, serverVars
  <1>11. FilesInv'
    BY <1>3, <1>5 DEF FilesInv
  <1>12. LoopInv'
    BY <1>3 DEF LoopInv, Accepting, DriverSettlesSession
  <1>13. OnceInv'
    <2>1. /\ \A u \in Uploads : upl[u].pc = "idle"
          /\ \A r \in Ids, f \in Files : UploadRequest(r, f) \notin wire
      BY <1>1, EarlyFacts DEF Early
    <2> QED BY <1>1, <2>1 DEF OnceInv, serverVars, UploadRequest
  <1> QED BY <1>1, <1>2, <1>3, <1>4, <1>7, <1>8, <1>10, <1>11, <1>12, <1>13
          DEF TransferInv, DriverTypeOK

(* The user cancels the send: its driver finds out later. *)
LEMMA CancelSendInv ==
    ASSUME TransferInv, CancelSend
    PROVE  TransferInv'
  <1>1. /\ IsActive(snd) /\ snd' = CancelSession(snd) /\ UNCHANGED <<serverVars, drv, wire>>
    BY DEF CancelSend
  <1>2. /\ snd \in Session /\ SessionInv(snd) /\ snd.direction = "Send" /\ drv \in Driver
        /\ wire \subseteq Request
    BY Parts
  <1>3. snd' \in Session /\ SessionInv(snd')
    BY <1>1, <1>2, CancelSessionInv
  <1>4. /\ snd'.direction = "Send" /\ snd'.state = "Canceled" /\ snd'.files = snd.files
        /\ snd'.started = snd.started
    BY <1>1, <1>2 DEF CancelSession, Session
  <1>5. Offered(snd') = Offered(snd) /\ Offered(snd)' = Offered(snd) /\ ~IsActive(snd') /\ ~IsActive(snd)'
    BY <1>4 DEF Offered, IsActive
  <1>6. drv.pc # "idle"
    BY <1>1 DEF TransferInv, SenderInv, IsActive
  <1>7. FilesInv'
    BY <1>1, <1>4 DEF TransferInv, FilesInv, Peer, serverVars
  <1>8. LoopInv'
    BY <1>1, <1>4, <1>5 DEF TransferInv, LoopInv, Peer, serverVars, DriverSettlesSession
  <1>9. OnceInv'
    BY <1>1, <1>4 DEF TransferInv, OnceInv, serverVars, UploadRequest
  <1> QED BY <1>1, <1>2, <1>3, <1>4, <1>5, <1>6, <1>7, <1>8, <1>9, DriverFrame

(* fail_session of a send session. *)
LEMMA GiveUpFacts ==
    ASSUME TransferInv, drv.pc # "idle"
    PROVE  LET t == FailSession(snd) IN
           /\ t \in Session /\ SessionInv(t) /\ t.direction = "Send" /\ t.state # "Absent"
           /\ ~IsActive(t) /\ t.files = snd.files
  <1>1. snd \in Session /\ SessionInv(snd) /\ snd.direction = "Send" /\ snd.state # "Absent"
    BY Parts DEF TransferInv, SenderInv
  <1>2. CASE IsActive(snd)
    <2>1. FailSession(snd) \in Session /\ SessionInv(FailSession(snd))
      BY <1>1, <1>2, FailSessionInv DEF SessionInv
    <2>2. /\ FailSession(snd).direction = "Send" /\ FailSession(snd).state = "Failed"
          /\ FailSession(snd).files = snd.files
      BY <1>1, <1>2 DEF FailSession, Session
    <2> QED BY <2>1, <2>2 DEF IsActive
  <1>3. CASE ~IsActive(snd)
    BY <1>1, <1>3 DEF FailSession
  <1> QED BY <1>2, <1>3

(* The steps before the peer's answer. *)
LEMMA RoutingInv ==
    ASSUME TransferInv, \/ RouteDirect \/ (\E via \in Vias : RouteRelay(via)) \/ MarkRelayed
                        \/ Registered \/ FallBack
    PROVE  TransferInv'
  <1> DEFINE SameButRoute ==
                /\ snd' \in Session /\ snd'.direction = snd.direction /\ snd'.state = snd.state
                /\ snd'.files = snd.files /\ snd'.decision = snd.decision
                /\ snd'.granted = snd.granted /\ snd'.cancelled = snd.cancelled
                /\ snd'.started = snd.started
  <1>1. /\ snd \in Session /\ drv \in Driver /\ drv.attempt \in Ids
    BY Parts
  <1>2. /\ UNCHANGED serverVars /\ drv.pc \in {"routing", "routed", "registering", "preparing"}
        /\ wire' \subseteq wire \cup {PrepareRequest(r) : r \in Ids}
    BY <1>1 DEF RouteDirect, RouteRelay, MarkRelayed, Registered, FallBack
  <1>3. drv' \in Driver /\ drv'.pc \in {"routing", "routed", "registering", "preparing"}
    BY <1>1, AttemptsAssumption
    DEF RouteDirect, RouteRelay, MarkRelayed, Registered, FallBack, Driver, DrvPc
  <1>4. SameButRoute
    <2>1. CASE RouteDirect \/ Registered \/ FallBack
      BY <1>1, <2>1 DEF RouteDirect, Registered, FallBack
    <2>2. ASSUME NEW via \in Vias, RouteRelay(via)
          PROVE  SameButRoute
      BY <1>1, <2>2, ViasAssumption DEF RouteRelay, Session
    <2>3. CASE MarkRelayed
      BY <1>1, <2>3 DEF MarkRelayed, Session, Route
    <2> QED BY <2>1, <2>2, <2>3
  <1> QED BY <1>2, <1>3, <1>4, EarlyMoves DEF Early

LEMMA EarlyReturnInv ==
    ASSUME TransferInv, \/ RouteFails \/ PrepareRefused \/ PrepareBroken
                        \/ ObserveCancelInPrepare
    PROVE  TransferInv'
  <1>1. /\ drv.pc \in {"routing", "preparing"} /\ drv' = [drv EXCEPT !.pc = "done"]
        /\ UNCHANGED <<serverVars, wire>>
    <2>1. CASE RouteFails \/ PrepareRefused \/ PrepareBroken
      BY <2>1 DEF RouteFails, PrepareRefused, PrepareBroken, GiveUp, PrepareOpen
    <2>2. CASE ObserveCancelInPrepare
      BY <2>2 DEF ObserveCancelInPrepare
    <2> QED BY <2>1, <2>2
  <1>2. CASE snd' = FailSession(snd)
    BY <1>1, <1>2, GiveUpFacts, EarlyEnds DEF Early
  <1>3. CASE ObserveCancelInPrepare
    <2>1. snd' = snd /\ snd.cancelled
      BY <1>3 DEF ObserveCancelInPrepare
    <2>2. /\ snd \in Session /\ SessionInv(snd) /\ snd.direction = "Send" /\ snd.state # "Absent"
      BY <1>1, Parts DEF TransferInv, SenderInv
    <2>3. ~IsActive(snd)
      BY <2>1, <2>2 DEF SessionInv, BaseInv, IsActive
    <2>4. /\ snd' \in Session /\ SessionInv(snd') /\ snd'.direction = "Send"
          /\ snd'.state # "Absent" /\ ~IsActive(snd') /\ snd'.files = snd.files
      BY <2>1, <2>2, <2>3
    <2> QED BY <1>1, <2>4, EarlyEnds DEF Early
  <1> QED BY <1>2, <1>3 DEF RouteFails, PrepareRefused, PrepareBroken, GiveUp

(* The peer's answer: files to upload, or none. *)
LEMMA GrantedInv ==
    ASSUME TransferInv, PrepareGranted \/ PrepareGrantedNothing
    PROVE  TransferInv'
  <1>1. /\ snd \in Session /\ SessionInv(snd) /\ snd.direction = "Send" /\ drv \in Driver
        /\ wire \subseteq Request
    BY Parts
  <1>2. /\ drv.pc = "preparing" /\ prep[drv.attempt].pc = "accepted" /\ UNCHANGED <<serverVars, wire>>
    BY DEF PrepareGranted, PrepareGrantedNothing, PrepareOpen
  <1>3. /\ snd.started = {} /\ \A f \in Files : snd.files[f] \in {"Absent", "Pending"}
        /\ \A u \in Uploads : upl[u].pc = "idle"
        /\ \A r \in Ids, f \in Files : UploadRequest(r, f) \notin wire
        /\ snd.state # "Absent"
    BY <1>2, EarlyFacts DEF Early
  <1>4. Peer.granted \subseteq Offered(snd) /\ Offered(snd) # {}
    BY <1>2, AcceptedPeer DEF TransferInv, SenderInv
  <1>5. /\ snd' \in Session /\ SessionInv(snd') /\ snd'.direction = "Send"
        /\ snd'.state # "Absent" /\ snd'.files = snd.files /\ snd'.started = snd.started
    <2>1. CASE snd' = snd
      BY <1>1, <1>3, <2>1
    <2>2. CASE snd' = SetState(snd, "Transfering")
      <3>1. snd' \in Session /\ SessionInv(snd')
        BY <1>1, <2>2, SetStateInv
      <3> QED BY <1>1, <1>3, <2>2, <3>1 DEF SetState, Session
    <2> QED BY <2>1, <2>2 DEF PrepareGranted, PrepareGrantedNothing
  <1>6. Offered(snd') = Offered(snd) /\ Offered(snd)' = Offered(snd)
    BY <1>5 DEF Offered
  <1>7. /\ drv' \in Driver /\ drv'.attempt = drv.attempt
        /\ \/ drv'.pc = "uploading" /\ drv'.todo = Peer.granted /\ Peer.granted # {}
           \/ drv'.pc = "skipping" /\ drv'.todo = Offered(snd) /\ Peer.granted = {}
    <2>1. Peer.granted \subseteq Files /\ Offered(snd) \subseteq Files
      BY <1>4 DEF Offered
    <2>2. CASE PrepareGranted
      BY <1>1, <2>1, <2>2 DEF PrepareGranted, Driver, DrvPc, Peer
    <2>3. CASE PrepareGrantedNothing
      BY <1>1, <2>1, <2>3 DEF PrepareGrantedNothing, Driver, DrvPc, Peer
    <2> QED BY <2>2, <2>3
  <1>8. Peer' = Peer /\ prep' = prep /\ upl' = upl
    BY <1>2, <1>7 DEF Peer, serverVars
  <1>9. FilesInv'
    BY <1>3, <1>5, <1>7 DEF FilesInv, Early
  <1>10. LoopInv'
    BY <1>2, <1>3, <1>4, <1>5, <1>6, <1>7, <1>8 DEF LoopInv, Accepting, DriverSettlesSession
  <1>11. OnceInv'
    BY <1>2, <1>3, <1>8 DEF OnceInv, UploadRequest
  <1> QED BY <1>1, <1>2, <1>5, <1>6, <1>7, <1>9, <1>10, <1>11, DriverFrame

-----------------------------------------------------------------------------
(* The loops over the files *)

(* t is s after a send driver reported st for f. *)
Reported(s, f, st, t) ==
    /\ t \in Session /\ SessionInv(t) /\ t.direction = "Send" /\ t.state # "Absent"
    /\ Offered(t) = Offered(s) /\ t.started = s.started
    /\ \A g \in Files : t.files[g] = s.files[g] \/ (g = f /\ t.files[g] = st)
    /\ IsActive(t) => IsActive(s) /\ t.files[f] = st
    /\ st = "Fail" => ~IsActive(t)

LEMMA ReportFacts ==
    ASSUME NEW s \in Session, SessionInv(s), s.direction = "Send", s.state # "Absent",
           NEW f \in Offered(s), NEW st \in FileState
    PROVE  Reported(s, f, st, SetFileState(s, f, st))
  <1> DEFINE m == [s EXCEPT !.files[f] = st, !.event = FileStateChanged(f, st)]
             t == SetFileState(s, f, st)
  <1>1. t \in Session /\ SessionInv(t)
    BY SetFileStateInv DEF Offered
  <1>2. CASE ~IsActive(s)
    <2>1. t = s
      BY <1>2 DEF SetFileState
    <2> HIDE DEF t
    <2> QED BY <1>1, <1>2, <2>1 DEF t, Reported
  <1>3. CASE IsActive(s)
    <2>1. s.files \in [Files -> FileState \cup {"Absent"}] /\ f \in Files /\ s.files[f] # "Absent"
      BY DEF Session, Offered
    <2>2. /\ m.direction = "Send" /\ m.state = s.state /\ m.started = s.started
          /\ m.files = [s.files EXCEPT ![f] = st]
      BY DEF Session
    <2>3. t = IF st = "Fail" THEN FailSession(m) ELSE CheckFinish(m)
      BY <1>3 DEF SetFileState
    <2>4. /\ t.direction = "Send" /\ t.started = s.started /\ t.files = m.files
          /\ t.state = IF st = "Fail" THEN "Failed"
                       ELSE IF Complete(m) THEN "Finished" ELSE s.state
      <3>1. CASE st = "Fail"
        BY <1>3, <2>2, <2>3, <3>1 DEF FailSession, IsActive, Session
      <3>2. CASE st # "Fail"
        BY <1>3, <2>2, <2>3, <3>2 DEF CheckFinish, SetState, IsActive, Session
      <3> QED BY <3>1, <3>2
    <2> HIDE DEF m, t
    <2>5. \A g \in Files : t.files[g] = IF g = f THEN st ELSE s.files[g]
      BY <2>1, <2>2, <2>4
    <2>6. st # "Absent"
      BY DEF FileState
    <2>7. Offered(t) = Offered(s)
      BY <2>1, <2>5, <2>6 DEF Offered
    <2>8. st = "Fail" => ~IsActive(t)
      BY <2>4 DEF IsActive
    <2>9. Reported(s, f, st, t)
      BY <1>1, <1>3, <2>1, <2>4, <2>5, <2>7, <2>8 DEF Reported, IsActive
    <2> QED BY <2>9 DEF t
  <1> QED BY <1>2, <1>3

(* What holds while the driver is in one of its loops. *)
LEMMA LoopFacts ==
    ASSUME TransferInv, drv.pc \in {"skipping", "uploading", "sending"}
    PROVE  /\ prep[drv.attempt].pc = "accepted" /\ Peer.granted \subseteq Offered(snd)
           /\ drv.todo \subseteq Offered(snd)
           /\ drv.pc = "sending" => drv.file \in Offered(snd)
           /\ snd \in Session /\ SessionInv(snd) /\ snd.direction = "Send"
           /\ snd.state # "Absent" /\ drv \in Driver /\ wire \subseteq Request
           /\ LoopInv /\ FilesInv /\ OnceInv
  <1>1. LoopInv /\ FilesInv /\ OnceInv /\ SenderInv
    BY DEF TransferInv
  <1>2. prep[drv.attempt].pc = "accepted"
    BY <1>1 DEF LoopInv, Accepting
  <1>3. Peer.granted \subseteq Offered(snd)
    BY <1>2, AcceptedPeer
  <1>4. drv.todo \subseteq Offered(snd) /\ (drv.pc = "sending" => drv.file \in Offered(snd))
    BY <1>1, <1>3 DEF LoopInv
  <1>5. snd.state # "Absent"
    BY <1>1 DEF SenderInv
  <1> QED BY <1>1, <1>2, <1>3, <1>4, <1>5, Parts

(* A file not granted is reported skipped; the last one ends the session. *)
LEMMA SkipFileInv ==
    ASSUME TransferInv, NEW f \in Files, SkipFile(f)
    PROVE  TransferInv'
  <1>1. /\ drv.pc = "skipping" /\ f \in drv.todo /\ snd' = SetFileState(snd, f, "Skip")
        /\ UNCHANGED <<serverVars, wire>>
    BY DEF SkipFile
  <1>2. /\ prep[drv.attempt].pc = "accepted" /\ f \in Offered(snd) /\ snd \in Session
        /\ SessionInv(snd) /\ snd.direction = "Send" /\ snd.state # "Absent"
        /\ drv \in Driver /\ wire \subseteq Request /\ LoopInv /\ FilesInv /\ OnceInv
    BY <1>1, LoopFacts
  <1>3. /\ snd' \in Session /\ SessionInv(snd') /\ snd'.direction = "Send"
        /\ snd'.state # "Absent" /\ Offered(snd') = Offered(snd) /\ snd'.started = snd.started
        /\ \A g \in Files : snd'.files[g] = snd.files[g] \/ (g = f /\ snd'.files[g] = "Skip")
        /\ IsActive(snd') => IsActive(snd) /\ snd'.files[f] = "Skip"
    <2>1. "Skip" \in FileState
      BY DEF FileState
    <2>2. Reported(snd, f, "Skip", snd')
      BY <1>1, <1>2, <2>1, ReportFacts
    <2> QED BY <2>2 DEF Reported
  <1>4. /\ drv' \in Driver /\ drv'.attempt = drv.attempt /\ drv'.todo = drv.todo \ {f}
        /\ drv'.pc = IF drv.todo = {f} THEN "done" ELSE "skipping"
    BY <1>1, <1>2 DEF SkipFile, Driver, DrvPc
  <1>5. Peer' = Peer /\ prep' = prep /\ upl' = upl
    BY <1>1, <1>4 DEF Peer, serverVars
  <1>6. Peer.granted = {} /\ drv.todo \subseteq Offered(snd)
        /\ (IsActive(snd) => \A g \in Offered(snd) \ drv.todo : snd.files[g] = "Skip")
    BY <1>1, <1>2 DEF LoopInv
  <1>7. IsActive(snd') => \A g \in Offered(snd) \ (drv.todo \ {f}) : snd'.files[g] = "Skip"
    BY <1>3, <1>6 DEF Offered
  <1>8. Offered(snd)' = Offered(snd) /\ (IsActive(snd)' <=> IsActive(snd'))
    BY <1>3 DEF Offered, IsActive
  <1>9. FilesInv'
    BY <1>2, <1>3, <1>4, <1>5, <1>6 DEF FilesInv, Early
  <1>10. LoopInv'
    <2>1. CASE drv.todo = {f}
      <3>1. IsActive(snd') => Complete(snd')
        BY <1>2, <1>3, <1>7, <2>1 DEF Complete
      <3>2. ~IsActive(snd')
        BY <1>3, <3>1 DEF SessionInv
      <3> QED BY <1>4, <1>8, <2>1, <3>2 DEF LoopInv, Accepting, DriverSettlesSession
    <2>2. CASE drv.todo # {f}
      <3>1. drv'.todo # {} /\ drv'.pc = "skipping" /\ drv'.todo \subseteq Offered(snd)
        BY <1>1, <1>4, <1>6, <2>2
      <3> QED BY <1>2, <1>4, <1>5, <1>6, <1>7, <1>8, <3>1
              DEF LoopInv, Accepting, DriverSettlesSession
    <2> QED BY <2>1, <2>2
  <1>11. OnceInv'
    BY <1>1, <1>2, <1>3, <1>4, <1>5 DEF OnceInv, UploadRequest, Early
  <1> QED BY <1>1, <1>2, <1>3, <1>4, <1>9, <1>10, <1>11, DriverFrame

(* The next upload goes out, of a file never requested before. *)
LEMMA BeginUploadInv ==
    ASSUME TransferInv, NEW f \in Files, BeginUpload(f)
    PROVE  TransferInv'
  <1> DEFINE t == SetFileState(snd, f, "Transfer")
  <1>1. /\ drv.pc = "uploading" /\ f \in drv.todo /\ snd' = [t EXCEPT !.started = t.started \cup {f}]
        /\ wire' = wire \cup {UploadRequest(drv.attempt, f)} /\ UNCHANGED serverVars
    BY DEF BeginUpload
  <1>2. /\ prep[drv.attempt].pc = "accepted" /\ f \in Offered(snd) /\ snd \in Session
        /\ SessionInv(snd) /\ snd.direction = "Send" /\ snd.state # "Absent"
        /\ drv \in Driver /\ wire \subseteq Request /\ LoopInv /\ FilesInv /\ OnceInv
    BY <1>1, LoopFacts
  <1>3. /\ t \in Session /\ SessionInv(t) /\ t.direction = "Send"
        /\ t.state # "Absent" /\ Offered(t) = Offered(snd) /\ t.started = snd.started
        /\ \A g \in Files : t.files[g] = snd.files[g] \/ (g = f /\ t.files[g] = "Transfer")
        /\ IsActive(t) => IsActive(snd)
    <2>1. "Transfer" \in FileState
      BY DEF FileState
    <2>2. Reported(snd, f, "Transfer", t)
      BY <1>2, <2>1, ReportFacts
    <2> QED BY <2>2 DEF Reported
  <1> HIDE DEF t
  <1>4. /\ snd' \in Session /\ snd'.direction = t.direction /\ snd'.state = t.state
        /\ snd'.files = t.files /\ snd'.decision = t.decision /\ snd'.granted = t.granted
        /\ snd'.cancelled = t.cancelled /\ snd'.started = snd.started \cup {f}
    BY <1>1, <1>3 DEF Session
  <1>5. SessionInv(snd') /\ Offered(snd') = Offered(snd) /\ (IsActive(snd)' => IsActive(snd))
        /\ Offered(snd)' = Offered(snd)
    BY <1>3, <1>4, SideFieldsInv DEF Offered, IsActive
  <1>6. /\ drv' \in Driver /\ drv'.attempt = drv.attempt /\ drv'.todo = drv.todo \ {f}
        /\ drv'.pc = "sending" /\ drv'.file = f
    BY <1>2 DEF BeginUpload, Driver, DrvPc
  <1>7. Peer' = Peer /\ prep' = prep /\ upl' = upl /\ drv.attempt \in Ids
    BY <1>1, <1>6, Parts DEF Peer, serverVars
  <1>8. FilesInv'
    BY <1>2, <1>3, <1>4, <1>6, <1>7 DEF FilesInv, Early
  <1>9. LoopInv'
    <2>1. /\ Peer.granted # {} /\ drv.todo \subseteq Peer.granted /\ drv.todo \cap snd.started = {}
          /\ IsActive(snd) => \A g \in Peer.granted \ drv.todo : snd.files[g] = "Finish"
      BY <1>1, <1>2 DEF LoopInv
    <2>2. \A g \in Peer.granted \ (drv'.todo \cup {f}) : g \in Files /\ snd'.files[g] = snd.files[g]
      <3>1. Peer.granted \subseteq Files
        BY <1>1, LoopFacts DEF Offered
      <3> QED BY <1>3, <1>4, <1>6, <3>1
    <2>3. drv'.todo \cap snd'.started = {}
      BY <1>4, <1>6, <2>1
    <2> QED BY <1>1, <1>2, <1>5, <1>6, <1>7, <2>1, <2>2, <2>3
            DEF LoopInv, Accepting, DriverSettlesSession
  <1>10. OnceInv'
    <2>1. f \notin snd.started
      BY <1>1, <1>2 DEF LoopInv
    <2>2. ASSUME NEW r \in Ids, NEW g \in Files, UploadRequest(r, g) \in wire'
          PROVE  /\ r = drv.attempt /\ g \in snd'.started
                 /\ \A u \in Uploads : upl[u].pc # "idle" => upl[u].file # g
      <3>1. CASE UploadRequest(r, g) \in wire
        BY <1>2, <1>4, <3>1 DEF OnceInv
      <3>2. CASE UploadRequest(r, g) = UploadRequest(drv.attempt, f)
        <4>1. r = drv.attempt /\ g = f
          BY <3>2 DEF UploadRequest
        <4> QED BY <1>2, <1>4, <2>1, <4>1 DEF OnceInv
      <3> QED BY <1>1, <2>2, <3>1, <3>2
    <2> QED BY <1>2, <1>4, <1>6, <1>7, <2>2 DEF OnceInv, UploadRequest, Early
  <1>11. wire' \subseteq Request
    BY <1>1, <1>2, <1>7 DEF UploadRequest, Request
  <1> QED BY <1>1, <1>3, <1>4, <1>5, <1>6, <1>8, <1>9, <1>10, <1>11, DriverFrame

(* 200: the last file of a full grant ends the session. *)
LEMMA UploadSentInv ==
    ASSUME TransferInv, NEW u \in Uploads, UploadSent(u)
    PROVE  TransferInv'
  <1> DEFINE f == drv.file
  <1>1. /\ drv.pc = "sending" /\ snd' = SetFileState(snd, f, "Finish")
        /\ UNCHANGED <<serverVars, wire>>
        /\ upl[u].id = drv.attempt /\ upl[u].file = f /\ upl[u].pc = "ok"
    BY DEF UploadSent, UploadOpen, Handler
  <1>2. /\ prep[drv.attempt].pc = "accepted" /\ f \in Offered(snd) /\ snd \in Session
        /\ SessionInv(snd) /\ snd.direction = "Send" /\ snd.state # "Absent"
        /\ drv \in Driver /\ wire \subseteq Request /\ LoopInv /\ FilesInv /\ OnceInv
        /\ Peer.granted \subseteq Offered(snd)
    BY <1>1, LoopFacts
  <1>3. /\ snd' \in Session /\ SessionInv(snd') /\ snd'.direction = "Send"
        /\ snd'.state # "Absent" /\ Offered(snd') = Offered(snd) /\ snd'.started = snd.started
        /\ \A g \in Files : snd'.files[g] = snd.files[g] \/ (g = f /\ snd'.files[g] = "Finish")
        /\ IsActive(snd') => IsActive(snd) /\ snd'.files[f] = "Finish"
    <2>1. "Finish" \in FileState
      BY DEF FileState
    <2>2. Reported(snd, f, "Finish", snd')
      BY <1>1, <1>2, <2>1, ReportFacts
    <2> QED BY <2>2 DEF Reported
  <1>4. /\ drv' \in Driver /\ drv'.attempt = drv.attempt /\ drv'.todo = drv.todo
        /\ drv'.pc = IF drv.todo = {} THEN "done" ELSE "uploading"
    BY <1>2 DEF UploadSent, Driver, DrvPc
  <1>5. Peer' = Peer /\ prep' = prep /\ upl' = upl
    BY <1>1, <1>4 DEF Peer, serverVars
  <1>6. /\ Peer.granted # {} /\ drv.todo \subseteq Peer.granted /\ drv.todo \cap snd.started = {}
        /\ IsActive(snd) =>
              \A g \in Peer.granted \ (drv.todo \cup {f}) : snd.files[g] = "Finish"
    BY <1>1, <1>2 DEF LoopInv
  <1>7. IsActive(snd') => \A g \in Peer.granted \ drv.todo : snd'.files[g] = "Finish"
    <2>1. Peer.granted \subseteq Files
      BY <1>2 DEF Offered
    <2> QED BY <1>3, <1>6, <2>1
  <1>8. Offered(snd)' = Offered(snd) /\ (IsActive(snd)' <=> IsActive(snd'))
    BY <1>3 DEF Offered, IsActive
  <1>9. FilesInv'
    BY <1>1, <1>2, <1>3, <1>4, <1>5 DEF FilesInv, Early
  <1>10. LoopInv'
    <2>1. CASE drv.todo = {}
      <3>1. PartlyGranted' <=> Peer.granted # {} /\ Peer.granted # Offered(snd)
        BY <1>5, <1>8 DEF PartlyGranted, Peer
      <3>2. IsActive(snd') /\ Peer.granted = Offered(snd) => Complete(snd')
        BY <1>3, <1>6, <1>7, <2>1 DEF Complete
      <3>3. ~IsActive(snd') \/ PartlyGranted'
        BY <1>3, <1>6, <3>1, <3>2 DEF SessionInv
      <3> QED BY <1>4, <1>8, <2>1, <3>3 DEF LoopInv, Accepting, DriverSettlesSession
    <2>2. CASE drv.todo # {}
      BY <1>2, <1>3, <1>4, <1>5, <1>6, <1>7, <1>8, <2>2
      DEF LoopInv, Accepting, DriverSettlesSession
    <2> QED BY <2>1, <2>2
  <1>11. OnceInv'
    BY <1>1, <1>2, <1>3, <1>4, <1>5 DEF OnceInv, UploadRequest, Early
  <1> QED BY <1>1, <1>2, <1>3, <1>4, <1>9, <1>10, <1>11, DriverFrame

(* An upload fails: the session is over and the loop with it. *)
LEMMA UploadFailedInv ==
    ASSUME TransferInv, UploadFailed
    PROVE  TransferInv'
  <1> DEFINE f == drv.file
  <1>1. /\ drv.pc = "sending" /\ snd' = SetFileState(snd, f, "Fail")
        /\ UNCHANGED serverVars /\ TellPeer
    BY DEF UploadFailed
  <1>2. /\ prep[drv.attempt].pc = "accepted" /\ f \in Offered(snd) /\ snd \in Session
        /\ SessionInv(snd) /\ snd.direction = "Send" /\ snd.state # "Absent"
        /\ drv \in Driver /\ wire \subseteq Request /\ FilesInv /\ OnceInv
    BY <1>1, LoopFacts
  <1>3. /\ snd' \in Session /\ SessionInv(snd') /\ snd'.direction = "Send"
        /\ snd'.state # "Absent" /\ Offered(snd') = Offered(snd) /\ snd'.started = snd.started
        /\ \A g \in Files : snd'.files[g] = snd.files[g] \/ (g = f /\ snd'.files[g] = "Fail")
        /\ ~IsActive(snd')
    <2>1. "Fail" \in FileState
      BY DEF FileState
    <2>2. Reported(snd, f, "Fail", snd')
      BY <1>1, <1>2, <2>1, ReportFacts
    <2> QED BY <2>2 DEF Reported
  <1>4. /\ drv' \in Driver /\ drv'.attempt = drv.attempt /\ drv'.pc = "cancelling"
        /\ wire' \subseteq Request
        /\ \A r \in Ids, g \in Files : UploadRequest(r, g) \in wire' => UploadRequest(r, g) \in wire
    BY <1>1, TellPeerFacts
  <1>5. Peer' = Peer /\ prep' = prep /\ upl' = upl
    BY <1>1, <1>4 DEF Peer, serverVars
  <1>6. ~IsActive(snd)'
    BY <1>3 DEF IsActive
  <1>7. FilesInv'
    BY <1>2, <1>3, <1>4, <1>5 DEF FilesInv, Early
  <1>8. LoopInv'
    BY <1>2, <1>4, <1>5, <1>6 DEF LoopInv, Accepting, DriverSettlesSession
  <1>9. OnceInv'
    BY <1>1, <1>2, <1>3, <1>4, <1>5 DEF OnceInv, UploadRequest, Early
  <1> QED BY <1>1, <1>2, <1>3, <1>4, <1>7, <1>8, <1>9, DriverFrame

-----------------------------------------------------------------------------
(* Cancelling, and the end of a connection *)

(* A step that moves only the driver's place and asks for no file. *)
LEMMA DriverPlaceInv ==
    ASSUME TransferInv, UNCHANGED <<serverVars, snd>>, wire' \subseteq Request,
           \A r \in Ids : PrepareRequest(r) \in wire' => PrepareRequest(r) \in wire,
           \A r \in Ids, f \in Files : UploadRequest(r, f) \in wire' => UploadRequest(r, f) \in wire,
           drv' \in Driver, drv'.attempt = drv.attempt,
           drv'.pc \in Early <=> drv.pc \in Early, drv'.pc = "idle" <=> drv.pc = "idle",
           LoopInv'
    PROVE  TransferInv'
  <1>1. ServerInv /\ ServerInv' /\ DriverTypeOK
    BY ServerNextInv DEF TransferInv
  <1>2. PeerKept /\ NoArrival
    BY <1>1, ServerStepKeeps DEF NoArrival, serverVars
  <1>3. UNCHANGED <<sessions, prep>>
    BY DEF serverVars
  <1>4. OfferInv'
    BY <1>2, <1>3, OfferKept
  <1>5. OnceInv'
    BY <1>2, OnceKept
  <1>6. FilesInv'
    BY <1>2, FilesKept
  <1>7. SenderInv'
    BY SenderKept
  <1> QED BY <1>1, <1>4, <1>5, <1>6, <1>7 DEF TransferInv, DriverTypeOK

LEMMA BreakConnectionInv ==
    ASSUME TransferInv, BreakConnection
    PROVE  TransferInv'
  <1>1. /\ UNCHANGED <<serverVars, snd, wire>> /\ drv' = [drv EXCEPT !.up = FALSE] /\ drv \in Driver
    BY Parts DEF BreakConnection
  <1>2. /\ drv' \in Driver /\ drv'.pc = drv.pc /\ drv'.attempt = drv.attempt
        /\ drv'.todo = drv.todo /\ drv'.file = drv.file
    BY <1>1 DEF Driver
  <1>3. /\ Peer' = Peer /\ Offered(snd)' = Offered(snd) /\ (IsActive(snd)' <=> IsActive(snd))
        /\ PartlyGranted' = PartlyGranted
    BY <1>1, <1>2 DEF Peer, Offered, IsActive, PartlyGranted, serverVars
  <1>4. LoopInv'
    BY <1>1, <1>2, <1>3 DEF TransferInv, LoopInv, DriverSettlesSession, serverVars
  <1> QED BY <1>1, <1>2, <1>4, Parts, DriverPlaceInv

(* A driver that cancels has an ended session. *)
LEMMA StopUploadInv ==
    ASSUME TransferInv, ObserveCancelInUpload
    PROVE  TransferInv'
  <1>1. UNCHANGED <<serverVars, snd>> /\ snd.cancelled /\ drv.pc = "sending" /\ TellPeer
    BY DEF ObserveCancelInUpload
  <1>2. /\ prep[drv.attempt].pc = "accepted" /\ SessionInv(snd) /\ prep' = prep
    BY <1>1, LoopFacts DEF serverVars
  <1>3. drv' \in Driver /\ drv'.pc = "cancelling" /\ drv'.attempt = drv.attempt
    BY <1>1, TellPeerFacts
  <1>4. ~IsActive(snd)'
    BY <1>1, <1>2 DEF SessionInv, BaseInv, IsActive
  <1>5. LoopInv'
    BY <1>2, <1>3, <1>4 DEF LoopInv, Accepting, DriverSettlesSession
  <1> QED BY <1>1, <1>3, <1>5, TellPeerFacts, DriverPlaceInv DEF Early

LEMMA CancelReturnsInv ==
    ASSUME TransferInv, CancelReturns
    PROVE  TransferInv'
  <1>1. /\ UNCHANGED <<serverVars, snd, wire>> /\ drv.pc = "cancelling"
        /\ drv' = [drv EXCEPT !.pc = "done"]
    BY DEF CancelReturns
  <1>2. drv' \in Driver /\ drv'.pc = "done" /\ drv'.attempt = drv.attempt
    BY <1>1, Parts DEF Driver, DrvPc
  <1>3. ~IsActive(snd)'
    BY <1>1 DEF TransferInv, LoopInv, IsActive
  <1>4. LoopInv'
    BY <1>2, <1>3 DEF LoopInv, Accepting, DriverSettlesSession
  <1> QED BY <1>1, <1>2, <1>4, Parts, DriverPlaceInv DEF Early

-----------------------------------------------------------------------------
(* The theorems *)

LEMMA TransferNextInv == TransferInv /\ [TransferNext]_transferVars => TransferInv'
  <1> SUFFICES ASSUME TransferInv, [TransferNext]_transferVars PROVE TransferInv'
    OBVIOUS
  <1>s. [ServerNext]_serverVars
    BY TransferStepsAreServerSteps
  <1>0. CASE UNCHANGED transferVars
    <2>1. UNCHANGED <<serverVars, snd, drv, wire, prep, upl>>
      BY <1>0 DEF transferVars, serverVars
    <2>2. NoArrival
      BY <2>1 DEF NoArrival
    <2> QED BY <1>s, <2>1, <2>2, ReceiverStepInv
  <1>1. ASSUME NEW offered \in SUBSET Files, NEW relay \in BOOLEAN, NEW force \in BOOLEAN,
               SendFiles(offered, relay, force)
        PROVE  TransferInv'
    BY <1>1, SendFilesInv
  <1>2. CASE CancelSend \/ BreakConnection
    BY <1>2, CancelSendInv, BreakConnectionInv
  <1>3. CASE DriverStep \/ DriverReturns
    BY <1>3, RoutingInv, EarlyReturnInv, GrantedInv, SkipFileInv, BeginUploadInv, UploadSentInv,
       UploadFailedInv, StopUploadInv, CancelReturnsInv
    DEF DriverStep, DriverReturns
  <1>4. CASE Delivery
    BY <1>4, <1>s, DeliverPrepareInv, DeliverCancelInv, DeliverUploadInv, LoseRequestInv
    DEF Delivery
  <1>5. ASSUME NEW r \in Ids, \/ ReceiverHandler(r)
                             \/ \E chosen \in SUBSET Files : ReceiverAccepts(r, chosen)
                             \/ ReceiverDeclines(r)
                             \/ ReceiverCancels(r)
        PROVE  TransferInv'
    BY <1>5, <1>s, ReceiverHandlerInv, ReceiverUserInv
  <1>6. ASSUME NEW u \in Uploads,
               ReceiverConfig(u) \/ ReceiverUpload(u) \/ ReceiveBody(u) \/ ReceiverFails(u)
        PROVE  TransferInv'
    BY <1>6, <1>s, ReceiverUploadInv
  <1>7. CASE ReceiverLosesConnection
    BY <1>7, <1>s, ReceiverDisconnectInv
  <1> QED BY <1>0, <1>1, <1>2, <1>3, <1>4, <1>5, <1>6, <1>7 DEF TransferNext

LEMMA TransferInitInv == TransferInit => TransferInv
  <1> SUFFICES ASSUME TransferInit PROVE TransferInv
    OBVIOUS
  <1>1. ServerInv
    BY ServerInitInv DEF TransferInit
  <1>2. snd = NoSession /\ snd \in Session /\ SessionInv(snd)
    BY NoSessionInv DEF TransferInit
  <1>3. /\ snd.direction = "Send" /\ snd.state = "Absent" /\ snd.started = {}
        /\ \A f \in Files : snd.files[f] = "Absent"
    BY <1>2 DEF NoSession, NewSession
  <1>4. /\ drv.pc = "idle" /\ wire = {} /\ drv \in Driver
    BY AttemptsAssumption DEF TransferInit, Driver, DrvPc
  <1>5. /\ \A r \in Ids : prep[r].pc = "idle" /\ sessions[r].state = "Absent"
        /\ \A u \in Uploads : upl[u].pc = "idle"
    BY DEF TransferInit, ServerInit, Init, NoSession, NewSession
  <1>6. OfferInv /\ FilesInv /\ LoopInv /\ OnceInv /\ SenderInv
    BY <1>2, <1>3, <1>4, <1>5
    DEF OfferInv, FilesInv, LoopInv, OnceInv, SenderInv, Early, Accepting, DriverSettlesSession
  <1> QED BY <1>1, <1>2, <1>4, <1>6 DEF TransferInv, DriverTypeOK

(* The inductive invariant of the two nodes and the wire between them. *)
THEOREM TransferInvariance == TransferSpec => []TransferInv
  BY TransferInitInv, TransferNextInv, PTL DEF TransferSpec

(* Both nodes' state keeps its shape. *)
THEOREM TransferTypes == TransferSpec => []TransferTypeOK
  <1>1. TransferInv => TransferTypeOK
    BY DEF TransferInv, ServerInv, DriverTypeOK, TransferTypeOK
  <1> QED BY <1>1, TransferInvariance, PTL

(* However the connections break and the users cancel, a file the sender    *)
(* shows as sent was written in full at the receiver, one it shows as       *)
(* skipped was not granted there, and its Finished is of a session that is  *)
(* over there too (handle.rs, run_send_driver; server.rs, handle_upload).   *)
THEOREM SenderClaims == TransferSpec => []SenderClaimsHold
  <1>1. TransferInv => SenderClaimsHold
    <2> SUFFICES ASSUME TransferInv PROVE SenderClaimsHold
      OBVIOUS
    <2>1. FilesInv /\ SenderInv /\ ServerInv /\ drv.attempt \in Ids /\ SessionInv(Peer)
          /\ OutcomeMatchesUploads
      BY Parts, OutcomesFollow DEF TransferInv, Peer
    <2>2. ASSUME snd.state = "Finished" PROVE ~IsActive(Peer)
      <3>1. Offered(snd) # {} /\ \A f \in Offered(snd) : snd.files[f] \in {"Finish", "Skip"}
        BY <2>1, <2>2 DEF SenderInv, SessionInv, BaseInv, Complete
      <3>2. \A u \in Uploads : upl[u].pc = "ok" => prep[upl[u].id].pc = "accepted"
        BY <2>1 DEF ServerInv, HandlersInv, UploadInv
      <3>3. prep[drv.attempt].pc = "accepted"
        BY <2>1, <3>1, <3>2 DEF FilesInv, Offered
      <3>4. Offered(Peer) = Offered(snd) /\ Peer.decision = "Accepted"
        BY <3>3, AcceptedPeer
      <3>5. ASSUME NEW f \in Offered(snd), IsActive(Peer)
            PROVE  Peer.files[f] \in {"Finish", "Skip"}
        <4>1. CASE snd.files[f] = "Finish"
          <5>1. PICK u \in Uploads : upl[u].id = drv.attempt /\ upl[u].file = f /\ upl[u].pc = "ok"
            BY <2>1, <4>1 DEF FilesInv, Offered
          <5>2. Peer.files[f] = "Finish" \/ Peer.state \in {"Failed", "Canceled"}
            BY <2>1, <5>1 DEF OutcomeMatchesUploads, Peer
          <5> QED BY <3>5, <5>2 DEF IsActive
        <4>2. CASE snd.files[f] = "Skip"
          <5>1. f \notin Peer.granted
            BY <2>1, <4>2 DEF FilesInv, Offered
          <5>2. f \in Files /\ Peer.files[f] # "Absent"
            BY <3>4 DEF Offered
          <5> QED BY <2>1, <3>4, <5>1, <5>2 DEF SessionInv, BaseInv
        <4> QED BY <3>1, <4>1, <4>2
      <3>6. IsActive(Peer) => Complete(Peer)
        BY <3>1, <3>4, <3>5 DEF Complete
      <3> QED BY <2>1, <3>6 DEF SessionInv
    <2>3. \A u \in Uploads : upl[u].pc = "ok" => Stored(u)
      BY <2>1 DEF OutcomeMatchesUploads
    <2> QED BY <2>1, <2>2, <2>3 DEF FilesInv, SenderClaimsHold, Peer
  <1> QED BY <1>1, TransferInvariance, PTL

(* No schedule of breaks, late arrivals and fallbacks stores a file twice. *)
THEOREM NothingStoredTwice == TransferSpec => []StoredAtMostOnce
  <1>1. TransferInv => StoredAtMostOnce
    <2> SUFFICES ASSUME TransferInv PROVE StoredAtMostOnce
      OBVIOUS
    <2>1. \A u \in Uploads : upl[u].outcome = "Finish" => upl[u].pc # "idle"
      BY DEF TransferInv, ServerInv, HandlersInv, DiskInv
    <2> QED BY <2>1 DEF TransferInv, OnceInv, StoredAtMostOnce
  <1> QED BY <1>1, TransferInvariance, PTL

(* Every return path of run_send_driver leaves the session settled. *)
THEOREM DriverSettles == TransferSpec => []DriverSettlesSession
  <1>1. TransferInv => DriverSettlesSession
    BY DEF TransferInv, LoopInv
  <1> QED BY <1>1, TransferInvariance, PTL

(* The receiving node of a transfer is a receive server: what is proved of *)
(* ReceiveServer's safety, and through it of SessionManager, holds of it.  *)
THEOREM ReceiverUsesSessionManager == TransferSpec => Spec
  <1>1. TransferInit => Init
    BY DEF TransferInit, ServerInit
  <1>2. TransferInv /\ [TransferNext]_transferVars => [Next]_vars
    BY TransferStepsAreServerSteps, ServerStepsAreMessages DEF TransferInv
  <1> QED BY <1>1, <1>2, TransferInvariance, PTL DEF TransferSpec, Spec

(* A sender that gives up, at whichever await of its driver, leaves no      *)
(* armed offer behind at the receiver without its cancel on the way, and no *)
(* guard cancels the session of a sender that got its answer.               *)
THEOREM AbandonedTransfersWatched == TransferSpec => []GuardMindsItsRequest
  <1>1. TransferInit => AllWatched
    BY WatchInit DEF TransferInit
  <1>2. TransferInv /\ AllWatched /\ [TransferNext]_transferVars => AllWatched'
    BY TransferStepsAreServerSteps, WatchStep DEF TransferInv
  <1>3. TransferInv /\ AllWatched => GuardMindsItsRequest
    BY WatchedOffers, GuardSpares DEF TransferInv, GuardMindsItsRequest
  <1> QED BY <1>1, <1>2, <1>3, TransferInvariance, PTL DEF TransferSpec

-----------------------------------------------------------------------------
(***************************************************************************)
(* The sender's session seen as the only session of its own actor: each    *)
(* step of the user or of the driver is one message of SessionManager.     *)
(***************************************************************************)

(* The helpers of the instance are those of Session. *)
LEMMA SenderHelpers ==
    ASSUME NEW s, NEW f, NEW st
    PROVE  /\ Sender!NoSession = NoSession
           /\ Sender!NewSession(st, f) = NewSession(st, f)
           /\ Sender!CancelSession(s) = CancelSession(s)
           /\ Sender!FailSession(s) = FailSession(s)
           /\ Sender!SetState(s, st) = SetState(s, st)
           /\ Sender!SetFileState(s, f, st) = SetFileState(s, f, st)
           /\ Sender!Offered(s) = Offered(s)
           /\ Sender!Summary(s) = Summary(s)
  <1>1. /\ Sender!NewSession(st, f) = NewSession(st, f)
        /\ Sender!NewSession("Send", {}) = NewSession("Send", {})
    BY DEF Sender!NewSession, NewSession, Sender!StateChanged, StateChanged
  <1>2. Sender!NoSession = NoSession
    BY <1>1 DEF Sender!NoSession, NoSession
  <1>3. Sender!CancelSession(s) = CancelSession(s)
    BY DEF Sender!CancelSession, CancelSession, Sender!IsActive, IsActive, Sender!StateChanged,
           StateChanged, Sender!Answer, Answer
  <1>4. \A t : Sender!FailSession(t) = FailSession(t)
    BY DEF Sender!FailSession, FailSession, Sender!IsActive, IsActive, Sender!FailedEvent,
           FailedEvent, Sender!Answer, Answer
  <1>5. \A t, x : Sender!SetState(t, x) = SetState(t, x)
    BY DEF Sender!SetState, SetState, Sender!IsActive, IsActive, Sender!StateChanged, StateChanged
  <1>6. \A t : Sender!Offered(t) = Offered(t)
    BY DEF Sender!Offered, Offered
  <1>7. \A t : Sender!CheckFinish(t) = CheckFinish(t)
    BY <1>5, <1>6 DEF Sender!CheckFinish, CheckFinish, Sender!Complete, Complete,
                      Sender!IsActive, IsActive
  <1>8. Sender!SetFileState(s, f, st) = SetFileState(s, f, st)
    BY <1>4, <1>6, <1>7 DEF Sender!SetFileState, SetFileState, Sender!IsActive, IsActive,
                            Sender!FileStateChanged, FileStateChanged
  <1>9. Sender!Summary(s) = Summary(s)
    BY DEF Sender!Summary, Summary
  <1> QED BY <1>1, <1>2, <1>3, <1>4, <1>5, <1>6, <1>8, <1>9

(* A new value of the sender's session is an update of the instance. *)
LEMMA SenderUpdate ==
    ASSUME NEW t, snd' = t
    PROVE  Sender!Update(Direct, t)
  <1>1. [id \in {Direct} |-> snd]' = [[id \in {Direct} |-> snd] EXCEPT ![Direct] = t]
    OBVIOUS
  <1>2. Sender!Summary(t) = Summary(t)
    BY SenderHelpers
  <1>3. [id \in {Direct} |-> Summary(snd)]' = Sender!Summaries([id \in {Direct} |-> snd]')
    BY <1>2 DEF Sender!Summaries, Summary, Sender!Summary
  <1> QED BY <1>1, <1>3 DEF Sender!Update

LEMMA SenderStepsAreMessages ==
    TransferInv /\ [TransferNext]_transferVars => [Sender!Next]_(Sender!vars)
  <1> DEFINE bar == [id \in {Direct} |-> snd]
  <1> SUFFICES ASSUME TransferInv, [TransferNext]_transferVars
               PROVE  [Sender!Next]_(Sender!vars)
    OBVIOUS
  <1>1. /\ snd \in Session /\ SessionInv(snd) /\ snd.direction = "Send"
        /\ drv.pc = "idle" <=> snd.state = "Absent"
    BY Parts DEF TransferInv, SenderInv
  <1>2. bar[Direct] = snd
    OBVIOUS
  <1>3. ASSUME snd' = snd PROVE UNCHANGED Sender!vars
    BY <1>3 DEF Sender!vars, Summary
  <1>4. ASSUME snd' = FailSession(snd), drv.pc # "idle" PROVE Sender!Next
    <2>1. Sender!Update(Direct, Sender!FailSession(snd))
      BY <1>4, SenderHelpers, SenderUpdate
    <2>2. Sender!Fail(Direct)
      BY <1>1, <1>2, <1>4, <2>1 DEF Sender!Fail
    <2> QED BY <2>2 DEF Sender!Next
  <1>5. ASSUME NEW f \in Offered(snd), NEW st \in {"Skip", "Finish", "Fail"}, drv.pc # "idle",
               snd' = SetFileState(snd, f, st)
        PROVE  Sender!Next
    <2> DEFINE t == SetFileState(snd, f, st)
    <2>1. f \in Files /\ st \in FileState /\ st # "Transfer"
      BY DEF Offered, FileState
    <2>2. t \in Session
      BY <1>1, <2>1, SetFileStateInv
    <2>3. [t EXCEPT !.started = IF st = "Transfer" THEN t.started \cup {f} ELSE t.started] = t
      BY <2>1, <2>2 DEF Session
    <2>4. t = Sender!SetFileState(snd, f, st) /\ f \in Sender!Offered(snd)
      BY SenderHelpers
    <2> HIDE DEF t
    <2>5. Sender!Update(Direct, [t EXCEPT !.started =
                                    IF st = "Transfer" THEN t.started \cup {f} ELSE t.started])
      BY <1>5, <2>3, SenderUpdate DEF t
    <2>6. Sender!ReportFileState(Direct, f, st)
      BY <1>1, <1>2, <1>5, <2>4, <2>5 DEF Sender!ReportFileState
    <2> QED BY <2>1, <2>6 DEF Sender!Next, Sender!FileState, FileState
  <1>6. CASE UNCHANGED transferVars
    BY <1>3, <1>6 DEF transferVars
  <1>7. ASSUME NEW offered \in SUBSET Files, NEW relay \in BOOLEAN, NEW force \in BOOLEAN,
               SendFiles(offered, relay, force)
        PROVE  Sender!Next
    <2>1. Sender!Update(Direct, Sender!NewSession("Send", offered))
      BY <1>7, SenderHelpers, SenderUpdate DEF SendFiles
    <2>2. Sender!CreateSendSession(Direct, offered)
      BY <1>1, <1>2, <1>7, <2>1 DEF Sender!CreateSendSession, SendFiles
    <2> QED BY <2>2 DEF Sender!Next
  <1>8. CASE CancelSend
    <2>1. Sender!Update(Direct, Sender!CancelSession(snd))
      BY <1>8, SenderHelpers, SenderUpdate DEF CancelSend
    <2>2. Sender!Cancel(Direct)
      BY <1>2, <1>8, <2>1 DEF Sender!Cancel, CancelSend, IsActive
    <2> QED BY <2>2 DEF Sender!Next
  <1>9. ASSUME NEW via \in Vias, RouteRelay(via) PROVE [Sender!Next]_(Sender!vars)
    <2>1. CASE via = "local"
      BY <1>3, <1>9, <2>1 DEF RouteRelay
    <2>2. CASE via # "local"
      <3>1. Sender!Update(Direct, [snd EXCEPT !.route = via])
        BY <1>9, <2>2, SenderUpdate DEF RouteRelay
      <3>2. Sender!BeforeTransfer(snd)
        BY <1>1, <1>9, EarlyFacts DEF Sender!BeforeTransfer, RouteRelay, Early
      <3>3. Sender!MarkRoute(Direct, via)
        BY <1>2, <3>1, <3>2 DEF Sender!MarkRoute
      <3> QED BY <2>2, <3>3, ViasAssumption DEF Sender!Next, Route
    <2> QED BY <2>1, <2>2
  <1>10. CASE MarkRelayed
    <2>1. CASE snd' = snd
      BY <1>3, <2>1
    <2>2. CASE snd' # snd
      <3>1. Sender!Update(Direct, [snd EXCEPT !.viaRelay = TRUE,
                                              !.route = IF @ = "local" THEN "turn" ELSE @])
        BY <1>10, <2>2, SenderUpdate DEF MarkRelayed
      <3>2. Sender!BeforeTransfer(snd)
        BY <1>1, <1>10, EarlyFacts DEF Sender!BeforeTransfer, MarkRelayed, Early
      <3>3. Sender!MarkViaRelay(Direct)
        BY <1>2, <3>1, <3>2 DEF Sender!MarkViaRelay
      <3> QED BY <3>3 DEF Sender!Next
    <2> QED BY <2>1, <2>2
  <1>11. CASE RouteFails \/ PrepareRefused \/ PrepareBroken
    BY <1>4, <1>11 DEF RouteFails, PrepareRefused, PrepareBroken, GiveUp, PrepareOpen
  <1>12. CASE PrepareGranted
    <2>1. Sender!Update(Direct, Sender!SetState(snd, "Transfering"))
      BY <1>12, SenderHelpers, SenderUpdate DEF PrepareGranted
    <2>2. Sender!ReportState(Direct)
      BY <1>1, <1>2, <1>12, <2>1 DEF Sender!ReportState, PrepareGranted, PrepareOpen
    <2> QED BY <2>2 DEF Sender!Next
  <1>13. ASSUME NEW f \in Files, SkipFile(f) PROVE Sender!Next
    BY <1>5, <1>13, LoopFacts DEF SkipFile
  <1>14. ASSUME NEW f \in Files, BeginUpload(f) PROVE Sender!Next
    <2> DEFINE t == SetFileState(snd, f, "Transfer")
    <2>1. /\ f \in Offered(snd) /\ drv.pc # "idle"
      BY <1>14, LoopFacts DEF BeginUpload
    <2>2. t = Sender!SetFileState(snd, f, "Transfer") /\ f \in Sender!Offered(snd)
      BY <2>1, SenderHelpers
    <2>3. Sender!Update(Direct, [t EXCEPT !.started =
                                    IF "Transfer" = "Transfer" THEN t.started \cup {f} ELSE t.started])
      BY <1>14, SenderUpdate DEF BeginUpload
    <2> HIDE DEF t
    <2>4. Sender!ReportFileState(Direct, f, "Transfer")
      BY <1>1, <1>2, <2>1, <2>2, <2>3 DEF Sender!ReportFileState
    <2> QED BY <2>4 DEF Sender!Next, Sender!FileState
  <1>15. ASSUME NEW u \in Uploads, UploadSent(u) PROVE Sender!Next
    BY <1>5, <1>15, LoopFacts DEF UploadSent, UploadOpen
  <1>16. CASE UploadFailed
    BY <1>5, <1>16, LoopFacts DEF UploadFailed
  <1>17. CASE \/ RouteDirect \/ Registered \/ PrepareGrantedNothing \/ FallBack
              \/ ObserveCancelInPrepare \/ ObserveCancelInUpload \/ CancelReturns
              \/ BreakConnection
    BY <1>3, <1>17 DEF RouteDirect, Registered, PrepareGrantedNothing, FallBack,
                       ObserveCancelInPrepare, ObserveCancelInUpload, CancelReturns, BreakConnection
  <1>18. CASE Delivery \/ ReceiverLosesConnection
    BY <1>3, <1>18 DEF Delivery, DeliverPrepare, DeliverCancel, DeliverUpload, LoseRequest,
                       ReceiverLosesConnection
  <1>19. ASSUME NEW r \in Ids, \/ ReceiverHandler(r)
                              \/ \E chosen \in SUBSET Files : ReceiverAccepts(r, chosen)
                              \/ ReceiverDeclines(r)
                              \/ ReceiverCancels(r)
         PROVE  snd' = snd
    BY <1>19 DEF ReceiverHandler, ReceiverAccepts, ReceiverDeclines, ReceiverCancels
  <1>20. ASSUME NEW u \in Uploads,
                ReceiverConfig(u) \/ ReceiverUpload(u) \/ ReceiveBody(u) \/ ReceiverFails(u)
         PROVE  snd' = snd
    BY <1>20 DEF ReceiverConfig, ReceiverUpload, ReceiveBody, ReceiverFails
  <1>21. CASE DriverStep \/ DriverReturns
    BY <1>9, <1>10, <1>11, <1>12, <1>13, <1>14, <1>15, <1>16, <1>17, <1>21
    DEF DriverStep, DriverReturns
  <1> QED BY <1>3, <1>6, <1>7, <1>8, <1>17, <1>18, <1>19, <1>20, <1>21 DEF TransferNext

(* The sender's session goes only through what the session actor allows,   *)
(* so the theorems of SessionManagerProofs hold at this end too.           *)
THEOREM SenderRefinement == TransferSpec => SenderUsesSessionManager
  <1>1. TransferInit => Sender!Init
    <2> SUFFICES ASSUME TransferInit PROVE Sender!Init
      OBVIOUS
    <2>1. snd = Sender!NoSession
      BY SenderHelpers DEF TransferInit
    <2>2. Sender!Summary(snd) = Summary(snd)
      BY SenderHelpers
    <2> QED BY <2>1, <2>2 DEF Sender!Init, Sender!Summaries
  <1> QED BY <1>1, SenderStepsAreMessages, TransferInvariance, PTL
          DEF TransferSpec, SenderUsesSessionManager, Sender!Spec
=============================================================================
