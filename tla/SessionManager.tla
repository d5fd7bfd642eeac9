--------------------------- MODULE SessionManager ---------------------------
(***************************************************************************)
(* The session actor of rust/core/src/session.rs: the single task that     *)
(* owns every transfer session of a node, in both directions.  Callers     *)
(* (HTTP handlers, send drivers, progress forwarders, the UI) hold a       *)
(* SessionHandle and post messages; the actor handles one message at a     *)
(* time, so each message is one atomic action here and the callers'        *)
(* interleavings are the interleavings of the actions.                     *)
(***************************************************************************)
EXTENDS Session, Naturals, FiniteSets

CONSTANTS
    Ids,       \* session ids: the uuids a run may draw
    MaxRecv    \* max_recv_sessions

ASSUME IdsAssumption == IsFiniteSet(Ids)
ASSUME MaxRecvAssumption == MaxRecv \in Nat

VARIABLES
    sessions,  \* Actor.sessions: session id -> session
    index      \* the value of the index watch channel: id -> summary

vars == <<sessions, index>>

Summaries(ss) == [id \in Ids |-> Summary(ss[id])]

ActiveReceive == {id \in Ids : /\ sessions[id].direction = "Receive"
                               /\ IsActive(sessions[id])}

-----------------------------------------------------------------------------
(* Messages *)

(* broadcast_index after session id became s *)
Update(id, s) ==
    /\ sessions' = [sessions EXCEPT ![id] = s]
    /\ index' = Summaries(sessions')

(* An offer from a peer.  At MaxRecv active receive sessions the reply is  *)
(* Busy and nothing changes.  A peer may offer an empty set of files.      *)
CreateRecvSession(id, offered) ==
    /\ sessions[id].state = "Absent"
    /\ Cardinality(ActiveReceive) < MaxRecv
    /\ Update(id, NewSession("Receive", offered))

(* send_files_internal refuses an empty selection before it gets here. *)
CreateSendSession(id, offered) ==
    /\ sessions[id].state = "Absent"
    /\ offered # {}
    /\ Update(id, NewSession("Send", offered))

(* The user accepts a subset of the files; None in the code is chosen =    *)
(* Files, and ids the session does not know are filtered out.  In any      *)
(* other state the reply is InvalidState.                                  *)
Accept(id, chosen) ==
    /\ AwaitsDecision(sessions[id])
    /\ Update(id, CheckFinish(Accepted(sessions[id], chosen)))

Decline(id) ==
    /\ AwaitsDecision(sessions[id])
    /\ Update(id, Declined(sessions[id]))

(* From the user, from the peer's /cancel, from the guard of a dropped     *)
(* prepare-upload request.                                                 *)
Cancel(id) ==
    /\ sessions[id].state # "Absent"
    /\ Update(id, CancelSession(sessions[id]))

(* The two route reports of a send driver, made before the peer has        *)
(* accepted.  Neither handler checks that the session is still active: a   *)
(* driver that was cancelled while it dialled still reports its route.     *)
BeforeTransfer(s) ==
    /\ s.direction = "Send"
    /\ s.state \notin {"Absent", "Transfering"}
    /\ s.started = {}

MarkViaRelay(id) ==
    /\ BeforeTransfer(sessions[id])
    /\ Update(id, [sessions[id] EXCEPT
                      !.viaRelay = TRUE,
                      !.route = IF @ = "local" THEN "turn" ELSE @])

MarkRoute(id, route) ==
    /\ BeforeTransfer(sessions[id])
    /\ Update(id, [sessions[id] EXCEPT !.route = route])

(* An upload request carrying the token of f begins.  A file already in    *)
(* Transfer may be started again: a second request with the same token.    *)
StartFile(id, f) ==
    /\ CanStart(sessions[id], f)
    /\ Update(id, Started(sessions[id], f))

(* set_file_state returns from its failure path before the broadcast at    *)
(* its end; fail_session has broadcast by then.                            *)
FinishFileUnbroadcast(id, f, st) ==
    /\ sessions[id].direction = "Receive"
    /\ f \in sessions[id].started
    /\ st \in {"Finish", "Fail"}
    /\ sessions' = [sessions EXCEPT ![id] = SetFileState(sessions[id], f, st)]
    /\ index' = IF st = "Fail" THEN index ELSE Summaries(sessions')

(* The upload handler that started f reports how it ended. *)
FinishFile(id, f, st) ==
    /\ sessions[id].direction = "Receive"
    /\ f \in sessions[id].started
    /\ st \in {"Finish", "Fail"}
    /\ Update(id, SetFileState(sessions[id], f, st))

(* A progress forwarder's message, which may have waited in the mailbox    *)
(* while the session ended.  There is no test of IsActive and no broadcast. *)
ReportProgress(id, f) ==
    /\ f \in sessions[id].started
    /\ sessions' = [sessions EXCEPT ![id].event = Progress(f)]
    /\ UNCHANGED index

(* A send driver reports one of its files. *)
ReportFileState(id, f, st) ==
    /\ sessions[id].direction = "Send"
    /\ sessions[id].state # "Absent"
    /\ f \in Offered(sessions[id])
    /\ st \in {"Transfer", "Finish", "Skip", "Fail"}
    /\ Update(id, [SetFileState(sessions[id], f, st) EXCEPT
                      !.started = IF st = "Transfer" THEN @ \cup {f} ELSE @])

(* A send driver reports that the peer accepted: Transfering is the only   *)
(* state ever reported.                                                    *)
ReportState(id) ==
    /\ sessions[id].direction = "Send"
    /\ sessions[id].state # "Absent"
    /\ Update(id, SetState(sessions[id], "Transfering"))

(* A send driver gives up. *)
Fail(id) ==
    /\ sessions[id].direction = "Send"
    /\ sessions[id].state # "Absent"
    /\ Update(id, FailSession(sessions[id]))

Init ==
    /\ sessions = [id \in Ids |-> NoSession]
    /\ index = Summaries(sessions)

Next ==
    \E id \in Ids :
        \/ \E offered \in SUBSET Files :
              CreateRecvSession(id, offered) \/ CreateSendSession(id, offered)
        \/ \E chosen \in SUBSET Files : Accept(id, chosen)
        \/ Decline(id)
        \/ Cancel(id)
        \/ MarkViaRelay(id)
        \/ \E route \in {"turn", "stun"} : MarkRoute(id, route)
        \/ \E f \in Files : StartFile(id, f) \/ ReportProgress(id, f)
        \/ \E f \in Files, st \in FileState :
              FinishFile(id, f, st) \/ ReportFileState(id, f, st)
        \/ ReportState(id)
        \/ Fail(id)

Spec == Init /\ [][Next]_vars

-----------------------------------------------------------------------------
(* Properties *)

(* A session in the terms of SessionLifecycle *)
StageOf(s) ==
    CASE s.state = "Absent"      -> "none"
      [] s.state = "Pending"     -> "waiting"
      [] s.state = "Transfering" -> "running"
      [] OTHER                   -> "over"

AnswerOf(s) ==
    CASE s.decision = "None"     -> "unasked"
      [] s.decision = "Open"     -> "awaited"
      [] s.decision = "Accepted" -> "yes"
      [] OTHER                   -> "no"

(* The sessions map and the published index have the shape of the actor's  *)
(* fields (session.rs:93-109).                                             *)
TypeOK ==
    /\ sessions \in [Ids -> Session]
    /\ DOMAIN index = Ids

(* Consent: no byte of a file is taken, whatever requests arrive in what    *)
(* order, unless the user accepted that very file.  Relates the file states *)
(* that StartFile and FinishFile write to the tokens Accept handed out.     *)
OnlyConsentedFilesMove ==
    \A id \in Ids : LET s == sessions[id] IN
        s.direction = "Receive" =>
            \A f \in Files : s.files[f] \in {"Transfer", "Finish", "Fail"} =>
                               s.decision = "Accepted" /\ f \in s.granted

(* The prepare-upload handler blocked on the oneshot is answered exactly    *)
(* when its session stops being Pending, and what it is told agrees with    *)
(* the state the user sees: it never waits on a session that is over, and   *)
(* never tells the sender "accepted" for a session the user declined.       *)
VerdictMatchesState ==
    \A id \in Ids : LET s == sessions[id] IN
        (s.direction = "Receive" /\ s.state # "Absent") =>
            /\ s.decision = "Open" <=> s.state = "Pending"
            /\ s.decision \in {"Declined", "Canceled"} => s.state = "Canceled"
            /\ s.state \in {"Transfering", "Finished", "Failed"} => s.decision = "Accepted"

(* check_finish is called by every message that can complete a session and  *)
(* by no other: Finished and complete are the same thing, except for a      *)
(* session that ended otherwise first.                                      *)
FinishedExactlyWhenComplete ==
    \A id \in Ids : LET s == sessions[id] IN
        /\ s.state = "Finished" => Complete(s)
        /\ IsActive(s) => ~Complete(s)

(* Uploads and send drivers learn of an abnormal end only through the       *)
(* cancel token: it is cancelled for every Failed or Canceled session, and  *)
(* never for one that runs or finished.                                     *)
TokenCancelledIffAborted ==
    \A id \in Ids : sessions[id].cancelled <=> sessions[id].state \in {"Failed", "Canceled"}

(* The limit on receive sessions holds however sessions are created,        *)
(* accepted and ended.                                                      *)
ReceiveSessionsBounded == Cardinality(ActiveReceive) <= MaxRecv

(* The index watch channel, from which every front end draws, is never      *)
(* behind the actor's own state between two messages.                       *)
IndexIsCurrent == index = Summaries(sessions)

(* A session that ended stays as it ended: late reports of uploads, drivers *)
(* and cancels change neither its state, nor its files, nor its verdict.    *)
EndedSessionsFrozen ==
    [][\A id \in Ids : LET s == sessions[id] IN
        s.state \in {"Finished", "Failed", "Canceled"} =>
            /\ sessions'[id].state = s.state
            /\ sessions'[id].files = s.files
            /\ sessions'[id].decision = s.decision
            /\ sessions'[id].cancelled = s.cancelled]_vars

(* The actor implements the lifecycle it promises: seen through this        *)
(* mapping, every message is one step of SessionLifecycle or none.          *)
Lifecycle == INSTANCE SessionLifecycle WITH
    Capacity <- MaxRecv,
    stage <- [id \in Ids |-> StageOf(sessions[id])],
    incoming <- [id \in Ids |-> sessions[id].direction = "Receive"],
    answer <- [id \in Ids |-> AnswerOf(sessions[id])]

(* The refinement as a property: no message of any caller makes a session   *)
(* skip a stage, answer a peer twice or late, or exceed the capacity.       *)
ImplementsLifecycle == Lifecycle!LifecycleSpec
=============================================================================
