---------------------------- MODULE ReceiveServer ----------------------------
(***************************************************************************)
(* The receiving half of rust/core/src/server.rs over the session actor:   *)
(* the prepare-upload handler with the guard that watches for a peer that  *)
(* goes away, the upload handlers with the files they write, the peer's    *)
(* cancel and the user's answers.  Every handler is a task of its own that *)
(* stops at its awaits, and hyper may drop it at any of them when the      *)
(* peer's connection ends.                                                 *)
(*                                                                         *)
(* A request that creates a session draws a fresh uuid for it: the request *)
(* and its session share an id here.  All uploads of the model carry the   *)
(* same file name, the case dedup_path is there for: path 0 is the name    *)
(* itself, path n the name with " (n)".  The progress forwarders, which    *)
(* touch only a session's event, are in SessionManager; the entry that     *)
(* prepare-upload makes in the device table belongs to discovery.          *)
(***************************************************************************)
EXTENDS SessionManager, Sequences

CONSTANTS
    MaxUploads, \* bound on the upload requests of a behaviour
    MaxCopies,  \* the largest n dedup_path tries (999 in the code)
    NoId,       \* the session of an upload slot not in use
    Nobody,     \* the writer of a path that does not exist
    Mixed       \* the "writer" of a file two uploads wrote into

Uploads == 1..MaxUploads

ASSUME MaxUploadsAssumption == MaxUploads \in Nat
ASSUME MaxCopiesAssumption == MaxCopies \in Nat
ASSUME NoIdAssumption == NoId \notin Ids
ASSUME WritersAssumption == {Nobody, Mixed} \cap Uploads = {}

VARIABLES
    prep,   \* request -> its prepare-upload handler
    guard,  \* request -> the channel to its guard task
    upl,    \* upload -> its handler
    disk    \* path -> the upload whose content the file holds

serverVars == <<sessions, index, prep, guard, upl, disk>>

Paths == 0..MaxCopies

(* The path of an upload that has not chosen one *)
NoPath == MaxCopies + 1

(* posted: the CreateRecvSession message is in the actor's mailbox;        *)
(* created: the actor has handled it and the handler has not resumed;      *)
(* waiting: the handler awaits the decision, its guard is armed;           *)
(* answering: it has sent `false` to the guard task and not yet returned.  *)
PrepPc == {"idle", "posted", "created", "waiting", "answering",
           "accepted", "refused", "busy"}

(* alive: the handler has not been dropped. *)
Prep == [pc : PrepPc, alive : BOOLEAN]

(* box: what waits for the guard task; done: the guard task has taken its  *)
(* one message and dropped its receiver; fired: the message made it cancel *)
(* the session.                                                            *)
GuardTask == [box : Seq(BOOLEAN), done : BOOLEAN, fired : BOOLEAN]

(* asking: the handler awaits the configuration from the core actor;       *)
(* posted: the StartFile message is in the session actor's mailbox;        *)
(* started: it was answered Ok; chosen: dedup_path has picked a path;      *)
(* copying: the file is created; reporting: the FinishFile message is in   *)
(* the mailbox; reported: the actor has handled it and the handler has not *)
(* resumed; ok, failed, rejected: the handler has returned 200, 500 or     *)
(* 408, 403.                                                               *)
UplPc == {"idle", "asking", "posted", "started", "chosen", "copying",
          "reporting", "reported", "ok", "failed", "rejected", "dropped"}

(* alive: the handler has not been dropped; outcome: what it reports, which *)
(* is Finish only when the whole body is written and flushed.               *)
Upload == [pc : UplPc, alive : BOOLEAN, outcome : {"None", "Finish", "Fail"},
           id : Ids \cup {NoId}, file : Files \cup {NoFile}, path : Paths \cup {NoPath}]

(* Past start_file and not yet back from finish_file *)
Working(u) == upl[u].pc \in {"started", "chosen", "copying", "reporting", "reported"}

InFlight(u) == Working(u) \/ upl[u].pc \in {"asking", "posted"}

Notify(r, flag) ==
    guard' = IF guard[r].done THEN guard ELSE [guard EXCEPT ![r].box = Append(@, flag)]

-----------------------------------------------------------------------------
(* prepare_upload *)

(* A peer's request arrives; the handler posts CreateRecvSession. *)
PrepareUpload(r) ==
    /\ prep[r].pc = "idle"
    /\ prep' = [prep EXCEPT ![r].pc = "posted"]
    /\ UNCHANGED <<sessions, index, guard, upl, disk>>

(* The actor handles the message, whether or not the handler still lives. *)
CreateForRequest(r, offered) ==
    /\ prep[r].pc = "posted"
    /\ CreateRecvSession(r, offered)
    /\ prep' = [prep EXCEPT ![r].pc = "created"]
    /\ UNCHANGED <<guard, upl, disk>>

RejectBusy(r) ==
    /\ prep[r].pc = "posted"
    /\ Cardinality(ActiveReceive) >= MaxRecv
    /\ prep' = [prep EXCEPT ![r].pc = "busy"]
    /\ UNCHANGED <<sessions, index, guard, upl, disk>>

(* The handler resumes with the session id and arms its guard. *)
ArmGuard(r) ==
    /\ prep[r].pc = "created"
    /\ prep[r].alive
    /\ prep' = [prep EXCEPT ![r].pc = "waiting"]
    /\ UNCHANGED <<sessions, index, guard, upl, disk>>

AnswerAfterReturn(r) ==
    /\ prep[r].pc = "waiting"
    /\ prep[r].alive
    /\ sessions[r].decision # "Open"
    /\ prep' = [prep EXCEPT ![r].pc = "answering"]
    /\ Notify(r, TRUE)
    /\ UNCHANGED <<sessions, index, upl, disk>>

(* The decision is in: the handler tells the guard task to stand down. *)
Answer200Or403(r) ==
    /\ prep[r].pc = "waiting"
    /\ prep[r].alive
    /\ sessions[r].decision # "Open"
    /\ prep' = [prep EXCEPT ![r].pc = "answering"]
    /\ Notify(r, FALSE)
    /\ UNCHANGED <<sessions, index, upl, disk>>

(* The handler returns its answer, and the guard is dropped with it. *)
ReturnAnswer(r) ==
    /\ prep[r].pc = "answering"
    /\ prep[r].alive
    /\ prep' = [prep EXCEPT ![r].pc = IF sessions[r].decision = "Accepted"
                                      THEN "accepted" ELSE "refused"]
    /\ Notify(r, TRUE)
    /\ UNCHANGED <<sessions, index, upl, disk>>

DisconnectUnguarded(r) ==
    /\ prep[r].pc \in {"posted", "created", "waiting"}
    /\ prep[r].alive
    /\ prep' = [prep EXCEPT ![r].alive = FALSE]
    /\ UNCHANGED <<sessions, index, guard, upl, disk>>

(* The peer goes away and hyper drops the handler.  Only an armed guard    *)
(* notices: before that the session is created with nobody waiting for it. *)
Disconnect(r) ==
    /\ prep[r].pc \in {"posted", "created", "waiting"}
    /\ prep[r].alive
    /\ prep' = [prep EXCEPT ![r].alive = FALSE]
    /\ IF prep[r].pc = "waiting" THEN Notify(r, TRUE) ELSE UNCHANGED guard
    /\ UNCHANGED <<sessions, index, upl, disk>>

(* The guard task takes the first message it gets, and only that one. *)
RunGuardTask(r) ==
    /\ ~guard[r].done
    /\ guard[r].box # <<>>
    /\ guard' = [guard EXCEPT ![r] = [box |-> <<>>, done |-> TRUE, fired |-> Head(@.box)]]
    /\ IF Head(guard[r].box)
       THEN Update(r, CancelSession(sessions[r]))
       ELSE UNCHANGED <<sessions, index>>
    /\ UNCHANGED <<prep, upl, disk>>

-----------------------------------------------------------------------------
(* handle_upload *)

(* The uploads are numbered in the order they arrive. *)
Arrives(u) == upl[u].pc = "idle" /\ \A v \in 1..(u - 1) : upl[v].pc # "idle"

(* A peer holds the tokens of a session once it has its 200 answer. *)
HoldsTokens(id) == prep[id].pc = "accepted"

(* An upload request with one of those tokens, possibly a second one with  *)
(* the same token.  The handler asks for the store path before it looks at *)
(* the token.                                                              *)
HandleUpload(u, id, f) ==
    /\ Arrives(u)
    /\ HoldsTokens(id)
    /\ f \in sessions[id].granted
    /\ upl' = [upl EXCEPT ![u] = [@ EXCEPT !.pc = "asking", !.id = id, !.file = f]]
    /\ UNCHANGED <<sessions, index, prep, guard, disk>>

(* The core actor answers get_config, which it does not while it awaits    *)
(* the graceful shutdown of this very server; the handler posts StartFile. *)
AnswerConfig(u) ==
    /\ upl[u].pc = "asking"
    /\ upl' = [upl EXCEPT ![u].pc = "posted"]
    /\ UNCHANGED <<sessions, index, prep, guard, disk>>

(* Where an upload is after its message was handled: a dropped handler     *)
(* takes no answer.                                                        *)
Resumes(u, pc) == IF upl[u].alive THEN pc ELSE "dropped"

StartUploadUnchecked(u) ==
    /\ upl[u].pc = "posted"
    /\ Update(upl[u].id, Started(sessions[upl[u].id], upl[u].file))
    /\ upl' = [upl EXCEPT ![u].pc = Resumes(u, "started")]
    /\ UNCHANGED <<prep, guard, disk>>

(* The actor handles StartFile, whether or not the handler still lives;    *)
(* its error is answered 403.                                              *)
StartUpload(u) ==
    /\ upl[u].pc = "posted"
    /\ IF CanStart(sessions[upl[u].id], upl[u].file)
       THEN /\ Update(upl[u].id, Started(sessions[upl[u].id], upl[u].file))
            /\ upl' = [upl EXCEPT ![u].pc = Resumes(u, "started")]
       ELSE /\ upl' = [upl EXCEPT ![u].pc = Resumes(u, "rejected")]
            /\ UNCHANGED <<sessions, index>>
    /\ UNCHANGED <<prep, guard, disk>>

(* dedup_path: the first path that does not exist, or the plain name when  *)
(* all of them do.                                                         *)
Dedup == IF \E p \in Paths : disk[p] = Nobody
         THEN CHOOSE p \in Paths : /\ disk[p] = Nobody
                                   /\ \A q \in Paths : disk[q] = Nobody => p <= q
         ELSE 0

ChoosePath(u) ==
    /\ upl[u].pc = "started"
    /\ upl' = [upl EXCEPT ![u].pc = "chosen", ![u].path = Dedup]
    /\ UNCHANGED <<sessions, index, prep, guard, disk>>

(* File::create truncates whatever is at the path by now. *)
CreateFile(u) ==
    /\ upl[u].pc = "chosen"
    /\ upl' = [upl EXCEPT ![u].pc = "copying"]
    /\ disk' = [disk EXCEPT ![upl[u].path] = u]
    /\ UNCHANGED <<sessions, index, prep, guard>>

CopyBodyUnreported(u) ==
    /\ upl[u].pc = "copying"
    /\ upl' = [upl EXCEPT ![u].pc = "reported", ![u].outcome = "Finish"]
    /\ disk' = [disk EXCEPT ![upl[u].path] = IF @ = u THEN u ELSE Mixed]
    /\ UNCHANGED <<sessions, index, prep, guard>>

CopyIgnoringCreate(u) ==
    /\ upl[u].pc \in {"chosen", "copying"}
    /\ upl' = [upl EXCEPT ![u].pc = "reporting", ![u].outcome = "Finish"]
    /\ UNCHANGED <<sessions, index, prep, guard, disk>>

(* The body has arrived in full and the copy branch won the select: the    *)
(* handler posts finish_file(Finish), also when the session ended in the   *)
(* meantime.                                                               *)
CopyBody(u) ==
    /\ upl[u].pc = "copying"
    /\ upl' = [upl EXCEPT ![u].pc = "reporting", ![u].outcome = "Finish"]
    /\ disk' = [disk EXCEPT ![upl[u].path] = IF @ = u THEN u ELSE Mixed]
    /\ UNCHANGED <<sessions, index, prep, guard>>

PostFail(u) ==
    /\ upl[u].pc \in {"started", "chosen", "copying"}
    /\ upl' = [upl EXCEPT ![u].pc = "reporting", ![u].outcome = "Fail"]
    /\ UNCHANGED <<sessions, index, prep, guard, disk>>

(* The directory, the file or the body failed. *)
FailUpload(u) == PostFail(u)

(* The cancel branch won the select. *)
AbortUpload(u) == PostFail(u) /\ sessions[upl[u].id].cancelled

(* The actor handles finish_file, whether or not the handler still lives. *)
RecordOutcome(u) ==
    /\ upl[u].pc = "reporting"
    /\ Update(upl[u].id, SetFileState(sessions[upl[u].id], upl[u].file, upl[u].outcome))
    /\ upl' = [upl EXCEPT ![u].pc = Resumes(u, "reported")]
    /\ UNCHANGED <<prep, guard, disk>>

(* The handler is back from finish_file and returns its answer. *)
ReturnOutcome(u) ==
    /\ upl[u].pc = "reported"
    /\ upl' = [upl EXCEPT ![u].pc = IF upl[u].outcome = "Finish" THEN "ok" ELSE "failed"]
    /\ UNCHANGED <<sessions, index, prep, guard, disk>>

(* hyper drops the handler with its connection, at any of its awaits: it    *)
(* reports nothing more, and what it posted is still handled.               *)
DropUpload(u) ==
    /\ InFlight(u)
    /\ upl[u].alive
    /\ upl' = [upl EXCEPT ![u].alive = FALSE,
                          ![u].pc = IF @ \in {"posted", "reporting"} THEN @ ELSE "dropped"]
    /\ UNCHANGED <<sessions, index, prep, guard, disk>>

-----------------------------------------------------------------------------
(* The user, and the peer's /cancel *)

UserAccepts(id, chosen) == Accept(id, chosen) /\ UNCHANGED <<prep, guard, upl, disk>>

UserDeclines(id) == Decline(id) /\ UNCHANGED <<prep, guard, upl, disk>>

(* handle_cancel, or the user's cancel: the actor does the same for both. *)
HandleCancel(id) ==
    /\ IsActive(sessions[id])
    /\ Cancel(id)
    /\ UNCHANGED <<prep, guard, upl, disk>>

ServerInit ==
    /\ Init
    /\ prep = [r \in Ids |-> [pc |-> "idle", alive |-> TRUE]]
    /\ guard = [r \in Ids |-> [box |-> <<>>, done |-> FALSE, fired |-> FALSE]]
    /\ upl = [u \in Uploads |-> [pc |-> "idle", alive |-> TRUE, outcome |-> "None",
                                 id |-> NoId, file |-> NoFile, path |-> NoPath]]
    /\ disk = [p \in Paths |-> Nobody]

HandlerStep(r) == \/ \E offered \in SUBSET Files : CreateForRequest(r, offered)
                  \/ RejectBusy(r)
                  \/ ArmGuard(r)
                  \/ Answer200Or403(r)
                  \/ ReturnAnswer(r)
                  \/ RunGuardTask(r)

UploadStep(u) == \/ StartUpload(u)
                 \/ ChoosePath(u)
                 \/ CreateFile(u)
                 \/ AbortUpload(u)
                 \/ RecordOutcome(u)
                 \/ ReturnOutcome(u)

ServerNext ==
    \/ \E r \in Ids : PrepareUpload(r) \/ HandlerStep(r) \/ Disconnect(r)
    \/ \E u \in Uploads : \/ \E id \in Ids, f \in Files : HandleUpload(u, id, f)
                          \/ AnswerConfig(u)
                          \/ UploadStep(u)
                          \/ CopyBody(u)
                          \/ FailUpload(u)
                          \/ DropUpload(u)
    \/ \E id \in Ids : \/ \E chosen \in SUBSET Files : UserAccepts(id, chosen)
                       \/ UserDeclines(id)
                       \/ HandleCancel(id)

(* The runtime polls every ready task: the session actor, the handlers and *)
(* the guard tasks make progress.  Nothing is assumed of the user, of the  *)
(* peers, of the arrival of bodies or of the core actor, which a handler   *)
(* may ask for the configuration in vain.                                  *)
ServerFairness ==
    /\ \A r \in Ids : WF_serverVars(HandlerStep(r))
    /\ \A u \in Uploads : WF_serverVars(UploadStep(u))

ServerSpec == ServerInit /\ [][ServerNext]_serverVars /\ ServerFairness

-----------------------------------------------------------------------------
(* Properties *)

(* The handlers' state has the shape of the tasks of server.rs. *)
ServerTypeOK ==
    /\ TypeOK
    /\ prep \in [Ids -> Prep]
    /\ guard \in [Ids -> GuardTask]
    /\ upl \in [Uploads -> Upload]
    /\ disk \in [Paths -> Uploads \cup {Nobody, Mixed}]

(* The handlers use the actor as SessionManager assumes: what they post is  *)
(* always a message SessionManager allows in that state (an outcome only    *)
(* for a file that was started, an answer only to a pending offer), so its  *)
(* theorems hold of the sessions here.                                      *)
ImplementsSessionManager == Spec

(* The body an upload wrote in full is what its path holds, unless another  *)
(* upload chose the same path (the race that dedup_path leaves open).        *)
Stored(u) ==
    /\ upl[u].outcome = "Finish"
    /\ \/ disk[upl[u].path] = u
       \/ \E v \in Uploads \ {u} : upl[v].path = upl[u].path

(* What a session shows and what the peer is told agree with what was       *)
(* written, wherever a handler is dropped and in whatever order two uploads *)
(* of one token report: a file is Finish only if some upload of it wrote    *)
(* the whole body, and an upload is answered 200 only when its file is      *)
(* Finish or its session was aborted.  A Finish without a 200 is possible:  *)
(* the handler is dropped while it waits for finish_file (server.rs:536).   *)
OutcomeMatchesUploads ==
    /\ \A id \in Ids, f \in Files :
          sessions[id].files[f] = "Finish" =>
             \E u \in Uploads : upl[u].id = id /\ upl[u].file = f /\ Stored(u)
    /\ \A u \in Uploads : upl[u].pc = "ok" =>
          /\ Stored(u)
          /\ \/ sessions[upl[u].id].files[upl[u].file] = "Finish"
             \/ sessions[upl[u].id].state \in {"Failed", "Canceled"}

(* The guard outlives the request it guards: it cancels the session of a    *)
(* peer that went away, never that of a peer that got its answer, although  *)
(* both paths end by sending it `true`.                                     *)
GuardSparesAnsweredRequests ==
    \A r \in Ids : guard[r].fired => prep[r].pc = "waiting" /\ ~prep[r].alive

(* No pending offer is left to itself once its guard is armed: a handler    *)
(* waits for the answer, or the cancel for the peer that left is the first  *)
(* message the guard task will see.  The gap is before: an offer whose      *)
(* handler has not resumed since create_recv_session may have lost it, and  *)
(* then only the user ends it.                                              *)
PendingOffersWatched ==
    \A r \in Ids : sessions[r].state = "Pending" =>
        \/ prep[r].pc = "created"
        \/ /\ prep[r].pc = "waiting"
           /\ ~guard[r].done
           /\ prep[r].alive \/ (guard[r].box # <<>> /\ Head(guard[r].box))

(* The guard acts for the requests that were abandoned and for no others,   *)
(* in whatever order the handler, its drop and the guard task run.          *)
GuardMindsItsRequest == GuardSparesAnsweredRequests /\ PendingOffersWatched

(* "Aborts the pending session when the sender goes away while we wait for  *)
(* the accept/decline decision" (server.rs:369): once the guard is armed, a *)
(* session whose peer left does not stay pending.                           *)
AbandonedOfferEnds ==
    \A r \in Ids :
        (prep[r].pc = "waiting" /\ ~prep[r].alive) ~> sessions[r].state # "Pending"

(* Ending a session abnormally, by whichever way, stops every upload of it: *)
(* no handler past start_file goes on copying for a session that is over.   *)
AbortedSessionStopsUploads ==
    \A u \in Uploads :
        (Working(u) /\ sessions[upl[u].id].state \in {"Failed", "Canceled"}) ~> ~Working(u)

=============================================================================
