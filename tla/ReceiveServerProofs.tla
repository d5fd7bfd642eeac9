------------------------ MODULE ReceiveServerProofs ------------------------
(***************************************************************************)
(* Proofs about ReceiveServer, for any number of requests, files, uploads  *)
(* and copies.  The handlers change the sessions only through the actor's  *)
(* messages, so the invariant of SessionManagerProofs carries over, and    *)
(* what is added to it relates each handler to the session it works for:   *)
(* GuardInv the prepare-upload handler and its guard task, RequestInv that *)
(* handler and its session, UploadInv an upload and its session's file,    *)
(* DiskInv an upload and the path it writes.                               *)
(***************************************************************************)
EXTENDS ReceiveServer, SessionManagerProofs, WellFoundedInduction

(* A handler has no session before the actor made it one, has one ever     *)
(* after, and answers only what the actor has decided.                     *)
RequestInv(r) ==
    LET s == sessions[r] IN
    /\ prep[r].pc \in {"idle", "posted", "busy"} <=> s.state = "Absent"
    /\ s.state # "Absent" => s.direction = "Receive"
    /\ prep[r].pc \in {"answering", "accepted", "refused"} => s.decision # "Open"
    /\ prep[r].pc = "accepted" => s.decision = "Accepted"
    /\ s.granted \subseteq Offered(s)

(* The first message a guard task gets decides.  It is `true` only when    *)
(* the handler was dropped while it waited: a handler that answers has     *)
(* sent `false` before the `true` of its guard's drop.                     *)
GuardInv(r) ==
    LET g == guard[r] p == prep[r] IN
    /\ g.fired => p.pc = "waiting" /\ ~p.alive
    /\ g.box # <<>> => p.pc \in {"waiting", "answering", "accepted", "refused"}
    /\ (g.box # <<>> /\ Head(g.box)) => p.pc = "waiting" /\ ~p.alive
    /\ p.pc = "waiting" /\ p.alive => g.box = <<>>
    /\ p.pc = "answering" /\ ~g.done => g.box # <<>>

Moving == {"Transfer", "Finish", "Fail"}

Aborted(s) == s.state \in {"Failed", "Canceled"}

(* start_file let the upload in, and its handler was not dropped before it *)
(* came back from that.                                                    *)
Begun(pc) == pc \in {"started", "chosen", "copying", "reporting", "reported", "ok", "failed"}

(* An upload that got past start_file works for a file the actor holds as  *)
(* started, of a session whose tokens the peer was given; and once the     *)
(* actor has handled its Finish, the file is Finish or the session is over.*)
UploadInv(u) ==
    LET w == upl[u] s == sessions[upl[u].id] IN
    /\ w.pc # "idle" => w.id \in Ids /\ w.file \in Files /\ prep[w.id].pc = "accepted"
    /\ Begun(w.pc) => w.file \in s.started /\ s.files[w.file] \in Moving
    /\ (w.pc \in {"reported", "ok"} /\ w.outcome = "Finish") =>
          s.files[w.file] = "Finish" \/ Aborted(s)

(* The content of an upload's path *)
Holds(u) == \/ disk[upl[u].path] = u
            \/ \E v \in Uploads \ {u} : upl[v].path = upl[u].path

(* An upload has no path before it chooses one, and then writes to that.   *)
DiskInv(u) ==
    LET w == upl[u] IN
    /\ w.pc \in {"idle", "asking", "posted", "started"} => w.path = NoPath
    /\ (w.pc \in {"chosen", "copying"} \/ w.outcome = "Finish") => w.path \in Paths
    /\ (w.pc = "copying" \/ w.outcome = "Finish") => Holds(u)
    /\ w.outcome = "Finish" => w.pc \in {"reporting", "reported", "ok", "dropped"}
    /\ w.pc = "reporting" => w.outcome \in {"Finish", "Fail"}
    /\ w.pc = "ok" => w.outcome = "Finish"

(* A file is Finish only by an upload that wrote all of it. *)
FinishInv ==
    \A id \in Ids, f \in Files :
        sessions[id].files[f] = "Finish" =>
            \E u \in Uploads : upl[u].id = id /\ upl[u].file = f /\ upl[u].outcome = "Finish"

HandlersInv ==
    /\ \A r \in Ids : RequestInv(r)
    /\ \A r \in Ids : GuardInv(r)
    /\ \A u \in Uploads : UploadInv(u)
    /\ \A u \in Uploads : DiskInv(u)
    /\ FinishInv

ServerInv ==
    /\ IInv
    /\ ServerTypeOK
    /\ HandlersInv

-----------------------------------------------------------------------------
(* What the messages keep of a session that exists *)

(* A session never loses what a handler relies on: its decision and the    *)
(* tokens that went with it, its files, and what uploads did to them.      *)
Keeps(s, t) ==
    /\ t.direction = s.direction
    /\ t.state = "Absent" <=> s.state = "Absent"
    /\ s.decision # "Open" => t.decision = s.decision /\ t.granted = s.granted
    /\ Offered(t) = Offered(s)
    /\ s.granted \subseteq Offered(s) => t.granted \subseteq Offered(t)
    /\ s.started \subseteq t.started
    /\ \A f \in Files : s.files[f] \in Moving => t.files[f] \in Moving
    /\ \A f \in Files : s.files[f] = "Finish" => t.files[f] = "Finish" \/ Aborted(t)
    /\ Aborted(s) => Aborted(t)

NoNewFinish(s, t) == \A f \in Files : t.files[f] = "Finish" => s.files[f] = "Finish"

(* The fields a message may leave alone. *)
LEMMA SameFilesKeep ==
    ASSUME NEW s \in Session, NEW t \in Session, t.direction = s.direction,
           t.state = "Absent" <=> s.state = "Absent", Aborted(s) => Aborted(t),
           t.files = s.files, t.granted = s.granted, t.started = s.started,
           s.decision # "Open" => t.decision = s.decision
    PROVE  Keeps(s, t) /\ NoNewFinish(s, t)
  BY DEF Keeps, NoNewFinish, Offered

(* cancel_session and decline change no file. *)
LEMMA CancelKeeps ==
    ASSUME NEW s \in Session, SessionInv(s)
    PROVE  /\ Keeps(s, CancelSession(s)) /\ NoNewFinish(s, CancelSession(s))
           /\ AwaitsDecision(s) => Keeps(s, Declined(s)) /\ NoNewFinish(s, Declined(s))
  <1>1. Keeps(s, s) /\ NoNewFinish(s, s)
    BY SameFilesKeep
  <1>2. ASSUME IsActive(s)
        PROVE  Keeps(s, CancelSession(s)) /\ NoNewFinish(s, CancelSession(s))
    <2> DEFINE t == CancelSession(s)
    <2>1. t \in Session
      BY CancelSessionInv
    <2>2. /\ t.direction = s.direction /\ t.state = "Canceled" /\ t.files = s.files
          /\ t.granted = s.granted /\ t.started = s.started
          /\ s.decision # "Open" => t.decision = s.decision
      BY <1>2 DEF CancelSession, Session, Answer
    <2> HIDE DEF t
    <2>3. Keeps(s, t) /\ NoNewFinish(s, t)
      BY <1>2, <2>1, <2>2, SameFilesKeep DEF IsActive, Aborted
    <2> QED BY <2>3 DEF t
  <1>3. ASSUME ~IsActive(s)
        PROVE  Keeps(s, CancelSession(s)) /\ NoNewFinish(s, CancelSession(s))
    BY <1>1, <1>3 DEF CancelSession
  <1>4. ASSUME AwaitsDecision(s)
        PROVE  Keeps(s, Declined(s)) /\ NoNewFinish(s, Declined(s))
    <2> DEFINE t == Declined(s)
    <2>1. t \in Session
      BY <1>4, DeclineInv
    <2>2. /\ t.direction = s.direction /\ t.state = "Canceled" /\ t.files = s.files
          /\ t.granted = s.granted /\ t.started = s.started
          /\ s.decision # "Open" => t.decision = s.decision
      BY DEF Declined, Session, Answer
    <2> HIDE DEF t
    <2>3. Keeps(s, t) /\ NoNewFinish(s, t)
      BY <1>4, <2>1, <2>2, SameFilesKeep DEF AwaitsDecision, Aborted
    <2> QED BY <2>3 DEF t
  <1> QED BY <1>2, <1>3, <1>4

(* accept grants files of the session, before any of them moved. *)
LEMMA AcceptKeeps ==
    ASSUME NEW s \in Session, SessionInv(s), AwaitsDecision(s), NEW chosen \in SUBSET Files
    PROVE  /\ Keeps(s, CheckFinish(Accepted(s, chosen)))
           /\ NoNewFinish(s, CheckFinish(Accepted(s, chosen)))
  <1> DEFINE a == Accepted(s, chosen)
             t == CheckFinish(a)
  <1>1. s.decision = "Open" /\ s.state = "Pending" /\ s.direction = "Receive"
    BY DEF SessionInv, BaseInv, AwaitsDecision
  <1>2. \A f \in Files : s.files[f] \notin Moving
    BY <1>1 DEF SessionInv, BaseInv, Moving
  <1>3. /\ a.direction = "Receive" /\ a.state = "Transfering" /\ a.started = s.started
        /\ a.granted = Offered(s) \cap chosen
        /\ a.files = [f \in Files |->
                          IF f \in Offered(s) \ chosen THEN "Skip" ELSE s.files[f]]
    BY <1>1 DEF Accepted, Session
  <1>4. /\ t.direction = a.direction /\ t.state \in {"Transfering", "Finished"}
        /\ t.started = a.started /\ t.granted = a.granted /\ t.files = a.files
    BY <1>3 DEF CheckFinish, SetState, Accepted, Session
  <1> HIDE DEF a, t
  <1>5. Offered(t) = Offered(s)
    BY <1>3, <1>4 DEF Offered
  <1>6. NoNewFinish(s, t)
    BY <1>3, <1>4 DEF NoNewFinish
  <1>7. t.granted \subseteq Offered(t)
    BY <1>3, <1>4, <1>5
  <1>8. Keeps(s, t)
    BY <1>1, <1>2, <1>3, <1>4, <1>5, <1>7 DEF Keeps, Moving, Aborted
  <1> QED BY <1>6, <1>8 DEF t, a

(* start_file moves a file that had not ended. *)
LEMMA StartKeeps ==
    ASSUME NEW s \in Session, NEW f \in Files, CanStart(s, f)
    PROVE  /\ Keeps(s, Started(s, f)) /\ NoNewFinish(s, Started(s, f))
           /\ f \in Started(s, f).started /\ Started(s, f).files[f] = "Transfer"
  <1> DEFINE t == Started(s, f)
  <1>1. /\ t.direction = s.direction /\ t.state = s.state /\ t.decision = s.decision
        /\ t.granted = s.granted /\ t.started = s.started \cup {f}
        /\ t.files = [s.files EXCEPT ![f] = "Transfer"]
    BY DEF Started, Session
  <1>2. s.files[f] # "Finish" /\ f \in Offered(s) /\ s.files \in [Files -> FileState \cup {"Absent"}]
    BY DEF CanStart, IsTerminal, Session
  <1> HIDE DEF t
  <1>3. \A g \in Files : t.files[g] = IF g = f THEN "Transfer" ELSE s.files[g]
    BY <1>1, <1>2
  <1>4. Offered(t) = Offered(s)
    BY <1>2, <1>3 DEF Offered
  <1>5. Keeps(s, t) /\ NoNewFinish(s, t)
    BY <1>1, <1>2, <1>3, <1>4 DEF Keeps, NoNewFinish, Moving, Aborted
  <1> QED BY <1>1, <1>3, <1>5 DEF t

(* finish_file: a file that is Finish stays so or its session is aborted,  *)
(* and Finish is written for the reported file only.                       *)
LEMMA ReportKeeps ==
    ASSUME NEW s \in Session, SessionInv(s), s.direction = "Receive", s.state # "Absent",
           NEW f \in Files, s.files[f] \in Moving, f \in s.started,
           NEW st \in {"Finish", "Fail"}
    PROVE  LET t == SetFileState(s, f, st) IN
           /\ Keeps(s, t)
           /\ \A g \in Files : t.files[g] = "Finish" =>
                                s.files[g] = "Finish" \/ (g = f /\ st = "Finish")
           /\ st = "Finish" => t.files[f] = "Finish" \/ Aborted(t)
  <1> DEFINE m == [s EXCEPT !.files[f] = st, !.event = FileStateChanged(f, st)]
             t == SetFileState(s, f, st)
  <1>1. f \in Offered(s) /\ s.files \in [Files -> FileState \cup {"Absent"}]
    BY DEF Moving, Offered, Session
  <1>2. CASE ~IsActive(s)
    <2>1. t = s
      BY <1>2 DEF SetFileState
    <2>2. Keeps(s, s)
      BY SameFilesKeep
    <2>3. s.state \in {"Finished", "Failed", "Canceled"}
      BY <1>2 DEF IsActive, Session, MissionState
    <2>4. s.state = "Finished" => s.files[f] \in {"Finish", "Skip"}
      BY <1>1 DEF SessionInv, BaseInv, Complete
    <2>5. s.files[f] = "Finish" \/ Aborted(s)
      BY <2>3, <2>4 DEF Moving, Aborted
    <2> HIDE DEF t
    <2> QED BY <2>1, <2>2, <2>5 DEF t
  <1>3. CASE IsActive(s)
    <2>1. /\ m.direction = s.direction /\ m.state = s.state /\ m.decision = s.decision
          /\ m.granted = s.granted /\ m.started = s.started
          /\ m.files = [s.files EXCEPT ![f] = st]
      BY DEF Session
    <2>2. t = IF st = "Fail" THEN FailSession(m) ELSE CheckFinish(m)
      BY <1>1, <1>3 DEF SetFileState
    <2>3. s.decision = "Accepted"
      BY DEF SessionInv, BaseInv, Moving
    <2>4. /\ t.direction = s.direction /\ t.granted = s.granted /\ t.started = s.started
          /\ t.files = m.files /\ t.decision = s.decision
          /\ t.state = IF st = "Fail" THEN "Failed"
                       ELSE IF Complete(m) THEN "Finished" ELSE s.state
      <3>1. CASE st = "Fail"
        BY <1>3, <2>1, <2>2, <2>3, <3>1 DEF FailSession, Answer, IsActive, Session
      <3>2. CASE st # "Fail"
        BY <1>3, <2>1, <2>2, <2>3, <3>2 DEF CheckFinish, SetState, IsActive, Session
      <3> QED BY <3>1, <3>2
    <2> HIDE DEF t, m
    <2>5. \A g \in Files : t.files[g] = IF g = f THEN st ELSE s.files[g]
      BY <1>1, <2>1, <2>4
    <2>6. Offered(t) = Offered(s)
      BY <1>1, <2>5 DEF Offered
    <2>7. Keeps(s, t)
      BY <1>3, <2>4, <2>5, <2>6 DEF Keeps, Moving, Aborted, IsActive
    <2> QED BY <2>4, <2>5, <2>7 DEF t, Aborted
  <1> QED BY <1>2, <1>3

-----------------------------------------------------------------------------
(* The handlers post messages of SessionManager *)

(* What ServerInv says of one session and of one upload that reports. *)
LEMMA SessionFacts ==
    ASSUME ServerInv
    PROVE  /\ \A r \in Ids : sessions[r] \in Session /\ SessionInv(sessions[r])
           /\ \A u \in Uploads : upl[u].pc # "idle" =>
                 /\ upl[u].id \in Ids /\ upl[u].file \in Files
                 /\ sessions[upl[u].id].direction = "Receive"
                 /\ sessions[upl[u].id].state # "Absent"
           /\ \A u \in Uploads : Begun(upl[u].pc) =>
                 /\ upl[u].file \in sessions[upl[u].id].started
                 /\ sessions[upl[u].id].files[upl[u].file] \in Moving
  <1>1. \A r \in Ids : sessions[r] \in Session /\ SessionInv(sessions[r])
    BY DEF ServerInv, IInv, TypeOK
  <1>2. ASSUME NEW u \in Uploads, upl[u].pc # "idle"
        PROVE  /\ upl[u].id \in Ids /\ upl[u].file \in Files
               /\ sessions[upl[u].id].direction = "Receive"
               /\ sessions[upl[u].id].state # "Absent"
    <2>1. UploadInv(u)
      BY DEF ServerInv, HandlersInv
    <2>2. upl[u].id \in Ids /\ upl[u].file \in Files /\ prep[upl[u].id].pc = "accepted"
      BY <1>2, <2>1 DEF UploadInv
    <2>3. RequestInv(upl[u].id)
      BY <2>2 DEF ServerInv, HandlersInv
    <2> QED BY <2>2, <2>3 DEF RequestInv
  <1>3. \A u \in Uploads : UploadInv(u)
    BY DEF ServerInv, HandlersInv
  <1> QED BY <1>1, <1>2, <1>3 DEF UploadInv

(* A guard task that fires has a session to cancel. *)
LEMMA GuardPostsCancel ==
    ASSUME ServerInv, NEW r \in Ids, RunGuardTask(r)
    PROVE  Cancel(r) \/ UNCHANGED vars
  <1>1. guard[r].box # <<>>
    BY DEF RunGuardTask
  <1>2. sessions[r].state # "Absent"
    <2>1. GuardInv(r) /\ RequestInv(r)
      BY DEF ServerInv, HandlersInv
    <2> QED BY <1>1, <2>1 DEF GuardInv, RequestInv
  <1>3. CASE Head(guard[r].box)
    BY <1>2, <1>3 DEF RunGuardTask, Cancel
  <1>4. CASE ~Head(guard[r].box)
    BY <1>4 DEF RunGuardTask, vars
  <1> QED BY <1>3, <1>4

(* The messages of an upload are about a file of its session, an outcome    *)
(* about one that was started.                                              *)
LEMMA UploadPostsMessages ==
    ASSUME ServerInv, NEW u \in Uploads, StartUpload(u) \/ RecordOutcome(u)
    PROVE  [Next]_vars
  <1>1. upl[u].id \in Ids /\ upl[u].file \in Files
    BY SessionFacts DEF StartUpload, RecordOutcome
  <1>2. CASE StartUpload(u)
    <2>1. StartFile(upl[u].id, upl[u].file) \/ UNCHANGED vars
      BY <1>2 DEF StartUpload, StartFile, vars
    <2> QED BY <1>1, <2>1 DEF Next
  <1>3. CASE RecordOutcome(u)
    <2>1. DiskInv(u) /\ upl[u].pc = "reporting"
      BY <1>3 DEF ServerInv, HandlersInv, RecordOutcome
    <2>2. upl[u].outcome \in {"Finish", "Fail"}
      BY <2>1 DEF DiskInv
    <2>3. FinishFile(upl[u].id, upl[u].file, upl[u].outcome)
      BY <1>3, <2>1, <2>2, SessionFacts DEF RecordOutcome, FinishFile, Begun
    <2> QED BY <1>1, <2>2, <2>3 DEF Next, FileState
  <1> QED BY <1>2, <1>3

(* Every step of a handler is a message SessionManager allows, or none. *)
LEMMA ServerStepsAreMessages ==
    ServerInv /\ [ServerNext]_serverVars => [Next]_vars
  <1> SUFFICES ASSUME ServerInv, [ServerNext]_serverVars PROVE [Next]_vars
    OBVIOUS
  <1>0. CASE UNCHANGED serverVars
    BY <1>0 DEF serverVars, vars
  <1>1. ASSUME NEW r \in Ids, HandlerStep(r) PROVE [Next]_vars
    <2>1. ASSUME NEW offered \in SUBSET Files, CreateForRequest(r, offered) PROVE Next
      BY <2>1 DEF CreateForRequest, Next
    <2>2. CASE RejectBusy(r) \/ ArmGuard(r) \/ Answer200Or403(r) \/ ReturnAnswer(r)
      BY <2>2 DEF RejectBusy, ArmGuard, Answer200Or403, ReturnAnswer, vars
    <2>3. CASE RunGuardTask(r)
      BY <2>3, GuardPostsCancel DEF Next
    <2> QED BY <1>1, <2>1, <2>2, <2>3 DEF HandlerStep
  <1>2. ASSUME NEW r \in Ids, PrepareUpload(r) \/ Disconnect(r) PROVE [Next]_vars
    BY <1>2 DEF PrepareUpload, Disconnect, vars
  <1>3. ASSUME NEW u \in Uploads, NEW id \in Ids, NEW f \in Files, HandleUpload(u, id, f)
        PROVE  [Next]_vars
    BY <1>3 DEF HandleUpload, vars
  <1>4. ASSUME NEW u \in Uploads,
               \/ AnswerConfig(u) \/ ChoosePath(u) \/ CreateFile(u) \/ CopyBody(u)
               \/ PostFail(u) \/ ReturnOutcome(u) \/ DropUpload(u)
        PROVE  [Next]_vars
    BY <1>4 DEF AnswerConfig, ChoosePath, CreateFile, CopyBody, PostFail, ReturnOutcome,
                DropUpload, vars
  <1>5. ASSUME NEW u \in Uploads, StartUpload(u) \/ RecordOutcome(u)
        PROVE  [Next]_vars
    BY <1>5, UploadPostsMessages
  <1>6. ASSUME NEW id \in Ids, NEW chosen \in SUBSET Files, UserAccepts(id, chosen) PROVE Next
    BY <1>6 DEF UserAccepts, Next
  <1>7. ASSUME NEW id \in Ids, UserDeclines(id) \/ HandleCancel(id) PROVE Next
    BY <1>7 DEF UserDeclines, HandleCancel, Next
  <1> QED BY <1>0, <1>1, <1>2, <1>3, <1>4, <1>5, <1>6, <1>7
          DEF ServerNext, UploadStep, FailUpload, AbortUpload

-----------------------------------------------------------------------------
(* The handlers' state keeps its shape *)

(* dedup_path always answers a path: of the free ones there is a first. *)
LEMMA DedupIsAPath == Dedup \in Paths /\ (disk[Dedup] = Nobody \/ Dedup = 0)
  <1> DEFINE Free == {p \in Paths : disk[p] = Nobody}
             R == OpToRel(<, Nat)
  <1>1. Free \subseteq Nat /\ 0 \in Paths
    BY MaxCopiesAssumption DEF Paths
  <1>2. CASE Free # {}
    <2> HIDE DEF R, Free
    <2>1. PICK p \in Free : \A q \in Free : ~ (<<q, p>> \in R)
      BY <1>1, <1>2, NatLessThanWellFounded, WFMin DEF R
    <2>2. \A q \in Free : ~ (q < p)
      BY <1>1, <2>1 DEF R, OpToRel
    <2>3. \A q \in Free : p <= q
      BY <1>1, <2>2
    <2>4. \E n \in Paths : disk[n] = Nobody /\ \A q \in Paths : disk[q] = Nobody => n <= q
      BY <2>3 DEF Free
    <2> QED BY <2>4 DEF Dedup
  <1>3. CASE Free = {}
    BY <1>1, <1>3 DEF Dedup
  <1> QED BY <1>2, <1>3

LEMMA ServerTypeStep ==
    ASSUME ServerInv, TypeOK', [ServerNext]_serverVars
    PROVE  ServerTypeOK'
  <1> USE DEF ServerTypeOK
  <1>t. /\ prep \in [Ids -> Prep] /\ guard \in [Ids -> GuardTask]
        /\ upl \in [Uploads -> Upload] /\ disk \in [Paths -> Uploads \cup {Nobody, Mixed}]
    BY DEF ServerInv
  <1>n. ASSUME NEW r \in Ids, NEW flag \in BOOLEAN, Notify(r, flag)
        PROVE  guard' \in [Ids -> GuardTask]
    <2>1. Append(guard[r].box, flag) \in Seq(BOOLEAN)
      BY <1>t DEF GuardTask
    <2>2. [guard[r] EXCEPT !.box = Append(guard[r].box, flag)] \in GuardTask
      BY <1>t, <2>1 DEF GuardTask
    <2> QED BY <1>t, <1>n, <2>2 DEF Notify
  <1>p. ASSUME NEW r \in Ids, NEW pc \in PrepPc, prep' = [prep EXCEPT ![r].pc = pc]
        PROVE  prep' \in [Ids -> Prep]
    BY <1>t, <1>p DEF Prep
  <1>u. ASSUME NEW u \in Uploads, NEW pc \in UplPc, upl' = [upl EXCEPT ![u].pc = pc]
        PROVE  upl' \in [Uploads -> Upload]
    BY <1>t, <1>u DEF Upload
  <1>v. ASSUME NEW u \in Uploads, NEW w, w \in Upload, upl' = [upl EXCEPT ![u] = w]
        PROVE  upl' \in [Uploads -> Upload]
    BY <1>t, <1>v
  <1>0. CASE UNCHANGED serverVars
    BY <1>0, <1>t DEF serverVars
  <1>1. ASSUME NEW r \in Ids, PrepareUpload(r) PROVE ServerTypeOK'
    BY <1>1, <1>p, <1>t DEF PrepareUpload, PrepPc
  <1>2. ASSUME NEW r \in Ids, NEW offered \in SUBSET Files, CreateForRequest(r, offered)
        PROVE  ServerTypeOK'
    BY <1>2, <1>p, <1>t DEF CreateForRequest, PrepPc
  <1>3. ASSUME NEW r \in Ids, RejectBusy(r) \/ ArmGuard(r) PROVE ServerTypeOK'
    BY <1>3, <1>p, <1>t DEF RejectBusy, ArmGuard, PrepPc
  <1>4. ASSUME NEW r \in Ids, Answer200Or403(r) PROVE ServerTypeOK'
    <2>1. guard' \in [Ids -> GuardTask]
      BY <1>4, <1>n DEF Answer200Or403
    <2> QED BY <1>4, <1>p, <1>t, <2>1 DEF Answer200Or403, PrepPc
  <1>5. ASSUME NEW r \in Ids, ReturnAnswer(r) PROVE ServerTypeOK'
    <2>1. guard' \in [Ids -> GuardTask]
      BY <1>5, <1>n DEF ReturnAnswer
    <2>2. PICK pc \in PrepPc : prep' = [prep EXCEPT ![r].pc = pc]
      BY <1>5 DEF ReturnAnswer, PrepPc
    <2>3. prep' \in [Ids -> Prep]
      BY <1>p, <2>2
    <2> QED BY <1>5, <1>t, <2>1, <2>3 DEF ReturnAnswer
  <1>6. ASSUME NEW r \in Ids, Disconnect(r) PROVE ServerTypeOK'
    <2>1. guard' \in [Ids -> GuardTask]
      BY <1>6, <1>n, <1>t DEF Disconnect
    <2>2. prep' \in [Ids -> Prep]
      BY <1>6, <1>t DEF Disconnect, Prep
    <2> QED BY <1>6, <1>t, <2>1, <2>2 DEF Disconnect
  <1>7. ASSUME NEW r \in Ids, RunGuardTask(r) PROVE ServerTypeOK'
    <2>1. guard[r].box \in Seq(BOOLEAN) /\ guard[r].box # <<>>
      BY <1>7, <1>t DEF RunGuardTask, GuardTask
    <2>2. Head(guard[r].box) \in BOOLEAN
      BY <2>1
    <2>3. [box |-> <<>>, done |-> TRUE, fired |-> Head(guard[r].box)] \in GuardTask
      BY <2>2 DEF GuardTask
    <2> QED BY <1>7, <1>t, <2>3 DEF RunGuardTask
  <1>8. ASSUME NEW u \in Uploads, NEW id \in Ids, NEW f \in Files, HandleUpload(u, id, f)
        PROVE  ServerTypeOK'
    <2>2. [upl[u] EXCEPT !.pc = "asking", !.id = id, !.file = f] \in Upload
      BY <1>t DEF Upload, UplPc
    <2>3. upl' \in [Uploads -> Upload]
      BY <1>8, <1>t, <2>2 DEF HandleUpload
    <2> QED BY <1>8, <1>t, <2>3 DEF HandleUpload
  <1>9. ASSUME NEW u \in Uploads, ChoosePath(u) PROVE ServerTypeOK'
    <2>1. Dedup \in Paths
      BY DedupIsAPath
    <2>2. upl' \in [Uploads -> Upload]
      <3>1. [upl[u] EXCEPT !.pc = "chosen", !.path = Dedup] \in Upload
        BY <1>t, <2>1 DEF Upload, UplPc
      <3>2. upl' = [upl EXCEPT ![u] = [upl[u] EXCEPT !.pc = "chosen", !.path = Dedup]]
        BY <1>t, <1>9 DEF ChoosePath
      <3> QED BY <1>v, <3>1, <3>2
    <2> QED BY <1>9, <1>t, <2>2 DEF ChoosePath
  <1>10. ASSUME NEW u \in Uploads, CreateFile(u) \/ CopyBody(u) PROVE ServerTypeOK'
    <2>1. CASE CreateFile(u)
      <3>1. upl' \in [Uploads -> Upload]
        BY <1>u, <2>1 DEF CreateFile, UplPc
      <3>2. disk' \in [Paths -> Uploads \cup {Nobody, Mixed}]
        BY <1>t, <2>1 DEF CreateFile
      <3> QED BY <1>t, <2>1, <3>1, <3>2 DEF CreateFile
    <2>2. CASE CopyBody(u)
      <3>1. upl' \in [Uploads -> Upload]
        <4>1. [upl[u] EXCEPT !.pc = "reporting", !.outcome = "Finish"] \in Upload
          BY <1>t DEF Upload, UplPc
        <4>2. upl' = [upl EXCEPT ![u] = [upl[u] EXCEPT !.pc = "reporting", !.outcome = "Finish"]]
          BY <1>t, <2>2 DEF CopyBody
        <4> QED BY <1>v, <4>1, <4>2
      <3>2. disk' \in [Paths -> Uploads \cup {Nobody, Mixed}]
        BY <1>t, <2>2 DEF CopyBody
      <3> QED BY <1>t, <2>2, <3>1, <3>2 DEF CopyBody
    <2> QED BY <1>10, <2>1, <2>2
  <1>11. ASSUME NEW u \in Uploads, AnswerConfig(u) \/ ReturnOutcome(u) PROVE ServerTypeOK'
    <2>1. PICK pc \in UplPc : upl' = [upl EXCEPT ![u].pc = pc]
      BY <1>11 DEF AnswerConfig, ReturnOutcome, UplPc
    <2>2. upl' \in [Uploads -> Upload]
      BY <1>u, <2>1
    <2> QED BY <1>11, <1>t, <2>2 DEF AnswerConfig, ReturnOutcome
  <1>12. ASSUME NEW u \in Uploads, StartUpload(u) \/ RecordOutcome(u) PROVE ServerTypeOK'
    <2>1. PICK pc \in UplPc : upl' = [upl EXCEPT ![u].pc = pc]
      BY <1>12 DEF StartUpload, RecordOutcome, Resumes, UplPc
    <2>2. upl' \in [Uploads -> Upload]
      BY <1>u, <2>1
    <2> QED BY <1>12, <1>t, <2>2 DEF StartUpload, RecordOutcome
  <1>13. ASSUME NEW u \in Uploads, PostFail(u) \/ DropUpload(u) PROVE ServerTypeOK'
    <2>1. CASE PostFail(u)
      <3>1. upl' \in [Uploads -> Upload]
        <4>1. [upl[u] EXCEPT !.pc = "reporting", !.outcome = "Fail"] \in Upload
          BY <1>t DEF Upload, UplPc
        <4>2. upl' = [upl EXCEPT ![u] = [upl[u] EXCEPT !.pc = "reporting", !.outcome = "Fail"]]
          BY <1>t, <2>1 DEF PostFail
        <4> QED BY <1>v, <4>1, <4>2
      <3> QED BY <1>t, <2>1, <3>1 DEF PostFail
    <2>2. CASE DropUpload(u)
      <3>1. PICK pc \in UplPc : upl' = [upl EXCEPT ![u].alive = FALSE, ![u].pc = pc]
        <4>1. upl[u].pc \in UplPc
          BY <1>t DEF Upload
        <4> QED BY <2>2, <4>1 DEF DropUpload, UplPc
      <3>2. upl' \in [Uploads -> Upload]
        <4>1. [upl[u] EXCEPT !.alive = FALSE, !.pc = pc] \in Upload
          BY <1>t DEF Upload, UplPc
        <4>2. upl' = [upl EXCEPT ![u] = [upl[u] EXCEPT !.alive = FALSE, !.pc = pc]]
          BY <1>t, <3>1 DEF Upload
        <4> QED BY <1>v, <4>1, <4>2
      <3> QED BY <1>t, <2>2, <3>2 DEF DropUpload
    <2> QED BY <1>13, <2>1, <2>2
  <1>14. ASSUME NEW id \in Ids, NEW chosen \in SUBSET Files, UserAccepts(id, chosen)
         PROVE  ServerTypeOK'
    BY <1>14, <1>t DEF UserAccepts
  <1>15. ASSUME NEW id \in Ids, UserDeclines(id) \/ HandleCancel(id) PROVE ServerTypeOK'
    BY <1>15, <1>t DEF UserDeclines, HandleCancel
  <1> HIDE DEF ServerTypeOK
  <1> QED BY <1>0, <1>1, <1>2, <1>3, <1>4, <1>5, <1>6, <1>7, <1>8, <1>9, <1>10, <1>11, <1>12,
             <1>13, <1>14, <1>15 DEF ServerNext, HandlerStep, UploadStep, FailUpload, AbortUpload

-----------------------------------------------------------------------------
(* What a step leaves alone keeps its invariant *)

(* A message to one session leaves the others as they were. *)
LEMMA UpdateKeeps ==
    ASSUME ServerInv, NEW id \in Ids, NEW t \in Session, Update(id, t), Keeps(sessions[id], t)
    PROVE  /\ \A i \in Ids : Keeps(sessions[i], sessions'[i])
           /\ NoNewFinish(sessions[id], t) =>
                 \A i \in Ids : NoNewFinish(sessions[i], sessions'[i])
  <1>1. \A i \in Ids : sessions[i] \in Session /\ sessions'[i] = IF i = id THEN t ELSE sessions[i]
    BY DEF ServerInv, IInv, TypeOK, Update
  <1>2. \A i \in Ids : Keeps(sessions[i], sessions[i]) /\ NoNewFinish(sessions[i], sessions[i])
    BY <1>1, SameFilesKeep
  <1> QED BY <1>1, <1>2

LEMMA NoMessageKeeps ==
    ASSUME ServerInv, sessions' = sessions
    PROVE  \A i \in Ids : /\ Keeps(sessions[i], sessions'[i])
                          /\ NoNewFinish(sessions[i], sessions'[i])
  <1>1. \A i \in Ids : sessions[i] \in Session
    BY DEF ServerInv, IInv, TypeOK
  <1> QED BY <1>1, SameFilesKeep

LEMMA RequestKept ==
    ASSUME ServerInv, NEW r \in Ids, Keeps(sessions[r], sessions'[r]), prep'[r] = prep[r]
    PROVE  RequestInv(r)'
  <1>1. RequestInv(r)
    BY DEF ServerInv, HandlersInv
  <1> QED BY <1>1 DEF RequestInv, Keeps

LEMMA GuardKept ==
    ASSUME ServerInv, NEW r \in Ids, prep'[r] = prep[r], guard'[r] = guard[r]
    PROVE  GuardInv(r)'
  <1>1. GuardInv(r)
    BY DEF ServerInv, HandlersInv
  <1> QED BY <1>1 DEF GuardInv

(* No request takes back an answer it gave. *)
TokensStay == \A r \in Ids : prep[r].pc = "accepted" => prep'[r].pc = "accepted"

LEMMA UploadKept ==
    ASSUME ServerInv, TokensStay, NEW u \in Uploads,
           upl[u].id \in Ids => Keeps(sessions[upl[u].id], sessions'[upl[u].id]),
           upl'[u].id = upl[u].id, upl'[u].file = upl[u].file,
           upl'[u].pc # "idle" => upl[u].pc # "idle",
           Begun(upl'[u].pc) => Begun(upl[u].pc),
           (upl'[u].pc \in {"reported", "ok"} /\ upl'[u].outcome = "Finish") =>
              upl[u].pc \in {"reported", "ok"} /\ upl[u].outcome = "Finish"
    PROVE  UploadInv(u)'
  <1>1. UploadInv(u)
    BY DEF ServerInv, HandlersInv
  <1>2. CASE upl'[u].pc = "idle"
    BY <1>2 DEF UploadInv, Begun
  <1>3. CASE upl'[u].pc # "idle"
    <2>1. /\ upl[u].id \in Ids /\ upl[u].file \in Files /\ prep[upl[u].id].pc = "accepted"
          /\ Keeps(sessions[upl[u].id], sessions'[upl[u].id])
      BY <1>1, <1>3 DEF UploadInv
    <2> QED BY <1>1, <1>3, <2>1 DEF UploadInv, Keeps, TokensStay
  <1> QED BY <1>2, <1>3

LEMMA FinishKept ==
    ASSUME ServerInv, \A i \in Ids : NoNewFinish(sessions[i], sessions'[i]),
           \A u \in Uploads : upl[u].outcome = "Finish" =>
              /\ upl'[u].outcome = "Finish"
              /\ upl'[u].id = upl[u].id /\ upl'[u].file = upl[u].file
    PROVE  FinishInv'
  BY DEF ServerInv, HandlersInv, FinishInv, NoNewFinish

(* No upload and no file on disk changes. *)
LEMMA AllDiskKept ==
    ASSUME ServerInv, UNCHANGED <<upl, disk>>
    PROVE  \A u \in Uploads : DiskInv(u)'
  BY DEF ServerInv, HandlersInv, DiskInv, Holds

(* One upload moves on along its path, and the files on disk stay. *)
LEMMA DiskKept ==
    ASSUME ServerInv, UNCHANGED disk, NEW u \in Uploads,
           \A v \in Uploads : v # u => upl'[v] = upl[v],
           upl'[u].path = upl[u].path,
           upl'[u].pc \in {"idle", "asking", "posted", "started"} =>
              upl[u].pc \in {"idle", "asking", "posted", "started"},
           upl'[u].pc \in {"chosen", "copying"} => upl'[u].pc = upl[u].pc,
           upl'[u].outcome = "Finish" =>
              upl[u].outcome = "Finish" /\ upl'[u].pc \in {"reporting", "reported", "ok", "dropped"},
           upl'[u].pc = "reporting" => upl'[u].outcome \in {"Finish", "Fail"},
           upl'[u].pc = "ok" => upl'[u].outcome = "Finish"
    PROVE  \A v \in Uploads : DiskInv(v)'
  <1>1. \A v \in Uploads : DiskInv(v) /\ upl'[v].path = upl[v].path
    BY DEF ServerInv, HandlersInv
  <1>2. \A v \in Uploads : Holds(v) => Holds(v)'
    BY <1>1 DEF Holds
  <1> QED BY <1>1, <1>2 DEF DiskInv

-----------------------------------------------------------------------------
(* One lemma per kind of step *)

(* The user and the peer's cancel: one session changes, no handler does. *)
LEMMA MessageInv ==
    ASSUME ServerInv, NEW id \in Ids, NEW t \in Session, Update(id, t),
           Keeps(sessions[id], t), NoNewFinish(sessions[id], t),
           UNCHANGED <<prep, guard, upl, disk>>
    PROVE  HandlersInv'
  <1>1. \A i \in Ids : /\ Keeps(sessions[i], sessions'[i])
                       /\ NoNewFinish(sessions[i], sessions'[i])
    BY UpdateKeeps
  <1>2. TokensStay
    BY DEF TokensStay
  <1>3. \A r \in Ids : RequestInv(r)'
    BY <1>1, RequestKept
  <1>4. \A r \in Ids : GuardInv(r)'
    BY GuardKept
  <1>5. \A u \in Uploads : UploadInv(u)' /\ DiskInv(u)'
    BY <1>1, <1>2, UploadKept, AllDiskKept
  <1>6. FinishInv'
    BY <1>1, FinishKept
  <1> QED BY <1>3, <1>4, <1>5, <1>6 DEF HandlersInv

(* A prepare-upload handler moves on and no session changes. *)
LEMMA HandlerMoves ==
    ASSUME ServerInv, NEW r \in Ids, UNCHANGED <<sessions, upl, disk>>,
           \A i \in Ids : i # r => prep'[i] = prep[i] /\ guard'[i] = guard[i],
           prep[r].pc # "accepted", RequestInv(r)', GuardInv(r)'
    PROVE  HandlersInv'
  <1>1. \A i \in Ids : /\ Keeps(sessions[i], sessions'[i])
                       /\ NoNewFinish(sessions[i], sessions'[i])
    BY NoMessageKeeps
  <1>2. TokensStay
    BY DEF TokensStay
  <1>3. \A i \in Ids : RequestInv(i)'
    BY <1>1, RequestKept
  <1>4. \A i \in Ids : GuardInv(i)'
    BY GuardKept
  <1>5. \A u \in Uploads : UploadInv(u)' /\ DiskInv(u)'
    BY <1>1, <1>2, UploadKept, AllDiskKept
  <1>6. FinishInv'
    BY <1>1, FinishKept
  <1> QED BY <1>3, <1>4, <1>5, <1>6 DEF HandlersInv

(* An upload moves on and no session loses anything. *)
LEMMA UploadMoves ==
    ASSUME ServerInv, NEW u \in Uploads, UNCHANGED <<prep, guard>>,
           \A i \in Ids : /\ Keeps(sessions[i], sessions'[i])
                          /\ NoNewFinish(sessions[i], sessions'[i]),
           \A v \in Uploads : v # u => upl'[v] = upl[v],
           upl[u].outcome = "Finish" => /\ upl'[u].outcome = "Finish"
                                        /\ upl'[u].id = upl[u].id /\ upl'[u].file = upl[u].file,
           UploadInv(u)', \A v \in Uploads : DiskInv(v)'
    PROVE  HandlersInv'
  <1>2. TokensStay
    BY DEF TokensStay
  <1>3. \A i \in Ids : RequestInv(i)'
    BY RequestKept
  <1>4. \A i \in Ids : GuardInv(i)'
    BY GuardKept
  <1>5. \A v \in Uploads : UploadInv(v)'
    BY <1>2, UploadKept
  <1>6. FinishInv'
    BY FinishKept
  <1> QED BY <1>3, <1>4, <1>5, <1>6 DEF HandlersInv

-----------------------------------------------------------------------------
(* The prepare-upload handler *)

(* The session an offer creates is of a request no upload belongs to. *)
LEMMA CreateForRequestInv ==
    ASSUME ServerInv, NEW r \in Ids, NEW offered \in SUBSET Files,
           CreateForRequest(r, offered)
    PROVE  HandlersInv'
  <1> DEFINE t == NewSession("Receive", offered)
  <1>1. /\ prep[r].pc = "posted" /\ UNCHANGED <<guard, upl, disk>> /\ Update(r, t)
        /\ prep' = [prep EXCEPT ![r].pc = "created"]
    BY DEF CreateForRequest, CreateRecvSession
  <1>2. /\ sessions \in [Ids -> Session] /\ prep \in [Ids -> Prep] /\ GuardInv(r)
    BY DEF ServerInv, HandlersInv, IInv, TypeOK, ServerTypeOK
  <1>3. \A i \in Ids : sessions'[i] = IF i = r THEN t ELSE sessions[i]
    BY <1>1, <1>2 DEF Update
  <1>4. prep'[r].pc = "created" /\ \A i \in Ids : i # r => prep'[i] = prep[i]
    BY <1>1, <1>2 DEF Prep
  <1>5. \A i \in Ids : i # r => /\ Keeps(sessions[i], sessions'[i])
                                /\ NoNewFinish(sessions[i], sessions'[i])
    BY <1>2, <1>3, SameFilesKeep
  <1>6. /\ t.direction = "Receive" /\ t.state = "Pending" /\ t.granted = {}
        /\ \A f \in Files : t.files[f] # "Finish"
    BY DEF NewSession
  <1> HIDE DEF t
  <1>7. \A i \in Ids : RequestInv(i)'
    <2>1. RequestInv(r)'
      BY <1>3, <1>4, <1>6 DEF RequestInv
    <2> QED BY <1>4, <1>5, <2>1, RequestKept
  <1>8. \A i \in Ids : GuardInv(i)'
    <2>1. GuardInv(r)'
      BY <1>1, <1>2, <1>4 DEF GuardInv
    <2> QED BY <1>1, <1>4, <2>1, GuardKept
  <1>9. \A u \in Uploads : upl[u].pc # "idle" => upl[u].id \in Ids /\ upl[u].id # r
    BY <1>1 DEF ServerInv, HandlersInv, UploadInv
  <1>10. \A u \in Uploads : UploadInv(u)'
    <2>1. TokensStay
      BY <1>1, <1>4 DEF TokensStay
    <2> SUFFICES ASSUME NEW u \in Uploads PROVE UploadInv(u)'
      OBVIOUS
    <2>2. CASE upl[u].pc = "idle"
      BY <1>1, <2>2 DEF UploadInv, Begun
    <2>3. CASE upl[u].pc # "idle"
      BY <1>1, <1>5, <1>9, <2>1, <2>3, UploadKept
    <2> QED BY <2>2, <2>3
  <1>11. FinishInv'
    <2>1. \A i \in Ids : NoNewFinish(sessions[i], sessions'[i])
      BY <1>3, <1>5, <1>6 DEF NoNewFinish
    <2> QED BY <1>1, <2>1, FinishKept
  <1>12. \A u \in Uploads : DiskInv(u)'
    BY <1>1, AllDiskKept
  <1> QED BY <1>7, <1>8, <1>10, <1>11, <1>12 DEF HandlersInv

(* What Notify does to a guard task's mailbox. *)
LEMMA NotifyEffect ==
    ASSUME ServerInv, NEW r \in Ids, NEW flag \in BOOLEAN, Notify(r, flag)
    PROVE  /\ \A i \in Ids : i # r => guard'[i] = guard[i]
           /\ guard'[r].done = guard[r].done /\ guard'[r].fired = guard[r].fired
           /\ guard[r].done => guard'[r] = guard[r]
           /\ ~guard[r].done => /\ guard'[r].box # <<>>
                                /\ Head(guard'[r].box) =
                                     IF guard[r].box = <<>> THEN flag ELSE Head(guard[r].box)
  <1>1. guard \in [Ids -> GuardTask] /\ guard[r].box \in Seq(BOOLEAN)
    BY DEF ServerInv, ServerTypeOK, GuardTask
  <1>2. ~guard[r].done => guard'[r].box = Append(guard[r].box, flag)
    BY <1>1 DEF Notify, GuardTask
  <1>3. Append(guard[r].box, flag) # <<>>
    BY <1>1
  <1>4. Head(Append(guard[r].box, flag)) = IF guard[r].box = <<>> THEN flag ELSE Head(guard[r].box)
    BY <1>1
  <1>5. /\ \A i \in Ids : i # r => guard'[i] = guard[i]
        /\ guard'[r].done = guard[r].done /\ guard'[r].fired = guard[r].fired
        /\ guard[r].done => guard'[r] = guard[r]
    BY <1>1 DEF Notify, GuardTask
  <1> QED BY <1>2, <1>3, <1>4, <1>5

(* The steps that touch neither a session nor the guard. *)
LEMMA PlainHandlerInv ==
    ASSUME ServerInv, NEW r \in Ids, PrepareUpload(r) \/ RejectBusy(r) \/ ArmGuard(r)
    PROVE  HandlersInv'
  <1>1. prep \in [Ids -> Prep] /\ RequestInv(r) /\ GuardInv(r)
    BY DEF ServerInv, ServerTypeOK, HandlersInv
  <1>2. /\ UNCHANGED <<sessions, guard, upl, disk>> /\ prep'[r].alive = prep[r].alive
        /\ \A i \in Ids : i # r => prep'[i] = prep[i]
        /\ \/ prep[r].pc = "idle" /\ prep'[r].pc = "posted"
           \/ prep[r].pc = "posted" /\ prep'[r].pc = "busy"
           \/ prep[r].pc = "created" /\ prep'[r].pc = "waiting"
    BY <1>1 DEF PrepareUpload, RejectBusy, ArmGuard, Prep
  <1>3. RequestInv(r)'
    BY <1>1, <1>2 DEF RequestInv
  <1>4. GuardInv(r)'
    BY <1>1, <1>2 DEF GuardInv
  <1> QED BY <1>2, <1>3, <1>4, HandlerMoves

(* The answer: `false` is in the guard's mailbox before any `true`. *)
LEMMA AnswerInv ==
    ASSUME ServerInv, NEW r \in Ids, Answer200Or403(r) \/ ReturnAnswer(r)
    PROVE  HandlersInv'
  <1>1. prep \in [Ids -> Prep] /\ RequestInv(r) /\ GuardInv(r)
    BY DEF ServerInv, ServerTypeOK, HandlersInv
  <1>2. /\ UNCHANGED <<sessions, upl, disk>> /\ prep[r].alive /\ prep'[r].alive
        /\ \A i \in Ids : i # r => prep'[i] = prep[i]
        /\ \/ /\ prep[r].pc = "waiting" /\ prep'[r].pc = "answering"
              /\ sessions[r].decision # "Open" /\ Notify(r, FALSE)
           \/ /\ prep[r].pc = "answering" /\ prep'[r].pc \in {"accepted", "refused"}
              /\ prep'[r].pc = "accepted" => sessions[r].decision = "Accepted"
              /\ Notify(r, TRUE)
    <2>1. CASE Answer200Or403(r)
      BY <1>1, <2>1 DEF Answer200Or403, Prep
    <2>2. CASE ReturnAnswer(r)
      <3>1. PICK pc \in {"accepted", "refused"} :
               /\ prep' = [prep EXCEPT ![r].pc = pc]
               /\ pc = "accepted" => sessions[r].decision = "Accepted"
        BY <2>2 DEF ReturnAnswer
      <3> QED BY <1>1, <2>2, <3>1 DEF ReturnAnswer, Prep
    <2> QED BY <2>1, <2>2
  <1>3. RequestInv(r)'
    BY <1>1, <1>2 DEF RequestInv
  <1>4. GuardInv(r)' /\ \A i \in Ids : i # r => guard'[i] = guard[i]
    <2>1. CASE prep[r].pc = "waiting"
      <3>1. Notify(r, FALSE)
        BY <1>2, <2>1
      <3> QED BY <1>1, <1>2, <2>1, <3>1, NotifyEffect DEF GuardInv
    <2>2. CASE prep[r].pc = "answering"
      <3>1. Notify(r, TRUE)
        BY <1>2, <2>2
      <3> QED BY <1>1, <1>2, <2>2, <3>1, NotifyEffect DEF GuardInv
    <2> QED BY <1>2, <2>1, <2>2
  <1>5. prep[r].pc # "accepted"
    BY <1>2
  <1> QED BY <1>2, <1>3, <1>4, <1>5, HandlerMoves

(* The peer goes away. *)
LEMMA DisconnectInv ==
    ASSUME ServerInv, NEW r \in Ids, Disconnect(r)
    PROVE  HandlersInv'
  <1>1. prep \in [Ids -> Prep] /\ RequestInv(r) /\ GuardInv(r)
    BY DEF ServerInv, ServerTypeOK, HandlersInv
  <1>2. /\ UNCHANGED <<sessions, upl, disk>> /\ prep[r].alive /\ ~prep'[r].alive
        /\ \A i \in Ids : i # r => prep'[i] = prep[i]
        /\ prep'[r].pc = prep[r].pc /\ prep[r].pc \in {"posted", "created", "waiting"}
    BY <1>1 DEF Disconnect, Prep
  <1>3. RequestInv(r)'
    BY <1>1, <1>2 DEF RequestInv
  <1>4. GuardInv(r)' /\ \A i \in Ids : i # r => guard'[i] = guard[i]
    <2>1. CASE prep[r].pc = "waiting"
      <3>1. Notify(r, TRUE)
        BY <2>1 DEF Disconnect
      <3> QED BY <1>1, <1>2, <2>1, <3>1, NotifyEffect DEF GuardInv
    <2>2. CASE prep[r].pc # "waiting"
      BY <1>1, <1>2, <2>2 DEF GuardInv, Disconnect
    <2> QED BY <2>1, <2>2
  <1>5. prep[r].pc # "accepted"
    BY <1>2
  <1> QED BY <1>2, <1>3, <1>4, <1>5, HandlerMoves

(* The guard task fires only for a handler that was dropped. *)
LEMMA RunGuardInv ==
    ASSUME ServerInv, NEW r \in Ids, RunGuardTask(r)
    PROVE  HandlersInv'
  <1>1. guard \in [Ids -> GuardTask] /\ GuardInv(r)
    BY DEF ServerInv, ServerTypeOK, HandlersInv
  <1>2. /\ UNCHANGED <<prep, upl, disk>> /\ guard[r].box # <<>>
        /\ guard'[r].box = <<>> /\ guard'[r].done /\ guard'[r].fired = Head(guard[r].box)
        /\ \A i \in Ids : i # r => guard'[i] = guard[i]
    BY <1>1 DEF RunGuardTask, GuardTask
  <1>3. \A i \in Ids : GuardInv(i)'
    <2>1. GuardInv(r)'
      BY <1>1, <1>2 DEF GuardInv
    <2> QED BY <1>2, <2>1, GuardKept
  <1>4. \A i \in Ids : /\ Keeps(sessions[i], sessions'[i])
                       /\ NoNewFinish(sessions[i], sessions'[i])
    <2>1. CASE Head(guard[r].box)
      <3>1. Update(r, CancelSession(sessions[r]))
        BY <2>1 DEF RunGuardTask
      <3> QED BY <3>1, SessionFacts, CancelSessionInv, CancelKeeps, UpdateKeeps
    <2>2. CASE ~Head(guard[r].box)
      BY <2>2, NoMessageKeeps DEF RunGuardTask
    <2> QED BY <2>1, <2>2
  <1>5. TokensStay
    BY <1>2 DEF TokensStay
  <1>6. \A i \in Ids : RequestInv(i)'
    BY <1>2, <1>4, RequestKept
  <1>7. \A u \in Uploads : UploadInv(u)' /\ DiskInv(u)'
    BY <1>2, <1>4, <1>5, UploadKept, AllDiskKept
  <1>8. FinishInv'
    BY <1>2, <1>4, FinishKept
  <1> QED BY <1>3, <1>6, <1>7, <1>8 DEF HandlersInv

-----------------------------------------------------------------------------
(* The upload handlers *)

(* A request arrives, or a handler waits, reports a failure, returns or is  *)
(* dropped: nothing is written, and no message handled.                     *)
LEMMA PlainUploadInv ==
    ASSUME ServerInv, NEW u \in Uploads,
           \/ \E id \in Ids, f \in Files : HandleUpload(u, id, f)
           \/ AnswerConfig(u) \/ PostFail(u) \/ ReturnOutcome(u) \/ DropUpload(u)
    PROVE  HandlersInv'
  <1>1. upl \in [Uploads -> Upload] /\ DiskInv(u)
    BY DEF ServerInv, ServerTypeOK, HandlersInv
  <1>2. /\ UNCHANGED <<sessions, prep, guard, disk>>
        /\ \A v \in Uploads : v # u => upl'[v] = upl[v]
        /\ upl'[u].path = upl[u].path
    BY <1>1 DEF HandleUpload, AnswerConfig, PostFail, ReturnOutcome, DropUpload, Upload
  <1>3. \A i \in Ids : /\ Keeps(sessions[i], sessions'[i])
                       /\ NoNewFinish(sessions[i], sessions'[i])
    BY <1>2, NoMessageKeeps
  <1>4. TokensStay
    BY <1>2 DEF TokensStay
  <1>5. ASSUME NEW id \in Ids, NEW f \in Files, HandleUpload(u, id, f) PROVE HandlersInv'
    <2>1. /\ upl[u].pc = "idle" /\ prep[id].pc = "accepted" /\ upl'[u].pc = "asking"
          /\ upl'[u].id = id /\ upl'[u].file = f /\ upl'[u].outcome = upl[u].outcome
      BY <1>1, <1>5 DEF HandleUpload, Arrives, HoldsTokens, Upload
    <2>2. upl[u].outcome # "Finish"
      BY <1>1, <2>1 DEF DiskInv
    <2>3. UploadInv(u)'
      BY <1>2, <2>1 DEF UploadInv, Begun
    <2>4. \A v \in Uploads : DiskInv(v)'
      BY <1>2, <2>1, <2>2, DiskKept
    <2> QED BY <1>2, <1>3, <2>2, <2>3, <2>4, UploadMoves
  <1>6. ASSUME \/ AnswerConfig(u) \/ PostFail(u) \/ ReturnOutcome(u) \/ DropUpload(u)
        PROVE  HandlersInv'
    <2>1. /\ upl[u].pc # "idle" /\ upl'[u].id = upl[u].id /\ upl'[u].file = upl[u].file
          /\ \/ /\ upl[u].pc = "asking" /\ upl'[u].pc = "posted"
                /\ upl'[u].outcome = upl[u].outcome
             \/ /\ upl[u].pc \in {"started", "chosen", "copying"} /\ upl'[u].pc = "reporting"
                /\ upl'[u].outcome = "Fail"
             \/ /\ upl[u].pc = "reported"
                /\ upl'[u].pc = IF upl[u].outcome = "Finish" THEN "ok" ELSE "failed"
                /\ upl'[u].outcome = upl[u].outcome
             \/ /\ upl'[u].outcome = upl[u].outcome
                /\ \/ upl'[u].pc = "dropped"
                   \/ upl'[u].pc = upl[u].pc /\ upl[u].pc \in {"posted", "reporting"}
      <3>1. CASE AnswerConfig(u)
        BY <1>1, <3>1 DEF AnswerConfig, Upload
      <3>2. CASE PostFail(u)
        BY <1>1, <3>2 DEF PostFail, Upload
      <3>3. CASE ReturnOutcome(u)
        BY <1>1, <3>3 DEF ReturnOutcome, Upload
      <3>4. CASE DropUpload(u)
        BY <1>1, <3>4 DEF DropUpload, InFlight, Working, Upload
      <3> QED BY <1>6, <3>1, <3>2, <3>3, <3>4
    <2>2. upl[u].outcome = "Finish" => upl'[u].outcome = "Finish"
      BY <1>1, <2>1 DEF DiskInv
    <2>3. UploadInv(u)'
      BY <1>1, <1>2, <1>3, <1>4, <2>1, UploadKept DEF Begun
    <2>4. \A v \in Uploads : DiskInv(v)'
      BY <1>1, <1>2, <2>1, DiskKept DEF DiskInv
    <2> QED BY <1>2, <1>3, <2>1, <2>2, <2>3, <2>4, UploadMoves
  <1> QED BY <1>5, <1>6

(* An upload chooses a path nobody shares with it yet, or one that is in    *)
(* use; it creates the file, or writes the last of its body.                *)
LEMMA WriteInv ==
    ASSUME ServerInv, NEW u \in Uploads, ChoosePath(u) \/ CreateFile(u) \/ CopyBody(u)
    PROVE  HandlersInv'
  <1>1. /\ upl \in [Uploads -> Upload] /\ disk \in [Paths -> Uploads \cup {Nobody, Mixed}]
        /\ \A v \in Uploads : DiskInv(v)
    BY DEF ServerInv, ServerTypeOK, HandlersInv
  <1>2. /\ UNCHANGED <<sessions, prep, guard>>
        /\ \A v \in Uploads : v # u => upl'[v] = upl[v]
        /\ upl'[u].id = upl[u].id /\ upl'[u].file = upl[u].file
        /\ upl[u].pc \in {"started", "chosen", "copying"}
        /\ upl'[u].pc \in {"chosen", "copying", "reporting"}
    <2>1. CASE ChoosePath(u)
      BY <1>1, <2>1 DEF ChoosePath, Upload
    <2>2. CASE CreateFile(u)
      BY <1>1, <2>2 DEF CreateFile, Upload
    <2>3. CASE CopyBody(u)
      BY <1>1, <2>3 DEF CopyBody, Upload
    <2> QED BY <2>1, <2>2, <2>3
  <1>3. \A i \in Ids : /\ Keeps(sessions[i], sessions'[i])
                       /\ NoNewFinish(sessions[i], sessions'[i])
    BY <1>2, NoMessageKeeps
  <1>4. UploadInv(u)'
    <2>1. TokensStay
      BY <1>2 DEF TokensStay
    <2> QED BY <1>2, <1>3, <2>1, UploadKept DEF Begun
  <1>5. upl[u].outcome # "Finish"
    BY <1>1, <1>2 DEF DiskInv
  <1>6. \A v \in Uploads : DiskInv(v)'
    <2>1. CASE ChoosePath(u)
      <3>1. /\ upl[u].path = NoPath /\ upl'[u].path \in Paths /\ upl'[u].pc = "chosen"
            /\ disk' = disk /\ upl'[u].outcome = upl[u].outcome
        BY <1>1, <2>1, DedupIsAPath DEF ChoosePath, DiskInv, Upload
      <3>2. NoPath \notin Paths
        BY MaxCopiesAssumption DEF NoPath, Paths
      <3>3. ASSUME NEW v \in Uploads, v # u, upl[v].path \in Paths, Holds(v) PROVE Holds(v)'
        BY <1>2, <3>1, <3>2, <3>3 DEF Holds
      <3>4. \A v \in Uploads : v # u => DiskInv(v)'
        BY <1>1, <1>2, <3>3 DEF DiskInv
      <3>5. DiskInv(u)'
        BY <1>5, <3>1 DEF DiskInv
      <3> QED BY <3>4, <3>5
    <2>2. CASE CreateFile(u) \/ CopyBody(u)
      <3>1. /\ upl'[u].path = upl[u].path /\ upl[u].path \in Paths
            /\ \A p \in Paths : p # upl[u].path => disk'[p] = disk[p]
            /\ \/ upl'[u].pc = "copying" /\ disk'[upl[u].path] = u
                  /\ upl'[u].outcome = upl[u].outcome
               \/ /\ upl[u].pc = "copying" /\ upl'[u].pc = "reporting"
                  /\ upl'[u].outcome = "Finish"
                  /\ disk[upl[u].path] = u => disk'[upl[u].path] = u
        <4>1. upl[u].path \in Paths
          BY <1>1, <2>2 DEF CreateFile, CopyBody, DiskInv
        <4>2. CASE CreateFile(u)
          BY <1>1, <4>1, <4>2 DEF CreateFile, Upload
        <4>3. CASE CopyBody(u)
          BY <1>1, <4>1, <4>3 DEF CopyBody, Upload
        <4> QED BY <2>2, <4>1, <4>2, <4>3
      <3>2. ASSUME NEW v \in Uploads, v # u, upl[v].path \in Paths, Holds(v) PROVE Holds(v)'
        BY <1>2, <3>1, <3>2 DEF Holds
      <3>3. \A v \in Uploads : v # u => DiskInv(v)'
        BY <1>1, <1>2, <3>2 DEF DiskInv
      <3>4. upl[u].pc = "copying" => Holds(u)
        BY <1>1 DEF DiskInv
      <3>5. Holds(u)'
        BY <1>2, <3>1, <3>4 DEF Holds
      <3>6. DiskInv(u)'
        BY <1>5, <3>1, <3>5 DEF DiskInv
      <3> QED BY <3>3, <3>6
    <2> QED BY <2>1, <2>2
  <1> QED BY <1>2, <1>3, <1>4, <1>5, <1>6, UploadMoves

(* start_file lets the upload in, or the upload is rejected. *)
LEMMA StartUploadInv ==
    ASSUME ServerInv, NEW u \in Uploads, StartUpload(u)
    PROVE  HandlersInv'
  <1> DEFINE id == upl[u].id
             f == upl[u].file
             t == Started(sessions[id], f)
  <1>1. upl \in [Uploads -> Upload] /\ sessions \in [Ids -> Session] /\ UploadInv(u) /\ DiskInv(u)
    BY DEF ServerInv, ServerTypeOK, TypeOK, HandlersInv
  <1>2. /\ UNCHANGED <<prep, guard, disk>> /\ upl[u].pc = "posted"
        /\ \A v \in Uploads : v # u => upl'[v] = upl[v]
        /\ upl'[u].path = upl[u].path /\ upl'[u].id = id /\ upl'[u].file = f
        /\ upl'[u].outcome = upl[u].outcome
        /\ upl'[u].pc \in {"started", "rejected", "dropped"}
        /\ \/ CanStart(sessions[id], f) /\ Update(id, t)
           \/ sessions' = sessions /\ upl'[u].pc # "started"
    <2>1. PICK pc \in {"started", "rejected", "dropped"} :
             /\ upl' = [upl EXCEPT ![u].pc = pc]
             /\ \/ CanStart(sessions[id], f) /\ Update(id, t)
                \/ sessions' = sessions /\ pc # "started"
      BY DEF StartUpload, Resumes
    <2> QED BY <1>1, <2>1 DEF StartUpload, Upload
  <1>3. id \in Ids /\ f \in Files /\ prep[id].pc = "accepted" /\ upl[u].outcome # "Finish"
    BY <1>1, <1>2 DEF UploadInv, DiskInv
  <1> HIDE DEF id, f
  <1>4. \A v \in Uploads : DiskInv(v)'
    BY <1>1, <1>2, <1>3, DiskKept DEF DiskInv
  <1>5. CASE CanStart(sessions[id], f) /\ Update(id, t)
    <2>1. /\ t \in Session /\ Keeps(sessions[id], t) /\ NoNewFinish(sessions[id], t)
          /\ f \in t.started /\ t.files[f] = "Transfer"
      BY <1>3, <1>5, SessionFacts, StartInv, StartKeeps
    <2> HIDE DEF t
    <2>2. \A i \in Ids : /\ Keeps(sessions[i], sessions'[i])
                         /\ NoNewFinish(sessions[i], sessions'[i])
      BY <1>3, <1>5, <2>1, UpdateKeeps
    <2>3. sessions'[id] = t
      BY <1>1, <1>3, <1>5 DEF Update
    <2>4. UploadInv(u)'
      BY <1>2, <1>3, <2>1, <2>3 DEF UploadInv, Moving, Begun
    <2> QED BY <1>2, <1>3, <1>4, <2>2, <2>4, UploadMoves
  <1>6. CASE sessions' = sessions /\ upl'[u].pc # "started"
    <2>1. UploadInv(u)'
      BY <1>2, <1>3, <1>6 DEF UploadInv, Begun
    <2> QED BY <1>2, <1>3, <1>4, <1>6, <2>1, NoMessageKeeps, UploadMoves
  <1> QED BY <1>2, <1>5, <1>6

(* The actor records an outcome, Finish only for an upload that wrote all. *)
LEMMA RecordInv ==
    ASSUME ServerInv, NEW u \in Uploads, RecordOutcome(u)
    PROVE  HandlersInv'
  <1> DEFINE id == upl[u].id
             f == upl[u].file
             st == upl[u].outcome
             t == SetFileState(sessions[id], f, st)
  <1>1. upl \in [Uploads -> Upload] /\ sessions \in [Ids -> Session] /\ UploadInv(u) /\ DiskInv(u)
    BY DEF ServerInv, ServerTypeOK, TypeOK, HandlersInv
  <1>2. /\ UNCHANGED <<prep, guard, disk>> /\ upl[u].pc = "reporting" /\ Update(id, t)
        /\ \A v \in Uploads : v # u => upl'[v] = upl[v]
        /\ upl'[u].path = upl[u].path /\ upl'[u].id = id /\ upl'[u].file = f
        /\ upl'[u].outcome = st /\ upl'[u].pc \in {"reported", "dropped"}
    <2>1. PICK pc \in {"reported", "dropped"} : upl' = [upl EXCEPT ![u].pc = pc]
      BY DEF RecordOutcome, Resumes
    <2> QED BY <1>1, <2>1 DEF RecordOutcome, Upload
  <1>3. /\ id \in Ids /\ f \in Files /\ sessions[id] \in Session /\ SessionInv(sessions[id])
        /\ sessions[id].direction = "Receive" /\ sessions[id].state # "Absent"
        /\ f \in sessions[id].started /\ sessions[id].files[f] \in Moving
        /\ st \in {"Finish", "Fail"}
    BY <1>1, <1>2, SessionFacts DEF Begun, DiskInv
  <1>4. t \in Session
    BY <1>3, SetFileStateInv DEF FileState
  <1>5. /\ Keeps(sessions[id], t)
        /\ \A g \in Files : t.files[g] = "Finish" =>
                             sessions[id].files[g] = "Finish" \/ (g = f /\ st = "Finish")
        /\ st = "Finish" => t.files[f] = "Finish" \/ Aborted(t)
    BY <1>3, ReportKeeps
  <1> HIDE DEF t, id, f, st
  <1>6. \A i \in Ids : Keeps(sessions[i], sessions'[i])
    BY <1>2, <1>3, <1>4, <1>5, UpdateKeeps
  <1>7. \A i \in Ids : sessions'[i] = IF i = id THEN t ELSE sessions[i]
    BY <1>1, <1>2, <1>3 DEF Update
  <1>8. TokensStay
    BY <1>2 DEF TokensStay
  <1>9. \A v \in Uploads : UploadInv(v)'
    <2>1. UploadInv(u)'
      <3>1. prep[id].pc = "accepted"
        BY <1>1, <1>2 DEF UploadInv, id
      <3>2. f \in t.started /\ t.files[f] \in Moving
        BY <1>3, <1>5 DEF Keeps
      <3> QED BY <1>2, <1>3, <1>5, <1>7, <3>1, <3>2 DEF UploadInv
    <2> QED BY <1>2, <1>6, <1>8, <2>1, UploadKept
  <1>10. \A v \in Uploads : DiskInv(v)'
    BY <1>1, <1>2, DiskKept DEF DiskInv, st
  <1>11. FinishInv'
    <2>1. FinishInv
      BY DEF ServerInv, HandlersInv
    <2>2. SUFFICES ASSUME NEW i \in Ids, NEW g \in Files, sessions'[i].files[g] = "Finish"
          PROVE  \E v \in Uploads : upl'[v].id = i /\ upl'[v].file = g /\ upl'[v].outcome = "Finish"
      BY DEF FinishInv
    <2>3. CASE sessions[i].files[g] = "Finish"
      <3>1. PICK v \in Uploads : upl[v].id = i /\ upl[v].file = g /\ upl[v].outcome = "Finish"
        BY <2>1, <2>3 DEF FinishInv
      <3>2. upl'[v].id = i /\ upl'[v].file = g /\ upl'[v].outcome = "Finish"
        BY <1>2, <3>1 DEF id, f, st
      <3> QED BY <3>2
    <2>4. CASE sessions[i].files[g] # "Finish"
      <3>1. i = id /\ g = f /\ st = "Finish"
        BY <1>5, <1>7, <2>2, <2>4
      <3> QED BY <1>2, <3>1
    <2> QED BY <2>3, <2>4
  <1>12. \A i \in Ids : RequestInv(i)'
    BY <1>2, <1>6, RequestKept
  <1>13. \A i \in Ids : GuardInv(i)'
    BY <1>2, GuardKept
  <1> QED BY <1>9, <1>10, <1>11, <1>12, <1>13 DEF HandlersInv

-----------------------------------------------------------------------------
(* The theorems *)

LEMMA HandlersStep == ServerInv /\ [ServerNext]_serverVars => HandlersInv'
  <1> SUFFICES ASSUME ServerInv, [ServerNext]_serverVars PROVE HandlersInv'
    OBVIOUS
  <1>0. CASE UNCHANGED serverVars
    <2>1. UNCHANGED <<sessions, prep, guard, upl, disk>>
      BY <1>0 DEF serverVars
    <2>2. \A i \in Ids : /\ Keeps(sessions[i], sessions'[i])
                         /\ NoNewFinish(sessions[i], sessions'[i])
      BY <2>1, NoMessageKeeps
    <2>3. TokensStay
      BY <2>1 DEF TokensStay
    <2>4. (\A r \in Ids : RequestInv(r)' /\ GuardInv(r)') /\ \A u \in Uploads : UploadInv(u)'
      BY <2>1, <2>2, <2>3, RequestKept, GuardKept, UploadKept
    <2>5. FinishInv' /\ \A u \in Uploads : DiskInv(u)'
      BY <2>1, <2>2, FinishKept, AllDiskKept
    <2> QED BY <2>4, <2>5 DEF HandlersInv
  <1>1. ASSUME NEW r \in Ids, PrepareUpload(r) \/ HandlerStep(r) \/ Disconnect(r)
        PROVE  HandlersInv'
    BY <1>1, PlainHandlerInv, CreateForRequestInv, AnswerInv, RunGuardInv, DisconnectInv
    DEF HandlerStep
  <1>2. ASSUME NEW u \in Uploads, NEW id \in Ids, NEW f \in Files, HandleUpload(u, id, f)
        PROVE  HandlersInv'
    BY <1>2, PlainUploadInv
  <1>3. ASSUME NEW u \in Uploads, \/ AnswerConfig(u) \/ UploadStep(u) \/ CopyBody(u)
                                 \/ FailUpload(u) \/ DropUpload(u)
        PROVE  HandlersInv'
    BY <1>3, PlainUploadInv, WriteInv, StartUploadInv, RecordInv
    DEF UploadStep, FailUpload, AbortUpload
  <1>4. ASSUME NEW id \in Ids, NEW chosen \in SUBSET Files, UserAccepts(id, chosen)
        PROVE  HandlersInv'
    BY <1>4, SessionFacts, AcceptInv, AcceptKeeps, MessageInv DEF UserAccepts, Accept
  <1>5. ASSUME NEW id \in Ids, UserDeclines(id) PROVE HandlersInv'
    BY <1>5, SessionFacts, DeclineInv, CancelKeeps, MessageInv DEF UserDeclines, Decline
  <1>6. ASSUME NEW id \in Ids, HandleCancel(id) PROVE HandlersInv'
    BY <1>6, SessionFacts, CancelSessionInv, CancelKeeps, MessageInv DEF HandleCancel, Cancel
  <1> QED BY <1>0, <1>1, <1>2, <1>3, <1>4, <1>5, <1>6 DEF ServerNext

LEMMA ServerNextInv == ServerInv /\ [ServerNext]_serverVars => ServerInv'
  <1> SUFFICES ASSUME ServerInv, [ServerNext]_serverVars PROVE ServerInv'
    OBVIOUS
  <1>1. IInv'
    BY ServerStepsAreMessages, NextInv DEF ServerInv
  <1>2. ServerTypeOK'
    BY <1>1, ServerTypeStep DEF IInv
  <1> QED BY <1>1, <1>2, HandlersStep DEF ServerInv

LEMMA ServerInitInv == ServerInit => ServerInv
  <1> SUFFICES ASSUME ServerInit PROVE ServerInv
    OBVIOUS
  <1>1. IInv
    BY InitInv DEF ServerInit
  <1>2. ServerTypeOK
    BY <1>1, MaxCopiesAssumption
    DEF ServerInit, ServerTypeOK, IInv, Prep, PrepPc, GuardTask, Upload, UplPc, Paths
  <1>3. \A id \in Ids : /\ sessions[id].state = "Absent" /\ sessions[id].granted = {}
                        /\ \A f \in Files : sessions[id].files[f] # "Finish"
    BY DEF ServerInit, Init, NoSession, NewSession
  <1>4. \A u \in Uploads : UploadInv(u) /\ DiskInv(u)
    BY DEF ServerInit, UploadInv, DiskInv, Begun
  <1>5. HandlersInv
    BY <1>3, <1>4 DEF ServerInit, HandlersInv, RequestInv, GuardInv, FinishInv
  <1> QED BY <1>1, <1>2, <1>5 DEF ServerInv

(* The inductive invariant, of the actor and of its handlers together. *)
THEOREM ServerInvariance == ServerSpec => []ServerInv
  BY ServerInitInv, ServerNextInv, PTL DEF ServerSpec

(* The handlers' state keeps its shape; dedup_path in particular always    *)
(* names a path.                                                           *)
THEOREM ServerTypes == ServerSpec => []ServerTypeOK
  <1>1. ServerInv => ServerTypeOK
    BY DEF ServerInv
  <1> QED BY <1>1, ServerInvariance, PTL

(* The receive server posts only what SessionManager allows, so every      *)
(* theorem about Spec holds of the server's sessions.                      *)
THEOREM HandlersUseTheActor == ServerSpec => ImplementsSessionManager
  <1>1. ServerInit => Init
    BY DEF ServerInit
  <1> QED BY <1>1, ServerStepsAreMessages, ServerInvariance, PTL
          DEF ServerSpec, ImplementsSessionManager, Spec

(* In the server too no file moves without the user's consent to it.       *)
THEOREM ServerConsent == ServerSpec => []OnlyConsentedFilesMove
  BY HandlersUseTheActor, Consent, PTL DEF ImplementsSessionManager

LEMMA OutcomesFollow == ServerInv => OutcomeMatchesUploads
  <1> SUFFICES ASSUME ServerInv PROVE OutcomeMatchesUploads
    OBVIOUS
  <1>1. /\ \A u \in Uploads : UploadInv(u) /\ DiskInv(u)
        /\ FinishInv
    BY DEF ServerInv, HandlersInv
  <1>2. \A u \in Uploads : upl[u].outcome = "Finish" => Stored(u)
    BY <1>1 DEF DiskInv, Holds, Stored
  <1>3. \A u \in Uploads : upl[u].pc = "ok" =>
           /\ upl[u].outcome = "Finish"
           /\ \/ sessions[upl[u].id].files[upl[u].file] = "Finish"
              \/ sessions[upl[u].id].state \in {"Failed", "Canceled"}
    BY <1>1 DEF UploadInv, DiskInv, Aborted
  <1> QED BY <1>1, <1>2, <1>3 DEF FinishInv, OutcomeMatchesUploads

(* Finish and 200 are only ever said of a file an upload wrote in full, and *)
(* the path it wrote still holds it unless another upload chose that path   *)
(* (server.rs, handle_upload and stream_to_file).                           *)
THEOREM OutcomesMatch == ServerSpec => []OutcomeMatchesUploads
  <1>1. ServerInv => OutcomeMatchesUploads
    BY OutcomesFollow
  <1> QED BY <1>1, ServerInvariance, PTL
-----------------------------------------------------------------------------
(***************************************************************************)
(* Who watches a pending offer.  Until the handler is dropped or answers   *)
(* the guard task is there and has nothing to read; a handler that was     *)
(* dropped has left it a cancel; and once it has read that, the session is *)
(* over, and stays so whatever messages follow.                            *)
(***************************************************************************)
WatchInv(r) ==
    LET g == guard[r] p == prep[r] IN
    /\ (p.pc \in {"idle", "posted", "created"} \/ (p.pc = "waiting" /\ p.alive)) =>
          ~g.done /\ g.box = <<>>
    /\ (p.pc = "waiting" /\ ~p.alive) =>
          \/ ~g.done /\ g.box # <<>> /\ Head(g.box)
          \/ Ended(sessions[r])

AllWatched == \A r \in Ids : WatchInv(r)

(* A request whose handler and guard task did nothing. *)
LEMMA WatchKept ==
    ASSUME NEW i \in Ids, WatchInv(i), prep'[i] = prep[i], guard'[i] = guard[i],
           Ended(sessions[i]) => Ended(sessions'[i])
    PROVE  WatchInv(i)'
  BY DEF WatchInv, Ended

LEMMA WatchStep == ServerInv /\ AllWatched /\ [ServerNext]_serverVars => AllWatched'
  <1> SUFFICES ASSUME ServerInv, AllWatched, [ServerNext]_serverVars PROVE AllWatched'
    OBVIOUS
  <1>1. \A i \in Ids : Ended(sessions[i]) => Ended(sessions'[i])
    BY ServerStepsAreMessages, OutcomesFrozen DEF ServerInv, SameOutcome, Ended
  <1>2. \A i \in Ids : WatchInv(i)
    BY DEF AllWatched
  <1>3. prep \in [Ids -> Prep] /\ guard \in [Ids -> GuardTask]
    BY DEF ServerInv, ServerTypeOK
  <1>4. ASSUME UNCHANGED <<prep, guard>> PROVE AllWatched'
    BY <1>1, <1>2, <1>4, WatchKept DEF AllWatched
  <1>5. ASSUME NEW r \in Ids,
               \A i \in Ids : i # r => prep'[i] = prep[i] /\ guard'[i] = guard[i],
               WatchInv(r)'
        PROVE  AllWatched'
    BY <1>1, <1>2, <1>5, WatchKept DEF AllWatched
  <1>6. ASSUME NEW r \in Ids, NEW offered \in SUBSET Files,
               \/ PrepareUpload(r) \/ CreateForRequest(r, offered)
               \/ RejectBusy(r) \/ ArmGuard(r)
        PROVE  AllWatched'
    <2>1. /\ guard' = guard /\ prep'[r].alive = prep[r].alive
          /\ \A i \in Ids : i # r => prep'[i] = prep[i]
          /\ \/ prep[r].pc \in {"idle", "posted"} /\ prep'[r].pc \in {"posted", "created", "busy"}
             \/ prep[r].pc = "created" /\ prep'[r].pc = "waiting" /\ prep[r].alive
      BY <1>3, <1>6 DEF PrepareUpload, CreateForRequest, RejectBusy, ArmGuard, Prep
    <2>2. WatchInv(r)'
      BY <1>2, <2>1 DEF WatchInv
    <2> QED BY <1>5, <2>1, <2>2
  <1>7. ASSUME NEW r \in Ids, Answer200Or403(r) \/ ReturnAnswer(r) PROVE AllWatched'
    <2>1. /\ prep'[r].pc \in {"answering", "accepted", "refused"}
          /\ \A i \in Ids : i # r => prep'[i] = prep[i]
          /\ Notify(r, FALSE) \/ Notify(r, TRUE)
      BY <1>3, <1>7 DEF Answer200Or403, ReturnAnswer, Prep
    <2>2. \A i \in Ids : i # r => guard'[i] = guard[i]
      BY <2>1, NotifyEffect
    <2>3. WatchInv(r)'
      BY <2>1 DEF WatchInv
    <2> QED BY <1>5, <2>1, <2>2, <2>3
  <1>8. ASSUME NEW r \in Ids, Disconnect(r) PROVE AllWatched'
    <2>1. /\ prep'[r].pc = prep[r].pc /\ prep[r].alive /\ ~prep'[r].alive
          /\ prep[r].pc \in {"posted", "created", "waiting"}
          /\ \A i \in Ids : i # r => prep'[i] = prep[i]
      BY <1>3, <1>8 DEF Disconnect, Prep
    <2>2. CASE prep[r].pc = "waiting"
      <3>1. Notify(r, TRUE)
        BY <1>8, <2>2 DEF Disconnect
      <3>2. WatchInv(r)'
        BY <1>2, <2>1, <2>2, <3>1, NotifyEffect DEF WatchInv
      <3>3. \A i \in Ids : i # r => guard'[i] = guard[i]
        BY <3>1, NotifyEffect
      <3> QED BY <1>5, <2>1, <3>2, <3>3
    <2>3. CASE prep[r].pc # "waiting"
      <3>1. guard' = guard
        BY <1>8, <2>3 DEF Disconnect
      <3>2. WatchInv(r)'
        BY <1>2, <2>1, <2>3, <3>1 DEF WatchInv
      <3> QED BY <1>5, <2>1, <3>1, <3>2
    <2> QED BY <2>2, <2>3
  <1>9. ASSUME NEW r \in Ids, RunGuardTask(r) PROVE AllWatched'
    <2>1. prep' = prep /\ guard[r].box # <<>> /\ \A i \in Ids : i # r => guard'[i] = guard[i]
      BY <1>3, <1>9 DEF RunGuardTask
    <2>2. CASE Head(guard[r].box)
      <3>1. sessions'[r] = CancelSession(sessions[r]) /\ sessions[r] \in Session
        BY <1>9, <2>2 DEF RunGuardTask, Update, ServerInv, IInv, TypeOK
      <3>2. sessions[r].state # "Absent"
        <4>1. GuardInv(r) /\ RequestInv(r)
          BY DEF ServerInv, HandlersInv
        <4> QED BY <2>1, <4>1 DEF GuardInv, RequestInv
      <3>3. Ended(sessions'[r])
        BY <3>1, <3>2 DEF CancelSession, IsActive, Ended, Session, MissionState
      <3>4. WatchInv(r)'
        BY <1>2, <2>1, <3>3 DEF WatchInv
      <3> QED BY <1>5, <2>1, <3>4
    <2>3. CASE ~Head(guard[r].box)
      <3>1. WatchInv(r)'
        BY <1>1, <1>2, <2>1, <2>3 DEF WatchInv
      <3> QED BY <1>5, <2>1, <3>1
    <2> QED BY <2>2, <2>3
  <1>10. CASE UNCHANGED serverVars
    BY <1>4, <1>10 DEF serverVars
  <1>11. ASSUME NEW u \in Uploads, NEW id \in Ids, NEW f \in Files, HandleUpload(u, id, f)
         PROVE  AllWatched'
    BY <1>4, <1>11 DEF HandleUpload
  <1>12. ASSUME NEW u \in Uploads,
                \/ AnswerConfig(u) \/ UploadStep(u) \/ CopyBody(u)
                \/ FailUpload(u) \/ DropUpload(u)
         PROVE  AllWatched'
    BY <1>4, <1>12 DEF UploadStep, AnswerConfig, StartUpload, ChoosePath, CreateFile, CopyBody,
                       PostFail, FailUpload, AbortUpload, RecordOutcome, ReturnOutcome, DropUpload
  <1>13. ASSUME NEW id \in Ids, \/ \E chosen \in SUBSET Files : UserAccepts(id, chosen)
                                \/ UserDeclines(id) \/ HandleCancel(id)
         PROVE  AllWatched'
    BY <1>4, <1>13 DEF UserAccepts, UserDeclines, HandleCancel
  <1> QED BY <1>6, <1>7, <1>8, <1>9, <1>10, <1>11, <1>12, <1>13 DEF ServerNext, HandlerStep

LEMMA WatchInit == ServerInit => AllWatched
  <1>1. ASSUME ServerInit, NEW r \in Ids
        PROVE  prep[r].pc = "idle" /\ ~guard[r].done /\ guard[r].box = <<>>
    BY <1>1 DEF ServerInit
  <1> QED BY <1>1 DEF AllWatched, WatchInv

LEMMA WatchedOffers == ServerInv /\ AllWatched => PendingOffersWatched
  <1> SUFFICES ASSUME ServerInv, AllWatched, NEW r \in Ids, sessions[r].state = "Pending"
               PROVE  \/ prep[r].pc = "created"
                      \/ /\ prep[r].pc = "waiting"
                         /\ ~guard[r].done
                         /\ prep[r].alive \/ (guard[r].box # <<>> /\ Head(guard[r].box))
    BY DEF PendingOffersWatched
  <1>1. RequestInv(r) /\ WatchInv(r) /\ SessionInv(sessions[r]) /\ prep[r] \in Prep
    BY DEF ServerInv, HandlersInv, AllWatched, IInv, ServerTypeOK
  <1>2. sessions[r].decision = "Open"
    BY <1>1 DEF RequestInv, SessionInv, BaseInv
  <1>3. prep[r].pc \in {"created", "waiting"} /\ prep[r].alive \in BOOLEAN
    BY <1>1, <1>2 DEF RequestInv, Prep, PrepPc
  <1> QED BY <1>1, <1>3 DEF WatchInv, Ended

LEMMA GuardSpares == ServerInv => GuardSparesAnsweredRequests
  BY DEF ServerInv, HandlersInv, GuardInv, GuardSparesAnsweredRequests

(* The guard cancels for a peer that went away and for no other; once it is *)
(* armed, a pending offer has a handler that waits or a cancel on the way   *)
(* (server.rs, Guard).                                                      *)
THEOREM GuardMinds == ServerSpec => []GuardMindsItsRequest
  <1>1. ServerInv /\ AllWatched => GuardMindsItsRequest
    BY WatchedOffers, GuardSpares DEF GuardMindsItsRequest
  <1> QED BY <1>1, WatchInit, WatchStep, ServerInvariance, PTL DEF ServerSpec
=============================================================================
