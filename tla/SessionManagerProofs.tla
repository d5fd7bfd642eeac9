------------------------ MODULE SessionManagerProofs ------------------------
(***************************************************************************)
(* Proofs about SessionManager, for every set of ids, every set of files   *)
(* and every limit.  The messages touch one session at a time, so the      *)
(* inductive invariant is a predicate on one session (SessionInv) and the  *)
(* work is in lemmas on the helpers: each turns a session that satisfies   *)
(* it into one that does.                                                  *)
(***************************************************************************)
EXTENDS SessionManager, FiniteSetTheorems, TLAPS

(* What the messages preserve of one session, but for the one conjunct     *)
(* that holds only after check_finish.  The first four conjuncts are the   *)
(* properties; the others are the strengthening: an upload is begun only   *)
(* for a granted file, a file that was not granted is skipped, and only a  *)
(* received session has a decision to make.                                *)
BaseInv(s) ==
    /\ s.direction = "Receive" =>
          \A f \in Files : s.files[f] \in {"Transfer", "Finish", "Fail"} =>
                             s.decision = "Accepted" /\ f \in s.granted
    /\ (s.direction = "Receive" /\ s.state # "Absent") =>
          /\ s.decision = "Open" <=> s.state = "Pending"
          /\ s.decision \in {"Declined", "Canceled"} => s.state = "Canceled"
          /\ s.state \in {"Transfering", "Finished", "Failed"} => s.decision = "Accepted"
    /\ s.state = "Finished" => Complete(s)
    /\ s.cancelled <=> s.state \in {"Failed", "Canceled"}
    /\ s.direction = "Receive" => s.started \subseteq s.granted
    /\ s.direction = "Receive" => s.decision # "None"
    /\ s.direction = "Send" => s.decision = "None"
    /\ s.state = "Absent" => s.direction = "Send"
    /\ s.granted # {} => s.decision = "Accepted"
    /\ s.decision = "Accepted" =>
          \A f \in Files : f \notin s.granted => s.files[f] \in {"Skip", "Absent"}

SessionInv(s) == BaseInv(s) /\ (IsActive(s) => ~Complete(s))

IInv ==
    /\ TypeOK
    /\ \A id \in Ids : SessionInv(sessions[id])
    /\ IndexIsCurrent
    /\ ReceiveSessionsBounded

-----------------------------------------------------------------------------
(* The helpers *)

(* A session is inserted in a state that satisfies the invariant; a send   *)
(* session holds at least one file.                                        *)
LEMMA NewSessionInv ==
    ASSUME NEW dir \in Direction, NEW offered \in SUBSET Files,
           dir = "Send" => offered # {}
    PROVE  /\ NewSession(dir, offered) \in Session
           /\ SessionInv(NewSession(dir, offered))
  <1>1. NewSession(dir, offered) \in Session
    BY NoFileAssumption
    DEF NewSession, Session, Direction, MissionState, FileState, Decision, Route,
        Event, StateChanged
  <1>2. SessionInv(NewSession(dir, offered))
    BY DEF NewSession, SessionInv, BaseInv, Direction, IsActive, Complete, Offered
  <1> QED BY <1>1, <1>2

(* No session at all satisfies it too. *)
LEMMA NoSessionInv == NoSession \in Session /\ SessionInv(NoSession)
  <1>1. NoSession \in Session
    BY NoFileAssumption
    DEF NoSession, NewSession, Session, Direction, MissionState, FileState, Decision,
        Route, Event, StateChanged
  <1>2. SessionInv(NoSession)
    BY DEF NoSession, NewSession, SessionInv, BaseInv, IsActive, Complete, Offered
  <1> QED BY <1>1, <1>2

(* check_finish restores the conjunct BaseInv leaves out.  It is never     *)
(* reached with a received session that still waits for its decision.      *)
LEMMA CheckFinishInv ==
    ASSUME NEW s \in Session, BaseInv(s),
           s.direction = "Receive" => s.state # "Pending"
    PROVE  /\ CheckFinish(s) \in Session
           /\ SessionInv(CheckFinish(s))
  <1>1. CASE IsActive(s) /\ Complete(s)
    <2> DEFINE t == [s EXCEPT !.state = "Finished", !.event = StateChanged("Finished")]
    <2>1. CheckFinish(s) = t
      BY <1>1 DEF CheckFinish, SetState
    <2>2. t \in Session
      BY DEF Session, MissionState, Event, StateChanged
    <2>3. /\ t.direction = s.direction /\ t.state = "Finished" /\ t.files = s.files
          /\ t.decision = s.decision /\ t.granted = s.granted /\ t.started = s.started
          /\ t.cancelled = s.cancelled
      BY DEF Session
    <2>4. Complete(t)
      BY <1>1, <2>3 DEF Complete, Offered
    <2>5. SessionInv(t)
      BY <1>1, <2>3, <2>4 DEF SessionInv, BaseInv, IsActive
    <2> QED BY <2>1, <2>2, <2>5
  <1>2. CASE ~(IsActive(s) /\ Complete(s))
    BY <1>2 DEF CheckFinish, SessionInv
  <1> QED BY <1>1, <1>2

(* fail_session, on a session whose received files were granted. *)
LEMMA FailSessionInv ==
    ASSUME NEW s \in Session, BaseInv(s),
           s.direction = "Receive" => s.state # "Pending"
    PROVE  /\ FailSession(s) \in Session
           /\ IsActive(s) => SessionInv(FailSession(s))
  <1>1. CASE IsActive(s)
    <2> DEFINE t == FailSession(s)
    <2>1. t \in Session
      BY <1>1 DEF FailSession, Session, MissionState, Event, FailedEvent, Answer, Decision
    <2>2. s.decision # "Open"
      BY <1>1 DEF BaseInv, Session, Direction, IsActive
    <2>3. /\ t.direction = s.direction /\ t.state = "Failed" /\ t.files = s.files
          /\ t.decision = s.decision /\ t.granted = s.granted /\ t.started = s.started
          /\ t.cancelled = TRUE
      BY <1>1, <2>2 DEF FailSession, Session, Answer
    <2>4. SessionInv(t)
      BY <1>1, <2>3 DEF SessionInv, BaseInv, IsActive, Session, Direction
    <2> QED BY <2>1, <2>4
  <1>2. CASE ~IsActive(s)
    BY <1>2 DEF FailSession
  <1> QED BY <1>1, <1>2

(* cancel_session preserves the invariant, whatever the session's state. *)
LEMMA CancelSessionInv ==
    ASSUME NEW s \in Session, SessionInv(s)
    PROVE  /\ CancelSession(s) \in Session
           /\ SessionInv(CancelSession(s))
  <1>1. CASE IsActive(s)
    <2> DEFINE t == CancelSession(s)
    <2>1. t \in Session
      BY <1>1 DEF CancelSession, Session, MissionState, Event, StateChanged, Answer, Decision
    <2>2. /\ t.direction = s.direction /\ t.state = "Canceled" /\ t.files = s.files
          /\ t.decision = (IF s.decision = "Open" THEN "Canceled" ELSE s.decision)
          /\ t.granted = s.granted /\ t.started = s.started /\ t.cancelled = TRUE
      BY <1>1 DEF CancelSession, Session, Answer
    <2>3. SessionInv(t)
      BY <1>1, <2>2 DEF SessionInv, BaseInv, IsActive, Session, Direction
    <2> QED BY <2>1, <2>3
  <1>2. CASE ~IsActive(s)
    BY <1>2 DEF CancelSession
  <1> QED BY <1>1, <1>2

(* set_file_state, called by an upload handler for a file it began or by a *)
(* send driver for a file of its own.                                      *)
LEMMA SetFileStateInv ==
    ASSUME NEW s \in Session, SessionInv(s), NEW f \in Files, NEW st \in FileState,
           s.direction = "Receive" => f \in s.started
    PROVE  /\ SetFileState(s, f, st) \in Session
           /\ SessionInv(SetFileState(s, f, st))
  <1>1. CASE ~IsActive(s)
    BY <1>1 DEF SetFileState
  <1>2. CASE IsActive(s)
    <2> DEFINE t == IF f \in Offered(s)
                    THEN [s EXCEPT !.files[f] = st, !.event = FileStateChanged(f, st)]
                    ELSE s
    <2>1. t \in Session
      BY DEF Session, Event, FileStateChanged
    <2>2. /\ t.direction = s.direction /\ t.state = s.state
          /\ t.decision = s.decision /\ t.granted = s.granted /\ t.started = s.started
          /\ t.cancelled = s.cancelled
          /\ \A g \in Files : t.files[g] = s.files[g] \/ (g = f /\ t.files[g] = st)
      BY DEF Session
    <2>3. s.direction = "Receive" =>
              /\ f \in s.granted
              /\ s.decision = "Accepted"
              /\ s.state # "Pending"
      BY <1>2 DEF SessionInv, BaseInv, IsActive
    <2>4. BaseInv(t)
      BY <1>2, <2>2, <2>3 DEF SessionInv, BaseInv, IsActive, Session, Direction
    <2>5. IsActive(t)
      BY <1>2, <2>2 DEF IsActive
    <2>6. CASE st = "Fail"
      <3>1. SetFileState(s, f, st) = FailSession(t)
        BY <1>2, <2>6 DEF SetFileState
      <3> QED BY <2>1, <2>2, <2>3, <2>4, <2>5, <3>1, FailSessionInv
    <2>7. CASE st # "Fail"
      <3>1. SetFileState(s, f, st) = CheckFinish(t)
        BY <1>2, <2>7 DEF SetFileState
      <3> QED BY <2>1, <2>2, <2>3, <2>4, <3>1, CheckFinishInv
    <2> QED BY <2>6, <2>7
  <1> QED BY <1>1, <1>2

(* report_state, on a send session. *)
LEMMA SetStateInv ==
    ASSUME NEW s \in Session, SessionInv(s), s.direction = "Send"
    PROVE  /\ SetState(s, "Transfering") \in Session
           /\ SessionInv(SetState(s, "Transfering"))
  <1>1. CASE IsActive(s)
    <2> DEFINE t == SetState(s, "Transfering")
    <2>1. t \in Session
      BY <1>1 DEF SetState, Session, MissionState, Event, StateChanged
    <2>2. /\ t.direction = s.direction /\ t.state = "Transfering" /\ t.files = s.files
          /\ t.decision = s.decision /\ t.granted = s.granted /\ t.started = s.started
          /\ t.cancelled = s.cancelled
      BY <1>1 DEF SetState, Session
    <2>3. Complete(t) <=> Complete(s)
      BY <2>2 DEF Complete, Offered
    <2>4. SessionInv(t)
      BY <1>1, <2>2, <2>3 DEF SessionInv, BaseInv, IsActive
    <2> QED BY <2>1, <2>4
  <1>2. CASE ~IsActive(s)
    BY <1>2 DEF SetState
  <1> QED BY <1>1, <1>2

(* Accept, check_finish included: what was not chosen is skipped in the    *)
(* same step that hands out the tokens.                                    *)
LEMMA AcceptInv ==
    ASSUME NEW s \in Session, SessionInv(s), AwaitsDecision(s), NEW chosen \in SUBSET Files
    PROVE  /\ CheckFinish(Accepted(s, chosen)) \in Session
           /\ SessionInv(CheckFinish(Accepted(s, chosen)))
  <1> DEFINE t == Accepted(s, chosen)
             files == [f \in Files |->
                         IF f \in Offered(s) \ chosen THEN "Skip" ELSE s.files[f]]
  <1>1. files \in [Files -> FileState \cup {"Absent"}]
    BY DEF Session, FileState
  <1>2. Offered(s) \cap chosen \in SUBSET Files
    OBVIOUS
  <1>3. t \in Session
    BY <1>1, <1>2 DEF Accepted, Session, MissionState, Event, StateChanged, Answer, Decision
  <1>4. s.decision = "Open" /\ s.cancelled = FALSE /\ s.granted = {}
    BY DEF SessionInv, BaseInv, AwaitsDecision, Session
  <1>5. /\ t.direction = "Receive" /\ t.state = "Transfering" /\ t.files = files
        /\ t.decision = "Accepted" /\ t.granted = Offered(s) \cap chosen
        /\ t.started = s.started /\ t.cancelled = FALSE
    BY <1>4 DEF Accepted, Session, Answer, AwaitsDecision
  <1>6. \A f \in Files : s.files[f] \notin {"Transfer", "Finish", "Fail"}
    BY <1>4 DEF SessionInv, BaseInv, AwaitsDecision
  <1>7. s.started = {}
    BY <1>4 DEF SessionInv, BaseInv, AwaitsDecision, Session
  <1>8. BaseInv(t)
    BY <1>5, <1>6, <1>7 DEF BaseInv, Offered, Session
  <1> QED BY <1>3, <1>5, <1>8, CheckFinishInv

(* Decline. *)
LEMMA DeclineInv ==
    ASSUME NEW s \in Session, SessionInv(s), AwaitsDecision(s)
    PROVE  Declined(s) \in Session /\ SessionInv(Declined(s))
  <1> DEFINE t == Declined(s)
  <1>1. t \in Session
    BY DEF Declined, Session, MissionState, Event, StateChanged, Answer, Decision
  <1>2. s.decision = "Open"
    BY DEF SessionInv, BaseInv, AwaitsDecision
  <1>3. /\ t.direction = s.direction /\ t.state = "Canceled" /\ t.files = s.files
        /\ t.decision = "Declined" /\ t.granted = s.granted /\ t.started = s.started
        /\ t.cancelled = TRUE
    BY <1>2 DEF Declined, Session, Answer
  <1>4. SessionInv(t)
    BY <1>2, <1>3 DEF SessionInv, BaseInv, IsActive, AwaitsDecision
  <1> QED BY <1>1, <1>4

(* StartFile: a file that can be started was granted. *)
LEMMA StartInv ==
    ASSUME NEW s \in Session, SessionInv(s), NEW f \in Files, CanStart(s, f)
    PROVE  Started(s, f) \in Session /\ SessionInv(Started(s, f))
  <1> DEFINE t == Started(s, f)
  <1>1. t \in Session
    BY DEF Started, Session, FileState, Event, FileStateChanged
  <1>2. s.decision = "Accepted" /\ s.direction = "Receive" /\ s.state = "Transfering"
    BY DEF SessionInv, BaseInv, CanStart
  <1>3. f \in s.granted
    BY <1>2 DEF SessionInv, BaseInv, CanStart, IsTerminal, Offered
  <1>4. /\ t.direction = s.direction /\ t.state = s.state
        /\ t.decision = s.decision /\ t.granted = s.granted
        /\ t.started = s.started \cup {f} /\ t.cancelled = s.cancelled
        /\ t.files = [s.files EXCEPT ![f] = "Transfer"]
    BY DEF Started, Session
  <1>5. t.files[f] = "Transfer" /\ \A g \in Files : g # f => t.files[g] = s.files[g]
    BY <1>4 DEF Session
  <1>6. ~Complete(t)
    BY <1>5 DEF Complete, Offered
  <1>7. BaseInv(t)
    BY <1>2, <1>3, <1>4, <1>5 DEF SessionInv, BaseInv
  <1> QED BY <1>1, <1>6, <1>7 DEF SessionInv

(* A change to the fields SessionInv does not speak of preserves it. *)
LEMMA SideFieldsInv ==
    ASSUME NEW s \in Session, SessionInv(s), NEW t \in Session,
           t.direction = s.direction, t.state = s.state, t.files = s.files,
           t.decision = s.decision, t.granted = s.granted, t.cancelled = s.cancelled,
           t.direction = "Send" \/ t.started = s.started
    PROVE  SessionInv(t)
  <1>1. Complete(t) <=> Complete(s)
    BY DEF Complete, Offered
  <1> QED BY <1>1 DEF SessionInv, BaseInv, IsActive

-----------------------------------------------------------------------------
(* The messages *)

(* A message that replaces one session by a good one, without making it an *)
(* active receive session, preserves the whole invariant.                  *)
LEMMA UpdateInv ==
    ASSUME IInv, NEW id \in Ids, NEW s \in Session, SessionInv(s), Update(id, s),
           (s.direction = "Receive" /\ IsActive(s)) => id \in ActiveReceive
    PROVE  IInv'
  <1>1. sessions' = [sessions EXCEPT ![id] = s]
    BY DEF Update
  <1>2. TypeOK'
    BY <1>1 DEF IInv, TypeOK, Update, Summaries
  <1>3. \A i \in Ids : SessionInv(sessions'[i])
    BY <1>1 DEF IInv, TypeOK
  <1>4. IndexIsCurrent'
    BY DEF Update, IndexIsCurrent
  <1>5. ActiveReceive' \subseteq ActiveReceive
    BY <1>1 DEF IInv, TypeOK, ActiveReceive
  <1>6. IsFiniteSet(ActiveReceive)
    BY IdsAssumption, FS_Subset DEF ActiveReceive
  <1>7. /\ Cardinality(ActiveReceive') <= Cardinality(ActiveReceive)
        /\ Cardinality(ActiveReceive') \in Nat /\ Cardinality(ActiveReceive) \in Nat
    BY <1>5, <1>6, FS_Subset, FS_CardinalityType
  <1>8. ReceiveSessionsBounded'
    BY <1>7, MaxRecvAssumption DEF IInv, ReceiveSessionsBounded
  <1> QED BY <1>2, <1>3, <1>4, <1>8 DEF IInv

(* The one message that adds an active receive session checks the limit. *)
LEMMA CreateRecvInv ==
    ASSUME IInv, NEW id \in Ids, NEW offered \in SUBSET Files,
           CreateRecvSession(id, offered)
    PROVE  IInv'
  <1> DEFINE s == NewSession("Receive", offered)
  <1>1. s \in Session /\ SessionInv(s)
    BY NewSessionInv DEF Direction
  <1>2. sessions' = [sessions EXCEPT ![id] = s] /\ index' = Summaries(sessions')
    BY DEF CreateRecvSession, Update
  <1>3. TypeOK' /\ \A i \in Ids : SessionInv(sessions'[i])
    BY <1>1, <1>2 DEF IInv, TypeOK, Summaries
  <1>4. IndexIsCurrent'
    BY <1>2 DEF IndexIsCurrent
  <1>5. ActiveReceive' \subseteq ActiveReceive \cup {id}
    BY <1>2 DEF IInv, TypeOK, ActiveReceive
  <1>6. IsFiniteSet(ActiveReceive)
    BY IdsAssumption, FS_Subset DEF ActiveReceive
  <1>7. /\ IsFiniteSet(ActiveReceive \cup {id})
        /\ Cardinality(ActiveReceive \cup {id}) <= Cardinality(ActiveReceive) + 1
        /\ Cardinality(ActiveReceive) \in Nat
    BY <1>6, FS_AddElement, FS_CardinalityType
  <1>8. /\ Cardinality(ActiveReceive') <= Cardinality(ActiveReceive \cup {id})
        /\ Cardinality(ActiveReceive') \in Nat
        /\ Cardinality(ActiveReceive \cup {id}) \in Nat
    BY <1>5, <1>7, FS_Subset, FS_CardinalityType
  <1>9. ReceiveSessionsBounded'
    BY <1>7, <1>8, MaxRecvAssumption DEF CreateRecvSession, ReceiveSessionsBounded
  <1> QED BY <1>3, <1>4, <1>9 DEF IInv

(* Every message preserves the invariant, whoever posts it and when. *)
LEMMA NextInv == IInv /\ [Next]_vars => IInv'
  <1> SUFFICES ASSUME IInv, [Next]_vars PROVE IInv'
    OBVIOUS
  <1>0. CASE UNCHANGED vars
    BY <1>0 DEF IInv, TypeOK, IndexIsCurrent, ReceiveSessionsBounded, ActiveReceive, vars
  <1>1. ASSUME NEW id \in Ids, NEW offered \in SUBSET Files, CreateRecvSession(id, offered)
        PROVE  IInv'
    BY <1>1, CreateRecvInv
  <1> DEFINE Good(s) == s \in Session /\ SessionInv(s)
  <1>2. \A id \in Ids : Good(sessions[id])
    BY DEF IInv, TypeOK
  <1>3. \A id \in Ids : IsActive(sessions[id]) /\ sessions[id].direction = "Receive"
                           => id \in ActiveReceive
    BY DEF ActiveReceive
  <1>4. ASSUME NEW id \in Ids, NEW offered \in SUBSET Files, CreateSendSession(id, offered)
        PROVE  IInv'
    <2> DEFINE t == NewSession("Send", offered)
    <2>1. Good(t)
      BY <1>4, NewSessionInv DEF CreateSendSession, Direction
    <2>2. t.direction = "Send"
      BY DEF NewSession
    <2> QED BY <1>4, <2>1, <2>2, UpdateInv DEF CreateSendSession
  <1>5. ASSUME NEW id \in Ids, NEW chosen \in SUBSET Files, Accept(id, chosen)
        PROVE  IInv'
    <2>1. AwaitsDecision(sessions[id])
      BY <1>5 DEF Accept
    <2>2. Good(CheckFinish(Accepted(sessions[id], chosen)))
      BY <1>2, <2>1, AcceptInv
    <2>3. id \in ActiveReceive
      BY <1>3, <2>1 DEF AwaitsDecision, IsActive
    <2> QED BY <1>5, <2>2, <2>3, UpdateInv DEF Accept
  <1>6. ASSUME NEW id \in Ids, Decline(id)
        PROVE  IInv'
    <2>1. AwaitsDecision(sessions[id])
      BY <1>6 DEF Decline
    <2>2. Good(Declined(sessions[id]))
      BY <1>2, <2>1, DeclineInv
    <2>3. id \in ActiveReceive
      BY <1>3, <2>1 DEF AwaitsDecision, IsActive
    <2> QED BY <1>6, <2>2, <2>3, UpdateInv DEF Decline
  <1>7. ASSUME NEW id \in Ids, Cancel(id)
        PROVE  IInv'
    <2>1. Good(CancelSession(sessions[id]))
      BY <1>2, CancelSessionInv
    <2>2. ~IsActive(CancelSession(sessions[id]))
      BY <1>2 DEF CancelSession, IsActive, Session
    <2> QED BY <1>7, <2>1, <2>2, UpdateInv DEF Cancel
  <1>8. ASSUME NEW id \in Ids, MarkViaRelay(id)
        PROVE  IInv'
    <2> DEFINE t == [sessions[id] EXCEPT !.viaRelay = TRUE,
                                         !.route = IF @ = "local" THEN "turn" ELSE @]
    <2>1. t \in Session /\ SessionInv(t) /\ t.direction = "Send"
      <3>1. t \in Session
        BY <1>2 DEF Session, Route
      <3> QED BY <1>2, <1>8, <3>1, SideFieldsInv DEF Session, MarkViaRelay, BeforeTransfer
    <2> QED BY <1>8, <2>1, UpdateInv DEF MarkViaRelay
  <1>9. ASSUME NEW id \in Ids, NEW route \in {"turn", "stun"}, MarkRoute(id, route)
        PROVE  IInv'
    <2> DEFINE t == [sessions[id] EXCEPT !.route = route]
    <2>1. t \in Session /\ SessionInv(t) /\ t.direction = "Send"
      <3>1. t \in Session
        BY <1>2 DEF Session, Route
      <3> QED BY <1>2, <1>9, <3>1, SideFieldsInv DEF Session, MarkRoute, BeforeTransfer
    <2> QED BY <1>9, <2>1, UpdateInv DEF MarkRoute
  <1>10. ASSUME NEW id \in Ids, NEW f \in Files, StartFile(id, f)
         PROVE  IInv'
    <2>1. Good(Started(sessions[id], f))
      BY <1>2, <1>10, StartInv DEF StartFile
    <2>2. id \in ActiveReceive
      BY <1>3, <1>10 DEF StartFile, CanStart, IsActive
    <2> QED BY <1>10, <2>1, <2>2, UpdateInv DEF StartFile
  <1>11. ASSUME NEW id \in Ids, NEW f \in Files, ReportProgress(id, f)
         PROVE  IInv'
    <2> DEFINE t == [sessions[id] EXCEPT !.event = Progress(f)]
    <2>1. t \in Session
      BY <1>2 DEF Session, Event, Progress
    <2>2. SessionInv(t)
      BY <1>2, <2>1, SideFieldsInv DEF Session
    <2>3. sessions' = [sessions EXCEPT ![id] = t]
      BY <1>2, <1>11 DEF ReportProgress, IInv, TypeOK
    <2>4. Summary(t) = Summary(sessions[id])
      BY <1>2 DEF Summary, Session
    <2>5. Summaries(sessions') = Summaries(sessions)
      BY <2>3, <2>4 DEF Summaries, IInv, TypeOK
    <2>6. Update(id, t)
      BY <1>11, <2>3, <2>5 DEF Update, ReportProgress, IInv, IndexIsCurrent
    <2>7. t.direction = sessions[id].direction /\ t.state = sessions[id].state
      BY <1>2 DEF Session
    <2> QED BY <1>3, <2>1, <2>2, <2>6, <2>7, UpdateInv DEF IsActive
  <1>12. ASSUME NEW id \in Ids, NEW f \in Files, NEW st \in FileState, FinishFile(id, f, st)
         PROVE  IInv'
    <2> DEFINE t == SetFileState(sessions[id], f, st)
    <2>1. Good(t)
      BY <1>2, <1>12, SetFileStateInv DEF FinishFile
    <2>2. IsActive(t) => IsActive(sessions[id])
      BY <1>2 DEF SetFileState, IsActive
    <2> QED BY <1>2, <1>3, <1>12, <2>1, <2>2, UpdateInv DEF FinishFile
  <1>13. ASSUME NEW id \in Ids, NEW f \in Files, NEW st \in FileState,
                ReportFileState(id, f, st)
         PROVE  IInv'
    <2> DEFINE u == SetFileState(sessions[id], f, st)
               t == [u EXCEPT !.started = IF st = "Transfer" THEN @ \cup {f} ELSE @]
    <2>1. Good(u)
      BY <1>2, <1>13, SetFileStateInv DEF ReportFileState
    <2>2. u.direction = "Send"
      BY <1>2, <1>13 DEF ReportFileState, SetFileState, CheckFinish, SetState, FailSession,
                         Session
    <2>3. t \in Session
      BY <2>1 DEF Session
    <2>4. t.direction = "Send"
      BY <2>1, <2>2 DEF Session
    <2>5. SessionInv(t)
      BY <2>1, <2>2, <2>3, SideFieldsInv DEF Session
    <2> QED BY <1>13, <2>3, <2>4, <2>5, UpdateInv DEF ReportFileState
  <1>14. ASSUME NEW id \in Ids, ReportState(id)
         PROVE  IInv'
    <2> DEFINE t == SetState(sessions[id], "Transfering")
    <2>1. Good(t)
      BY <1>2, <1>14, SetStateInv DEF ReportState
    <2>2. t.direction = "Send"
      BY <1>2, <1>14 DEF ReportState, SetState, Session
    <2> QED BY <1>14, <2>1, <2>2, UpdateInv DEF ReportState
  <1>15. ASSUME NEW id \in Ids, Fail(id)
         PROVE  IInv'
    <2> DEFINE t == FailSession(sessions[id])
    <2>1. Good(t)
      BY <1>2, <1>15, FailSessionInv DEF Fail, FailSession, SessionInv
    <2>2. ~IsActive(t)
      BY <1>2 DEF FailSession, IsActive, Session
    <2> QED BY <1>15, <2>1, <2>2, UpdateInv DEF Fail
  <1> QED BY <1>0, <1>1, <1>4, <1>5, <1>6, <1>7, <1>8, <1>9, <1>10, <1>11, <1>12, <1>13,
             <1>14, <1>15 DEF Next

(* The initial state has no session. *)
LEMMA InitInv == Init => IInv
  <1> SUFFICES ASSUME Init PROVE IInv
    OBVIOUS
  <1>1. \A id \in Ids : sessions[id] \in Session /\ SessionInv(sessions[id])
    BY NoSessionInv DEF Init
  <1>2. TypeOK
    BY <1>1 DEF Init, TypeOK, Summaries
  <1>3. ActiveReceive = {}
    BY DEF Init, ActiveReceive, NoSession, NewSession
  <1>4. ReceiveSessionsBounded
    BY <1>3, FS_EmptySet, MaxRecvAssumption DEF ReceiveSessionsBounded
  <1> QED BY <1>1, <1>2, <1>4 DEF IInv, Init, IndexIsCurrent

-----------------------------------------------------------------------------
(* The theorems *)

(* The inductive invariant holds in every reachable state. *)
THEOREM Invariance == Spec => []IInv
  BY InitInv, NextInv, PTL DEF Spec

(* The actor's state keeps its shape. *)
THEOREM TypeCorrect == Spec => []TypeOK
  <1>1. IInv => TypeOK
    BY DEF IInv
  <1> QED BY <1>1, Invariance, PTL

(* No file moves on the receiving side without the user's consent to it,   *)
(* for any number of sessions, files and concurrent callers.               *)
THEOREM Consent == Spec => []OnlyConsentedFilesMove
  <1>1. IInv => OnlyConsentedFilesMove
    BY DEF IInv, SessionInv, BaseInv, OnlyConsentedFilesMove
  <1> QED BY <1>1, Invariance, PTL

(* A waiting prepare-upload handler is answered when its session leaves    *)
(* Pending, and told what happened to it.                                  *)
THEOREM Verdict == Spec => []VerdictMatchesState
  <1>1. IInv => VerdictMatchesState
    BY DEF IInv, SessionInv, BaseInv, VerdictMatchesState
  <1> QED BY <1>1, Invariance, PTL

(* Finished means complete, and complete means finished. *)
THEOREM FinishIsExact == Spec => []FinishedExactlyWhenComplete
  <1>1. IInv => FinishedExactlyWhenComplete
    BY DEF IInv, SessionInv, BaseInv, FinishedExactlyWhenComplete
  <1> QED BY <1>1, Invariance, PTL

(* The cancel token tells exactly the aborted sessions. *)
THEOREM TokenIsExact == Spec => []TokenCancelledIffAborted
  <1>1. IInv => TokenCancelledIffAborted
    BY DEF IInv, SessionInv, BaseInv, TokenCancelledIffAborted
  <1> QED BY <1>1, Invariance, PTL

(* No schedule of messages exceeds max_recv_sessions. *)
THEOREM Bounded == Spec => []ReceiveSessionsBounded
  <1>1. IInv => ReceiveSessionsBounded
    BY DEF IInv
  <1> QED BY <1>1, Invariance, PTL

(* The published index never lags behind the actor. *)
THEOREM IndexCurrent == Spec => []IndexIsCurrent
  <1>1. IInv => IndexIsCurrent
    BY DEF IInv
  <1> QED BY <1>1, Invariance, PTL

(* The fields of a session that its end freezes. *)
SameOutcome(s, t) ==
    /\ t.state = s.state
    /\ t.files = s.files
    /\ t.decision = s.decision
    /\ t.cancelled = s.cancelled

(* Every helper leaves the outcome of an inactive session alone. *)
LEMMA HelpersKeepOutcome ==
    ASSUME NEW s \in Session, ~IsActive(s)
    PROVE  /\ CancelSession(s) = s
           /\ FailSession(s) = s
           /\ \A st : SetState(s, st) = s
           /\ \A f, st : SetFileState(s, f, st) = s
  BY DEF CancelSession, SetFileState, SetState, FailSession

Ended(s) == s.state \in {"Finished", "Failed", "Canceled"}

(* No message changes the outcome of a session that ended. *)
LEMMA OutcomesFrozen ==
    ASSUME IInv, [Next]_vars
    PROVE  \A i \in Ids : Ended(sessions[i]) => SameOutcome(sessions[i], sessions'[i])
  <1> DEFINE Frozen == \A i \in Ids : Ended(sessions[i]) =>
                                        SameOutcome(sessions[i], sessions'[i])
  <1>1. ASSUME NEW id \in Ids, NEW s, Update(id, s),
               Ended(sessions[id]) => SameOutcome(sessions[id], s)
        PROVE  Frozen
    BY <1>1 DEF Update, IInv, TypeOK, SameOutcome
  <1> HIDE DEF Frozen
  <1>2. Frozen
    <2>0. CASE UNCHANGED vars
      BY <2>0 DEF vars, SameOutcome, Frozen
    <2>1. \A id \in Ids : /\ sessions[id] \in Session
                          /\ Ended(sessions[id]) => ~IsActive(sessions[id])
      BY DEF IInv, TypeOK, IsActive, Ended
    <2>2. ASSUME NEW id \in Ids, sessions[id].state = "Absent", NEW s, Update(id, s)
          PROVE  Frozen
      BY <1>1, <2>2 DEF Ended
    <2>3. ASSUME NEW id \in Ids, NEW offered \in SUBSET Files,
                 CreateRecvSession(id, offered) \/ CreateSendSession(id, offered)
          PROVE  Frozen
      BY <2>2, <2>3 DEF CreateRecvSession, CreateSendSession
    <2>4. ASSUME NEW id \in Ids, NEW s, AwaitsDecision(sessions[id]), Update(id, s)
          PROVE  Frozen
      BY <1>1, <2>4 DEF AwaitsDecision, Ended
    <2>5. ASSUME NEW id \in Ids, NEW chosen \in SUBSET Files, Accept(id, chosen)
          PROVE  Frozen
      BY <2>4, <2>5 DEF Accept
    <2>6. ASSUME NEW id \in Ids, Decline(id) PROVE Frozen
      BY <2>4, <2>6 DEF Decline
    <2>7. ASSUME NEW id \in Ids, NEW s, Update(id, s),
                 ~IsActive(sessions[id]) => SameOutcome(sessions[id], s)
          PROVE  Frozen
      BY <1>1, <2>1, <2>7 DEF IsActive, SameOutcome
    <2>8. ASSUME NEW id \in Ids, Cancel(id) PROVE Frozen
      <3>1. ~IsActive(sessions[id]) => SameOutcome(sessions[id], CancelSession(sessions[id]))
        BY <2>1, HelpersKeepOutcome DEF SameOutcome, IsActive
      <3> QED BY <2>7, <2>8, <3>1 DEF Cancel
    <2>9. ASSUME NEW id \in Ids, MarkViaRelay(id) PROVE Frozen
      <3> DEFINE t == [sessions[id] EXCEPT !.viaRelay = TRUE,
                                           !.route = IF @ = "local" THEN "turn" ELSE @]
      <3>1. SameOutcome(sessions[id], t)
        BY <2>1 DEF Session, SameOutcome
      <3> QED BY <2>7, <2>9, <3>1 DEF MarkViaRelay
    <2>10. ASSUME NEW id \in Ids, NEW route \in {"turn", "stun"}, MarkRoute(id, route)
           PROVE  Frozen
      <3> DEFINE t == [sessions[id] EXCEPT !.route = route]
      <3>1. SameOutcome(sessions[id], t)
        BY <2>1 DEF Session, SameOutcome
      <3> QED BY <2>7, <2>10, <3>1 DEF MarkRoute
    <2>11. ASSUME NEW id \in Ids, NEW f \in Files, StartFile(id, f) PROVE Frozen
      BY <2>7, <2>11 DEF StartFile, CanStart, IsActive
    <2>12. ASSUME NEW id \in Ids, NEW f \in Files, ReportProgress(id, f) PROVE Frozen
      BY <2>1, <2>12 DEF ReportProgress, SameOutcome, Session, IInv, TypeOK, Frozen
    <2>13. ASSUME NEW id \in Ids, NEW f \in Files, NEW st \in FileState,
                  FinishFile(id, f, st)
           PROVE  Frozen
      <3>1. ~IsActive(sessions[id]) => SameOutcome(sessions[id], SetFileState(sessions[id], f, st))
        BY <2>1, HelpersKeepOutcome DEF SameOutcome, IsActive
      <3> QED BY <2>7, <2>13, <3>1 DEF FinishFile
    <2>14. ASSUME NEW id \in Ids, NEW f \in Files, NEW st \in FileState,
                  ReportFileState(id, f, st)
           PROVE  Frozen
      <3> DEFINE u == SetFileState(sessions[id], f, st)
                 t == [u EXCEPT !.started = IF st = "Transfer" THEN @ \cup {f} ELSE @]
      <3>1. ~IsActive(sessions[id]) => u = sessions[id]
        BY <2>1, HelpersKeepOutcome DEF IsActive
      <3>2. ~IsActive(sessions[id]) => SameOutcome(sessions[id], t)
        BY <2>1, <3>1 DEF SameOutcome, Session
      <3>3. Update(id, t)
        BY <2>14 DEF ReportFileState
      <3> QED BY <2>7, <3>2, <3>3
    <2>15. ASSUME NEW id \in Ids, ReportState(id) PROVE Frozen
      <3>1. ~IsActive(sessions[id]) => SameOutcome(sessions[id], SetState(sessions[id], "Transfering"))
        BY <2>1, HelpersKeepOutcome DEF SameOutcome, IsActive
      <3> QED BY <2>7, <2>15, <3>1 DEF ReportState
    <2>16. ASSUME NEW id \in Ids, Fail(id) PROVE Frozen
      <3>1. ~IsActive(sessions[id]) => SameOutcome(sessions[id], FailSession(sessions[id]))
        BY <2>1, HelpersKeepOutcome DEF SameOutcome, IsActive
      <3> QED BY <2>7, <2>16, <3>1 DEF Fail
    <2> QED BY <2>0, <2>3, <2>5, <2>6, <2>8, <2>9, <2>10, <2>11, <2>12, <2>13,
               <2>14, <2>15, <2>16 DEF Next
  <1> QED BY <1>2 DEF Frozen

(* An ended session is never changed again, except for its event stream    *)
(* and its route.                                                          *)
THEOREM EndIsFinal == Spec => EndedSessionsFrozen
  <1>1. IInv /\ [Next]_vars =>
          [\A id \in Ids : LET s == sessions[id] IN
             s.state \in {"Finished", "Failed", "Canceled"} =>
                /\ sessions'[id].state = s.state
                /\ sessions'[id].files = s.files
                /\ sessions'[id].decision = s.decision
                /\ sessions'[id].cancelled = s.cancelled]_vars
    BY OutcomesFrozen DEF SameOutcome, Ended
  <1> QED BY <1>1, Invariance, PTL DEF Spec, EndedSessionsFrozen

-----------------------------------------------------------------------------
(***************************************************************************)
(* SessionManager implements SessionLifecycle under the mapping of         *)
(* SessionManager!Lifecycle.  A message changes one session, so the mapped *)
(* state changes at one id, and it is enough to classify that change: for  *)
(* each message, from IInv, the old and the new session are related by one *)
(* of the moves of the lifecycle.                                          *)
(***************************************************************************)

(* The lifecycle's moves that need no capacity, seen on one session. *)
Moved(o, s) ==
    \/ StageOf(s) = StageOf(o) /\ AnswerOf(s) = AnswerOf(o)
    \/ StageOf(o) = "none" /\ StageOf(s) = "waiting" /\ AnswerOf(s) = AnswerOf(o)
    \/ /\ AnswerOf(o) = "awaited" /\ AnswerOf(s) = "yes"
       /\ StageOf(o) = "waiting" /\ StageOf(s) \in {"running", "over"}
    \/ /\ AnswerOf(o) = "awaited" /\ AnswerOf(s) = "no"
       /\ StageOf(o) = "waiting" /\ StageOf(s) = "over"
    \/ /\ o.direction # "Receive" /\ AnswerOf(s) = AnswerOf(o)
       /\ StageOf(o) = "waiting" /\ StageOf(s) = "running"
    \/ /\ AnswerOf(o) # "awaited" /\ AnswerOf(s) = AnswerOf(o)
       /\ StageOf(o) \in {"waiting", "running"} /\ StageOf(s) = "over"

stageBar == [id \in Ids |-> StageOf(sessions[id])]
incomingBar == [id \in Ids |-> sessions[id].direction = "Receive"]
answerBar == [id \in Ids |-> AnswerOf(sessions[id])]

(* The mapped variables change only at the id whose session changes. *)
LEMMA MappedUpdate ==
    ASSUME IInv, NEW id \in Ids, NEW s \in Session, Update(id, s)
    PROVE  /\ stageBar' = [stageBar EXCEPT ![id] = StageOf(s)]
           /\ incomingBar' = [incomingBar EXCEPT ![id] = (s.direction = "Receive")]
           /\ answerBar' = [answerBar EXCEPT ![id] = AnswerOf(s)]
  <1>1. sessions' = [sessions EXCEPT ![id] = s] /\ sessions \in [Ids -> Session]
    BY DEF Update, IInv, TypeOK
  <1>2. \A i \in Ids : sessions'[i] = IF i = id THEN s ELSE sessions[i]
    BY <1>1
  <1>3. stageBar' = [stageBar EXCEPT ![id] = StageOf(s)]
    BY <1>2 DEF stageBar
  <1>4. incomingBar' = [incomingBar EXCEPT ![id] = (s.direction = "Receive")]
    BY <1>2 DEF incomingBar
  <1>5. answerBar' = [answerBar EXCEPT ![id] = AnswerOf(s)]
    BY <1>2 DEF answerBar
  <1> QED BY <1>3, <1>4, <1>5

(* One of those moves is a step of the lifecycle. *)
LEMMA MovedIsAStep ==
    ASSUME IInv, NEW id \in Ids, NEW s \in Session, Update(id, s),
           s.direction = sessions[id].direction,
           Moved(sessions[id], s)
    PROVE  [Lifecycle!LifecycleNext]_(Lifecycle!lifecycleVars)
  <1> DEFINE o == sessions[id]
  <1>1. /\ stageBar' = [stageBar EXCEPT ![id] = StageOf(s)]
        /\ incomingBar' = [incomingBar EXCEPT ![id] = (s.direction = "Receive")]
        /\ answerBar' = [answerBar EXCEPT ![id] = AnswerOf(s)]
    BY MappedUpdate
  <1>2. /\ stageBar[id] = StageOf(o) /\ answerBar[id] = AnswerOf(o)
        /\ incomingBar[id] = (o.direction = "Receive")
    BY DEF stageBar, answerBar, incomingBar
  <1>3. incomingBar' = incomingBar
    BY <1>1, <1>2 DEF incomingBar
  <1>4. AnswerOf(s) = AnswerOf(o) => answerBar' = answerBar
    BY <1>1, <1>2 DEF answerBar
  <1>5. StageOf(s) = StageOf(o) => stageBar' = stageBar
    BY <1>1, <1>2 DEF stageBar
  <1>6. CASE StageOf(s) = StageOf(o) /\ AnswerOf(s) = AnswerOf(o)
    BY <1>3, <1>4, <1>5, <1>6
    DEF Lifecycle!lifecycleVars, stageBar, incomingBar, answerBar
  <1>7. CASE StageOf(o) = "none" /\ StageOf(s) = "waiting" /\ AnswerOf(s) = AnswerOf(o)
    <2>1. Lifecycle!Dispatch(id)
      BY <1>1, <1>2, <1>3, <1>4, <1>7
      DEF Lifecycle!Dispatch, Lifecycle!Move, stageBar, incomingBar, answerBar
    <2> QED BY <2>1 DEF Lifecycle!LifecycleNext
  <1>8. CASE /\ AnswerOf(o) = "awaited" /\ AnswerOf(s) = "yes"
             /\ StageOf(o) = "waiting" /\ StageOf(s) \in {"running", "over"}
    <2>1. Lifecycle!Grant(id)
      BY <1>1, <1>2, <1>3, <1>8
      DEF Lifecycle!Grant, Lifecycle!Move, stageBar, incomingBar, answerBar
    <2> QED BY <2>1 DEF Lifecycle!LifecycleNext
  <1>9. CASE /\ AnswerOf(o) = "awaited" /\ AnswerOf(s) = "no"
             /\ StageOf(o) = "waiting" /\ StageOf(s) = "over"
    <2>1. Lifecycle!Refuse(id)
      BY <1>1, <1>2, <1>3, <1>9
      DEF Lifecycle!Refuse, Lifecycle!Move, stageBar, incomingBar, answerBar
    <2> QED BY <2>1 DEF Lifecycle!LifecycleNext
  <1>10. CASE /\ o.direction # "Receive" /\ AnswerOf(s) = AnswerOf(o)
              /\ StageOf(o) = "waiting" /\ StageOf(s) = "running"
    <2>1. Lifecycle!Begin(id)
      BY <1>1, <1>2, <1>3, <1>4, <1>10
      DEF Lifecycle!Begin, Lifecycle!Move, stageBar, incomingBar, answerBar
    <2> QED BY <2>1 DEF Lifecycle!LifecycleNext
  <1>11. CASE /\ AnswerOf(o) # "awaited" /\ AnswerOf(s) = AnswerOf(o)
              /\ StageOf(o) \in {"waiting", "running"} /\ StageOf(s) = "over"
    <2>1. Lifecycle!End(id)
      BY <1>1, <1>2, <1>3, <1>4, <1>11
      DEF Lifecycle!End, Lifecycle!Move, stageBar, incomingBar, answerBar
    <2> QED BY <2>1 DEF Lifecycle!LifecycleNext
  <1> QED BY <1>6, <1>7, <1>8, <1>9, <1>10, <1>11 DEF Moved

(* The one move that takes capacity: the lifecycle's load is the number of *)
(* active receive sessions CreateRecvSession counts.                       *)
LEMMA OfferIsAStep ==
    ASSUME IInv, NEW id \in Ids, NEW offered \in SUBSET Files,
           CreateRecvSession(id, offered)
    PROVE  Lifecycle!LifecycleNext
  <1> DEFINE s == NewSession("Receive", offered)
  <1>1. s \in Session
    BY NewSessionInv DEF Direction
  <1>2. /\ stageBar' = [stageBar EXCEPT ![id] = StageOf(s)]
        /\ incomingBar' = [incomingBar EXCEPT ![id] = (s.direction = "Receive")]
        /\ answerBar' = [answerBar EXCEPT ![id] = AnswerOf(s)]
    BY <1>1, MappedUpdate DEF CreateRecvSession
  <1>3. /\ StageOf(s) = "waiting" /\ s.direction = "Receive" /\ AnswerOf(s) = "awaited"
        /\ stageBar[id] = "none"
    BY DEF NewSession, StageOf, AnswerOf, stageBar, CreateRecvSession
  <1>4. \A i \in Ids : stageBar[i] \in {"waiting", "running"} <=> IsActive(sessions[i])
    BY DEF IInv, TypeOK, Session, MissionState, stageBar, StageOf, IsActive
  <1>5. {i \in Ids : incomingBar[i] /\ stageBar[i] \in {"waiting", "running"}}
          = ActiveReceive
    <2>1. \A i \in Ids : incomingBar[i] <=> sessions[i].direction = "Receive"
      BY DEF incomingBar
    <2> QED BY <1>4, <2>1 DEF ActiveReceive
  <1>6. Lifecycle!Load = Cardinality(ActiveReceive)
    <2>1. Lifecycle!Load =
            Cardinality({i \in Ids : incomingBar[i] /\ stageBar[i] \in {"waiting", "running"}})
      BY DEF Lifecycle!Load, Lifecycle!Alive, Lifecycle!Cardinality, Cardinality,
             stageBar, incomingBar
    <2> QED BY <1>5, <2>1
  <1>7. Lifecycle!Offer(id)
    BY <1>2, <1>3, <1>6
    DEF Lifecycle!Offer, Lifecycle!Move, CreateRecvSession, stageBar, incomingBar, answerBar
  <1> QED BY <1>7 DEF Lifecycle!LifecycleNext

-----------------------------------------------------------------------------
(* How the helpers move a session *)

(* A session that its helper leaves in place makes no move. *)
LEMMA HelpersMove ==
    ASSUME NEW s \in Session, SessionInv(s), s.state # "Absent"
    PROVE  /\ CancelSession(s).direction = s.direction /\ Moved(s, CancelSession(s))
           /\ s.direction = "Send" =>
                 /\ FailSession(s).direction = "Send" /\ Moved(s, FailSession(s))
                 /\ SetState(s, "Transfering").direction = "Send"
                 /\ Moved(s, SetState(s, "Transfering"))
  <1>1. CancelSession(s).direction = s.direction /\ Moved(s, CancelSession(s))
    <2>1. CASE IsActive(s)
      <3> DEFINE t == CancelSession(s)
      <3>1. /\ t.direction = s.direction /\ t.state = "Canceled"
            /\ t.decision = IF s.decision = "Open" THEN "Canceled" ELSE s.decision
        BY <2>1 DEF CancelSession, Session, Answer
      <3>2. s.decision = "Open" => s.state = "Pending"
        BY DEF SessionInv, BaseInv, Session, Direction
      <3> QED BY <2>1, <3>1, <3>2 DEF Moved, StageOf, AnswerOf, IsActive
    <2>2. CASE ~IsActive(s)
      BY <2>2 DEF CancelSession, Moved
    <2> QED BY <2>1, <2>2
  <1>2. ASSUME s.direction = "Send"
        PROVE  /\ FailSession(s).direction = "Send" /\ Moved(s, FailSession(s))
               /\ SetState(s, "Transfering").direction = "Send"
               /\ Moved(s, SetState(s, "Transfering"))
    <2>1. s.decision = "None"
      BY <1>2 DEF SessionInv, BaseInv
    <2>2. CASE IsActive(s)
      <3> DEFINE t == FailSession(s)
                 u == SetState(s, "Transfering")
      <3>1. t.direction = "Send" /\ t.state = "Failed" /\ t.decision = "None"
        BY <1>2, <2>1, <2>2 DEF FailSession, Session, Answer
      <3>2. u.direction = "Send" /\ u.state = "Transfering" /\ u.decision = "None"
        BY <1>2, <2>1, <2>2 DEF SetState, Session
      <3>3. Moved(s, t)
        BY <2>1, <2>2, <3>1 DEF Moved, StageOf, AnswerOf, IsActive
      <3>4. Moved(s, u)
        BY <1>2, <2>1, <2>2, <3>2 DEF Moved, StageOf, AnswerOf, IsActive
      <3> QED BY <3>1, <3>2, <3>3, <3>4
    <2>3. CASE ~IsActive(s)
      BY <1>2, <2>3 DEF FailSession, SetState, Moved
    <2> QED BY <2>2, <2>3
  <1> QED BY <1>1, <1>2

(* An upload or a send driver that reports a file ends the session or      *)
(* makes no move.                                                          *)
LEMMA SetFileStateMoves ==
    ASSUME NEW s \in Session, SessionInv(s), NEW f \in Files, NEW st \in FileState,
           s.direction = "Receive" => f \in s.started
    PROVE  /\ SetFileState(s, f, st).direction = s.direction
           /\ Moved(s, SetFileState(s, f, st))
  <1>1. CASE ~IsActive(s)
    BY <1>1 DEF SetFileState, Moved
  <1>2. CASE IsActive(s)
    <2> DEFINE t == SetFileState(s, f, st)
    <2>1. s.decision # "Open"
      BY <1>2 DEF SessionInv, BaseInv, Session, Direction, IsActive
    <2>2. /\ t.direction = s.direction /\ t.decision = s.decision
          /\ t.state \in {s.state, "Finished", "Failed"}
      BY <1>2, <2>1 DEF SetFileState, CheckFinish, SetState, FailSession, Session, Answer
    <2> QED BY <1>2, <2>1, <2>2 DEF Moved, StageOf, AnswerOf, IsActive, Session, Decision
  <1> QED BY <1>1, <1>2

(* An answer of the user is the lifecycle's answer. *)
LEMMA AnswersMove ==
    ASSUME NEW s \in Session, SessionInv(s), AwaitsDecision(s), NEW chosen \in SUBSET Files
    PROVE  /\ Declined(s).direction = s.direction /\ Moved(s, Declined(s))
           /\ CheckFinish(Accepted(s, chosen)).direction = s.direction
           /\ Moved(s, CheckFinish(Accepted(s, chosen)))
  <1>1. s.decision = "Open" /\ s.state = "Pending"
    BY DEF SessionInv, BaseInv, AwaitsDecision
  <1> DEFINE t == Accepted(s, chosen)
             u == CheckFinish(t)
  <1>2. t.state = "Transfering" /\ t.decision = "Accepted" /\ t.direction = s.direction
    BY <1>1 DEF Accepted, Answer, Session
  <1>3. /\ u.direction = s.direction /\ u.decision = "Accepted"
        /\ u.state \in {"Transfering", "Finished"}
    BY <1>2 DEF CheckFinish, SetState, Accepted, Session
  <1>4. /\ Declined(s).direction = s.direction /\ Declined(s).state = "Canceled"
        /\ Declined(s).decision = "Declined"
    BY <1>1 DEF Declined, Answer, Session
  <1>5. Moved(s, u)
    BY <1>1, <1>3 DEF Moved, StageOf, AnswerOf
  <1>6. Moved(s, Declined(s))
    BY <1>1, <1>4 DEF Moved, StageOf, AnswerOf
  <1> QED BY <1>3, <1>4, <1>5, <1>6

-----------------------------------------------------------------------------
(* The theorem *)

(* Every message is a step of the lifecycle or none. *)
LEMMA NextRefines ==
    IInv /\ [Next]_vars => [Lifecycle!LifecycleNext]_(Lifecycle!lifecycleVars)
  <1> DEFINE Step == [Lifecycle!LifecycleNext]_(Lifecycle!lifecycleVars)
  <1> SUFFICES ASSUME IInv, [Next]_vars PROVE Step
    OBVIOUS
  <1>0. CASE UNCHANGED vars
    BY <1>0 DEF Lifecycle!lifecycleVars, vars
  <1>1. ASSUME NEW id \in Ids, NEW offered \in SUBSET Files, CreateRecvSession(id, offered)
        PROVE  Step
    BY <1>1, OfferIsAStep
  <1> HIDE DEF Step
  <1>2. ASSUME NEW id \in Ids, NEW s \in Session, Update(id, s),
               s.direction = sessions[id].direction, Moved(sessions[id], s)
        PROVE  Step
    BY <1>2, MovedIsAStep DEF Step
  <1>3. \A id \in Ids : sessions[id] \in Session /\ SessionInv(sessions[id])
    BY DEF IInv, TypeOK
  <1>4. ASSUME NEW id \in Ids, NEW offered \in SUBSET Files, CreateSendSession(id, offered)
        PROVE  Step
    <2> DEFINE t == NewSession("Send", offered)
    <2>1. t \in Session
      BY <1>4, NewSessionInv DEF CreateSendSession, Direction
    <2>2. sessions[id].direction = "Send" /\ sessions[id].decision = "None"
      BY <1>3, <1>4 DEF CreateSendSession, SessionInv, BaseInv
    <2>3. t.direction = "Send" /\ Moved(sessions[id], t)
      BY <1>4, <2>2 DEF CreateSendSession, NewSession, Moved, StageOf, AnswerOf
    <2> QED BY <1>2, <1>4, <2>1, <2>2, <2>3 DEF CreateSendSession
  <1>5. ASSUME NEW id \in Ids, NEW chosen \in SUBSET Files, Accept(id, chosen)
        PROVE  Step
    BY <1>2, <1>3, <1>5, AcceptInv, AnswersMove DEF Accept
  <1>6. ASSUME NEW id \in Ids, Decline(id) PROVE Step
    <2>1. AwaitsDecision(sessions[id]) /\ Update(id, Declined(sessions[id]))
      BY <1>6 DEF Decline
    <2>2. Declined(sessions[id]) \in Session
      BY <1>3, <2>1, DeclineInv
    <2>3. /\ Declined(sessions[id]).direction = sessions[id].direction
          /\ Moved(sessions[id], Declined(sessions[id]))
      <3>1. {} \in SUBSET Files
        OBVIOUS
      <3> QED BY <1>3, <2>1, <3>1, AnswersMove
    <2> QED BY <1>2, <2>1, <2>2, <2>3
  <1>7. ASSUME NEW id \in Ids, Cancel(id) PROVE Step
    BY <1>2, <1>3, <1>7, CancelSessionInv, HelpersMove DEF Cancel
  <1>8. ASSUME NEW id \in Ids, MarkViaRelay(id) PROVE Step
    <2> DEFINE t == [sessions[id] EXCEPT !.viaRelay = TRUE,
                                         !.route = IF @ = "local" THEN "turn" ELSE @]
    <2>1. t \in Session /\ t.direction = sessions[id].direction
      BY <1>3 DEF Session, Route
    <2>2. Moved(sessions[id], t)
      BY <1>3 DEF Session, Moved, StageOf, AnswerOf
    <2> QED BY <1>2, <1>8, <2>1, <2>2 DEF MarkViaRelay
  <1>9. ASSUME NEW id \in Ids, NEW route \in {"turn", "stun"}, MarkRoute(id, route)
        PROVE  Step
    <2> DEFINE t == [sessions[id] EXCEPT !.route = route]
    <2>1. t \in Session /\ t.direction = sessions[id].direction
      BY <1>3 DEF Session, Route
    <2>2. Moved(sessions[id], t)
      BY <1>3 DEF Session, Moved, StageOf, AnswerOf
    <2> QED BY <1>2, <1>9, <2>1, <2>2 DEF MarkRoute
  <1>10. ASSUME NEW id \in Ids, NEW f \in Files, StartFile(id, f) PROVE Step
    <2> DEFINE t == Started(sessions[id], f)
    <2>1. t \in Session
      BY <1>3, <1>10, StartInv DEF StartFile
    <2>2. t.direction = sessions[id].direction /\ Moved(sessions[id], t)
      BY <1>3 DEF Started, Session, Moved, StageOf, AnswerOf
    <2> QED BY <1>2, <1>10, <2>1, <2>2 DEF StartFile
  <1>11. ASSUME NEW id \in Ids, NEW f \in Files, ReportProgress(id, f) PROVE Step
    <2>1. \A i \in Ids : /\ sessions'[i].direction = sessions[i].direction
                         /\ sessions'[i].state = sessions[i].state
                         /\ sessions'[i].decision = sessions[i].decision
      BY <1>3, <1>11 DEF ReportProgress, Session, IInv, TypeOK
    <2>2. UNCHANGED <<stageBar, incomingBar, answerBar>>
      BY <2>1 DEF stageBar, incomingBar, answerBar, StageOf, AnswerOf
    <2> QED BY <2>2 DEF Step, Lifecycle!lifecycleVars, stageBar, incomingBar, answerBar
  <1>12. ASSUME NEW id \in Ids, NEW f \in Files, NEW st \in FileState, FinishFile(id, f, st)
         PROVE  Step
    BY <1>2, <1>3, <1>12, SetFileStateInv, SetFileStateMoves DEF FinishFile
  <1>13. ASSUME NEW id \in Ids, NEW f \in Files, NEW st \in FileState,
                ReportFileState(id, f, st)
         PROVE  Step
    <2> DEFINE u == SetFileState(sessions[id], f, st)
               t == [u EXCEPT !.started = IF st = "Transfer" THEN @ \cup {f} ELSE @]
    <2>1. u \in Session /\ u.direction = sessions[id].direction /\ Moved(sessions[id], u)
      BY <1>3, <1>13, SetFileStateInv, SetFileStateMoves DEF ReportFileState
    <2>2. /\ t \in Session /\ t.direction = u.direction
          /\ t.state = u.state /\ t.decision = u.decision
      BY <2>1 DEF Session
    <2>3. Moved(sessions[id], t)
      BY <2>1, <2>2 DEF Moved, StageOf, AnswerOf
    <2> QED BY <1>2, <1>13, <2>1, <2>2, <2>3 DEF ReportFileState
  <1>14. ASSUME NEW id \in Ids, ReportState(id) PROVE Step
    BY <1>2, <1>3, <1>14, SetStateInv, HelpersMove DEF ReportState
  <1>15. ASSUME NEW id \in Ids, Fail(id) PROVE Step
    <2>1. FailSession(sessions[id]) \in Session
      BY <1>3, <1>15, FailSessionInv DEF Fail, SessionInv
    <2> QED BY <1>2, <1>3, <1>15, <2>1, HelpersMove DEF Fail
  <1> QED BY <1>0, <1>1, <1>4, <1>5, <1>6, <1>7, <1>8, <1>9, <1>10, <1>11, <1>12, <1>13,
             <1>14, <1>15 DEF Next, Step

(* The session actor implements the lifecycle it promises, for any number  *)
(* of sessions and files and any interleaving of its callers.              *)
THEOREM Refinement == Spec => ImplementsLifecycle
  <1>1. Init => Lifecycle!LifecycleInit
    <2> SUFFICES ASSUME Init PROVE Lifecycle!LifecycleInit
      OBVIOUS
    <2>1. \A id \in Ids : /\ sessions[id].state = "Absent"
                          /\ sessions[id].direction = "Send"
                          /\ sessions[id].decision = "None"
      BY DEF Init, NoSession, NewSession
    <2>2. \A id \in Ids : StageOf(sessions[id]) = "none" /\ AnswerOf(sessions[id]) = "unasked"
      BY <2>1 DEF StageOf, AnswerOf
    <2> QED BY <2>1, <2>2 DEF Lifecycle!LifecycleInit
  <1> QED BY <1>1, NextRefines, Invariance, PTL
          DEF Spec, ImplementsLifecycle, Lifecycle!LifecycleSpec
=============================================================================
