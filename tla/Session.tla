------------------------------ MODULE Session ------------------------------
(***************************************************************************)
(* One transfer session as rust/core/src/session.rs keeps it, and what the *)
(* session actor's helpers do to it.  There is no state here: the actor    *)
(* that owns the sessions of a node is SessionManager, and the modules     *)
(* that follow one session through a protocol use the same operators.      *)
(*                                                                         *)
(* A HashMap of files is a total function whose value is "Absent" for a    *)
(* file the session does not hold, and an id with no session is mapped to  *)
(* NoSession.  The upload token of a file is drawn fresh per session, so   *)
(* it is identified with the pair of session id and file id.               *)
(***************************************************************************)
CONSTANTS
    Files,     \* file ids
    NoFile     \* the file of an event that is about no file

ASSUME NoFileAssumption == NoFile \notin Files

-----------------------------------------------------------------------------
(* Types *)

Direction == {"Send", "Receive"}

(* Idle and Busy exist in the code and are never assigned to a session. *)
MissionState == {"Pending", "Transfering", "Finished", "Failed", "Canceled"}

FileState == {"Pending", "Transfer", "Finish", "Skip", "Fail"}

Decision == {"Accepted", "Declined", "Canceled"}

Route == {"local", "turn", "stun"}

(* SessionEvent.  Byte counts and reasons are abstracted away. *)
Event == [kind : {"StateChanged", "FileStateChanged", "Progress", "Failed"},
          file : Files \cup {NoFile},
          to   : MissionState \cup FileState \cup {"None"}]

StateChanged(st) == [kind |-> "StateChanged", file |-> NoFile, to |-> st]
FileStateChanged(f, st) == [kind |-> "FileStateChanged", file |-> f, to |-> st]
Progress(f) == [kind |-> "Progress", file |-> f, to |-> "None"]
FailedEvent == [kind |-> "Failed", file |-> NoFile, to |-> "None"]

(* decision: "None" for a send session, "Open" while the oneshot sender is *)
(* still held, else the decision that was sent through it.  granted: the   *)
(* files whose tokens the Accepted decision carried.  started: the files   *)
(* for which an upload was begun; each has (or had) a progress forwarder   *)
(* and an uploader that will report an outcome.                            *)
Session == [direction : Direction,
            state     : MissionState \cup {"Absent"},
            files     : [Files -> FileState \cup {"Absent"}],
            decision  : Decision \cup {"None", "Open"},
            granted   : SUBSET Files,
            started   : SUBSET Files,
            event     : Event,
            cancelled : BOOLEAN,
            viaRelay  : BOOLEAN,
            route     : Route]

(* A session as it is inserted: every offered file Pending, the event      *)
(* stream primed with StateChanged(Pending).                               *)
NewSession(dir, offered) ==
    [direction |-> dir,
     state     |-> "Pending",
     files     |-> [f \in Files |-> IF f \in offered THEN "Pending" ELSE "Absent"],
     decision  |-> IF dir = "Receive" THEN "Open" ELSE "None",
     granted   |-> {},
     started   |-> {},
     event     |-> StateChanged("Pending"),
     cancelled |-> FALSE,
     viaRelay  |-> FALSE,
     route     |-> "local"]

NoSession == [NewSession("Send", {}) EXCEPT !.state = "Absent"]

Offered(s) == {f \in Files : s.files[f] # "Absent"}

IsActive(s) == s.state \in {"Pending", "Transfering"}

(* FileState::is_terminal *)
IsTerminal(st) == st \in {"Finish", "Skip", "Fail"}

(* Session::summary, without the fields no message changes *)
Summary(s) == [state |-> s.state, files |-> s.files,
               viaRelay |-> s.viaRelay, route |-> s.route]

-----------------------------------------------------------------------------
(* What the actor's helpers do to one session *)

(* decision.take() followed by a send: only an open oneshot is answered. *)
Answer(s, verdict) == IF s.decision = "Open" THEN verdict ELSE s.decision

SetStateUnguarded(s, st) == [s EXCEPT !.state = st, !.event = StateChanged(st)]

SetState(s, st) ==
    IF IsActive(s) THEN [s EXCEPT !.state = st, !.event = StateChanged(st)]
                   ELSE s

(* Every file finished or skipped, and there is a file. *)
Complete(s) ==
    /\ Offered(s) # {}
    /\ \A f \in Offered(s) : s.files[f] \in {"Finish", "Skip"}

CheckFinishIgnoringSkips(s) ==
    IF IsActive(s) /\ Offered(s) # {} /\ \A f \in Offered(s) : s.files[f] = "Finish"
    THEN SetState(s, "Finished") ELSE s

CheckFinish(s) ==
    IF IsActive(s) /\ Complete(s) THEN SetState(s, "Finished") ELSE s

FailSessionKeepingToken(s) ==
    IF IsActive(s)
    THEN [s EXCEPT !.state = "Failed",
                   !.event = FailedEvent,
                   !.decision = Answer(s, "Canceled")]
    ELSE s

FailSession(s) ==
    IF IsActive(s)
    THEN [s EXCEPT !.state = "Failed",
                   !.cancelled = TRUE,
                   !.event = FailedEvent,
                   !.decision = Answer(s, "Canceled")]
    ELSE s

CancelSessionKeepingToken(s) ==
    IF IsActive(s)
    THEN [s EXCEPT !.state = "Canceled",
                   !.event = StateChanged("Canceled"),
                   !.decision = Answer(s, "Canceled")]
    ELSE s

CancelSessionUnanswered(s) ==
    IF IsActive(s)
    THEN [s EXCEPT !.state = "Canceled",
                   !.cancelled = TRUE,
                   !.event = StateChanged("Canceled")]
    ELSE s

CancelSession(s) ==
    IF IsActive(s)
    THEN [s EXCEPT !.state = "Canceled",
                   !.cancelled = TRUE,
                   !.event = StateChanged("Canceled"),
                   !.decision = Answer(s, "Canceled")]
    ELSE s

(* One file's new state; an unknown file leaves the files alone, and a     *)
(* failed file fails the session.                                          *)
SetFileState(s, f, st) ==
    LET t == IF f \in Offered(s)
             THEN [s EXCEPT !.files[f] = st, !.event = FileStateChanged(f, st)]
             ELSE s
    IN  CASE ~IsActive(s)                -> s
          [] IsActive(s) /\ st = "Fail"  -> FailSession(t)
          [] IsActive(s) /\ st # "Fail"  -> CheckFinish(t)

AcceptedWithoutSkips(s, chosen) ==
    [s EXCEPT !.state = "Transfering",
              !.event = StateChanged("Transfering"),
              !.decision = Answer(s, "Accepted"),
              !.granted = Offered(s) \cap chosen]

(* The user accepted `chosen`: the other files are skipped, the waiting    *)
(* handler gets the tokens of the chosen ones.  The StateChanged event is  *)
(* sent after those of the skipped files, so it is the one that stays.     *)
Accepted(s, chosen) ==
    [s EXCEPT !.files = [f \in Files |->
                            IF f \in Offered(s) \ chosen THEN "Skip" ELSE s.files[f]],
              !.state = "Transfering",
              !.event = StateChanged("Transfering"),
              !.decision = Answer(s, "Accepted"),
              !.granted = Offered(s) \cap chosen]

Declined(s) ==
    [s EXCEPT !.state = "Canceled",
              !.cancelled = TRUE,
              !.event = StateChanged("Canceled"),
              !.decision = Answer(s, "Declined")]

AwaitsDecision(s) == s.direction = "Receive" /\ s.state = "Pending"

CanStartUnaccepted(s, f) ==
    /\ s.direction = "Receive"
    /\ IsActive(s)
    /\ f \in Offered(s)
    /\ ~IsTerminal(s.files[f])

(* StartFile answers Ok; otherwise it answers InvalidState (or UnknownFile) *)
(* and changes nothing.                                                     *)
CanStart(s, f) ==
    /\ s.direction = "Receive"
    /\ s.state = "Transfering"
    /\ f \in Offered(s)
    /\ ~IsTerminal(s.files[f])

Started(s, f) ==
    [s EXCEPT !.files[f] = "Transfer",
              !.event = FileStateChanged(f, "Transfer"),
              !.started = @ \cup {f}]
=============================================================================
