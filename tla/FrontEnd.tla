------------------------------ MODULE FrontEnd ------------------------------
(***************************************************************************)
(* The front ends of a node and the session actor they watch: the terminal *)
(* UI (rust/cli/src/tui.rs and state.rs), the headless `send` and `receive`*)
(* commands (headless.rs) and the automatic acceptance of the Flutter app  *)
(* (lib/core/providers/session_providers.dart).                            *)
(*                                                                         *)
(* A front end never sees the actor's state.  It sees two kinds of watch   *)
(* channels, of which only the last value is kept: the index of all        *)
(* sessions, and the last event of each session.  The terminal UI copies   *)
(* the events through one forwarder task per session into a bounded queue  *)
(* and folds both sources into its cards, in the order in which they       *)
(* happen to reach its loop.                                               *)
(*                                                                         *)
(* A card is its state; byte counters, file rows and texts are left out,   *)
(* and with them the events that change nothing else.                      *)
(***************************************************************************)
EXTENDS SessionManager, Sequences, SequencesExt

CONSTANTS
    Modes,     \* the front ends of a run
    Contents,  \* session id -> the files it offers
    Own,       \* the session of the headless send command
    QueueCap   \* events of one session waiting for the UI (256 for all in the code)

ASSUME ModesAssumption == Modes \subseteq {"tui", "receive", "once", "send", "app"}
ASSUME ContentsAssumption == Contents \in [Ids -> SUBSET Files]
ASSUME OwnAssumption == Own \in Ids
ASSUME QueueCapAssumption == QueueCap \in Nat \ {0}

VARIABLES
    mode,       \* which front end this process is
    news,       \* index_rx.changed(): the index was published since it was last taken
    fresh,      \* id -> the event watch has a value its reader has not taken
    forwarder,  \* id -> "none", "first" (spawned, initial value not sent), "on"
    queue,      \* id -> events forwarded and not applied (the mpsc channel)
    cards,      \* App.sessions: the ids of the cards from top to bottom
    shown,      \* id -> state on its card, "Absent" without one
    focus,      \* App.focus, counted from 1
    hidden,     \* App.hidden
    step,       \* where a headless loop is: "look", "act" or "wait"
    todo,       \* offers it (or the app) found pending and has not yet accepted
    ended,      \* receive --once: the end it found in the index, if any
    outcome,    \* "running", or how the process ended
    quickSave   \* the quick-save switch of the app

channels == <<news, fresh>>
ui == <<forwarder, queue, cards, shown, focus, hidden>>
loop == <<step, todo, ended, quickSave>>
frontVars == <<vars, mode, channels, ui, loop, outcome>>

Terminal == {"Finished", "Failed", "Canceled"}

Listed == {id \in Ids : index[id].state # "Absent"}

PendingReceive == {id \in Listed : /\ sessions[id].direction = "Receive"
                                   /\ index[id].state = "Pending"}

FrontInit ==
    /\ Init
    /\ mode \in Modes
    /\ news = FALSE /\ fresh = [id \in Ids |-> FALSE]
    /\ forwarder = [id \in Ids |-> "none"] /\ queue = [id \in Ids |-> <<>>]
    /\ cards = <<>> /\ shown = [id \in Ids |-> "Absent"]
    /\ focus = 1 /\ hidden = {}
    /\ step = "look" /\ todo = {} /\ ended = "none" /\ quickSave = TRUE
    /\ outcome = "running"

-----------------------------------------------------------------------------
(* The channels *)

(* A message was handled: an event watch whose value was replaced, and the *)
(* index watch after every change of a session, wake their readers.        *)
Publish ==
    /\ outcome = "running"
    /\ fresh' = [id \in Ids |-> fresh[id] \/ sessions'[id].event # sessions[id].event]
    /\ news' = (news \/ index' # index)
    /\ UNCHANGED <<mode, outcome>>

(* A reader that awaits a change of the index takes it (borrow_and_update):  *)
(* what was published before the last value is never seen.                   *)
TakeIndex == news /\ news' = FALSE

(* What peers, upload handlers and send drivers do to the sessions.  The   *)
(* route marks are left out: they change nothing a card here keeps.        *)
CoreStep ==
    /\ \E id \in Ids :
          \/ CreateRecvSession(id, Contents[id]) /\ (mode = "send" => id # Own)
          \/ sessions[id].direction = "Receive" /\ Cancel(id)
          \/ \E f \in Files : StartFile(id, f) \/ ReportProgress(id, f)
          \/ \E f \in Files, st \in FileState :
                FinishFile(id, f, st) \/ ReportFileState(id, f, st)
          \/ ReportState(id)
          \/ Fail(id)
    /\ Publish
    /\ UNCHANGED <<ui, loop>>

-----------------------------------------------------------------------------
(* The terminal UI *)

Tui == mode = "tui" /\ outcome = "running"

(* Vec::retain: what s holds of S, in the order it had.  The set has one   *)
(* element.                                                                *)
Retained(s, S) ==
    LET kept == {i \in DOMAIN s : s[i] \in S} IN
    {[i \in DOMAIN e |-> s[e[i]]] :
        e \in {e \in SetToSeqs(kept) : \A i, j \in DOMAIN e : i < j => e[i] < e[j]}}

Clamp(i, s) == IF Len(s) = 0 THEN 1 ELSE IF i > Len(s) THEN Len(s) ELSE i

(* A new session on top of the list instead of at its end *)
ApplyIndexPrepending ==
    /\ Tui
    /\ \E new \in SetToSeqs(Listed \ (ToSet(cards) \cup hidden)) : cards' = new \o cards
    /\ shown' = [id \in Ids |-> IF id \in Listed \ hidden THEN index[id].state ELSE shown[id]]
    /\ forwarder' = [id \in Ids |-> IF id \in Listed /\ forwarder[id] = "none"
                                    THEN "first" ELSE forwarder[id]]
    /\ focus' = Clamp(focus, cards')
    /\ news' = FALSE
    /\ UNCHANGED <<vars, mode, fresh, queue, hidden, loop, outcome>>

(* The loop takes the index: a forwarder is spawned for every session seen *)
(* for the first time, then the cards are brought up to date.  A list that *)
(* was published again unchanged wakes the loop too.  The receiver that is *)
(* cloned for a forwarder has seen no event since the session was made.    *)
ApplyIndex ==
    /\ Tui
    /\ \E new \in SetToSeqs(Listed \ (ToSet(cards) \cup hidden)) :
          cards' \in Retained(cards \o new, Listed \ hidden)
    /\ shown' = [id \in Ids |-> IF id \in Listed \ hidden THEN index[id].state ELSE shown[id]]
    /\ forwarder' = [id \in Ids |-> IF id \in Listed /\ forwarder[id] = "none"
                                    THEN "first" ELSE forwarder[id]]
    /\ focus' = Clamp(focus, cards')
    /\ news' = FALSE
    /\ UNCHANGED <<vars, mode, fresh, queue, hidden, loop, outcome>>

(* What an event writes on a card: its state, or nothing this model keeps. *)
Effect(event) ==
    CASE event.kind = "StateChanged" -> <<event.to>>
      [] event.kind = "Failed"       -> <<"Failed">>
      [] OTHER                       -> <<>>

(* A forwarder's first value, whatever it is by the time the task runs,    *)
(* and then one value for every time it finds the watch changed.           *)
Forward(id) ==
    /\ Tui
    /\ Len(queue[id]) < QueueCap
    /\ \/ /\ forwarder[id] = "first"
          /\ forwarder' = [forwarder EXCEPT ![id] = "on"]
          /\ UNCHANGED fresh
       \/ /\ forwarder[id] = "on" /\ fresh[id]
          /\ fresh' = [fresh EXCEPT ![id] = FALSE]
          /\ UNCHANGED forwarder
    /\ queue' = [queue EXCEPT ![id] = @ \o Effect(sessions[id].event)]
    /\ UNCHANGED <<vars, mode, news, cards, shown, focus, hidden, loop, outcome>>

(* An event of a session without a card is dropped. *)
ApplyEvent(id) ==
    /\ Tui
    /\ queue[id] # <<>>
    /\ shown' = [shown EXCEPT ![id] = IF @ = "Absent" THEN @ ELSE Head(queue[id])]
    /\ queue' = [queue EXCEPT ![id] = Tail(@)]
    /\ UNCHANGED <<vars, mode, channels, forwarder, cards, focus, hidden, loop, outcome>>

(* Tab, Down, BackTab and Up *)
CycleFocus(delta) ==
    /\ Tui
    /\ focus' = IF cards = <<>> THEN 1 ELSE ((focus - 1 + delta) % Len(cards)) + 1
    /\ UNCHANGED <<vars, mode, channels, forwarder, queue, cards, shown, hidden, loop, outcome>>

(* y, n and c ask the actor about the focused card's session, on the       *)
(* strength of the state the card shows; the actor refuses an answer that  *)
(* comes too late and ignores a cancel that does.                          *)
AnswerAs(id) ==
    \/ shown[id] = "Pending" /\ sessions[id].direction = "Receive"
         /\ (Accept(id, Files) \/ Decline(id))
    \/ shown[id] \notin Terminal /\ Cancel(id)

KeyOnFocused ==
    /\ Tui
    /\ cards # <<>>
    /\ AnswerAs(cards[focus])
    /\ Publish
    /\ UNCHANGED <<ui, loop>>

(* A digit, or --to on the command line *)
SendKey ==
    /\ Tui
    /\ \E id \in Ids : CreateSendSession(id, Contents[id])
    /\ Publish
    /\ UNCHANGED <<ui, loop>>

ClearAnswered ==
    /\ Tui
    /\ hidden' = hidden \cup {id \in ToSet(cards) : shown[id] # "Pending"}
    /\ cards' \in Retained(cards, Ids \ hidden')
    /\ shown' = [id \in Ids |-> IF id \in hidden' THEN "Absent" ELSE shown[id]]
    /\ focus' = Clamp(focus, cards')
    /\ UNCHANGED <<vars, mode, channels, forwarder, queue, loop, outcome>>

(* x *)
ClearTerminal ==
    /\ Tui
    /\ hidden' = hidden \cup {id \in ToSet(cards) : shown[id] \in Terminal}
    /\ cards' \in Retained(cards, Ids \ hidden')
    /\ shown' = [id \in Ids |-> IF id \in hidden' THEN "Absent" ELSE shown[id]]
    /\ focus' = Clamp(focus, cards')
    /\ UNCHANGED <<vars, mode, channels, forwarder, queue, loop, outcome>>

(* q; the core is shut down and the process ends. *)
Quit ==
    /\ Tui
    /\ outcome' = "ok"
    /\ cards' = <<>> /\ shown' = [id \in Ids |-> "Absent"] /\ focus' = 1 /\ hidden' = {}
    /\ queue' = [id \in Ids |-> <<>>] /\ forwarder' = [id \in Ids |-> "none"]
    /\ UNCHANGED <<vars, mode, channels, loop>>

TuiStep ==
    \/ ApplyIndex
    \/ \E id \in Ids : Forward(id) \/ ApplyEvent(id)
    \/ \E delta \in {-1, 1} : CycleFocus(delta)
    \/ KeyOnFocused \/ SendKey \/ ClearTerminal \/ Quit

-----------------------------------------------------------------------------
(* The headless commands *)

Headless == mode \in {"receive", "once", "send"} /\ outcome = "running"

EndedReceive == {id \in Listed : /\ sessions[id].direction = "Receive"
                                 /\ index[id].state \in Terminal}

ExitStatus(st) == IF st = "Finished" THEN "ok" ELSE "error"

(* receive: the offers pending in the index now and, for --once, a session *)
(* that has ended.  borrow() does not mark the value as seen.              *)
Look ==
    /\ Headless /\ mode # "send"
    /\ step = "look"
    /\ todo' = PendingReceive
    /\ IF mode = "receive" \/ EndedReceive = {}
       THEN ended' = "none"
       ELSE \E id \in EndedReceive : ended' = ExitStatus(index[id].state)
    /\ step' = "act"
    /\ UNCHANGED <<vars, mode, channels, ui, quickSave, outcome>>

(* One accept(id, None); an offer that is no longer pending is an error    *)
(* that is printed or ignored.                                             *)
AcceptPending(id) ==
    /\ outcome = "running"
    /\ id \in todo
    /\ todo' = todo \ {id}
    /\ \/ Accept(id, Files)
       \/ ~AwaitsDecision(sessions[id]) /\ UNCHANGED vars
    /\ Publish
    /\ UNCHANGED <<ui, step, ended, quickSave>>

AfterAcceptingMarkingSeen ==
    /\ Headless /\ mode # "send"
    /\ step = "act" /\ todo = {}
    /\ IF ended = "none" THEN step' = "wait" /\ UNCHANGED outcome
                         ELSE outcome' = ended /\ UNCHANGED step
    /\ news' = FALSE
    /\ UNCHANGED <<vars, mode, fresh, ui, todo, ended, quickSave>>

(* With --once the command ends with the session it found ended. *)
AfterAccepting ==
    /\ Headless /\ mode # "send"
    /\ step = "act" /\ todo = {}
    /\ IF ended = "none" THEN step' = "wait" /\ UNCHANGED outcome
                         ELSE outcome' = ended /\ UNCHANGED step
    /\ UNCHANGED <<vars, mode, channels, ui, todo, ended, quickSave>>

(* index.changed(), which marks the value as seen, or Ctrl-C *)
Wait ==
    /\ Headless /\ mode # "send"
    /\ step = "wait" /\ TakeIndex
    /\ step' = "look"
    /\ UNCHANGED <<vars, mode, fresh, ui, todo, ended, quickSave, outcome>>

Interrupt ==
    /\ Headless /\ mode # "send"
    /\ step = "wait"
    /\ outcome' = "ok"
    /\ UNCHANGED <<vars, mode, channels, ui, loop>>

(* send: the session is created, then the same loop over the index and the *)
(* session's events until the index shows an end.                          *)
StartSend ==
    /\ Headless /\ mode = "send"
    /\ CreateSendSession(Own, Contents[Own])
    /\ Publish
    /\ UNCHANGED <<ui, loop>>

LookAtOwn ==
    /\ Headless /\ mode = "send"
    /\ Own \in Listed /\ step = "look"
    /\ \/ /\ index[Own].state \in Terminal
          /\ outcome' = ExitStatus(index[Own].state)
          /\ UNCHANGED step
       \/ /\ index[Own].state \notin Terminal
          /\ step' = "wait"
          /\ UNCHANGED outcome
    /\ UNCHANGED <<vars, mode, channels, ui, todo, ended, quickSave>>

WaitForOwn ==
    /\ Headless /\ mode = "send"
    /\ step = "wait"
    /\ \/ news /\ news' = FALSE /\ UNCHANGED fresh
       \/ fresh[Own] /\ fresh' = [fresh EXCEPT ![Own] = FALSE] /\ UNCHANGED news
    /\ step' = "look"
    /\ UNCHANGED <<vars, mode, ui, todo, ended, quickSave, outcome>>

HeadlessStep == Look \/ AfterAccepting \/ Wait \/ StartSend \/ LookAtOwn \/ WaitForOwn

-----------------------------------------------------------------------------
(* The app *)

(* AutoAccept: on every index it is handed, an offer it has not acted on   *)
(* is accepted while quick save is on.  The calls are not awaited.  An     *)
(* offer once acted on is no longer pending, so the set of ids acted on    *)
(* is not kept apart from the calls under way.                             *)
AutoAccept ==
    /\ mode = "app" /\ outcome = "running"
    /\ TakeIndex
    /\ todo' = IF quickSave THEN todo \cup PendingReceive ELSE todo
    /\ UNCHANGED <<vars, mode, fresh, ui, step, ended, quickSave, outcome>>

SetQuickSave(value) ==
    /\ mode = "app" /\ outcome = "running"
    /\ quickSave' = value
    /\ UNCHANGED <<vars, mode, channels, ui, step, todo, ended, outcome>>

(* The buttons of a pending session *)
AppAnswers(id) ==
    /\ mode = "app"
    /\ id \in PendingReceive
    /\ \/ \E chosen \in SUBSET Files : Accept(id, chosen)
       \/ Decline(id)
    /\ Publish
    /\ UNCHANGED <<ui, loop>>

-----------------------------------------------------------------------------
FrontNext ==
    \/ CoreStep
    \/ TuiStep
    \/ HeadlessStep \/ Interrupt
    \/ \E id \in Ids : AcceptPending(id) \/ AppAnswers(id)
    \/ AutoAccept
    \/ \E value \in BOOLEAN : SetQuickSave(value)

(* tokio polls a task that was woken, and select! picks among its ready    *)
(* branches at random: a front end that has something to read reads it.    *)
(* Nothing is assumed of the user, of the peers or of the drivers.         *)
FrontFairness ==
    /\ WF_frontVars(ApplyIndex /\ news)
    /\ \A id \in Ids : WF_frontVars(Forward(id)) /\ WF_frontVars(ApplyEvent(id))
    /\ WF_frontVars(HeadlessStep \/ AutoAccept)
    /\ WF_frontVars(\E id \in Ids : AcceptPending(id))

FrontSpec == FrontInit /\ [][FrontNext]_frontVars /\ FrontFairness

-----------------------------------------------------------------------------
(* Properties *)

(* The fields of App and of the loops keep their shape: the focus is on a   *)
(* card whenever there is one, no session has two cards, and the queue of a *)
(* session stays within its capacity.                                       *)
FrontTypeOK ==
    /\ mode \in Modes /\ news \in BOOLEAN /\ fresh \in [Ids -> BOOLEAN]
    /\ cards \in Seq(Ids) /\ \A i, j \in DOMAIN cards : cards[i] = cards[j] => i = j
    /\ focus \in 1..(IF cards = <<>> THEN 1 ELSE Len(cards))
    /\ shown \in [Ids -> MissionState \cup {"Absent"}]
    /\ \A id \in Ids : shown[id] = "Absent" <=> id \notin ToSet(cards)
    /\ forwarder \in [Ids -> {"none", "first", "on"}]
    /\ queue \in [Ids -> Seq(MissionState)]
    /\ \A id \in Ids : Len(queue[id]) <= QueueCap
    /\ hidden \subseteq Ids /\ todo \subseteq Ids /\ quickSave \in BOOLEAN
    /\ step \in {"look", "act", "wait"} /\ ended \in {"none", "ok", "error"}
    /\ outcome \in {"running", "ok", "error"}

(* No front end reports an end that did not happen, whatever order the      *)
(* index and the events reach it in: a card in a terminal state, a session  *)
(* the user cleared with x (which never comes back as a card), the exit     *)
(* status of `send` and the error of `receive --once` all agree with the    *)
(* actor.                                                                   *)
ReportedEndsHappened ==
    /\ \A id \in ToSet(cards) : shown[id] \in Terminal => sessions[id].state = shown[id]
    /\ \A id \in hidden : sessions[id].state \in Terminal /\ id \notin ToSet(cards)
    /\ (mode = "send" /\ outcome = "ok") => sessions[Own].state = "Finished"
    /\ (mode = "send" /\ outcome = "error") => sessions[Own].state \in {"Failed", "Canceled"}
    /\ (mode = "once" /\ outcome = "error") =>
          \E id \in Ids : /\ sessions[id].direction = "Receive"
                          /\ sessions[id].state \in {"Failed", "Canceled"}

(* The session that y, n and c apply to is the one the user moved to:       *)
(* sessions that come, change and end under the user's hands never move     *)
(* the focus to another card.                                               *)
FocusFollowsUser ==
    [][cards # <<>> =>
          \/ cards' # <<>> /\ cards'[focus'] = cards[focus]
          \/ outcome' # "running"
          \/ \E delta \in {-1, 1} : CycleFocus(delta)
          \/ ClearTerminal]_frontVars

(* A card shows the end of its session in the end, although the events may  *)
(* be applied after a newer index: the stale ones are followed by the last. *)
(* Except where a progress report that came after the end replaced the last *)
(* event before it was forwarded.                                           *)
CardsCatchUp ==
    <>[](\A id \in Ids :
            (/\ mode = "tui" /\ outcome = "running"
             /\ sessions[id].state \in Terminal /\ sessions[id].event.kind # "Progress")
            => id \in hidden \/ shown[id] = sessions[id].state)

(* Nobody is needed: an unattended receiver answers every offer, unless it  *)
(* is told to stop or its sender gives up, the app does so as long as quick *)
(* save stays on, and `send` returns when its session ends.  No wake-up is  *)
(* lost between looking at the index and waiting for it to change.          *)
Unattended == mode \in {"receive", "once", "app"}

UnattendedSessionsProceed ==
    [](mode = "app" => quickSave) =>
        []<>(\/ outcome # "running"
             \/ /\ Unattended => \A id \in Ids : ~AwaitsDecision(sessions[id])
                /\ mode = "send" => sessions[Own].state \notin Terminal)

(* What the session actor publishes reaches its user in the end, by the     *)
(* screen that draws it or by the front end that acts for the user.         *)
FrontEndsCatchUp == CardsCatchUp /\ UnattendedSessionsProceed
=============================================================================
