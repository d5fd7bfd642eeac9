--------------------------- MODULE FrontEndProofs ---------------------------
(***************************************************************************)
(* Proofs about FrontEnd, for any sessions, files and queue capacity: what *)
(* a front end shows of an end is what the actor holds, and the focus of   *)
(* the terminal UI stays with its session.  An end reaches a card by two   *)
(* ways that overtake each other, the index and the event queue; the       *)
(* argument is that an end, wherever it is on its way, is the end of its   *)
(* session, because a session that ended never changes its state.          *)
(***************************************************************************)
EXTENDS FrontEnd, SessionManagerProofs, WellFoundedInduction

(* The last event of a session tells an end only if the session has it. *)
EventOK(s) ==
    /\ s.event.kind = "StateChanged" =>
          /\ s.event.to \in MissionState
          /\ s.event.to \in Terminal => s.state = s.event.to
    /\ s.event.kind = "Failed" => s.state = "Failed"

EventsInv == \A id \in Ids : EventOK(sessions[id])

(* So does every event that was forwarded and not applied. *)
QueueInv ==
    \A id \in Ids : \A i \in DOMAIN queue[id] :
        queue[id][i] \in Terminal => sessions[id].state = queue[id][i]

(* A card is that of a session, and of one the user has not cleared. *)
CardsInv ==
    \A id \in ToSet(cards) : sessions[id].state # "Absent" /\ id \notin hidden

(* The end that receive --once found. *)
FoundInv ==
    ended = "error" => \E id \in Ids : /\ sessions[id].direction = "Receive"
                                       /\ sessions[id].state \in {"Failed", "Canceled"}

FrontInv ==
    /\ IInv
    /\ FrontTypeOK
    /\ EventsInv
    /\ QueueInv
    /\ CardsInv
    /\ FoundInv
    /\ ReportedEndsHappened
-----------------------------------------------------------------------------
(* Lists of cards *)

Distinct(s) == \A i, j \in DOMAIN s : s[i] = s[j] => i = j

(* A set of natural numbers that is not empty has a least element. *)
LEMMA LeastNat ==
    ASSUME NEW N, N \subseteq Nat, N # {}
    PROVE  \E n \in N : \A k \in N : ~(k < n)
  <1> DEFINE R == OpToRel(<, Nat)
  <1> HIDE DEF R
  <1>1. PICK n \in N : \A k \in N : ~ (<<k, n>> \in R)
    BY NatLessThanWellFounded, WFMin DEF R
  <1>2. \A k \in N : ~(k < n)
    BY <1>1 DEF R, OpToRel
  <1> QED BY <1>2

(* An order of a finite set lists all of it, each element once. *)
LEMMA OrderFacts ==
    ASSUME NEW T, IsFiniteSet(T), NEW f \in SetToSeqs(T)
    PROVE  /\ f \in Seq(T) /\ DOMAIN f = 1..Cardinality(T) /\ Distinct(f)
           /\ ToSet(f) = T
  <1> DEFINE n == Cardinality(T)
  <1>1. n \in Nat
    BY FS_CardinalityType
  <1>2. f \in [1..n -> T] /\ \A i, j \in 1..n : i # j => f[i] # f[j]
    BY DEF SetToSeqs
  <1>3. f \in Seq(T) /\ DOMAIN f = 1..n
    BY <1>1, <1>2
  <1>4. IsFiniteSet(1..n) /\ Cardinality(1..n) = n
    BY <1>1, FS_Interval
  <1>5. ASSUME NEW x \in T, x \notin ToSet(f) PROVE FALSE
    <2>1. f \in [1..n -> T \ {x}]
      BY <1>2, <1>5 DEF ToSet
    <2>2. IsFiniteSet(T \ {x}) /\ Cardinality(T \ {x}) = n - 1
      BY <1>5, FS_RemoveElement
    <2>3. Cardinality(T \ {x}) < Cardinality(1..n)
      BY <1>1, <1>4, <2>2
    <2> DEFINE D == 1..n
               U == T \ {x}
    <2> HIDE DEF D, U
    <2>4. f \in [D -> U] /\ IsFiniteSet(D) /\ IsFiniteSet(U) /\ Cardinality(U) < Cardinality(D)
      BY <1>4, <2>1, <2>2, <2>3 DEF D, U
    <2>5. \E i, j \in D : i # j /\ f[i] = f[j]
      BY <2>4, FS_PigeonHole
    <2> QED BY <1>2, <2>5 DEF D
  <1>6. ToSet(f) = T
    BY <1>2, <1>5 DEF ToSet
  <1>7. Distinct(f)
    BY <1>2 DEF Distinct
  <1> QED BY <1>3, <1>6, <1>7

(* retain keeps what it should of a list and repeats nothing. *)
LEMMA RetainedFacts ==
    ASSUME NEW X, NEW s \in Seq(X), Distinct(s), NEW S, NEW t \in Retained(s, S)
    PROVE  t \in Seq(X) /\ Distinct(t) /\ ToSet(t) = ToSet(s) \cap S
  <1> DEFINE kept == {i \in DOMAIN s : s[i] \in S}
  <1>1. PICK e \in SetToSeqs(kept) : t = [i \in DOMAIN e |-> s[e[i]]]
    BY DEF Retained
  <1>2. DOMAIN s = 1..Len(s) /\ Len(s) \in Nat
    OBVIOUS
  <1>3. IsFiniteSet(kept)
    <2>1. IsFiniteSet(DOMAIN s)
      BY <1>2, FS_Interval
    <2>2. kept \in SUBSET DOMAIN s
      OBVIOUS
    <2> HIDE DEF kept
    <2> QED BY <2>1, <2>2, FS_Subset
  <1>4. /\ e \in Seq(kept) /\ DOMAIN e = 1..Cardinality(kept) /\ Distinct(e)
        /\ ToSet(e) = kept
    BY <1>1, <1>3, OrderFacts
  <1>5. Cardinality(kept) \in Nat
    BY <1>3, FS_CardinalityType
  <1>6. \A i \in DOMAIN e : e[i] \in kept
    BY <1>4 DEF ToSet
  <1>7. t \in [1..Cardinality(kept) -> X]
    BY <1>1, <1>2, <1>4, <1>6
  <1>8. t \in Seq(X)
    <2> HIDE DEF kept
    <2> QED BY <1>5, <1>7
  <1>9. Distinct(t)
    BY <1>1, <1>4, <1>6 DEF Distinct
  <1>10. ToSet(t) \subseteq ToSet(s) \cap S
    BY <1>1, <1>6 DEF ToSet
  <1>11. ASSUME NEW x \in ToSet(s) \cap S PROVE x \in ToSet(t)
    <2>1. PICK k \in kept : x = s[k]
      BY <1>11 DEF ToSet
    <2>2. PICK i \in DOMAIN e : e[i] = k
      BY <1>4 DEF ToSet
    <2> QED BY <1>1, <2>1, <2>2 DEF ToSet
  <1> QED BY <1>8, <1>9, <1>10, <1>11

(* A list of which nothing is dropped stays as it is. *)
LEMMA RetainedAll ==
    ASSUME NEW X, NEW s \in Seq(X), NEW S, ToSet(s) \subseteq S, NEW t \in Retained(s, S)
    PROVE  t = s
  <1> DEFINE n == Len(s)
  <1>1. n \in Nat /\ DOMAIN s = 1..n /\ {i \in DOMAIN s : s[i] \in S} = 1..n
    BY DEF ToSet
  <1>2. PICK e \in SetToSeqs(1..n) : /\ t = [i \in DOMAIN e |-> s[e[i]]]
                                     /\ \A i, j \in DOMAIN e : i < j => e[i] < e[j]
    BY <1>1 DEF Retained
  <1>3. IsFiniteSet(1..n) /\ Cardinality(1..n) = n
    BY <1>1, FS_Interval
  <1>4. DOMAIN e = 1..n /\ \A i \in 1..n : e[i] \in 1..n
    BY <1>2, <1>3, OrderFacts
  <1>5. \A i \in 1..n : e[i] >= i
    <2> DEFINE Low == {i \in 1..n : e[i] < i}
    <2>1. CASE Low # {}
      <3>1. Low \subseteq Nat
        BY <1>1
      <3>2. PICK i \in Low : \A k \in Low : ~(k < i)
        BY <2>1, <3>1, LeastNat
      <3>3. i \in 1..n /\ e[i] \in 1..n /\ e[i] < i /\ e[e[i]] \in 1..n
        BY <1>4, <3>2
      <3>4. e[e[i]] < e[i]
        BY <1>2, <1>4, <3>3
      <3>5. e[i] \in Low
        BY <3>3, <3>4
      <3> QED BY <1>1, <3>2, <3>3, <3>5
    <2>2. CASE Low = {}
      BY <1>1, <1>4, <2>2
    <2> QED BY <2>1, <2>2
  <1>6. \A i \in 1..n : e[i] <= i
    <2> DEFINE High == {i \in 1..n : e[i] > i}
               Gaps == {n - i : i \in High}
    <2>1. CASE High # {}
      <3>1. Gaps \subseteq Nat /\ Gaps # {}
        BY <1>1, <2>1
      <3>2. PICK g \in Gaps : \A k \in Gaps : ~(k < g)
        BY <3>1, LeastNat
      <3>3. PICK i \in High : g = n - i
        BY <3>2
      <3>4. i \in 1..n /\ e[i] \in 1..n /\ i < e[i] /\ e[e[i]] \in 1..n
        BY <1>1, <1>4, <3>3
      <3>5. e[i] < e[e[i]]
        BY <1>2, <1>4, <3>4
      <3>6. e[i] \in High
        BY <1>1, <3>4, <3>5
      <3>7. n - e[i] \in Gaps /\ n - e[i] < g
        BY <1>1, <3>3, <3>4, <3>6
      <3> QED BY <3>2, <3>7
    <2>2. CASE High = {}
      BY <1>1, <1>4, <2>2
    <2> QED BY <2>1, <2>2
  <1>7. \A i \in 1..n : e[i] = i
    BY <1>1, <1>4, <1>5, <1>6
  <1>8. t = [i \in 1..n |-> s[i]]
    BY <1>2, <1>4, <1>7
  <1>9. s = [i \in 1..n |-> s[i]]
    BY <1>1
  <1> QED BY <1>8, <1>9

(* There is always such a list: retain blocks no step.  Otherwise take the  *)
(* shortest beginning of s without one; it is not empty, and the list of    *)
(* the beginning before it, with its last element where that is kept, is    *)
(* one.                                                                     *)
LEMMA RetainedExists ==
    ASSUME NEW X, NEW s \in Seq(X), NEW S
    PROVE  Retained(s, S) # {}
  <1> DEFINE Kept(n) == {i \in 1..n : s[i] \in S}
             Orders(n) == {e \in SetToSeqs(Kept(n)) :
                              \A i, j \in DOMAIN e : i < j => e[i] < e[j]}
             Bad == {n \in 0..Len(s) : Orders(n) = {}}
  <1>1. Len(s) \in Nat /\ DOMAIN s = 1..Len(s)
    OBVIOUS
  <1>2. ASSUME NEW n \in Nat PROVE IsFiniteSet(Kept(n)) /\ Cardinality(Kept(n)) \in Nat
    <2>1. IsFiniteSet(1..n) /\ Kept(n) \in SUBSET (1..n)
      BY <1>2, FS_Interval
    <2> HIDE DEF Kept
    <2> QED BY <2>1, FS_Subset, FS_CardinalityType
  <1>3. 0 \notin Bad
    <2>1. Kept(0) = {} /\ Cardinality({}) = 0
      BY FS_EmptySet
    <2>2. <<>> \in SetToSeqs({})
      BY <2>1 DEF SetToSeqs
    <2> QED BY <2>1, <2>2
  <1>4. ASSUME NEW n \in Nat, n + 1 \in Bad PROVE n \in Bad
    <2>1. CASE s[n + 1] \notin S
      <3>1. Kept(n + 1) = Kept(n)
        BY <2>1
      <3> QED BY <1>1, <1>4, <3>1
    <2>2. CASE s[n + 1] \in S /\ n \notin Bad
      <3> DEFINE c == Cardinality(Kept(n))
      <3>0. n \in 0..Len(s) /\ Orders(n) # {}
        <4> HIDE DEF Orders
        <4> QED BY <1>1, <1>4, <2>2
      <3>1. PICK e \in SetToSeqs(Kept(n)) : \A i, j \in DOMAIN e : i < j => e[i] < e[j]
        <4> HIDE DEF Kept
        <4> QED BY <3>0
      <3>2. c \in Nat /\ DOMAIN e = 1..c /\ \A i \in 1..c : e[i] \in Kept(n)
        BY <1>2, <3>1, OrderFacts DEF SetToSeqs
      <3>3. Kept(n + 1) = Kept(n) \cup {n + 1} /\ n + 1 \notin Kept(n)
        BY <1>4, <2>2
      <3>4. Cardinality(Kept(n + 1)) = c + 1
        <4> HIDE DEF Kept
        <4> QED BY <1>2, <3>3, FS_AddElement
      <3>5. \A i \in 1..c : e[i] \in Nat /\ e[i] < n + 1
        BY <1>4, <3>2
      <3> DEFINE f == [i \in 1..(c + 1) |-> IF i <= c THEN e[i] ELSE n + 1]
      <3>6. f \in [1..(c + 1) -> Kept(n + 1)]
        BY <3>2, <3>3
      <3> HIDE DEF Kept, c
      <3>7. \A i, j \in 1..(c + 1) : i < j => f[i] < f[j]
        <4> SUFFICES ASSUME NEW i \in 1..(c + 1), NEW j \in 1..(c + 1), i < j
                     PROVE  f[i] < f[j]
          OBVIOUS
        <4>1. i \in 1..c /\ f[i] = e[i]
          BY <3>2
        <4>2. CASE j \in 1..c
          BY <3>1, <3>2, <4>1, <4>2
        <4>3. CASE j = c + 1
          BY <3>2, <3>5, <4>1, <4>3
        <4> QED BY <3>2, <4>2, <4>3
      <3>8. \A i \in 1..(c + 1) : f[i] \in Nat
        BY <1>4, <3>2, <3>5
      <3> HIDE DEF f
      <3>9. \A i, j \in 1..(c + 1) : i # j => f[i] # f[j]
        BY <3>2, <3>7, <3>8
      <3>10. f \in SetToSeqs(Kept(n + 1)) /\ DOMAIN f = 1..(c + 1)
        BY <3>4, <3>6, <3>9 DEF SetToSeqs
      <3> QED BY <1>4, <3>7, <3>10
    <2> QED BY <2>1, <2>2
  <1>5. Bad = {}
    <2>1. Bad \subseteq Nat
      BY <1>1
    <2> HIDE DEF Bad
    <2>2. CASE Bad # {}
      <3>1. PICK n \in Bad : \A k \in Bad : ~(k < n)
        BY <2>1, <2>2, LeastNat
      <3>2. n \in Nat /\ n # 0
        BY <1>3, <2>1, <3>1
      <3>3. n - 1 \in Nat /\ (n - 1) + 1 = n
        BY <3>2
      <3>4. n - 1 \in Bad
        BY <1>4, <3>1, <3>3
      <3> QED BY <3>1, <3>2, <3>4
    <2> QED BY <2>2
  <1>6. Orders(Len(s)) # {}
    <2> HIDE DEF Orders
    <2> QED BY <1>1, <1>5
  <1>7. PICK e \in SetToSeqs(Kept(Len(s))) : \A i, j \in DOMAIN e : i < j => e[i] < e[j]
    <2> HIDE DEF Kept
    <2> QED BY <1>6
  <1> QED BY <1>1, <1>7 DEF Retained
-----------------------------------------------------------------------------
(* What a message does to a session, as a front end can tell *)

Follows(s, t) ==
    /\ EventOK(s) => EventOK(t)
    /\ s.state # "Absent" => t.direction = s.direction /\ t.state # "Absent"
    /\ s.state \in Terminal => t.state = s.state

(* A helper that ends an active session, or moves it on, tells so. *)
LEMMA ActiveFollows ==
    ASSUME NEW s \in Session, IsActive(s), NEW t, t.direction = s.direction,
           t.state \in MissionState,
           \/ t.event = StateChanged(t.state)
           \/ t.event = FailedEvent /\ t.state = "Failed"
           \/ t.event.kind \in {"FileStateChanged", "Progress"}
    PROVE  Follows(s, t)
  <1>1. EventOK(t)
    BY DEF EventOK, StateChanged, FailedEvent, Terminal, MissionState
  <1>2. s.state \notin Terminal /\ t.state # "Absent"
    BY DEF IsActive, Terminal, MissionState
  <1> QED BY <1>1, <1>2 DEF Follows

LEMMA SameFollows ==
    ASSUME NEW s, NEW t, t.direction = s.direction, t.state = s.state,
           t.event = s.event \/ t.event.kind \in {"FileStateChanged", "Progress"}
    PROVE  Follows(s, t)
  BY DEF Follows, EventOK

LEMMA CancelFollows ==
    ASSUME NEW s \in Session
    PROVE  Follows(s, CancelSession(s)) /\ Follows(s, FailSession(s))
  <1>1. CASE IsActive(s)
    <2> DEFINE c == CancelSession(s)
               f == FailSession(s)
    <2>1. c.direction = s.direction /\ c.state = "Canceled" /\ c.event = StateChanged("Canceled")
      BY <1>1 DEF CancelSession, Session
    <2>2. f.direction = s.direction /\ f.state = "Failed" /\ f.event = FailedEvent
      BY <1>1 DEF FailSession, Session
    <2> HIDE DEF c, f
    <2>3. Follows(s, c) /\ Follows(s, f)
      BY <1>1, <2>1, <2>2, ActiveFollows DEF MissionState
    <2> QED BY <2>3 DEF c, f
  <1>2. CASE ~IsActive(s)
    BY <1>2, SameFollows DEF CancelSession, FailSession
  <1> QED BY <1>1, <1>2

LEMMA SetStateFollows ==
    ASSUME NEW s \in Session, NEW st \in MissionState
    PROVE  Follows(s, SetState(s, st))
  <1>1. CASE IsActive(s)
    <2> DEFINE t == SetState(s, st)
    <2>1. t.direction = s.direction /\ t.state = st /\ t.event = StateChanged(st)
      BY <1>1 DEF SetState, Session
    <2> HIDE DEF t
    <2>2. Follows(s, t)
      BY <1>1, <2>1, ActiveFollows
    <2> QED BY <2>2 DEF t
  <1>2. CASE ~IsActive(s)
    BY <1>2, SameFollows DEF SetState
  <1> QED BY <1>1, <1>2

(* check_finish at the end of a change that is not itself an end *)
LEMMA FinishFollows ==
    ASSUME NEW s \in Session, IsActive(s), NEW t \in Session, t.direction = s.direction,
           IsActive(t), \/ t.event = StateChanged(t.state)
                        \/ t.event.kind \in {"FileStateChanged", "Progress"}
                        \/ t.event = s.event /\ t.state = s.state
    PROVE  Follows(s, CheckFinish(t))
  <1> DEFINE c == CheckFinish(t)
  <1>1. CASE Complete(t)
    <2>1. c.direction = s.direction /\ c.state = "Finished" /\ c.event = StateChanged("Finished")
      BY <1>1 DEF CheckFinish, SetState, Session
    <2> HIDE DEF c
    <2>2. Follows(s, c)
      BY <2>1, ActiveFollows DEF MissionState
    <2> QED BY <2>2 DEF c
  <1>2. CASE ~Complete(t)
    <2>1. c = t
      BY <1>2 DEF CheckFinish
    <2>2. t.state \in MissionState
      BY DEF IsActive, MissionState
    <2>3. Follows(s, t)
      BY <2>2, ActiveFollows, SameFollows
    <2> QED BY <2>1, <2>3
  <1> QED BY <1>1, <1>2

LEMMA SetFileStateFollows ==
    ASSUME NEW s \in Session, NEW f \in Files, NEW st \in FileState
    PROVE  Follows(s, SetFileState(s, f, st))
  <1>1. CASE ~IsActive(s)
    BY <1>1, SameFollows DEF SetFileState
  <1>2. CASE IsActive(s)
    <2> DEFINE t == IF f \in Offered(s)
                    THEN [s EXCEPT !.files[f] = st, !.event = FileStateChanged(f, st)]
                    ELSE s
    <2>1. t \in Session
      BY DEF Session, Event, FileStateChanged
    <2>2. /\ t.direction = s.direction /\ t.state = s.state
          /\ t.event = s.event \/ t.event.kind = "FileStateChanged"
      BY DEF Session, FileStateChanged
    <2>3. IsActive(t)
      BY <1>2, <2>2 DEF IsActive
    <2>4. SetFileState(s, f, st) = IF st = "Fail" THEN FailSession(t) ELSE CheckFinish(t)
      BY <1>2 DEF SetFileState
    <2> HIDE DEF t
    <2>5. Follows(s, CheckFinish(t))
      BY <1>2, <2>1, <2>2, <2>3, FinishFollows
    <2>6. Follows(s, FailSession(t))
      <3> DEFINE c == FailSession(t)
      <3>1. c.direction = s.direction /\ c.state = "Failed" /\ c.event = FailedEvent
        BY <2>1, <2>2, <2>3 DEF FailSession, Session
      <3> HIDE DEF c
      <3>2. Follows(s, c)
        BY <1>2, <3>1, ActiveFollows DEF MissionState
      <3> QED BY <3>2 DEF c
    <2> QED BY <2>4, <2>5, <2>6
  <1> QED BY <1>1, <1>2

LEMMA AnswerFollows ==
    ASSUME NEW s \in Session, SessionInv(s), AwaitsDecision(s), NEW chosen \in SUBSET Files
    PROVE  /\ Follows(s, CheckFinish(Accepted(s, chosen)))
           /\ Follows(s, Declined(s))
  <1> DEFINE t == Accepted(s, chosen)
             d == Declined(s)
  <1>1. IsActive(s)
    BY DEF AwaitsDecision, IsActive
  <1>2. [f \in Files |-> IF f \in Offered(s) \ chosen THEN "Skip" ELSE s.files[f]]
          \in [Files -> FileState \cup {"Absent"}]
    BY DEF Session, FileState
  <1>3. t \in Session
    BY <1>2 DEF Accepted, Session, MissionState, Event, StateChanged, Answer, Decision, Offered
  <1>4. /\ t.direction = s.direction /\ t.state = "Transfering"
        /\ t.event = StateChanged("Transfering")
    BY DEF Accepted, Session
  <1>5. d.direction = s.direction /\ d.state = "Canceled" /\ d.event = StateChanged("Canceled")
    BY DEF Declined, Session
  <1> HIDE DEF t, d
  <1>6. Follows(s, CheckFinish(t))
    BY <1>1, <1>3, <1>4, FinishFollows DEF IsActive
  <1>7. Follows(s, d)
    BY <1>1, <1>5, ActiveFollows DEF MissionState
  <1> QED BY <1>6, <1>7 DEF t, d

LEMMA NewFollows ==
    ASSUME NEW s \in Session, s.state = "Absent", NEW dir \in Direction, NEW offered
    PROVE  Follows(s, NewSession(dir, offered))
  BY DEF Follows, NewSession, EventOK, StateChanged, Terminal, MissionState

(* Every message, for every session. *)
LEMMA NextFollows ==
    ASSUME IInv, [Next]_vars
    PROVE  \A i \in Ids : Follows(sessions[i], sessions'[i])
  <1>0. CASE UNCHANGED vars
    BY <1>0, SameFollows DEF vars
  <1>s. \A i \in Ids : sessions[i] \in Session /\ SessionInv(sessions[i])
    BY DEF IInv, TypeOK
  <1>u. ASSUME NEW id \in Ids, NEW t, sessions' = [sessions EXCEPT ![id] = t],
               Follows(sessions[id], t)
        PROVE  \A i \in Ids : Follows(sessions[i], sessions'[i])
    <2>1. \A i \in Ids : sessions'[i] = IF i = id THEN t ELSE sessions[i]
      BY <1>u DEF IInv, TypeOK
    <2> QED BY <1>u, <2>1, SameFollows
  <1>1. ASSUME NEW id \in Ids, NEW offered \in SUBSET Files,
               CreateRecvSession(id, offered) \/ CreateSendSession(id, offered)
        PROVE  \A i \in Ids : Follows(sessions[i], sessions'[i])
    BY <1>1, <1>s, <1>u, NewFollows DEF CreateRecvSession, CreateSendSession, Update, Direction
  <1>2. ASSUME NEW id \in Ids, NEW chosen \in SUBSET Files, Accept(id, chosen)
        PROVE  \A i \in Ids : Follows(sessions[i], sessions'[i])
    BY <1>2, <1>s, <1>u, AnswerFollows DEF Accept, Update
  <1>3. ASSUME NEW id \in Ids, Decline(id)
        PROVE  \A i \in Ids : Follows(sessions[i], sessions'[i])
    <2>1. Follows(sessions[id], Declined(sessions[id]))
      BY <1>3, <1>s, AnswerFollows DEF Decline
    <2> QED BY <1>3, <1>u, <2>1 DEF Decline, Update
  <1>4. ASSUME NEW id \in Ids, Cancel(id) \/ Fail(id)
        PROVE  \A i \in Ids : Follows(sessions[i], sessions'[i])
    BY <1>4, <1>s, <1>u, CancelFollows DEF Cancel, Fail, Update
  <1>5. ASSUME NEW id \in Ids, NEW t, sessions' = [sessions EXCEPT ![id] = t],
               t.direction = sessions[id].direction, t.state = sessions[id].state,
               t.event = sessions[id].event \/ t.event.kind \in {"FileStateChanged", "Progress"}
        PROVE  \A i \in Ids : Follows(sessions[i], sessions'[i])
    BY <1>5, <1>u, SameFollows
  <1>6. ASSUME NEW id \in Ids, MarkViaRelay(id)
        PROVE  \A i \in Ids : Follows(sessions[i], sessions'[i])
    <2> DEFINE t == [sessions[id] EXCEPT !.viaRelay = TRUE,
                                         !.route = IF @ = "local" THEN "turn" ELSE @]
    <2>1. t.direction = sessions[id].direction /\ t.state = sessions[id].state
          /\ t.event = sessions[id].event
      BY <1>s DEF Session
    <2>2. sessions' = [sessions EXCEPT ![id] = t]
      BY <1>6 DEF MarkViaRelay, Update
    <2> QED BY <1>5, <2>1, <2>2
  <1>7. ASSUME NEW id \in Ids, NEW route, MarkRoute(id, route)
        PROVE  \A i \in Ids : Follows(sessions[i], sessions'[i])
    <2> DEFINE t == [sessions[id] EXCEPT !.route = route]
    <2>1. t.direction = sessions[id].direction /\ t.state = sessions[id].state
          /\ t.event = sessions[id].event
      BY <1>s DEF Session
    <2>2. sessions' = [sessions EXCEPT ![id] = t]
      BY <1>7 DEF MarkRoute, Update
    <2> QED BY <1>5, <2>1, <2>2
  <1>8. ASSUME NEW id \in Ids, NEW f \in Files, StartFile(id, f)
        PROVE  \A i \in Ids : Follows(sessions[i], sessions'[i])
    <2> DEFINE t == Started(sessions[id], f)
    <2>1. t.direction = sessions[id].direction /\ t.state = sessions[id].state
          /\ t.event.kind = "FileStateChanged"
      BY <1>s DEF Started, Session, FileStateChanged
    <2>2. sessions' = [sessions EXCEPT ![id] = t]
      BY <1>8 DEF StartFile, Update
    <2> QED BY <1>5, <2>1, <2>2
  <1>9. ASSUME NEW id \in Ids, NEW f \in Files, ReportProgress(id, f)
        PROVE  \A i \in Ids : Follows(sessions[i], sessions'[i])
    <2> DEFINE t == [sessions[id] EXCEPT !.event = Progress(f)]
    <2>1. t.direction = sessions[id].direction /\ t.state = sessions[id].state
          /\ t.event.kind = "Progress"
      BY <1>s DEF Session, Progress
    <2>2. sessions' = [sessions EXCEPT ![id] = t]
      BY <1>9 DEF ReportProgress, IInv, TypeOK
    <2> QED BY <1>5, <2>1, <2>2
  <1>10. ASSUME NEW id \in Ids, NEW f \in Files, NEW st \in FileState, FinishFile(id, f, st)
         PROVE  \A i \in Ids : Follows(sessions[i], sessions'[i])
    BY <1>10, <1>s, <1>u, SetFileStateFollows DEF FinishFile, Update
  <1>11. ASSUME NEW id \in Ids, NEW f \in Files, NEW st \in FileState,
                ReportFileState(id, f, st)
         PROVE  \A i \in Ids : Follows(sessions[i], sessions'[i])
    <2> DEFINE u == SetFileState(sessions[id], f, st)
               t == [u EXCEPT !.started = IF st = "Transfer" THEN @ \cup {f} ELSE @]
    <2>1. u \in Session
      BY <1>11, <1>s, SetFileStateInv DEF ReportFileState
    <2>2. t.direction = u.direction /\ t.state = u.state /\ t.event = u.event
      BY <2>1 DEF Session
    <2>3. Follows(sessions[id], u)
      BY <1>s, SetFileStateFollows
    <2>4. sessions' = [sessions EXCEPT ![id] = t]
      BY <1>11 DEF ReportFileState, Update
    <2> HIDE DEF u, t
    <2>5. Follows(sessions[id], t)
      BY <2>2, <2>3 DEF Follows, EventOK
    <2> QED BY <1>u, <2>4, <2>5
  <1>12. ASSUME NEW id \in Ids, ReportState(id)
         PROVE  \A i \in Ids : Follows(sessions[i], sessions'[i])
    <2>1. Follows(sessions[id], SetState(sessions[id], "Transfering"))
      BY <1>s, SetStateFollows DEF MissionState
    <2> QED BY <1>12, <1>u, <2>1 DEF ReportState, Update
  <1> QED BY <1>0, <1>1, <1>2, <1>3, <1>4, <1>6, <1>7, <1>8, <1>9, <1>10, <1>11, <1>12
          DEF Next
-----------------------------------------------------------------------------
(* The steps of the front ends, as the actor sees them *)

(* What a message does that a front end, a peer or a driver sends. *)
Message ==
    /\ [Next]_vars
    /\ Publish
    /\ UNCHANGED <<ui, step, ended, quickSave>>
    /\ todo' \subseteq todo

LEMMA FocusedCard ==
    ASSUME FrontTypeOK, cards # <<>>
    PROVE  focus \in DOMAIN cards /\ cards[focus] \in Ids
  BY DEF FrontTypeOK

LEMMA MessagesAreMessages ==
    ASSUME FrontTypeOK,
           \/ CoreStep \/ KeyOnFocused \/ SendKey \/ StartSend
           \/ \E id \in Ids : AcceptPending(id) \/ AppAnswers(id)
    PROVE  Message
  <1>1. CASE CoreStep
    <2>1. Next
      BY <1>1, ContentsAssumption DEF CoreStep, Next
    <2> QED BY <1>1, <2>1 DEF CoreStep, Message, loop
  <1>2. CASE KeyOnFocused
    <2> DEFINE id == cards[focus]
    <2>1. id \in Ids
      BY <1>2, FocusedCard DEF KeyOnFocused
    <2>2. Accept(id, Files) \/ Decline(id) \/ Cancel(id)
      BY <1>2 DEF KeyOnFocused, AnswerAs
    <2> HIDE DEF id
    <2>3. Next
      BY <2>1, <2>2 DEF Next
    <2> QED BY <1>2, <2>3 DEF KeyOnFocused, Message, loop
  <1>3. CASE SendKey
    <2>1. Next
      BY <1>3, ContentsAssumption DEF SendKey, Next
    <2> QED BY <1>3, <2>1 DEF SendKey, Message, loop
  <1>4. CASE StartSend
    <2>1. Next
      BY <1>4, ContentsAssumption, OwnAssumption DEF StartSend, Next
    <2> QED BY <1>4, <2>1 DEF StartSend, Message, loop
  <1>5. ASSUME NEW id \in Ids, AcceptPending(id) PROVE Message
    <2>1. [Next]_vars
      BY <1>5 DEF AcceptPending, Next
    <2> QED BY <1>5, <2>1 DEF AcceptPending, Message
  <1>6. ASSUME NEW id \in Ids, AppAnswers(id) PROVE Message
    <2>1. Next
      BY <1>6 DEF AppAnswers, Next
    <2> QED BY <1>6, <2>1 DEF AppAnswers, Message, loop
  <1> QED BY <1>1, <1>2, <1>3, <1>4, <1>5, <1>6

(* Front ends, peers and drivers do nothing to a session but what the       *)
(* session actor lets them.                                                 *)
LEMMA FrontStepIsAStep ==
    ASSUME FrontTypeOK, [FrontNext]_frontVars
    PROVE  [Next]_vars
  <1>1. CASE UNCHANGED frontVars
    BY <1>1 DEF frontVars
  <1>2. CASE \/ CoreStep \/ KeyOnFocused \/ SendKey \/ StartSend
             \/ \E id \in Ids : AcceptPending(id) \/ AppAnswers(id)
    BY <1>2, MessagesAreMessages DEF Message
  <1>3. CASE ApplyIndex \/ ClearTerminal \/ Quit
    BY <1>3 DEF ApplyIndex, ClearTerminal, Quit
  <1>4. ASSUME NEW id \in Ids, Forward(id) \/ ApplyEvent(id) PROVE [Next]_vars
    BY <1>4 DEF Forward, ApplyEvent
  <1>5. ASSUME NEW delta \in {-1, 1}, CycleFocus(delta) PROVE [Next]_vars
    BY <1>5 DEF CycleFocus
  <1>6. CASE Look \/ AfterAccepting \/ Wait \/ LookAtOwn \/ WaitForOwn \/ Interrupt
    BY <1>6 DEF Look, AfterAccepting, Wait, LookAtOwn, WaitForOwn, Interrupt
  <1>7. CASE AutoAccept \/ \E value \in BOOLEAN : SetQuickSave(value)
    BY <1>7 DEF AutoAccept, SetQuickSave
  <1> QED BY <1>1, <1>2, <1>3, <1>4, <1>5, <1>6, <1>7
          DEF FrontNext, TuiStep, HeadlessStep
-----------------------------------------------------------------------------
(* The invariant *)

(* A message leaves the reader's side alone, and every end that is on its   *)
(* way stays true.                                                          *)
LEMMA MessageInv ==
    ASSUME FrontInv, Message
    PROVE  FrontInv'
  <1>1. IInv'
    BY NextInv DEF FrontInv, Message
  <1>2. \A i \in Ids : Follows(sessions[i], sessions'[i])
    BY NextFollows DEF FrontInv, Message
  <1>3. /\ UNCHANGED <<mode, outcome, forwarder, queue, cards, shown, focus, hidden>>
        /\ UNCHANGED <<step, ended, quickSave>> /\ todo' \subseteq todo
    BY DEF Message, Publish, ui
  <1>4. fresh' \in [Ids -> BOOLEAN] /\ news' \in BOOLEAN
    BY DEF Message, Publish, FrontInv, FrontTypeOK
  <1>5. FrontTypeOK'
    BY <1>3, <1>4 DEF FrontInv, FrontTypeOK
  <1>6. EventsInv'
    BY <1>2 DEF FrontInv, EventsInv, Follows
  <1>7. \A i \in Ids : sessions[i].state \in Terminal => sessions'[i].state = sessions[i].state
    BY <1>2 DEF Follows
  <1>8. QueueInv'
    BY <1>3, <1>7 DEF FrontInv, QueueInv
  <1>9. ToSet(cards) \subseteq Ids /\ hidden \subseteq Ids
    BY DEF FrontInv, FrontTypeOK, ToSet
  <1>10. CardsInv'
    BY <1>2, <1>3, <1>9 DEF FrontInv, CardsInv, Follows
  <1>11. ASSUME NEW i \in Ids, sessions[i].direction = "Receive",
                sessions[i].state \in {"Failed", "Canceled"}
         PROVE  \E k \in Ids : /\ sessions'[k].direction = "Receive"
                               /\ sessions'[k].state \in {"Failed", "Canceled"}
    BY <1>2, <1>11 DEF Follows, Terminal
  <1>12. FoundInv'
    BY <1>3, <1>11 DEF FrontInv, FoundInv
  <1>13. ReportedEndsHappened'
    <2>1. \A id \in ToSet(cards) : shown[id] \in Terminal => sessions'[id].state = shown[id]
      BY <1>7, <1>9 DEF FrontInv, ReportedEndsHappened
    <2>2. \A id \in hidden : sessions'[id].state \in Terminal /\ id \notin ToSet(cards)
      BY <1>7, <1>9 DEF FrontInv, ReportedEndsHappened
    <2>3. /\ (mode = "send" /\ outcome = "ok") => sessions'[Own].state = "Finished"
          /\ (mode = "send" /\ outcome = "error") => sessions'[Own].state \in {"Failed", "Canceled"}
      BY <1>7, OwnAssumption DEF FrontInv, ReportedEndsHappened, Terminal
    <2>4. (mode = "once" /\ outcome = "error") =>
             \E k \in Ids : /\ sessions'[k].direction = "Receive"
                            /\ sessions'[k].state \in {"Failed", "Canceled"}
      BY <1>11 DEF FrontInv, ReportedEndsHappened
    <2> QED BY <1>3, <2>1, <2>2, <2>3, <2>4 DEF ReportedEndsHappened
  <1> QED BY <1>1, <1>5, <1>6, <1>8, <1>10, <1>12, <1>13 DEF FrontInv

(* A step that only reads leaves the actor's part of the invariant alone. *)
LEMMA ReadInv ==
    ASSUME FrontInv, UNCHANGED vars
    PROVE  IInv' /\ EventsInv' /\ \A id \in Ids : index[id].state = sessions[id].state
  <1>1. IInv'
    BY NextInv DEF FrontInv
  <1>2. EventsInv'
    BY DEF FrontInv, EventsInv, vars
  <1>3. \A id \in Ids : index[id].state = sessions[id].state
    BY DEF FrontInv, IInv, IndexIsCurrent, Summaries, Summary
  <1> QED BY <1>1, <1>2, <1>3

(* The new list of cards is the old one with the new sessions at its end:   *)
(* the index never loses a session, so retain drops nothing here.           *)
LEMMA IndexAppends ==
    ASSUME FrontInv, ApplyIndex
    PROVE  /\ cards' \in Seq(Ids) /\ Distinct(cards') /\ ToSet(cards') = Listed \ hidden
           /\ Len(cards) <= Len(cards') /\ \A i \in DOMAIN cards : cards'[i] = cards[i]
  <1> DEFINE T == Listed \ (ToSet(cards) \cup hidden)
  <1>1. PICK new \in SetToSeqs(T) : cards' \in Retained(cards \o new, Listed \ hidden)
    BY DEF ApplyIndex
  <1>2. IsFiniteSet(T)
    BY IdsAssumption, FS_Subset DEF Listed
  <1>3. new \in Seq(T) /\ Distinct(new) /\ ToSet(new) = T
    BY <1>1, <1>2, OrderFacts
  <1>4. T \subseteq Ids
    BY DEF Listed
  <1>5. new \in Seq(Ids)
    <2> HIDE DEF T
    <2> QED BY <1>3, <1>4
  <1>6. cards \in Seq(Ids) /\ Distinct(cards)
    BY DEF FrontInv, FrontTypeOK, Distinct
  <1>7. ToSet(cards) \subseteq Listed \ hidden
    <2>1. UNCHANGED vars
      BY DEF ApplyIndex
    <2>2. ToSet(cards) \subseteq Ids
      BY <1>6 DEF ToSet
    <2> QED BY <2>1, <2>2, ReadInv DEF FrontInv, CardsInv, Listed
  <1> DEFINE s == cards \o new
  <1> HIDE DEF T
  <1>8. /\ s \in Seq(Ids) /\ Len(s) = Len(cards) + Len(new)
        /\ \A i \in 1..Len(s) : s[i] = IF i <= Len(cards) THEN cards[i] ELSE new[i - Len(cards)]
    BY <1>5, <1>6
  <1>9. Len(cards) \in Nat /\ Len(new) \in Nat /\ Len(s) \in Nat
        /\ DOMAIN cards = 1..Len(cards) /\ DOMAIN new = 1..Len(new) /\ DOMAIN s = 1..Len(s)
    BY <1>5, <1>6, <1>8
  <1> HIDE DEF s
  <1>10. ToSet(s) = ToSet(cards) \cup ToSet(new)
    <2>1. ASSUME NEW i \in DOMAIN cards PROVE cards[i] \in ToSet(s)
      <3>1. i \in DOMAIN s /\ s[i] = cards[i]
        BY <1>8, <1>9
      <3> QED BY <3>1 DEF ToSet
    <2>2. ASSUME NEW i \in DOMAIN new PROVE new[i] \in ToSet(s)
      <3>1. Len(cards) + i \in DOMAIN s /\ s[Len(cards) + i] = new[i]
        BY <1>8, <1>9
      <3> QED BY <3>1 DEF ToSet
    <2>3. ASSUME NEW i \in DOMAIN s PROVE s[i] \in ToSet(cards) \cup ToSet(new)
      <3>1. CASE i <= Len(cards)
        BY <1>8, <1>9, <3>1 DEF ToSet
      <3>2. CASE ~(i <= Len(cards))
        <4>1. i - Len(cards) \in DOMAIN new /\ s[i] = new[i - Len(cards)]
          BY <1>8, <1>9, <3>2
        <4> QED BY <4>1 DEF ToSet
      <3> QED BY <3>1, <3>2
    <2> QED BY <2>1, <2>2, <2>3 DEF ToSet
  <1>11. ToSet(s) = Listed \ hidden
    BY <1>3, <1>7, <1>10 DEF T
  <1>12. cards' = s
    BY <1>1, <1>8, <1>11, RetainedAll DEF s
  <1>13. Distinct(s)
    <2> SUFFICES ASSUME NEW i \in DOMAIN s, NEW j \in DOMAIN s, s[i] = s[j] PROVE i = j
      BY DEF Distinct
    <2>1. ToSet(cards) \cap ToSet(new) = {}
      BY <1>3 DEF T
    <2>2. \A k \in DOMAIN s : \/ k \in DOMAIN cards /\ s[k] = cards[k]
                              \/ k - Len(cards) \in DOMAIN new /\ s[k] = new[k - Len(cards)]
      BY <1>8, <1>9
    <2>3. \A k \in DOMAIN cards : cards[k] \in ToSet(cards)
      BY DEF ToSet
    <2>4. \A k \in DOMAIN new : new[k] \in ToSet(new)
      BY DEF ToSet
    <2>5. CASE i \in DOMAIN cards /\ s[i] = cards[i] /\ j \in DOMAIN cards /\ s[j] = cards[j]
      BY <1>6, <2>5 DEF Distinct
    <2>6. CASE /\ i - Len(cards) \in DOMAIN new /\ s[i] = new[i - Len(cards)]
               /\ j - Len(cards) \in DOMAIN new /\ s[j] = new[j - Len(cards)]
      <3>1. i - Len(cards) = j - Len(cards)
        BY <1>3, <2>6 DEF Distinct
      <3> QED BY <1>9, <3>1
    <2> QED BY <2>1, <2>2, <2>3, <2>4, <2>5, <2>6
  <1>14. Len(cards) <= Len(s) /\ \A i \in DOMAIN cards : s[i] = cards[i]
    BY <1>8, <1>9
  <1> QED BY <1>8, <1>11, <1>12, <1>13, <1>14

LEMMA ClampFacts ==
    ASSUME NEW c \in Seq(Ids), NEW i \in Nat \ {0}
    PROVE  Clamp(i, c) \in 1..(IF c = <<>> THEN 1 ELSE Len(c))
  <1>1. Len(c) \in Nat /\ (Len(c) = 0 <=> c = <<>>)
    OBVIOUS
  <1> QED BY <1>1 DEF Clamp

LEMMA FocusIsPositive == FrontTypeOK => focus \in Nat \ {0}
  <1> SUFFICES ASSUME FrontTypeOK PROVE focus \in Nat \ {0}
    OBVIOUS
  <1>1. Len(cards) \in Nat /\ focus \in 1..(IF cards = <<>> THEN 1 ELSE Len(cards))
    BY DEF FrontTypeOK
  <1> QED BY <1>1

LEMMA ApplyIndexInv ==
    ASSUME FrontInv, ApplyIndex
    PROVE  FrontInv'
  <1>1. UNCHANGED vars
    BY DEF ApplyIndex
  <1>2. IInv' /\ EventsInv' /\ \A id \in Ids : index[id].state = sessions[id].state
    BY <1>1, ReadInv
  <1>3. cards' \in Seq(Ids) /\ Distinct(cards') /\ ToSet(cards') = Listed \ hidden
    BY IndexAppends
  <1>4. /\ UNCHANGED <<mode, queue, hidden, step, todo, ended, quickSave, outcome>>
        /\ UNCHANGED sessions /\ news' = FALSE
    BY DEF ApplyIndex, loop, vars
  <1>5. shown' = [id \in Ids |-> IF id \in Listed \ hidden THEN index[id].state ELSE shown[id]]
    BY DEF ApplyIndex
  <1>6. ToSet(cards) \subseteq Listed \ hidden
    <2>1. ToSet(cards) \subseteq Ids
      BY DEF FrontInv, FrontTypeOK, ToSet
    <2> QED BY <1>2, <2>1 DEF FrontInv, CardsInv, Listed
  <1>7. \A id \in Ids : sessions[id].state \in MissionState \cup {"Absent"}
    BY DEF FrontInv, IInv, TypeOK, Session
  <1>8. shown' \in [Ids -> MissionState \cup {"Absent"}]
    BY <1>2, <1>5, <1>7 DEF FrontInv, FrontTypeOK
  <1>9. \A id \in Ids : shown'[id] = "Absent" <=> id \notin ToSet(cards')
    BY <1>3, <1>5, <1>6 DEF FrontInv, FrontTypeOK, Listed
  <1>10. focus' \in 1..(IF cards' = <<>> THEN 1 ELSE Len(cards'))
    BY <1>3, ClampFacts, FocusIsPositive DEF ApplyIndex, FrontInv
  <1>11. forwarder' \in [Ids -> {"none", "first", "on"}] /\ fresh' \in [Ids -> BOOLEAN]
    <2>1. forwarder' = [id \in Ids |-> IF id \in Listed /\ forwarder[id] = "none"
                                       THEN "first" ELSE forwarder[id]]
      BY DEF ApplyIndex
    <2>2. fresh' = fresh
      BY DEF ApplyIndex
    <2> QED BY <2>1, <2>2 DEF FrontInv, FrontTypeOK
  <1>12. FrontTypeOK'
    BY <1>3, <1>4, <1>8, <1>9, <1>10, <1>11 DEF FrontInv, FrontTypeOK, Distinct
  <1>13. QueueInv' /\ FoundInv'
    BY <1>4 DEF FrontInv, QueueInv, FoundInv
  <1>14. CardsInv'
    BY <1>2, <1>3, <1>4 DEF CardsInv, Listed
  <1>15. ReportedEndsHappened'
    <2>1. \A id \in ToSet(cards') : shown'[id] = sessions[id].state
      BY <1>2, <1>3, <1>5 DEF Listed
    <2> QED BY <1>3, <1>4, <2>1 DEF FrontInv, ReportedEndsHappened
  <1> QED BY <1>2, <1>12, <1>13, <1>14, <1>15 DEF FrontInv

(* What a forwarder writes into the queue is the end of its session if it   *)
(* is an end at all.                                                        *)
LEMMA EffectFacts ==
    ASSUME NEW s, EventOK(s)
    PROVE  /\ Effect(s.event) \in Seq(MissionState) /\ Len(Effect(s.event)) \in {0, 1}
           /\ \A i \in DOMAIN Effect(s.event) :
                 Effect(s.event)[i] \in Terminal => s.state = Effect(s.event)[i]
  <1>1. CASE s.event.kind = "StateChanged"
    <2>1. Effect(s.event) = <<s.event.to>> /\ s.event.to \in MissionState
      BY <1>1 DEF Effect, EventOK
    <2> QED BY <1>1, <2>1 DEF EventOK
  <1>2. CASE s.event.kind = "Failed"
    <2>1. Effect(s.event) = <<"Failed">> /\ s.state = "Failed"
      BY <1>2 DEF Effect, EventOK
    <2> QED BY <2>1 DEF MissionState
  <1>3. CASE s.event.kind \notin {"StateChanged", "Failed"}
    <2>1. Effect(s.event) = <<>>
      BY <1>3 DEF Effect
    <2> QED BY <2>1
  <1> QED BY <1>1, <1>2, <1>3

LEMMA ForwardInv ==
    ASSUME FrontInv, NEW id \in Ids, Forward(id)
    PROVE  FrontInv'
  <1>1. UNCHANGED vars
    BY DEF Forward
  <1>2. IInv' /\ EventsInv'
    BY <1>1, ReadInv
  <1>3. /\ UNCHANGED <<mode, news, cards, shown, focus, hidden, step, todo, ended>>
        /\ UNCHANGED <<quickSave, outcome, sessions>>
    BY DEF Forward, loop, vars
  <1>4. forwarder' \in [Ids -> {"none", "first", "on"}] /\ fresh' \in [Ids -> BOOLEAN]
    BY DEF Forward, FrontInv, FrontTypeOK
  <1> DEFINE e == Effect(sessions[id].event)
  <1>5. /\ e \in Seq(MissionState) /\ Len(e) \in {0, 1}
        /\ \A i \in DOMAIN e : e[i] \in Terminal => sessions[id].state = e[i]
    BY EffectFacts DEF FrontInv, EventsInv
  <1>6. queue' = [queue EXCEPT ![id] = @ \o e]
    BY DEF Forward
  <1> HIDE DEF e
  <1>7. queue \in [Ids -> Seq(MissionState)] /\ queue[id] \in Seq(MissionState)
        /\ Len(queue[id]) < QueueCap
    BY DEF Forward, FrontInv, FrontTypeOK
  <1> DEFINE q == queue[id] \o e
  <1>8. /\ q \in Seq(MissionState) /\ Len(q) = Len(queue[id]) + Len(e) /\ DOMAIN q = 1..Len(q)
        /\ \A i \in DOMAIN q : q[i] = IF i <= Len(queue[id]) THEN queue[id][i]
                                                             ELSE e[i - Len(queue[id])]
    BY <1>5, <1>7
  <1>9. queue' = [queue EXCEPT ![id] = q]
    BY <1>6
  <1> HIDE DEF q
  <1>10. Len(q) <= QueueCap
    BY <1>5, <1>7, <1>8, QueueCapAssumption
  <1>11. FrontTypeOK'
    BY <1>3, <1>4, <1>7, <1>8, <1>9, <1>10 DEF FrontInv, FrontTypeOK
  <1>12. ASSUME NEW i \in DOMAIN q, q[i] \in Terminal PROVE sessions[id].state = q[i]
    <2>1. CASE i <= Len(queue[id])
      <3>1. i \in DOMAIN queue[id]
        BY <1>7, <1>8, <2>1
      <3> QED BY <1>8, <1>12, <2>1, <3>1 DEF FrontInv, QueueInv
    <2>2. CASE ~(i <= Len(queue[id]))
      <3>1. i - Len(queue[id]) \in DOMAIN e
        BY <1>5, <1>7, <1>8, <2>2
      <3> QED BY <1>5, <1>8, <1>12, <2>2, <3>1
    <2> QED BY <2>1, <2>2
  <1>13. QueueInv'
    BY <1>3, <1>7, <1>9, <1>12 DEF FrontInv, QueueInv
  <1>14. CardsInv' /\ FoundInv' /\ ReportedEndsHappened'
    BY <1>3 DEF FrontInv, CardsInv, FoundInv, ReportedEndsHappened
  <1> QED BY <1>2, <1>11, <1>13, <1>14 DEF FrontInv

LEMMA ApplyEventInv ==
    ASSUME FrontInv, NEW id \in Ids, ApplyEvent(id)
    PROVE  FrontInv'
  <1>1. UNCHANGED vars
    BY DEF ApplyEvent
  <1>2. IInv' /\ EventsInv'
    BY <1>1, ReadInv
  <1>3. /\ UNCHANGED <<mode, news, fresh, forwarder, cards, focus, hidden, step, todo, ended>>
        /\ UNCHANGED <<quickSave, outcome, sessions>>
    BY DEF ApplyEvent, loop, channels, vars
  <1> DEFINE q == queue[id]
  <1>4. queue \in [Ids -> Seq(MissionState)] /\ q \in Seq(MissionState) /\ q # <<>>
        /\ Len(q) <= QueueCap
    BY DEF ApplyEvent, FrontInv, FrontTypeOK
  <1>5. queue' = [queue EXCEPT ![id] = Tail(q)]
    BY DEF ApplyEvent
  <1>6. \A i \in DOMAIN q : q[i] \in Terminal => sessions[id].state = q[i]
    BY DEF FrontInv, QueueInv
  <1>7. shown' = [shown EXCEPT ![id] = IF shown[id] = "Absent" THEN "Absent" ELSE Head(q)]
    BY DEF ApplyEvent
  <1> HIDE DEF q
  <1>8. Head(q) \in MissionState /\ Head(q) = q[1] /\ 1 \in DOMAIN q
    BY <1>4
  <1>9. /\ Tail(q) \in Seq(MissionState) /\ Len(Tail(q)) <= QueueCap
        /\ \A i \in DOMAIN Tail(q) : i + 1 \in DOMAIN q /\ Tail(q)[i] = q[i + 1]
    BY <1>4, QueueCapAssumption
  <1>10. Head(q) # "Absent"
    BY <1>8 DEF MissionState
  <1>11. shown \in [Ids -> MissionState \cup {"Absent"}]
    BY DEF FrontInv, FrontTypeOK
  <1>12. /\ shown' \in [Ids -> MissionState \cup {"Absent"}]
         /\ \A i \in Ids : shown'[i] = "Absent" <=> shown[i] = "Absent"
    BY <1>7, <1>8, <1>10, <1>11
  <1>13. queue' \in [Ids -> Seq(MissionState)] /\ \A i \in Ids : Len(queue'[i]) <= QueueCap
    BY <1>4, <1>5, <1>9 DEF FrontInv, FrontTypeOK
  <1>14. FrontTypeOK'
    BY <1>3, <1>12, <1>13 DEF FrontInv, FrontTypeOK
  <1>15. QueueInv'
    BY <1>3, <1>4, <1>5, <1>6, <1>9 DEF FrontInv, QueueInv
  <1>16. CardsInv' /\ FoundInv'
    BY <1>3 DEF FrontInv, CardsInv, FoundInv
  <1>17. \A i \in ToSet(cards) : shown'[i] \in Terminal => sessions[i].state = shown'[i]
    <2>1. ToSet(cards) \subseteq Ids /\ "Absent" \notin Terminal
      BY DEF FrontInv, FrontTypeOK, ToSet, Terminal
    <2> QED BY <1>6, <1>7, <1>8, <1>11, <2>1 DEF FrontInv, ReportedEndsHappened
  <1>18. ReportedEndsHappened'
    BY <1>3, <1>17 DEF FrontInv, ReportedEndsHappened
  <1> QED BY <1>2, <1>14, <1>15, <1>16, <1>18 DEF FrontInv

LEMMA CycleFocusInv ==
    ASSUME FrontInv, NEW delta \in {-1, 1}, CycleFocus(delta)
    PROVE  FrontInv'
  <1>1. UNCHANGED vars
    BY DEF CycleFocus
  <1>2. IInv' /\ EventsInv'
    BY <1>1, ReadInv
  <1>3. /\ UNCHANGED <<mode, news, fresh, forwarder, queue, cards, shown, hidden>>
        /\ UNCHANGED <<step, todo, ended, quickSave, outcome, sessions>>
    BY DEF CycleFocus, loop, channels, vars
  <1>4. focus' \in 1..(IF cards = <<>> THEN 1 ELSE Len(cards))
    <2>1. cards \in Seq(Ids) /\ Len(cards) \in Nat /\ (Len(cards) = 0 <=> cards = <<>>)
      BY DEF FrontInv, FrontTypeOK
    <2>2. focus \in Nat
      BY FocusIsPositive DEF FrontInv
    <2>3. focus' = IF cards = <<>> THEN 1 ELSE ((focus - 1 + delta) % Len(cards)) + 1
      BY DEF CycleFocus
    <2>4. CASE cards # <<>>
      <3>1. Len(cards) \in Nat \ {0} /\ focus - 1 + delta \in Int
        BY <2>1, <2>2, <2>4
      <3>2. (focus - 1 + delta) % Len(cards) \in 0..(Len(cards) - 1)
        BY <3>1
      <3> QED BY <2>1, <2>3, <2>4, <3>2
    <2> QED BY <2>3, <2>4
  <1>5. FrontTypeOK'
    BY <1>3, <1>4 DEF FrontInv, FrontTypeOK
  <1>6. QueueInv' /\ CardsInv' /\ FoundInv' /\ ReportedEndsHappened'
    BY <1>3 DEF FrontInv, QueueInv, CardsInv, FoundInv, ReportedEndsHappened
  <1> QED BY <1>2, <1>5, <1>6 DEF FrontInv

LEMMA ClearTerminalInv ==
    ASSUME FrontInv, ClearTerminal
    PROVE  FrontInv'
  <1>1. UNCHANGED vars
    BY DEF ClearTerminal
  <1>2. IInv' /\ EventsInv'
    BY <1>1, ReadInv
  <1>3. /\ UNCHANGED <<mode, news, fresh, forwarder, queue>>
        /\ UNCHANGED <<step, todo, ended, quickSave, outcome, sessions>>
    BY DEF ClearTerminal, loop, channels, vars
  <1>4. hidden' = hidden \cup {id \in ToSet(cards) : shown[id] \in Terminal}
    BY DEF ClearTerminal
  <1>5. cards \in Seq(Ids) /\ Distinct(cards) /\ ToSet(cards) \subseteq Ids
    BY DEF FrontInv, FrontTypeOK, Distinct, ToSet
  <1>6. cards' \in Retained(cards, Ids \ hidden')
    BY DEF ClearTerminal
  <1>7. cards' \in Seq(Ids) /\ Distinct(cards') /\ ToSet(cards') = ToSet(cards) \ hidden'
    <2>1. /\ cards' \in Seq(Ids) /\ Distinct(cards')
          /\ ToSet(cards') = ToSet(cards) \cap (Ids \ hidden')
      BY <1>5, <1>6, RetainedFacts
    <2> QED BY <1>5, <2>1
  <1>8. shown' = [id \in Ids |-> IF id \in hidden' THEN "Absent" ELSE shown[id]]
    BY DEF ClearTerminal
  <1>9. hidden \subseteq Ids /\ hidden' \subseteq Ids
    BY <1>4, <1>5 DEF FrontInv, FrontTypeOK
  <1>10. /\ shown' \in [Ids -> MissionState \cup {"Absent"}]
         /\ \A id \in Ids : shown'[id] = "Absent" <=> id \notin ToSet(cards')
    BY <1>7, <1>8 DEF FrontInv, FrontTypeOK
  <1>11. focus' \in 1..(IF cards' = <<>> THEN 1 ELSE Len(cards'))
    BY <1>7, ClampFacts, FocusIsPositive DEF ClearTerminal, FrontInv
  <1>12. FrontTypeOK'
    BY <1>3, <1>7, <1>9, <1>10, <1>11 DEF FrontInv, FrontTypeOK, Distinct
  <1>13. QueueInv' /\ FoundInv'
    BY <1>3 DEF FrontInv, QueueInv, FoundInv
  <1>14. CardsInv'
    BY <1>3, <1>7 DEF FrontInv, CardsInv
  <1>15. \A id \in ToSet(cards') : shown'[id] \in Terminal => sessions[id].state = shown'[id]
    BY <1>5, <1>7, <1>8 DEF FrontInv, ReportedEndsHappened
  <1>16. \A id \in hidden' : sessions[id].state \in Terminal /\ id \notin ToSet(cards')
    BY <1>4, <1>7 DEF FrontInv, ReportedEndsHappened
  <1>17. ReportedEndsHappened'
    BY <1>3, <1>15, <1>16 DEF FrontInv, ReportedEndsHappened
  <1> QED BY <1>2, <1>12, <1>13, <1>14, <1>17 DEF FrontInv

LEMMA QuitInv ==
    ASSUME FrontInv, Quit
    PROVE  FrontInv'
  <1>1. UNCHANGED vars
    BY DEF Quit
  <1>2. IInv' /\ EventsInv'
    BY <1>1, ReadInv
  <1>3. /\ UNCHANGED <<mode, news, fresh, step, todo, ended, quickSave, sessions>>
        /\ mode = "tui" /\ outcome' = "ok"
        /\ cards' = <<>> /\ shown' = [id \in Ids |-> "Absent"] /\ focus' = 1 /\ hidden' = {}
        /\ queue' = [id \in Ids |-> <<>>] /\ forwarder' = [id \in Ids |-> "none"]
    BY DEF Quit, Tui, loop, channels, vars
  <1>4. ToSet(cards') = {} /\ \A id \in Ids : DOMAIN queue'[id] = {}
    BY <1>3 DEF ToSet
  <1>5. queue' \in [Ids -> Seq(MissionState)] /\ \A id \in Ids : Len(queue'[id]) <= QueueCap
    BY <1>3, QueueCapAssumption
  <1>6. cards' \in Seq(Ids) /\ DOMAIN cards' = {} /\ focus' \in 1..1
    BY <1>3
  <1>7. FrontTypeOK'
    BY <1>3, <1>4, <1>5, <1>6 DEF FrontInv, FrontTypeOK
  <1>8. QueueInv' /\ CardsInv' /\ FoundInv' /\ ReportedEndsHappened'
    BY <1>3, <1>4 DEF FrontInv, QueueInv, CardsInv, FoundInv, ReportedEndsHappened
  <1> QED BY <1>2, <1>7, <1>8 DEF FrontInv

(* The steps of the unattended front ends: none touches the cards, and      *)
(* each reads the index, which is current.                                  *)
LEMMA LoopInv ==
    ASSUME FrontInv, UNCHANGED <<vars, mode, ui>>,
           news' \in BOOLEAN, fresh' \in [Ids -> BOOLEAN], todo' \subseteq Ids,
           quickSave' \in BOOLEAN, step' \in {"look", "act", "wait"},
           ended' \in {"none", "ok", "error"}, outcome' \in {"running", "ok", "error"},
           FoundInv',
           \/ outcome' = outcome
           \/ mode = "receive"
           \/ mode = "once" /\ (outcome' = "error" => ended = "error")
           \/ mode = "send" /\ outcome' = ExitStatus(sessions[Own].state)
                            /\ sessions[Own].state \in Terminal
    PROVE  FrontInv'
  <1>1. IInv' /\ EventsInv'
    BY ReadInv
  <1>2. UNCHANGED <<sessions, forwarder, queue, cards, shown, focus, hidden, mode>>
    BY DEF vars, ui
  <1>3. FrontTypeOK'
    BY <1>2 DEF FrontInv, FrontTypeOK
  <1>4. QueueInv' /\ CardsInv'
    BY <1>2 DEF FrontInv, QueueInv, CardsInv
  <1>5. ReportedEndsHappened'
    BY <1>2 DEF FrontInv, FoundInv, ReportedEndsHappened, ExitStatus, Terminal
  <1> QED BY <1>1, <1>3, <1>4, <1>5 DEF FrontInv

LEMMA LookInv ==
    ASSUME FrontInv, Look
    PROVE  FrontInv'
  <1>1. /\ UNCHANGED <<vars, mode, ui, news, fresh, quickSave, outcome>>
        /\ step' = "act" /\ todo' = PendingReceive
    BY DEF Look, channels
  <1>2. UNCHANGED sessions /\ \A id \in Ids : index[id].state = sessions[id].state
    BY <1>1, ReadInv DEF vars
  <1>3. \/ ended' = "none"
        \/ \E id \in EndedReceive : ended' = ExitStatus(index[id].state)
    BY DEF Look
  <1>4. ended' \in {"none", "ok", "error"}
    BY <1>3 DEF ExitStatus
  <1>5. FoundInv'
    <2>1. ASSUME NEW id \in EndedReceive, ended' = ExitStatus(index[id].state), ended' = "error"
          PROVE  /\ id \in Ids /\ sessions[id].direction = "Receive"
                 /\ sessions[id].state \in {"Failed", "Canceled"}
      BY <1>2, <2>1 DEF EndedReceive, Listed, Terminal, ExitStatus
    <2> QED BY <1>2, <1>3, <2>1 DEF FoundInv
  <1>6. todo' \subseteq Ids
    BY <1>1 DEF PendingReceive, Listed
  <1>7. /\ news' \in BOOLEAN /\ fresh' \in [Ids -> BOOLEAN] /\ quickSave' \in BOOLEAN
        /\ outcome' \in {"running", "ok", "error"}
    BY <1>1 DEF FrontInv, FrontTypeOK
  <1> QED BY <1>1, <1>4, <1>5, <1>6, <1>7, LoopInv

LEMMA HeadlessInv ==
    ASSUME FrontInv, AfterAccepting \/ Wait \/ Interrupt \/ LookAtOwn \/ WaitForOwn
    PROVE  FrontInv'
  <1>1. UNCHANGED <<vars, mode, ui, todo, ended, quickSave, sessions>>
    BY DEF AfterAccepting, Wait, Interrupt, LookAtOwn, WaitForOwn, loop, vars
  <1>2. \A id \in Ids : index[id].state = sessions[id].state
    BY <1>1, ReadInv
  <1>3. news' \in BOOLEAN /\ fresh' \in [Ids -> BOOLEAN]
    BY DEF AfterAccepting, Wait, Interrupt, LookAtOwn, WaitForOwn, channels, TakeIndex,
           FrontInv, FrontTypeOK
  <1>4. step' \in {"look", "act", "wait"}
    BY DEF AfterAccepting, Wait, Interrupt, LookAtOwn, WaitForOwn, loop, FrontInv, FrontTypeOK
  <1>5. /\ \/ outcome' = outcome
           \/ mode = "receive"
           \/ mode = "once" /\ (outcome' = "error" => ended = "error")
           \/ mode = "send" /\ outcome' = ExitStatus(sessions[Own].state)
                            /\ sessions[Own].state \in Terminal
        /\ outcome' \in {"running", "ok", "error"}
    <2>1. CASE AfterAccepting
      BY <2>1 DEF AfterAccepting, Headless, FrontInv, FrontTypeOK
    <2>2. CASE Interrupt
      BY <2>2 DEF Interrupt, Headless
    <2>3. CASE LookAtOwn
      BY <1>2, <2>3, OwnAssumption DEF LookAtOwn, ExitStatus, FrontInv, FrontTypeOK
    <2>4. CASE Wait \/ WaitForOwn
      BY <2>4 DEF Wait, WaitForOwn, FrontInv, FrontTypeOK
    <2> QED BY <2>1, <2>2, <2>3, <2>4
  <1>6. FoundInv'
    BY <1>1 DEF FrontInv, FoundInv
  <1>7. todo' \subseteq Ids /\ quickSave' \in BOOLEAN /\ ended' \in {"none", "ok", "error"}
    BY <1>1 DEF FrontInv, FrontTypeOK
  <1> QED BY <1>1, <1>3, <1>4, <1>5, <1>6, <1>7, LoopInv

LEMMA AppInv ==
    ASSUME FrontInv, AutoAccept \/ \E value \in BOOLEAN : SetQuickSave(value)
    PROVE  FrontInv'
  <1>1. UNCHANGED <<vars, mode, ui, step, ended, outcome, sessions>>
    BY DEF AutoAccept, SetQuickSave, vars
  <1>2. news' \in BOOLEAN /\ fresh' \in [Ids -> BOOLEAN] /\ quickSave' \in BOOLEAN
    BY DEF AutoAccept, SetQuickSave, channels, TakeIndex, FrontInv, FrontTypeOK
  <1>3. todo' \subseteq Ids
    BY DEF AutoAccept, SetQuickSave, PendingReceive, Listed, FrontInv, FrontTypeOK
  <1>4. FoundInv'
    BY <1>1 DEF FrontInv, FoundInv
  <1>5. /\ step' \in {"look", "act", "wait"} /\ ended' \in {"none", "ok", "error"}
        /\ outcome' \in {"running", "ok", "error"}
    BY <1>1 DEF FrontInv, FrontTypeOK
  <1> QED BY <1>1, <1>2, <1>3, <1>4, <1>5, LoopInv

LEMMA FrontInitInv == FrontInit => FrontInv
  <1> SUFFICES ASSUME FrontInit PROVE FrontInv
    OBVIOUS
  <1>1. IInv
    BY InitInv DEF FrontInit
  <1>2. /\ mode \in Modes /\ news = FALSE /\ fresh = [id \in Ids |-> FALSE]
        /\ forwarder = [id \in Ids |-> "none"] /\ queue = [id \in Ids |-> <<>>]
        /\ cards = <<>> /\ shown = [id \in Ids |-> "Absent"] /\ focus = 1 /\ hidden = {}
        /\ step = "look" /\ todo = {} /\ ended = "none" /\ quickSave = TRUE
        /\ outcome = "running"
    BY DEF FrontInit
  <1>3. ToSet(cards) = {} /\ \A id \in Ids : DOMAIN queue[id] = {}
    BY <1>2 DEF ToSet
  <1>4. queue \in [Ids -> Seq(MissionState)] /\ \A id \in Ids : Len(queue[id]) <= QueueCap
    BY <1>2, QueueCapAssumption
  <1>5. cards \in Seq(Ids) /\ DOMAIN cards = {} /\ focus \in 1..1
    BY <1>2
  <1>6. FrontTypeOK
    BY <1>2, <1>3, <1>4, <1>5 DEF FrontTypeOK
  <1>7. EventsInv
    BY DEF FrontInit, Init, NoSession, NewSession, StateChanged, EventsInv, EventOK,
           MissionState, Terminal
  <1>8. QueueInv /\ CardsInv /\ FoundInv /\ ReportedEndsHappened
    BY <1>2, <1>3 DEF QueueInv, CardsInv, FoundInv, ReportedEndsHappened
  <1> QED BY <1>1, <1>6, <1>7, <1>8 DEF FrontInv

LEMMA FrontNextInv == FrontInv /\ [FrontNext]_frontVars => FrontInv'
  <1> SUFFICES ASSUME FrontInv, [FrontNext]_frontVars PROVE FrontInv'
    OBVIOUS
  <1>1. CASE UNCHANGED frontVars
    <2>1. UNCHANGED <<vars, mode, ui, news, fresh, step, todo, ended, quickSave, outcome>>
      BY <1>1 DEF frontVars, channels, loop
    <2>2. /\ news' \in BOOLEAN /\ fresh' \in [Ids -> BOOLEAN] /\ todo' \subseteq Ids
          /\ quickSave' \in BOOLEAN /\ step' \in {"look", "act", "wait"}
          /\ ended' \in {"none", "ok", "error"} /\ outcome' \in {"running", "ok", "error"}
      BY <2>1 DEF FrontInv, FrontTypeOK
    <2>3. FoundInv'
      BY <2>1 DEF FrontInv, FoundInv, vars
    <2> QED BY <2>1, <2>2, <2>3, LoopInv
  <1>2. CASE \/ CoreStep \/ KeyOnFocused \/ SendKey \/ StartSend
             \/ \E id \in Ids : AcceptPending(id) \/ AppAnswers(id)
    <2>1. Message
      BY <1>2, MessagesAreMessages DEF FrontInv
    <2> QED BY <2>1, MessageInv
  <1>3. CASE TuiStep /\ ~KeyOnFocused /\ ~SendKey
    BY <1>3, ApplyIndexInv, ForwardInv, ApplyEventInv, CycleFocusInv, ClearTerminalInv, QuitInv
       DEF TuiStep
  <1>4. CASE (HeadlessStep \/ Interrupt) /\ ~StartSend
    BY <1>4, LookInv, HeadlessInv DEF HeadlessStep
  <1>5. CASE AutoAccept \/ \E value \in BOOLEAN : SetQuickSave(value)
    BY <1>5, AppInv
  <1> QED BY <1>1, <1>2, <1>3, <1>4, <1>5 DEF FrontNext
-----------------------------------------------------------------------------
(* The theorems *)

(* The invariant holds of every front end, for any number of sessions and   *)
(* any capacity of the queue.                                               *)
THEOREM FrontInvariance == FrontSpec => []FrontInv
  BY FrontInitInv, FrontNextInv, PTL DEF FrontSpec

(* The focus is on a card whenever there is one, no session has two cards,  *)
(* and no queue exceeds its capacity (tui.rs, state.rs and headless.rs).    *)
THEOREM FrontTypes == FrontSpec => []FrontTypeOK
  <1>1. FrontInv => FrontTypeOK
    BY DEF FrontInv
  <1> QED BY <1>1, FrontInvariance, PTL

(* No front end reports an end that did not happen, in whatever order the   *)
(* index and the forwarded events reach it.                                 *)
THEOREM NoFalseEnd == FrontSpec => []ReportedEndsHappened
  <1>1. FrontInv => ReportedEndsHappened
    BY DEF FrontInv
  <1> QED BY <1>1, FrontInvariance, PTL

(* Whatever the keys, the commands and the app do, the sessions behave as   *)
(* the session actor lets them: a front end adds no behaviour.              *)
THEOREM FrontEndsUseTheActor == FrontSpec => Spec
  <1>1. FrontInit => Init
    BY DEF FrontInit
  <1>2. FrontInv /\ [FrontNext]_frontVars => [Next]_vars
    BY FrontStepIsAStep DEF FrontInv
  <1> QED BY <1>1, <1>2, FrontInvariance, PTL DEF FrontSpec, Spec

(* Consent, seen from the screen: no key, command or switch of a front end  *)
(* makes a file move that its user did not accept.                          *)
THEOREM FrontEndsKeepConsent == FrontSpec => []OnlyConsentedFilesMove
  BY FrontEndsUseTheActor, Consent, PTL

(* Sessions that come, change and end never move the focus to another card. *)
THEOREM FocusStays == FrontSpec => FocusFollowsUser
  <1> DEFINE Kept == cards # <<>> =>
                        \/ cards' # <<>> /\ cards'[focus'] = cards[focus]
                        \/ outcome' # "running"
                        \/ \E delta \in {-1, 1} : CycleFocus(delta)
                        \/ ClearTerminal
  <1>1. ASSUME UNCHANGED <<cards, focus>> PROVE Kept
    BY <1>1
  <1>2. ASSUME FrontInv, ApplyIndex PROVE Kept
    <2> SUFFICES ASSUME cards # <<>> PROVE cards' # <<>> /\ cards'[focus'] = cards[focus]
      OBVIOUS
    <2>1. /\ cards' \in Seq(Ids) /\ Len(cards) <= Len(cards')
          /\ \A i \in DOMAIN cards : cards'[i] = cards[i]
      BY <1>2, IndexAppends
    <2>2. focus \in 1..Len(cards) /\ Len(cards) \in Nat /\ Len(cards') \in Nat
          /\ focus \in DOMAIN cards
      BY <1>2, <2>1 DEF FrontInv, FrontTypeOK
    <2>3. focus' = focus
      BY <1>2, <2>1, <2>2 DEF ApplyIndex, Clamp
    <2>4. cards' # <<>>
      BY <2>1, <2>2
    <2> QED BY <2>1, <2>2, <2>3, <2>4
  <1>3. ASSUME FrontInv, [FrontNext]_frontVars PROVE Kept
    <2>1. CASE UNCHANGED frontVars
      BY <1>1, <2>1 DEF frontVars, ui
    <2>2. CASE \/ CoreStep \/ KeyOnFocused \/ SendKey \/ StartSend
               \/ \E id \in Ids : AcceptPending(id) \/ AppAnswers(id)
      <3>1. Message
        BY <1>3, <2>2, MessagesAreMessages DEF FrontInv
      <3> QED BY <1>1, <3>1 DEF Message, ui
    <2>3. CASE ApplyIndex
      BY <1>2, <1>3, <2>3
    <2>4. ASSUME NEW id \in Ids, Forward(id) \/ ApplyEvent(id) PROVE Kept
      BY <1>1, <2>4 DEF Forward, ApplyEvent
    <2>5. CASE Quit
      BY <2>5 DEF Quit
    <2>6. CASE Look \/ AfterAccepting \/ Wait \/ LookAtOwn \/ WaitForOwn \/ Interrupt
      BY <1>1, <2>6 DEF Look, AfterAccepting, Wait, LookAtOwn, WaitForOwn, Interrupt, ui
    <2>7. CASE AutoAccept \/ \E value \in BOOLEAN : SetQuickSave(value)
      BY <1>1, <2>7 DEF AutoAccept, SetQuickSave, ui
    <2>8. CASE ClearTerminal \/ \E delta \in {-1, 1} : CycleFocus(delta)
      BY <2>8
    <2> HIDE DEF Kept
    <2> QED BY <1>3, <2>1, <2>2, <2>3, <2>4, <2>5, <2>6, <2>7, <2>8
            DEF FrontNext, TuiStep, HeadlessStep
  <1>4. FrontInv /\ [FrontNext]_frontVars => [Kept]_frontVars
    BY <1>3
  <1> QED BY <1>4, FrontInvariance, PTL DEF FrontSpec, FocusFollowsUser
=============================================================================
