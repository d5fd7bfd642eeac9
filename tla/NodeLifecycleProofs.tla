------------------------ MODULE NodeLifecycleProofs ------------------------
(***************************************************************************)
(* What holds of a node for any number of callers, connections, ports and  *)
(* restarts.                                                               *)
(***************************************************************************)
EXTENDS NodeLifecycle, TLAPS

-----------------------------------------------------------------------------
(* Type correctness.  What an await remembers is defined when it is used.  *)

AwaitsDefined ==
    /\ actor.at = "advertise" => actor.read \in Ports
    /\ actor.at \in {"advertise", "bind"} => gen # 0
    /\ actor.at \in {"stopOld", "stopServer"} => server # 0
    /\ \A u \in Callers : call[u].at = "read" => call[u].port \in Ports

NodeTyped == NodeTypeOK /\ AwaitsDefined

LEMMA HeadTyped ==
  ASSUME NodeTypeOK, inbox # <<>>
  PROVE  /\ Head(inbox) \in Message /\ Tail(inbox) \in Seq(Message)
         /\ Head(inbox).kind \in {"Start", "Shutdown", "ChangeConfig"} =>
               Head(inbox).from \in Callers
         /\ Head(inbox).kind = "Listen" => Head(inbox).from \in Gens
         /\ Head(inbox).port \in Ports
  <1>1. Head(inbox) \in Message /\ Tail(inbox) \in Seq(Message)
    BY DEF NodeTypeOK
  <1>2. QED
    BY <1>1 DEF Message

LEMMA PostTyped ==
  ASSUME NodeTypeOK
  PROVE  /\ \A u \in Callers : /\ Post("Start", u) \in Seq(Message)
                               /\ Post("Shutdown", u) \in Seq(Message)
                               /\ Post("GetConfig", u) \in Seq(Message)
         /\ \A k \in Gens : /\ Post("Listen", k) \in Seq(Message)
                            /\ Post("GetConfig", k) \in Seq(Message)
         /\ \A c \in Conns : Post("GetConfig", c) \in Seq(Message)
  <1> DEFINE M(kind, from) == [kind |-> kind, from |-> from, port |-> 1]
  <1>1. 1 \in Ports
    BY PortAssumption DEF Ports
  <1>2. /\ \A u \in Callers : /\ M("Start", u) \in Message
                              /\ M("Shutdown", u) \in Message
                              /\ M("GetConfig", u) \in Message
        /\ \A k \in Gens : M("Listen", k) \in Message /\ M("GetConfig", k) \in Message
        /\ \A c \in Conns : M("GetConfig", c) \in Message
    BY <1>1 DEF Message
  <1>3. \A m \in Message : Append(inbox, m) \in Seq(Message)
    BY DEF NodeTypeOK
  <1>4. QED
    BY <1>2, <1>3 DEF Post

LEMMA ChangeTyped ==
  \A u \in Callers, p \in Ports : [kind |-> "ChangeConfig", from |-> u, port |-> p] \in Message
  BY DEF Message

LEMMA CandidatesTyped ==
  ASSUME NEW b \in Ports
  PROVE  Candidates(b) \subseteq Ports
  BY PortAssumption DEF Candidates, Ports

LEMMA GenTyped ==
  ASSUME NodeTypeOK
  PROVE  /\ gen # 0 => gen \in Gens
         /\ gen < MaxCalls => gen + 1 \in Gens /\ gen + 1 \in 0 .. MaxCalls
  BY CallsAssumption DEF NodeTypeOK, Gens

LEMMA AnswerTyped ==
  ASSUME NodeTypeOK, NEW u \in Callers, Answer(u)
  PROVE  /\ call' \in [Callers -> Call]
         /\ \A v \in Callers :
               call'[v].at = "read" => call[v].at = "read" /\ call'[v].port = call[v].port
  <1> DEFINE c == [call[u] EXCEPT !.at = "idle", !.port = 0, !.new = 0]
  <1>1. call[u] \in Call
    BY DEF NodeTypeOK
  <1>2. c \in Call /\ c.at = "idle"
    BY <1>1 DEF Call
  <1>3. call' = [call EXCEPT ![u] = c]
    BY DEF Answer
  <1>4. QED
    BY <1>2, <1>3 DEF NodeTypeOK

LEMMA PublishTyped ==
  ASSUME NodeTypeOK, NEW v, Publish(v)
  PROVE  ticker' \in [Gens -> Ticker]
  <1> DEFINE b(k) == ticker[k].at \in {"running", "announcing"}
  <1>1. \A k \in Gens : b(k) = TRUE \/ b(k) = FALSE
    OBVIOUS
  <1>2. ticker' = [k \in Gens |-> [ticker[k] EXCEPT !.unseen = b(k)]]
    BY DEF Publish
  <1> HIDE DEF b
  <1>3. \A k \in Gens : [ticker[k] EXCEPT !.unseen = b(k)] \in Ticker
    <2> SUFFICES ASSUME NEW k \in Gens PROVE [ticker[k] EXCEPT !.unseen = b(k)] \in Ticker
      OBVIOUS
    <2>1. ticker[k] \in Ticker
      BY DEF NodeTypeOK
    <2>2. CASE b(k) = TRUE
      BY <2>1, <2>2 DEF Ticker
    <2>3. CASE b(k) = FALSE
      BY <2>1, <2>3 DEF Ticker
    <2>4. QED
      BY <1>1, <2>2, <2>3
  <1>4. QED
    BY <1>2, <1>3

LEMMA BaseTyped == BasePorts \subseteq Ports
  BY PortAssumption DEF Ports

LEMMA NodeTypedInit == NodeInit => NodeTyped
  <1> SUFFICES ASSUME NodeInit PROVE NodeTyped
    OBVIOUS
  <1>1. PICK u \in Callers, p \in BasePorts :
          /\ actor = [at |-> "idle", for |-> u, read |-> 0]
          /\ config = p /\ device = p
          /\ http = [k \in Gens |->
                        [at |-> "none", port |-> p, result |-> "pending", signal |-> FALSE]]
          /\ call = [v \in Callers |-> [at |-> "idle", changes |-> FALSE, port |-> 0, new |-> 0]]
    BY DEF NodeInit
  <1>2. p \in Ports
    BY BaseTyped
  <1>3. actor \in Actor /\ call \in [Callers -> Call] /\ AwaitsDefined
    BY <1>1 DEF Actor, Call, AwaitsDefined
  <1>4. http \in [Gens -> Http]
    BY <1>1, <1>2 DEF Http
  <1>5. ticker \in [Gens -> Ticker] /\ conn \in [Conns -> Conn]
    BY DEF NodeInit, Ticker, Conn
  <1>6. gen \in 0 .. MaxCalls /\ calls \in 0 .. MaxCalls
    BY CallsAssumption DEF NodeInit
  <1>7. inbox \in Seq(Message) /\ backlog \in Seq(Conns)
    BY DEF NodeInit
  <1>8. disc \in [Gens -> {"none", "up", "gone"}] /\ running \in BOOLEAN /\ crossed \in BOOLEAN
    BY DEF NodeInit
  <1>9. server \in {0} \cup Gens
    BY DEF NodeInit
  <1>10. config \in Ports /\ device \in Ports
    BY <1>1, <1>2
  <1>11. QED
    BY <1>3, <1>4, <1>5, <1>6, <1>7, <1>8, <1>9, <1>10 DEF NodeTyped, NodeTypeOK

LEMMA NodeTypedNext == NodeTyped /\ [NodeNext]_nodeVars => NodeTyped'
  <1> SUFFICES ASSUME NodeTyped, [NodeNext]_nodeVars
               PROVE  NodeTyped'
    OBVIOUS
  <1> USE DEF NodeTyped, NodeTypeOK, nodeVars, actorVars, serverVars, callVars
  <1>1. CASE HandleGetConfig
    <2>1. inbox' \in Seq(Message)
      BY <1>1, HeadTyped DEF HandleGetConfig, Receive, Changed
    <2>2. call' \in [Callers -> Call]
      BY <1>1, HeadTyped DEF HandleGetConfig, Receive, Changed, Call
    <2>3. ticker' \in [Gens -> Ticker]
      BY <1>1, HeadTyped DEF HandleGetConfig, Receive, Changed, Ticker
    <2>4. conn' \in [Conns -> Conn]
      BY <1>1, HeadTyped DEF HandleGetConfig, Receive, Changed, Conn
    <2>5. AwaitsDefined'
      <3>1. \A u \in Callers : call[u] \in Call /\ Changed(call[u]).port \in Ports
        BY DEF Call, Changed
      <3>2. \A u \in Callers : call'[u] = call[u] \/ call'[u] = Changed(call[u])
        BY <1>1 DEF HandleGetConfig
      <3>3. QED
        BY <1>1, <3>1, <3>2 DEF HandleGetConfig, Receive, AwaitsDefined
    <2>6. QED
      BY <1>1, <2>1, <2>2, <2>3, <2>4, <2>5 DEF HandleGetConfig, Receive, Changed
  <1>2. CASE HandleChangeConfig
    <2>1. inbox' \in Seq(Message)
      BY <1>2, HeadTyped DEF HandleChangeConfig, Receive, Answer
    <2>2. config' \in Ports
      BY <1>2, HeadTyped DEF HandleChangeConfig, Receive, Answer
    <2>3. call' \in [Callers -> Call]
      BY <1>2, HeadTyped, AnswerTyped DEF HandleChangeConfig, Receive
    <2>4. AwaitsDefined'
      BY <1>2, HeadTyped, AnswerTyped DEF HandleChangeConfig, Receive, AwaitsDefined
    <2>5. QED
      BY <1>2, <2>1, <2>2, <2>3, <2>4 DEF HandleChangeConfig, Receive, Answer
  <1>3. CASE HandleListen
    <2>1. inbox' \in Seq(Message)
      BY <1>3, HeadTyped DEF HandleListen, Receive
    <2>2. ticker' \in [Gens -> Ticker]
      BY <1>3, HeadTyped DEF HandleListen, Receive, Ticker
    <2>3. AwaitsDefined'
      BY <1>3, HeadTyped DEF HandleListen, Receive, AwaitsDefined, Actor, Call
    <2>4. QED
      BY <1>3, <2>1, <2>2, <2>3 DEF HandleListen, Receive
  <1>4. CASE HandleStart
    <2>1. inbox' \in Seq(Message)
      BY <1>4, HeadTyped DEF HandleStart, Receive, StopServer
    <2>2. actor' \in Actor
      BY <1>4, HeadTyped DEF HandleStart, Receive, StopServer, Actor
    <2>3. http' \in [Gens -> Http]
      BY <1>4, HeadTyped DEF HandleStart, Receive, StopServer, Http
    <2>4. AwaitsDefined'
      BY <1>4, HeadTyped DEF HandleStart, Receive, StopServer, AwaitsDefined, Actor, Call
    <2>5. QED
      BY <1>4, <2>1, <2>2, <2>3, <2>4 DEF HandleStart, Receive, StopServer
  <1>5. CASE OldStopped
    <2>1. server' \in {0} \cup Gens
      BY <1>5, GenTyped DEF OldStopped, AwaitsDefined
    <2>2. actor' \in Actor
      BY <1>5, GenTyped DEF OldStopped, Actor, AwaitsDefined
    <2>3. AwaitsDefined'
      BY <1>5 DEF OldStopped, AwaitsDefined, Actor, Call
    <2>4. QED
      BY <1>5, <2>1, <2>2, <2>3 DEF OldStopped
  <1>6. CASE Spawn
    <2>1. gen' \in 0 .. MaxCalls
      BY <1>6, CallsAssumption, GenTyped DEF Spawn, Gens, AwaitsDefined
    <2>2. ticker' \in [Gens -> Ticker]
      BY <1>6, GenTyped DEF Spawn, Ticker, AwaitsDefined
    <2>3. actor' \in Actor
      BY <1>6, GenTyped DEF Spawn, Actor, AwaitsDefined
    <2>4. AwaitsDefined'
      BY <1>6, CallsAssumption DEF Spawn, AwaitsDefined, Actor, Call, Gens, Ports
    <2>5. QED
      BY <1>6, <2>1, <2>2, <2>3, <2>4 DEF Spawn
  <1>7. CASE Advertise
    <2>1. device' \in Ports
      BY <1>7, GenTyped DEF Advertise, AwaitsDefined
    <2>2. http' \in [Gens -> Http]
      BY <1>7, GenTyped DEF Advertise, Http, AwaitsDefined
    <2>3. actor' \in Actor
      BY <1>7, GenTyped DEF Advertise, Actor, AwaitsDefined
    <2>4. AwaitsDefined'
      BY <1>7 DEF Advertise, AwaitsDefined, Actor, Call
    <2>5. QED
      BY <1>7, <2>1, <2>2, <2>3, <2>4 DEF Advertise
  <1>8. CASE Bound
    <2>1. config' \in Ports
      <3>1. gen \in Gens
        BY <1>8, GenTyped DEF Bound, AwaitsDefined
      <3>2. http[gen].port \in Ports
        BY <3>1 DEF Http
      <3>3. QED
        BY <1>8, <3>2 DEF Bound
    <2>2. device' \in Ports
      <3>1. gen \in Gens
        BY <1>8, GenTyped DEF Bound, AwaitsDefined
      <3>2. http[gen].port \in Ports
        BY <3>1 DEF Http
      <3>3. QED
        BY <1>8, <3>2 DEF Bound
    <2>3. running' \in BOOLEAN
      BY <1>8, GenTyped DEF Bound, Publish, Answer, AwaitsDefined
    <2>4. ticker' \in [Gens -> Ticker]
      BY <1>8, PublishTyped DEF Bound
    <2>5. server' \in {0} \cup Gens
      BY <1>8, GenTyped DEF Bound, Publish, Answer, AwaitsDefined
    <2>6. call' \in [Callers -> Call]
      <3>1. actor.for \in Callers
        BY DEF Actor
      <3>2. QED
        BY <1>8, <3>1, AnswerTyped DEF Bound
    <2>7. actor' \in Actor
      BY <1>8, GenTyped DEF Bound, Publish, Answer, Actor, AwaitsDefined
    <2>8. AwaitsDefined'
      <3>1. actor.for \in Callers
        BY DEF Actor
      <3>2. actor'.at \in {"idle", "publish"}
        BY <1>8 DEF Bound, Actor
      <3>3. QED
        BY <1>8, <3>1, <3>2, AnswerTyped DEF Bound, AwaitsDefined
    <2>9. QED
      BY <1>8, <2>1, <2>2, <2>3, <2>4, <2>5, <2>6, <2>7, <2>8 DEF Bound, Publish, Answer
  <1>9. CASE HandleShutdown
    <2>1. inbox' \in Seq(Message)
      BY <1>9, HeadTyped DEF HandleShutdown, Receive, StopServer, Answer
    <2>2. actor' \in Actor
      BY <1>9, HeadTyped DEF HandleShutdown, Receive, StopServer, Answer, Actor
    <2>3. http' \in [Gens -> Http]
      BY <1>9, HeadTyped DEF HandleShutdown, Receive, StopServer, Answer, Http
    <2>4. call' \in [Callers -> Call]
      <3>1. CASE server = 0
        BY <1>9, <3>1, HeadTyped, AnswerTyped DEF HandleShutdown, Receive
      <3>2. CASE server # 0
        BY <1>9, <3>2 DEF HandleShutdown
      <3>3. QED
        BY <3>1, <3>2
    <2>5. AwaitsDefined'
      <3>1. \A v \in Callers :
              call'[v].at = "read" => call[v].at = "read" /\ call'[v].port = call[v].port
        <4>1. CASE server = 0
          BY <1>9, <4>1, HeadTyped, AnswerTyped DEF HandleShutdown, Receive
        <4>2. CASE server # 0
          BY <1>9, <4>2 DEF HandleShutdown
        <4>3. QED
          BY <4>1, <4>2
      <3>2. actor'.at = IF server # 0 THEN "stopServer" ELSE "publish"
        BY <1>9 DEF HandleShutdown, StopServer, Actor
      <3>3. QED
        BY <1>9, <3>1, <3>2 DEF HandleShutdown, AwaitsDefined
    <2>6. QED
      BY <1>9, <2>1, <2>2, <2>3, <2>4, <2>5 DEF HandleShutdown, Receive, StopServer, Answer
  <1>10. CASE ServerStopped
    <2>1. server' \in {0} \cup Gens
      BY <1>10, GenTyped DEF ServerStopped, Answer, AwaitsDefined
    <2>2. call' \in [Callers -> Call]
      <3>1. actor.for \in Callers
        BY DEF Actor
      <3>2. QED
        BY <1>10, <3>1, AnswerTyped DEF ServerStopped
    <2>3. actor' \in Actor
      BY <1>10, GenTyped DEF ServerStopped, Answer, Actor, AwaitsDefined
    <2>4. AwaitsDefined'
      <3>1. actor.for \in Callers
        BY DEF Actor
      <3>2. actor'.at \in {"idle", "publish"}
        BY <1>10 DEF ServerStopped, Actor
      <3>3. QED
        BY <1>10, <3>1, <3>2, AnswerTyped DEF ServerStopped, AwaitsDefined
    <2>5. QED
      BY <1>10, <2>1, <2>2, <2>3, <2>4 DEF ServerStopped, Answer
  <1>11. CASE PublishStopped
    <2>1. running' \in BOOLEAN
      BY <1>11 DEF PublishStopped, Publish
    <2>2. ticker' \in [Gens -> Ticker]
      BY <1>11, PublishTyped DEF PublishStopped
    <2>3. actor' \in Actor
      BY <1>11 DEF PublishStopped, Publish, Actor
    <2>4. AwaitsDefined'
      BY <1>11 DEF PublishStopped, Publish, AwaitsDefined, Actor, Call
    <2>5. QED
      BY <1>11, <2>1, <2>2, <2>3, <2>4 DEF PublishStopped, Publish
  <1>12. ASSUME NEW u \in Callers, CallStart(u) PROVE NodeTyped'
    <2>1. inbox' \in Seq(Message)
      BY <1>12, PostTyped DEF CallStart, Begin
    <2>2. call' \in [Callers -> Call]
      BY <1>12 DEF CallStart, Begin, Call
    <2>3. calls' \in 0 .. MaxCalls
      BY <1>12, CallsAssumption DEF CallStart, Begin
    <2>4. crossed' \in BOOLEAN
      BY <1>12 DEF CallStart, Begin
    <2>5. AwaitsDefined'
      BY <1>12 DEF CallStart, Begin, AwaitsDefined, Actor, Call
    <2>6. QED
      BY <1>12, <2>1, <2>2, <2>3, <2>4, <2>5 DEF CallStart, Begin
  <1>13. ASSUME NEW u \in Callers, CallShutdown(u) PROVE NodeTyped'
    <2>1. inbox' \in Seq(Message)
      BY <1>13, PostTyped DEF CallShutdown, Begin
    <2>2. call' \in [Callers -> Call]
      BY <1>13 DEF CallShutdown, Begin, Call
    <2>3. calls' \in 0 .. MaxCalls
      BY <1>13, CallsAssumption DEF CallShutdown, Begin
    <2>4. crossed' \in BOOLEAN
      BY <1>13 DEF CallShutdown, Begin
    <2>5. AwaitsDefined'
      BY <1>13 DEF CallShutdown, Begin, AwaitsDefined, Actor, Call
    <2>6. QED
      BY <1>13, <2>1, <2>2, <2>3, <2>4, <2>5 DEF CallShutdown, Begin
  <1>14. ASSUME NEW u \in Callers, NEW p \in {0} \cup BasePorts, CallChange(u, p) PROVE NodeTyped'
    <2>1. inbox' \in Seq(Message)
      BY <1>14, PostTyped DEF CallChange, Begin
    <2>2. call' \in [Callers -> Call]
      <3> DEFINE c == [call[u] EXCEPT !.at = "reading", !.changes = TRUE, !.new = p]
      <3>1. call[u] \in Call /\ p \in {0} \cup Ports
        BY <1>14, BaseTyped
      <3>2. c \in Call
        BY <3>1 DEF Call
      <3>3. call' = [call EXCEPT ![u] = c]
        BY <1>14 DEF CallChange, Begin
      <3>4. QED
        BY <3>2, <3>3
    <2>3. calls' \in 0 .. MaxCalls
      BY <1>14, CallsAssumption DEF CallChange, Begin
    <2>4. crossed' \in BOOLEAN
      BY <1>14 DEF CallChange, Begin
    <2>5. AwaitsDefined'
      BY <1>14 DEF CallChange, Begin, AwaitsDefined, Actor, Call
    <2>6. QED
      BY <1>14, <2>1, <2>2, <2>3, <2>4, <2>5 DEF CallChange, Begin
  <1>15. ASSUME NEW u \in Callers, ChangeConfig(u) PROVE NodeTyped'
    <2>1. inbox' \in Seq(Message)
      BY <1>15, PostTyped, ChangeTyped DEF ChangeConfig, AwaitsDefined
    <2>2. call' \in [Callers -> Call]
      BY <1>15 DEF ChangeConfig, Call, AwaitsDefined
    <2>3. device' \in Ports
      BY <1>15 DEF ChangeConfig, AwaitsDefined
    <2>4. AwaitsDefined'
      BY <1>15 DEF ChangeConfig, AwaitsDefined, Actor, Call
    <2>5. QED
      BY <1>15, <2>1, <2>2, <2>3, <2>4 DEF ChangeConfig
  <1>16. ASSUME NEW k \in Gens, TickerAsks(k) PROVE NodeTyped'
    <2>1. inbox' \in Seq(Message)
      BY <1>16, PostTyped DEF TickerAsks
    <2>2. ticker' \in [Gens -> Ticker]
      BY <1>16 DEF TickerAsks, Ticker
    <2>3. AwaitsDefined'
      BY <1>16 DEF TickerAsks, AwaitsDefined, Actor, Call
    <2>4. QED
      BY <1>16, <2>1, <2>2, <2>3 DEF TickerAsks
  <1>17. ASSUME NEW k \in Gens, Tick(k) PROVE NodeTyped'
    <2>1. inbox' \in Seq(Message)
      BY <1>17, PostTyped DEF Tick
    <2>2. ticker' \in [Gens -> Ticker]
      BY <1>17 DEF Tick, Ticker
    <2>3. AwaitsDefined'
      BY <1>17 DEF Tick, AwaitsDefined, Actor, Call
    <2>4. QED
      BY <1>17, <2>1, <2>2, <2>3 DEF Tick
  <1>18. ASSUME NEW k \in Gens, TickerSeesState(k) PROVE NodeTyped'
    <2>1. ticker' \in [Gens -> Ticker]
      BY <1>18 DEF TickerSeesState, Ticker
    <2>2. AwaitsDefined'
      BY <1>18 DEF TickerSeesState, AwaitsDefined, Actor, Call
    <2>3. QED
      BY <1>18, <2>1, <2>2 DEF TickerSeesState
  <1>19. ASSUME NEW k \in Gens, NEW others \in SUBSET Ports, Bind(k, others) PROVE NodeTyped'
    <2>1. disc' \in [Gens -> {"none", "up", "gone"}]
      BY <1>19 DEF Bind
    <2>2. http' \in [Gens -> Http]
      <3>1. http[k] \in Http
        OBVIOUS
      <3>2. Candidates(http[k].port) \subseteq Ports
        BY <3>1, CandidatesTyped DEF Http
      <3>3. \A p \in Ports :
              /\ [http[k] EXCEPT !.at = "closing", !.result = "noPort"] \in Http
              /\ [http[k] EXCEPT !.at = "bound", !.result = "bound", !.port = p] \in Http
        BY <3>1 DEF Http
      <3>4. \E h \in Http : http' = [http EXCEPT ![k] = h]
        <4>1. CASE http' = [http EXCEPT ![k] = [http[k] EXCEPT !.at = "closing", !.result = "noPort"]]
          BY <3>3, <4>1, PortAssumption DEF Ports
        <4>2. CASE \E p \in Candidates(http[k].port) : http' = [http EXCEPT ![k] =
                      [http[k] EXCEPT !.at = "bound", !.result = "bound", !.port = p]]
          BY <3>2, <3>3, <4>2
        <4>3. QED
          BY <1>19, <4>1, <4>2 DEF Bind
      <3>5. QED
        BY <3>4
    <2>3. AwaitsDefined'
      BY <1>19 DEF Bind, AwaitsDefined, Actor, Call
    <2>4. QED
      BY <1>19, <2>1, <2>2, <2>3 DEF Bind
  <1>20. ASSUME NEW k \in Gens, Serve(k) PROVE NodeTyped'
    <2>1. http' \in [Gens -> Http]
      BY <1>20 DEF Serve, Http
    <2>2. AwaitsDefined'
      BY <1>20 DEF Serve, AwaitsDefined, Actor, Call
    <2>3. QED
      BY <1>20, <2>1, <2>2 DEF Serve
  <1>21. ASSUME NEW k \in Gens, TlsFails(k) PROVE NodeTyped'
    <2>1. http' \in [Gens -> Http]
      BY <1>21 DEF TlsFails, CloseListener, Http
    <2>2. backlog' \in Seq(Conns)
      BY <1>21 DEF TlsFails, CloseListener
    <2>3. conn' \in [Conns -> Conn]
      BY <1>21 DEF TlsFails, CloseListener, Conn
    <2>4. AwaitsDefined'
      BY <1>21 DEF TlsFails, CloseListener, AwaitsDefined, Actor, Call
    <2>5. QED
      BY <1>21, <2>1, <2>2, <2>3, <2>4 DEF TlsFails, CloseListener
  <1>22. ASSUME NEW k \in Gens, Accept(k) PROVE NodeTyped'
    <2>1. backlog' \in Seq(Conns)
      BY <1>22 DEF Accept
    <2>2. conn' \in [Conns -> Conn]
      BY <1>22 DEF Accept, Conn
    <2>3. AwaitsDefined'
      BY <1>22 DEF Accept, AwaitsDefined, Actor, Call
    <2>4. QED
      BY <1>22, <2>1, <2>2, <2>3 DEF Accept
  <1>23. ASSUME NEW k \in Gens, Drain(k) PROVE NodeTyped'
    <2>1. http' \in [Gens -> Http]
      BY <1>23 DEF Drain, CloseListener, Http
    <2>2. backlog' \in Seq(Conns)
      BY <1>23 DEF Drain, CloseListener
    <2>3. conn' \in [Conns -> Conn]
      BY <1>23 DEF Drain, CloseListener, Conn
    <2>4. AwaitsDefined'
      BY <1>23 DEF Drain, CloseListener, AwaitsDefined, Actor, Call
    <2>5. QED
      BY <1>23, <2>1, <2>2, <2>3, <2>4 DEF Drain, CloseListener
  <1>24. ASSUME NEW k \in Gens, Drained(k) PROVE NodeTyped'
    <2>1. http' \in [Gens -> Http]
      BY <1>24 DEF Drained, Http
    <2>2. AwaitsDefined'
      BY <1>24 DEF Drained, AwaitsDefined, Actor, Call
    <2>3. QED
      BY <1>24, <2>1, <2>2 DEF Drained
  <1>25. ASSUME NEW k \in Gens, Stopped(k) PROVE NodeTyped'
    <2>1. http' \in [Gens -> Http]
      BY <1>25 DEF Stopped, Http
    <2>2. AwaitsDefined'
      BY <1>25 DEF Stopped, AwaitsDefined, Actor, Call
    <2>3. QED
      BY <1>25, <2>1, <2>2 DEF Stopped
  <1>26. ASSUME NEW k \in Gens, DiscoveryEnds(k) PROVE NodeTyped'
    <2>1. disc' \in [Gens -> {"none", "up", "gone"}]
      BY <1>26 DEF DiscoveryEnds
    <2>2. AwaitsDefined'
      BY <1>26 DEF DiscoveryEnds, AwaitsDefined, Actor, Call
    <2>3. QED
      BY <1>26, <2>1, <2>2 DEF DiscoveryEnds
  <1>27. ASSUME NEW c \in Conns, Connect(c) PROVE NodeTyped'
    <2>1. conn' \in [Conns -> Conn]
      BY <1>27 DEF Connect, Listening, Conn
    <2>2. backlog' \in Seq(Conns)
      BY <1>27 DEF Connect, Listening
    <2>3. AwaitsDefined'
      BY <1>27 DEF Connect, Listening, AwaitsDefined, Actor, Call
    <2>4. QED
      BY <1>27, <2>1, <2>2, <2>3 DEF Connect, Listening
  <1>28. ASSUME NEW c \in Conns, Speak(c) PROVE NodeTyped'
    <2>1. conn' \in [Conns -> Conn]
      BY <1>28 DEF Speak, Conn
    <2>2. AwaitsDefined'
      BY <1>28 DEF Speak, AwaitsDefined, Actor, Call
    <2>3. QED
      BY <1>28, <2>1, <2>2 DEF Speak
  <1>29. ASSUME NEW c \in Conns, HangUp(c) PROVE NodeTyped'
    <2>1. conn' \in [Conns -> Conn]
      BY <1>29 DEF HangUp, Conn
    <2>2. AwaitsDefined'
      BY <1>29 DEF HangUp, AwaitsDefined, Actor, Call
    <2>3. QED
      BY <1>29, <2>1, <2>2 DEF HangUp
  <1>30. ASSUME NEW c \in Conns, HandlerAsks(c) PROVE NodeTyped'
    <2>1. conn' \in [Conns -> Conn]
      BY <1>30 DEF HandlerAsks, Conn
    <2>2. inbox' \in Seq(Message)
      BY <1>30, PostTyped DEF HandlerAsks
    <2>3. AwaitsDefined'
      BY <1>30 DEF HandlerAsks, AwaitsDefined, Actor, Call
    <2>4. QED
      BY <1>30, <2>1, <2>2, <2>3 DEF HandlerAsks
  <1>31. ASSUME NEW c \in Conns, HandlerWorks(c) PROVE NodeTyped'
    <2>1. conn' \in [Conns -> Conn]
      BY <1>31 DEF HandlerWorks, Conn
    <2>2. AwaitsDefined'
      BY <1>31 DEF HandlerWorks, AwaitsDefined, Actor, Call
    <2>3. QED
      BY <1>31, <2>1, <2>2 DEF HandlerWorks
  <1>32. ASSUME NEW c \in Conns, HandlerEnds(c) PROVE NodeTyped'
    <2>1. conn' \in [Conns -> Conn]
      BY <1>32 DEF HandlerEnds, Conn
    <2>2. AwaitsDefined'
      BY <1>32 DEF HandlerEnds, AwaitsDefined, Actor, Call
    <2>3. QED
      BY <1>32, <2>1, <2>2 DEF HandlerEnds
  <1>33. CASE UNCHANGED nodeVars
    BY <1>33 DEF AwaitsDefined
  <1>34. QED
    BY <1>1, <1>2, <1>3, <1>4, <1>5, <1>6, <1>7, <1>8, <1>9, <1>10, <1>11,
       <1>12, <1>13, <1>14, <1>15, <1>16, <1>17, <1>18, <1>19, <1>20, <1>21, <1>22,
       <1>23, <1>24, <1>25, <1>26, <1>27, <1>28, <1>29, <1>30, <1>31, <1>32, <1>33
    DEF NodeNext, ActorNext, CallerNext, TickerNext, ServerNext, ConnNext

(* The actor, the servers, their discovery, tickers and connections, and   *)
(* the calls keep their shape; in particular a bound port is a port, also  *)
(* next to the largest one, and every start finds a free generation.       *)
THEOREM NodeTypeCorrect == NodeSpec => []NodeTypeOK
  <1>1. NodeInit /\ [][NodeNext]_nodeVars => []NodeTyped
    BY NodeTypedInit, NodeTypedNext, PTL
  <1>2. NodeTyped => NodeTypeOK
    BY DEF NodeTyped
  <1>3. QED
    BY <1>1, <1>2, PTL DEF NodeSpec

-----------------------------------------------------------------------------
(* One server at a time, and what the state channel says of it *)

Gone(k) == http[k].at = "stopped" /\ disc[k] = "gone"

(* Where the servers are when the actor is at each of its awaits: at most  *)
(* the last one is left, and none while a start is past its first await.   *)
ServersInv ==
    /\ \A k \in Gens : k > gen => http[k].at = "none" /\ disc[k] = "none"
    /\ \A k \in Gens : k < gen => Gone(k)
    /\ \A k \in Gens : http[k].at = "stopped" => disc[k] = "gone"
    /\ server # 0 => server = gen /\ actor.at \in {"idle", "stopOld", "stopServer"}
    /\ actor.at \in {"idle", "publish", "spawn"} /\ server = 0 /\ gen # 0 => Gone(gen)
    /\ actor.at = "advertise" => http[gen].at = "none" /\ disc[gen] = "none"

(* A server is signalled only by the actor, and has a result once it has   *)
(* tried to bind.                                                          *)
ResultsInv ==
    /\ \A k \in Gens : http[k].at \in {"none", "binding"} <=> http[k].result = "pending"
    /\ \A k \in Gens : http[k].signal => k <= gen
    /\ actor.at \in {"advertise", "bind"} => ~http[gen].signal
    /\ StateFollowsServer

NodeInv == NodeTyped /\ ServersInv /\ ResultsInv

LEMMA NodeInvInit == NodeInit => NodeInv
  <1> SUFFICES ASSUME NodeInit PROVE NodeInv
    OBVIOUS
  <1>1. ServersInv
    BY DEF NodeInit, ServersInv, Gone, Gens
  <1>2. ResultsInv
    BY DEF NodeInit, ResultsInv, StateFollowsServer
  <1>3. QED
    BY <1>1, <1>2, NodeTypedInit DEF NodeInv

LEMMA NodeInvNext == NodeInv /\ [NodeNext]_nodeVars => NodeInv'
  <1> SUFFICES ASSUME NodeInv, [NodeNext]_nodeVars
               PROVE  NodeInv'
    OBVIOUS
  <1>a. NodeTyped /\ NodeTyped'
    BY NodeTypedNext DEF NodeInv
  <1>b. /\ gen \in Nat /\ \A k \in Gens : k \in Nat /\ k # 0 /\ http[k] \in Http
        /\ gen # 0 => gen \in Gens
        /\ gen < MaxCalls => gen + 1 \in Gens
        /\ http \in [Gens -> Http] /\ actor \in Actor /\ disc \in [Gens -> {"none", "up", "gone"}]
        /\ actor.at \in {"advertise", "bind"} => gen # 0
        /\ actor.at \in {"stopOld", "stopServer"} => server # 0
    <2>1. gen \in Nat /\ \A k \in Gens : k \in Nat /\ k # 0
      BY <1>a, CallsAssumption DEF NodeTyped, NodeTypeOK, Gens
    <2>2. QED
      BY <1>a, <2>1, GenTyped DEF NodeTyped, NodeTypeOK, AwaitsDefined
  <1> USE DEF NodeInv, ServersInv, ResultsInv, StateFollowsServer, Gone, actorVars,
              serverVars, callVars
  <1>1. CASE HandleGetConfig
    BY <1>1, <1>a DEF HandleGetConfig, Receive
  <1>2. CASE HandleChangeConfig
    BY <1>2, <1>a DEF HandleChangeConfig, Receive
  <1>3. CASE HandleListen
    BY <1>3, <1>a DEF HandleListen, Receive
  <1>4. CASE HandleStart
    <2>1. ServersInv'
      BY <1>4, <1>a, <1>b DEF HandleStart, Receive, StopServer, Http, Actor
    <2>2. ResultsInv'
      BY <1>4, <1>a, <1>b DEF HandleStart, Receive, StopServer, Http, Actor
    <2>3. QED
      BY <1>a, <2>1, <2>2
  <1>5. CASE OldStopped
    <2>1. ServersInv'
      BY <1>5, <1>a, <1>b DEF OldStopped, Http, Actor
    <2>2. ResultsInv'
      BY <1>5, <1>a, <1>b DEF OldStopped, Http, Actor
    <2>3. QED
      BY <1>a, <2>1, <2>2
  <1>6. CASE Spawn
    <2>1. ServersInv'
      BY <1>6, <1>a, <1>b DEF Spawn, Http, Actor
    <2>2. ResultsInv'
      BY <1>6, <1>a, <1>b DEF Spawn, Http, Actor
    <2>3. QED
      BY <1>a, <2>1, <2>2
  <1>7. CASE Advertise
    <2>1. ServersInv'
      BY <1>7, <1>a, <1>b DEF Advertise, Http, Actor
    <2>2. ResultsInv'
      BY <1>7, <1>a, <1>b DEF Advertise, Http, Actor
    <2>3. QED
      BY <1>a, <2>1, <2>2
  <1>8. CASE Bound
    <2>1. ServersInv'
      BY <1>8, <1>a, <1>b DEF Bound, Publish, Http, Actor
    <2>2. ResultsInv'
      BY <1>8, <1>a, <1>b DEF Bound, Publish, Http, Actor
    <2>3. QED
      BY <1>a, <2>1, <2>2
  <1>9. CASE HandleShutdown
    <2>1. ServersInv'
      BY <1>9, <1>a, <1>b DEF HandleShutdown, Receive, StopServer, Http, Actor
    <2>2. ResultsInv'
      BY <1>9, <1>a, <1>b DEF HandleShutdown, Receive, StopServer, Http, Actor
    <2>3. QED
      BY <1>a, <2>1, <2>2
  <1>10. CASE ServerStopped
    <2>1. ServersInv'
      BY <1>10, <1>a, <1>b DEF ServerStopped, Http, Actor
    <2>2. ResultsInv'
      BY <1>10, <1>a, <1>b DEF ServerStopped, Http, Actor
    <2>3. QED
      BY <1>a, <2>1, <2>2
  <1>11. CASE PublishStopped
    <2>1. ServersInv'
      BY <1>11, <1>a, <1>b DEF PublishStopped, Publish, Http, Actor
    <2>2. ResultsInv'
      BY <1>11, <1>a, <1>b DEF PublishStopped, Publish, Http, Actor
    <2>3. QED
      BY <1>a, <2>1, <2>2
  <1>12. ASSUME NEW u \in Callers, CallStart(u) PROVE NodeInv'
    BY <1>12, <1>a DEF CallStart, Begin
  <1>13. ASSUME NEW u \in Callers, CallShutdown(u) PROVE NodeInv'
    BY <1>13, <1>a DEF CallShutdown, Begin
  <1>14. ASSUME NEW u \in Callers, NEW p \in {0} \cup BasePorts, CallChange(u, p) PROVE NodeInv'
    BY <1>14, <1>a DEF CallChange, Begin
  <1>15. ASSUME NEW u \in Callers, ChangeConfig(u) PROVE NodeInv'
    BY <1>15, <1>a DEF ChangeConfig
  <1>16. ASSUME NEW k \in Gens, TickerAsks(k) PROVE NodeInv'
    BY <1>16, <1>a DEF TickerAsks
  <1>17. ASSUME NEW k \in Gens, Tick(k) PROVE NodeInv'
    BY <1>17, <1>a DEF Tick
  <1>18. ASSUME NEW k \in Gens, TickerSeesState(k) PROVE NodeInv'
    BY <1>18, <1>a DEF TickerSeesState
  <1>19. ASSUME NEW k \in Gens, NEW others \in SUBSET Ports, Bind(k, others) PROVE NodeInv'
    <2>1. PICK h : /\ http' = [http EXCEPT ![k] = h]
                    /\ h.at \in {"closing", "bound"} /\ h.result \in {"noPort", "bound"}
                    /\ h.signal = http[k].signal
      <3> DEFINE G(at, res, p) == [http[k] EXCEPT !.at = at, !.result = res, !.port = p]
      <3>1. \A at, res, p : /\ G(at, res, p).at = at /\ G(at, res, p).result = res
                             /\ G(at, res, p).signal = http[k].signal
        BY <1>b DEF Http
      <3>2. [http[k] EXCEPT !.at = "closing", !.result = "noPort"] = G("closing", "noPort", http[k].port)
        BY <1>b DEF Http
      <3>3. \/ http' = [http EXCEPT ![k] = [http[k] EXCEPT !.at = "closing", !.result = "noPort"]]
            \/ \E p : http' = [http EXCEPT ![k] = G("bound", "bound", p)]
        BY <1>19 DEF Bind
      <3> HIDE DEF G
      <3>4. CASE http' = [http EXCEPT ![k] = [http[k] EXCEPT !.at = "closing", !.result = "noPort"]]
        <4>1. http' = [http EXCEPT ![k] = G("closing", "noPort", http[k].port)]
          BY <3>2, <3>4
        <4> WITNESS G("closing", "noPort", http[k].port)
        <4>2. QED
          BY <3>1, <4>1
      <3>5. CASE \E p : http' = [http EXCEPT ![k] = G("bound", "bound", p)]
        <4>1. PICK p : http' = [http EXCEPT ![k] = G("bound", "bound", p)]
          BY <3>5
        <4> WITNESS G("bound", "bound", p)
        <4>2. QED
          BY <3>1, <4>1
      <3>6. QED
        BY <3>3, <3>4, <3>5
    <2>2. http[k].at = "binding" /\ disc' = [disc EXCEPT ![k] = "up"]
          /\ UNCHANGED <<actor, server, gen, running>>
      BY <1>19 DEF Bind
    <2>3. ServersInv'
      BY <1>b, <2>1, <2>2
    <2>4. ResultsInv'
      BY <1>b, <2>1, <2>2
    <2>5. QED
      BY <1>a, <2>3, <2>4
  <1>20. ASSUME NEW k \in Gens, Serve(k) PROVE NodeInv'
    <2>1. ServersInv'
      BY <1>20, <1>a, <1>b DEF Serve, Http, Actor
    <2>2. ResultsInv'
      BY <1>20, <1>a, <1>b DEF Serve, Http, Actor
    <2>3. QED
      BY <1>a, <2>1, <2>2
  <1>21. ASSUME NEW k \in Gens, TlsFails(k) PROVE NodeInv'
    <2>1. ServersInv'
      BY <1>21, <1>a, <1>b DEF TlsFails, Http, Actor
    <2>2. ResultsInv'
      BY <1>21, <1>a, <1>b DEF TlsFails, Http, Actor
    <2>3. QED
      BY <1>a, <2>1, <2>2
  <1>22. ASSUME NEW k \in Gens, Accept(k) PROVE NodeInv'
    BY <1>22, <1>a DEF Accept
  <1>23. ASSUME NEW k \in Gens, Drain(k) PROVE NodeInv'
    <2>1. ServersInv'
      BY <1>23, <1>a, <1>b DEF Drain, Http, Actor
    <2>2. ResultsInv'
      BY <1>23, <1>a, <1>b DEF Drain, Http, Actor
    <2>3. QED
      BY <1>a, <2>1, <2>2
  <1>24. ASSUME NEW k \in Gens, Drained(k) PROVE NodeInv'
    <2>1. ServersInv'
      BY <1>24, <1>a, <1>b DEF Drained, Http, Actor
    <2>2. ResultsInv'
      BY <1>24, <1>a, <1>b DEF Drained, Http, Actor
    <2>3. QED
      BY <1>a, <2>1, <2>2
  <1>25. ASSUME NEW k \in Gens, Stopped(k) PROVE NodeInv'
    <2>1. ServersInv'
      BY <1>25, <1>a, <1>b DEF Stopped, Http, Actor
    <2>2. ResultsInv'
      BY <1>25, <1>a, <1>b DEF Stopped, Http, Actor
    <2>3. QED
      BY <1>a, <2>1, <2>2
  <1>26. ASSUME NEW k \in Gens, DiscoveryEnds(k) PROVE NodeInv'
    <2>1. ServersInv'
      BY <1>26, <1>a, <1>b DEF DiscoveryEnds, Http, Actor
    <2>2. ResultsInv'
      BY <1>26, <1>a, <1>b DEF DiscoveryEnds, Http, Actor
    <2>3. QED
      BY <1>a, <2>1, <2>2
  <1>27. ASSUME NEW c \in Conns, Connect(c) PROVE NodeInv'
    BY <1>27, <1>a DEF Connect
  <1>28. ASSUME NEW c \in Conns, Speak(c) PROVE NodeInv'
    BY <1>28, <1>a DEF Speak
  <1>29. ASSUME NEW c \in Conns, HangUp(c) PROVE NodeInv'
    BY <1>29, <1>a DEF HangUp
  <1>30. ASSUME NEW c \in Conns, HandlerAsks(c) PROVE NodeInv'
    BY <1>30, <1>a DEF HandlerAsks
  <1>31. ASSUME NEW c \in Conns, HandlerWorks(c) PROVE NodeInv'
    BY <1>31, <1>a DEF HandlerWorks
  <1>32. ASSUME NEW c \in Conns, HandlerEnds(c) PROVE NodeInv'
    BY <1>32, <1>a DEF HandlerEnds
  <1>33. CASE UNCHANGED nodeVars
    BY <1>a, <1>33 DEF nodeVars
  <1>34. QED
    BY <1>1, <1>2, <1>3, <1>4, <1>5, <1>6, <1>7, <1>8, <1>9, <1>10, <1>11,
       <1>12, <1>13, <1>14, <1>15, <1>16, <1>17, <1>18, <1>19, <1>20, <1>21, <1>22,
       <1>23, <1>24, <1>25, <1>26, <1>27, <1>28, <1>29, <1>30, <1>31, <1>32, <1>33
    DEF NodeNext, ActorNext, CallerNext, TickerNext, ServerNext, ConnNext

LEMMA NodeInvHolds == NodeSpec => []NodeInv
  BY NodeInvInit, NodeInvNext, PTL DEF NodeSpec

(* HttpServerHandle::shutdown, awaited by a start: however starts,         *)
(* shutdowns, failing binds and handlers interleave, a server is started   *)
(* only when every earlier one has stopped and its discovery is gone.      *)
THEOREM OneServerAtATime == NodeSpec => []OneServer
  <1>1. NodeInv => OneServer
    BY CallsAssumption DEF NodeInv, NodeTyped, NodeTypeOK, ServersInv, OneServer, Gone, Gens
  <1>2. QED
    BY <1>1, NodeInvHolds, PTL

(* server_state: between two messages the channel says whether the actor   *)
(* holds a server that has bound its port and was not told to stop.        *)
THEOREM StateIsTruthful == NodeSpec => []StateFollowsServer
  <1>1. NodeInv => StateFollowsServer
    BY DEF NodeInv, ResultsInv
  <1>2. QED
    BY <1>1, NodeInvHolds, PTL

-----------------------------------------------------------------------------
(* The announced port *)

Busy == actor.at \notin {"idle", "publish"}

(* A caller has one message in the channel or is the one the actor works   *)
(* for, and awaits the answer.                                             *)
MailInv ==
    \A i \in 1 .. Len(inbox) : inbox[i].from \in Callers =>
        /\ call[inbox[i].from].at = IF inbox[i].kind = "GetConfig" THEN "reading" ELSE "waiting"
        /\ inbox[i].kind \in {"Start", "Shutdown"} => ~call[inbox[i].from].changes
        /\ Busy => inbox[i].from # actor.for

OneMessageInv ==
    \A i, j \in 1 .. Len(inbox) :
        inbox[i].from = inbox[j].from /\ inbox[i].from \in Callers => i = j

CallsInv ==
    /\ Busy => call[actor.for].at = "waiting" /\ ~call[actor.for].changes
    /\ \A u \in Callers : call[u].at \in {"reading", "read"} => call[u].changes

(* As long as no change overlapped another call: a change is alone, so     *)
(* that a start writes back the device it read, and the device differs     *)
(* from the configuration only between the two writes of a change.         *)
AloneInv ==
    ~crossed => \A u, v \in Callers :
        u # v /\ call[u].at # "idle" /\ call[v].at # "idle" => ~call[u].changes

PortInv ==
    ~crossed =>
        /\ actor.at = "advertise" => actor.read = device
        /\ \A i \in 1 .. Len(inbox) : inbox[i].kind = "ChangeConfig" =>
              inbox[i].port = device /\ call[inbox[i].from].changes
        /\ device # config => \E u \in Callers : call[u].at = "waiting" /\ call[u].changes

AnnounceInv == MailInv /\ OneMessageInv /\ CallsInv /\ AloneInv /\ PortInv

LEMMA TakenFrom ==
  ASSUME NodeTypeOK, NEW kind, Receive(kind)
  PROVE  /\ 1 \in 1 .. Len(inbox) /\ inbox[1] = Head(inbox)
         /\ inbox[1] \in Message /\ inbox[1].kind = kind
         /\ \A i \in 1 .. Len(inbox') : /\ i + 1 \in 1 .. Len(inbox) /\ i + 1 # 1
                                        /\ inbox'[i] = inbox[i + 1]
  <1>1. inbox \in Seq(Message) /\ inbox # <<>> /\ inbox' = Tail(inbox)
    BY DEF NodeTypeOK, Receive
  <1>2. Len(inbox) \in Nat /\ Len(inbox) # 0 /\ Len(inbox') = Len(inbox) - 1
    BY <1>1
  <1>3. 1 \in 1 .. Len(inbox) /\ inbox[1] = Head(inbox)
    BY <1>1, <1>2
  <1>4. ASSUME NEW i \in 1 .. Len(inbox')
        PROVE  i + 1 \in 1 .. Len(inbox) /\ i + 1 # 1 /\ inbox'[i] = inbox[i + 1]
    BY <1>1, <1>2
  <1>5. QED
    BY <1>1, <1>3, <1>4, HeadTyped DEF Receive

LEMMA AddedTo ==
  ASSUME NodeTypeOK, NEW m, inbox' = Append(inbox, m)
  PROVE  \A i \in 1 .. Len(inbox') :
            \/ i \in 1 .. Len(inbox) /\ inbox'[i] = inbox[i]
            \/ i = Len(inbox) + 1 /\ inbox'[i] = m
  BY DEF NodeTypeOK

(* A message of a ticker or of a handler concerns no caller. *)
LEMMA OthersAnnounce ==
  ASSUME NodeTypeOK, AnnounceInv, NEW kind \in {"Listen", "GetConfig"}, NEW from, from \notin Callers,
         inbox' = Post(kind, from), UNCHANGED <<actor, config, device, call, crossed>>
  PROVE  AnnounceInv'
  <1> DEFINE m == [kind |-> kind, from |-> from, port |-> 1]
  <1>1. \A i \in 1 .. Len(inbox') :
            \/ i \in 1 .. Len(inbox) /\ inbox'[i] = inbox[i]
            \/ i = Len(inbox) + 1 /\ inbox'[i] = m
    BY AddedTo DEF Post
  <1>2. m.from \notin Callers /\ m.kind # "ChangeConfig"
    OBVIOUS
  <1> HIDE DEF m
  <1>3. MailInv'
    BY <1>1, <1>2 DEF AnnounceInv, MailInv, Busy
  <1>4. OneMessageInv'
    BY <1>1, <1>2 DEF AnnounceInv, OneMessageInv
  <1>5. CallsInv' /\ AloneInv'
    BY DEF AnnounceInv, CallsInv, AloneInv, Busy
  <1>6. PortInv'
    BY <1>1, <1>2 DEF AnnounceInv, PortInv
  <1>7. QED
    BY <1>3, <1>4, <1>5, <1>6 DEF AnnounceInv

LEMMA QuietAnnounce ==
  ASSUME AnnounceInv, UNCHANGED <<inbox, actor, config, device, call, crossed>>
  PROVE  AnnounceInv'
  BY DEF AnnounceInv, MailInv, OneMessageInv, CallsInv, AloneInv, PortInv, Busy

(* A new call: if it changes the configuration or overlaps one that does,  *)
(* nothing is claimed any more.                                            *)
LEMMA BeginAnnounce ==
  ASSUME NodeTypeOK, AnnounceInv, NEW u \in Callers, NEW kind, NEW at, NEW changes \in BOOLEAN,
         NEW new,
         \/ kind \in {"Start", "Shutdown"} /\ at = "waiting" /\ changes = FALSE
         \/ kind = "GetConfig" /\ at = "reading" /\ changes = TRUE,
         Begin(u, at, changes, new), inbox' = Post(kind, u)
  PROVE  AnnounceInv'
  <1> DEFINE m == [kind |-> kind, from |-> u, port |-> 1]
  <1>1. \A i \in 1 .. Len(inbox') :
            \/ i \in 1 .. Len(inbox) /\ inbox'[i] = inbox[i]
            \/ i = Len(inbox) + 1 /\ inbox'[i] = m
    BY AddedTo DEF Post
  <1>2. m.from = u /\ m.kind = kind
    OBVIOUS
  <1> HIDE DEF m
  <1>3. /\ call[u].at = "idle" /\ call'[u].at = at /\ call'[u].changes = changes
        /\ \A v \in Callers : v # u => call'[v] = call[v]
        /\ UNCHANGED <<actor, config, device>>
    BY DEF Begin, NodeTypeOK, Call
  <1>4. crossed' = (crossed \/ \E v \in Callers \ {u} :
                                 call[v].at # "idle" /\ (changes \/ call[v].changes))
    BY DEF Begin
  <1>5. (\A i \in 1 .. Len(inbox) : inbox[i].from # u) /\ (Busy => actor.for # u)
    BY <1>3 DEF AnnounceInv, MailInv, CallsInv
  <1>6. MailInv'
    BY <1>1, <1>2, <1>3, <1>5 DEF AnnounceInv, MailInv, Busy
  <1>7. OneMessageInv'
    BY <1>1, <1>2, <1>5 DEF AnnounceInv, OneMessageInv
  <1>8. CallsInv'
    <2>1. actor.for \in Callers
      BY DEF NodeTypeOK, Actor
    <2>2. QED
      BY <1>3, <1>5, <2>1 DEF AnnounceInv, CallsInv, Busy
  <1>9. AloneInv'
    BY <1>3, <1>4 DEF AnnounceInv, AloneInv
  <1>10. PortInv'
    <2> SUFFICES ASSUME ~crossed' PROVE PortInv'
      BY DEF PortInv
    <2>1. ~crossed
      BY <1>4
    <2>2. actor'.at = "advertise" => actor'.read = device'
      BY <1>3, <2>1 DEF AnnounceInv, PortInv
    <2>3. ASSUME NEW i \in 1 .. Len(inbox'), inbox'[i].kind = "ChangeConfig"
          PROVE  inbox'[i].port = device' /\ call'[inbox'[i].from].changes
      <3>1. i \in 1 .. Len(inbox) /\ inbox'[i] = inbox[i]
        BY <1>1, <1>2, <2>3
      <3>2. inbox[i] \in Message
        BY <3>1 DEF NodeTypeOK
      <3>3. inbox[i].from \in Callers
        BY <2>3, <3>1, <3>2 DEF Message
      <3>4. QED
        BY <1>3, <1>5, <2>1, <2>3, <3>1, <3>3 DEF AnnounceInv, PortInv
    <2>4. device' # config' => \E v \in Callers : call'[v].at = "waiting" /\ call'[v].changes
      BY <1>3, <2>1 DEF AnnounceInv, PortInv
    <2>5. QED
      BY <2>2, <2>3, <2>4 DEF PortInv
  <1>11. QED
    BY <1>6, <1>7, <1>8, <1>9, <1>10 DEF AnnounceInv

(* What is left in the channel when the actor takes a message. *)
LEMMA RestAnnounce ==
  ASSUME NodeTypeOK, AnnounceInv, NEW kind, Receive(kind)
  PROVE  /\ OneMessageInv'
         /\ \A i \in 1 .. Len(inbox') :
               /\ inbox'[i] \in Message
               /\ inbox'[i].from \in Callers =>
                     /\ inbox'[i].from # inbox[1].from
                     /\ call[inbox'[i].from].at =
                           IF inbox'[i].kind = "GetConfig" THEN "reading" ELSE "waiting"
                     /\ inbox'[i].kind \in {"Start", "Shutdown"} => ~call[inbox'[i].from].changes
               /\ inbox'[i].kind = "ChangeConfig" =>
                     /\ inbox'[i].from \in Callers
                     /\ ~crossed => inbox'[i].port = device /\ call[inbox'[i].from].changes
  <1>1. \A i \in 1 .. Len(inbox') : /\ i + 1 \in 1 .. Len(inbox) /\ i + 1 # 1
                                    /\ inbox'[i] = inbox[i + 1]
    BY TakenFrom
  <1>2. 1 \in 1 .. Len(inbox)
    BY TakenFrom
  <1>3. \A i \in 1 .. Len(inbox) :
          inbox[i] \in Message /\ (inbox[i].kind = "ChangeConfig" => inbox[i].from \in Callers)
    BY DEF NodeTypeOK, Message
  <1>4. OneMessageInv'
    <2> SUFFICES ASSUME NEW i \in 1 .. Len(inbox'), NEW j \in 1 .. Len(inbox'),
                        inbox'[i].from = inbox'[j].from, inbox'[i].from \in Callers
                 PROVE  i = j
      BY DEF OneMessageInv
    <2>1. i + 1 = j + 1
      BY <1>1 DEF AnnounceInv, OneMessageInv
    <2>2. QED
      BY <2>1
  <1>5. ASSUME NEW i \in 1 .. Len(inbox')
        PROVE  /\ inbox'[i] \in Message
               /\ inbox'[i].from \in Callers =>
                     /\ inbox'[i].from # inbox[1].from
                     /\ call[inbox'[i].from].at =
                           IF inbox'[i].kind = "GetConfig" THEN "reading" ELSE "waiting"
                     /\ inbox'[i].kind \in {"Start", "Shutdown"} => ~call[inbox'[i].from].changes
               /\ inbox'[i].kind = "ChangeConfig" =>
                     /\ inbox'[i].from \in Callers
                     /\ ~crossed => inbox'[i].port = device /\ call[inbox'[i].from].changes
    <2>1. i + 1 \in 1 .. Len(inbox) /\ i + 1 # 1 /\ inbox'[i] = inbox[i + 1]
      BY <1>1
    <2>2. inbox[i + 1].from \in Callers => inbox[i + 1].from # inbox[1].from
      BY <1>2, <2>1 DEF AnnounceInv, OneMessageInv
    <2>3. inbox[i + 1].from \in Callers =>
             /\ call[inbox[i + 1].from].at =
                   IF inbox[i + 1].kind = "GetConfig" THEN "reading" ELSE "waiting"
             /\ inbox[i + 1].kind \in {"Start", "Shutdown"} => ~call[inbox[i + 1].from].changes
      BY <2>1 DEF AnnounceInv, MailInv
    <2>4. ~crossed /\ inbox[i + 1].kind = "ChangeConfig" =>
             inbox[i + 1].port = device /\ call[inbox[i + 1].from].changes
      BY <2>1 DEF AnnounceInv, PortInv
    <2>5. QED
      BY <1>3, <2>1, <2>2, <2>3, <2>4
  <1>6. QED
    BY <1>4, <1>5

(* The actor is idle while it takes a message. *)
LEMMA GetConfigAnnounce ==
  ASSUME NodeTypeOK, AnnounceInv, HandleGetConfig
  PROVE  AnnounceInv'
  <1>1. /\ Receive("GetConfig") /\ ~Busy /\ UNCHANGED <<actor, config, device, crossed>>
        /\ \A u \in Callers : call'[u] = IF u = Head(inbox).from THEN Changed(call[u]) ELSE call[u]
    BY DEF HandleGetConfig, Receive, Busy
  <1> DEFINE w == inbox[1].from
  <1>2. w = Head(inbox).from /\ (w \in Callers => call[w].at = "reading")
    BY <1>1, TakenFrom DEF AnnounceInv, MailInv
  <1>3. \A u \in Callers : /\ call'[u].changes = call[u].changes
                           /\ u # w => call'[u] = call[u]
                           /\ u = w => call'[u].at = "read"
    <2>1. \A u \in Callers : Changed(call[u]).at = "read" /\ Changed(call[u]).changes = call[u].changes
      BY DEF Changed, NodeTypeOK, Call
    <2>2. QED
      BY <1>1, <1>2, <2>1
  <1> HIDE DEF w
  <1>4. OneMessageInv' /\ MailInv'
    BY <1>1, <1>3, RestAnnounce DEF MailInv, Busy, w
  <1>5. CallsInv'
    BY <1>1, <1>2, <1>3 DEF AnnounceInv, CallsInv, Busy
  <1>6. AloneInv'
    BY <1>1, <1>2, <1>3 DEF AnnounceInv, AloneInv
  <1>7. PortInv'
    <2>1. \A u \in Callers : call[u].at = "waiting" => call'[u] = call[u]
      BY <1>2, <1>3
    <2>2. QED
      BY <1>1, <1>3, <2>1, RestAnnounce DEF AnnounceInv, PortInv, w
  <1>8. QED
    BY <1>4, <1>5, <1>6, <1>7 DEF AnnounceInv

(* An answer ends the call of u and nothing else. *)
LEMMA Answered ==
  ASSUME NodeTypeOK, NEW u \in Callers, Answer(u)
  PROVE  /\ call'[u].at = "idle"
         /\ \A v \in Callers : v # u => call'[v] = call[v]
  BY DEF Answer, NodeTypeOK, Call

LEMMA ChangeConfigAnnounce ==
  ASSUME NodeTypeOK, AnnounceInv, HandleChangeConfig
  PROVE  AnnounceInv'
  <1> DEFINE w == inbox[1].from
  <1>1. /\ Receive("ChangeConfig") /\ ~Busy /\ UNCHANGED <<actor, device, crossed>>
        /\ config' = Head(inbox).port /\ Answer(Head(inbox).from)
    BY DEF HandleChangeConfig, Receive, Busy
  <1>2. /\ w = Head(inbox).from /\ w \in Callers /\ config' = inbox[1].port
        /\ ~crossed => inbox[1].port = device
    <2>1. 1 \in 1 .. Len(inbox) /\ inbox[1] = Head(inbox) /\ inbox[1].kind = "ChangeConfig"
      BY <1>1, TakenFrom
    <2>2. inbox # <<>>
      BY <1>1 DEF Receive
    <2>3. Head(inbox).from \in Callers
      BY <2>1, <2>2, HeadTyped
    <2>4. QED
      BY <1>1, <2>1, <2>3 DEF AnnounceInv, PortInv
  <1>3. call'[w].at = "idle" /\ \A v \in Callers : v # w => call'[v] = call[v]
    BY <1>1, <1>2, Answered
  <1> HIDE DEF w
  <1>4. OneMessageInv' /\ MailInv'
    BY <1>1, <1>2, <1>3, RestAnnounce DEF MailInv, Busy, w
  <1>5. CallsInv'
    BY <1>1, <1>2, <1>3 DEF AnnounceInv, CallsInv, Busy
  <1>6. AloneInv'
    BY <1>1, <1>2, <1>3 DEF AnnounceInv, AloneInv
  <1>7. PortInv'
    <2> SUFFICES ASSUME ~crossed PROVE PortInv'
      BY <1>1 DEF PortInv
    <2>1. device' = config'
      BY <1>1, <1>2
    <2>2. actor'.at # "advertise"
      BY <1>1 DEF Busy
    <2>3. \A i \in 1 .. Len(inbox') : inbox'[i].kind = "ChangeConfig" =>
              inbox'[i].port = device' /\ call'[inbox'[i].from].changes
      BY <1>1, <1>3, RestAnnounce DEF w
    <2>4. QED
      BY <2>1, <2>2, <2>3 DEF PortInv
  <1>8. QED
    BY <1>4, <1>5, <1>6, <1>7 DEF AnnounceInv

LEMMA ListenAnnounce ==
  ASSUME NodeTypeOK, AnnounceInv, HandleListen
  PROVE  AnnounceInv'
  <1>1. /\ Receive("Listen") /\ ~Busy /\ UNCHANGED <<actor, config, device, call, crossed>>
    BY DEF HandleListen, Receive, Busy, callVars
  <1>2. OneMessageInv' /\ MailInv'
    BY <1>1, RestAnnounce DEF MailInv, Busy
  <1>3. CallsInv' /\ AloneInv'
    BY <1>1 DEF AnnounceInv, CallsInv, AloneInv, Busy
  <1>4. PortInv'
    BY <1>1, RestAnnounce DEF AnnounceInv, PortInv
  <1>5. QED
    BY <1>2, <1>3, <1>4 DEF AnnounceInv

(* A start or a shutdown is taken: its caller is the one the actor works   *)
(* for, unless it is answered at once.                                     *)
LEMMA WorkAnnounce ==
  ASSUME NodeTypeOK, AnnounceInv, NEW kind \in {"Start", "Shutdown"}, Receive(kind),
         NEW stopping \in {"stopOld", "stopServer"}, NEW without \in {"spawn", "publish"},
         StopServer(stopping, without), UNCHANGED <<config, device, crossed>>,
         IF server = 0 /\ without = "publish" THEN Answer(Head(inbox).from) ELSE UNCHANGED call
  PROVE  AnnounceInv'
  <1> DEFINE w == inbox[1].from
  <1>1. /\ w = Head(inbox).from /\ w \in Callers
        /\ call[w].at = "waiting" /\ ~call[w].changes
    <2>1. 1 \in 1 .. Len(inbox) /\ inbox[1] = Head(inbox) /\ inbox[1].kind = kind
      BY TakenFrom
    <2>2. inbox # <<>>
      BY DEF Receive
    <2>3. Head(inbox).from \in Callers
      BY <2>1, <2>2, HeadTyped
    <2>4. QED
      BY <2>1, <2>3 DEF AnnounceInv, MailInv
  <1>2. /\ actor'.for = w /\ actor'.at = IF server # 0 THEN stopping ELSE without
    BY <1>1 DEF StopServer, NodeTypeOK, Actor
  <1>3. \/ call' = call
        \/ /\ call'[w].at = "idle" /\ \A v \in Callers : v # w => call'[v] = call[v]
           /\ ~Busy'
    BY <1>1, <1>2, Answered DEF Busy
  <1>4. \A v \in Callers : v # w => call'[v] = call[v]
    BY <1>3
  <1>5. Busy' => call' = call
    BY <1>3
  <1> HIDE DEF w
  <1>6. OneMessageInv' /\ MailInv'
    BY <1>2, <1>4, RestAnnounce DEF MailInv, w
  <1>7. CallsInv'
    BY <1>1, <1>2, <1>3, <1>4 DEF AnnounceInv, CallsInv
  <1>8. AloneInv'
    BY <1>1, <1>3, <1>4 DEF AnnounceInv, AloneInv
  <1>9. PortInv'
    <2> SUFFICES ASSUME ~crossed PROVE PortInv'
      BY DEF PortInv
    <2>1. actor'.at # "advertise"
      BY <1>2
    <2>2. \A i \in 1 .. Len(inbox') : inbox'[i].kind = "ChangeConfig" =>
              inbox'[i].port = device' /\ call'[inbox'[i].from].changes
      BY <1>4, RestAnnounce DEF w
    <2>3. device' # config' => \E u \in Callers : call'[u].at = "waiting" /\ call'[u].changes
      BY <1>1, <1>4 DEF AnnounceInv, PortInv
    <2>4. QED
      BY <2>1, <2>2, <2>3 DEF PortInv
  <1>10. QED
    BY <1>6, <1>7, <1>8, <1>9 DEF AnnounceInv

(* The actor goes on working for the same caller. *)
LEMMA AwaitAnnounce ==
  ASSUME NodeTypeOK, AnnounceInv, Busy, UNCHANGED <<inbox, config, call, crossed>>,
         device' = device, Busy', actor'.for = actor.for,
         actor'.at = "advertise" => actor'.read = device
  PROVE  AnnounceInv'
  <1>1. MailInv' /\ OneMessageInv' /\ CallsInv' /\ AloneInv'
    BY DEF AnnounceInv, MailInv, OneMessageInv, CallsInv, AloneInv
  <1>2. PortInv'
    BY DEF AnnounceInv, PortInv
  <1>3. QED
    BY <1>1, <1>2 DEF AnnounceInv

(* While the actor works for a caller, nobody changes the configuration:   *)
(* it agrees with the device.                                              *)
LEMMA BusyAgrees ==
  ASSUME NodeTypeOK, AnnounceInv, Busy, ~crossed
  PROVE  /\ device = config
         /\ \A u \in Callers : call[u].at # "idle" => ~call[u].changes
  <1>1. actor.for \in Callers /\ call[actor.for].at = "waiting" /\ ~call[actor.for].changes
    BY DEF NodeTypeOK, Actor, AnnounceInv, CallsInv
  <1>2. \A u \in Callers : call[u].at # "idle" => ~call[u].changes
    BY <1>1 DEF AnnounceInv, AloneInv
  <1>3. QED
    BY <1>2 DEF AnnounceInv, PortInv

(* The caller the actor worked for is answered. *)
LEMMA DoneAnnounce ==
  ASSUME NodeTypeOK, AnnounceInv, Busy, Answer(actor.for), UNCHANGED <<inbox, crossed>>,
         actor'.at \in {"idle", "publish"}, ~crossed => device' = config'
  PROVE  AnnounceInv'
  <1>1. actor.for \in Callers
    BY DEF NodeTypeOK, Actor
  <1>2. call'[actor.for].at = "idle" /\ \A v \in Callers : v # actor.for => call'[v] = call[v]
    BY <1>1, Answered
  <1>3. ~Busy'
    BY DEF Busy
  <1>4. MailInv'
    BY <1>2, <1>3 DEF AnnounceInv, MailInv
  <1>5. OneMessageInv'
    BY DEF AnnounceInv, OneMessageInv
  <1>6. CallsInv'
    BY <1>2, <1>3 DEF AnnounceInv, CallsInv
  <1>7. AloneInv'
    BY <1>1, <1>2 DEF AnnounceInv, AloneInv
  <1>8. PortInv'
    <2> SUFFICES ASSUME ~crossed PROVE PortInv'
      BY DEF PortInv
    <2>1. ASSUME NEW i \in 1 .. Len(inbox) PROVE inbox[i].kind # "ChangeConfig"
      <3>1. inbox[i] \in Message
        BY DEF NodeTypeOK
      <3>2. inbox[i].kind = "ChangeConfig" => inbox[i].from \in Callers
        BY <3>1 DEF Message
      <3>3. QED
        BY <3>2, BusyAgrees DEF AnnounceInv, PortInv, MailInv
    <2>2. QED
      BY <2>1 DEF PortInv
  <1>9. QED
    BY <1>4, <1>5, <1>6, <1>7, <1>8 DEF AnnounceInv

(* change_config writes the device: the call is alone, or nothing is       *)
(* claimed.                                                                *)
LEMMA WriteAnnounce ==
  ASSUME NodeTypeOK, AnnounceInv, NEW u \in Callers, ChangeConfig(u)
  PROVE  AnnounceInv'
  <1> DEFINE m == [kind |-> "ChangeConfig", from |-> u, port |-> call[u].port]
  <1>1. /\ call[u].at = "read" /\ call'[u].at = "waiting" /\ call'[u].changes = call[u].changes
        /\ \A v \in Callers : v # u => call'[v] = call[v]
        /\ device' = call[u].port /\ inbox' = Append(inbox, m)
        /\ UNCHANGED <<actor, config, crossed>>
    BY DEF ChangeConfig, NodeTypeOK, Call
  <1>2. call[u].changes
    BY <1>1 DEF AnnounceInv, CallsInv
  <1>3. \A i \in 1 .. Len(inbox') :
            \/ i \in 1 .. Len(inbox) /\ inbox'[i] = inbox[i]
            \/ i = Len(inbox) + 1 /\ inbox'[i] = m
    BY <1>1, AddedTo
  <1>4. m.from = u /\ m.kind = "ChangeConfig" /\ m.port = device'
    BY <1>1
  <1> HIDE DEF m
  <1>5. actor.for \in Callers /\ (Busy => actor.for # u)
    BY <1>1 DEF AnnounceInv, CallsInv, NodeTypeOK, Actor
  <1>6. \A i \in 1 .. Len(inbox) : inbox[i].from # u
    BY <1>1 DEF AnnounceInv, MailInv
  <1>7. MailInv'
    BY <1>1, <1>3, <1>4, <1>5, <1>6 DEF AnnounceInv, MailInv, Busy
  <1>8. OneMessageInv'
    BY <1>3, <1>4, <1>6 DEF AnnounceInv, OneMessageInv
  <1>9. CallsInv'
    BY <1>1, <1>5 DEF AnnounceInv, CallsInv, Busy
  <1>10. AloneInv'
    BY <1>1 DEF AnnounceInv, AloneInv
  <1>11. PortInv'
    <2> SUFFICES ASSUME ~crossed PROVE PortInv'
      BY <1>1 DEF PortInv
    <2>1. \A v \in Callers : v # u => call[v].at = "idle"
      BY <1>1, <1>2 DEF AnnounceInv, AloneInv
    <2>2. ~Busy
      BY <1>5, <2>1 DEF AnnounceInv, CallsInv
    <2>3. ASSUME NEW i \in 1 .. Len(inbox) PROVE inbox[i].kind # "ChangeConfig"
      <3>1. inbox[i] \in Message
        BY DEF NodeTypeOK
      <3>2. inbox[i].kind = "ChangeConfig" => inbox[i].from \in Callers
        BY <3>1 DEF Message
      <3>3. QED
        BY <1>6, <2>1, <3>2 DEF AnnounceInv, MailInv
    <2>4. \A i \in 1 .. Len(inbox') : inbox'[i].kind = "ChangeConfig" => inbox'[i] = m
      BY <1>3, <2>3
    <2>5. QED
      BY <1>1, <1>2, <1>4, <2>2, <2>4 DEF PortInv, Busy
  <1>12. QED
    BY <1>7, <1>8, <1>9, <1>10, <1>11 DEF AnnounceInv

LEMMA AnnounceInit == NodeInit => AnnounceInv
  <1> SUFFICES ASSUME NodeInit PROVE AnnounceInv
    OBVIOUS
  <1>1. Len(inbox) = 0 /\ device = config /\ actor.at = "idle"
        /\ \A u \in Callers : call[u].at = "idle"
    BY DEF NodeInit
  <1>2. QED
    BY <1>1 DEF AnnounceInv, MailInv, OneMessageInv, CallsInv, AloneInv, PortInv, Busy

LEMMA AnnounceNext == NodeTyped /\ AnnounceInv /\ [NodeNext]_nodeVars => AnnounceInv'
  <1> SUFFICES ASSUME NodeTyped, AnnounceInv, [NodeNext]_nodeVars
               PROVE  AnnounceInv'
    OBVIOUS
  <1>a. NodeTypeOK /\ actor \in Actor
    BY DEF NodeTyped, NodeTypeOK
  <1>1. CASE HandleGetConfig
    BY <1>1, <1>a, GetConfigAnnounce
  <1>2. CASE HandleChangeConfig
    BY <1>2, <1>a, ChangeConfigAnnounce
  <1>3. CASE HandleListen
    BY <1>3, <1>a, ListenAnnounce
  <1>4. CASE HandleStart
    <2>1. Receive("Start") /\ StopServer("stopOld", "spawn")
          /\ UNCHANGED <<config, device, call, crossed>>
      BY <1>4 DEF HandleStart, callVars
    <2>2. QED
      BY <1>a, <2>1, WorkAnnounce
  <1>5. CASE OldStopped
    <2>1. /\ Busy /\ Busy' /\ actor'.for = actor.for /\ actor'.at = "spawn"
          /\ UNCHANGED <<inbox, config, device, call, crossed>>
      BY <1>5, <1>a DEF OldStopped, Busy, Actor, callVars
    <2>2. QED
      BY <1>a, <2>1, AwaitAnnounce
  <1>6. CASE Spawn
    <2>1. /\ Busy /\ Busy' /\ actor'.for = actor.for /\ actor'.read = device
          /\ UNCHANGED <<inbox, config, device, call, crossed>>
      BY <1>6, <1>a DEF Spawn, Busy, Actor, callVars
    <2>2. QED
      BY <1>a, <2>1, AwaitAnnounce
  <1>7. CASE Advertise
    <2>1. /\ Busy /\ Busy' /\ actor'.for = actor.for /\ actor'.at = "bind"
          /\ actor.at = "advertise" /\ device' = actor.read
          /\ UNCHANGED <<inbox, config, call, crossed>>
      BY <1>7, <1>a DEF Advertise, Busy, Actor, callVars
    <2>2. CASE device' = device
      BY <1>a, <2>1, <2>2, AwaitAnnounce
    <2>3. CASE device' # device
      <3>1. crossed /\ crossed'
        BY <2>1, <2>3 DEF AnnounceInv, PortInv
      <3>2. QED
        BY <2>1, <3>1 DEF AnnounceInv, MailInv, OneMessageInv, CallsInv, AloneInv, PortInv
    <2>4. QED
      BY <2>2, <2>3
  <1>8. CASE Bound
    <2>1. /\ Busy /\ actor'.at = "idle" /\ Answer(actor.for) /\ UNCHANGED <<inbox, crossed>>
      BY <1>8, <1>a DEF Bound, Busy, Actor
    <2>2. device = config => device' = config'
      BY <1>8 DEF Bound
    <2>3. QED
      BY <1>a, <2>1, <2>2, BusyAgrees, DoneAnnounce
  <1>9. CASE HandleShutdown
    <2>1. /\ Receive("Shutdown") /\ StopServer("stopServer", "publish")
          /\ UNCHANGED <<config, device, crossed>>
          /\ IF server = 0 THEN Answer(Head(inbox).from) ELSE UNCHANGED call
      BY <1>9 DEF HandleShutdown
    <2>2. QED
      BY <1>a, <2>1, WorkAnnounce
  <1>10. CASE ServerStopped
    <2>1. /\ Busy /\ actor'.at = "publish" /\ Answer(actor.for)
          /\ UNCHANGED <<inbox, crossed, device, config>>
      BY <1>10, <1>a DEF ServerStopped, Busy, Actor
    <2>2. QED
      BY <1>a, <2>1, BusyAgrees, DoneAnnounce
  <1>11. CASE PublishStopped
    <2>1. /\ ~Busy /\ ~Busy' /\ actor.at = "publish" /\ actor'.at = "idle"
          /\ UNCHANGED <<inbox, config, device, call, crossed>>
      BY <1>11, <1>a DEF PublishStopped, Busy, Actor, callVars
    <2>2. QED
      BY <2>1 DEF AnnounceInv, MailInv, OneMessageInv, CallsInv, AloneInv, PortInv
  <1>12. ASSUME NEW u \in Callers,
                CallStart(u) \/ CallShutdown(u) \/ \E p \in {0} \cup BasePorts : CallChange(u, p)
         PROVE  AnnounceInv'
    BY <1>12, <1>a, BeginAnnounce DEF CallStart, CallShutdown, CallChange
  <1>13. ASSUME NEW u \in Callers, ChangeConfig(u) PROVE AnnounceInv'
    BY <1>13, <1>a, WriteAnnounce
  <1>14. ASSUME NEW k \in Gens, TickerAsks(k) \/ Tick(k) PROVE AnnounceInv'
    <2>1. k \notin Callers
      BY NamesAssumption
    <2>2. QED
      BY <1>14, <1>a, <2>1, OthersAnnounce DEF TickerAsks, Tick, callVars
  <1>15. ASSUME NEW c \in Conns, HandlerAsks(c) PROVE AnnounceInv'
    <2>1. c \notin Callers
      BY NamesAssumption
    <2>2. QED
      BY <1>15, <1>a, <2>1, OthersAnnounce DEF HandlerAsks, callVars
  <1>16. ASSUME NEW k \in Gens, TickerSeesState(k) \/ ServerNext(k) \/ DiscoveryEnds(k)
         PROVE  AnnounceInv'
    <2>1. UNCHANGED <<inbox, actor, config, device, call, crossed>>
      BY <1>16 DEF TickerSeesState, ServerNext, DiscoveryEnds, Bind, Serve, TlsFails, Accept,
                   Drain, Drained, Stopped, actorVars, callVars
    <2>2. QED
      BY <2>1, QuietAnnounce
  <1>17. ASSUME NEW c \in Conns,
                Connect(c) \/ Speak(c) \/ HangUp(c) \/ HandlerWorks(c) \/ HandlerEnds(c)
         PROVE  AnnounceInv'
    <2>1. UNCHANGED <<inbox, actor, config, device, call, crossed>>
      BY <1>17 DEF Connect, Speak, HangUp, HandlerWorks, HandlerEnds, actorVars, callVars
    <2>2. QED
      BY <2>1, QuietAnnounce
  <1>18. CASE UNCHANGED nodeVars
    BY <1>18, QuietAnnounce DEF nodeVars, actorVars, callVars
  <1>19. QED
    BY <1>1, <1>2, <1>3, <1>4, <1>5, <1>6, <1>7, <1>8, <1>9, <1>10, <1>11, <1>12, <1>13,
       <1>14, <1>15, <1>16, <1>17, <1>18
    DEF NodeNext, ActorNext, CallerNext, TickerNext, ConnNext

(* change_config and the fallback port of a start: whatever the servers,   *)
(* tickers and handlers do meanwhile, a node with no call under way        *)
(* announces the port it is configured to, as long as no change of the     *)
(* configuration overlapped another call.                                  *)
THEOREM PortIsAnnounced == NodeSpec => []AnnouncesConfiguredPort
  <1>1. AnnounceInv => AnnouncesConfiguredPort
    BY DEF AnnounceInv, PortInv, AnnouncesConfiguredPort
  <1>2. NodeInit /\ [][NodeNext]_nodeVars => []NodeTyped
    BY NodeTypedInit, NodeTypedNext, PTL
  <1>3. NodeSpec => []AnnounceInv
    BY <1>2, AnnounceInit, AnnounceNext, PTL DEF NodeSpec
  <1>4. QED
    BY <1>1, <1>3, PTL
=============================================================================
