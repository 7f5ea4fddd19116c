------------------------- MODULE CtraderBridgeProofs -------------------------
(***************************************************************************)
(* Theorems about CtraderBridge, for any set of commands and any number of *)
(* losses of the connection and of failures of Redis.                      *)
(***************************************************************************)
EXTENDS CtraderBridge, StreamLemmas

\* The broker has not heard of r and is not about to.
NotSent(r) == broker[r] = "none" /\ <<r, "order">> \notin outgoing

\* Messages that say of commands what the broker did with them, if b is that.
Truthful(b) ==
  {m \in Messages : m.phase = "order" =>
      (m.type = "filled" => b[m.req] = "filled") /\ (m.type = "rejected" => b[m.req] = "refused")}

TruthfulCallbacks(b) ==
  {c \in Callbacks : c.msg \in Truthful(b) /\
      (c.future = "fill" => c.msg.phase = "order" /\ c.msg.type = "filled")}

Deserved(r, result) ==
  /\ result \in {"success", "attach_failed"} => broker[r] = "filled"
  /\ result = "refused" => broker[r] = "refused"
  /\ result = "invalid" => NotSent(r)

\* What is on its way to the command loop is true.
InTransit ==
  /\ wire \in Seq(Truthful(broker))
  /\ callbacks \in Seq(TruthfulCallbacks(broker))

\* What the running command has been told is true.
Told ==
  /\ pc = "response" /\ answer = "filled" => broker[req] = "filled"
  /\ pc = "response" /\ answer = "rejected" => broker[req] = "refused"
  /\ fillSet => pc \in {"response", "filling", "report"} /\ broker[req] = "filled"
  /\ pc \in {"report", "settle", "amending"} => broker[req] = "filled"
  /\ pc = "respond" => Deserved(req, outcome)

\* A command is sent once, and a request under way has not been executed.
SentOnce ==
  /\ \A r \in todo : NotSent(r)
  /\ \A r \in Requests : <<r, "order">> \in outgoing => broker[r] = "none"

\* Unread and running commands have no response.
Unanswered ==
  /\ pc # "idle" => req \notin todo
  /\ \A r \in todo : responses[r] = "none"
  /\ pc # "idle" => responses[req] = "none"

Answered == \A r \in Requests : Deserved(r, responses[r])

IInv == TypeOK /\ InTransit /\ Told /\ SentOnce /\ Unanswered /\ Answered
-----------------------------------------------------------------------------
(* Types.                                                                  *)

LEMMA MessagesTyped ==
  /\ \A r \in Requests, type \in {"accepted", "filled", "rejected"} :
       Message(r, "order", type) \in Messages
  /\ \A r \in Opens, type \in {"replaced", "rejected"} : Message(r, "amend", type) \in Messages
  /\ \A c \in Closes : Message(c, "own", "filled") \in Messages
  /\ \A k \in Keys : Message(k[1], k[2], "rejected") \in Messages
BY DEF Message, Messages, Keys, Requests

LEMMA TellTyped ==
  ASSUME NEW S, wire \in Seq(S), NEW m \in S, Tell(<<m>>)
  PROVE  wire' \in Seq(S)
BY DEF Tell

LEMMA KeysTyped ==
  /\ Opens \subseteq Requests /\ Closes \subseteq Requests
  /\ \A r \in Requests : <<r, "order">> \in Keys
  /\ \A r \in Opens : <<r, "amend">> \in Keys
  /\ \A k \in Keys : k[1] \in Requests /\ (k[2] # "order" => k[1] \in Opens)
BY DEF Keys, Requests

LEMMA HeadOfWire ==
  ASSUME NEW S, wire \in Seq(S), wire # <<>>
  PROVE  Head(wire) \in S /\ Tail(wire) \in Seq(S)
OBVIOUS

LEMMA HeadOfCallbacks ==
  ASSUME NEW S, callbacks \in Seq(S), callbacks # <<>>
  PROVE  Head(callbacks) \in S /\ Tail(callbacks) \in Seq(S)
OBVIOUS

\* What _on_message schedules on the loop for message m.
LEMMA CallbacksOfMessage ==
  ASSUME NEW S, callbacks \in Seq(S), NEW m,
         [future |-> "answer", msg |-> m] \in S,
         Solicited(m) => [future |-> "fill", msg |-> m] \in S
  PROVE  callbacks \o FillCallback(m) \o AnswerCallback(m) \in Seq(S)
<1>1. FillCallback(m) \in Seq(S)
  BY DEF FillCallback
<1>2. AnswerCallback(m) \in Seq(S)
  BY DEF AnswerCallback
<1>3. callbacks \o FillCallback(m) \in Seq(S)
  BY <1>1, ConcatProperties
<1> QED
  BY <1>2, <1>3, ConcatProperties

LEMMA TypeStep ==
  ASSUME TypeOK, [Next]_vars PROVE TypeOK'
<1> USE BridgeAssumption DEF TypeOK, InDoubt, Outcomes, Answers, Pcs, Send, Finish, Filled
<1> USE DEF loopVars, futureVars, linkVars, brokerVars, streamVars, historyVars
<1>1. ASSUME NEW r \in Requests, TakeCommand(r) PROVE TypeOK'
  BY <1>1, KeysTyped DEF TakeCommand
<1>2. ASSUME NEW r \in Requests, InvalidCommand(r) PROVE TypeOK'
  BY <1>2 DEF InvalidCommand, Requests
<1>3. ASSUME NEW r \in Requests, SymbolReadFails(r) PROVE TypeOK'
  BY <1>3 DEF SymbolReadFails, Requests
<1>4. ASSUME NEW r \in Requests, PublishTask(r) PROVE TypeOK'
  BY <1>4 DEF PublishTask
<1>5. ASSUME NEW r \in Requests, Execute(r) PROVE TypeOK'
  <2>1. wire' \in Seq(Messages)
    BY <1>5, MessagesTyped, TellTyped DEF Execute
  <2>2. broker' \in [Requests -> {"none", "accepted", "filled", "refused"}]
    BY <1>5 DEF Execute
  <2> QED
    BY <1>5, <2>1, <2>2 DEF Execute
<1>6. ASSUME NEW r \in Requests, FillAccepted(r) PROVE TypeOK'
  <2>1. wire' \in Seq(Messages)
    BY <1>6, MessagesTyped, TellTyped DEF FillAccepted
  <2>2. broker' \in [Requests -> {"none", "accepted", "filled", "refused"}]
    BY <1>6 DEF FillAccepted
  <2> QED
    BY <1>6, <2>1, <2>2 DEF FillAccepted
<1>7. ASSUME NEW r \in Requests, RefuseAccepted(r) PROVE TypeOK'
  <2>1. wire' \in Seq(Messages)
    BY <1>7, MessagesTyped, TellTyped DEF RefuseAccepted
  <2>2. broker' \in [Requests -> {"none", "accepted", "filled", "refused"}]
    BY <1>7 DEF RefuseAccepted
  <2> QED
    BY <1>7, <2>1, <2>2 DEF RefuseAccepted
<1>8. CASE AnsweredFilled
  BY <1>8, KeysTyped DEF AnsweredFilled
<1>9. CASE AnsweredAccepted
  BY <1>9, KeysTyped DEF AnsweredAccepted
<1>10. CASE AnsweredRejected
  BY <1>10, KeysTyped DEF AnsweredRejected
<1>11. CASE FillArrives
  BY <1>11, KeysTyped DEF FillArrives
<1>12. CASE FillTimesOut
  BY <1>12, KeysTyped DEF FillTimesOut
<1>13. CASE NoAnswer \/ LibraryGivesUp
  BY <1>13, KeysTyped DEF NoAnswer, LibraryGivesUp, GiveUp
<1>14. CASE ReportClose
  <2>1. reported' \in [Requests -> Nat] /\ failures' \in Nat
    <3>1. req \in Requests /\ reported \in [Requests -> Nat] /\ failures \in Nat
      BY <1>14, KeysTyped DEF ReportClose
    <3>2. CASE reported' = [reported EXCEPT ![req] = @ + 1] /\ failures' = failures
      <4> HIDE DEF TypeOK
      <4> QED
        BY <3>1, <3>2
    <3>3. CASE failures' = failures + 1 /\ reported' = reported
      <4> HIDE DEF TypeOK
      <4> QED
        BY <3>1, <3>3
    <3> QED
      BY <1>14, <3>2, <3>3 DEF ReportClose
  <2>2. fillSet' \in BOOLEAN
    BY <1>14 DEF ReportClose
  <2> QED
    BY <1>14, <2>1, <2>2 DEF ReportClose
<1>15. CASE SendAmend
  BY <1>15, KeysTyped DEF SendAmend
<1>16. CASE AmendAnswered
  BY <1>16, KeysTyped DEF AmendAnswered
<1>17. CASE Respond
  BY <1>17, KeysTyped DEF Respond
<1>18. CASE OnMessage
  <2> DEFINE m == Head(wire)
  <2>1. m \in Messages /\ Tail(wire) \in Seq(Messages)
    BY <1>18, HeadOfWire DEF OnMessage
  <2>2. m.req \in Requests
    BY <2>1, KeysTyped DEF Messages
  <2>3. callbacks' \in Seq(Callbacks)
    <3>1. \A f \in {"fill", "answer"} : [future |-> f, msg |-> m] \in Callbacks
      BY <2>1 DEF Callbacks
    <3>2. callbacks \o FillCallback(m) \o AnswerCallback(m) \in Seq(Callbacks)
      BY <3>1, CallbacksOfMessage
    <3> QED
      BY <1>18, <3>2 DEF OnMessage
  <2>4. tasks' \subseteq Requests /\ received' \subseteq Requests /\ deferreds' \subseteq Keys
    BY <1>18, <2>2 DEF OnMessage
  <2> HIDE DEF m
  <2> QED
    BY <1>18, <2>1, <2>3, <2>4 DEF OnMessage, m
<1>19. CASE RunCallback
  <2> DEFINE c == Head(callbacks)
  <2>1. c \in Callbacks /\ Tail(callbacks) \in Seq(Callbacks)
    BY <1>19, HeadOfCallbacks DEF RunCallback
  <2>2. c.msg.req \in Requests /\ c.msg.type \in Answers
    BY <2>1, KeysTyped DEF Callbacks, Messages
  <2>3. answer' \in Answers /\ lost' \subseteq Requests
    BY <1>19, <2>2 DEF RunCallback
  <2>4. fillSet' \in BOOLEAN
    BY <1>19 DEF RunCallback
  <2> QED
    BY <1>19, <2>1, <2>3, <2>4 DEF RunCallback
<1>20. CASE Disconnect
  BY <1>20 DEF Disconnect
<1>21. CASE Reconnect
  BY <1>21 DEF Reconnect
<1>22. ASSUME NEW k \in Keys, RefuseUnauthenticated(k) PROVE TypeOK'
  <2>1. wire' \in Seq(Messages)
    BY <1>22, MessagesTyped DEF RefuseUnauthenticated
  <2>2. broker' \in [Requests -> {"none", "accepted", "filled", "refused"}]
    BY <1>22, KeysTyped DEF RefuseUnauthenticated
  <2>3. amended' \in [Opens -> {"none", "replaced", "refused"}]
    BY <1>22, KeysTyped DEF RefuseUnauthenticated
  <2> QED
    BY <1>22, <2>1, <2>2, <2>3 DEF RefuseUnauthenticated
<1>23. ASSUME NEW r \in Opens, Amend(r) PROVE TypeOK'
  <2>1. wire' \in Seq(Messages)
    BY <1>23, MessagesTyped, TellTyped DEF Amend
  <2>2. amended' \in [Opens -> {"none", "replaced", "refused"}]
    BY <1>23 DEF Amend
  <2> QED
    BY <1>23, <2>1, <2>2 DEF Amend
<1>24. ASSUME NEW c \in Closes, OwnClose(c) PROVE TypeOK'
  <2>1. wire' \in Seq(Messages)
    BY <1>24, MessagesTyped, TellTyped DEF OwnClose
  <2>2. stopped' \subseteq Closes
    BY <1>24 DEF OwnClose
  <2> QED
    BY <1>24, <2>1, <2>2 DEF OwnClose
<1>25. CASE UNCHANGED vars
  BY <1>25 DEF vars
<1> QED
  BY <1>1, <1>2, <1>3, <1>4, <1>5, <1>6, <1>7, <1>8, <1>9, <1>10, <1>11, <1>12, <1>13, <1>14, <1>15, <1>16, <1>17, <1>18, <1>19, <1>20, <1>21, <1>22, <1>23, <1>24, <1>25 DEF Next, LoopStep

-----------------------------------------------------------------------------
(* What is on its way is true.                                             *)

\* The broker's last word on a command stands, and a command that is neither
\* unread nor sent stays so.
LEMMA BrokerStep ==
  ASSUME TypeOK, SentOnce, [Next]_vars, NEW r \in Requests
  PROVE  /\ broker[r] \in {"filled", "refused"} => broker'[r] = broker[r]
         /\ NotSent(r) /\ r \notin todo => NotSent(r)'
<1> USE BridgeAssumption, KeysTyped DEF TypeOK, SentOnce, NotSent, Send
<1> USE DEF loopVars, futureVars, linkVars, brokerVars, streamVars, historyVars
<1>1. CASE \E q \in Requests : TakeCommand(q) \/ InvalidCommand(q) \/ SymbolReadFails(q) \/ PublishTask(q)
  BY <1>1 DEF TakeCommand, InvalidCommand, SymbolReadFails, PublishTask
<1>2. CASE LoopStep
  BY <1>2 DEF LoopStep, AnsweredFilled, AnsweredAccepted, AnsweredRejected, FillArrives,
              FillTimesOut, NoAnswer, LibraryGivesUp, GiveUp, ReportClose, SendAmend, AmendAnswered, Respond
<1>3. CASE OnMessage \/ RunCallback \/ Disconnect \/ Reconnect
  BY <1>3 DEF OnMessage, RunCallback, Disconnect, Reconnect
<1>4. CASE \E q \in Requests : Execute(q) \/ FillAccepted(q) \/ RefuseAccepted(q)
  BY <1>4 DEF Execute, FillAccepted, RefuseAccepted
<1>5. CASE \E k \in Keys : RefuseUnauthenticated(k)
  <2> PICK k \in Keys : RefuseUnauthenticated(k)
    BY <1>5
  <2>1. CASE k[2] = "order"
    <3>1. k = <<k[1], "order">>
      BY <2>1 DEF Keys
    <3>2. broker[k[1]] = "none" /\ ~NotSent(k[1])
      BY <3>1 DEF RefuseUnauthenticated
    <3>3. broker' = [broker EXCEPT ![k[1]] = "refused"] /\ outgoing' \subseteq outgoing
      BY <2>1 DEF RefuseUnauthenticated
    <3>4. CASE r = k[1]
      BY <3>2, <3>4
    <3>5. CASE r # k[1]
      BY <3>3, <3>5
    <3> QED
      BY <3>4, <3>5
  <2>2. CASE k[2] # "order"
    BY <2>2 DEF RefuseUnauthenticated
  <2> QED
    BY <2>1, <2>2
<1>6. CASE (\E q \in Opens : Amend(q)) \/ (\E c \in Closes : OwnClose(c))
  BY <1>6 DEF Amend, OwnClose
<1>7. CASE UNCHANGED vars
  BY <1>7 DEF vars
<1> QED
  BY <1>1, <1>2, <1>3, <1>4, <1>5, <1>6, <1>7 DEF Next

LEMMA TruthKept ==
  ASSUME TypeOK, SentOnce, [Next]_vars
  PROVE  /\ Truthful(broker) \subseteq Truthful(broker')
         /\ TruthfulCallbacks(broker) \subseteq TruthfulCallbacks(broker')
<1>1. \A m \in Messages : m.req \in Requests
  BY KeysTyped DEF Messages
<1>2. Truthful(broker) \subseteq Truthful(broker')
  BY <1>1, BrokerStep DEF Truthful
<1> QED
  BY <1>2 DEF TruthfulCallbacks

LEMMA SeqWidens ==
  ASSUME NEW S, NEW T, S \subseteq T, NEW s \in Seq(S)
  PROVE  s \in Seq(T)
OBVIOUS

LEMMA WireFrame ==
  ASSUME NEW S, wire \in Seq(S),
         wire' = wire \/ wire' = <<>> \/ (wire # <<>> /\ wire' = Tail(wire))
  PROVE  wire' \in Seq(S)
<1>1. CASE wire' = wire
  BY <1>1
<1>2. CASE wire' = <<>>
  BY <1>2
<1>3. CASE wire # <<>> /\ wire' = Tail(wire)
  BY <1>3, HeadOfWire
<1> QED
  BY <1>1, <1>2, <1>3

LEMMA WireStep ==
  ASSUME TypeOK, InTransit, SentOnce, [Next]_vars PROVE wire' \in Seq(Truthful(broker'))
<1> DEFINE T == Truthful(broker')
<1>1. wire \in Seq(T)
  BY TruthKept, SeqWidens DEF InTransit
<1>2. wire' = wire \/ wire' = <<>> \/ (wire # <<>> /\ wire' = Tail(wire)) => wire' \in Seq(T)
  BY <1>1, WireFrame
<1> USE BridgeAssumption, KeysTyped, MessagesTyped DEF TypeOK
<1>3. CASE \E r \in Requests : Execute(r) \/ FillAccepted(r) \/ RefuseAccepted(r)
  <2> PICK r \in Requests : Execute(r) \/ FillAccepted(r) \/ RefuseAccepted(r)
    BY <1>3
  <2>1. PICK type \in {"accepted", "filled", "rejected"} :
          /\ Tell(<<Message(r, "order", type)>>)
          /\ type = "filled" => broker'[r] = "filled"
          /\ type = "rejected" => broker'[r] = "refused"
    BY DEF Execute, FillAccepted, RefuseAccepted
  <2>2. Message(r, "order", type) \in T
    BY <2>1 DEF Truthful, Message
  <2> QED
    BY <1>1, <2>1, <2>2, TellTyped
<1>4. CASE \E k \in Keys : RefuseUnauthenticated(k)
  <2> PICK k \in Keys : RefuseUnauthenticated(k)
    BY <1>4
  <2>1. k[2] = "order" => broker'[k[1]] = "refused"
    BY DEF RefuseUnauthenticated
  <2>2. Message(k[1], k[2], "rejected") \in T
    BY <2>1 DEF Truthful, Message
  <2> QED
    BY <1>1, <2>2 DEF RefuseUnauthenticated
<1>5. CASE \E r \in Opens : Amend(r)
  <2> PICK r \in Opens : Amend(r)
    BY <1>5
  <2>1. \A type \in {"replaced", "rejected"} : Message(r, "amend", type) \in T
    BY DEF Truthful, Message
  <2> QED
    BY <1>1, <2>1, TellTyped DEF Amend
<1>6. CASE \E c \in Closes : OwnClose(c)
  <2> PICK c \in Closes : OwnClose(c)
    BY <1>6
  <2>1. Message(c, "own", "filled") \in T
    BY DEF Truthful, Message
  <2> QED
    BY <1>1, <2>1, TellTyped DEF OwnClose
<1>7. CASE OnMessage \/ RunCallback \/ Disconnect \/ Reconnect
  BY <1>2, <1>7 DEF OnMessage, RunCallback, Disconnect, Reconnect, linkVars
<1>8. CASE LoopStep
  BY <1>2, <1>8 DEF linkVars, LoopStep, AnsweredFilled, AnsweredAccepted, AnsweredRejected,
       FillArrives, FillTimesOut, NoAnswer, LibraryGivesUp, GiveUp, ReportClose, SendAmend, AmendAnswered, Respond
<1>9. CASE \E r \in Requests : TakeCommand(r) \/ InvalidCommand(r) \/ SymbolReadFails(r) \/ PublishTask(r)
  BY <1>2, <1>9 DEF linkVars, TakeCommand, InvalidCommand, SymbolReadFails, PublishTask
<1>10. CASE UNCHANGED vars
  BY <1>2, <1>10 DEF vars, linkVars
<1> QED
  BY <1>3, <1>4, <1>5, <1>6, <1>7, <1>8, <1>9, <1>10 DEF Next

LEMMA CallbacksStep ==
  ASSUME TypeOK, InTransit, SentOnce, [Next]_vars
  PROVE  callbacks' \in Seq(TruthfulCallbacks(broker'))
<1> DEFINE T == TruthfulCallbacks(broker')
<1>1. callbacks \in Seq(T)
  BY TruthKept, SeqWidens DEF InTransit
<1>2. callbacks' = callbacks \/ (callbacks # <<>> /\ callbacks' = Tail(callbacks)) => callbacks' \in Seq(T)
  BY <1>1
<1>3. CASE OnMessage
  <2> DEFINE m == Head(wire)
  <2>1. m \in Truthful(broker')
    BY <1>3, HeadOfWire, TruthKept DEF InTransit, OnMessage
  <2>2. \A f \in {"fill", "answer"} : [future |-> f, msg |-> m] \in Callbacks
    BY <2>1 DEF Truthful, Callbacks
  <2>3. [future |-> "answer", msg |-> m] \in T
    BY <2>1, <2>2 DEF TruthfulCallbacks
  <2>4. Solicited(m) => [future |-> "fill", msg |-> m] \in T
    BY <2>1, <2>2 DEF TruthfulCallbacks, Solicited
  <2> HIDE DEF T
  <2>5. callbacks \o FillCallback(m) \o AnswerCallback(m) \in Seq(T)
    BY <1>1, <2>3, <2>4, CallbacksOfMessage
  <2> QED
    BY <1>3, <2>5 DEF OnMessage, T
<1>4. CASE RunCallback \/ Disconnect \/ Reconnect
  BY <1>2, <1>4 DEF RunCallback, Disconnect, Reconnect, futureVars
<1>5. CASE LoopStep
  BY <1>2, <1>5 DEF futureVars, LoopStep, AnsweredFilled, AnsweredAccepted, AnsweredRejected,
       FillArrives, FillTimesOut, NoAnswer, LibraryGivesUp, GiveUp, ReportClose, SendAmend, AmendAnswered, Respond
<1>6. CASE \E r \in Requests : TakeCommand(r) \/ InvalidCommand(r) \/ SymbolReadFails(r) \/ PublishTask(r)
  BY <1>2, <1>6 DEF futureVars, TakeCommand, InvalidCommand, SymbolReadFails, PublishTask
<1>7. CASE \E r \in Requests : Execute(r) \/ FillAccepted(r) \/ RefuseAccepted(r)
  BY <1>2, <1>7 DEF futureVars, Execute, FillAccepted, RefuseAccepted
<1>8. CASE \/ \E k \in Keys : RefuseUnauthenticated(k)
           \/ \E r \in Opens : Amend(r)
           \/ \E c \in Closes : OwnClose(c)
  BY <1>2, <1>8 DEF futureVars, RefuseUnauthenticated, Amend, OwnClose
<1>9. CASE UNCHANGED vars
  BY <1>2, <1>9 DEF vars, futureVars
<1> QED
  BY <1>3, <1>4, <1>5, <1>6, <1>7, <1>8, <1>9 DEF Next

-----------------------------------------------------------------------------
(* What the command loop knows and answers is true.                        *)

LEMMA SentOnceStep ==
  ASSUME TypeOK, SentOnce, [Next]_vars PROVE SentOnce'
<1> USE BridgeAssumption, KeysTyped DEF TypeOK, SentOnce, NotSent, Send
<1> USE DEF loopVars, futureVars, linkVars, brokerVars, streamVars, historyVars
<1>1. CASE \E q \in Requests : TakeCommand(q) \/ InvalidCommand(q) \/ SymbolReadFails(q) \/ PublishTask(q)
  BY <1>1 DEF TakeCommand, InvalidCommand, SymbolReadFails, PublishTask
<1>2. CASE LoopStep
  BY <1>2 DEF LoopStep, AnsweredFilled, AnsweredAccepted, AnsweredRejected, FillArrives,
              FillTimesOut, NoAnswer, LibraryGivesUp, GiveUp, ReportClose, SendAmend, AmendAnswered, Respond
<1>3. CASE OnMessage \/ RunCallback \/ Disconnect \/ Reconnect
  BY <1>3 DEF OnMessage, RunCallback, Disconnect, Reconnect
<1>4. CASE \E q \in Requests : Execute(q) \/ FillAccepted(q) \/ RefuseAccepted(q)
  BY <1>4 DEF Execute, FillAccepted, RefuseAccepted
<1>5. CASE \E k \in Keys : RefuseUnauthenticated(k)
  <2> PICK k \in Keys : RefuseUnauthenticated(k)
    BY <1>5
  <2>1. CASE k[2] = "order"
    <3>1. k = <<k[1], "order">>
      BY <2>1 DEF Keys
    <3> QED
      BY <2>1, <3>1 DEF RefuseUnauthenticated
  <2>2. CASE k[2] # "order"
    BY <2>2 DEF RefuseUnauthenticated
  <2> QED
    BY <2>1, <2>2
<1>6. CASE (\E q \in Opens : Amend(q)) \/ (\E c \in Closes : OwnClose(c))
  BY <1>6 DEF Amend, OwnClose
<1>7. CASE UNCHANGED vars
  BY <1>7 DEF vars
<1> QED
  BY <1>1, <1>2, <1>3, <1>4, <1>5, <1>6, <1>7 DEF Next

LEMMA UnansweredStep ==
  ASSUME TypeOK, Unanswered, [Next]_vars PROVE Unanswered'
<1> USE BridgeAssumption DEF TypeOK, Unanswered, Finish, Filled
<1> USE DEF loopVars, futureVars, linkVars, brokerVars, streamVars, historyVars
<1>1. CASE \E q \in Requests : TakeCommand(q) \/ InvalidCommand(q) \/ SymbolReadFails(q) \/ PublishTask(q)
  BY <1>1 DEF TakeCommand, InvalidCommand, SymbolReadFails, PublishTask
<1>2. CASE LoopStep /\ ~Respond
  BY <1>2 DEF LoopStep, AnsweredFilled, AnsweredAccepted, AnsweredRejected, FillArrives,
              FillTimesOut, NoAnswer, LibraryGivesUp, GiveUp, ReportClose, SendAmend, AmendAnswered
<1>3. CASE Respond
  BY <1>3 DEF Respond
<1>4. CASE OnMessage \/ RunCallback \/ Disconnect \/ Reconnect
  BY <1>4 DEF OnMessage, RunCallback, Disconnect, Reconnect
<1>5. CASE \E q \in Requests : Execute(q) \/ FillAccepted(q) \/ RefuseAccepted(q)
  BY <1>5 DEF Execute, FillAccepted, RefuseAccepted
<1>6. CASE \/ \E k \in Keys : RefuseUnauthenticated(k)
           \/ \E r \in Opens : Amend(r)
           \/ \E c \in Closes : OwnClose(c)
  BY <1>6 DEF RefuseUnauthenticated, Amend, OwnClose
<1>7. CASE UNCHANGED vars
  BY <1>7 DEF vars
<1> QED
  BY <1>1, <1>2, <1>3, <1>4, <1>5, <1>6, <1>7 DEF Next, LoopStep

\* What a command has been told stays true while others act.
LEMMA DeservedKept ==
  ASSUME TypeOK, SentOnce, [Next]_vars, NEW r \in Requests, r \notin todo,
         NEW result, Deserved(r, result)
  PROVE  Deserved(r, result)'
BY BrokerStep DEF Deserved

LEMMA ToldKept ==
  ASSUME TypeOK, SentOnce, Unanswered, Told, [Next]_vars,
         pc' = pc, req' = req, outcome' = outcome, answer' = answer, fillSet' = fillSet
  PROVE  Told'
<1>1. CASE pc = "idle"
  BY <1>1 DEF Told
<1>2. CASE pc # "idle"
  <2>1. req \in Requests /\ req \notin todo
    BY <1>2 DEF TypeOK, Unanswered
  <2>2. pc = "respond" => Deserved(req, outcome)'
    BY <2>1, DeservedKept DEF Told
  <2>3. broker[req] \in {"filled", "refused"} => broker'[req] = broker[req]
    BY <2>1, BrokerStep
  <2> QED
    BY <2>2, <2>3 DEF Told, Deserved, NotSent
<1> QED
  BY <1>1, <1>2

LEMMA ToldStep ==
  ASSUME TypeOK, InTransit, SentOnce, Unanswered, Told, [Next]_vars PROVE Told'
<1> USE DEF loopVars, futureVars, linkVars, brokerVars, streamVars, historyVars
<1>1. ASSUME NEW r \in Requests, TakeCommand(r) PROVE Told'
  BY <1>1 DEF TakeCommand, Told, Send
<1>2. ASSUME NEW r \in Requests, InvalidCommand(r) PROVE Told'
  BY <1>2 DEF InvalidCommand, Told, Deserved, NotSent, SentOnce
<1>3. CASE LoopStep
  <2> USE DEF TypeOK, Told, Deserved, Finish, Filled, Send
  <2>1. CASE AnsweredFilled
    BY <2>1 DEF AnsweredFilled
  <2>2. CASE AnsweredAccepted
    BY <2>2 DEF AnsweredAccepted
  <2>3. CASE AnsweredRejected
    BY <2>3 DEF AnsweredRejected
  <2>4. CASE FillArrives
    BY <2>4 DEF FillArrives
  <2>5. CASE FillTimesOut
    BY <2>5 DEF FillTimesOut
  <2>6. CASE NoAnswer \/ LibraryGivesUp
    BY <2>6 DEF NoAnswer, LibraryGivesUp, GiveUp
  <2>7. CASE ReportClose
    BY <2>7 DEF ReportClose
  <2>8. CASE SendAmend
    BY <2>8 DEF SendAmend
  <2>9. CASE AmendAnswered
    BY <2>9 DEF AmendAnswered
  <2>10. CASE Respond
    BY <2>10 DEF Respond
  <2> QED
    BY <1>3, <2>1, <2>2, <2>3, <2>4, <2>5, <2>6, <2>7, <2>8, <2>9, <2>10 DEF LoopStep
<1>4. CASE RunCallback
  <2> DEFINE c == Head(callbacks)
  <2>1. c \in TruthfulCallbacks(broker)
    BY <1>4, HeadOfCallbacks DEF InTransit, RunCallback
  <2>2. pc' = pc /\ req' = req /\ outcome' = outcome /\ broker' = broker /\ outgoing' = outgoing
    BY <1>4 DEF RunCallback
  <2>3. CASE c.future = "answer"
    <3>1. fillSet' = fillSet
      BY <1>4, <2>3 DEF RunCallback
    <3>2. answer' # answer /\ pc = "response" =>
            c.msg.phase = "order" /\ c.msg.req = req /\ answer' = c.msg.type
      BY <1>4, <2>3 DEF RunCallback, Awaited
    <3> QED
      BY <2>1, <2>2, <3>1, <3>2 DEF Told, Deserved, NotSent, TruthfulCallbacks, Truthful
  <2>4. CASE c.future = "fill"
    <3>1. answer' = answer /\ (fillSet' # fillSet => c.msg.req \in Pending)
      BY <1>4, <2>4 DEF RunCallback
    <3>2. c.msg.req \in Pending => pc \in {"response", "filling", "report"} /\ broker[req] = "filled"
      BY <2>1, <2>4 DEF Pending, TruthfulCallbacks, Truthful
    <3> QED
      BY <2>2, <3>1, <3>2 DEF Told, Deserved, NotSent
  <2> QED
    BY <1>4, <2>3, <2>4 DEF RunCallback
<1>5. CASE OnMessage \/ Disconnect \/ Reconnect
  BY <1>5, ToldKept DEF OnMessage, Disconnect, Reconnect
<1>6. CASE \E r \in Requests : SymbolReadFails(r) \/ PublishTask(r) \/ Execute(r) \/ FillAccepted(r) \/ RefuseAccepted(r)
  BY <1>6, ToldKept DEF SymbolReadFails, PublishTask, Execute, FillAccepted, RefuseAccepted
<1>7. CASE \/ \E k \in Keys : RefuseUnauthenticated(k)
           \/ \E r \in Opens : Amend(r)
           \/ \E c \in Closes : OwnClose(c)
  BY <1>7, ToldKept DEF RefuseUnauthenticated, Amend, OwnClose
<1>8. CASE UNCHANGED vars
  BY <1>8, ToldKept DEF vars
<1> QED
  BY <1>1, <1>2, <1>3, <1>4, <1>5, <1>6, <1>7, <1>8 DEF Next

\* Only Respond writes to resp_stream.
LEMMA ResponsesStep ==
  ASSUME [Next]_vars
  PROVE  \/ responses' = responses
         \/ pc = "respond" /\ responses' = [responses EXCEPT ![req] = outcome] /\ broker' = broker
            /\ outgoing' = outgoing
<1> USE DEF loopVars, futureVars, linkVars, brokerVars, streamVars, historyVars
<1>1. CASE \E q \in Requests : TakeCommand(q) \/ InvalidCommand(q) \/ SymbolReadFails(q) \/ PublishTask(q)
  BY <1>1 DEF TakeCommand, InvalidCommand, SymbolReadFails, PublishTask
<1>2. CASE LoopStep
  BY <1>2 DEF LoopStep, AnsweredFilled, AnsweredAccepted, AnsweredRejected, FillArrives,
              FillTimesOut, NoAnswer, LibraryGivesUp, GiveUp, ReportClose, SendAmend, AmendAnswered, Respond
<1>3. CASE OnMessage \/ RunCallback \/ Disconnect \/ Reconnect
  BY <1>3 DEF OnMessage, RunCallback, Disconnect, Reconnect
<1>4. CASE \E q \in Requests : Execute(q) \/ FillAccepted(q) \/ RefuseAccepted(q)
  BY <1>4 DEF Execute, FillAccepted, RefuseAccepted
<1>5. CASE \/ \E k \in Keys : RefuseUnauthenticated(k)
           \/ \E r \in Opens : Amend(r)
           \/ \E c \in Closes : OwnClose(c)
  BY <1>5 DEF RefuseUnauthenticated, Amend, OwnClose
<1>6. CASE UNCHANGED vars
  BY <1>6 DEF vars
<1> QED
  BY <1>1, <1>2, <1>3, <1>4, <1>5, <1>6 DEF Next

LEMMA AnsweredStep ==
  ASSUME TypeOK, SentOnce, Unanswered, Told, Answered, [Next]_vars PROVE Answered'
<1> SUFFICES ASSUME NEW r \in Requests PROVE Deserved(r, responses[r])'
  BY DEF Answered
<1>1. CASE responses'[r] = responses[r]
  <2>1. CASE r \in todo
    BY <1>1, <2>1 DEF Unanswered, Deserved
  <2>2. CASE r \notin todo
    <3>1. broker[r] \in {"filled", "refused"} => broker'[r] = broker[r]
      BY BrokerStep
    <3>2. NotSent(r) => NotSent(r)'
      BY <2>2, BrokerStep
    <3> QED
      BY <1>1, <3>1, <3>2 DEF Answered, Deserved
  <2> QED
    BY <2>1, <2>2
<1>2. CASE responses'[r] # responses[r]
  <2>1. r = req /\ pc = "respond" /\ responses'[r] = outcome /\ broker' = broker /\ outgoing' = outgoing
    BY <1>2, ResponsesStep DEF TypeOK
  <2> QED
    BY <2>1 DEF Told, Deserved, NotSent
<1> QED
  BY <1>1, <1>2

-----------------------------------------------------------------------------
LEMMA InitIInv == Init => IInv
<1> SUFFICES ASSUME Init PROVE IInv
  OBVIOUS
<1>1. TypeOK
  <2>1. callbacks \in Seq(Callbacks) /\ wire \in Seq(Messages)
    BY DEF Init
  <2>2. /\ broker \in [Requests -> {"none", "accepted", "filled", "refused"}]
        /\ amended \in [Opens -> {"none", "replaced", "refused"}]
        /\ responses \in [Requests -> Outcomes \cup {"none"}]
        /\ reported \in [Requests -> Nat]
    BY DEF Init
  <2> QED
    BY <2>1, <2>2 DEF Init, TypeOK, InDoubt, Outcomes, Answers, Pcs
<1>2. InTransit
  BY DEF Init, InTransit
<1>3. Told /\ SentOnce /\ Unanswered /\ Answered
  BY DEF Init, Told, SentOnce, Unanswered, Answered, Deserved, NotSent
<1> QED
  BY <1>1, <1>2, <1>3 DEF IInv

LEMMA StepIInv == IInv /\ [Next]_vars => IInv'
<1> SUFFICES ASSUME IInv, [Next]_vars PROVE IInv'
  OBVIOUS
<1>1. TypeOK' /\ SentOnce' /\ Unanswered' /\ Told' /\ Answered'
  BY TypeStep, SentOnceStep, UnansweredStep, ToldStep, AnsweredStep DEF IInv
<1>2. InTransit'
  BY WireStep, CallbacksStep DEF IInv, InTransit
<1> QED
  BY <1>1, <1>2 DEF IInv

LEMMA Invariant == Spec => []IInv
BY InitIInv, StepIInv, PTL DEF Spec

\* Type correctness.
THEOREM BridgeTypeCorrect == Spec => []TypeOK
<1>1. IInv => TypeOK
  BY DEF IInv
<1> QED
  BY <1>1, Invariant, PTL

\* A success in resp_stream means that the broker executed the command,
\* whichever future and thread the fill came through.
THEOREM SuccessReal == Spec => []SuccessIsReal
<1>1. IInv => SuccessIsReal
  BY DEF IInv, Answered, Deserved, SuccessIsReal
<1> QED
  BY <1>1, Invariant, PTL

\* A refusal in resp_stream means that the broker did not execute the command.
THEOREM RefusalReal == Spec => []RefusedIsReal
<1>1. IInv => RefusedIsReal
  BY DEF IInv, Answered, Deserved, NotSent, RefusedIsReal
<1> QED
  BY <1>1, Invariant, PTL

\* No command is answered twice, however late answers and callbacks come.
THEOREM AnsweredAtMostOnce == Spec => AnsweredOnce
<1>1. IInv /\ [Next]_vars =>
        [\A r \in Requests : responses[r] # "none" => responses'[r] = responses[r]]_vars
  <2> SUFFICES ASSUME IInv, [Next]_vars, NEW r \in Requests, responses[r] # "none"
               PROVE  responses'[r] = responses[r]
    OBVIOUS
  <2>1. pc = "respond" => responses[req] = "none"
    BY DEF IInv, Unanswered
  <2> QED
    BY <2>1, ResponsesStep DEF IInv, TypeOK
<1> QED
  BY <1>1, Invariant, PTL DEF Spec, AnsweredOnce

-----------------------------------------------------------------------------
(* One fill, one way: where the fill of a command is between the broker    *)
(* and event_stream.                                                       *)

Fills(r)         == {m \in Messages : m.req = r /\ m.type = "filled"}
FillCalls(r)     == {c \in Callbacks : c.future = "fill" /\ c.msg \in Fills(r)}
OrderAnswers(r)  ==
  {c \in Callbacks : c.future = "answer" /\ c.msg.req = r /\ c.msg.phase = "order"}
FilledAnswers(r) == {c \in OrderAnswers(r) : c.msg.type = "filled"}

Executed(r) == broker[r] = "filled" \/ r \in stopped
Busy(r)     == req = r /\ pc \in {"response", "filling", "report"}

\* The running command has the fill of r, or will be handed it by a callback.
Holds(r)  == req = r /\ (fillSet \/ pc = "report" \/ (pc = "response" /\ answer = "filled"))
Handed(r) == Has(callbacks, FillCalls(r)) \/ Has(callbacks, FilledAnswers(r)) \/ Holds(r)

\* The broker tells of one fill, and nothing is done about it before.
OneFill(r) ==
  /\ HasOnce(wire, Fills(r))
  /\ Has(wire, Fills(r)) => r \notin received /\ Executed(r)
  /\ r \in received => Executed(r)
  /\ Handed(r) \/ r \in tasks \/ reported[r] > 0 => r \in received

\* The command that waits has it, or a task publishes it.
OneWay(r) ==
  /\ r \in todo => ~ Handed(r)
  /\ r \in tasks => ~ Handed(r) /\ reported[r] = 0
  /\ Handed(r) /\ Busy(r) => reported[r] = 0
  /\ reported[r] <= 1

\* A close that was answered with success was published.
Published(r) ==
  r \in Closes /\ failures = 0 =>
    /\ req = r /\ pc = "respond" /\ outcome = "success" => reported[r] = 1
    /\ responses[r] = "success" => reported[r] = 1

\* While the library holds the Deferred of a command nobody was given its answer.
Waited(r) ==
  /\ <<r, "order">> \in deferreds =>
       req = r /\ pc = "response" /\ answer = "pending" /\ ~ Has(callbacks, OrderAnswers(r))
  /\ r \in todo => ~ Has(callbacks, OrderAnswers(r))

\* A fill can come too late for its future only after the wait was given up.
\* An answer that is a fill does not overtake the callback for that future.
Doubtful(r) ==
  /\ HasOnce(callbacks, FillCalls(r))
  /\ Before(callbacks, FillCalls(r), FilledAnswers(r))
  /\ Has(callbacks, FillCalls(r)) =>
       /\ responses[r] \in InDoubt \cup {"none"}
       /\ req = r => \/ pc = "response" /\ answer # "filled" /\ ~ fillSet
                     \/ pc = "filling" /\ ~ fillSet
                     \/ pc = "respond" /\ outcome \in InDoubt
  /\ r \in lost =>
       /\ r \notin todo /\ responses[r] \in InDoubt \cup {"none"}
       /\ req = r => pc = "respond" /\ outcome \in InDoubt

FillInv(r) == OneFill(r) /\ OneWay(r) /\ Published(r) /\ Waited(r) /\ Doubtful(r)

-----------------------------------------------------------------------------
(* The command loop.                                                       *)

\* What _on_message schedules, by kind.
LEMMA Scheduled ==
  ASSUME NEW q \in Seq(Callbacks), NEW m \in Messages, NEW S, NEW T
  PROVE  LET n == q \o FillCallback(m) \o AnswerCallback(m)
             f == [future |-> "fill", msg |-> m]
             a == [future |-> "answer", msg |-> m]
         IN /\ Has(n, S) <=> \/ Has(q, S)
                             \/ Solicited(m) /\ f \in S
                             \/ <<m.req, m.phase>> \in deferreds /\ a \in S
            /\ HasOnce(q, S) /\ a \notin S /\ (Solicited(m) /\ f \in S => ~ Has(q, S)) =>
                 HasOnce(n, S)
            /\ Before(q, S, T) /\ a \notin S /\ f \notin T /\ (Solicited(m) /\ f \in S => ~ Has(q, T)) =>
                 Before(n, S, T)
<1> DEFINE f == [future |-> "fill", msg |-> m]
           a == [future |-> "answer", msg |-> m]
<1>1. f \in Callbacks /\ a \in Callbacks
  BY DEF Callbacks
<1>2. PICK p : p = IF Solicited(m) THEN Append(q, f) ELSE q
  OBVIOUS
<1>3. q \o FillCallback(m) = p
  BY <1>1, <1>2 DEF FillCallback
<1>4. p \in Seq(Callbacks)
  BY <1>1, <1>2
<1>5. PICK n : n = IF <<m.req, m.phase>> \in deferreds THEN Append(p, a) ELSE p
  OBVIOUS
<1>6. q \o FillCallback(m) \o AnswerCallback(m) = n
  <2>1. p \o AnswerCallback(m) = n
    BY <1>1, <1>4, <1>5 DEF AnswerCallback
  <2> QED
    BY <1>3, <2>1
<1> HIDE DEF f, a
<1>7. /\ Has(p, S) <=> Has(q, S) \/ (Solicited(m) /\ f \in S)
      /\ HasOnce(q, S) /\ (Solicited(m) /\ f \in S => ~ Has(q, S)) => HasOnce(p, S)
      /\ Before(q, S, T) /\ f \notin T /\ (Solicited(m) /\ f \in S => ~ Has(q, T)) => Before(p, S, T)
  BY <1>1, <1>2, AppendHas, AppendBefore
<1>8. /\ Has(n, S) <=> Has(p, S) \/ (<<m.req, m.phase>> \in deferreds /\ a \in S)
      /\ HasOnce(p, S) /\ a \notin S => HasOnce(n, S)
      /\ Before(p, S, T) /\ a \notin S => Before(n, S, T)
  BY <1>1, <1>4, <1>5, AppendHas, AppendBefore
<1>9. /\ Has(n, S) <=> \/ Has(q, S)
                       \/ Solicited(m) /\ f \in S
                       \/ <<m.req, m.phase>> \in deferreds /\ a \in S
      /\ HasOnce(q, S) /\ a \notin S /\ (Solicited(m) /\ f \in S => ~ Has(q, S)) => HasOnce(n, S)
      /\ Before(q, S, T) /\ a \notin S /\ f \notin T /\ (Solicited(m) /\ f \in S => ~ Has(q, T)) =>
           Before(n, S, T)
  BY <1>7, <1>8
<1> QED
  BY <1>6, <1>9 DEF f, a

\* What a step of the command loop does about the fill of one command.
LoopMove(r) ==
  /\ UNCHANGED <<wire, callbacks, received, broker, stopped, tasks>>
  /\ todo' \subseteq todo
  /\ Holds(r)' => Holds(r)
  /\ Busy(r)' => Busy(r) \/ r \in todo
  /\ \/ reported'[r] = reported[r]
     \/ Holds(r) /\ Busy(r) /\ ~ Busy(r)' /\ reported'[r] = reported[r] + 1
  /\ failures' >= failures

LoopAction(r) ==
  \/ \E q \in Requests : TakeCommand(q) \/ InvalidCommand(q) \/ SymbolReadFails(q)
  \/ LoopStep

LEMMA LoopMoves ==
  ASSUME IInv, NEW r \in Requests, LoopAction(r) PROVE LoopMove(r)
<1> USE BridgeAssumption DEF IInv, TypeOK, Told, LoopMove, Holds, Busy, Send, Finish, Filled
<1> USE DEF loopVars, futureVars, linkVars, brokerVars, streamVars, historyVars
<1>0. req \in Requests \cup {None} /\ reported \in [Requests -> Nat] /\ failures \in Nat
      /\ failures >= failures
  BY DEF TypeOK
<1>1. ASSUME NEW q \in Requests, TakeCommand(q) PROVE LoopMove(r)
  BY <1>0, <1>1 DEF TakeCommand
<1>2. ASSUME NEW q \in Requests, InvalidCommand(q) PROVE LoopMove(r)
  BY <1>0, <1>2 DEF InvalidCommand
<1>3. ASSUME NEW q \in Requests, SymbolReadFails(q) PROVE LoopMove(r)
  BY <1>0, <1>3 DEF SymbolReadFails
<1>4. CASE AnsweredFilled
  BY <1>0, <1>4 DEF AnsweredFilled
<1>5. CASE AnsweredAccepted
  BY <1>0, <1>5 DEF AnsweredAccepted
<1>6. CASE AnsweredRejected
  BY <1>0, <1>6 DEF AnsweredRejected
<1>7. CASE FillArrives
  BY <1>0, <1>7 DEF FillArrives
<1>8. CASE FillTimesOut
  BY <1>0, <1>8 DEF FillTimesOut
<1>9. CASE NoAnswer \/ LibraryGivesUp
  BY <1>0, <1>9 DEF NoAnswer, LibraryGivesUp, GiveUp
<1>10. CASE ReportClose
  BY <1>0, <1>10 DEF ReportClose
<1>11. CASE SendAmend
  BY <1>0, <1>11 DEF SendAmend
<1>12. CASE AmendAnswered
  BY <1>0, <1>12 DEF AmendAnswered
<1>13. CASE Respond
  BY <1>0, <1>13 DEF Respond
<1> QED
  BY <1>1, <1>2, <1>3, <1>4, <1>5, <1>6, <1>7, <1>8, <1>9, <1>10, <1>11, <1>12, <1>13
     DEF LoopAction, LoopStep

LEMMA LoopPublishes ==
  ASSUME IInv, NEW r \in Requests, OneWay(r), Published(r), LoopAction(r) PROVE Published(r)'
<1> USE BridgeAssumption DEF Published, Finish, Filled
<1> USE DEF loopVars, futureVars, linkVars, brokerVars, streamVars, historyVars
<1>0. /\ reported \in [Requests -> Nat] /\ failures \in Nat /\ Opens \cap Closes = {} 
      /\ responses \in [Requests -> Outcomes \cup {"none"}]
      /\ pc = "report" => req \in Closes
      /\ pc \in {"settle", "amending"} => req \in Opens
  BY DEF IInv, TypeOK
<1>1. CASE \E q \in Requests : TakeCommand(q) \/ InvalidCommand(q) \/ SymbolReadFails(q)
  BY <1>0, <1>1 DEF TakeCommand, InvalidCommand, SymbolReadFails
<1>2. CASE AnsweredFilled \/ AnsweredAccepted \/ AnsweredRejected
  BY <1>0, <1>2 DEF AnsweredFilled, AnsweredAccepted, AnsweredRejected
<1>3. CASE FillArrives \/ FillTimesOut \/ NoAnswer \/ LibraryGivesUp
  BY <1>0, <1>3 DEF FillArrives, FillTimesOut, NoAnswer, LibraryGivesUp, GiveUp
<1>4. CASE ReportClose
  <2>1. req = r => reported[r] = 0
    BY <1>4 DEF ReportClose, OneWay, Handed, Holds, Busy
  <2>2. /\ responses' = responses /\ pc' = "respond" /\ req' = req
        /\ \/ reported' = [reported EXCEPT ![req] = @ + 1] /\ failures' = failures
           \/ failures' = failures + 1
    BY <1>4 DEF ReportClose
  <2>3. CASE failures' = failures + 1
    BY <1>0, <2>3
  <2>4. CASE reported' = [reported EXCEPT ![req] = @ + 1] /\ failures' = failures
    <3>1. CASE req = r
      <4>1. reported'[r] = 1
        BY <1>0, <2>1, <2>4, <3>1
      <4> QED
        BY <4>1
    <3>2. CASE req # r
      BY <1>0, <2>2, <2>4, <3>2
    <3> QED
      BY <3>1, <3>2
  <2> QED
    BY <2>2, <2>3, <2>4
<1>5. CASE SendAmend \/ AmendAnswered
  BY <1>0, <1>5 DEF SendAmend, AmendAnswered
<1>6. CASE Respond
  <2>1. /\ reported' = reported /\ pc' = "idle"
        /\ \/ responses' = [responses EXCEPT ![req] = outcome] /\ failures' = failures /\ pc = "respond"
           \/ failures' = failures + 1
    BY <1>6 DEF Respond
  <2> QED
    BY <1>0, <2>1
<1> QED
  BY <1>1, <1>2, <1>3, <1>4, <1>5, <1>6 DEF LoopAction, LoopStep

LEMMA LoopWaits ==
  ASSUME IInv, NEW r \in Requests, Waited(r), LoopAction(r) PROVE Waited(r)'
<1> USE BridgeAssumption DEF Waited, Finish, Filled, Send
<1> USE DEF loopVars, futureVars, linkVars, brokerVars, streamVars, historyVars
<1>0. callbacks' = callbacks /\ todo' \subseteq todo
  BY LoopMoves DEF LoopMove
<1>1. ASSUME NEW q \in Requests, TakeCommand(q) \/ InvalidCommand(q) \/ SymbolReadFails(q)
      PROVE  Waited(r)'
  BY <1>0, <1>1 DEF TakeCommand, InvalidCommand, SymbolReadFails
<1>2. CASE AnsweredFilled \/ AnsweredAccepted \/ AnsweredRejected
  BY <1>0, <1>2 DEF AnsweredFilled, AnsweredAccepted, AnsweredRejected
<1>3. CASE FillArrives \/ FillTimesOut
  BY <1>0, <1>3 DEF FillArrives, FillTimesOut
<1>4. CASE NoAnswer \/ LibraryGivesUp
  BY <1>0, <1>4 DEF NoAnswer, LibraryGivesUp, GiveUp, Awaited
<1>5. CASE ReportClose \/ SendAmend \/ AmendAnswered \/ Respond
  BY <1>0, <1>5 DEF ReportClose, SendAmend, AmendAnswered, Respond
<1> QED
  BY <1>1, <1>2, <1>3, <1>4, <1>5 DEF LoopAction, LoopStep

\* A callback with the fill of r means that the broker filled it.
LEMMA FillCallsTrue ==
  ASSUME InTransit, NEW r \in Requests, Has(callbacks, FillCalls(r))
  PROVE  broker[r] = "filled"
<1>1. PICK i \in DOMAIN callbacks : callbacks[i] \in FillCalls(r)
  BY DEF Has
<1>2. callbacks[i] \in TruthfulCallbacks(broker)
  BY DEF InTransit
<1> QED
  BY <1>1, <1>2 DEF FillCalls, Fills, TruthfulCallbacks, Truthful

LEMMA LoopDoubts ==
  ASSUME IInv, NEW r \in Requests, OneWay(r), Doubtful(r), LoopAction(r) PROVE Doubtful(r)'
<1> DEFINE Under == Has(callbacks, FillCalls(r))
<1>0. /\ callbacks' = callbacks
      /\ HasOnce(callbacks, FillCalls(r)) /\ Before(callbacks, FillCalls(r), FilledAnswers(r))
      /\ Under => r \notin todo /\ broker[r] = "filled"
      /\ req \in Requests \cup {None} /\ None \notin Requests
      /\ responses \in [Requests -> Outcomes \cup {"none"}]
      /\ pc # "idle" => req \notin todo /\ responses[req] = "none"
  <2>1. IInv => InTransit /\ TypeOK /\ Unanswered
    BY DEF IInv
  <2> QED
    BY <2>1, LoopMoves, FillCallsTrue, BridgeAssumption
       DEF LoopMove, Doubtful, OneWay, Handed, TypeOK, Unanswered
<1>1. Under' => Under
  BY <1>0
<1> SUFFICES /\ Under => /\ responses'[r] \in InDoubt \cup {"none"}
                         /\ req' = r => \/ pc' = "response" /\ answer' # "filled" /\ ~ fillSet'
                                        \/ pc' = "filling" /\ ~ fillSet'
                                        \/ pc' = "respond" /\ outcome' \in InDoubt
             /\ r \in lost' => /\ r \notin todo' /\ responses'[r] \in InDoubt \cup {"none"}
                               /\ req' = r => pc' = "respond" /\ outcome' \in InDoubt
  BY <1>0, <1>1 DEF Doubtful
<1>2. /\ Under => /\ responses[r] \in InDoubt \cup {"none"}
                  /\ req = r => \/ pc = "response" /\ answer # "filled" /\ ~ fillSet
                                \/ pc = "filling" /\ ~ fillSet
                                \/ pc = "respond" /\ outcome \in InDoubt
      /\ r \in lost => /\ r \notin todo /\ responses[r] \in InDoubt \cup {"none"}
                       /\ req = r => pc = "respond" /\ outcome \in InDoubt
  BY DEF Doubtful
<1>3. /\ pc = "response" /\ answer = "rejected" => broker[req] = "refused"
      /\ fillSet => pc \in {"response", "filling", "report"}
  BY DEF IInv, Told
<1> HIDE DEF Under
<1> USE <1>0, <1>2, <1>3
<1> USE DEF InDoubt, Finish, Filled, Send
<1> USE DEF loopVars, futureVars, linkVars, brokerVars, streamVars, historyVars
<1>4. CASE \E q \in Requests : TakeCommand(q) \/ InvalidCommand(q) \/ SymbolReadFails(q)
  BY <1>4 DEF TakeCommand, InvalidCommand, SymbolReadFails
<1>5. CASE AnsweredFilled \/ AnsweredAccepted \/ AnsweredRejected
  BY <1>5 DEF AnsweredFilled, AnsweredAccepted, AnsweredRejected
<1>6. CASE FillArrives \/ FillTimesOut
  BY <1>6 DEF FillArrives, FillTimesOut
<1>7. CASE NoAnswer \/ LibraryGivesUp
  BY <1>7 DEF NoAnswer, LibraryGivesUp, GiveUp
<1>8. CASE ReportClose \/ SendAmend \/ AmendAnswered
  BY <1>8 DEF ReportClose, SendAmend, AmendAnswered
<1>9. CASE Respond
  BY <1>9 DEF Respond
<1> QED
  BY <1>4, <1>5, <1>6, <1>7, <1>8, <1>9 DEF LoopAction, LoopStep

LEMMA LoopKeepsFill ==
  ASSUME IInv, NEW r \in Requests, FillInv(r), LoopAction(r) PROVE FillInv(r)'
<1>0. reported[r] \in Nat
  BY DEF IInv, TypeOK
<1>1. LoopMove(r)
  BY LoopMoves
<1>2. Handed(r)' => Handed(r)
  BY <1>1 DEF LoopMove, Handed
<1>3. Executed(r)' <=> Executed(r)
  BY <1>1 DEF LoopMove, Executed
<1>4. OneFill(r)'
  BY <1>0, <1>1, <1>2, <1>3 DEF LoopMove, FillInv, OneFill, Handed
<1>5. OneWay(r)'
  <2>1. CASE reported'[r] = reported[r]
    BY <1>0, <1>1, <1>2, <2>1 DEF LoopMove, FillInv, OneWay
  <2>2. CASE Holds(r) /\ Busy(r) /\ ~ Busy(r)' /\ reported'[r] = reported[r] + 1
    BY <1>0, <1>1, <1>2, <2>2 DEF LoopMove, FillInv, OneWay, Handed
  <2> QED
    BY <1>1, <2>1, <2>2 DEF LoopMove
<1> QED
  BY <1>4, <1>5, LoopPublishes, LoopWaits, LoopDoubts DEF FillInv

-----------------------------------------------------------------------------
(* The reactor, the callbacks and the tasks.                               *)

LEMMA MessageKeepsFill ==
  ASSUME IInv, NEW r \in Requests, FillInv(r), OnMessage PROVE FillInv(r)'
<1> DEFINE m == Head(wire)
           f == [future |-> "fill", msg |-> m]
           a == [future |-> "answer", msg |-> m]
           due == <<m.req, m.phase>> \in deferreds
<1>a. /\ wire \in Seq(Messages) /\ callbacks \in Seq(Callbacks) /\ deferreds \subseteq Keys
      /\ reported \in [Requests -> Nat] /\ wire # <<>>
      /\ pc # "idle" => req \notin todo /\ responses[req] = "none"
  BY DEF IInv, TypeOK, OnMessage, Unanswered
<1>b. m \in Messages /\ m.req \in Requests /\ f \in Callbacks /\ a \in Callbacks
  BY <1>a, HeadOfWire, KeysTyped DEF Messages, Callbacks
<1>c. /\ f.future = "fill" /\ f.msg = m /\ a.future = "answer" /\ a.msg = m
  OBVIOUS
<1>d. /\ callbacks' = callbacks \o FillCallback(m) \o AnswerCallback(m)
      /\ deferreds' = deferreds \ {<<m.req, m.phase>>}
      /\ tasks' = IF m.type = "filled" /\ ~ Solicited(m) THEN tasks \cup {m.req} ELSE tasks
      /\ received' = IF m.type = "filled" THEN received \cup {m.req} ELSE received
      /\ wire' = Tail(wire)
      /\ UNCHANGED <<loopVars, answer, fillSet, brokerVars, streamVars, lost>>
  BY DEF OnMessage
<1>e. \A S, T : /\ Has(callbacks', S) <=> \/ Has(callbacks, S)
                                          \/ Solicited(m) /\ f \in S
                                          \/ due /\ a \in S
                /\ HasOnce(callbacks, S) /\ a \notin S /\ (Solicited(m) /\ f \in S => ~ Has(callbacks, S))
                     => HasOnce(callbacks', S)
                /\ Before(callbacks, S, T) /\ a \notin S /\ f \notin T
                     /\ (Solicited(m) /\ f \in S => ~ Has(callbacks, T)) => Before(callbacks', S, T)
  BY <1>a, <1>b, <1>d, Scheduled
<1>f. /\ Has(wire, Fills(r)) <=> Has(wire', Fills(r)) \/ m \in Fills(r)
      /\ HasOnce(wire, Fills(r)) => HasOnce(wire', Fills(r))
      /\ HasOnce(wire, Fills(r)) /\ m \in Fills(r) => ~ Has(wire', Fills(r))
  BY <1>a, <1>d, TailHas
<1> HIDE DEF m, f, a
<1>g. /\ Holds(r)' <=> Holds(r)
      /\ Busy(r)' <=> Busy(r)
      /\ Executed(r)' <=> Executed(r)
      /\ UNCHANGED <<todo, pc, req, outcome, answer, fillSet, responses, reported, failures, lost>>
  BY <1>d DEF loopVars, brokerVars, streamVars, Holds, Busy, Executed
\* What is scheduled, by kind.
<1>h. /\ f \in FillCalls(r) <=> m \in Fills(r)
      /\ f \notin FilledAnswers(r) /\ f \notin OrderAnswers(r) /\ a \notin FillCalls(r)
      /\ a \in OrderAnswers(r) <=> m.req = r /\ m.phase = "order"
      /\ a \in FilledAnswers(r) <=> m.req = r /\ m.phase = "order" /\ m.type = "filled"
      /\ m \in Fills(r) <=> m.req = r /\ m.type = "filled"
  BY <1>b, <1>c DEF FillCalls, FilledAnswers, OrderAnswers, Fills
<1>i. /\ due /\ m.req = r /\ m.phase = "order" =>
           req = r /\ pc = "response" /\ r \notin todo
  BY <1>a DEF FillInv, Waited
<1>1. Published(r)'
  BY <1>g DEF FillInv, Published
<1>2. Waited(r)'
  <2>1. <<r, "order">> \in deferreds' =>
          <<r, "order">> \in deferreds /\ ~ (m.req = r /\ m.phase = "order")
    BY <1>d
  <2>2. Has(callbacks', OrderAnswers(r)) =>
          Has(callbacks, OrderAnswers(r)) \/ (due /\ m.req = r /\ m.phase = "order")
    BY <1>e, <1>h
  <2> QED
    BY <1>g, <1>i, <2>1, <2>2 DEF FillInv, Waited
<1>3. CASE m \notin Fills(r)
  <2>1. /\ r \in received' <=> r \in received
        /\ r \in tasks' <=> r \in tasks
    BY <1>d, <1>h, <1>3
  <2>2. /\ Has(callbacks', FillCalls(r)) <=> Has(callbacks, FillCalls(r))
        /\ Has(callbacks', FilledAnswers(r)) <=> Has(callbacks, FilledAnswers(r))
        /\ HasOnce(callbacks, FillCalls(r)) => HasOnce(callbacks', FillCalls(r))
        /\ Before(callbacks, FillCalls(r), FilledAnswers(r)) =>
             Before(callbacks', FillCalls(r), FilledAnswers(r))
    BY <1>e, <1>h, <1>3
  <2>3. Handed(r)' <=> Handed(r)
    BY <1>g, <2>2 DEF Handed
  <2>4. OneFill(r)'
    BY <1>f, <1>g, <2>1, <2>3 DEF FillInv, OneFill
  <2>5. OneWay(r)'
    BY <1>g, <2>1, <2>3 DEF FillInv, OneWay
  <2>6. Doubtful(r)'
    BY <1>g, <2>2 DEF FillInv, Doubtful
  <2> QED
    BY <1>1, <1>2, <2>4, <2>5, <2>6 DEF FillInv
<1>4. CASE m \in Fills(r)
  <2>1. m.req = r /\ m.type = "filled" /\ r \in received'
    BY <1>d, <1>h, <1>4
  <2>2. /\ r \notin received /\ Executed(r) /\ ~ Handed(r) /\ r \notin tasks /\ reported[r] = 0
        /\ HasOnce(wire', Fills(r)) /\ ~ Has(wire', Fills(r))
    BY <1>a, <1>f, <1>4 DEF FillInv, OneFill
  <2>3. OneFill(r)'
    BY <1>g, <2>1, <2>2 DEF OneFill
  <2>4. CASE Solicited(m)
    <3>1. /\ req = r /\ pc \in {"response", "filling"} /\ ~ fillSet
          /\ pc = "response" => answer # "filled"
          /\ r \notin todo /\ responses[r] = "none" /\ tasks' = tasks
      BY <1>a, <1>d, <2>1, <2>2, <2>4 DEF Solicited, Pending, Handed, Holds
    <3>2. OneWay(r)'
      BY <1>g, <2>2, <3>1 DEF OneWay
    <3>3. /\ HasOnce(callbacks', FillCalls(r))
          /\ Before(callbacks', FillCalls(r), FilledAnswers(r))
      BY <1>e, <1>h, <2>2 DEF FillInv, Doubtful, Handed
    <3>4. Doubtful(r)'
      BY <1>g, <3>1, <3>3 DEF FillInv, Doubtful
    <3> QED
      BY <1>1, <1>2, <2>3, <3>2, <3>4 DEF FillInv
  <2>5. CASE ~ Solicited(m)
    <3>1. ~ due
      <4>1. SUFFICES ASSUME due PROVE FALSE
        OBVIOUS
      <4>2. <<r, m.phase>> \in Keys
        BY <1>a, <2>1, <4>1
      <4>3. m.phase = "order" \/ m.phase = "amend"
        BY <4>2 DEF Keys
      <4>4. m.phase = "order"
        BY <1>b, <2>1, <4>3 DEF Messages
      <4> QED
        BY <1>i, <2>1, <2>2, <2>5, <4>1, <4>4 DEF Solicited, Pending, Handed, Holds
    <3>2. /\ Has(callbacks', FillCalls(r)) <=> Has(callbacks, FillCalls(r))
          /\ Has(callbacks', FilledAnswers(r)) <=> Has(callbacks, FilledAnswers(r))
          /\ HasOnce(callbacks, FillCalls(r)) => HasOnce(callbacks', FillCalls(r))
          /\ Before(callbacks, FillCalls(r), FilledAnswers(r)) =>
               Before(callbacks', FillCalls(r), FilledAnswers(r))
      BY <1>e, <1>h, <2>5, <3>1
    <3>3. Handed(r)' <=> Handed(r)
      BY <1>g, <3>2 DEF Handed
    <3>4. OneWay(r)'
      BY <1>g, <2>2, <3>3 DEF OneWay
    <3>5. Doubtful(r)'
      BY <1>g, <3>2 DEF FillInv, Doubtful
    <3> QED
      BY <1>1, <1>2, <2>3, <3>4, <3>5 DEF FillInv
  <2> QED
    BY <2>4, <2>5
<1> QED
  BY <1>3, <1>4

LEMMA CallbackKeepsFill ==
  ASSUME IInv, NEW r \in Requests, FillInv(r), RunCallback PROVE FillInv(r)'
<1> DEFINE h == Head(callbacks)
<1>a. /\ callbacks \in Seq(Callbacks) /\ callbacks # <<>> /\ callbacks' = Tail(callbacks)
      /\ UNCHANGED <<loopVars, deferreds, tasks, wire, brokerVars, streamVars, received>>
      /\ reported \in [Requests -> Nat]
  BY DEF RunCallback, linkVars, IInv, TypeOK
<1>b. h \in TruthfulCallbacks(broker) /\ h \in Callbacks
  BY <1>a, HeadOfCallbacks DEF IInv, InTransit, TruthfulCallbacks
<1>c. \A S : /\ Has(callbacks, S) <=> Has(callbacks', S) \/ h \in S
             /\ HasOnce(callbacks, S) =>
                  HasOnce(callbacks', S) /\ (h \in S => ~ Has(callbacks', S))
  BY <1>a, TailHas
<1>d. \A S, T : Before(callbacks, S, T) =>
                  Before(callbacks', S, T) /\ (h \in T => ~ Has(callbacks, S))
  BY <1>a, TailBefore
<1> HIDE DEF h
<1>e. /\ h.future \in {"fill", "answer"} /\ h.msg.req \in Requests
      /\ h.future = "fill" => h.msg.phase = "order" /\ h.msg.type = "filled"
      /\ h \in FillCalls(r) <=> h.future = "fill" /\ h.msg.req = r
      /\ h \in OrderAnswers(r) <=> h.future = "answer" /\ h.msg.req = r /\ h.msg.phase = "order"
      /\ h \in FilledAnswers(r) <=> h \in OrderAnswers(r) /\ h.msg.type = "filled"
  BY <1>b, KeysTyped
     DEF TruthfulCallbacks, Callbacks, Messages, FillCalls, Fills, OrderAnswers, FilledAnswers
<1>f. UNCHANGED <<todo, pc, req, outcome, responses, reported, failures, broker, stopped>>
  BY <1>a DEF loopVars, streamVars, brokerVars
<1>1. \/ /\ h.future = "answer" /\ UNCHANGED <<fillSet, lost>>
         /\ answer' = IF <<h.msg.req, h.msg.phase>> = Awaited /\ answer = "pending"
                        THEN h.msg.type ELSE answer
      \/ h.future = "fill" /\ h.msg.req \in Pending /\ fillSet' = TRUE /\ UNCHANGED <<answer, lost>>
      \/ /\ h.future = "fill" /\ h.msg.req \notin Pending /\ lost' = lost \cup {h.msg.req}
         /\ UNCHANGED <<answer, fillSet>>
  BY DEF RunCallback, h
\* The future the result is for.
<1>2. /\ req = r /\ pc = "response" /\ answer' # answer =>
           h \in OrderAnswers(r) /\ answer' = h.msg.type
      /\ req = r /\ fillSet' # fillSet => h \in FillCalls(r) /\ Busy(r) /\ fillSet' = TRUE
      /\ lost' # lost => h.msg.req \notin Pending /\ h.future = "fill"
  BY <1>1, <1>e DEF Awaited, Pending, Busy
<1>3. Handed(r)' => Handed(r)
  <2>1. Holds(r)' => Holds(r) \/ h \in FillCalls(r) \/ h \in FilledAnswers(r)
    BY <1>2, <1>e, <1>f DEF Holds
  <2> QED
    BY <1>c, <2>1 DEF Handed
<1>4. OneFill(r)' /\ Published(r)'
  BY <1>a, <1>f, <1>3 DEF FillInv, OneFill, Executed, Published
<1>5. OneWay(r)'
  BY <1>a, <1>f, <1>3 DEF FillInv, OneWay, Busy
<1>6. Waited(r)'
  <2>1. Has(callbacks', OrderAnswers(r)) => Has(callbacks, OrderAnswers(r))
    BY <1>c
  <2>2. <<r, "order">> \in deferreds => h \notin OrderAnswers(r) /\ answer' = answer
    BY <1>2, <1>c DEF FillInv, Waited
  <2> QED
    BY <1>a, <1>f, <2>1, <2>2 DEF FillInv, Waited
<1>7. Doubtful(r)'
  <2>1. /\ HasOnce(callbacks', FillCalls(r))
        /\ Before(callbacks', FillCalls(r), FilledAnswers(r))
    BY <1>c, <1>d DEF FillInv, Doubtful
  <2>2. ASSUME Has(callbacks', FillCalls(r))
        PROVE  /\ responses'[r] \in InDoubt \cup {"none"}
               /\ req' = r => \/ pc' = "response" /\ answer' # "filled" /\ ~ fillSet'
                              \/ pc' = "filling" /\ ~ fillSet'
                              \/ pc' = "respond" /\ outcome' \in InDoubt
    <3>1. Has(callbacks, FillCalls(r)) /\ h \notin FillCalls(r) /\ h \notin FilledAnswers(r)
      BY <1>c, <1>d, <2>2 DEF FillInv, Doubtful
    <3>2. req = r => fillSet' = fillSet
      BY <1>2, <3>1
    <3>3. req = r /\ pc = "response" /\ answer # "filled" => answer' # "filled"
      BY <1>2, <1>e, <3>1
    <3> QED
      BY <1>f, <3>1, <3>2, <3>3 DEF FillInv, Doubtful
  <2>3. ASSUME r \in lost'
        PROVE  /\ r \notin todo' /\ responses'[r] \in InDoubt \cup {"none"}
               /\ req' = r => pc' = "respond" /\ outcome' \in InDoubt
    <3>1. CASE r \in lost
      BY <1>f, <3>1 DEF FillInv, Doubtful
    <3>2. CASE r \notin lost
      <4>1. h \in FillCalls(r) /\ r \notin Pending
        BY <1>1, <1>e, <2>3, <3>2
      <4>2. Has(callbacks, FillCalls(r)) /\ Handed(r)
        BY <1>c, <4>1 DEF Handed
      <4> QED
        BY <1>f, <4>1, <4>2 DEF FillInv, Doubtful, OneWay, Pending
    <3> QED
      BY <3>1, <3>2
  <2> QED
    BY <2>1, <2>2, <2>3 DEF Doubtful
<1> QED
  BY <1>4, <1>5, <1>6, <1>7 DEF FillInv

LEMMA TaskKeepsFill ==
  ASSUME IInv, NEW r \in Requests, FillInv(r), NEW q \in Requests, PublishTask(q)
  PROVE  FillInv(r)'
<1>1. /\ UNCHANGED <<loopVars, answer, fillSet, deferreds, callbacks, wire, brokerVars, responses,
                     historyVars>>
      /\ q \in tasks /\ tasks' = tasks \ {q}
      /\ \/ reported' = [reported EXCEPT ![q] = @ + 1] /\ failures' = failures
         \/ failures' = failures + 1 /\ reported' = reported
  BY DEF PublishTask, linkVars
<1>2. reported \in [Requests -> Nat] /\ failures \in Nat
  BY DEF IInv, TypeOK
<1>3. UNCHANGED <<todo, pc, req, outcome, broker, stopped, received, lost>>
  BY <1>1 DEF loopVars, brokerVars, historyVars
<1>4. Handed(r)' <=> Handed(r)
  BY <1>1, <1>3 DEF Handed, Holds
<1>5. reported'[r] = reported[r] \/ (r \in tasks /\ r \notin tasks' /\ reported'[r] = reported[r] + 1)
  BY <1>1, <1>2
<1>6. failures' = 0 => failures = 0
  BY <1>1, <1>2
<1>7. OneFill(r)'
  BY <1>1, <1>2, <1>3, <1>4, <1>5 DEF FillInv, OneFill, Executed
<1>8. OneWay(r)'
  BY <1>1, <1>2, <1>3, <1>4, <1>5 DEF FillInv, OneWay, Busy
<1>9. Published(r)'
  BY <1>1, <1>2, <1>3, <1>5, <1>6 DEF FillInv, Published, OneWay
<1>10. Waited(r)' /\ Doubtful(r)'
  BY <1>1, <1>3 DEF FillInv, Waited, Doubtful
<1> QED
  BY <1>7, <1>8, <1>9, <1>10 DEF FillInv

\* The connection and the broker touch nothing but the messages.
LEMMA OutsideKeepsFill ==
  ASSUME IInv, NEW r \in Requests, FillInv(r), HasOnce(wire', Fills(r)),
         UNCHANGED <<loopVars, answer, fillSet, callbacks, tasks, streamVars, historyVars>>,
         deferreds' \subseteq deferreds, Executed(r) => Executed(r)',
         Has(wire', Fills(r)) => Has(wire, Fills(r)) \/ (~ Executed(r) /\ Executed(r)')
  PROVE  FillInv(r)'
<1>1. UNCHANGED <<todo, pc, req, outcome, responses, reported, failures, received, lost>>
  BY DEF loopVars, streamVars, historyVars
<1>2. Handed(r)' <=> Handed(r)
  BY <1>1 DEF Handed, Holds
<1>3. OneFill(r)'
  BY <1>1, <1>2 DEF FillInv, OneFill
<1>4. OneWay(r)'
  BY <1>1, <1>2 DEF FillInv, OneWay, Busy
<1>5. Published(r)' /\ Waited(r)' /\ Doubtful(r)'
  BY <1>1 DEF FillInv, Published, Waited, Doubtful
<1> QED
  BY <1>3, <1>4, <1>5 DEF FillInv

\* What the broker tells is about one command, and a fill when it executes it.
LEMMA TellKeepsFill ==
  ASSUME IInv, NEW r \in Requests, FillInv(r), NEW m \in Messages,
         wire' = wire \/ wire' = Append(wire, m),
         UNCHANGED <<loopVars, futureVars, streamVars, historyVars>>,
         Executed(r) => Executed(r)',
         m \in Fills(r) => ~ Executed(r) /\ Executed(r)'
  PROVE  FillInv(r)'
<1>1. wire \in Seq(Messages)
  BY DEF IInv, TypeOK
<1>2. /\ HasOnce(wire, Fills(r))
      /\ m \in Fills(r) => ~ Has(wire, Fills(r))
  BY DEF FillInv, OneFill
<1>3. /\ HasOnce(wire', Fills(r))
      /\ Has(wire', Fills(r)) => Has(wire, Fills(r)) \/ m \in Fills(r)
  <2>1. CASE wire' = Append(wire, m)
    BY <1>1, <1>2, <2>1, AppendHas
  <2> QED
    BY <1>2, <2>1
<1> QED
  BY <1>3, OutsideKeepsFill DEF futureVars

LEMMA BrokerKeepsFill ==
  ASSUME IInv, [Next]_vars, NEW r \in Requests, FillInv(r),
         \/ \E q \in Requests : Execute(q) \/ FillAccepted(q) \/ RefuseAccepted(q)
         \/ \E k \in Keys : RefuseUnauthenticated(k)
         \/ \E q \in Opens : Amend(q)
         \/ \E c \in Closes : OwnClose(c)
  PROVE  FillInv(r)'
<1>a. /\ broker \in [Requests -> {"none", "accepted", "filled", "refused"}]
      /\ stopped \subseteq Closes /\ wire \in Seq(Messages) /\ SentOnce
  BY DEF IInv, TypeOK
<1>b. \A m \in Messages : Tell(<<m>>) => wire' = wire \/ wire' = Append(wire, m)
  BY <1>a DEF Tell
<1>c. broker[r] = "filled" => broker'[r] = "filled"
  BY <1>a, BrokerStep DEF IInv
<1>1. ASSUME NEW q \in Requests, Execute(q) \/ FillAccepted(q) \/ RefuseAccepted(q)
      PROVE  FillInv(r)'
  <2>1. PICK type \in {"accepted", "filled", "rejected"} :
          /\ Tell(<<Message(q, "order", type)>>)
          /\ type = "filled" => q \notin stopped /\ broker[q] \in {"none", "accepted"} /\ broker'[q] = "filled"
    BY <1>1, <1>a DEF Execute, FillAccepted, RefuseAccepted, SentOnce
  <2>2. UNCHANGED <<loopVars, futureVars, streamVars, historyVars, stopped>>
    BY <1>1 DEF Execute, FillAccepted, RefuseAccepted
  <2>3. Message(q, "order", type) \in Messages
    BY MessagesTyped
  <2>4. Message(q, "order", type) \in Fills(r) => q = r /\ type = "filled"
    BY DEF Message, Fills
  <2>5. Executed(r) => Executed(r)'
    BY <1>c, <2>2 DEF Executed
  <2>6. Message(q, "order", type) \in Fills(r) => ~ Executed(r) /\ Executed(r)'
    BY <2>1, <2>4 DEF Executed
  <2> QED
    BY <1>b, <2>1, <2>2, <2>3, <2>5, <2>6, TellKeepsFill
<1>2. ASSUME NEW k \in Keys, RefuseUnauthenticated(k) PROVE FillInv(r)'
  <2>1. /\ Message(k[1], k[2], "rejected") \in Messages
        /\ Message(k[1], k[2], "rejected") \notin Fills(r)
    BY MessagesTyped DEF Message, Fills
  <2>2. /\ UNCHANGED <<loopVars, futureVars, streamVars, historyVars, stopped>>
        /\ wire' = Append(wire, Message(k[1], k[2], "rejected"))
    BY <1>2 DEF RefuseUnauthenticated
  <2>3. Executed(r) => Executed(r)'
    BY <1>c, <2>2 DEF Executed
  <2> QED
    BY <2>1, <2>2, <2>3, TellKeepsFill
<1>3. ASSUME NEW q \in Opens, Amend(q) PROVE FillInv(r)'
  <2>1. PICK type \in {"replaced", "rejected"} : Tell(<<Message(q, "amend", type)>>)
    BY <1>3 DEF Amend
  <2>2. /\ Message(q, "amend", type) \in Messages /\ Message(q, "amend", type) \notin Fills(r)
    BY MessagesTyped DEF Message, Fills
  <2>3. UNCHANGED <<loopVars, futureVars, streamVars, historyVars, stopped>>
    BY <1>3 DEF Amend
  <2>4. Executed(r) => Executed(r)'
    BY <1>c, <2>3 DEF Executed
  <2> QED
    BY <1>b, <2>1, <2>2, <2>3, <2>4, TellKeepsFill
<1>4. ASSUME NEW c \in Closes, OwnClose(c) PROVE FillInv(r)'
  <2>1. /\ Tell(<<Message(c, "own", "filled")>>) /\ c \notin stopped /\ broker[c] # "filled"
        /\ stopped' = stopped \cup {c}
        /\ UNCHANGED <<loopVars, futureVars, streamVars, historyVars>>
    BY <1>4 DEF OwnClose
  <2>2. Message(c, "own", "filled") \in Messages
    BY MessagesTyped
  <2>3. Message(c, "own", "filled") \in Fills(r) => c = r
    BY DEF Message, Fills
  <2>4. Executed(r) => Executed(r)'
    BY <1>c, <2>1 DEF Executed
  <2>5. Message(c, "own", "filled") \in Fills(r) => ~ Executed(r) /\ Executed(r)'
    BY <2>1, <2>3 DEF Executed
  <2> QED
    BY <1>b, <2>1, <2>2, <2>4, <2>5, TellKeepsFill
<1> QED
  BY <1>1, <1>2, <1>3, <1>4

LEMMA LinkKeepsFill ==
  ASSUME IInv, NEW r \in Requests, FillInv(r), Disconnect \/ Reconnect PROVE FillInv(r)'
<1>1. /\ wire' = wire \/ wire' = <<>>
      /\ deferreds' \subseteq deferreds /\ (Executed(r) => Executed(r)')
      /\ UNCHANGED <<loopVars, answer, fillSet, callbacks, tasks, streamVars, historyVars>>
  BY DEF Disconnect, Reconnect, futureVars, brokerVars, Executed
<1>2. /\ HasOnce(wire', Fills(r))
      /\ Has(wire', Fills(r)) => Has(wire, Fills(r))
  <2>1. CASE wire' = wire
    BY <2>1 DEF FillInv, OneFill
  <2>2. CASE wire' = <<>>
    BY <2>2 DEF Has, HasOnce
  <2> QED
    BY <1>1, <2>1, <2>2
<1> QED
  BY <1>1, <1>2, OutsideKeepsFill

FillsInv == IInv /\ \A r \in Requests : FillInv(r)

LEMMA FillInvariant == Spec => []FillsInv
<1>1. Init => IInv
  BY InitIInv
<1>2. Init => \A r \in Requests : FillInv(r)
  <2> SUFFICES ASSUME Init, NEW r \in Requests PROVE FillInv(r)
    OBVIOUS
  <2>1. \A S, T : /\ ~ Has(wire, S) /\ HasOnce(wire, S) /\ ~ Has(callbacks, S)
                  /\ HasOnce(callbacks, S) /\ Before(callbacks, S, T)
    BY DEF Init, Has, HasOnce, Before
  <2>2. /\ ~ Handed(r) /\ r \notin tasks /\ reported[r] = 0 /\ responses[r] = "none"
        /\ r \notin received /\ r \notin lost /\ pc = "idle" /\ deferreds = {}
    BY <2>1 DEF Init, Handed, Holds
  <2> QED
    BY <2>1, <2>2 DEF FillInv, OneFill, OneWay, Published, Waited, Doubtful
<1>3. FillsInv /\ [Next]_vars => FillsInv'
  <2> SUFFICES ASSUME FillsInv, [Next]_vars PROVE FillsInv'
    OBVIOUS
  <2>1. IInv /\ IInv'
    BY StepIInv DEF FillsInv
  <2>2. ASSUME NEW r \in Requests PROVE FillInv(r)'
    <3>1. FillInv(r)
      BY DEF FillsInv
    <3>2. CASE LoopAction(r)
      BY <2>1, <3>1, <3>2, LoopKeepsFill
    <3>3. CASE OnMessage \/ RunCallback \/ Disconnect \/ Reconnect
      BY <2>1, <3>1, <3>3, MessageKeepsFill, CallbackKeepsFill, LinkKeepsFill
    <3>4. CASE \E q \in Requests : PublishTask(q)
      BY <2>1, <3>1, <3>4, TaskKeepsFill
    <3>5. CASE \/ \E q \in Requests : Execute(q) \/ FillAccepted(q) \/ RefuseAccepted(q)
               \/ \E k \in Keys : RefuseUnauthenticated(k)
               \/ \E q \in Opens : Amend(q)
               \/ \E c \in Closes : OwnClose(c)
      BY <2>1, <3>1, <3>5, BrokerKeepsFill
    <3>6. CASE UNCHANGED vars
      <4>1. /\ UNCHANGED <<loopVars, answer, fillSet, callbacks, tasks, streamVars, historyVars>>
            /\ UNCHANGED <<wire, deferreds, brokerVars>>
        BY <3>6 DEF vars, futureVars, linkVars
      <4>2. Executed(r)' <=> Executed(r)
        BY <4>1 DEF brokerVars, Executed
      <4>3. HasOnce(wire', Fills(r)) /\ (Has(wire', Fills(r)) => Has(wire, Fills(r)))
        BY <3>1, <4>1 DEF FillInv, OneFill
      <4> QED
        BY <2>1, <3>1, <4>1, <4>2, <4>3, OutsideKeepsFill
    <3> QED
      BY <3>2, <3>3, <3>4, <3>5, <3>6 DEF Next, LoopAction
  <2> QED
    BY <2>1, <2>2 DEF FillsInv
<1> QED
  BY <1>1, <1>2, <1>3, PTL DEF Spec, FillsInv

\* A close is in event_stream at most once, whether the coroutine that waited
\* for it published it, the unsolicited path did, or the broker closed by itself.
THEOREM ReportedAtMostOnce == Spec => []ReportedOnce
<1>1. FillsInv => ReportedOnce
  <2> SUFFICES ASSUME FillsInv, NEW c \in Closes
               PROVE  reported[c] <= 1 /\ (reported[c] = 1 => c \in received)
    BY DEF ReportedOnce
  <2>1. c \in Requests /\ FillInv(c)
    BY KeysTyped DEF FillsInv
  <2> QED
    BY <2>1 DEF FillInv, OneFill, OneWay
<1> QED
  BY <1>1, FillInvariant, PTL

\* The server, told that a close succeeded, has its position_closed already,
\* unless Redis failed.
THEOREM CloseIsPublished == Spec => []SuccessfulCloseReported
<1>1. FillsInv => SuccessfulCloseReported
  <2> SUFFICES ASSUME FillsInv, NEW c \in Closes, responses[c] = "success", failures = 0
               PROVE  reported[c] = 1
    BY DEF SuccessfulCloseReported
  <2>1. FillInv(c)
    BY KeysTyped DEF FillsInv
  <2> QED
    BY <2>1 DEF FillInv, Published
<1> QED
  BY <1>1, FillInvariant, PTL

\* A fill that finds its future cancelled belongs to a command that is
\* answered with a timeout or the catch-all broker_error, never with a
\* refusal's own code.
THEOREM LostInDoubt == Spec => []LostOnlyInDoubt
<1>1. FillsInv => LostOnlyInDoubt
  <2> SUFFICES ASSUME FillsInv, NEW r \in lost PROVE responses[r] \in InDoubt \cup {"none"}
    BY DEF LostOnlyInDoubt
  <2>1. r \in Requests /\ FillInv(r)
    BY DEF FillsInv, IInv, TypeOK
  <2> QED
    BY <2>1 DEF FillInv, Doubtful
<1> QED
  BY <1>1, FillInvariant, PTL
=============================================================================
