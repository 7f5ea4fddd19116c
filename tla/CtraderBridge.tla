---------------------------- MODULE CtraderBridge ----------------------------
(***************************************************************************)
(* One FTMO client process.  Its command loop executes one command at a    *)
(* time over the bridge to cTrader.  The bridge lives on two threads: the  *)
(* Twisted reactor receives the broker's messages and hands them to the    *)
(* asyncio loop as callbacks; the command's coroutine waits on that loop.  *)
(*                                                                         *)
(* A market order or a close is answered twice, ORDER_ACCEPTED and then    *)
(* ORDER_FILLED.  The library's Deferred delivers the first answer only;   *)
(* the fill reaches the coroutine through _pending_executions, or, when    *)
(* nobody waits for it there, is published to the server as an unsolicited *)
(* event.  An open with SL/TP amends the position it has just filled.      *)
(***************************************************************************)
EXTENDS Integers, Sequences, FiniteSets

CONSTANTS
  Opens,       \* commands that open a position at market
  Closes,      \* commands that close one, each a position of its own
  None,        \* no command
  MaxDrops,    \* losses of the connection to cTrader (bound)
  MaxFailures  \* failed accesses to Redis (bound)

Requests == Opens \cup Closes

ASSUME BridgeAssumption ==
  /\ Opens \cap Closes = {}
  /\ None \notin Requests
  /\ MaxDrops \in Nat /\ MaxFailures \in Nat

VARIABLES
  todo,        \* commands in cmd_stream the loop has not read
  pc, req,     \* where the command loop stands, and in which command
  outcome,     \* of that command, to be published
  answer,      \* the future of _send_and_wait
  fillSet,     \* the future in _pending_executions has its result
  deferreds,   \* requests whose Deferred the library still holds
  callbacks,   \* call_soon_threadsafe: results on their way to a future
  tasks,       \* fills that a _publish_unsolicited_event task is to publish
  link,        \* the connection to cTrader
  outgoing,    \* requests on their way to the broker
  wire,        \* the broker's messages on their way to the reactor
  broker,      \* what the broker did with each command
  amended,     \* what it did with the SL/TP of each open
  stopped,     \* positions it closed by itself (SL, TP, operator in cTrader)
  responses,   \* resp_stream
  reported,    \* number of fill events in event_stream, by command
  received,    \* history: commands whose fill the reactor was told of
  lost,        \* history: commands whose fill no coroutine took and no task publishes
  drops, failures

loopVars    == <<todo, pc, req, outcome>>
futureVars  == <<answer, fillSet, deferreds, callbacks, tasks>>
linkVars    == <<link, outgoing, wire, drops>>
brokerVars  == <<broker, amended, stopped>>
streamVars  == <<responses, reported, failures>>
historyVars == <<received, lost>>
vars == <<loopVars, futureVars, linkVars, brokerVars, streamVars, historyVars>>

-----------------------------------------------------------------------------
\* A request to the broker: the command itself, or the amend that follows it.
Keys == (Requests \X {"order"}) \cup (Opens \X {"amend"})

\* Executions and errors the broker sends; phase "own" carries no clientMsgId.
Messages ==
  [req : Requests, phase : {"order"}, type : {"accepted", "filled", "rejected"}]
    \cup [req : Opens, phase : {"amend"}, type : {"replaced", "rejected"}]
    \cup [req : Closes, phase : {"own"}, type : {"filled"}]

\* A fill for the future in _pending_executions, or an answer for the one of
\* _send_and_wait.
Callbacks == [future : {"fill", "answer"}, msg : Messages]

Message(r, phase, type) == [req |-> r, phase |-> phase, type |-> type]

\* What is published when nobody knows what the broker did: "timeout" when a
\* wait of the coroutine ended, "broker_error" when the library gave up first.
InDoubt == {"timeout", "broker_error"}

\* "broker_error" is the catch-all: a refusal whose code map_ctrader_error does
\* not know is published with it as well.  "refused" stands for the known codes.
Outcomes == {"success", "attach_failed", "refused", "invalid"} \cup InDoubt
Answers  == {"none", "pending", "accepted", "filled", "rejected", "replaced"}
Pcs == {"idle", "response", "filling", "report", "settle", "amending", "respond"}

TypeOK ==
  /\ todo \subseteq Requests
  /\ pc \in Pcs /\ req \in Requests \cup {None} /\ (pc # "idle" => req \in Requests)
  /\ (pc \in {"settle", "amending"} => req \in Opens) /\ (pc = "report" => req \in Closes)
  /\ outcome \in Outcomes /\ answer \in Answers /\ fillSet \in BOOLEAN
  /\ deferreds \subseteq Keys /\ callbacks \in Seq(Callbacks) /\ tasks \subseteq Requests
  /\ link \in {"authenticated", "connected", "down"}
  /\ outgoing \subseteq Keys /\ wire \in Seq(Messages) /\ drops \in Nat
  /\ broker \in [Requests -> {"none", "accepted", "filled", "refused"}]
  /\ amended \in [Opens -> {"none", "replaced", "refused"}]
  /\ stopped \subseteq Closes
  /\ responses \in [Requests -> Outcomes \cup {"none"}]
  /\ reported \in [Requests -> Nat] /\ failures \in Nat
  /\ received \subseteq Requests /\ lost \subseteq Requests

Init ==
  /\ todo = Requests
  /\ pc = "idle" /\ req = None /\ outcome = "invalid"
  /\ answer = "none" /\ fillSet = FALSE
  /\ deferreds = {} /\ callbacks = <<>> /\ tasks = {}
  /\ link = "authenticated" /\ outgoing = {} /\ wire = <<>> /\ drops = 0
  /\ broker = [r \in Requests |-> "none"]
  /\ amended = [r \in Opens |-> "none"]
  /\ stopped = {}
  /\ responses = [r \in Requests |-> "none"]
  /\ reported = [r \in Requests |-> 0] /\ failures = 0
  /\ received = {} /\ lost = {}

-----------------------------------------------------------------------------
(* The command loop: dispatch, bridge call, response, one command at a     *)
(* time.                                                                   *)

\* A plausible bug: the entries are never dropped.
PendingKept == Requests \ todo

\* The entry of the running command in _pending_executions; a `finally' drops
\* it when place_market_order or close_position returns.
Pending == IF pc \in {"response", "filling", "report"} THEN {req} ELSE {}

\* The request whose answer _send_and_wait awaits.
Awaited == <<req, IF pc = "amending" THEN "amend" ELSE "order">>

\* send_in_reactor: the library keeps a Deferred for the request and sends it.
Send(k) ==
  /\ outgoing' = outgoing \cup {k}
  /\ deferreds' = deferreds \cup {k}
  /\ answer' = "pending"

\* A plausible bug: the command is read again after it was handled.
TakeCommandTwice(r) ==
  /\ pc = "idle" /\ r \in todo
  /\ req' = r /\ pc' = "response" /\ fillSet' = FALSE
  /\ Send(<<r, "order">>)
  /\ UNCHANGED <<todo, outcome, callbacks, tasks, link, wire, drops, brokerVars, streamVars,
                 historyVars>>

TakeCommand(r) ==
  /\ pc = "idle" /\ r \in todo
  /\ todo' = todo \ {r} /\ req' = r /\ pc' = "response"
  /\ fillSet' = FALSE
  /\ Send(<<r, "order">>)
  /\ UNCHANGED <<outcome, callbacks, tasks, link, wire, drops, brokerVars, streamVars, historyVars>>

\* A command that fails validation, or whose symbol is not synced.
InvalidCommand(r) ==
  /\ pc = "idle" /\ r \in todo
  /\ todo' = todo \ {r} /\ req' = r /\ pc' = "respond" /\ outcome' = "invalid"
  /\ UNCHANGED <<futureVars, linkVars, brokerVars, streamVars, historyVars>>

\* Reading symbol_config fails: the handler raises, the command is
\* acknowledged all the same and nobody answers it.
SymbolReadFails(r) ==
  /\ pc = "idle" /\ r \in todo /\ failures < MaxFailures
  /\ todo' = todo \ {r} /\ failures' = failures + 1
  /\ UNCHANGED <<pc, req, outcome, futureVars, linkVars, brokerVars, responses, reported,
                 historyVars>>

Finish(result) ==
  /\ pc' = "respond" /\ outcome' = result
  /\ answer' = "none" /\ fillSet' = FALSE

\* Plausible bugs: a close goes the way of an open, or is answered without its
\* position_closed.
FilledSameWay ==
  pc' = "settle" /\ answer' = "none" /\ fillSet' = FALSE /\ UNCHANGED outcome

FilledUnreported ==
  \/ req \in Opens /\ pc' = "settle" /\ answer' = "none" /\ fillSet' = FALSE /\ UNCHANGED outcome
  \/ Finish("success")

\* A fill is in: a close publishes its position_closed first, an open with
\* SL/TP goes on to amend, one without is done.
Filled ==
  \/ /\ req \in Closes
     /\ pc' = "report" /\ answer' = "none" /\ UNCHANGED <<outcome, fillSet>>
  \/ /\ req \in Opens
     /\ pc' = "settle" /\ answer' = "none" /\ fillSet' = FALSE /\ UNCHANGED outcome
  \/ /\ req \in Opens
     /\ Finish("success")

AnsweredFilled ==
  /\ pc = "response" /\ answer = "filled"
  /\ Filled
  /\ UNCHANGED <<todo, req, deferreds, callbacks, tasks, linkVars, brokerVars, streamVars,
                 historyVars>>

\* A plausible bug: the first answer is taken for the last.
AcceptedIsFinal ==
  /\ pc = "response" /\ answer = "accepted"
  /\ Finish("success")
  /\ UNCHANGED <<todo, req, deferreds, callbacks, tasks, linkVars, brokerVars, streamVars,
                 historyVars>>

AnsweredAccepted ==
  /\ pc = "response" /\ answer = "accepted"
  /\ pc' = "filling" /\ answer' = "none"
  /\ UNCHANGED <<todo, req, outcome, fillSet, deferreds, callbacks, tasks, linkVars, brokerVars,
                 streamVars, historyVars>>

\* map_ctrader_error knows the code of the refusal, or it does not.
AnsweredRejected ==
  /\ pc = "response" /\ answer = "rejected"
  /\ \E code \in {"refused", "broker_error"} : Finish(code)
  /\ UNCHANGED <<todo, req, deferreds, callbacks, tasks, linkVars, brokerVars, streamVars,
                 historyVars>>

FillArrives ==
  /\ pc = "filling" /\ fillSet
  /\ Filled
  /\ UNCHANGED <<todo, req, deferreds, callbacks, tasks, linkVars, brokerVars, streamVars,
                 historyVars>>

\* A plausible bug: no fill is taken for a refusal.
FillTimeoutRefuses ==
  /\ pc = "filling" /\ ~fillSet
  /\ Finish("refused")
  /\ UNCHANGED <<todo, req, deferreds, callbacks, tasks, linkVars, brokerVars, streamVars,
                 historyVars>>

\* wait_for gives up after 30 s and cancels the fill's future.
FillTimesOut ==
  /\ pc = "filling" /\ ~fillSet
  /\ Finish("timeout")
  /\ UNCHANGED <<todo, req, deferreds, callbacks, tasks, linkVars, brokerVars, streamVars,
                 historyVars>>

\* A plausible bug: the amend waits without a timeout.
GiveUpOrder(code) ==
  /\ pc = "response" /\ answer = "pending"
  /\ Finish(code)
  /\ deferreds' = deferreds \ {Awaited}
  /\ lost' = IF fillSet THEN lost \cup {req} ELSE lost
  /\ UNCHANGED <<todo, req, callbacks, tasks, linkVars, brokerVars, streamVars, received>>

\* _send_and_wait raises: the exception leaves the bridge, in the amend as well
\* as in the order itself, and the handler answers with an error.  A fill that
\* has come meanwhile is dropped with its entry in _pending_executions.
GiveUp(code) ==
  /\ pc \in {"response", "amending"} /\ answer = "pending"
  /\ Finish(code)
  /\ deferreds' = deferreds \ {Awaited}
  /\ lost' = IF fillSet THEN lost \cup {req} ELSE lost
  /\ UNCHANGED <<todo, req, callbacks, tasks, linkVars, brokerVars, streamVars, received>>

\* A plausible bug: no answer is taken for a refusal.
NoAnswerRefuses == GiveUp("refused")

\* wait_for ends after 30 s with a TimeoutError.
NoAnswer == GiveUp("timeout")

\* The Deferred has the same 30 s of its own, and fails with the connection too:
\* its errback makes a RuntimeError of the future, unless an answer was first.
LibraryGivesUp ==
  /\ \A i \in DOMAIN callbacks :
       LET c == callbacks[i] IN c.future = "answer" => <<c.msg.req, c.msg.phase>> # Awaited
  /\ GiveUp("broker_error")

\* _publish_position_closed_from_fill swallows a failing XADD.
ReportClose ==
  /\ pc = "report"
  /\ Finish("success")
  /\ \/ reported' = [reported EXCEPT ![req] = @ + 1] /\ UNCHANGED failures
     \/ failures < MaxFailures /\ failures' = failures + 1 /\ UNCHANGED reported
  /\ UNCHANGED <<todo, req, deferreds, callbacks, tasks, linkVars, brokerVars, responses,
                 historyVars>>

SendAmend ==
  /\ pc = "settle"
  /\ pc' = "amending"
  /\ Send(<<req, "amend">>)
  /\ UNCHANGED <<todo, req, outcome, fillSet, callbacks, tasks, link, wire, drops, brokerVars,
                 streamVars, historyVars>>

AmendAnswered ==
  /\ pc = "amending"
  /\ \/ answer = "replaced" /\ Finish("success")
     \/ answer = "rejected" /\ Finish("attach_failed")
  /\ UNCHANGED <<todo, req, deferreds, callbacks, tasks, linkVars, brokerVars, streamVars,
                 historyVars>>

\* _publish_response or _publish_error; a failing XADD is logged by the loop.
Respond ==
  /\ pc = "respond"
  /\ pc' = "idle" /\ req' = None /\ outcome' = "invalid"
  /\ \/ responses' = [responses EXCEPT ![req] = outcome] /\ UNCHANGED failures
     \/ failures < MaxFailures /\ failures' = failures + 1 /\ UNCHANGED responses
  /\ UNCHANGED <<todo, futureVars, linkVars, brokerVars, reported, historyVars>>

LoopStep ==
  \/ AnsweredFilled \/ AnsweredAccepted \/ AnsweredRejected
  \/ FillArrives \/ FillTimesOut \/ NoAnswer \/ LibraryGivesUp
  \/ ReportClose \/ SendAmend \/ AmendAnswered \/ Respond

-----------------------------------------------------------------------------
(* The reactor thread, and what it schedules on the loop.                  *)

\* The command waits for this fill, and its future has no result yet.
Solicited(m) == m.phase = "order" /\ m.type = "filled" /\ m.req \in Pending /\ ~fillSet

FillCallback(m) == IF Solicited(m) THEN <<[future |-> "fill", msg |-> m]>> ELSE <<>>

AnswerCallback(m) ==
  IF <<m.req, m.phase>> \in deferreds THEN <<[future |-> "answer", msg |-> m]>> ELSE <<>>

\* A plausible bug: _on_message publishes the fills somebody waits for as well.
OnMessagePublishesAll ==
  /\ wire # <<>>
  /\ LET m == Head(wire) IN
       /\ callbacks' = callbacks \o FillCallback(m) \o AnswerCallback(m)
       /\ deferreds' = deferreds \ {<<m.req, m.phase>>}
       /\ tasks' = IF m.type = "filled" THEN tasks \cup {m.req} ELSE tasks
       /\ received' = IF m.type = "filled" THEN received \cup {m.req} ELSE received
  /\ wire' = Tail(wire)
  /\ UNCHANGED <<loopVars, answer, fillSet, link, outgoing, drops, brokerVars, streamVars, lost>>

\* The library calls _on_message for every message and then fires the Deferred
\* of its clientMsgId, if it still has one.  Of the unsolicited events only
\* fills are followed here; the other payloads concern no property.
OnMessage ==
  /\ wire # <<>>
  /\ LET m == Head(wire) IN
       /\ callbacks' = callbacks \o FillCallback(m) \o AnswerCallback(m)
       /\ deferreds' = deferreds \ {<<m.req, m.phase>>}
       /\ tasks' = IF m.type = "filled" /\ ~Solicited(m) THEN tasks \cup {m.req} ELSE tasks
       /\ received' = IF m.type = "filled" THEN received \cup {m.req} ELSE received
  /\ wire' = Tail(wire)
  /\ UNCHANGED <<loopVars, answer, fillSet, link, outgoing, drops, brokerVars, streamVars, lost>>

\* future.set_result on the loop.  The future may have been cancelled by a
\* timeout since the reactor looked: set_result raises, the result is gone.
RunCallback ==
  /\ callbacks # <<>>
  /\ LET c == Head(callbacks) IN
       \/ /\ c.future = "answer"
          /\ answer' = IF <<c.msg.req, c.msg.phase>> = Awaited /\ answer = "pending"
                         THEN c.msg.type ELSE answer
          /\ UNCHANGED <<fillSet, lost>>
       \/ /\ c.future = "fill" /\ c.msg.req \in Pending
          /\ fillSet' = TRUE
          /\ UNCHANGED <<answer, lost>>
       \/ /\ c.future = "fill" /\ c.msg.req \notin Pending
          /\ lost' = lost \cup {c.msg.req}
          /\ UNCHANGED <<answer, fillSet>>
  /\ callbacks' = Tail(callbacks)
  /\ UNCHANGED <<loopVars, deferreds, tasks, linkVars, brokerVars, streamVars, received>>

\* _publish_unsolicited_event swallows a failing XADD.
PublishTask(r) ==
  /\ r \in tasks
  /\ tasks' = tasks \ {r}
  /\ \/ reported' = [reported EXCEPT ![r] = @ + 1] /\ UNCHANGED failures
     \/ failures < MaxFailures /\ failures' = failures + 1 /\ UNCHANGED reported
  /\ UNCHANGED <<loopVars, answer, fillSet, deferreds, callbacks, linkVars, brokerVars, responses,
                 historyVars>>

\* The library reconnects by itself and _on_connected authenticates the
\* application; the account is authenticated only by connect_with_retry.
Disconnect ==
  /\ link # "down" /\ drops < MaxDrops
  /\ link' = "down" /\ drops' = drops + 1 /\ wire' = <<>>
  /\ outgoing' \in SUBSET outgoing
  /\ deferreds' \in {deferreds, {}}
  /\ UNCHANGED <<loopVars, answer, fillSet, callbacks, tasks, brokerVars, streamVars, historyVars>>

Reconnect ==
  /\ link = "down"
  /\ link' = "connected"
  /\ UNCHANGED <<loopVars, futureVars, outgoing, wire, drops, brokerVars, streamVars, historyVars>>

-----------------------------------------------------------------------------
(* cTrader, as far as the bridge relies on it: it answers a request in     *)
(* order, reports to an authenticated account only, and closes positions   *)
(* of its own accord.                                                      *)

Tell(messages) == wire' = IF link = "authenticated" THEN wire \o messages ELSE wire

\* A market order or a close: accepted, filled at once, or refused.
Execute(r) ==
  /\ <<r, "order">> \in outgoing /\ link = "authenticated"
  /\ outgoing' = outgoing \ {<<r, "order">>}
  /\ \/ /\ r \notin stopped
        /\ broker' = [broker EXCEPT ![r] = "accepted"]
        /\ Tell(<<Message(r, "order", "accepted")>>)
     \/ /\ r \notin stopped
        /\ broker' = [broker EXCEPT ![r] = "filled"]
        /\ Tell(<<Message(r, "order", "filled")>>)
     \/ /\ broker' = [broker EXCEPT ![r] = "refused"]
        /\ Tell(<<Message(r, "order", "rejected")>>)
  /\ UNCHANGED <<loopVars, futureVars, link, drops, amended, stopped, streamVars, historyVars>>

\* An account that is not authenticated on this connection is refused.
RefuseUnauthenticated(k) ==
  /\ k \in outgoing /\ link = "connected"
  /\ outgoing' = outgoing \ {k}
  /\ wire' = Append(wire, Message(k[1], k[2], "rejected"))
  /\ IF k[2] = "order"
       THEN broker' = [broker EXCEPT ![k[1]] = "refused"] /\ UNCHANGED amended
       ELSE amended' = [amended EXCEPT ![k[1]] = "refused"] /\ UNCHANGED broker
  /\ UNCHANGED <<loopVars, futureVars, link, drops, stopped, streamVars, historyVars>>

FillAccepted(r) ==
  /\ broker[r] = "accepted" /\ r \notin stopped
  /\ broker' = [broker EXCEPT ![r] = "filled"]
  /\ Tell(<<Message(r, "order", "filled")>>)
  /\ UNCHANGED <<loopVars, futureVars, link, outgoing, drops, amended, stopped, streamVars,
                 historyVars>>

RefuseAccepted(r) ==
  /\ broker[r] = "accepted"
  /\ broker' = [broker EXCEPT ![r] = "refused"]
  /\ Tell(<<Message(r, "order", "rejected")>>)
  /\ UNCHANGED <<loopVars, futureVars, link, outgoing, drops, amended, stopped, streamVars,
                 historyVars>>

Amend(r) ==
  /\ <<r, "amend">> \in outgoing /\ link = "authenticated"
  /\ outgoing' = outgoing \ {<<r, "amend">>}
  /\ \/ /\ amended' = [amended EXCEPT ![r] = "replaced"]
        /\ Tell(<<Message(r, "amend", "replaced")>>)
     \/ /\ amended' = [amended EXCEPT ![r] = "refused"]
        /\ Tell(<<Message(r, "amend", "rejected")>>)
  /\ UNCHANGED <<loopVars, futureVars, link, drops, broker, stopped, streamVars, historyVars>>

\* SL, TP, or the operator in cTrader's own interface.
OwnClose(c) ==
  /\ c \notin stopped /\ broker[c] # "filled"
  /\ stopped' = stopped \cup {c}
  /\ Tell(<<Message(c, "own", "filled")>>)
  /\ UNCHANGED <<loopVars, futureVars, link, outgoing, drops, broker, amended, streamVars,
                 historyVars>>

-----------------------------------------------------------------------------
Next ==
  \/ \E r \in Requests : TakeCommand(r) \/ InvalidCommand(r) \/ SymbolReadFails(r)
  \/ LoopStep
  \/ OnMessage \/ RunCallback \/ Disconnect \/ Reconnect
  \/ \E r \in Requests : PublishTask(r) \/ Execute(r) \/ FillAccepted(r) \/ RefuseAccepted(r)
  \/ \E k \in Keys : RefuseUnauthenticated(k)
  \/ \E r \in Opens : Amend(r)
  \/ \E c \in Closes : OwnClose(c)

\* The loop, its callbacks and its tasks run; the broker and the connection
\* promise nothing: every wait ends by its timeout.
Fairness ==
  /\ WF_vars(\E r \in Requests : TakeCommand(r))
  /\ WF_vars(LoopStep) /\ WF_vars(RunCallback)
  /\ \A r \in Requests : WF_vars(PublishTask(r))

Spec == Init /\ [][Next]_vars
FairSpec == Spec /\ Fairness

-----------------------------------------------------------------------------
(* Properties.                                                             *)

\* The docstring of action_handlers promises exactly one response per command:
\* whatever answers, callbacks and timeouts come later, one that stands in
\* resp_stream is never followed by another.
AnsweredOnce ==
  [][\A r \in Requests : responses[r] # "none" => responses'[r] = responses[r]]_vars

\* The server books a leg as filled or closed on the strength of a success:
\* the broker must have executed the command, whichever of the two futures
\* and of the two threads the fill came through.
SuccessIsReal ==
  \A r \in Requests : responses[r] \in {"success", "attach_failed"} => broker[r] = "filled"

\* The server retries or gives up after a refusal: no refusal with a code of its
\* own may be published for a command that the broker executed or may still
\* execute, and none was sent for an invalid one.  Of broker_error nothing is
\* claimed: the code publishes it for refusals and for requests in doubt alike.
RefusedIsReal ==
  \A r \in Requests :
    /\ responses[r] = "refused" => broker[r] = "refused"
    /\ responses[r] = "invalid" => broker[r] = "none" /\ <<r, "order">> \notin outgoing

\* A close is published by the coroutine that waited for it, by the unsolicited
\* path when nobody did, or because the broker closed by itself: never twice.
ReportedOnce ==
  \A c \in Closes : reported[c] <= 1 /\ (reported[c] = 1 => c \in received)

\* The closing cascade of the server waits for position_closed: a close that is
\* answered with success has it in event_stream before the answer.
SuccessfulCloseReported ==
  \A c \in Closes : responses[c] = "success" /\ failures = 0 => reported[c] = 1

\* A fill that reaches its future too late is lost; the server must then have
\* been told a timeout or the catch-all, never a success that no event follows,
\* nor the code of a refusal, nor that the command was not sent.
LostOnlyInDoubt == \A r \in lost : responses[r] \in InDoubt \cup {"none"}

\* Every command is answered, even when the broker and the connection stay
\* silent, unless Redis refuses the answer.
EveryCommandAnswered ==
  \A r \in Requests : <>(responses[r] # "none" \/ failures > 0)

\* A close that the reactor was told of reaches event_stream, whichever command
\* is running and however long ago its own wait ended; the race of LostOnlyInDoubt
\* and a failing XADD are the only exceptions.
ReceivedCloseIsReported ==
  \A c \in Closes : c \in received ~> (reported[c] > 0 \/ c \in lost \/ failures > 0)

\* OrderPlacementResult says of an open whose amend failed: "status=success is
\* still set on the resp_stream entry -- the fill itself succeeded".  An amend that
\* the broker processed was preceded by such a fill.
FilledOpenIsSuccess ==
  \A o \in Opens :
    amended[o] # "none" => responses[o] \in {"none", "success", "attach_failed"}
=============================================================================
