---------------------------- MODULE FtmoAccount ----------------------------
(***************************************************************************)
(* The FTMO side of an order: the cTrader account, and the FTMO client     *)
(* that executes the server's commands one at a time, publishes what the   *)
(* account does by itself, and starts with a snapshot of the account.      *)
(* CtraderBridge has the message exchange of one command in detail; here   *)
(* a command is its effect on the account and its answer.                  *)
(***************************************************************************)
EXTENDS OrderStore

CONSTANT MaxFaults  \* times the client goes down or the server crashes (bound)

ASSUME FaultAssumption == MaxFaults \in Nat

VARIABLES
  account,   \* per order: its state at cTrader and the stops set there
  client,    \* the client process, and the snapshot it is about to publish
  answer,    \* the response to the command in hand, or NoAnswer
  effect,    \* the event the command in hand brought about, or NoEffect
  cmds,      \* cmd_stream:ftmo:{acc}, oldest entry first
  resps,     \* resp_stream:ftmo:{acc}
  events,    \* event_stream:ftmo:{acc}
  edits,     \* stop values used so far, so that each edit is a new one
  faults,
  lost       \* history: what was lost of each order, by kind

accountVars == <<account, edits>>
clientVars  == <<client, answer, effect>>
streamVars  == <<cmds, resps, events>>

-----------------------------------------------------------------------------
Actions == {"open", "close", "modify_sl_tp", "fetch_close_history"}
Losses  == {"answer", "event", "doubt", "edit", "history", "crash"}

\* fetch_close_history is pushed by the event loop, which links no request.
NoRequest == 0
Commands  == [id : 0 .. MaxRequests, act : Actions, of : Orders, type : Types,
              stops : 0 .. MaxStops]
Responses == [id : 0 .. MaxRequests, act : Actions, of : Orders, stops : 0 .. MaxStops,
              ok : BOOLEAN, filled : BOOLEAN]
NoAnswer  == [act |-> "none"]
NoEffect  == [type |-> "none"]

Snapshots == [open : SUBSET Orders, working : SUBSET Orders]
NoSnapshot == [open |-> {}, working |-> {}]
OrderEvents ==
  [type : {"position_closed", "pending_filled", "position_modified", "order_cancelled"},
   of : Orders, stops : 0 .. MaxStops]
Events ==
  OrderEvents
    \cup [type : {"reconcile_snapshot"}, open : SUBSET Orders, working : SUBSET Orders]

AccountTypeOK ==
  /\ account \in [Orders -> [state : {"none", "working", "open", "closed", "cancelled"},
                             stops : 0 .. MaxStops]]
  /\ client \in [at : {"up", "down", "connected", "queried"}, snapshot : Snapshots]
  /\ answer \in Responses \cup {NoAnswer} /\ effect \in OrderEvents \cup {NoEffect}
  /\ cmds \in Seq(Commands) /\ resps \in Seq(Responses) /\ events \in Seq(Events)
  /\ edits \in 0 .. MaxStops /\ faults \in 0 .. MaxFaults
  /\ lost \in [Orders -> SUBSET Losses]

AccountInit ==
  /\ account = [o \in Orders |-> [state |-> "none", stops |-> 0]]
  /\ client = [at |-> "up", snapshot |-> NoSnapshot]
  /\ answer = NoAnswer /\ effect = NoEffect
  /\ cmds = <<>> /\ resps = <<>> /\ events = <<>>
  /\ edits = 0 /\ faults = 0
  /\ lost = [o \in Orders |-> {}]

InState(s) == {o \in Orders : account[o].state = s}
Lose(o, kind) == lost' = [lost EXCEPT ![o] = @ \cup {kind}]

OrderEvent(type, o, stops) == [type |-> type, of |-> o, stops |-> stops]

\* cTrader pushes an event of order o; a client that is not connected misses
\* it, and nobody tells it later.
Push(type, o, stops, kind) ==
  IF client.at = "down" THEN Lose(o, kind) /\ UNCHANGED events
  ELSE events' = Append(events, OrderEvent(type, o, stops)) /\ UNCHANGED lost

-----------------------------------------------------------------------------
(* The account                                                             *)

\* The price reaches a waiting order.
Trigger(o) ==
  /\ account[o].state = "working"
  /\ account' = [account EXCEPT ![o].state = "open"]
  /\ Push("pending_filled", o, 0, "event")
  /\ UNCHANGED <<edits, clientVars, faults, cmds, resps>>

\* A waiting order is cancelled in the cTrader user interface, or expires.
CancelAtBroker(o) ==
  /\ account[o].state = "working"
  /\ account' = [account EXCEPT ![o].state = "cancelled"]
  /\ Push("order_cancelled", o, 0, "event")
  /\ UNCHANGED <<edits, clientVars, faults, cmds, resps>>

\* Stop loss, take profit, or a close in the user interface.
CloseAtBroker(o) ==
  /\ account[o].state = "open"
  /\ account' = [account EXCEPT ![o].state = "closed"]
  /\ Push("position_closed", o, 0, "event")
  /\ UNCHANGED <<edits, clientVars, faults, cmds, resps>>

\* The answer to a modify of o has still to reach the row, or its event to be
\* published.
ModifyOnTheWay(o) ==
  \/ \E i \in DOMAIN resps : resps[i].of = o /\ resps[i].act = "modify_sl_tp" /\ resps[i].ok
  \/ answer # NoAnswer /\ answer.of = o /\ answer.act = "modify_sl_tp"

\* The stops are changed in the user interface.  The event and the answer to
\* a modify of the server go two ways, so which of them counts is lost.
EditAtBroker(o) ==
  /\ account[o].state = "open"
  /\ edits < MaxStops /\ edits' = edits + 1
  /\ account' = [account EXCEPT ![o].stops = edits']
  /\ IF client.at = "down" THEN Lose(o, "edit") /\ UNCHANGED events
     ELSE /\ events' = Append(events, OrderEvent("position_modified", o, edits'))
          /\ IF ModifyOnTheWay(o) THEN Lose(o, "edit") ELSE UNCHANGED lost
  /\ UNCHANGED <<clientVars, faults, cmds, resps>>

Account ==
  \E o \in Orders :
    \/ Trigger(o)
    \/ CancelAtBroker(o)
    \/ CloseAtBroker(o)
    \/ EditAtBroker(o)

-----------------------------------------------------------------------------
(* The client                                                              *)

Reply(c, ok, filled) ==
  [id |-> c.id, act |-> c.act, of |-> c.of, stops |-> c.stops, ok |-> ok, filled |-> filled]

Take(c) ==
  /\ client.at = "up" /\ answer = NoAnswer
  /\ cmds' = Tail(cmds)
  /\ UNCHANGED <<edits, client, faults, resps>>

\* What an executed open leaves in the account.
Opened(c) == IF c.type = "market" THEN "open" ELSE "working"

\* handle_open, handle_close, handle_modify_sl_tp: the broker executes.
Performs(c) ==
  \/ /\ c.act = "open"
     /\ account' = [account EXCEPT ![c.of] = [state |-> Opened(c), stops |-> c.stops]]
  \/ /\ c.act = "close" /\ account[c.of].state = "open"
     /\ account' = [account EXCEPT ![c.of].state = "closed"]
  \/ /\ c.act = "modify_sl_tp" /\ account[c.of].state = "open"
     /\ account' = [account EXCEPT ![c.of].stops = c.stops]

\* What the client publishes of a command besides the answer: the close it
\* waited for or found in the history, and the new stops, which reach it like
\* those of an edit.
Effect(c) ==
  CASE c.act = "open"         -> NoEffect
    [] c.act = "modify_sl_tp" -> OrderEvent("position_modified", c.of, c.stops)
    [] OTHER                  -> OrderEvent("position_closed", c.of, 0)

Executes(c) ==
  /\ Take(c) /\ Performs(c)
  /\ answer' = Reply(c, TRUE, c.act = "open" /\ c.type = "market")
  /\ effect' = Effect(c)
  /\ UNCHANGED <<events, lost>>

\* The broker, or the client before it, refuses.
Refuses(c) ==
  /\ Take(c)
  /\ c.act # "fetch_close_history"
  /\ answer' = Reply(c, FALSE, FALSE)
  /\ UNCHANGED <<account, effect, events, lost>>

\* The broker executes, but its answer comes after the timeout.  What is still
\* published of a close or of a modify is the event, if it comes; of a modify it
\* may be handled before the answer to an earlier one, which then counts.  An
\* open is taken for failed; the event of its fill names an order id that no row
\* has.
ExecutesInDoubt(c) ==
  /\ Take(c) /\ Performs(c)
  /\ answer' = Reply(c, FALSE, FALSE)
  /\ \/ /\ effect' = NoEffect
        /\ Lose(c.of, CASE c.act = "open"  -> "doubt"
                        [] c.act = "close" -> "event"
                        [] OTHER           -> "edit")
     \/ /\ c.act # "open"
        /\ effect' = Effect(c)
        /\ IF c.act = "modify_sl_tp" /\ ModifyOnTheWay(c.of) THEN Lose(c.of, "edit")
           ELSE UNCHANGED lost
  /\ UNCHANGED events

\* handle_fetch_close_history: the deal history has the close of a position,
\* from which the event is made once more.  A query that fails is answered as
\* not_found, like a position that is open, and not repeated.
FetchesHistory(c) ==
  /\ Take(c)
  /\ c.act = "fetch_close_history"
  /\ \/ /\ account[c.of].state = "closed"
        /\ effect' = Effect(c)
        /\ answer' = Reply(c, TRUE, FALSE)
        /\ UNCHANGED lost
     \/ /\ effect' = NoEffect
        /\ answer' = Reply(c, FALSE, FALSE)
        /\ IF account[c.of].state = "closed" THEN Lose(c.of, "history") ELSE UNCHANGED lost
  /\ UNCHANGED <<account, events>>

\* _publish_position_closed_from_fill, _publish_unsolicited_event: before the
\* answer, on another stream.
PublishEffect ==
  /\ client.at = "up" /\ effect # NoEffect
  /\ events' = Append(events, effect)
  /\ effect' = NoEffect
  /\ UNCHANGED <<accountVars, client, answer, faults, cmds, resps, lost>>

Respond ==
  /\ client.at = "up" /\ answer # NoAnswer /\ effect = NoEffect
  /\ resps' = Append(resps, answer)
  /\ answer' = NoAnswer
  /\ UNCHANGED <<accountVars, client, effect, faults, cmds, events, lost>>

\* The process ends; the command in hand was taken from the stream already.
GoDown ==
  /\ client.at # "down" /\ faults < MaxFaults
  /\ client' = [at |-> "down", snapshot |-> NoSnapshot]
  /\ faults' = faults + 1
  /\ answer' = NoAnswer /\ effect' = NoEffect
  /\ lost' = IF answer = NoAnswer THEN lost
             ELSE [lost EXCEPT ![answer.of] = @ \cup {"answer"}]
  /\ UNCHANGED <<accountVars, streamVars>>

\* amain: connect, after which the events of the account are published.
Connect ==
  /\ client.at = "down"
  /\ client' = [client EXCEPT !.at = "connected"]
  /\ UNCHANGED <<accountVars, answer, effect, faults, streamVars, lost>>

\* reconcile_state asks for the positions and the waiting orders.
QuerySnapshot ==
  /\ client.at = "connected"
  /\ client' = [at |-> "queried",
                snapshot |-> [open |-> InState("open"), working |-> InState("working")]]
  /\ UNCHANGED <<accountVars, answer, effect, faults, streamVars, lost>>

\* What the account does between the query and the publication is published
\* before the snapshot that does not have it.
PublishSnapshot ==
  /\ client.at = "queried"
  /\ events' = Append(events, [type |-> "reconcile_snapshot", open |-> client.snapshot.open,
                               working |-> client.snapshot.working])
  /\ client' = [at |-> "up", snapshot |-> NoSnapshot]
  /\ UNCHANGED <<accountVars, answer, effect, faults, cmds, resps, lost>>

\* Three attempts failed, or Redis did: the client starts without a snapshot.
SkipSnapshot ==
  /\ client.at \in {"connected", "queried"}
  /\ client' = [at |-> "up", snapshot |-> NoSnapshot]
  /\ lost' = [o \in Orders |-> lost[o] \cup {"history"}]
  /\ UNCHANGED <<accountVars, answer, effect, faults, streamVars>>

HandleCommand ==
  /\ cmds # <<>>
  /\ LET c == Head(cmds) IN
     \/ Executes(c)
     \/ Refuses(c)
     \/ ExecutesInDoubt(c)
     \/ FetchesHistory(c)

Client ==
  \/ HandleCommand
  \/ PublishEffect
  \/ Respond
  \/ GoDown
  \/ Connect
  \/ QuerySnapshot
  \/ PublishSnapshot
  \/ SkipSnapshot
=============================================================================
