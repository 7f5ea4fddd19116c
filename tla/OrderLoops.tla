----------------------------- MODULE OrderLoops -----------------------------
(***************************************************************************)
(* The two tasks of the server that consume the streams of an FTMO         *)
(* account: the response loop and the event loop.  Each handles one entry  *)
(* after the other; between the awaits of a handler the other loop, the    *)
(* operator's requests and the client run.  A lookup and the write that    *)
(* follows it are one step where no other task changes what was looked up. *)
(***************************************************************************)
EXTENDS FtmoAccount

VARIABLES
  respAt,   \* the response loop: the broker id it has still to link, or NoId
  eventAt   \* the event loop: what is left of the handler in progress

loopVars == <<respAt, eventAt>>

IdleEvent == [at |-> "idle"]

\* The two statuses list_open_orders_by_account reads, in its order.
OpenStatuses == <<"pending", "filled">>
Listed == [of : Orders, row : Rows]

EventStages ==
  {IdleEvent}
    \cup [at : {"unlink", "link", "drop"}, of : Orders]
    \cup [at : {"list"}, left : 0 .. Len(OpenStatuses), found : SUBSET Listed,
          owed : SUBSET Orders, open : SUBSET Orders, working : SUBSET Orders]
    \cup [at : {"diff"}, found : SUBSET Listed, open : SUBSET Orders, working : SUBSET Orders]

LoopInit == respAt = NoId /\ eventAt = IdleEvent

-----------------------------------------------------------------------------
(* response_handler_loop, broker = "ftmo"                                  *)

TakeResponse(r) ==
  /\ respAt = NoId
  /\ resps' = Tail(resps)
  /\ UNCHANGED <<accountVars, clientVars, faults, cmds, events, eventAt, requestIndex>>

\* The answer came before link_request_to_order, or was never to be linked:
\* nobody to give it to.
DropResponse(r) ==
  /\ TakeResponse(r)
  /\ r.id \notin requestIndex
  /\ IF r.act = "open" THEN Lose(r.of, "answer")
     ELSE IF r.act = "modify_sl_tp" THEN Lose(r.of, "edit")
     ELSE UNCHANGED lost
  /\ UNCHANGED <<rows, byStatus, brokerIndex, respAt>>

Routed(r) == TakeResponse(r) /\ r.id \in requestIndex /\ UNCHANGED <<brokerIndex, lost>>

\* A hedge order waits in primary_filled for its second leg, whose cascade
\* is started here; HedgeCascade follows it.
FilledStatus(o) == IF o \in Hedged THEN "primary_filled" ELSE "filled"

\* The id cTrader answers an open with: of the position, or of the order.
AnsweredId(r) == IF r.filled THEN PositionId(r.of) ELSE OrderId(r.of)

OpenSucceeded(r) ==
  /\ Routed(r)
  /\ r.act = "open" /\ r.ok
  /\ UpdateOrder(r.of,
       [rows[r.of] EXCEPT !.status = IF r.filled THEN FilledStatus(r.of) ELSE "pending",
                          !.p_status = IF r.filled THEN "filled" ELSE "pending",
                          !.broker = AnsweredId(r)])
  /\ respAt' = AnsweredId(r)

\* A plausible bug: the id is linked only for a fill.
LinkAnsweredFillOnly ==
  /\ respAt # NoId
  /\ IF respAt[1] = "position" THEN LinkBrokerId(respAt) ELSE UNCHANGED brokerIndex
  /\ respAt' = NoId
  /\ UNCHANGED <<rows, byStatus, requestIndex, accountVars, clientVars, streamVars,
                 eventAt, faults, lost>>

LinkAnswered ==
  /\ respAt # NoId
  /\ LinkBrokerId(respAt)
  /\ respAt' = NoId
  /\ UNCHANGED <<rows, byStatus, requestIndex, accountVars, clientVars, streamVars,
                 eventAt, faults, lost>>

OpenFailed(r) ==
  /\ Routed(r)
  /\ r.act = "open" /\ ~ r.ok
  /\ UpdateOrder(r.of, [rows[r.of] EXCEPT !.status = "rejected", !.p_status = "rejected"])
  /\ UNCHANGED respAt

\* The status of a hedge order is left to the cascade.
ClosedRow(o) ==
  [rows[o] EXCEPT !.p_status = "closed",
                  !.status = IF o \in Hedged THEN @ ELSE "closed"]

CloseSucceeded(r) ==
  /\ Routed(r)
  /\ r.act = "close" /\ r.ok
  /\ UpdateOrder(r.of, ClosedRow(r.of))
  /\ UNCHANGED respAt

\* A plausible bug: a refused close is taken for a refused order.
CloseFailedRejects(r) ==
  /\ Routed(r)
  /\ r.act = "close" /\ ~ r.ok
  /\ UpdateOrder(r.of, [rows[r.of] EXCEPT !.status = "rejected", !.p_status = "rejected"])
  /\ UNCHANGED respAt

\* A plausible bug: the order is open again, whatever came meanwhile.
CloseFailedReopens(r) ==
  /\ Routed(r)
  /\ r.act = "close" /\ ~ r.ok
  /\ UpdateOrder(r.of, [rows[r.of] EXCEPT !.status = "filled", !.p_status = "filled"])
  /\ UNCHANGED respAt

\* Only the error fields are written: no status here is close_pending.
CloseFailed(r) ==
  /\ Routed(r)
  /\ r.act = "close" /\ ~ r.ok
  /\ UNCHANGED <<rows, byStatus, respAt>>

\* A plausible bug: the stops that were asked for are shown on a refusal too.
ModifyEchoed(r) ==
  /\ Routed(r)
  /\ r.act = "modify_sl_tp"
  /\ UpdateOrder(r.of, [rows[r.of] EXCEPT !.stops = r.stops])
  /\ UNCHANGED respAt

ModifyAnswered(r) ==
  /\ Routed(r)
  /\ r.act = "modify_sl_tp"
  /\ IF r.ok THEN UpdateOrder(r.of, [rows[r.of] EXCEPT !.stops = r.stops])
     ELSE UNCHANGED <<rows, byStatus>>
  /\ UNCHANGED respAt

ResponseLoop ==
  \/ /\ resps # <<>>
     /\ LET r == Head(resps) IN
        \/ DropResponse(r)
        \/ OpenSucceeded(r)
        \/ OpenFailed(r)
        \/ CloseSucceeded(r)
        \/ CloseFailed(r)
        \/ ModifyAnswered(r)
  \/ LinkAnswered

-----------------------------------------------------------------------------
(* event_handler_loop, broker = "ftmo"                                     *)

EventUnchanged ==
  UNCHANGED <<requestIndex, accountVars, clientVars, faults, resps, respAt>>

TakeEvent(e, type) ==
  /\ eventAt = IdleEvent
  /\ e.type = type
  /\ events' = Tail(events)
  /\ EventUnchanged

EventId(e) ==
  IF e.type \in {"pending_filled", "order_cancelled"} THEN OrderId(e.of) ELSE PositionId(e.of)

\* The answer with the id of the event is not handled to its end yet.
NotYetKnown(id) == rows[id[2]].broker # id \/ respAt = id

\* No order of ours has the id of the event, or not yet.
DropEvent(e) ==
  /\ e.type # "reconcile_snapshot"
  /\ TakeEvent(e, e.type)
  /\ EventId(e) \notin brokerIndex
  /\ IF NotYetKnown(EventId(e))
     THEN Lose(e.of, IF e.type = "position_modified" THEN "edit" ELSE "event")
     ELSE UNCHANGED lost
  /\ UNCHANGED <<rows, byStatus, brokerIndex, cmds, eventAt>>

Known(e, type) ==
  /\ e.type # "reconcile_snapshot"
  /\ TakeEvent(e, type)
  /\ EventId(e) \in brokerIndex
  /\ UNCHANGED <<brokerIndex, cmds, lost>>

\* For a hedge order the closing cascade follows; CascadeClose has it.
PositionClosed(e) ==
  /\ Known(e, "position_closed")
  /\ UpdateOrder(e.of, ClosedRow(e.of))
  /\ UNCHANGED eventAt

PendingFilled(e) ==
  /\ Known(e, "pending_filled")
  /\ UpdateOrder(e.of, [rows[e.of] EXCEPT !.status = "filled", !.p_status = "filled",
                                          !.broker = PositionId(e.of)])
  /\ eventAt' = [at |-> "unlink", of |-> e.of]

EventStep == EventUnchanged /\ UNCHANGED <<events, lost>>

\* A plausible bug: the entry of the old id stays.
ForgetOrderIdNot ==
  /\ eventAt.at = "unlink"
  /\ eventAt' = [eventAt EXCEPT !.at = "link"]
  /\ EventStep /\ UNCHANGED <<rows, byStatus, brokerIndex, cmds>>

\* The side index moves from the order id to the position id in two steps.
ForgetOrderId ==
  /\ eventAt.at = "unlink"
  /\ UnlinkBrokerId(OrderId(eventAt.of))
  /\ eventAt' = [eventAt EXCEPT !.at = "link"]
  /\ EventStep /\ UNCHANGED <<rows, byStatus, cmds>>

LinkPosition ==
  /\ eventAt.at = "link"
  /\ LinkBrokerId(PositionId(eventAt.of))
  /\ eventAt' = IdleEvent
  /\ EventStep /\ UNCHANGED <<rows, byStatus, cmds>>

PositionModified(e) ==
  /\ Known(e, "position_modified")
  /\ UpdateOrder(e.of, [rows[e.of] EXCEPT !.stops = e.stops])
  /\ UNCHANGED eventAt

OrderCancelled(e) ==
  /\ Known(e, "order_cancelled")
  /\ UpdateOrder(e.of, [rows[e.of] EXCEPT !.status = "cancelled", !.p_status = "cancelled"])
  /\ eventAt' = [at |-> "drop", of |-> e.of]

DropOrderId ==
  /\ eventAt.at = "drop"
  /\ UnlinkBrokerId(OrderId(eventAt.of))
  /\ eventAt' = IdleEvent
  /\ EventStep /\ UNCHANGED <<rows, byStatus, cmds>>

-----------------------------------------------------------------------------
(* _handle_reconcile_snapshot                                              *)

OpenOrders ==
  {o \in Orders : \E i \in DOMAIN OpenStatuses : o \in byStatus[OpenStatuses[i]]}

ReadSnapshot(e) ==
  /\ TakeEvent(e, "reconcile_snapshot")
  /\ eventAt' = [at |-> "list", left |-> Len(OpenStatuses), found |-> {}, owed |-> OpenOrders,
                 open |-> e.open, working |-> e.working]
  /\ UNCHANGED <<rows, byStatus, brokerIndex, cmds, lost>>

\* A plausible bug: the filled orders are listed before the pending ones.
ListOpenBackwards ==
  /\ eventAt.at = "list" /\ eventAt.left > 0
  /\ eventAt' =
       [eventAt EXCEPT !.left = @ - 1,
                       !.found = @ \cup ListByStatus(OpenStatuses[eventAt.left]),
                       !.owed = @ \cap OpenOrders]
  /\ EventStep /\ UNCHANGED <<rows, byStatus, brokerIndex, cmds>>

\* One status set after the other.  owed keeps the orders that were open all
\* the time.
ListOpen ==
  /\ eventAt.at = "list" /\ eventAt.left > 0
  /\ eventAt' =
       [eventAt EXCEPT !.left = @ - 1,
                       !.found = @ \cup
                         ListByStatus(OpenStatuses[Len(OpenStatuses) + 1 - eventAt.left]),
                       !.owed = @ \cap OpenOrders]
  /\ EventStep /\ UNCHANGED <<rows, byStatus, brokerIndex, cmds>>

BeginDiff ==
  /\ eventAt.at = "list" /\ eventAt.left = 0
  /\ eventAt' = [at |-> "diff", found |-> eventAt.found, open |-> eventAt.open,
                 working |-> eventAt.working]
  /\ EventStep /\ UNCHANGED <<rows, byStatus, brokerIndex, cmds>>

\* The primary of a listed row is not in the snapshot where it should be.
ClosedOffline(l) == l.row.p_status = "filled" /\ l.row.broker # NoId /\ l.of \notin eventAt.open
GoneOffline(l) == l.row.p_status = "pending" /\ l.row.broker # NoId /\ l.of \notin eventAt.working

FetchHistory(o) == [id |-> NoRequest, act |-> "fetch_close_history", of |-> o,
                    type |-> rows[o].order_type, stops |-> 0]

\* A plausible bug: the rows whose position is in the snapshot are asked for.
DiffRowInverted(l) ==
  /\ eventAt' = [eventAt EXCEPT !.found = @ \ {l}]
  /\ cmds' = IF l.row.p_status = "filled" /\ l.of \in eventAt.open
             THEN Append(cmds, FetchHistory(l.of))
             ELSE cmds
  /\ IF GoneOffline(l) THEN UpdateOrder(l.of, [rows[l.of] EXCEPT !.p_status = "unknown"])
     ELSE UNCHANGED <<rows, byStatus>>

\* A plausible bug: unknown is written as the status of the order.
DiffRowUnlisted(l) ==
  /\ eventAt' = [eventAt EXCEPT !.found = @ \ {l}]
  /\ cmds' = IF ClosedOffline(l) THEN Append(cmds, FetchHistory(l.of)) ELSE cmds
  /\ IF GoneOffline(l) THEN UpdateOrder(l.of, [rows[l.of] EXCEPT !.status = "unknown"])
     ELSE UNCHANGED <<rows, byStatus>>

\* A row without broker id is skipped; a filled one whose position is gone is
\* asked for; a pending one that is gone becomes unknown.
DiffRow(l) ==
  /\ eventAt' = [eventAt EXCEPT !.found = @ \ {l}]
  /\ cmds' = IF ClosedOffline(l)
             THEN Append(cmds, FetchHistory(l.of))
             ELSE cmds
  /\ IF GoneOffline(l) THEN UpdateOrder(l.of, [rows[l.of] EXCEPT !.p_status = "unknown"])
     ELSE UNCHANGED <<rows, byStatus>>

Diff ==
  /\ eventAt.at = "diff"
  /\ IF eventAt.found = {} THEN eventAt' = IdleEvent /\ UNCHANGED <<rows, byStatus, cmds>>
     ELSE \E l \in eventAt.found : DiffRow(l)
  /\ EventStep /\ UNCHANGED brokerIndex

Reconcile == ListOpen \/ BeginDiff \/ Diff

EventLoop ==
  \/ /\ events # <<>>
     /\ LET e == Head(events) IN
        \/ DropEvent(e)
        \/ PositionClosed(e)
        \/ PendingFilled(e)
        \/ PositionModified(e)
        \/ OrderCancelled(e)
        \/ ReadSnapshot(e)
  \/ ForgetOrderId
  \/ LinkPosition
  \/ DropOrderId
  \/ Reconcile
=============================================================================
