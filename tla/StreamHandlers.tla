--------------------------- MODULE StreamHandlers ---------------------------
(***************************************************************************)
(* The loops of the server that consume the streams of the two clients:    *)
(* the FTMO response loop, which starts the opening of the secondary leg,  *)
(* and the Exness response and event loops.  A loop looks an entry up in   *)
(* an index; indices only grow, so the lookup and the write that follows   *)
(* are one step, and each further write is a step of its own.              *)
(***************************************************************************)
EXTENDS HedgeState

LoopsUnchanged ==
  UNCHANGED <<order_type, reqIndex, primary, bookEvent, closeEvents, published, openAttempt, closeVars,
              xCmds, exnessVars, gaveUp, faultVars>>

-----------------------------------------------------------------------------
(* response_handler, broker = "ftmo": _handle_open_response                *)

FtmoStep(from, to) ==
  /\ ftmoResp = from /\ ftmoResp' = to
  /\ LoopsUnchanged
  /\ UNCHANGED <<s_status, s_ticket, sIndex, lock, loopVars, xResps, xEvents>>

\* A market order was filled: the fill price tells.
FtmoFilled ==
  /\ order_type = "market"
  /\ FtmoStep("success", "written")
  /\ status' = "primary_filled" /\ p_status' = "filled"
  /\ UNCHANGED <<pIndex, openPc>>

\* A limit or stop order was accepted, with no fill price: it stays pending, and
\* no cascade is started for it, now or later.
FtmoAccepted ==
  /\ order_type = "limit"
  /\ FtmoStep("success", "written")
  /\ status' = "pending" /\ p_status' = "pending"
  /\ UNCHANGED <<pIndex, openPc>>

\* The broker id of the answer: the position of a fill, the waiting order.
FtmoLink ==
  /\ FtmoStep("written", IF order_type = "market" THEN "linked" ELSE "done")
  /\ pIndex' = IF order_type = "market" THEN "position" ELSE "order"
  /\ UNCHANGED <<status, p_status, openPc>>

\* A plausible bug: the cascade is not started.
FtmoSpawnForgotten ==
  /\ FtmoStep("linked", "done")
  /\ UNCHANGED <<status, p_status, pIndex, openPc>>

\* asyncio.create_task: from here the cascade runs on its own.
FtmoSpawn ==
  /\ FtmoStep("linked", "done")
  /\ openPc' = "mark"
  /\ UNCHANGED <<status, p_status, pIndex>>

FtmoRejected ==
  /\ FtmoStep("error", "done")
  /\ status' = "rejected" /\ p_status' = "rejected"
  /\ UNCHANGED <<pIndex, openPc>>

FtmoResponseLoop ==
  \/ FtmoFilled \/ FtmoAccepted \/ FtmoLink \/ FtmoSpawn
  \/ FtmoRejected

-----------------------------------------------------------------------------
(* response_handler, broker = "exness"                                     *)

ExnessUnchanged ==
  LoopsUnchanged /\ UNCHANGED <<ftmoResp, pIndex, openPc, p_status>>

KnownRequest(resp) == <<resp.action, resp.attempt>> \in reqIndex

TakeResponse(action, outcome) ==
  /\ respLink = NoTicket
  /\ xResps # <<>>
  /\ KnownRequest(Head(xResps))
  /\ Head(xResps).action = action /\ Head(xResps).status = outcome
  /\ xResps' = Tail(xResps)
  /\ ExnessUnchanged
  /\ UNCHANGED <<lock, sIndex, eventPc, xEvents>>

\* The answer overtook link_request_to_order: nobody to give it to.
ResponseDropped ==
  /\ respLink = NoTicket
  /\ xResps # <<>>
  /\ ~ KnownRequest(Head(xResps))
  /\ xResps' = Tail(xResps)
  /\ ExnessUnchanged
  /\ UNCHANGED <<status, s_status, s_ticket, lock, sIndex, loopVars, xEvents>>

\* A plausible bug: the fill is recorded without the compare-and-set.
OpenResponseFilledBlind ==
  /\ TakeResponse("open", "filled")
  /\ status' = "filled" /\ s_status' = "filled" /\ s_ticket' = Head(xResps).ticket
  /\ respLink' = Head(xResps).ticket

\* A plausible bug: the ticket is indexed but not written into the row.
OpenResponseFilledNoTicket ==
  /\ TakeResponse("open", "filled")
  /\ IF Cas("primary_filled")
     THEN status' = "filled" /\ s_status' = "filled" /\ UNCHANGED s_ticket
     ELSE UNCHANGED <<status, s_status, s_ticket>>
  /\ respLink' = Head(xResps).ticket

\* _handle_exness_open_response: the fill is recorded by compare-and-set on
\* primary_filled, and its ticket is indexed even when that was refused.
OpenResponseFilled ==
  /\ TakeResponse("open", "filled")
  /\ IF Cas("primary_filled")
     THEN status' = "filled" /\ s_status' = "filled" /\ s_ticket' = Head(xResps).ticket
     ELSE UNCHANGED <<status, s_status, s_ticket>>
  /\ respLink' = Head(xResps).ticket

LinkTicket ==
  /\ respLink # NoTicket
  /\ sIndex' = sIndex \cup {respLink}
  /\ respLink' = NoTicket
  /\ ExnessUnchanged
  /\ UNCHANGED <<status, s_status, s_ticket, lock, eventPc, xResps, xEvents>>

\* rejected, error, requote: unconditional.
OpenResponseRejected ==
  /\ TakeResponse("open", "rejected")
  /\ s_status' = "rejected"
  /\ UNCHANGED <<status, s_ticket, respLink>>

\* _handle_exness_close_response
CloseResponseClosed ==
  /\ TakeResponse("close", "closed")
  /\ s_status' = "closed"
  /\ UNCHANGED <<status, s_ticket, respLink>>

CloseResponseRejected ==
  /\ TakeResponse("close", "rejected")
  /\ s_status' = "rejected"
  /\ UNCHANGED <<status, s_ticket, respLink>>

ExnessResponseLoop ==
  \/ ResponseDropped \/ LinkTicket
  \/ OpenResponseFilled \/ OpenResponseRejected
  \/ CloseResponseClosed \/ CloseResponseRejected

-----------------------------------------------------------------------------
(* event_handler, broker = "exness": position_closed_external              *)

EventUnchanged ==
  ExnessUnchanged /\ UNCHANGED <<s_ticket, sIndex, respLink, xResps>>

TakeEvent(next) ==
  /\ eventPc = "idle"
  /\ xEvents # <<>>
  /\ xEvents' = Tail(xEvents)
  /\ eventPc' = next
  /\ EventUnchanged
  /\ UNCHANGED <<status, s_status, lock>>

EventDropped == TakeEvent("idle") /\ Head(xEvents).ticket \notin sIndex

\* The external bucket: stamp s_status, leave the composed status alone.
EventExternal ==
  /\ TakeEvent(IF s_status = "closed" THEN "idle" ELSE "stamp")
  /\ Head(xEvents).ticket \in sIndex
  /\ Head(xEvents).reason = "external"

\* A plausible bug, and the code's own Option A of step 4.8e: the secondary
\* leg's own close closes the order.
EventStampOptionA ==
  /\ eventPc = "stamp"
  /\ status' = "closed" /\ s_status' = "closed"
  /\ eventPc' = "idle"
  /\ EventUnchanged
  /\ UNCHANGED <<lock, xEvents>>

EventStamp ==
  /\ eventPc = "stamp"
  /\ s_status' = "closed"
  /\ eventPc' = "idle"
  /\ EventUnchanged
  /\ UNCHANGED <<status, lock, xEvents>>

\* complete_cascade_close: the status is read here and overwritten next.
EventServerInitiated ==
  /\ TakeEvent(IF status \in {"closed", "close_failed"} THEN "idle" ELSE "complete")
  /\ Head(xEvents).ticket \in sIndex
  /\ Head(xEvents).reason = "server_initiated"

EventComplete ==
  /\ eventPc = "complete"
  /\ status' = "closed" /\ s_status' = "closed"
  /\ eventPc' = "unlock"
  /\ EventUnchanged
  /\ UNCHANGED <<lock, xEvents>>

\* The lock of the cascade that is still polling is released here.
EventUnlock ==
  /\ eventPc = "unlock"
  /\ lock' = FALSE
  /\ eventPc' = "idle"
  /\ EventUnchanged
  /\ UNCHANGED <<status, s_status, xEvents>>

ExnessEventLoop ==
  \/ EventDropped \/ EventExternal \/ EventStamp
  \/ EventServerInitiated \/ EventComplete \/ EventUnlock
=============================================================================
