---------------------------- MODULE WaitingOrder ----------------------------
(***************************************************************************)
(* The FTMO event loop of the server handling what becomes of a limit or   *)
(* stop order that waits in the order book of cTrader: pending_filled when *)
(* it trips, order_cancelled when it is taken out.  Neither handler looks  *)
(* at the order being one of two legs, and neither starts a cascade.       *)
(***************************************************************************)
EXTENDS HedgeState

BookUnchanged ==
  UNCHANGED <<order_type, s_status, s_ticket, reqIndex, sIndex, lock, primary, ftmoResp,
              closeEvents, published, openVars, closeAttempt, closeTicket, loopVars,
              streamVars, exnessVars, gaveUp, faultVars>>

TakeBookEvent(event) ==
  /\ closePc = "idle"
  /\ bookEvent = event
  /\ bookEvent' = "none"
  /\ BookUnchanged

\* The event overtook the answer to the order: its order id is not indexed.
BookEventDropped ==
  /\ bookEvent # "none"
  /\ pIndex # "order"
  /\ TakeBookEvent(bookEvent)
  /\ UNCHANGED <<status, p_status, pIndex, closePc>>

-----------------------------------------------------------------------------
(* _handle_pending_filled                                                  *)

\* A plausible bug: the composed status is that of a market order, although
\* nothing opens the secondary leg.
PendingFilledAsMarket ==
  /\ TakeBookEvent("filled")
  /\ pIndex = "order"
  /\ status' = "primary_filled" /\ p_status' = "filled"
  /\ closePc' = "unlink"
  /\ UNCHANGED pIndex

\* The order is written as filled, with no secondary leg and none to come.
PendingFilled ==
  /\ TakeBookEvent("filled")
  /\ pIndex = "order"
  /\ status' = "filled" /\ p_status' = "filled"
  /\ closePc' = "unlink"
  /\ UNCHANGED pIndex

\* The index entry moves from the order id to the position id in two calls.
UnlinkOrderId ==
  /\ closePc = "unlink" /\ closePc' = "relink"
  /\ pIndex' = "none"
  /\ BookUnchanged /\ UNCHANGED <<status, p_status, bookEvent>>

LinkPositionId ==
  /\ closePc = "relink" /\ closePc' = "idle"
  /\ pIndex' = "position"
  /\ BookUnchanged /\ UNCHANGED <<status, p_status, bookEvent>>

-----------------------------------------------------------------------------
(* _handle_order_cancelled                                                 *)

OrderCancelled ==
  /\ TakeBookEvent("cancelled")
  /\ pIndex = "order"
  /\ status' = "cancelled" /\ p_status' = "cancelled"
  /\ closePc' = "forget"
  /\ UNCHANGED pIndex

ForgetOrderId ==
  /\ closePc = "forget" /\ closePc' = "idle"
  /\ pIndex' = "none"
  /\ BookUnchanged /\ UNCHANGED <<status, p_status, bookEvent>>

BookTask ==
  \/ BookEventDropped
  \/ PendingFilled \/ UnlinkOrderId \/ LinkPositionId
  \/ OrderCancelled \/ ForgetOrderId
=============================================================================
