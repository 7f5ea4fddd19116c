---------------------------- MODULE CascadeClose ----------------------------
(***************************************************************************)
(* The FTMO event loop of the server handling position_closed: the handler *)
(* stamps the primary leg and awaits HedgeService.cascade_close_other_leg, *)
(* which closes the secondary leg or settles that there is none.  The loop *)
(* is the only caller, and it awaits the whole cascade inline, so there is *)
(* one instance of it at a time.                                           *)
(***************************************************************************)
EXTENDS HedgeState

CloseUnchanged ==
  UNCHANGED <<order_type, primary, ftmoResp, bookEvent, published, openVars, loopVars, xResps, xEvents,
              exnessVars, gaveUp, faultVars, s_ticket, pIndex, sIndex>>

CloseGoto(pc) == closePc' = pc

-----------------------------------------------------------------------------
(* _handle_position_closed                                                 *)

\* The handler's index lookup: an event whose position is not known is dropped.
\* The event of an order that leaves the book stands in the stream before it.
CloseTakeEvent ==
  /\ closePc = "idle"
  /\ bookEvent = "none" /\ closeEvents > 0
  /\ closeEvents' = closeEvents - 1
  /\ CloseGoto(IF pIndex = "position" THEN "stamp" ELSE "idle")
  /\ CloseUnchanged
  /\ UNCHANGED <<status, p_status, s_status, reqIndex, lock, closeAttempt, closeTicket, xCmds>>

CloseStamp ==
  /\ closePc = "stamp"
  /\ p_status' = "closed"
  /\ CloseGoto("lock")
  /\ CloseUnchanged
  /\ UNCHANGED <<status, s_status, reqIndex, lock, closeEvents, closeAttempt, closeTicket, xCmds>>

-----------------------------------------------------------------------------
(* cascade_close_other_leg, closed_leg = "p"                               *)

\* acquire_cascade_lock: whoever finds the lock taken leaves.
CloseLock ==
  /\ closePc = "lock"
  /\ lock' = TRUE
  /\ CloseGoto(IF lock THEN "idle" ELSE "read")
  /\ CloseUnchanged
  /\ UNCHANGED <<status, p_status, s_status, reqIndex, closeEvents, closeAttempt, closeTicket, xCmds>>

\* A plausible bug: no check for a missing ticket.
CloseBranchNoTicket ==
  IF status \in {"pending", "primary_filled"} THEN "cancel"
  ELSE IF status \in NoOpStatus THEN "release"
  ELSE IF s_status = "closed" THEN "orphan"
  ELSE "initiate"

\* get_order and the branches taken on the row it returned.
CloseBranch ==
  IF status \in {"pending", "primary_filled"} THEN "cancel"
  ELSE IF status \in NoOpStatus THEN "release"
  ELSE IF s_status = "closed" THEN "orphan"
  ELSE IF s_ticket = NoTicket THEN "fail"
  ELSE "initiate"

CloseRead ==
  /\ closePc = "read"
  /\ CloseGoto(CloseBranch)
  /\ closeTicket' = s_ticket
  /\ closeAttempt' = 1
  /\ CloseUnchanged
  /\ UNCHANGED <<status, p_status, s_status, reqIndex, lock, closeEvents, xCmds>>

\* Every write below is unconditional: the row may have moved since CloseRead.
CloseInitiate ==
  /\ closePc = "initiate"
  /\ status' = "close_pending" /\ p_status' = "closed" /\ s_status' = "close_pending"
  /\ CloseGoto("push")
  /\ CloseUnchanged
  /\ UNCHANGED <<reqIndex, lock, closeEvents, closeAttempt, closeTicket, xCmds>>

\* Option C: the secondary leg had already been closed outside the system.
CloseOrphan ==
  /\ closePc = "orphan"
  /\ status' = "closed"
  /\ CloseGoto("release")
  /\ CloseUnchanged
  /\ UNCHANGED <<p_status, s_status, reqIndex, lock, closeEvents, closeAttempt, closeTicket, xCmds>>

ClosePush ==
  /\ closePc = "push"
  /\ xCmds' = Append(xCmds,
        [action |-> "close", attempt |-> closeAttempt, ticket |-> closeTicket])
  /\ CloseGoto("link")
  /\ CloseUnchanged
  /\ UNCHANGED <<status, p_status, s_status, reqIndex, lock, closeEvents, closeAttempt, closeTicket>>

CloseLink ==
  /\ closePc = "link"
  /\ reqIndex' = reqIndex \cup {<<"close", closeAttempt>>}
  /\ CloseGoto("poll")
  /\ CloseUnchanged
  /\ UNCHANGED <<status, p_status, s_status, lock, closeEvents, closeAttempt, closeTicket, xCmds>>

\* _wait_for_close_outcome: closed, rejected (both read off the row), timeout.
CloseSeesClosed ==
  /\ closePc = "poll"
  /\ s_status = "closed"
  /\ CloseGoto("finish")
  /\ CloseUnchanged
  /\ UNCHANGED <<status, p_status, s_status, reqIndex, lock, closeEvents, closeAttempt, closeTicket, xCmds>>

\* A plausible bug: an off-by-one in the retry budget.
CloseNextOneMore == CloseGoto(IF closeAttempt <= MaxAttempts THEN "reset" ELSE "fail")

\* A plausible bug: an exhausted cascade is reported as a success.
CloseNextFinishes == CloseGoto(IF closeAttempt < MaxAttempts THEN "reset" ELSE "finish")

CloseNext == CloseGoto(IF closeAttempt < MaxAttempts THEN "reset" ELSE "fail")

CloseSeesRejected ==
  /\ closePc = "poll"
  /\ s_status = "rejected"
  /\ CloseNext
  /\ CloseUnchanged
  /\ UNCHANGED <<status, p_status, s_status, reqIndex, lock, closeEvents, closeAttempt, closeTicket, xCmds>>

\* A plausible bug: the poll has no deadline.
CloseTimesOutNever == CloseSeesClosed

CloseTimesOut ==
  /\ closePc = "poll"
  /\ CloseNext
  /\ CloseUnchanged
  /\ UNCHANGED <<status, p_status, s_status, reqIndex, lock, closeEvents, closeAttempt, closeTicket, xCmds>>

CloseReset ==
  /\ closePc = "reset"
  /\ s_status' = "close_pending"
  /\ closeAttempt' = closeAttempt + 1
  /\ CloseGoto("push")
  /\ CloseUnchanged
  /\ UNCHANGED <<status, p_status, reqIndex, lock, closeEvents, closeTicket, xCmds>>

CloseFinish ==
  /\ closePc = "finish"
  /\ status' = "closed"
  /\ CloseGoto("release")
  /\ CloseUnchanged
  /\ UNCHANGED <<p_status, s_status, reqIndex, lock, closeEvents, closeAttempt, closeTicket, xCmds>>

\* _mark_close_failed
CloseFail ==
  /\ closePc = "fail"
  /\ status' = "close_failed"
  /\ CloseGoto("release")
  /\ CloseUnchanged
  /\ UNCHANGED <<p_status, s_status, reqIndex, lock, closeEvents, closeAttempt, closeTicket, xCmds>>

\* The finally clause: the lock is deleted, whoever holds it by now.
CloseRelease ==
  /\ closePc = "release"
  /\ lock' = FALSE
  /\ CloseGoto("idle") /\ closeAttempt' = 1 /\ closeTicket' = NoTicket
  /\ CloseUnchanged
  /\ UNCHANGED <<status, p_status, s_status, reqIndex, closeEvents, xCmds>>

-----------------------------------------------------------------------------
(* _handle_cascade_cancel_pending                                          *)

CancelMark ==
  /\ closePc = "cancel"
  /\ status' = "cascade_cancel_pending" /\ p_status' = "closed"
  /\ CloseGoto("wait")
  /\ CloseUnchanged
  /\ UNCHANGED <<s_status, reqIndex, lock, closeEvents, closeAttempt, closeTicket, xCmds>>

\* After two seconds: a filled secondary leg is closed by a recursive call,
\* which takes the lock anew.
CancelSeesLateFill ==
  /\ closePc = "wait"
  /\ s_status = "filled"
  /\ CloseGoto("relock")
  /\ CloseUnchanged
  /\ UNCHANGED <<status, p_status, s_status, reqIndex, lock, closeEvents, closeAttempt, closeTicket, xCmds>>

CancelRelock ==
  /\ closePc = "relock"
  /\ lock' = FALSE
  /\ CloseGoto("lock")
  /\ CloseUnchanged
  /\ UNCHANGED <<status, p_status, s_status, reqIndex, closeEvents, closeAttempt, closeTicket, xCmds>>

\* A plausible bug: the cancel path does not look for a late fill.
CancelSeesNoFillBlind ==
  /\ closePc = "wait"
  /\ CloseGoto("unfilled")
  /\ CloseUnchanged
  /\ UNCHANGED <<status, p_status, s_status, reqIndex, lock, closeEvents, closeAttempt, closeTicket, xCmds>>

CancelSeesNoFill ==
  /\ closePc = "wait"
  /\ s_status # "filled"
  /\ CloseGoto("unfilled")
  /\ CloseUnchanged
  /\ UNCHANGED <<status, p_status, s_status, reqIndex, lock, closeEvents, closeAttempt, closeTicket, xCmds>>

CancelPrimaryOnly ==
  /\ closePc = "unfilled"
  /\ status' = "closed" /\ s_status' = "never_filled"
  /\ CloseGoto("release")
  /\ CloseUnchanged
  /\ UNCHANGED <<p_status, reqIndex, lock, closeEvents, closeAttempt, closeTicket, xCmds>>

CloseTask ==
  \/ CloseTakeEvent \/ CloseStamp \/ CloseLock \/ CloseRead
  \/ CloseInitiate \/ CloseOrphan \/ ClosePush \/ CloseLink
  \/ CloseSeesClosed \/ CloseSeesRejected \/ CloseTimesOut
  \/ CloseReset \/ CloseFinish \/ CloseFail \/ CloseRelease
  \/ CancelMark \/ CancelSeesLateFill \/ CancelRelock
  \/ CancelSeesNoFill \/ CancelPrimaryOnly
=============================================================================
