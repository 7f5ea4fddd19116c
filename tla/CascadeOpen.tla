----------------------------- MODULE CascadeOpen -----------------------------
(***************************************************************************)
(* HedgeService.cascade_secondary_open: the asyncio task, started when the *)
(* primary leg filled, that pushes the opening of the secondary leg and    *)
(* polls the order row for its outcome, MaxAttempts times at most.         *)
(***************************************************************************)
EXTENDS HedgeState

OpenUnchanged ==
  UNCHANGED <<order_type, lock, ftmoVars, closeVars, loopVars, xResps, xEvents, exnessVars,
              faultVars, p_status, s_ticket, pIndex, sIndex>>

\* s_status := pending_open, provided the order is still primary_filled; the
\* task goes on whether or not the write was refused.
OpenMark ==
  /\ openPc = "mark"
  /\ s_status' = IF Cas("primary_filled") THEN "pending_open" ELSE s_status
  /\ openPc' = "push"
  /\ OpenUnchanged /\ UNCHANGED <<status, reqIndex, openAttempt, xCmds, gaveUp>>

OpenPush ==
  /\ openPc = "push"
  /\ xCmds' = Append(xCmds,
        [action |-> "open", attempt |-> openAttempt, ticket |-> NoTicket])
  /\ openPc' = "link"
  /\ OpenUnchanged /\ UNCHANGED <<status, s_status, reqIndex, openAttempt, gaveUp>>

\* link_request_to_order: until here the response would not find the order.
OpenLink ==
  /\ openPc = "link"
  /\ reqIndex' = reqIndex \cup {<<"open", openAttempt>>}
  /\ openPc' = "poll"
  /\ OpenUnchanged /\ UNCHANGED <<status, s_status, openAttempt, xCmds, gaveUp>>

OpenSeesFilled ==
  /\ openPc = "poll"
  /\ s_status = "filled"
  /\ openPc' = "done"
  /\ OpenUnchanged /\ UNCHANGED <<status, s_status, reqIndex, openAttempt, xCmds, gaveUp>>

\* The attempt failed: the next one, or the failure of the cascade.
OpenNext == openPc' = IF openAttempt < MaxAttempts THEN "reset" ELSE "finalize"

\* A plausible bug: whatever is not filled yet counts as a rejection.
OpenSeesRejectedEarly ==
  /\ openPc = "poll"
  /\ s_status # "filled"
  /\ OpenNext
  /\ OpenUnchanged /\ UNCHANGED <<status, s_status, reqIndex, openAttempt, xCmds, gaveUp>>

OpenSeesRejected ==
  /\ openPc = "poll"
  /\ s_status = "rejected"
  /\ OpenNext
  /\ OpenUnchanged /\ UNCHANGED <<status, s_status, reqIndex, openAttempt, xCmds, gaveUp>>

\* The deadline passed.  What the row says at this moment is not looked at: it
\* may have changed since the last look, up to a poll interval ago.
OpenTimesOut ==
  /\ openPc = "poll"
  /\ OpenNext
  /\ gaveUp' = TRUE
  /\ OpenUnchanged /\ UNCHANGED <<status, s_status, reqIndex, openAttempt, xCmds>>

\* The next attempt clears the previous outcome, whatever the row says by now.
OpenReset ==
  /\ openPc = "reset"
  /\ s_status' = "pending_open"
  /\ openAttempt' = openAttempt + 1
  /\ openPc' = "push"
  /\ OpenUnchanged /\ UNCHANGED <<status, reqIndex, xCmds, gaveUp>>

\* A plausible bug: giving up also takes off the leg, were there one after all.
OpenFinalizeCloses ==
  /\ openPc = "finalize"
  /\ status' = "secondary_failed"
  /\ s_status' = "secondary_failed"
  /\ openPc' = "done"
  /\ xCmds' = IF s_ticket = NoTicket THEN xCmds
              ELSE Append(xCmds, [action |-> "close", attempt |-> 1, ticket |-> s_ticket])
  /\ OpenUnchanged /\ UNCHANGED <<reqIndex, openAttempt, gaveUp>>

\* _finalize_failure, unconditional as well.
OpenFinalize ==
  /\ openPc = "finalize"
  /\ status' = "secondary_failed"
  /\ s_status' = "secondary_failed"
  /\ openPc' = "done"
  /\ OpenUnchanged /\ UNCHANGED <<reqIndex, openAttempt, xCmds, gaveUp>>

OpenTask ==
  \/ OpenMark \/ OpenPush \/ OpenLink
  \/ OpenSeesFilled \/ OpenSeesRejected \/ OpenTimesOut
  \/ OpenReset \/ OpenFinalize

\* The task will not touch the order any more, or has not started.
OpenInactive == openPc \in {"idle", "done"}
=============================================================================
