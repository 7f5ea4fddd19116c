---------------------------- MODULE HedgeCascade ----------------------------
(***************************************************************************)
(* One hedge order from its creation on: the FTMO position, the server's   *)
(* tasks and loops, the Exness account and its client, and the crashes of  *)
(* the server, composed.                                                   *)
(***************************************************************************)
EXTENDS CascadeOpen, CascadeClose, WaitingOrder, StreamHandlers, ExnessLeg

\* OrderService.create_order has written the row, pushed the open command to
\* the FTMO client and linked its request.
Init ==
  /\ order_type \in OrderType
  /\ status = "pending" /\ p_status = "pending" /\ s_status = "pending"
  /\ s_ticket = NoTicket
  /\ reqIndex = {} /\ pIndex = "none" /\ sIndex = {} /\ lock = FALSE
  /\ primary = "none" /\ ftmoResp = "none"
  /\ bookEvent = "none" /\ closeEvents = 0 /\ published = 0
  /\ openPc = "idle" /\ openAttempt = 1
  /\ closePc = "idle" /\ closeAttempt = 1 /\ closeTicket = NoTicket
  /\ respLink = NoTicket /\ eventPc = "idle"
  /\ xCmds = <<>> /\ xResps = <<>> /\ xEvents = <<>>
  /\ positions = {} /\ issued = 0 /\ seen = {} /\ ledger = {} /\ blind = {} /\ misread = {}
  /\ gaveUp = FALSE /\ crashes = 0 /\ faults = 0

-----------------------------------------------------------------------------
(* The FTMO side, seen from the server.                                    *)

FtmoUnchanged ==
  UNCHANGED <<rowVars, indexVars, lock, openVars, closeVars, loopVars, streamVars,
              exnessVars, gaveUp>>

PrimaryFills ==
  /\ order_type = "market"
  /\ primary = "none"
  /\ ftmoResp = "none"
  /\ primary' = "open"
  /\ ftmoResp' = "success"
  /\ FtmoUnchanged /\ UNCHANGED <<bookEvent, closeEvents, published, faultVars>>

\* A limit or stop order is accepted: it waits in the order book.
PrimaryAccepted ==
  /\ order_type = "limit"
  /\ primary = "none"
  /\ ftmoResp = "none"
  /\ primary' = "working"
  /\ ftmoResp' = "success"
  /\ FtmoUnchanged /\ UNCHANGED <<bookEvent, closeEvents, published, faultVars>>

\* It trips, or is taken out (by the operator in cTrader, or expired).  The
\* event about it is lost when the FTMO client is down at that moment.
LeavesBook(outcome, event) ==
  /\ primary = "working"
  /\ primary' = outcome
  /\ \/ bookEvent' = event /\ UNCHANGED faultVars
     \/ /\ faults < MaxFaults
        /\ faults' = faults + 1
        /\ UNCHANGED <<bookEvent, crashes>>
  /\ FtmoUnchanged /\ UNCHANGED <<ftmoResp, closeEvents, published>>

PrimaryTrips     == LeavesBook("open", "filled")
PrimaryCancelled == LeavesBook("cancelled", "cancelled")

PrimaryRejected ==
  /\ primary = "none"
  /\ ftmoResp = "none"
  /\ ftmoResp' = "error"
  /\ FtmoUnchanged /\ UNCHANGED <<primary, bookEvent, closeEvents, published, faultVars>>

\* The operator (through the server or in cTrader), SL, TP or stop-out.
PrimaryCloses ==
  /\ primary = "open"
  /\ primary' = "gone"
  /\ FtmoUnchanged /\ UNCHANGED <<ftmoResp, bookEvent, closeEvents, published, faultVars>>

\* position_closed: published when it happens, and again by the replay of the
\* deals of an offline window and by the answer to fetch_close_history.
PublishClosed ==
  /\ primary = "gone"
  /\ published < MaxCloseEvents
  /\ published' = published + 1
  /\ closeEvents' = closeEvents + 1
  /\ FtmoUnchanged /\ UNCHANGED <<primary, ftmoResp, bookEvent, faultVars>>

-----------------------------------------------------------------------------
(* The server dies and is started again.  Tasks live in its memory only;   *)
(* an entry a loop had read is never delivered again, nor are the later    *)
(* ones of the same batch.  The lock stays until it expires.               *)

Suffixes(seq) == { SubSeq(seq, n, Len(seq)) : n \in 1 .. Len(seq) + 1 }

Crash ==
  /\ crashes < MaxCrashes
  /\ crashes' = crashes + 1
  /\ ftmoResp' \in IF ftmoResp \in {"written", "linked"} THEN {"done"}
                   ELSE IF ftmoResp \in {"success", "error"} THEN {ftmoResp, "done"}
                   ELSE {ftmoResp}
  /\ openPc' = IF openPc = "idle" THEN "idle" ELSE "done"
  /\ closePc' = "idle" /\ closeAttempt' = 1 /\ closeTicket' = NoTicket
  /\ \/ UNCHANGED <<bookEvent, closeEvents>>
     \/ bookEvent' = "none" /\ closeEvents' \in 0 .. closeEvents
  /\ respLink' = NoTicket /\ eventPc' = "idle"
  /\ xResps' \in Suffixes(xResps)
  /\ xEvents' \in Suffixes(xEvents)
  /\ UNCHANGED <<rowVars, indexVars, lock, primary, published, openAttempt, xCmds, exnessVars, gaveUp, faults>>

\* The lock's TTL of 30 seconds ran out, whether or not its holder is done.
LockExpires ==
  /\ lock
  /\ lock' = FALSE
  /\ UNCHANGED <<rowVars, indexVars, ftmoVars, openVars, closeVars, loopVars,
                 streamVars, exnessVars, gaveUp, faultVars>>

-----------------------------------------------------------------------------
Ftmo ==
  \/ PrimaryFills \/ PrimaryAccepted \/ PrimaryRejected
  \/ PrimaryTrips \/ PrimaryCancelled
  \/ PrimaryCloses \/ PublishClosed

Server ==
  \/ FtmoResponseLoop \/ OpenTask
  \/ CloseTask \/ BookTask
  \/ ExnessResponseLoop \/ ExnessEventLoop

Next ==
  \/ Ftmo \/ Server \/ ExnessClient \/ ExnessFaults \/ Crash \/ LockExpires

Spec == Init /\ [][Next]_vars

\* asyncio runs every ready task, and the Exness client reads on.  Nothing is
\* assumed of brokers, of the publication of closes, or of the lock's expiry.
Fairness ==
  /\ WF_vars(FtmoResponseLoop) /\ WF_vars(OpenTask) /\ WF_vars(CloseTask \/ BookTask)
  /\ WF_vars(ExnessResponseLoop) /\ WF_vars(ExnessEventLoop)

FairSpec == Spec /\ Fairness

-----------------------------------------------------------------------------
(* Safety.                                                                 *)

\* The secondary leg is passive: whatever happens to it, the order takes a
\* status of the closing cascade only after the primary leg was closed at FTMO
\* (no event of the Exness side starts a cascade by itself).
ClosingOnlyAfterPrimaryGone ==
  \/ status \in {"close_pending", "closed", "close_failed", "cascade_cancel_pending"}
  \/ p_status = "closed"
  => primary = "gone"

\* No close command reaches the Exness client while the primary leg is open:
\* the hedge is never taken off a live position.
NoHedgeCloseBeforePrimaryGone ==
  \A i \in DOMAIN xCmds : xCmds[i].action = "close" => primary = "gone"

\* A filled order whose primary leg was a market order names the position of its
\* secondary leg, and every close command is for that position.  A limit or stop
\* order that tripped is the exception: it is filled with no secondary leg.
TicketKnownBeforeClose ==
  /\ status = "filled" /\ order_type = "market" => s_ticket \in 1 .. issued
  /\ \A i \in DOMAIN xCmds : xCmds[i].action = "close" => xCmds[i].ticket = s_ticket

\* The number of positions opened never exceeds the number of pushes: a
\* command that was read is never executed again.
EachCommandExecutesOnce == issued <= openAttempt

\* As long as every attempt was answered in time and the primary leg lives,
\* retrying never opens a second hedge.
OneHedgeWhilePrimaryLives ==
  primary # "gone" /\ ~ gaveUp => issued <= 1

\* When no attempt was given up on and only one position was opened, an order
\* that ends as closed has no position left on the secondary leg it tracked,
\* unless a poll that saw no positions at all had reported that leg as closed.
ClosedMeansTrackedLegGone ==
  status = "closed" /\ ~ gaveUp /\ issued <= 1 /\ s_ticket \notin misread
    => s_ticket \notin positions

\* Once the ticket of the secondary leg is known it is never replaced, by a
\* late second fill for instance.
TicketNeverReplaced ==
  [][s_ticket # NoTicket => s_ticket' = s_ticket]_vars

\* A closed order stays closed once both cascades have come to rest: what
\* arrives later cannot reopen it.
Committed ==
  {"cancel", "wait", "relock", "unfilled", "orphan", "fail", "initiate",
   "push", "link", "poll", "reset", "finish"}

ClosedFinalOnceSettled ==
  [][status = "closed" /\ OpenInactive /\ closePc \notin Committed
     => status' = "closed"]_vars

\* The order lives the life HedgeLifecycle describes: whatever the cascades, the
\* loops and the brokers do to the row, only these status changes are seen.
Opening ==
  CASE openPc = "idle" -> "before"
    [] openPc = "done" -> "over"
    [] OTHER -> "running"

Lifecycle == INSTANCE HedgeLifecycle WITH leg <- s_ticket, opening <- Opening

ImplementsLifecycle == Lifecycle!Spec

-----------------------------------------------------------------------------
(* Liveness, with a server that keeps running.                             *)

\* An order whose closing began is settled.
ClosingSettles ==
  status \in {"close_pending", "cascade_cancel_pending"}
    ~> status \in {"closed", "close_failed", "secondary_failed"}

\* A filled primary leg does not stay unhedged and unreported.
HedgeSettles == status = "primary_filled" ~> status # "primary_filled"
-----------------------------------------------------------------------------
(* What the source claims and the interleavings refute.                    *)

\* "If filled, close the orphan": when the two seconds of the cancel path end
\* without a fill, no fill of the secondary leg had been received by then.
LateFillIsSeen ==
  [][closePc = "wait" /\ closePc' = "unfilled" => sIndex = {}]_vars

\* "a late-arriving exhaustion failover can't clobber a real fill": an order
\* recorded as filled is not turned into secondary_failed.
FillNotClobbered ==
  [][status = "filled" => status' # "secondary_failed"]_vars
=============================================================================
