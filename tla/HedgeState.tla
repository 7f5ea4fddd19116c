----------------------------- MODULE HedgeState -----------------------------
(***************************************************************************)
(* The state one two-leg hedge order lives in, shared by the processes     *)
(* that work on it.  The order has a primary leg at FTMO and a secondary,  *)
(* opposite leg at Exness.  Everything the processes exchange goes through *)
(* Redis: the HASH order:{id}, the side indices, the cascade lock and the  *)
(* streams.  A process is one asyncio task (or one client process); every  *)
(* action of the modules below is what such a process does between two     *)
(* awaits at which another one may run.                                    *)
(***************************************************************************)
EXTENDS Integers, Sequences, FiniteSets

CONSTANTS
  MaxAttempts,     \* pushes per cascade: 1 + Len(RETRY_DELAYS_SECONDS), 4 in the code
  MaxCloseEvents,  \* position_closed events the FTMO client may publish (bound)
  MaxCrashes,      \* server crashes (bound)
  MaxFaults        \* commands, responses and events lost or repeated, polls that saw nothing

ASSUME HedgeAssumption ==
  /\ MaxAttempts \in Nat \ {0}
  /\ MaxCloseEvents \in Nat
  /\ MaxCrashes \in Nat
  /\ MaxFaults \in Nat

VARIABLES
  order_type,                               \* HASH order:{id}: how the primary leg was ordered
  status, p_status, s_status, s_ticket,     \* the same row; s_ticket is s_broker_order_id
  reqIndex, pIndex, sIndex,                 \* request_id_/p_/s_broker_order_id_to_order
  lock,                                     \* cascade_lock:{id} exists
  primary, ftmoResp,                        \* the FTMO leg and the answer to its order
  bookEvent, closeEvents, published,        \* its events: out of the order book, then closed
  openPc, openAttempt,                      \* the task running cascade_secondary_open
  closePc, closeAttempt, closeTicket,       \* the FTMO event loop in cascade_close_other_leg
  respLink, eventPc,                        \* the Exness response loop and event loop
  xCmds, xResps, xEvents,                   \* the three Exness streams, oldest entry first
  positions, issued, seen, ledger,          \* the Exness account and its client
  blind,                                    \* what a poll that saw no positions has to report
  misread,                                  \* history: open positions reported as closed
  gaveUp,                                   \* history: some open poll ended in a timeout
  crashes, faults                           \* counters of the bounded faults

rowVars    == <<order_type, status, p_status, s_status, s_ticket>>
indexVars  == <<reqIndex, pIndex, sIndex>>
ftmoVars   == <<primary, ftmoResp, bookEvent, closeEvents, published>>
openVars   == <<openPc, openAttempt>>
closeVars  == <<closePc, closeAttempt, closeTicket>>
loopVars   == <<respLink, eventPc>>
streamVars == <<xCmds, xResps, xEvents>>
exnessVars == <<positions, issued, seen, ledger, blind, misread>>
faultVars  == <<crashes, faults>>

vars == <<rowVars, indexVars, lock, ftmoVars, openVars, closeVars, loopVars,
          streamVars, exnessVars, gaveUp, faultVars>>

-----------------------------------------------------------------------------
Attempts == 1 .. MaxAttempts

\* MT5 tickets are numbered in the order the positions were opened.
NoTicket == 0
Tickets  == Nat \ {NoTicket}

\* Composed status of the order row, and the values of its two leg statuses.
Status ==
  {"pending", "rejected", "primary_filled", "filled", "secondary_failed",
   "cascade_cancel_pending", "close_pending", "closed", "close_failed", "cancelled"}
PStatus == {"pending", "rejected", "filled", "closed", "cancelled"}
SStatus ==
  {"pending", "pending_open", "filled", "rejected", "secondary_failed",
   "close_pending", "closed", "never_filled"}

\* A limit or stop order waits in the order book before it may become a position.
OrderType == {"market", "limit"}
Primary   == {"none", "working", "open", "gone", "cancelled"}

\* The statuses cascade_close_other_leg treats as "nothing left to do".
NoOpStatus ==
  {"closed", "close_failed", "rejected", "secondary_failed", "close_pending"}

OpenPcs  == {"idle", "mark", "push", "link", "poll", "reset", "finalize", "done"}
ClosePcs ==
  {"idle", "stamp", "lock", "read", "cancel", "wait", "relock", "unfilled", "orphan",
   "initiate", "push", "link", "poll", "reset", "finish", "fail", "release",
   "unlink", "relink", "forget"}

\* A command is identified by its cascade and attempt: one request_id per push.
Commands ==
  [action : {"open"}, attempt : Attempts, ticket : {NoTicket}]
    \cup [action : {"close"}, attempt : Attempts, ticket : Tickets]
Requests  == {"open", "close"} \X Attempts
Responses ==
  [action : {"open"}, attempt : Attempts, status : {"filled"}, ticket : Tickets]
    \cup [action : {"open", "close"}, attempt : Attempts, status : {"rejected"},
          ticket : {NoTicket}]
    \cup [action : {"close"}, attempt : Attempts, status : {"closed"},
          ticket : {NoTicket}]
Events == [reason : {"server_initiated", "external"}, ticket : Tickets]

TypeOK ==
  /\ order_type \in OrderType /\ status \in Status /\ p_status \in PStatus
  /\ s_status \in SStatus /\ s_ticket \in Nat
  /\ reqIndex \subseteq Requests /\ pIndex \in {"none", "order", "position"} /\ sIndex \subseteq Tickets
  /\ lock \in BOOLEAN
  /\ primary \in Primary /\ bookEvent \in {"none", "filled", "cancelled"}
  /\ ftmoResp \in {"none", "success", "written", "linked", "error", "done"}
  /\ closeEvents \in Nat /\ published \in Nat
  /\ openPc \in OpenPcs /\ openAttempt \in Attempts
  /\ closePc \in ClosePcs /\ closeAttempt \in Attempts /\ closeTicket \in Nat
  /\ respLink \in Nat /\ eventPc \in {"idle", "stamp", "complete", "unlock"}
  /\ xCmds \in Seq(Commands) /\ xResps \in Seq(Responses) /\ xEvents \in Seq(Events)
  /\ issued \in Nat
  /\ positions \subseteq Tickets /\ seen \subseteq Tickets /\ ledger \subseteq Tickets
  /\ blind \subseteq Tickets /\ misread \subseteq Tickets
  /\ gaveUp \in BOOLEAN
  /\ crashes \in Nat /\ faults \in Nat

-----------------------------------------------------------------------------
\* The composed status has this value, so a compare-and-set on it succeeds.
Cas(expected) == status = expected
=============================================================================
