------------------------------ MODULE ExnessLeg ------------------------------
(***************************************************************************)
(* The Exness account and the client beside it: the command processor with *)
(* its action handler, the ledger of closes the server asked for, and the  *)
(* position monitor.  The client reads its command stream with ">" and a   *)
(* single consumer and never reads its unacknowledged entries again, so a  *)
(* command is executed at most once and is lost when the client dies with  *)
(* it in hand (the acknowledgement, after the handler, changes neither).   *)
(***************************************************************************)
EXTENDS HedgeState

\* A plausible bug: the entry is handled without leaving the stream, so the
\* next read delivers it again.
TakeCommandAgain(action) ==
  /\ xCmds # <<>>
  /\ Head(xCmds).action = action
  /\ xCmds' \in {xCmds, Tail(xCmds)}

TakeCommand(action) ==
  /\ xCmds # <<>>
  /\ Head(xCmds).action = action
  /\ xCmds' = Tail(xCmds)

\* _publish_response: XADD, whose failure is logged and swallowed.
Respond(action, outcome, ticket) ==
  \/ /\ xResps' = Append(xResps,
           [action |-> action, attempt |-> Head(xCmds).attempt,
            status |-> outcome, ticket |-> ticket])
     /\ UNCHANGED faultVars
  \/ /\ faults < MaxFaults
     /\ faults' = faults + 1
     /\ UNCHANGED <<xResps, crashes>>

\* _handle_open, order_send accepted: a new position.
OpenFills ==
  /\ TakeCommand("open")
  /\ issued' = issued + 1
  /\ positions' = positions \cup {issued + 1}
  /\ Respond("open", "filled", issued + 1)
  /\ UNCHANGED <<rowVars, indexVars, lock, ftmoVars, openVars, closeVars, loopVars,
                 xEvents, seen, ledger, blind, misread, gaveUp>>

\* _handle_open, every other exit: rejected, error or requote.
OpenRejected ==
  /\ TakeCommand("open")
  /\ Respond("open", "rejected", NoTicket)
  /\ UNCHANGED <<rowVars, indexVars, lock, ftmoVars, openVars, closeVars, loopVars,
                 xEvents, exnessVars, gaveUp>>

Mark(ticket) == ledger' = ledger \cup {ticket}

\* _handle_close on a position that is there: the ledger is marked first.
CloseFills ==
  /\ TakeCommand("close")
  /\ Head(xCmds).ticket \in positions
  /\ Mark(Head(xCmds).ticket)
  /\ positions' = positions \ {Head(xCmds).ticket}
  /\ Respond("close", "closed", NoTicket)
  /\ UNCHANGED <<rowVars, indexVars, lock, ftmoVars, openVars, closeVars, loopVars,
                 xEvents, issued, seen, blind, misread, gaveUp>>

\* _handle_close when the position is gone (position_not_found) or the broker
\* refuses: the ledger keeps the ticket.
CloseRejected ==
  /\ TakeCommand("close")
  /\ Mark(Head(xCmds).ticket)
  /\ Respond("close", "rejected", NoTicket)
  /\ UNCHANGED <<rowVars, indexVars, lock, ftmoVars, openVars, closeVars, loopVars,
                 xEvents, positions, issued, seen, blind, misread, gaveUp>>

\* The client dies between XREADGROUP and order_send.
LoseCommand ==
  /\ xCmds # <<>>
  /\ faults < MaxFaults
  /\ faults' = faults + 1
  /\ xCmds' = Tail(xCmds)
  /\ blind' = {}
  /\ UNCHANGED <<rowVars, indexVars, lock, ftmoVars, openVars, closeVars, loopVars, xResps,
                 xEvents, positions, issued, seen, ledger, misread, gaveUp, crashes>>

\* SL/TP, stop-out or the operator in the MT5 terminal.
ExternalClose(ticket) ==
  /\ ticket \in positions
  /\ positions' = positions \ {ticket}
  /\ UNCHANGED <<rowVars, indexVars, lock, ftmoVars, openVars, closeVars, loopVars,
                 streamVars, issued, seen, ledger, blind, misread, gaveUp, faultVars>>

\* The position monitor: position_new and position_modified change nothing for
\* the order, so noticing a position only moves the snapshot.
NoticeNew ==
  /\ blind = {}
  /\ positions \notin SUBSET seen
  /\ seen' = seen \cup positions
  /\ UNCHANGED <<rowVars, indexVars, lock, ftmoVars, openVars, closeVars, loopVars,
                 streamVars, positions, issued, ledger, blind, misread, gaveUp, faultVars>>

\* positions_get returned None although the terminal said it is connected: the
\* poll takes the account for empty, and will report every position it knew of.
PollBlind ==
  /\ blind = {} /\ seen # {}
  /\ faults < MaxFaults
  /\ faults' = faults + 1
  /\ blind' = seen
  /\ UNCHANGED <<rowVars, indexVars, lock, ftmoVars, openVars, closeVars, loopVars,
                 streamVars, positions, issued, seen, ledger, misread, gaveUp, crashes>>

\* position_closed_external: whether the server asked for the close is looked up
\* in the ledger when the event is built, and the entry is cleared.
ClosedEvent(ticket) ==
  [reason |-> IF ticket \in ledger THEN "server_initiated" ELSE "external",
   ticket |-> ticket]

\* A ticket is reported because the position is gone, or because the poll saw
\* none at all.
BuildClosed(ticket) ==
  /\ ticket \in (seen \ positions) \cup blind
  /\ ledger' = ledger \ {ticket}
  /\ UNCHANGED <<rowVars, indexVars, lock, ftmoVars, openVars, closeVars, loopVars,
                 xCmds, xResps, positions, issued, gaveUp>>

EmitClosed(ticket) ==
  /\ BuildClosed(ticket)
  /\ xEvents' = Append(xEvents, ClosedEvent(ticket))
  /\ misread' = misread \cup ({ticket} \cap positions)

MoveSnapshot(ticket) == seen' = seen \ {ticket} /\ blind' = blind \ {ticket}

ReportClosed(ticket) == EmitClosed(ticket) /\ MoveSnapshot(ticket) /\ UNCHANGED faultVars

\* _publish_event: XADD, whose failure is logged and swallowed; the snapshot
\* moves on, and the ticket is never reported.
ReportClosedLost(ticket) ==
  /\ faults < MaxFaults
  /\ faults' = faults + 1
  /\ BuildClosed(ticket)
  /\ MoveSnapshot(ticket)
  /\ UNCHANGED <<xEvents, misread, crashes>>

\* The client dies after the event and before the snapshot: the next poll
\* reports the ticket again, as external now that the ledger entry is gone, if
\* the position is not there.
ReportClosedAgain(ticket) ==
  /\ faults < MaxFaults
  /\ faults' = faults + 1
  /\ EmitClosed(ticket)
  /\ blind' = {}
  /\ UNCHANGED <<seen, crashes>>

ExnessClient ==
  \/ OpenFills \/ OpenRejected \/ CloseFills \/ CloseRejected
  \/ NoticeNew
  \/ \E ticket \in seen : ReportClosed(ticket)

ExnessFaults ==
  \/ LoseCommand \/ PollBlind
  \/ \E ticket \in positions : ExternalClose(ticket)
  \/ \E ticket \in seen : ReportClosedLost(ticket) \/ ReportClosedAgain(ticket)
=============================================================================
