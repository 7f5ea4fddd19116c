--------------------------- MODULE HedgeLifecycle ---------------------------
(***************************************************************************)
(* What the life of a hedge order looks like from outside: its composed    *)
(* status, whether its primary leg lives, and the ticket of the secondary  *)
(* leg it tracks.  After a market order the opening cascade runs once and  *)
(* reports failure once; a closing status needs a primary leg that is      *)
(* gone.  A limit or stop order never gets a secondary leg: it trips or is *)
(* cancelled, and its closing can only fail.                               *)
(***************************************************************************)
EXTENDS Naturals

VARIABLES order_type, status, primary, leg, opening

vars == <<order_type, status, primary, leg, opening>>

NoLeg == 0

Init ==
  /\ order_type \in {"market", "limit"}
  /\ status = "pending" /\ primary = "none"
  /\ leg = NoLeg /\ opening = "before"

\* The position at FTMO appears and disappears; a limit or stop order waits in
\* the book first, and may be taken out of it.
PrimaryMoves ==
  /\ \/ primary = "none" /\ status = "pending"
        /\ primary' = IF order_type = "market" THEN "open" ELSE "working"
     \/ primary = "working" /\ primary' \in {"open", "cancelled"}
     \/ primary = "open" /\ primary' = "gone"
  /\ UNCHANGED <<order_type, status, leg, opening>>

Reject ==
  /\ status = "pending" /\ primary = "none"
  /\ status' = "rejected"
  /\ UNCHANGED <<order_type, primary, leg, opening>>

PrimaryFilled ==
  /\ order_type = "market"
  /\ status = "pending" /\ primary # "none"
  /\ status' = "primary_filled"
  /\ UNCHANGED <<order_type, primary, leg, opening>>

\* The waiting order tripped: filled, and never hedged.
TripsUnhedged ==
  /\ order_type = "limit" /\ opening = "before" /\ leg = NoLeg
  /\ status = "pending" /\ primary \in {"open", "gone"}
  /\ status' = "filled"
  /\ UNCHANGED <<order_type, primary, leg, opening>>

Cancelled ==
  /\ status = "pending" /\ primary = "cancelled"
  /\ status' = "cancelled"
  /\ UNCHANGED <<order_type, primary, leg, opening>>

\* The opening cascade starts, and ends without a report (filled, or killed).
OpeningMoves ==
  /\ order_type = "market" /\ status # "pending"
  /\ \/ opening = "before" /\ opening' = "running"
     \/ opening = "running" /\ opening' = "over"
  /\ UNCHANGED <<order_type, status, primary, leg>>

\* The one step that makes the order a hedge: it also fixes the tracked leg.
Hedged ==
  /\ status = "primary_filled" /\ leg = NoLeg /\ opening # "before"
  /\ status' = "filled"
  /\ leg' \in Nat \ {NoLeg}
  /\ UNCHANGED <<order_type, primary, opening>>

\* The failure report may overwrite any later status, but only once.
OpeningFails ==
  /\ opening = "running" /\ opening' = "over"
  /\ status \notin {"pending", "rejected", "cancelled"}
  /\ status' = "secondary_failed"
  /\ UNCHANGED <<order_type, primary, leg>>

Closing(type, from, to) ==
  /\ order_type = type
  /\ primary = "gone"
  /\ status \in from /\ status' = to
  /\ UNCHANGED <<order_type, primary, leg, opening>>

BeginCancel ==
  Closing("market", {"primary_filled", "filled", "secondary_failed"}, "cascade_cancel_pending")

BeginClose ==
  /\ leg # NoLeg
  /\ Closing("market", {"filled", "cascade_cancel_pending", "secondary_failed"},
             "close_pending")

CloseSucceeds ==
  Closing("market", {"filled", "cascade_cancel_pending", "close_pending", "close_failed",
                     "secondary_failed"}, "closed")

CloseFails ==
  Closing("market", {"cascade_cancel_pending", "close_pending", "closed", "secondary_failed"},
          "close_failed")

\* There is no leg to close, so the closing cascade reports a failure.
UnhedgedCloseFails == Closing("limit", {"filled"}, "close_failed")

Next ==
  \/ PrimaryMoves \/ Reject \/ PrimaryFilled \/ TripsUnhedged \/ Cancelled
  \/ OpeningMoves \/ Hedged \/ OpeningFails
  \/ BeginCancel \/ BeginClose \/ CloseSucceeds \/ CloseFails \/ UnhedgedCloseFails

Spec == Init /\ [][Next]_vars
=============================================================================
