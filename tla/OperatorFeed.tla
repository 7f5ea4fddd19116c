---------------------------- MODULE OperatorFeed ----------------------------
(* The operator's view of the system: the market feed and the alerts, side *)
(* by side in the server's event loop.                                     *)
EXTENDS MarketFeed, AlertCooldown

vars == <<feedVars, alertVars, bounds>>

Init == BoundsInit /\ FeedInit /\ AlertInit

Next ==
    \/ FeedNext /\ UNCHANGED alertVars
    \/ AlertNext /\ UNCHANGED feedVars

Spec == Init /\ [][Next]_vars
=============================================================================
