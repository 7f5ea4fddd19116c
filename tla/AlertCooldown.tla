--------------------------- MODULE AlertCooldown ---------------------------
(***************************************************************************)
(* AlertService.emit, called by several tasks at once.  An alert type that *)
(* has a cooldown claims a key in Redis before the alert is written; a     *)
(* recovery alert, or a type without a cooldown, claims nothing.  A key    *)
(* here is an alert type and the order it is about.                        *)
(***************************************************************************)
EXTENDS OperatorBounds

CONSTANTS
    Emitters,   \* the tasks that raise alerts
    Keys        \* alert type and cooldown key

VARIABLES
    claimed,     \* the cooldown keys in Redis
    emit,        \* the call a task is in
    stored,      \* history: claimed alerts written since the key was claimed
    suppressed,  \* history: an alert was suppressed since the key was claimed
    unstored     \* history: writing an alert failed since the key was claimed

alertVars == <<claimed, emit, stored, suppressed, unstored>>

NoEmit == [pc |-> "idle", key |-> "none", claims |-> FALSE]

AlertInit ==
    /\ claimed = {}
    /\ emit = [e \in Emitters |-> NoEmit]
    /\ stored = [k \in Keys |-> 0]
    /\ suppressed = [k \in Keys |-> FALSE]
    /\ unstored = [k \in Keys |-> FALSE]

Return(e) == emit' = [emit EXCEPT ![e] = NoEmit]

Emit(e) ==
    /\ emit[e] = NoEmit
    /\ Operation
    /\ \E k \in Keys, claims \in BOOLEAN :
           emit' = [emit EXCEPT ![e] = [pc |-> IF claims THEN "claim" ELSE "store",
                                        key |-> k, claims |-> claims]]
    /\ UNCHANGED <<claimed, stored, suppressed, unstored>>

\* A plausible bug: the key is set without NX, every emit claims it.
AlwaysClaims(k) == TRUE

\* SET NX succeeds for the first caller only.
Claims(k) == k \notin claimed

Claim(e) ==
    LET k == emit[e].key
    IN  /\ emit[e].pc = "claim"
        /\ Claims(k)
        /\ claimed' = claimed \cup {k}
        /\ emit' = [emit EXCEPT ![e].pc = "store"]
        /\ UNCHANGED <<stored, suppressed, unstored, bounds>>

Suppress(e) ==
    LET k == emit[e].key
    IN  /\ emit[e].pc = "claim"
        /\ ~Claims(k)
        /\ suppressed' = [suppressed EXCEPT ![k] = TRUE]
        /\ Return(e)
        /\ UNCHANGED <<claimed, stored, unstored, bounds>>

\* Redis raises: the alert is given up, whether the claim was made or not.
ClaimFails(e) ==
    LET k == emit[e].key
    IN  /\ emit[e].pc = "claim"
        /\ Fault
        /\ \/ UNCHANGED <<claimed, unstored>>
           \/ /\ Claims(k)
              /\ claimed' = claimed \cup {k}
              /\ unstored' = [unstored EXCEPT ![k] = TRUE]
        /\ Return(e)
        /\ UNCHANGED <<stored, suppressed>>

\* The alert is written; the operator's screen and Telegram are best effort.
Store(e) ==
    LET k == emit[e].key
    IN  /\ emit[e].pc = "store"
        /\ stored' = [stored EXCEPT ![k] = @ + IF emit[e].claims THEN 1 ELSE 0]
        /\ Return(e)
        /\ UNCHANGED <<claimed, suppressed, unstored, bounds>>

StoreFails(e) ==
    LET k == emit[e].key
    IN  /\ emit[e].pc = "store"
        /\ Fault
        /\ unstored' = [unstored EXCEPT ![k] = @ \/ emit[e].claims]
        /\ Return(e)
        /\ UNCHANGED <<claimed, stored, suppressed>>

\* A task that holds the claim and has not written its alert yet.
Storing(k) == \E e \in Emitters : emit[e].key = k /\ emit[e].claims /\ emit[e].pc = "store"

\* The cooldown (minutes) outlasts the write that follows the claim.
CooldownEnds(k) ==
    /\ k \in claimed
    /\ ~Storing(k)
    /\ claimed' = claimed \ {k}
    /\ stored' = [stored EXCEPT ![k] = 0]
    /\ suppressed' = [suppressed EXCEPT ![k] = FALSE]
    /\ unstored' = [unstored EXCEPT ![k] = FALSE]
    /\ UNCHANGED <<emit, bounds>>

AlertNext ==
    \/ \E e \in Emitters :
           Emit(e) \/ Claim(e) \/ Suppress(e) \/ ClaimFails(e) \/ Store(e) \/ StoreFails(e)
    \/ \E k \in Keys : CooldownEnds(k)

\* While a cooldown lasts the operator is told once, however many tasks raise
\* the same alert at once, and an alert is suppressed only because one of the
\* same kind was written, is being written, or failed to be (the key is not
\* given back: that alert is lost for the whole cooldown).
CooldownTellsOnce ==
    \A k \in Keys :
        /\ stored[k] <= 1
        /\ suppressed[k] => stored[k] = 1 \/ unstored[k] \/ Storing(k)
=============================================================================
