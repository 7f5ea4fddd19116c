----------------------------- MODULE OrderStore -----------------------------
(***************************************************************************)
(* The order store RedisService keeps: the row of each order, the status   *)
(* sets orders:by_status:*, and the side indices from a cTrader id and     *)
(* from a request id to the order.  An order has one leg here, at FTMO;    *)
(* for an order of Hedged the row also has the status of the second leg,   *)
(* which the hedge modules work on.                                        *)
(***************************************************************************)
EXTENDS Naturals, Sequences, FiniteSets

CONSTANTS
  Orders,
  Hedged,       \* the orders whose pair has an Exness account
  MaxRequests,  \* requests of the operator (bound)
  MaxStops      \* values the pair (stop loss, take profit) takes (bound)

ASSUME OrderAssumption ==
  /\ Hedged \subseteq Orders
  /\ MaxRequests \in Nat
  /\ MaxStops \in Nat

VARIABLES
  rows,          \* HASH order:{id}
  byStatus,      \* SET orders:by_status:{status}
  brokerIndex,   \* keys p_broker_order_id_to_order:{id} that exist
  requestIndex   \* keys request_id_to_order:{id} that exist

storeVars == <<rows, byStatus, brokerIndex, requestIndex>>

-----------------------------------------------------------------------------
\* OrderService._ALL_STATUSES, without those only a cascade writes.
Statuses == {"pending", "primary_filled", "filled", "closed", "rejected", "cancelled"}
PStatuses == {"pending", "filled", "closed", "rejected", "cancelled", "unknown"}
SStatuses == {"pending_phase_4", "pending", "filled", "closed"}

\* cTrader names a waiting order by its orderId and a position by its
\* positionId; an id belongs to one order.
NoId == <<>>
Ids  == {"order", "position"} \X Orders
OrderId(o)    == <<"order", o>>
PositionId(o) == <<"position", o>>

\* A stop order goes the way of a limit order.
Types == {"market", "limit"}
NoRow == [status |-> "none"]
Rows  == [order_type : Types, status : Statuses, p_status : PStatuses, s_status : SStatuses,
          broker : Ids \cup {NoId}, stops : 0 .. MaxStops]
Exists(o) == rows[o] # NoRow

StoreTypeOK ==
  /\ rows \in [Orders -> Rows \cup {NoRow}]
  /\ byStatus \in [Statuses -> SUBSET Orders]
  /\ brokerIndex \subseteq Ids
  /\ requestIndex \subseteq 1 .. MaxRequests

StoreInit ==
  /\ rows = [o \in Orders |-> NoRow]
  /\ byStatus = [s \in Statuses |-> {}]
  /\ brokerIndex = {} /\ requestIndex = {}

-----------------------------------------------------------------------------
\* One pipeline: the row and its entry in the status set.
CreateOrder(o, row) ==
  /\ rows' = [rows EXCEPT ![o] = row]
  /\ byStatus' = [byStatus EXCEPT ![row.status] = @ \cup {o}]

\* A plausible bug: the entry in the old status set is left behind.
UpdateOrderKeepsOld(o, row) ==
  /\ Exists(o)
  /\ rows' = [rows EXCEPT ![o] = row]
  /\ byStatus' = [byStatus EXCEPT ![row.status] = @ \cup {o}]

\* UPDATE_ORDER_LUA without compare-and-set: the patch and the move between
\* the status sets are one step.
UpdateOrder(o, row) ==
  /\ Exists(o)
  /\ rows' = [rows EXCEPT ![o] = row]
  /\ byStatus' =
       IF row.status = rows[o].status THEN byStatus
       ELSE [byStatus EXCEPT ![rows[o].status] = @ \ {o}, ![row.status] = @ \cup {o}]

LinkBrokerId(id)   == brokerIndex' = brokerIndex \cup {id}
UnlinkBrokerId(id) == brokerIndex' = brokerIndex \ {id}
LinkRequest(r)     == requestIndex' = requestIndex \cup {r}

\* list_orders_by_status: the rows of the set's members, as they are now.
ListByStatus(s) == {[of |-> o, row |-> rows[o]] : o \in byStatus[s]}
=============================================================================
