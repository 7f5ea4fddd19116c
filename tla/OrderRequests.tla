--------------------------- MODULE OrderRequests ---------------------------
(***************************************************************************)
(* The life of single orders between the operator, the server and the FTMO *)
(* account: OrderService's requests, the response and event loops, the     *)
(* FTMO client, restarts of both processes, and what is told to nobody.    *)
(***************************************************************************)
EXTENDS OrderLoops

VARIABLE requests  \* the operator's requests, in the order they came

vars == <<storeVars, accountVars, clientVars, streamVars, loopVars, requests, faults, lost>>

OutsideUnchanged == UNCHANGED <<accountVars, clientVars, resps, events, loopVars, faults>>

-----------------------------------------------------------------------------
\* A request is stored (its row exists), pushed (its command is in the
\* stream) and linked (its answer can be routed); or a crash ended it.
RequestStages == {"stored", "pushed", "linked", "dead"}
RequestRecords ==
  [act : {"open", "close", "modify_sl_tp"}, of : Orders, stops : 0 .. MaxStops,
   at : RequestStages]

TypeOK ==
  /\ StoreTypeOK /\ AccountTypeOK
  /\ respAt \in Ids \cup {NoId}
  /\ eventAt \in EventStages
  /\ requests \in Seq(RequestRecords)
  /\ Len(requests) <= MaxRequests

Init ==
  /\ StoreInit /\ AccountInit /\ LoopInit
  /\ requests = <<>>

-----------------------------------------------------------------------------
(* OrderService                                                            *)

Ask(act, o, stops, at) ==
  /\ Len(requests) < MaxRequests
  /\ requests' = Append(requests, [act |-> act, of |-> o, stops |-> stops, at |-> at])

Command(i) ==
  [id |-> i, act |-> requests[i].act, of |-> requests[i].of,
   type |-> rows[requests[i].of].order_type, stops |-> requests[i].stops]

\* create_order: the checks passed, the row is written.
Create(o, type) ==
  /\ ~ Exists(o)
  /\ Ask("open", o, 0, "stored")
  /\ CreateOrder(o, [order_type |-> type, status |-> "pending", p_status |-> "pending",
                     s_status |-> IF o \in Hedged THEN "pending" ELSE "pending_phase_4",
                     broker |-> NoId, stops |-> 0])
  /\ OutsideUnchanged
  /\ UNCHANGED <<brokerIndex, requestIndex, edits, cmds, lost>>

PushOpen(i) ==
  /\ requests[i].at = "stored"
  /\ requests' = [requests EXCEPT ![i].at = "pushed"]
  /\ cmds' = Append(cmds, Command(i))
  /\ OutsideUnchanged /\ UNCHANGED <<storeVars, lost>>

\* close_order: the row must be filled; that a close is already under way is
\* not in the row.
Close(o) ==
  /\ Exists(o) /\ rows[o].status = "filled" /\ rows[o].p_status = "filled"
  /\ rows[o].broker # NoId
  /\ Ask("close", o, 0, "pushed")
  /\ cmds' = Append(cmds, [id |-> Len(requests'), act |-> "close", of |-> o,
                           type |-> rows[o].order_type, stops |-> 0])
  /\ OutsideUnchanged /\ UNCHANGED <<storeVars, lost>>

\* modify_order: the composed status is not looked at.
Modify(o) ==
  /\ Exists(o) /\ rows[o].p_status = "filled" /\ rows[o].broker # NoId
  /\ edits < MaxStops /\ edits' = edits + 1
  /\ Ask("modify_sl_tp", o, edits', "pushed")
  /\ cmds' = Append(cmds, [id |-> Len(requests'), act |-> "modify_sl_tp", of |-> o,
                           type |-> rows[o].order_type, stops |-> edits'])
  /\ UNCHANGED <<account, clientVars, resps, events, loopVars, faults>>
  /\ UNCHANGED <<storeVars, lost>>

\* link_request_to_order, after the push.
Link(i) ==
  /\ requests[i].at = "pushed"
  /\ requests' = [requests EXCEPT ![i].at = "linked"]
  /\ LinkRequest(i)
  /\ OutsideUnchanged
  /\ UNCHANGED <<rows, byStatus, brokerIndex, cmds, lost>>

Operator ==
  \E o \in Orders :
    \/ \E type \in Types : Create(o, type)
    \/ Close(o)
    \/ Modify(o)

Service == \E i \in DOMAIN requests : PushOpen(i) \/ Link(i)

-----------------------------------------------------------------------------
\* The server ends and starts again: its tasks are gone, and what it had read
\* from the streams without acknowledging it is not read again.
CrashOf(read, seen) ==
  /\ faults < MaxFaults /\ faults' = faults + 1
  /\ resps' = SubSeq(resps, read + 1, Len(resps))
  /\ events' = SubSeq(events, seen + 1, Len(events))
  /\ respAt' = NoId /\ eventAt' = IdleEvent
  /\ requests' = [i \in DOMAIN requests |->
       IF requests[i].at \in {"stored", "pushed"} THEN [requests[i] EXCEPT !.at = "dead"]
       ELSE requests[i]]
  /\ lost' = [o \in Orders |-> IF Exists(o) THEN lost[o] \cup {"crash"} ELSE lost[o]]
  /\ UNCHANGED <<storeVars, accountVars, clientVars, cmds>>

Crash == \E read \in 0 .. Len(resps), seen \in 0 .. Len(events) : CrashOf(read, seen)

Loops == (ResponseLoop \/ EventLoop) /\ UNCHANGED requests
Outside == (Account \/ Client) /\ UNCHANGED <<storeVars, loopVars, requests>>

Next == Operator \/ Service \/ Loops \/ Outside \/ Crash

Fairness ==
  /\ WF_vars(Service)
  /\ WF_vars(ResponseLoop /\ UNCHANGED requests)
  /\ WF_vars(EventLoop /\ UNCHANGED requests)
  /\ WF_vars((HandleCommand \/ PublishEffect \/ Respond \/ Connect \/ QuerySnapshot \/ PublishSnapshot)
               /\ UNCHANGED <<storeVars, loopVars, requests>>)

Spec == Init /\ [][Next]_vars /\ Fairness

-----------------------------------------------------------------------------
(* Properties                                                              *)

\* Nothing about order o is under way between operator, server and client.
Quiet(o) ==
  /\ client.at = "up"
  /\ \A i \in DOMAIN requests :
       requests[i].of = o => requests[i].at \in {"linked", "dead"}
  /\ answer # NoAnswer => answer.of # o
  /\ \A i \in DOMAIN cmds : cmds[i].of # o
  /\ \A i \in DOMAIN resps : resps[i].of # o
  /\ \A i \in DOMAIN events : events[i].type = "reconcile_snapshot" \/ events[i].of # o
  /\ respAt = NoId /\ eventAt = IdleEvent

\* An order is a member of the status set its row names and of no other, at
\* every moment a concurrent reader may look (redis_service_lua.py:14-18).
StatusIndexAgrees ==
  \A o \in Orders, s \in Statuses : o \in byStatus[s] <=> Exists(o) /\ rows[o].status = s

\* An event can reach an order only through the id its row has, except while
\* the event loop moves the index from the order id to the position id, or
\* after a crash that cut this short.
LinkedIdIsCurrent ==
  \A id \in brokerIndex :
    \/ rows[id[2]].broker = id
    \/ eventAt.at \in {"unlink", "drop"} /\ eventAt.of = id[2]
    \/ "crash" \in lost[id[2]]

\* Once nothing is under way, a position that is open at the broker belongs to
\* a row that says so and that its events reach; unless an answer or an event
\* of it got lost in one of the ways the code leaves open.
LiveIsTracked ==
  \A o \in Orders :
    Quiet(o) /\ account[o].state = "open" /\ lost[o] \cap {"answer", "event", "doubt", "crash"} = {}
      => /\ rows[o].p_status = "filled"
         /\ rows[o].status \in {"filled", "primary_filled"}
         /\ PositionId(o) \in brokerIndex

\* An order is shown as rejected only if there is no position of it, unless the
\* broker executed the open and its answer came too late.
RejectedHasNoPosition ==
  \A o \in Orders :
    Exists(o) /\ rows[o].status = "rejected" /\ "doubt" \notin lost[o]
      => account[o].state = "none"

\* Closed, rejected and cancelled are final: no answer or event that comes
\* late, twice or in another order takes an order out of them.
FinalStatuses == {"closed", "rejected", "cancelled"}
FinalIsFinal ==
  [][\A o \in Orders :
       Exists(o) /\ rows[o].status \in FinalStatuses => rows'[o].status = rows[o].status]_vars

\* The reconciler looks at every order that was open all the time it listed
\* the open orders.
NoOpenOrderOverlooked ==
  eventAt.at = "list" /\ eventAt.left = 0
    => eventAt.owed \subseteq {l.of : l \in eventAt.found}

\* An order with an Exness leg that is shown as filled has both legs: it waits
\* in primary_filled until the cascade has filled the second one
\* (docs/phase-4-design.md:276, docs/12-business-rules.md:22).
FilledHedgeHasBothLegs ==
  \A o \in Hedged : Exists(o) /\ rows[o].status = "filled" => rows[o].s_status = "filled"

\* Once nothing is under way, the row shows the stops the account has, unless
\* an edit in the user interface, or a modify whose answer timed out, crossed
\* the answer to a modify of ours, or was not seen.
StopsAgree ==
  \A o \in Orders :
    Quiet(o) /\ account[o].state = "open" /\ lost[o] = {} => rows[o].stops = account[o].stops

\* A tracked position that closes while the client is down is closed in the
\* row in the end: the snapshot of the restarted client shows it missing, and
\* the deal history has its close.  Unless one of the two queries fails, or a
\* crash of the server loses the snapshot: neither is tried again.
RestartRecovers ==
  \A o \in Orders :
    /\ client.at = "down" /\ account[o].state = "closed" /\ o \notin Hedged
    /\ Exists(o) /\ rows[o].status = "filled" /\ PositionId(o) \in brokerIndex
    /\ lost[o] \cap {"doubt", "crash"} = {}
    ~> rows[o].status = "closed" \/ lost[o] \cap {"history", "crash"} # {} \/ faults > 1
=============================================================================
