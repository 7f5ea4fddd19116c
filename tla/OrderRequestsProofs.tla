------------------------ MODULE OrderRequestsProofs ------------------------
(***************************************************************************)
(* Theorems about OrderRequests, for any orders, hedged or not, and any    *)
(* number of requests, stop values and faults.                             *)
(***************************************************************************)
EXTENDS OrderRequests, StreamLemmas

-----------------------------------------------------------------------------
(* What exists.                                                            *)

\* What a request, or a row the reconciler has read, is about has a row.
RequestedExist == \A i \in DOMAIN requests : Exists(requests[i].of)

FoundExist ==
  /\ eventAt.at \in {"list", "diff"} => \A l \in eventAt.found : Exists(l.of)
  /\ eventAt.at = "list" => \A o \in eventAt.owed : Exists(o)

Typed == TypeOK /\ StatusIndexAgrees /\ RequestedExist /\ FoundExist

-----------------------------------------------------------------------------
(* The store.                                                              *)

LEMMA RowIsThere ==
  ASSUME NEW row \in Rows PROVE row # NoRow /\ row.status \in Statuses
BY DEF Rows, NoRow, Statuses

LEMMA Updated ==
  ASSUME StoreTypeOK, StatusIndexAgrees, NEW o \in Orders, NEW row \in Rows, UpdateOrder(o, row)
  PROVE  /\ rows' \in [Orders -> Rows \cup {NoRow}] /\ byStatus' \in [Statuses -> SUBSET Orders]
         /\ StatusIndexAgrees'
         /\ Exists(o) /\ rows'[o] = row /\ \A p \in Orders \ {o} : rows'[p] = rows[p]
<1>1. /\ rows' \in [Orders -> Rows \cup {NoRow}]
      /\ rows'[o] = row /\ \A p \in Orders \ {o} : rows'[p] = rows[p]
      /\ Exists(o) /\ rows[o] \in Rows
  BY DEF UpdateOrder, StoreTypeOK, Exists
<1>2. row.status \in Statuses /\ rows[o].status \in Statuses /\ row # NoRow
  BY <1>1, RowIsThere
<1>3. byStatus' \in [Statuses -> SUBSET Orders]
  BY <1>2 DEF UpdateOrder, StoreTypeOK
<1>4. ASSUME NEW p \in Orders, NEW s \in Statuses
      PROVE  p \in byStatus'[s] <=> rows'[p] # NoRow /\ rows'[p].status = s
  <2>1. p \in byStatus[s] <=> rows[p] # NoRow /\ rows[p].status = s
    BY DEF StatusIndexAgrees, Exists
  <2>2. CASE row.status = rows[o].status
    BY <1>1, <1>2, <2>1, <2>2 DEF UpdateOrder, Exists
  <2>3. CASE row.status # rows[o].status
    <3>1. byStatus' = [byStatus EXCEPT ![rows[o].status] = @ \ {o}, ![row.status] = @ \cup {o}]
      BY <2>3 DEF UpdateOrder
    <3>2. byStatus'[s] = IF s = row.status THEN byStatus[s] \cup {o}
                         ELSE IF s = rows[o].status THEN byStatus[s] \ {o} ELSE byStatus[s]
      BY <1>2, <2>3, <3>1 DEF StoreTypeOK
    <3>3. CASE p = o
      BY <1>1, <1>2, <2>1, <2>3, <3>2, <3>3
    <3>4. CASE p # o
      BY <1>1, <2>1, <3>2, <3>4
    <3> QED
      BY <3>3, <3>4
  <2> QED
    BY <2>2, <2>3
<1> QED
  BY <1>1, <1>3, <1>4 DEF StatusIndexAgrees, Exists

LEMMA Created ==
  ASSUME StoreTypeOK, StatusIndexAgrees, NEW o \in Orders, NEW row \in Rows, ~ Exists(o),
         CreateOrder(o, row)
  PROVE  /\ rows' \in [Orders -> Rows \cup {NoRow}] /\ byStatus' \in [Statuses -> SUBSET Orders]
         /\ StatusIndexAgrees'
         /\ rows'[o] = row /\ \A p \in Orders \ {o} : rows'[p] = rows[p]
<1>1. /\ rows' \in [Orders -> Rows \cup {NoRow}]
      /\ rows'[o] = row /\ \A p \in Orders \ {o} : rows'[p] = rows[p]
  BY DEF CreateOrder, StoreTypeOK
<1>2. row.status \in Statuses /\ row # NoRow
  BY RowIsThere
<1>3. byStatus' \in [Statuses -> SUBSET Orders]
  BY <1>2 DEF CreateOrder, StoreTypeOK
<1>4. ASSUME NEW p \in Orders, NEW s \in Statuses
      PROVE  p \in byStatus'[s] <=> rows'[p] # NoRow /\ rows'[p].status = s
  <2>1. p \in byStatus[s] <=> rows[p] # NoRow /\ rows[p].status = s
    BY DEF StatusIndexAgrees, Exists
  <2>2. byStatus'[s] = IF s = row.status THEN byStatus[s] \cup {o} ELSE byStatus[s]
    BY <1>2 DEF CreateOrder, StoreTypeOK
  <2> QED
    BY <1>1, <1>2, <2>1, <2>2 DEF Exists
<1> QED
  BY <1>1, <1>3, <1>4 DEF StatusIndexAgrees, Exists

LEMMA StoreStays ==
  ASSUME StatusIndexAgrees, UNCHANGED <<rows, byStatus>> PROVE StatusIndexAgrees'
BY DEF StatusIndexAgrees, Exists

-----------------------------------------------------------------------------
(* The entries of the streams, and the stages of the event loop.           *)

LEMMA EventKinds ==
  ASSUME NEW e \in Events
  PROVE  /\ e.type = "reconcile_snapshot" => e.open \subseteq Orders /\ e.working \subseteq Orders
         /\ e.type # "reconcile_snapshot" =>
              e \in OrderEvents /\ e.of \in Orders /\ e.stops \in 0 .. MaxStops
BY DEF Events, OrderEvents

LEMMA OrderEventTyped ==
  ASSUME NEW o \in Orders, NEW n \in 0 .. MaxStops,
         NEW type \in {"position_closed", "pending_filled", "position_modified", "order_cancelled"}
  PROVE  /\ OrderEvent(type, o, n) \in OrderEvents /\ OrderEvent(type, o, n) \in Events
         /\ OrderEvent(type, o, n).type = type /\ OrderEvent(type, o, n).of = o
BY DEF OrderEvent, OrderEvents, Events

LEMMA NoEffectIsNone ==
  ASSUME NEW e \in OrderEvents PROVE e # NoEffect /\ e.type # "reconcile_snapshot" /\ e \in Events
BY DEF OrderEvents, NoEffect, Events

LEMMA NoAnswerIsNone ==
  ASSUME NEW r \in Responses PROVE r # NoAnswer
BY DEF Responses, NoAnswer, Actions

ListStages ==
  [at : {"list"}, left : 0 .. 2, found : SUBSET Listed, owed : SUBSET Orders,
   open : SUBSET Orders, working : SUBSET Orders]
DiffStages == [at : {"diff"}, found : SUBSET Listed, open : SUBSET Orders, working : SUBSET Orders]

LEMMA Stages ==
  /\ EventStages = {IdleEvent} \cup [at : {"unlink", "link", "drop"}, of : Orders]
                     \cup ListStages \cup DiffStages
  /\ \A s \in EventStages : /\ s.at \in {"unlink", "link", "drop"} => s.of \in Orders
                            /\ s.at = "list" => s \in ListStages
                            /\ s.at = "diff" => s \in DiffStages
  /\ IdleEvent.at = "idle"
<1>1. Len(OpenStatuses) = 2
  BY DEF OpenStatuses
<1> QED
  BY <1>1 DEF EventStages, IdleEvent, ListStages, DiffStages

LEMMA SelfIds ==
  ASSUME NEW o \in Orders
  PROVE  /\ OrderId(o) \in Ids /\ PositionId(o) \in Ids
         /\ OrderId(o) # NoId /\ PositionId(o) # NoId
         /\ OrderId(o)[2] = o /\ PositionId(o)[2] = o
         /\ \A p : OrderId(o) # PositionId(p)
         /\ \A p : OrderId(p) = OrderId(o) => p = o
         /\ \A p : PositionId(p) = PositionId(o) => p = o
BY DEF OrderId, PositionId, Ids, NoId

LEMMA IdsAre ==
  ASSUME NEW id \in Ids PROVE id[2] \in Orders /\ (id = OrderId(id[2]) \/ id = PositionId(id[2]))
BY DEF Ids, OrderId, PositionId

-----------------------------------------------------------------------------
(* Type correctness.                                                       *)

\* What is about existing orders stays so.
LEMMA ExistenceKept ==
  ASSUME Typed, TypeOK', StatusIndexAgrees',
         \A o \in Orders : Exists(o) => rows'[o] # NoRow,
         \A i \in DOMAIN requests' :
           \/ i \in DOMAIN requests /\ requests'[i].of = requests[i].of
           \/ rows'[requests'[i].of] # NoRow,
         \/ eventAt' = eventAt
         \/ eventAt'.at \notin {"list", "diff"}
         \/ /\ eventAt'.at \in {"list", "diff"} =>
                 \A l \in eventAt'.found : \/ rows'[l.of] # NoRow
                                           \/ eventAt.at \in {"list", "diff"} /\ l \in eventAt.found
            /\ eventAt'.at = "list" =>
                 \A o \in eventAt'.owed : \/ rows'[o] # NoRow
                                          \/ eventAt.at = "list" /\ o \in eventAt.owed
  PROVE  Typed'
<1>1. RequestedExist'
  <2> SUFFICES ASSUME NEW i \in DOMAIN requests' PROVE rows'[requests'[i].of] # NoRow
    BY DEF RequestedExist, Exists
  <2>1. CASE i \in DOMAIN requests /\ requests'[i].of = requests[i].of
    <3>1. requests[i] \in RequestRecords /\ Exists(requests[i].of)
      BY <2>1 DEF Typed, TypeOK, RequestedExist
    <3>2. requests[i].of \in Orders
      BY <3>1 DEF RequestRecords
    <3> QED
      BY <2>1, <3>1, <3>2
  <2> QED
    BY <2>1
<1>2. eventAt.at \in {"list", "diff"} => \A l \in eventAt.found : l.of \in Orders /\ Exists(l.of)
  BY Stages DEF Typed, TypeOK, FoundExist, ListStages, DiffStages, Listed
<1>3. eventAt.at = "list" => \A o \in eventAt.owed : o \in Orders /\ Exists(o)
  BY Stages DEF Typed, TypeOK, FoundExist, ListStages
<1>4. FoundExist'
  BY <1>2, <1>3 DEF FoundExist, Exists
<1> QED
  BY <1>1, <1>4 DEF Typed

LEMMA RequestsTyped ==
  ASSUME Typed, Operator \/ Service PROVE Typed'
<1> USE DEF Typed
<1>a. StoreTypeOK /\ AccountTypeOK /\ requests \in Seq(RequestRecords)
  BY DEF TypeOK
<1>1. ASSUME NEW o \in Orders, NEW type \in Types, Create(o, type) PROVE Typed'
  <2> DEFINE row == [order_type |-> type, status |-> "pending", p_status |-> "pending",
                     s_status |-> IF o \in Hedged THEN "pending" ELSE "pending_phase_4",
                     broker |-> NoId, stops |-> 0]
             rec == [act |-> "open", of |-> o, stops |-> 0, at |-> "stored"]
  <2>1. row \in Rows /\ rec \in RequestRecords /\ rec.of = o
    BY OrderAssumption DEF Rows, Statuses, PStatuses, SStatuses, RequestRecords, RequestStages
  <2>2. /\ ~ Exists(o) /\ CreateOrder(o, row) /\ requests' = Append(requests, rec)
        /\ Len(requests) < MaxRequests
        /\ OutsideUnchanged /\ UNCHANGED <<brokerIndex, requestIndex, edits, cmds, lost>>
    BY <1>1 DEF Create, Ask
  <2> HIDE DEF row, rec
  <2>3. /\ rows' \in [Orders -> Rows \cup {NoRow}] /\ byStatus' \in [Statuses -> SUBSET Orders]
        /\ StatusIndexAgrees'
        /\ rows'[o] = row /\ \A p \in Orders \ {o} : rows'[p] = rows[p]
    BY <1>a, <2>1, <2>2, Created
  <2>4. /\ requests' \in Seq(RequestRecords) /\ Len(requests') = Len(requests) + 1
        /\ \A i \in DOMAIN requests' : \/ i \in DOMAIN requests /\ requests'[i] = requests[i]
                                       \/ requests'[i] = rec
    BY <1>a, <2>1, <2>2, AppendIndexed
  <2>4a. Len(requests') <= MaxRequests
    BY <1>a, <2>2, <2>4, OrderAssumption
  <2>5. TypeOK'
    BY <1>a, <2>2, <2>3, <2>4, <2>4a
       DEF TypeOK, StoreTypeOK, AccountTypeOK, OutsideUnchanged, accountVars, clientVars, loopVars
  <2>6. \A p \in Orders : Exists(p) => rows'[p] # NoRow
    BY <2>1, <2>3, RowIsThere DEF Exists
  <2>7. rows'[o] # NoRow /\ eventAt' = eventAt
    BY <2>1, <2>2, <2>3, RowIsThere DEF OutsideUnchanged, loopVars
  <2> QED
    BY <2>1, <2>3, <2>4, <2>5, <2>6, <2>7, ExistenceKept
<1>2. ASSUME NEW o \in Orders, Close(o) \/ Modify(o) PROVE Typed'
  <2>1. Exists(o) /\ rows[o] \in Rows /\ rows[o].order_type \in Types
    BY <1>2, <1>a DEF Close, Modify, StoreTypeOK, Exists, Rows
  <2>2. edits' \in 0 .. MaxStops
    BY <1>2, <1>a, OrderAssumption
       DEF Close, Modify, AccountTypeOK, OutsideUnchanged, accountVars
  <2>3. PICK act \in {"close", "modify_sl_tp"}, n \in 0 .. MaxStops :
          /\ Ask(act, o, n, "pushed")
          /\ cmds' = Append(cmds, [id |-> Len(requests'), act |-> act, of |-> o,
                                   type |-> rows[o].order_type, stops |-> n])
    BY <1>2, <2>2, OrderAssumption DEF Close, Modify
  <2> DEFINE rec == [act |-> act, of |-> o, stops |-> n, at |-> "pushed"]
             cmd == [id |-> Len(requests'), act |-> act, of |-> o,
                     type |-> rows[o].order_type, stops |-> n]
  <2>4. rec \in RequestRecords /\ rec.of = o
    BY DEF RequestRecords, RequestStages
  <2>5. requests' = Append(requests, rec) /\ Len(requests) < MaxRequests
    BY <2>3 DEF Ask
  <2> HIDE DEF rec
  <2>6. /\ requests' \in Seq(RequestRecords) /\ Len(requests') = Len(requests) + 1
        /\ \A i \in DOMAIN requests' : \/ i \in DOMAIN requests /\ requests'[i] = requests[i]
                                       \/ requests'[i] = rec
    BY <1>a, <2>4, <2>5, AppendIndexed
  <2>7. cmd \in Commands
    BY <1>a, <2>1, <2>5, <2>6, OrderAssumption DEF Commands, Actions
  <2>8. cmds' \in Seq(Commands)
    <3>1. cmds' = Append(cmds, cmd) /\ cmds \in Seq(Commands)
      BY <1>a, <2>3 DEF AccountTypeOK
    <3> HIDE DEF cmd
    <3> QED
      BY <2>7, <3>1, AppendIndexed
  <2>9. /\ UNCHANGED <<rows, byStatus, brokerIndex, requestIndex, account, client, answer, effect,
                       resps, events, respAt, eventAt, faults, lost>>
    BY <1>2 DEF Close, Modify, OutsideUnchanged, accountVars, clientVars, loopVars, storeVars
  <2>10. TypeOK'
    BY <1>a, <2>2, <2>5, <2>6, <2>8, <2>9, OrderAssumption DEF TypeOK, StoreTypeOK, AccountTypeOK
  <2> QED
    BY <2>1, <2>4, <2>6, <2>9, <2>10, ExistenceKept, StoreStays DEF Exists
<1>3. ASSUME NEW i \in DOMAIN requests, PushOpen(i) \/ Link(i) PROVE Typed'
  <2>0. requests[i] \in RequestRecords /\ Exists(requests[i].of)
    BY <1>a DEF RequestedExist
  <2>1. /\ requests[i] \in RequestRecords /\ requests[i].of \in Orders /\ Exists(requests[i].of)
        /\ rows[requests[i].of] \in Rows /\ i \in 1 .. MaxRequests
    <3>1. requests[i].of \in Orders
      BY <2>0 DEF RequestRecords
    <3>2. i \in 1 .. MaxRequests
      BY <1>a, OrderAssumption DEF TypeOK
    <3> QED
      BY <1>a, <2>0, <3>1, <3>2 DEF StoreTypeOK, Exists
  <2>2. PICK at \in {"pushed", "linked"} : requests' = [requests EXCEPT ![i].at = at]
    BY <1>3 DEF PushOpen, Link
  <2> DEFINE rec == [requests[i] EXCEPT !.at = at]
  <2>3. rec \in RequestRecords /\ rec.of = requests[i].of
    BY <2>1 DEF RequestRecords, RequestStages
  <2>4. requests' = [requests EXCEPT ![i] = rec]
    BY <2>2
  <2> HIDE DEF rec
  <2>5. /\ requests' \in Seq(RequestRecords) /\ Len(requests') = Len(requests)
        /\ \A j \in DOMAIN requests' : j \in DOMAIN requests /\ requests'[j].of = requests[j].of
    BY <1>a, <2>3, <2>4
  <2>6. Command(i) \in Commands
    BY <2>1 DEF Command, Commands, RequestRecords, Rows, Actions
  <2>7. cmds' \in Seq(Commands)
    <3>1. cmds \in Seq(Commands)
      BY <1>a DEF AccountTypeOK
    <3>2. cmds' = cmds \/ cmds' = Append(cmds, Command(i))
      BY <1>3 DEF PushOpen, Link
    <3> QED
      BY <2>6, <3>1, <3>2, AppendIndexed
  <2>7a. requestIndex' \subseteq 1 .. MaxRequests
    BY <1>3, <1>a, <2>1 DEF PushOpen, Link, LinkRequest, StoreTypeOK, storeVars
  <2>8. /\ UNCHANGED <<rows, byStatus, brokerIndex, account, edits, client, answer, effect,
                       resps, events, respAt, eventAt, faults, lost>>
    BY <1>3 DEF PushOpen, Link, OutsideUnchanged, accountVars, clientVars, loopVars, storeVars
  <2>9. TypeOK'
    BY <1>a, <2>5, <2>7, <2>7a, <2>8 DEF TypeOK, StoreTypeOK, AccountTypeOK
  <2> QED
    BY <2>5, <2>8, <2>9, ExistenceKept, StoreStays DEF Exists
<1> QED
  BY <1>1, <1>2, <1>3 DEF Operator, Service

\* A handler of the server leaves the rows, or patches one that exists.
Patches(o, row) == o \in Orders /\ row \in Rows /\ UpdateOrder(o, row)
StoreStep == UNCHANGED <<rows, byStatus>> \/ \E o \in Orders, row \in Rows : Patches(o, row)

LEMMA StoreKept ==
  ASSUME StoreTypeOK, StatusIndexAgrees, StoreStep
  PROVE  /\ rows' \in [Orders -> Rows \cup {NoRow}] /\ byStatus' \in [Statuses -> SUBSET Orders]
         /\ StatusIndexAgrees'
         /\ \A p \in Orders : Exists(p) => rows'[p] # NoRow
<1>1. CASE UNCHANGED <<rows, byStatus>>
  BY <1>1, StoreStays DEF StoreTypeOK, Exists
<1>2. ASSUME NEW o \in Orders, NEW row \in Rows, Patches(o, row)
      PROVE  /\ rows' \in [Orders -> Rows \cup {NoRow}] /\ byStatus' \in [Statuses -> SUBSET Orders]
             /\ StatusIndexAgrees'
             /\ \A p \in Orders : Exists(p) => rows'[p] # NoRow
  <2>1. /\ rows' \in [Orders -> Rows \cup {NoRow}] /\ byStatus' \in [Statuses -> SUBSET Orders]
        /\ StatusIndexAgrees'
        /\ rows'[o] = row /\ \A p \in Orders \ {o} : rows'[p] = rows[p]
    BY <1>2, Updated DEF Patches
  <2>2. row # NoRow
    BY RowIsThere
  <2> QED
    BY <2>1, <2>2 DEF Exists
<1> QED
  BY <1>1, <1>2 DEF StoreStep

LEMMA Losing ==
  ASSUME AccountTypeOK, NEW o \in Orders, NEW kind \in Losses, Lose(o, kind)
  PROVE  lost' \in [Orders -> SUBSET Losses]
BY DEF AccountTypeOK, Lose

LEMMA PatchedRows ==
  ASSUME StoreTypeOK, NEW o \in Orders, Exists(o)
  PROVE  /\ rows[o] \in Rows /\ ClosedRow(o) \in Rows
         /\ \A s \in Statuses, p \in PStatuses, b \in Ids :
              /\ [rows[o] EXCEPT !.status = s, !.p_status = p, !.broker = b] \in Rows
              /\ [rows[o] EXCEPT !.status = s, !.p_status = p] \in Rows
              /\ [rows[o] EXCEPT !.p_status = p] \in Rows
         /\ \A n \in 0 .. MaxStops : [rows[o] EXCEPT !.stops = n] \in Rows
<1>1. rows[o] \in Rows
  BY DEF StoreTypeOK, Exists
<1>2. ClosedRow(o) \in Rows
  BY <1>1 DEF ClosedRow, Rows, Statuses, PStatuses
<1>3. ASSUME NEW s \in Statuses, NEW p \in PStatuses, NEW b \in Ids
      PROVE  /\ [rows[o] EXCEPT !.status = s, !.p_status = p, !.broker = b] \in Rows
             /\ [rows[o] EXCEPT !.status = s, !.p_status = p] \in Rows
             /\ [rows[o] EXCEPT !.p_status = p] \in Rows
  BY <1>1 DEF Rows
<1>4. ASSUME NEW n \in 0 .. MaxStops PROVE [rows[o] EXCEPT !.stops = n] \in Rows
  BY <1>1 DEF Rows
<1> QED
  BY <1>1, <1>2, <1>3, <1>4

LEMMA ResponseTyped ==
  ASSUME NEW r \in Responses
  PROVE  /\ r.of \in Orders /\ r.stops \in 0 .. MaxStops /\ r.filled \in BOOLEAN /\ r.ok \in BOOLEAN
         /\ AnsweredId(r) \in Ids /\ FilledStatus(r.of) \in {"filled", "primary_filled"}
BY DEF Responses, AnsweredId, FilledStatus, Ids, OrderId, PositionId

\* What a step of the response loop may change.
LEMMA ResponseStep ==
  ASSUME Typed, ResponseLoop
  PROVE  /\ StoreStep
         /\ lost' \in [Orders -> SUBSET Losses] /\ respAt' \in Ids \cup {NoId}
         /\ brokerIndex' \subseteq Ids /\ resps' \in Seq(Responses)
         /\ UNCHANGED <<requestIndex, accountVars, clientVars, faults, cmds, events, eventAt>>
<1>a. StoreTypeOK /\ AccountTypeOK /\ respAt \in Ids \cup {NoId}
  BY DEF Typed, TypeOK
<1>b. lost \in [Orders -> SUBSET Losses] /\ brokerIndex \subseteq Ids /\ resps \in Seq(Responses)
  BY <1>a DEF StoreTypeOK, AccountTypeOK
<1>1. CASE LinkAnswered
  BY <1>1, <1>b, <1>a DEF LinkAnswered, LinkBrokerId, StoreStep, streamVars
<1>2. ASSUME resps # <<>>, NEW r \in Responses, r = Head(resps),
             \/ DropResponse(r) \/ OpenSucceeded(r) \/ OpenFailed(r)
             \/ CloseSucceeded(r) \/ CloseFailed(r) \/ ModifyAnswered(r)
      PROVE  /\ StoreStep
             /\ lost' \in [Orders -> SUBSET Losses] /\ respAt' \in Ids \cup {NoId}
             /\ brokerIndex' \subseteq Ids /\ resps' \in Seq(Responses)
             /\ UNCHANGED <<requestIndex, accountVars, clientVars, faults, cmds, events, eventAt>>
  <2>1. TakeResponse(r)
    BY <1>2 DEF DropResponse, OpenSucceeded, OpenFailed, CloseSucceeded, CloseFailed,
                ModifyAnswered, Routed
  <2>2. resps' \in Seq(Responses)
    BY <1>b, <1>2, <2>1, TailIndexed DEF TakeResponse
  <2>3. UNCHANGED <<requestIndex, accountVars, clientVars, faults, cmds, events, eventAt>>
    BY <2>1 DEF TakeResponse
  <2>4. brokerIndex' \subseteq Ids
    BY <1>b, <1>2 DEF DropResponse, OpenSucceeded, OpenFailed, CloseSucceeded, CloseFailed,
                      ModifyAnswered, Routed
  <2>5. respAt' \in Ids \cup {NoId}
    BY <1>a, <1>2, ResponseTyped DEF DropResponse, OpenSucceeded, OpenFailed, CloseSucceeded,
                                     CloseFailed, ModifyAnswered
  <2>6. lost' \in [Orders -> SUBSET Losses]
    BY <1>a, <1>b, <1>2, ResponseTyped, Losing
       DEF DropResponse, OpenSucceeded, OpenFailed, CloseSucceeded, CloseFailed,
           ModifyAnswered, Routed, Losses
  <2>7. StoreStep
    <3>1. CASE DropResponse(r) \/ CloseFailed(r) \/ (ModifyAnswered(r) /\ ~ r.ok)
      BY <3>1 DEF DropResponse, CloseFailed, ModifyAnswered, StoreStep
    <3>2. CASE \/ OpenSucceeded(r) \/ OpenFailed(r) \/ CloseSucceeded(r)
               \/ ModifyAnswered(r) /\ r.ok
      <4>1. Exists(r.of)
        BY <3>2 DEF OpenSucceeded, OpenFailed, CloseSucceeded, ModifyAnswered, UpdateOrder
      <4>2. \E row \in Rows : UpdateOrder(r.of, row)
        BY <1>a, <3>2, <4>1, PatchedRows, ResponseTyped
           DEF OpenSucceeded, OpenFailed, CloseSucceeded, ModifyAnswered, Statuses, PStatuses
      <4> QED
        BY <4>2, ResponseTyped DEF StoreStep, Patches
    <3> QED
      BY <1>2, <3>1, <3>2
  <2> QED
    BY <2>2, <2>3, <2>4, <2>5, <2>6, <2>7
<1>3. resps # <<>> => Head(resps) \in Responses
  BY <1>b
<1> QED
  BY <1>1, <1>2, <1>3 DEF ResponseLoop

LEMMA ResponsesTyped ==
  ASSUME Typed, ResponseLoop, UNCHANGED requests PROVE Typed'
<1>1. /\ StoreStep
      /\ lost' \in [Orders -> SUBSET Losses] /\ respAt' \in Ids \cup {NoId}
      /\ brokerIndex' \subseteq Ids /\ resps' \in Seq(Responses)
      /\ UNCHANGED <<requestIndex, accountVars, clientVars, faults, cmds, events, eventAt>>
  BY ResponseStep
<1>2. StoreTypeOK /\ StatusIndexAgrees
  BY DEF Typed, TypeOK
<1>3. /\ rows' \in [Orders -> Rows \cup {NoRow}] /\ byStatus' \in [Statuses -> SUBSET Orders]
      /\ StatusIndexAgrees' /\ \A p \in Orders : Exists(p) => rows'[p] # NoRow
  BY <1>1, <1>2, StoreKept
<1>4. TypeOK'
  BY <1>1, <1>3 DEF Typed, TypeOK, StoreTypeOK, AccountTypeOK, accountVars, clientVars
<1> QED
  BY <1>1, <1>3, <1>4, ExistenceKept

-----------------------------------------------------------------------------

\* What a step of the event loop may change.
EventFrame ==
  /\ StoreStep
  /\ lost' \in [Orders -> SUBSET Losses] /\ brokerIndex' \subseteq Ids
  /\ cmds' \in Seq(Commands) /\ events' \in Seq(Events)
  /\ UNCHANGED <<requestIndex, accountVars, clientVars, faults, resps, respAt>>

LEMMA EventTaken ==
  ASSUME Typed, events # <<>>, NEW e \in Events, e = Head(events),
         \/ DropEvent(e) \/ PositionClosed(e) \/ PendingFilled(e)
         \/ PositionModified(e) \/ OrderCancelled(e) \/ ReadSnapshot(e)
  PROVE  EventFrame
<1>a. StoreTypeOK /\ AccountTypeOK
  BY DEF Typed, TypeOK
<1>b. /\ lost \in [Orders -> SUBSET Losses] /\ brokerIndex \subseteq Ids
      /\ cmds \in Seq(Commands) /\ events \in Seq(Events)
  BY <1>a DEF StoreTypeOK, AccountTypeOK
<1>1. /\ events' = Tail(events) /\ UNCHANGED <<brokerIndex, cmds>>
      /\ UNCHANGED <<requestIndex, accountVars, clientVars, faults, resps, respAt>>
  BY DEF DropEvent, PositionClosed, PendingFilled, PositionModified, OrderCancelled, ReadSnapshot,
         Known, TakeEvent, EventUnchanged
<1>2. events' \in Seq(Events)
  BY <1>b, <1>1, TailIndexed
<1>3. CASE ReadSnapshot(e)
  BY <1>b, <1>1, <1>2, <1>3 DEF ReadSnapshot, StoreStep, EventFrame
<1>4. CASE ~ ReadSnapshot(e)
  <2>1. e.type # "reconcile_snapshot"
    BY <1>4 DEF DropEvent, PositionClosed, PendingFilled, PositionModified, OrderCancelled, Known
  <2>2. e \in OrderEvents /\ e.of \in Orders /\ e.stops \in 0 .. MaxStops
    BY <2>1, EventKinds
  <2>3. lost' \in [Orders -> SUBSET Losses]
    BY <1>a, <1>b, <1>4, <2>2, Losing
       DEF DropEvent, PositionClosed, PendingFilled, PositionModified, OrderCancelled, Known, Losses
  <2>4. CASE DropEvent(e)
    BY <1>b, <1>1, <1>2, <2>3, <2>4 DEF DropEvent, StoreStep, EventFrame
  <2>5. CASE ~ DropEvent(e)
    <3>1. Exists(e.of)
      BY <1>4, <2>5 DEF PositionClosed, PendingFilled, PositionModified, OrderCancelled, UpdateOrder
    <3>2. \E row \in Rows : UpdateOrder(e.of, row)
      BY <1>a, <1>4, <2>2, <2>5, <3>1, PatchedRows, SelfIds
         DEF PositionClosed, PendingFilled, PositionModified, OrderCancelled, Statuses, PStatuses
    <3> QED
      BY <1>b, <1>1, <1>2, <2>2, <2>3, <3>2 DEF StoreStep, Patches, EventFrame
  <2> QED
    BY <2>4, <2>5
<1> QED
  BY <1>3, <1>4

LEMMA ListedRows ==
  ASSUME StoreTypeOK, StatusIndexAgrees, NEW s \in Statuses
  PROVE  /\ ListByStatus(s) \subseteq Listed
         /\ \A l \in ListByStatus(s) : /\ Exists(l.of) /\ l.row = rows[l.of]
                                       /\ rows[l.of].status = s /\ l.of \in byStatus[s]
         /\ \A o \in byStatus[s] : \E l \in ListByStatus(s) : l.of = o
<1>1. ASSUME NEW o \in byStatus[s]
      PROVE  /\ o \in Orders /\ Exists(o) /\ rows[o].status = s /\ rows[o] \in Rows
             /\ [of |-> o, row |-> rows[o]] \in Listed
  BY DEF StoreTypeOK, StatusIndexAgrees, Exists, Listed
<1>2. ASSUME NEW l \in ListByStatus(s)
      PROVE  /\ l \in Listed /\ Exists(l.of) /\ l.row = rows[l.of]
             /\ rows[l.of].status = s /\ l.of \in byStatus[s]
  <2>1. PICK o \in byStatus[s] : l = [of |-> o, row |-> rows[o]]
    BY DEF ListByStatus
  <2> QED
    BY <1>1, <2>1
<1>3. ASSUME NEW o \in byStatus[s] PROVE \E l \in ListByStatus(s) : l.of = o
  <2>1. [of |-> o, row |-> rows[o]] \in ListByStatus(s)
    BY DEF ListByStatus
  <2> QED
    BY <2>1
<1> QED
  BY <1>2, <1>3

\* The asked-for row of the order store, and what becomes of it.
LEMMA DiffStep ==
  ASSUME Typed, eventAt.at = "diff", NEW l \in eventAt.found, DiffRow(l)
  PROVE  /\ l \in Listed /\ l.of \in Orders /\ Exists(l.of)
         /\ StoreStep /\ cmds' \in Seq(Commands)
         /\ FetchHistory(l.of) \in Commands
         /\ cmds' = cmds \/ cmds' = Append(cmds, FetchHistory(l.of))
<1>a. StoreTypeOK /\ AccountTypeOK /\ eventAt \in EventStages
  BY DEF Typed, TypeOK
<1>1. l \in Listed
  BY <1>a, Stages DEF DiffStages
<1>2. l.of \in Orders /\ Exists(l.of)
  BY <1>1 DEF Listed, Typed, FoundExist
<1>3. rows[l.of] \in Rows
  BY <1>a, <1>2 DEF StoreTypeOK, Exists
<1>4. FetchHistory(l.of) \in Commands
  <2>1. rows[l.of].order_type \in Types
    BY <1>3 DEF Rows
  <2>2. NoRequest \in 0 .. MaxRequests /\ 0 \in 0 .. MaxStops
    BY OrderAssumption DEF NoRequest
  <2> QED
    BY <1>2, <2>1, <2>2 DEF FetchHistory, Commands, Actions
<1>5. cmds' = cmds \/ cmds' = Append(cmds, FetchHistory(l.of))
  BY DEF DiffRow
<1>6. cmds' \in Seq(Commands)
  <2>1. cmds \in Seq(Commands)
    BY <1>a DEF AccountTypeOK
  <2> QED
    BY <1>4, <1>5, <2>1, AppendIndexed
<1>7. StoreStep
  <2>1. CASE UNCHANGED <<rows, byStatus>>
    BY <2>1 DEF StoreStep
  <2>2. CASE UpdateOrder(l.of, [rows[l.of] EXCEPT !.p_status = "unknown"])
    <3>1. [rows[l.of] EXCEPT !.p_status = "unknown"] \in Rows
      BY <1>3 DEF Rows, PStatuses
    <3> QED
      BY <1>2, <2>2, <3>1 DEF StoreStep, Patches
  <2> QED
    BY <2>1, <2>2 DEF DiffRow
<1> QED
  BY <1>1, <1>2, <1>4, <1>5, <1>6, <1>7

LEMMA EventContinued ==
  ASSUME Typed, ForgetOrderId \/ LinkPosition \/ DropOrderId \/ Reconcile
  PROVE  EventFrame /\ UNCHANGED <<events, lost>>
<1>a. StoreTypeOK /\ AccountTypeOK /\ eventAt \in EventStages
  BY DEF Typed, TypeOK
<1>b. /\ lost \in [Orders -> SUBSET Losses] /\ brokerIndex \subseteq Ids
      /\ cmds \in Seq(Commands) /\ events \in Seq(Events)
  BY <1>a DEF StoreTypeOK, AccountTypeOK
<1>1. EventStep
  BY DEF ForgetOrderId, LinkPosition, DropOrderId, Reconcile, ListOpen, BeginDiff, Diff
<1>2. /\ UNCHANGED <<events, lost>> 
      /\ UNCHANGED <<requestIndex, accountVars, clientVars, faults, resps, respAt>>
  BY <1>1 DEF EventStep, EventUnchanged
<1>3. brokerIndex' \subseteq Ids
  <2>1. eventAt.at = "link" => PositionId(eventAt.of) \in Ids
    BY <1>a, Stages, SelfIds
  <2> QED
    BY <1>b, <2>1 DEF ForgetOrderId, LinkPosition, DropOrderId, Reconcile, ListOpen, BeginDiff, Diff,
                      LinkBrokerId, UnlinkBrokerId
<1>4. StoreStep /\ cmds' \in Seq(Commands)
  <2>1. CASE UNCHANGED <<rows, byStatus, cmds>>
    BY <1>b, <2>1 DEF StoreStep
  <2>2. ASSUME eventAt.at = "diff", NEW l \in eventAt.found, DiffRow(l)
        PROVE  StoreStep /\ cmds' \in Seq(Commands)
    BY <2>2, DiffStep
  <2> QED
    BY <2>1, <2>2 DEF ForgetOrderId, LinkPosition, DropOrderId, Reconcile, ListOpen, BeginDiff, Diff
<1> QED
  BY <1>b, <1>2, <1>3, <1>4 DEF EventFrame

\* The stage of the event loop stays one.
StageTyped ==
  /\ eventAt' \in EventStages
  /\ eventAt'.at \in {"list", "diff"} =>
       \A l \in eventAt'.found : \/ Exists(l.of)
                                 \/ eventAt.at \in {"list", "diff"} /\ l \in eventAt.found
  /\ eventAt'.at = "list" =>
       \A o \in eventAt'.owed : \/ Exists(o)
                                \/ eventAt.at = "list" /\ o \in eventAt.owed

LEMMA ListOpenStage ==
  ASSUME Typed, ListOpen
  PROVE  /\ eventAt'.at = "list" /\ eventAt.left \in {1, 2} /\ eventAt'.left = eventAt.left - 1
         /\ eventAt'.owed = eventAt.owed \cap OpenOrders
         /\ eventAt.left = 2 => eventAt'.found = eventAt.found \cup ListByStatus("pending")
         /\ eventAt.left = 1 => eventAt'.found = eventAt.found \cup ListByStatus("filled")
         /\ eventAt' \in ListStages
<1>1. eventAt \in ListStages /\ eventAt.left > 0
  BY Stages DEF Typed, TypeOK, ListOpen
<1>2. eventAt.left \in {1, 2}
  BY <1>1 DEF ListStages
<1>3. /\ OpenStatuses[1] = "pending" /\ OpenStatuses[2] = "filled" /\ Len(OpenStatuses) = 2
  BY DEF OpenStatuses
<1>4. PICK s \in {"pending", "filled"} :
        /\ s = OpenStatuses[Len(OpenStatuses) + 1 - eventAt.left]
        /\ s = "pending" <=> eventAt.left = 2
  BY <1>2, <1>3
<1>5. eventAt' = [eventAt EXCEPT !.left = @ - 1, !.found = @ \cup ListByStatus(s),
                                 !.owed = @ \cap OpenOrders]
  BY <1>4 DEF ListOpen
<1>6. ListByStatus(s) \subseteq Listed
  BY ListedRows DEF Typed, TypeOK, Statuses
<1>7. /\ eventAt'.at = "list" /\ eventAt'.left = eventAt.left - 1
      /\ eventAt'.found = eventAt.found \cup ListByStatus(s)
      /\ eventAt'.owed = eventAt.owed \cap OpenOrders
      /\ eventAt' \in ListStages
  <2>1. /\ eventAt'.at = "list" /\ eventAt'.left = eventAt.left - 1
        /\ eventAt'.found = eventAt.found \cup ListByStatus(s)
        /\ eventAt'.owed = eventAt.owed \cap OpenOrders
        /\ eventAt'.open = eventAt.open /\ eventAt'.working = eventAt.working
    BY <1>1, <1>5 DEF ListStages
  <2>2. eventAt.left - 1 \in 0 .. 2
    BY <1>2
  <2>3. eventAt.found \cup ListByStatus(s) \in SUBSET Listed
    BY <1>1, <1>6 DEF ListStages
  <2>4. eventAt.owed \cap OpenOrders \in SUBSET Orders
    BY <1>1 DEF ListStages
  <2>5. eventAt' \in ListStages
    <3> HIDE DEF OpenOrders, ListByStatus
    <3> QED
      BY <1>1, <1>5, <2>2, <2>3, <2>4 DEF ListStages
  <2> QED
    BY <2>1, <2>5
<1>8. CASE s = "pending"
  BY <1>2, <1>4, <1>7, <1>8
<1>9. CASE s = "filled"
  BY <1>2, <1>4, <1>7, <1>9
<1> QED
  BY <1>8, <1>9

LEMMA StagesStay ==
  ASSUME Typed, EventLoop PROVE StageTyped
<1>a. StoreTypeOK /\ AccountTypeOK /\ StatusIndexAgrees /\ eventAt \in EventStages
      /\ events \in Seq(Events)
  BY DEF Typed, TypeOK, AccountTypeOK
<1>1. ASSUME eventAt' = eventAt PROVE StageTyped
  BY <1>a, <1>1 DEF StageTyped
<1>2. ASSUME NEW o \in Orders, NEW at \in {"unlink", "link", "drop"},
             eventAt' = [at |-> at, of |-> o]
      PROVE  StageTyped
  BY <1>2, Stages DEF StageTyped
<1>3. ASSUME eventAt' = IdleEvent PROVE StageTyped
  BY <1>3, Stages DEF StageTyped
<1>4. ASSUME events # <<>>, NEW e \in Events,
             \/ DropEvent(e) \/ PositionClosed(e) \/ PendingFilled(e)
             \/ PositionModified(e) \/ OrderCancelled(e)
      PROVE  StageTyped
  <2>1. e.of \in Orders
    BY <1>4, EventKinds DEF DropEvent, PositionClosed, PendingFilled, PositionModified,
                            OrderCancelled, Known
  <2> QED
    BY <1>1, <1>2, <1>4, <2>1
       DEF DropEvent, PositionClosed, PendingFilled, PositionModified, OrderCancelled
<1>5. ASSUME NEW e \in Events, ReadSnapshot(e) PROVE StageTyped
  <2>1. e.open \subseteq Orders /\ e.working \subseteq Orders
    BY <1>5, EventKinds DEF ReadSnapshot, TakeEvent
  <2>2. /\ eventAt' = [at |-> "list", left |-> Len(OpenStatuses), found |-> {},
                       owed |-> OpenOrders, open |-> e.open, working |-> e.working]
        /\ Len(OpenStatuses) = 2 /\ OpenOrders \subseteq Orders
    BY <1>5 DEF ReadSnapshot, OpenStatuses, OpenOrders
  <2>3. \A o \in OpenOrders : Exists(o)
    BY <1>a DEF OpenOrders, OpenStatuses, StatusIndexAgrees, Statuses
  <2>4. eventAt' \in ListStages /\ eventAt'.found = {} /\ eventAt'.owed = OpenOrders
    BY <2>1, <2>2 DEF ListStages
  <2> QED
    BY <2>3, <2>4, Stages DEF StageTyped
<1>6. ASSUME ListOpen PROVE StageTyped
  <2>1. PICK s \in Statuses : eventAt'.found = eventAt.found \cup ListByStatus(s)
    BY <1>6, ListOpenStage DEF Statuses
  <2>2. \A l \in ListByStatus(s) : Exists(l.of)
    BY <1>a, ListedRows
  <2>3. eventAt.at = "list"
    BY <1>6 DEF ListOpen
  <2> QED
    BY <1>6, <2>1, <2>2, <2>3, ListOpenStage, Stages DEF StageTyped
<1>7. ASSUME BeginDiff PROVE StageTyped
  <2>1. eventAt \in ListStages
    BY <1>a, <1>7, Stages DEF BeginDiff
  <2>2. eventAt' \in DiffStages /\ eventAt'.at = "diff" /\ eventAt'.found = eventAt.found
        /\ eventAt.at = "list"
    BY <1>7, <2>1 DEF BeginDiff, DiffStages, ListStages
  <2> QED
    BY <2>2, Stages DEF StageTyped
<1>8. ASSUME eventAt.at = "diff", NEW l \in eventAt.found, DiffRow(l) PROVE StageTyped
  <2>1. eventAt \in DiffStages /\ eventAt' = [eventAt EXCEPT !.found = @ \ {l}]
    BY <1>a, <1>8, Stages DEF DiffRow
  <2>2. eventAt' \in DiffStages /\ eventAt'.at = "diff" /\ eventAt'.found \subseteq eventAt.found
    BY <2>1 DEF DiffStages
  <2> QED
    BY <1>8, <2>2, Stages DEF StageTyped
<1>9. ASSUME ForgetOrderId PROVE StageTyped
  <2>1. eventAt \in [at : {"unlink", "link", "drop"}, of : Orders]
    BY <1>a, <1>9, Stages DEF ForgetOrderId, ListStages, DiffStages
  <2>2. eventAt' \in [at : {"unlink", "link", "drop"}, of : Orders] /\ eventAt'.at = "link"
    BY <1>9, <2>1 DEF ForgetOrderId
  <2> QED
    BY <2>2, Stages DEF StageTyped
<1>10. events # <<>> => Head(events) \in Events
  BY <1>a
<1> QED
  BY <1>3, <1>4, <1>5, <1>6, <1>7, <1>8, <1>9, <1>10
     DEF EventLoop, LinkPosition, DropOrderId, Reconcile, Diff

LEMMA EventsTyped ==
  ASSUME Typed, EventLoop, UNCHANGED requests PROVE Typed'
<1>1. EventFrame
  <2>1. events # <<>> => Head(events) \in Events
    BY DEF Typed, TypeOK, AccountTypeOK
  <2> QED
    BY <2>1, EventTaken, EventContinued DEF EventLoop
<1>2. StoreTypeOK /\ StatusIndexAgrees
  BY DEF Typed, TypeOK
<1>3. /\ rows' \in [Orders -> Rows \cup {NoRow}] /\ byStatus' \in [Statuses -> SUBSET Orders]
      /\ StatusIndexAgrees' /\ \A p \in Orders : Exists(p) => rows'[p] # NoRow
  BY <1>1, <1>2, StoreKept DEF EventFrame
<1>4. StageTyped
  BY StagesStay
<1>5. TypeOK'
  BY <1>1, <1>3, <1>4
     DEF Typed, TypeOK, StoreTypeOK, AccountTypeOK, accountVars, clientVars, EventFrame, StageTyped
<1>6. eventAt'.at \in {"list", "diff"} =>
        \A l \in eventAt'.found : \/ rows'[l.of] # NoRow
                                  \/ eventAt.at \in {"list", "diff"} /\ l \in eventAt.found
  <2> SUFFICES ASSUME eventAt'.at \in {"list", "diff"}, NEW l \in eventAt'.found
               PROVE  \/ rows'[l.of] # NoRow
                      \/ eventAt.at \in {"list", "diff"} /\ l \in eventAt.found
    OBVIOUS
  <2>1. l.of \in Orders
    BY <1>5, Stages DEF TypeOK, ListStages, DiffStages, Listed
  <2> QED
    BY <1>3, <1>4, <2>1 DEF StageTyped
<1>7. eventAt'.at = "list" =>
        \A o \in eventAt'.owed : \/ rows'[o] # NoRow
                                 \/ eventAt.at = "list" /\ o \in eventAt.owed
  <2> SUFFICES ASSUME eventAt'.at = "list", NEW o \in eventAt'.owed
               PROVE  \/ rows'[o] # NoRow
                      \/ eventAt.at = "list" /\ o \in eventAt.owed
    OBVIOUS
  <2>1. o \in Orders
    BY <1>5, Stages DEF TypeOK, ListStages
  <2> QED
    BY <1>3, <1>4, <2>1 DEF StageTyped
<1>8. \A i \in DOMAIN requests' : i \in DOMAIN requests /\ requests'[i].of = requests[i].of
  OBVIOUS
<1> QED
  BY <1>3, <1>5, <1>6, <1>7, <1>8, ExistenceKept

-----------------------------------------------------------------------------

\* What moves without the server's rows is typed by its own variables.
LEMMA OutsideTyped ==
  ASSUME Typed, AccountTypeOK', UNCHANGED <<storeVars, loopVars, requests>> PROVE Typed'
<1>1. TypeOK' /\ StatusIndexAgrees'
  BY DEF Typed, TypeOK, StoreTypeOK, storeVars, loopVars, StatusIndexAgrees, Exists
<1> QED
  BY <1>1 DEF Typed, RequestedExist, FoundExist, Exists, storeVars, loopVars

LEMMA AccountTyped ==
  ASSUME AccountTypeOK, Account PROVE AccountTypeOK'
<1>1. PICK o \in Orders : Trigger(o) \/ CancelAtBroker(o) \/ CloseAtBroker(o) \/ EditAtBroker(o)
  BY DEF Account
<1>a. /\ account \in [Orders -> [state : {"none", "working", "open", "closed", "cancelled"},
                                 stops : 0 .. MaxStops]]
      /\ events \in Seq(Events) /\ lost \in [Orders -> SUBSET Losses] /\ edits \in 0 .. MaxStops
  BY DEF AccountTypeOK
<1>b. UNCHANGED <<client, answer, effect, faults, cmds, resps>>
  BY <1>1 DEF Trigger, CancelAtBroker, CloseAtBroker, EditAtBroker, clientVars
<1>2. edits' \in 0 .. MaxStops
  BY <1>1, <1>a, OrderAssumption DEF Trigger, CancelAtBroker, CloseAtBroker, EditAtBroker
<1>3. account' \in [Orders -> [state : {"none", "working", "open", "closed", "cancelled"},
                               stops : 0 .. MaxStops]]
  BY <1>1, <1>a, <1>2 DEF Trigger, CancelAtBroker, CloseAtBroker, EditAtBroker
<1>4. PICK type \in {"position_closed", "pending_filled", "position_modified", "order_cancelled"},
           n \in 0 .. MaxStops :
        events' = events \/ events' = Append(events, OrderEvent(type, o, n))
  BY <1>1, <1>2, OrderAssumption DEF Trigger, CancelAtBroker, CloseAtBroker, EditAtBroker, Push
<1>5. events' \in Seq(Events)
  <2>1. OrderEvent(type, o, n) \in Events
    BY OrderEventTyped
  <2> QED
    BY <1>a, <1>4, <2>1, AppendIndexed
<1>6. lost' \in [Orders -> SUBSET Losses]
  BY <1>1, <1>a DEF Trigger, CancelAtBroker, CloseAtBroker, EditAtBroker, Push, Lose, Losses
<1> QED
  BY <1>b, <1>2, <1>3, <1>5, <1>6 DEF AccountTypeOK

LEMMA CommandTyped ==
  ASSUME NEW c \in Commands, NEW ok \in BOOLEAN, NEW filled \in BOOLEAN
  PROVE  /\ c.of \in Orders /\ c.stops \in 0 .. MaxStops /\ c.act \in Actions
         /\ Reply(c, ok, filled) \in Responses
         /\ c.act # "open" => Effect(c) \in OrderEvents
         /\ Effect(c) \in OrderEvents \cup {NoEffect}
BY OrderAssumption DEF Commands, Responses, Reply, Effect, OrderEvent, OrderEvents, NoEffect

LEMMA HandlingTyped ==
  ASSUME AccountTypeOK, cmds # <<>>, NEW c \in Commands,
         Executes(c) \/ Refuses(c) \/ ExecutesInDoubt(c) \/ FetchesHistory(c)
  PROVE  AccountTypeOK'
<1>a. /\ account \in [Orders -> [state : {"none", "working", "open", "closed", "cancelled"},
                                 stops : 0 .. MaxStops]]
      /\ cmds \in Seq(Commands) /\ lost \in [Orders -> SUBSET Losses]
      /\ effect \in OrderEvents \cup {NoEffect}
  BY DEF AccountTypeOK
<1>b. /\ UNCHANGED <<edits, client, faults, resps, events>> /\ cmds' = Tail(cmds)
  BY DEF Executes, Refuses, ExecutesInDoubt, FetchesHistory, Take
<1>1. cmds' \in Seq(Commands)
  BY <1>a, <1>b, TailIndexed
<1>2. answer' \in Responses \cup {NoAnswer}
  BY CommandTyped DEF Executes, Refuses, ExecutesInDoubt, FetchesHistory
<1>3. effect' \in OrderEvents \cup {NoEffect}
  BY <1>a, CommandTyped DEF Executes, Refuses, ExecutesInDoubt, FetchesHistory
<1>4. lost' \in [Orders -> SUBSET Losses]
  <2>1. lost' = lost \/ \E kind \in Losses : Lose(c.of, kind)
    BY DEF Executes, Refuses, ExecutesInDoubt, FetchesHistory, Losses
  <2> QED
    BY <1>a, <2>1, CommandTyped, Losing
<1>5. account' \in [Orders -> [state : {"none", "working", "open", "closed", "cancelled"},
                               stops : 0 .. MaxStops]]
  <2>1. c.of \in Orders /\ c.stops \in 0 .. MaxStops
    BY CommandTyped
  <2>2. CASE Performs(c)
    <3> DEFINE A == [state : {"none", "working", "open", "closed", "cancelled"},
                     stops : 0 .. MaxStops]
    <3>1. account[c.of] \in A
      BY <1>a, <2>1
    <3>2. \E a \in A : account' = [account EXCEPT ![c.of] = a]
      <4>1. /\ [state |-> Opened(c), stops |-> c.stops] \in A
            /\ [account[c.of] EXCEPT !.state = "closed"] \in A
            /\ [account[c.of] EXCEPT !.stops = c.stops] \in A
        BY <2>1, <3>1 DEF Opened
      <4> HIDE DEF A
      <4> QED
        BY <2>2, <4>1 DEF Performs
    <3> HIDE DEF A
    <3>3. account' \in [Orders -> A]
      BY <1>a, <2>1, <3>2 DEF A
    <3> QED
      BY <3>3 DEF A
  <2>3. CASE UNCHANGED account
    BY <1>a, <2>3
  <2> QED
    BY <2>2, <2>3 DEF Executes, Refuses, ExecutesInDoubt, FetchesHistory
<1> QED
  BY <1>b, <1>1, <1>2, <1>3, <1>4, <1>5 DEF AccountTypeOK

LEMMA ClientTyped ==
  ASSUME AccountTypeOK, Client PROVE AccountTypeOK'
<1>a. /\ account \in [Orders -> [state : {"none", "working", "open", "closed", "cancelled"},
                                 stops : 0 .. MaxStops]]
      /\ client \in [at : {"up", "down", "connected", "queried"}, snapshot : Snapshots]
      /\ answer \in Responses \cup {NoAnswer} /\ effect \in OrderEvents \cup {NoEffect}
      /\ cmds \in Seq(Commands) /\ resps \in Seq(Responses) /\ events \in Seq(Events)
      /\ edits \in 0 .. MaxStops /\ faults \in 0 .. MaxFaults
      /\ lost \in [Orders -> SUBSET Losses]
  BY DEF AccountTypeOK
<1>b. NoSnapshot \in Snapshots
  BY DEF NoSnapshot, Snapshots
<1>1. CASE HandleCommand
  <2>1. Head(cmds) \in Commands
    BY <1>a, <1>1 DEF HandleCommand
  <2> QED
    BY <1>1, <2>1, HandlingTyped DEF HandleCommand
<1>2. CASE PublishEffect
  <2>1. effect \in Events
    BY <1>a, <1>2 DEF PublishEffect, Events
  <2>2. events' \in Seq(Events)
    BY <1>a, <1>2, <2>1, AppendIndexed DEF PublishEffect
  <2> QED
    BY <1>a, <1>2, <2>2 DEF PublishEffect, AccountTypeOK, accountVars
<1>3. CASE Respond
  <2>1. answer \in Responses
    BY <1>a, <1>3 DEF Respond
  <2>2. resps' \in Seq(Responses)
    BY <1>a, <1>3, <2>1, AppendIndexed DEF Respond
  <2> QED
    BY <1>a, <1>3, <2>2 DEF Respond, AccountTypeOK, accountVars
<1>4. CASE GoDown
  <2>1. faults' \in 0 .. MaxFaults
    BY <1>a, <1>4, FaultAssumption DEF GoDown
  <2>2. lost' \in [Orders -> SUBSET Losses]
    BY <1>a, <1>4 DEF GoDown, Losses
  <2>3. client' \in [at : {"up", "down", "connected", "queried"}, snapshot : Snapshots]
    BY <1>b, <1>4 DEF GoDown
  <2> QED
    BY <1>a, <1>4, <2>1, <2>2, <2>3 DEF GoDown, AccountTypeOK, accountVars, streamVars
<1>5. CASE Connect
  <2>1. client' \in [at : {"up", "down", "connected", "queried"}, snapshot : Snapshots]
    BY <1>a, <1>5 DEF Connect
  <2> QED
    BY <1>a, <1>5, <2>1 DEF Connect, AccountTypeOK, accountVars, streamVars
<1>6. CASE QuerySnapshot
  <2>1. client' \in [at : {"up", "down", "connected", "queried"}, snapshot : Snapshots]
    BY <1>6 DEF QuerySnapshot, Snapshots, InState
  <2> QED
    BY <1>a, <1>6, <2>1 DEF QuerySnapshot, AccountTypeOK, accountVars, streamVars
<1>7. CASE PublishSnapshot
  <2> DEFINE e == [type |-> "reconcile_snapshot", open |-> client.snapshot.open,
                   working |-> client.snapshot.working]
  <2>1. e \in Events
    BY <1>a DEF Snapshots, Events
  <2>2. events' = Append(events, e)
    BY <1>7 DEF PublishSnapshot
  <2> HIDE DEF e
  <2>3. events' \in Seq(Events)
    BY <1>a, <2>1, <2>2, AppendIndexed
  <2>4. client' \in [at : {"up", "down", "connected", "queried"}, snapshot : Snapshots]
    BY <1>b, <1>7 DEF PublishSnapshot
  <2> QED
    BY <1>a, <1>7, <2>3, <2>4 DEF PublishSnapshot, AccountTypeOK, accountVars
<1>8. CASE SkipSnapshot
  <2>1. client' \in [at : {"up", "down", "connected", "queried"}, snapshot : Snapshots]
    BY <1>b, <1>8 DEF SkipSnapshot
  <2>2. lost' \in [Orders -> SUBSET Losses]
    BY <1>a, <1>8 DEF SkipSnapshot, Losses
  <2> QED
    BY <1>a, <1>8, <2>1, <2>2 DEF SkipSnapshot, AccountTypeOK, accountVars, streamVars
<1> QED
  BY <1>1, <1>2, <1>3, <1>4, <1>5, <1>6, <1>7, <1>8 DEF Client

LEMMA CrashTyped ==
  ASSUME Typed, Crash PROVE Typed'
<1>1. PICK read \in 0 .. Len(resps), seen \in 0 .. Len(events) : CrashOf(read, seen)
  BY DEF Crash
<1>a. AccountTypeOK /\ resps \in Seq(Responses) /\ events \in Seq(Events)
      /\ requests \in Seq(RequestRecords)
      /\ lost \in [Orders -> SUBSET Losses] /\ faults \in 0 .. MaxFaults
  BY DEF Typed, TypeOK, AccountTypeOK
<1>2. resps' \in Seq(Responses) /\ events' \in Seq(Events)
  BY <1>1, <1>a, CutIndexed DEF CrashOf
<1>3. faults' \in 0 .. MaxFaults
  BY <1>1, <1>a, FaultAssumption DEF CrashOf
<1>4. lost' \in [Orders -> SUBSET Losses]
  BY <1>1, <1>a DEF CrashOf, Losses
<1>5. /\ requests' \in Seq(RequestRecords) /\ Len(requests') = Len(requests)
      /\ \A i \in DOMAIN requests' : i \in DOMAIN requests /\ requests'[i].of = requests[i].of
  <2>1. requests' = [i \in DOMAIN requests |->
           IF requests[i].at \in {"stored", "pushed"} THEN [requests[i] EXCEPT !.at = "dead"]
           ELSE requests[i]]
    BY <1>1 DEF CrashOf
  <2>2. ASSUME NEW i \in DOMAIN requests
        PROVE  requests'[i] \in RequestRecords /\ requests'[i].of = requests[i].of
    <3>1. requests[i] \in RequestRecords
      BY <1>a
    <3> QED
      BY <2>1, <3>1 DEF RequestRecords, RequestStages
  <2>3. Len(requests) \in Nat /\ DOMAIN requests = 1 .. Len(requests)
    BY <1>a
  <2>4. requests' \in [1 .. Len(requests) -> RequestRecords]
    BY <2>1, <2>2, <2>3
  <2>5. requests' \in Seq(RequestRecords) /\ Len(requests') = Len(requests)
    BY <2>3, <2>4
  <2> QED
    BY <2>1, <2>2, <2>5
<1>6. StoreTypeOK' /\ StatusIndexAgrees' /\ UNCHANGED <<rows, byStatus>>
  BY <1>1 DEF CrashOf, storeVars, Typed, TypeOK, StoreTypeOK, StatusIndexAgrees, Exists
<1>7. AccountTypeOK'
  BY <1>1, <1>a, <1>2, <1>3, <1>4 DEF CrashOf, AccountTypeOK, accountVars, clientVars
<1>8. respAt' = NoId /\ eventAt' = IdleEvent
  BY <1>1 DEF CrashOf
<1>9. TypeOK'
  BY <1>5, <1>6, <1>7, <1>8, Stages DEF Typed, TypeOK
<1> QED
  BY <1>5, <1>6, <1>8, <1>9, Stages, ExistenceKept DEF Exists

LEMMA StepTyped ==
  ASSUME Typed, [Next]_vars PROVE Typed'
<1>1. CASE UNCHANGED vars
  <2>1. UNCHANGED <<storeVars, loopVars, requests>> /\ AccountTypeOK'
    BY <1>1 DEF vars, Typed, TypeOK, AccountTypeOK, accountVars, clientVars, streamVars
  <2> QED
    BY <2>1, OutsideTyped
<1>2. CASE Outside
  BY <1>2, AccountTyped, ClientTyped, OutsideTyped DEF Outside, Typed, TypeOK
<1> QED
  BY <1>1, <1>2, RequestsTyped, ResponsesTyped, EventsTyped, CrashTyped DEF Next, Loops

LEMMA InitTyped ==
  ASSUME Init PROVE Typed
<1>1. StoreTypeOK
  BY DEF Init, StoreInit, StoreTypeOK
<1>2. AccountTypeOK
  BY OrderAssumption, FaultAssumption
     DEF Init, AccountInit, AccountTypeOK, NoSnapshot, Snapshots
<1>3. /\ respAt = NoId /\ eventAt = IdleEvent /\ requests = <<>>
      /\ byStatus = [s \in Statuses |-> {}] /\ rows = [o \in Orders |-> NoRow]
  BY DEF Init, StoreInit, LoopInit
<1>4. TypeOK
  BY <1>1, <1>2, <1>3, Stages, OrderAssumption DEF TypeOK
<1>5. StatusIndexAgrees
  BY <1>3 DEF StatusIndexAgrees, Exists
<1> QED
  BY <1>3, <1>4, <1>5, Stages DEF Typed, RequestedExist, FoundExist

\* Every variable has its type.
THEOREM TypeCorrect == Spec => []TypeOK
<1>1. Init => Typed
  BY InitTyped
<1>2. Typed /\ [Next]_vars => Typed'
  BY StepTyped
<1>3. Typed => TypeOK
  BY DEF Typed
<1> QED
  BY <1>1, <1>2, <1>3, PTL DEF Spec

\* A reader of the status sets finds an order in the set of the status its
\* row has and in no other, whatever tasks have moved it meanwhile: the patch
\* of the row and the move between the sets are one script.
THEOREM StatusIndex == Spec => []StatusIndexAgrees
<1>1. Init => Typed
  BY InitTyped
<1>2. Typed /\ [Next]_vars => Typed'
  BY StepTyped
<1>3. Typed => StatusIndexAgrees
  BY DEF Typed
<1> QED
  BY <1>1, <1>2, <1>3, PTL DEF Spec

-----------------------------------------------------------------------------
(* Where the open of an order is, and what is under way of it.             *)

Of(S, act, o) == {c \in S : c.act = act /\ c.of = o}

StoredOf(o)     == {q \in RequestRecords : q.of = o /\ q.at = "stored"}
OpenRequests(o) == Of(RequestRecords, "open", o)
OpenCmds(o)     == Of(Commands, "open", o)
OpenResps(o)    == Of(Responses, "open", o)
Fills(o)        == {r \in OpenResps(o) : r.filled}
Refusals(o)     == {r \in OpenResps(o) : ~ r.ok}
EventsOf(o)     == {e \in OrderEvents : e.of = o}
LeavesOf(o)     == {e \in EventsOf(o) : e.type \in {"pending_filled", "order_cancelled"}}

Stored(o)   == Has(requests, StoredOf(o))
Sent(o)     == Has(cmds, OpenCmds(o))
Held(o)     == answer \in OpenResps(o)
Answered(o) == Has(resps, OpenResps(o))
Opening(o)  == Stored(o) \/ Sent(o) \/ Held(o) \/ Answered(o)

Filling(o)  == answer \in Fills(o) \/ Has(resps, Fills(o))
Refusing(o) == answer \in Refusals(o) \/ Has(resps, Refusals(o))
Closing(o)  ==
  \/ Has(cmds, Of(Commands, "close", o))
  \/ answer \in Of(Responses, "close", o)
  \/ Has(resps, Of(Responses, "close", o))
Told(o)     == Has(events, EventsOf(o))
Leaving(o)  == Has(events, LeavesOf(o))

State(o)    == account[o].state
Status(o)   == rows[o].status
Moving(o)   == eventAt.at \in {"unlink", "link"} /\ eventAt.of = o

\* Only the open of an order is stored before it is pushed.
StoredIsOpen ==
  \A i \in DOMAIN requests : requests[i].at = "stored" => requests[i].act = "open"

\* The open of an order is in one place, once.
OneOpen(o) ==
  /\ Stored(o) => ~ Sent(o) /\ ~ Held(o) /\ ~ Answered(o)
  /\ Sent(o) => ~ Held(o) /\ ~ Answered(o)
  /\ Held(o) => ~ Answered(o)
  /\ HasOnce(requests, OpenRequests(o)) /\ HasOnce(cmds, OpenCmds(o))
  /\ HasOnce(resps, OpenResps(o))

\* Until its open is answered, the row of an order is as create_order left it.
FreshWhileOpening(o) ==
  Opening(o) =>
    /\ Status(o) = "pending" /\ rows[o].broker = NoId
    /\ {OrderId(o), PositionId(o)} \cap (brokerIndex \cup {respAt}) = {}

\* The account moves with the open, and its events tell of it.
NothingBeforeOpen(o) ==
  /\ State(o) # "none" => Status(o) \in Statuses /\ ~ Stored(o) /\ ~ Sent(o)
  /\ Told(o) \/ effect \in EventsOf(o) => State(o) # "none"

\* A waiting order leaves its state once, and its row still says that it waits
\* when the event of this comes.
LeavesOnce(o) ==
  /\ HasOnce(events, LeavesOf(o)) /\ effect \notin LeavesOf(o)
  /\ State(o) = "working" => Status(o) \in {"pending", "rejected"}
  /\ Leaving(o) => State(o) \in {"open", "closed", "cancelled"} /\ Status(o) \in {"pending", "rejected"}

\* An open that is answered as filled never waited.
FilledAtOnce(o) == Filling(o) => State(o) \in {"open", "closed"} /\ ~ Leaving(o)

\* What is linked to a position was filled, what is linked to a waiting order
\* was accepted.
LinkedWasAccepted(o) ==
  /\ PositionId(o) \in brokerIndex \cup {respAt} \/ Moving(o) =>
       Status(o) \in {"filled", "primary_filled", "closed"}
  /\ OrderId(o) \in brokerIndex \cup {respAt} =>
       Status(o) \in {"pending", "filled", "closed", "cancelled"}

\* A close is asked for, and answered, for an order that was filled.
ClosesFilled(o) == Closing(o) => Status(o) \in {"filled", "closed"}

\* The id an index entry leads by is the one in the row, or the waiting order's
\* while it is being replaced; or a crash cut this short.
IndexFollowsRow(o) ==
  /\ PositionId(o) \in brokerIndex => rows[o].broker = PositionId(o)
  /\ OrderId(o) \in brokerIndex =>
       rows[o].broker = OrderId(o) \/ eventAt = [at |-> "unlink", of |-> o] \/ "crash" \in lost[o]
  /\ respAt \in {OrderId(o), PositionId(o)} => rows[o].broker = respAt /\ respAt \notin brokerIndex
  /\ Moving(o) => rows[o].broker = PositionId(o) /\ respAt \notin {OrderId(o), PositionId(o)}

\* A refused open left nothing at the broker, unless it came back in doubt.
RefusedIsNone(o) ==
  "doubt" \notin lost[o] /\ (Status(o) = "rejected" \/ Refusing(o)) => State(o) = "none"

OrderInv(o) ==
  /\ OneOpen(o) /\ FreshWhileOpening(o) /\ NothingBeforeOpen(o) /\ LeavesOnce(o) /\ FilledAtOnce(o)
  /\ LinkedWasAccepted(o) /\ ClosesFilled(o) /\ IndexFollowsRow(o) /\ RefusedIsNone(o)

\* An order that is open all the time is read under one of the two statuses.
ReadUnderEither ==
  eventAt.at = "list" =>
    \A o \in eventAt.owed :
      /\ eventAt.left = 1 => Status(o) # "pending" \/ \E l \in eventAt.found : l.of = o
      /\ eventAt.left = 0 => \E l \in eventAt.found : l.of = o

Inv == Typed /\ StoredIsOpen /\ (\A o \in Orders : OrderInv(o)) /\ ReadUnderEither

-----------------------------------------------------------------------------
(* What a step leaves alone of an order.                                   *)

RowKept(o)   == Status(o)' = Status(o) /\ rows'[o].broker = rows[o].broker
StateKept(o) == State(o)' = State(o)

LinksKept(o) ==
  /\ \A id \in {OrderId(o), PositionId(o)} : id \in brokerIndex' => id \in brokerIndex
  /\ respAt' \in {OrderId(o), PositionId(o)} => respAt' = respAt
  /\ Moving(o)' => Moving(o)
  /\ eventAt = [at |-> "unlink", of |-> o] =>
       eventAt' = eventAt \/ "crash" \in lost'[o] \/ OrderId(o) \notin brokerIndex'

LossesKept(o) == lost[o] \subseteq lost'[o]

RequestsKept(o) ==
  /\ Stored(o)' => Stored(o)
  /\ HasOnce(requests, OpenRequests(o)) => HasOnce(requests', OpenRequests(o))

PlacesKept(o) ==
  /\ Sent(o)' => Sent(o)
  /\ Held(o)' => Held(o)
  /\ Answered(o)' => Answered(o)
  /\ HasOnce(cmds, OpenCmds(o)) => HasOnce(cmds', OpenCmds(o))
  /\ HasOnce(resps, OpenResps(o)) => HasOnce(resps', OpenResps(o))

AnswersKept(o) ==
  /\ PlacesKept(o)
  /\ Filling(o)' => Filling(o)
  /\ Refusing(o)' => Refusing(o)
  /\ Closing(o)' => Closing(o)

EventsKept(o) ==
  /\ Told(o)' => Told(o)
  /\ Leaving(o)' => Leaving(o)
  /\ HasOnce(events, LeavesOf(o)) => HasOnce(events', LeavesOf(o))
  /\ effect' \in EventsOf(o) => effect \in EventsOf(o)
  /\ effect' \in LeavesOf(o) => effect \in LeavesOf(o)

Kept(o) ==
  /\ RowKept(o) /\ StateKept(o) /\ LinksKept(o) /\ LossesKept(o)
  /\ RequestsKept(o) /\ AnswersKept(o) /\ EventsKept(o)

LEMMA LeavesAre ==
  ASSUME NEW o \in Orders
  PROVE  /\ LeavesOf(o) \subseteq EventsOf(o)
         /\ \A e \in EventsOf(o) : e # NoEffect
         /\ \A e : e \in LeavesOf(o) <=>
                     e \in EventsOf(o) /\ e.type \in {"pending_filled", "order_cancelled"}
BY DEF LeavesOf, EventsOf, OrderEvents, NoEffect

\* Each part of what holds of an order depends on few things.
LEMMA PartsKept ==
  ASSUME NEW o \in Orders, OrderInv(o)
  PROVE  /\ RequestsKept(o) /\ PlacesKept(o) => OneOpen(o)'
         /\ RequestsKept(o) /\ PlacesKept(o) /\ RowKept(o) /\ LinksKept(o) => FreshWhileOpening(o)'
         /\ RowKept(o) /\ StateKept(o) /\ RequestsKept(o) /\ PlacesKept(o) /\ EventsKept(o) =>
              NothingBeforeOpen(o)'
         /\ RowKept(o) /\ StateKept(o) /\ EventsKept(o) => LeavesOnce(o)'
         /\ StateKept(o) /\ EventsKept(o) /\ (Filling(o)' => Filling(o)) => FilledAtOnce(o)'
         /\ RowKept(o) /\ LinksKept(o) => LinkedWasAccepted(o)'
         /\ RowKept(o) /\ (Closing(o)' => Closing(o)) => ClosesFilled(o)'
         /\ RowKept(o) /\ LinksKept(o) /\ LossesKept(o) => IndexFollowsRow(o)'
         /\ RowKept(o) /\ StateKept(o) /\ LossesKept(o) /\ (Refusing(o)' => Refusing(o)) =>
              RefusedIsNone(o)'
<1> USE DEF OrderInv
<1>1. RequestsKept(o) /\ PlacesKept(o) => OneOpen(o)'
  BY DEF OneOpen, RequestsKept, PlacesKept
<1>2. RequestsKept(o) /\ PlacesKept(o) /\ RowKept(o) /\ LinksKept(o) => FreshWhileOpening(o)'
  <2>1. RequestsKept(o) /\ PlacesKept(o) => (Opening(o)' => Opening(o))
    BY DEF Opening, RequestsKept, PlacesKept
  <2> QED
    BY <2>1 DEF FreshWhileOpening, RowKept, LinksKept
<1>3. RowKept(o) /\ StateKept(o) /\ RequestsKept(o) /\ PlacesKept(o) /\ EventsKept(o) =>
        NothingBeforeOpen(o)'
  BY DEF NothingBeforeOpen, RowKept, StateKept, RequestsKept, PlacesKept, EventsKept
<1>4. RowKept(o) /\ StateKept(o) /\ EventsKept(o) => LeavesOnce(o)'
  BY DEF LeavesOnce, RowKept, StateKept, EventsKept
<1>5. StateKept(o) /\ EventsKept(o) /\ (Filling(o)' => Filling(o)) => FilledAtOnce(o)'
  BY DEF FilledAtOnce, StateKept, EventsKept
<1>6. RowKept(o) /\ LinksKept(o) => LinkedWasAccepted(o)'
  BY DEF LinkedWasAccepted, RowKept, LinksKept
<1>7. RowKept(o) /\ (Closing(o)' => Closing(o)) => ClosesFilled(o)'
  BY DEF ClosesFilled, RowKept
<1>8. RowKept(o) /\ LinksKept(o) /\ LossesKept(o) => IndexFollowsRow(o)'
  BY DEF IndexFollowsRow, RowKept, LinksKept, LossesKept
<1>9. RowKept(o) /\ StateKept(o) /\ LossesKept(o) /\ (Refusing(o)' => Refusing(o)) =>
        RefusedIsNone(o)'
  BY DEF RefusedIsNone, RowKept, StateKept, LossesKept
<1> QED
  BY <1>1, <1>2, <1>3, <1>4, <1>5, <1>6, <1>7, <1>8, <1>9

\* A step that leaves the order alone, or tells less of it, keeps what holds
\* of it.
LEMMA KeptKeeps ==
  ASSUME NEW o \in Orders, OrderInv(o), Kept(o) PROVE OrderInv(o)'
BY PartsKept DEF Kept, AnswersKept, OrderInv

\* Nothing that a part of the state tells changes with the other parts.
LEMMA Untouched ==
  ASSUME NEW o \in Orders
  PROVE  /\ UNCHANGED rows => RowKept(o)
         /\ UNCHANGED account => StateKept(o)
         /\ UNCHANGED <<brokerIndex, loopVars>> => LinksKept(o)
         /\ UNCHANGED lost => LossesKept(o)
         /\ UNCHANGED requests => RequestsKept(o)
         /\ UNCHANGED <<cmds, answer, resps>> => AnswersKept(o)
         /\ UNCHANGED <<events, effect>> => EventsKept(o)
<1>1. UNCHANGED rows => RowKept(o)
  BY DEF RowKept, Status
<1>2. UNCHANGED account => StateKept(o)
  BY DEF StateKept, State
<1>3. UNCHANGED <<brokerIndex, loopVars>> => LinksKept(o)
  BY DEF LinksKept, Moving, loopVars
<1>4. UNCHANGED lost => LossesKept(o)
  BY DEF LossesKept
<1>5. UNCHANGED requests => RequestsKept(o)
  BY DEF RequestsKept, Stored
<1>6. UNCHANGED <<cmds, answer, resps>> => AnswersKept(o)
  BY DEF AnswersKept, PlacesKept, Sent, Held, Answered, Filling, Refusing, Closing
<1>7. UNCHANGED <<events, effect>> => EventsKept(o)
  BY DEF EventsKept, Told, Leaving
<1> QED
  BY <1>1, <1>2, <1>3, <1>4, <1>5, <1>6, <1>7

LEMMA LoseKeeps ==
  ASSUME AccountTypeOK, NEW p \in Orders, NEW kind, Lose(p, kind), NEW o \in Orders
  PROVE  LossesKept(o)
BY DEF LossesKept, Lose, AccountTypeOK

\* A command is written.
LEMMA CommandWritten ==
  ASSUME AccountTypeOK, NEW c \in Commands, cmds' = Append(cmds, c), UNCHANGED <<answer, resps>>,
         NEW o \in Orders
  PROVE  /\ c \notin OpenCmds(o) /\ c \notin Of(Commands, "close", o) => AnswersKept(o)
         /\ Sent(o)' <=> Sent(o) \/ c \in OpenCmds(o)
         /\ (Held(o)' <=> Held(o)) /\ (Answered(o)' <=> Answered(o))
         /\ HasOnce(cmds, OpenCmds(o)) /\ (c \in OpenCmds(o) => ~ Sent(o)) =>
              HasOnce(cmds', OpenCmds(o))
         /\ HasOnce(resps, OpenResps(o)) => HasOnce(resps', OpenResps(o))
         /\ (Filling(o)' <=> Filling(o)) /\ (Refusing(o)' <=> Refusing(o))
         /\ Closing(o)' <=> Closing(o) \/ c \in Of(Commands, "close", o)
<1>1. cmds \in Seq(Commands)
  BY DEF AccountTypeOK
<1>2. /\ Has(cmds', OpenCmds(o)) <=> Has(cmds, OpenCmds(o)) \/ c \in OpenCmds(o)
      /\ HasOnce(cmds, OpenCmds(o)) /\ (c \in OpenCmds(o) => ~ Has(cmds, OpenCmds(o))) =>
           HasOnce(cmds', OpenCmds(o))
  BY <1>1, AppendHas
<1>3. Has(cmds', Of(Commands, "close", o)) <=>
        Has(cmds, Of(Commands, "close", o)) \/ c \in Of(Commands, "close", o)
  BY <1>1, AppendHas
<1> QED
  BY <1>2, <1>3 DEF AnswersKept, PlacesKept, Sent, Held, Answered, Filling, Refusing, Closing

\* A request is stored.
LEMMA RequestWritten ==
  ASSUME requests \in Seq(RequestRecords), NEW q \in RequestRecords,
         requests' = Append(requests, q), NEW o \in Orders
  PROVE  /\ q \notin StoredOf(o) /\ q \notin OpenRequests(o) => RequestsKept(o)
         /\ Stored(o)' <=> Stored(o) \/ q \in StoredOf(o)
         /\ HasOnce(requests, OpenRequests(o))
              /\ (q \in OpenRequests(o) => ~ Has(requests, OpenRequests(o))) =>
              HasOnce(requests', OpenRequests(o))
<1>1. Has(requests', StoredOf(o)) <=> Has(requests, StoredOf(o)) \/ q \in StoredOf(o)
  BY AppendHas
<1>2. HasOnce(requests, OpenRequests(o))
        /\ (q \in OpenRequests(o) => ~ Has(requests, OpenRequests(o))) =>
        HasOnce(requests', OpenRequests(o))
  BY AppendHas
<1> QED
  BY <1>1, <1>2 DEF RequestsKept, Stored

-----------------------------------------------------------------------------
(* The operator's requests.                                                *)

\* What an order without a row has not got.
LEMMA NothingYet ==
  ASSUME Typed, NEW o \in Orders, OrderInv(o), ~ Exists(o)
  PROVE  /\ Status(o) = "none" /\ ~ Opening(o) /\ State(o) = "none"
         /\ ~ Told(o) /\ effect \notin EventsOf(o) /\ ~ Leaving(o)
         /\ ~ Filling(o) /\ ~ Refusing(o) /\ ~ Closing(o) /\ ~ Moving(o)
         /\ {OrderId(o), PositionId(o)} \cap (brokerIndex \cup {respAt}) = {}
         /\ ~ Has(requests, OpenRequests(o))
<1>1. Status(o) = "none" /\ Status(o) \notin Statuses
  BY DEF Exists, Status, NoRow, Statuses
<1>2. ~ Opening(o)
  BY <1>1 DEF OrderInv, FreshWhileOpening
<1>3. State(o) = "none"
  BY <1>1 DEF OrderInv, NothingBeforeOpen
<1>4. ~ Told(o) /\ effect \notin EventsOf(o) /\ ~ Leaving(o)
  BY <1>3 DEF OrderInv, NothingBeforeOpen, LeavesOnce
<1>5. ~ Filling(o) /\ ~ Closing(o) /\ ~ Moving(o)
  BY <1>1, <1>3 DEF OrderInv, FilledAtOnce, ClosesFilled, LinkedWasAccepted
<1>6. ~ Refusing(o)
  <2>1. Refusing(o) => Held(o) \/ Answered(o)
    BY DEF Refusing, Refusals, Held, Answered, Has
  <2> QED
    BY <1>2, <2>1 DEF Opening
<1>7. {OrderId(o), PositionId(o)} \cap (brokerIndex \cup {respAt}) = {}
  BY <1>1 DEF OrderInv, LinkedWasAccepted
<1>8. ~ Has(requests, OpenRequests(o))
  BY DEF Typed, RequestedExist, Has, OpenRequests, Of
<1> QED
  BY <1>1, <1>2, <1>3, <1>4, <1>5, <1>6, <1>7, <1>8

LEMMA CreateKeeps ==
  ASSUME Typed, NEW p \in Orders, NEW type \in Types, Create(p, type),
         NEW o \in Orders, OrderInv(o)
  PROVE  OrderInv(o)'
<1> DEFINE row == [order_type |-> type, status |-> "pending", p_status |-> "pending",
                   s_status |-> IF p \in Hedged THEN "pending" ELSE "pending_phase_4",
                   broker |-> NoId, stops |-> 0]
           rec == [act |-> "open", of |-> p, stops |-> 0, at |-> "stored"]
<1>1. /\ ~ Exists(p) /\ requests' = Append(requests, rec) /\ rows' = [rows EXCEPT ![p] = row]
      /\ UNCHANGED <<account, cmds, answer, resps, events, effect, lost, brokerIndex, respAt, eventAt>>
  BY DEF Create, Ask, CreateOrder, OutsideUnchanged, accountVars, clientVars, loopVars
<1>2. rec \in RequestRecords /\ requests \in Seq(RequestRecords)
  BY OrderAssumption DEF RequestRecords, RequestStages, Typed, TypeOK
<1>3. StateKept(o) /\ LinksKept(o) /\ LossesKept(o) /\ AnswersKept(o) /\ EventsKept(o)
  BY <1>1, Untouched DEF loopVars
<1>4. row.status = "pending" /\ row.broker = NoId
  OBVIOUS
<1>5. rec.of = p /\ rec \in StoredOf(p)
  BY <1>2 DEF StoredOf
<1> HIDE DEF row, rec
<1>6. CASE o # p
  <2>1. RowKept(o)
    BY <1>1, <1>6 DEF RowKept, Status
  <2>2. RequestsKept(o)
    BY <1>1, <1>2, <1>5, <1>6, RequestWritten DEF StoredOf, OpenRequests, Of
  <2> QED
    BY <1>3, <2>1, <2>2, KeptKeeps DEF Kept
<1>7. CASE o = p
  <2>1. Status(o)' = "pending" /\ rows'[o].broker = NoId
    BY <1>1, <1>4, <1>7 DEF Typed, TypeOK, StoreTypeOK, Status
  <2>2. HasOnce(requests', OpenRequests(o)) /\ (Stored(o)' <=> Stored(o) \/ rec \in StoredOf(o))
    BY <1>1, <1>2, <1>7, NothingYet, RequestWritten DEF OrderInv, OneOpen
  <2>3. /\ ~ Opening(o) /\ State(o) = "none" /\ ~ Told(o) /\ effect \notin EventsOf(o)
        /\ ~ Filling(o) /\ ~ Refusing(o) /\ ~ Closing(o) /\ ~ Moving(o) /\ ~ Leaving(o)
        /\ {OrderId(o), PositionId(o)} \cap (brokerIndex \cup {respAt}) = {}
    BY <1>1, <1>7, NothingYet
  <2>4. ~ Sent(o) /\ ~ Held(o) /\ ~ Answered(o)
    BY <2>3 DEF Opening
  <2>5. ~ Sent(o)' /\ ~ Held(o)' /\ ~ Answered(o)'
    BY <1>3, <2>4 DEF AnswersKept, PlacesKept
  <2>6. OneOpen(o)'
    BY <1>3, <2>2, <2>5 DEF OrderInv, OneOpen, AnswersKept, PlacesKept
  <2>7. FreshWhileOpening(o)'
    BY <1>1, <2>1, <2>3 DEF FreshWhileOpening
  <2>8. /\ State(o)' = "none" /\ ~ Told(o)' /\ effect' \notin EventsOf(o) /\ ~ Leaving(o)'
        /\ ~ Filling(o)' /\ ~ Refusing(o)' /\ ~ Closing(o)' /\ ~ Moving(o)'
    BY <1>3, <2>3 DEF StateKept, EventsKept, AnswersKept, LinksKept
  <2>9. NothingBeforeOpen(o)' /\ FilledAtOnce(o)' /\ ClosesFilled(o)' /\ RefusedIsNone(o)'
    BY <2>1, <2>8 DEF NothingBeforeOpen, FilledAtOnce, ClosesFilled, RefusedIsNone
  <2>10. LeavesOnce(o)'
    BY <1>3, <2>8 DEF OrderInv, LeavesOnce, EventsKept
  <2>11. LinkedWasAccepted(o)' /\ IndexFollowsRow(o)'
    BY <1>1, <2>3, <2>8 DEF LinkedWasAccepted, IndexFollowsRow
  <2> QED
    BY <2>6, <2>7, <2>9, <2>10, <2>11 DEF OrderInv
<1> QED
  BY <1>6, <1>7

LEMMA AskKeeps ==
  ASSUME Typed, Typed', NEW p \in Orders, Close(p) \/ Modify(p), NEW o \in Orders, OrderInv(o)
  PROVE  OrderInv(o)'
<1>1. PICK act \in {"close", "modify_sl_tp"}, n \in 0 .. MaxStops :
        /\ requests' = Append(requests, [act |-> act, of |-> p, stops |-> n, at |-> "pushed"])
        /\ cmds' = Append(cmds, [id |-> Len(requests'), act |-> act, of |-> p,
                                 type |-> rows[p].order_type, stops |-> n])
        /\ act = "close" => Status(p) = "filled"
  <2>1. edits' \in 0 .. MaxStops /\ 0 \in 0 .. MaxStops
    BY OrderAssumption DEF Typed, TypeOK, AccountTypeOK
  <2>2. CASE Close(p)
    BY <2>1, <2>2 DEF Close, Ask, Status
  <2>3. CASE Modify(p)
    BY <2>1, <2>3 DEF Modify, Ask
  <2> QED
    BY <2>2, <2>3
<1>2. /\ UNCHANGED <<rows, brokerIndex, respAt, eventAt, lost, answer, resps, events, effect>>
      /\ State(o)' = State(o)
  BY DEF Close, Modify, OutsideUnchanged, accountVars, clientVars, loopVars, storeVars, State
<1> DEFINE rec == [act |-> act, of |-> p, stops |-> n, at |-> "pushed"]
           cmd == [id |-> Len(requests'), act |-> act, of |-> p,
                   type |-> rows[p].order_type, stops |-> n]
<1>3. rec \in RequestRecords /\ requests \in Seq(RequestRecords)
  BY DEF RequestRecords, RequestStages, Typed, TypeOK
<1>4. cmd \in Commands
  <2>1. Len(requests') \in 0 .. MaxRequests
    BY DEF Typed, TypeOK
  <2>2. rows[p].order_type \in Types
    BY DEF Close, Modify, Exists, Typed, TypeOK, StoreTypeOK, Rows
  <2> QED
    BY <2>1, <2>2 DEF Commands, Actions
<1>5. RowKept(o) /\ StateKept(o) /\ LinksKept(o) /\ LossesKept(o) /\ EventsKept(o)
  BY <1>2, Untouched DEF loopVars, StateKept
<1>6. rec \notin StoredOf(o) /\ rec \notin OpenRequests(o)
  BY DEF StoredOf, OpenRequests, Of
<1>7. RequestsKept(o)
  <2> HIDE DEF rec
  <2> QED
    BY <1>1, <1>3, <1>6, RequestWritten DEF rec
<1>8. /\ cmd \notin OpenCmds(o)
      /\ cmd \in Of(Commands, "close", o) => o = p /\ act = "close"
  BY DEF OpenCmds, Of
<1>9. cmds' = Append(cmds, cmd) /\ AccountTypeOK
  BY <1>1 DEF Typed, TypeOK
<1> HIDE DEF cmd
<1>10. CASE cmd \notin Of(Commands, "close", o)
  <2>1. AnswersKept(o)
    BY <1>2, <1>4, <1>8, <1>9, <1>10, CommandWritten
  <2> QED
    BY <1>5, <1>7, <2>1, KeptKeeps DEF Kept
<1>11. CASE cmd \in Of(Commands, "close", o)
  <2>1. Status(o) = "filled"
    BY <1>1, <1>8, <1>11
  <2>2. /\ Sent(o)' <=> Sent(o)
        /\ (Held(o)' <=> Held(o)) /\ (Answered(o)' <=> Answered(o))
        /\ HasOnce(cmds, OpenCmds(o)) => HasOnce(cmds', OpenCmds(o))
        /\ HasOnce(resps, OpenResps(o)) => HasOnce(resps', OpenResps(o))
        /\ (Filling(o)' <=> Filling(o)) /\ (Refusing(o)' <=> Refusing(o))
    BY <1>2, <1>4, <1>8, <1>9, CommandWritten
  <2>3. PlacesKept(o)
    BY <2>2 DEF PlacesKept
  <2>4. ClosesFilled(o)'
    BY <1>5, <2>1 DEF ClosesFilled, RowKept
  <2> QED
    BY <1>5, <1>7, <2>2, <2>3, <2>4, PartsKept DEF OrderInv
<1> QED
  BY <1>10, <1>11

\* Requests move on, and none of them back to being stored.
LEMMA RequestsMoved ==
  ASSUME requests \in Seq(RequestRecords), requests' \in Seq(RequestRecords),
         DOMAIN requests' = DOMAIN requests,
         \A i \in DOMAIN requests :
           /\ requests'[i].act = requests[i].act /\ requests'[i].of = requests[i].of
           /\ requests'[i].at = "stored" => requests[i].at = "stored"
  PROVE  /\ \A o \in Orders : RequestsKept(o)
         /\ StoredIsOpen => StoredIsOpen'
<1>1. \A i \in DOMAIN requests : requests[i] \in RequestRecords /\ requests'[i] \in RequestRecords
  OBVIOUS
<1>2. ASSUME NEW o \in Orders PROVE RequestsKept(o)
  <2>1. Stored(o)' => Stored(o)
    BY <1>1 DEF Stored, Has, StoredOf
  <2>2. HasOnce(requests, OpenRequests(o)) => HasOnce(requests', OpenRequests(o))
    BY <1>1 DEF HasOnce, OpenRequests, Of
  <2> QED
    BY <2>1, <2>2 DEF RequestsKept
<1>3. StoredIsOpen => StoredIsOpen'
  BY DEF StoredIsOpen
<1> QED
  BY <1>2, <1>3

LEMMA RequestPushed ==
  ASSUME requests \in Seq(RequestRecords), NEW i \in DOMAIN requests, NEW at \in {"pushed", "linked"},
         requests' = [requests EXCEPT ![i].at = at]
  PROVE  /\ \A o \in Orders : RequestsKept(o)
         /\ StoredIsOpen => StoredIsOpen'
         /\ \A o \in Orders : HasOnce(requests, OpenRequests(o)) /\ StoredIsOpen
                                /\ requests[i] \in OpenRequests(o) => ~ Stored(o)'
<1>1. \A j \in DOMAIN requests : requests[j] \in RequestRecords
  OBVIOUS
<1>2. /\ DOMAIN requests' = DOMAIN requests
      /\ \A j \in DOMAIN requests : j # i => requests'[j] = requests[j]
      /\ requests'[i] = [requests[i] EXCEPT !.at = at]
  OBVIOUS
<1>3. /\ requests'[i] \in RequestRecords /\ requests'[i].at = at
      /\ requests'[i].act = requests[i].act /\ requests'[i].of = requests[i].of
  BY <1>1, <1>2 DEF RequestRecords, RequestStages
<1>4. requests' \in Seq(RequestRecords)
  <2>1. requests' = [requests EXCEPT ![i] = requests'[i]]
    BY <1>2
  <2> QED
    BY <1>3, <2>1
<1>5. (\A o \in Orders : RequestsKept(o)) /\ (StoredIsOpen => StoredIsOpen')
  BY <1>2, <1>3, <1>4, RequestsMoved
<1>6. ASSUME NEW o \in Orders, HasOnce(requests, OpenRequests(o)), StoredIsOpen,
             requests[i] \in OpenRequests(o)
      PROVE  ~ Stored(o)'
  <2> SUFFICES ASSUME NEW j \in DOMAIN requests', requests'[j] \in StoredOf(o) PROVE FALSE
    BY DEF Stored, Has
  <2>1. j # i /\ j \in DOMAIN requests /\ requests[j] \in StoredOf(o)
    BY <1>2, <1>3 DEF StoredOf
  <2>2. requests[j] \in OpenRequests(o)
    BY <1>1, <1>6, <2>1 DEF StoredOf, OpenRequests, Of, StoredIsOpen
  <2> QED
    BY <1>6, <2>1, <2>2 DEF HasOnce
<1> QED
  BY <1>5, <1>6

LEMMA PushKeeps ==
  ASSUME Typed, StoredIsOpen, NEW i \in DOMAIN requests, PushOpen(i), NEW o \in Orders, OrderInv(o)
  PROVE  OrderInv(o)'
<1>1. /\ requests[i].at = "stored" /\ requests' = [requests EXCEPT ![i].at = "pushed"]
      /\ cmds' = Append(cmds, Command(i))
      /\ UNCHANGED <<rows, account, brokerIndex, respAt, eventAt, lost, answer, resps, events, effect>>
  BY DEF PushOpen, OutsideUnchanged, accountVars, clientVars, loopVars, storeVars
<1>2. /\ requests \in Seq(RequestRecords) /\ requests[i] \in RequestRecords
      /\ requests[i].act = "open" /\ i \in 1 .. MaxRequests /\ AccountTypeOK
      /\ requests[i].of \in Orders /\ requests[i].stops \in 0 .. MaxStops
  <2>1. requests \in Seq(RequestRecords) /\ Len(requests) <= MaxRequests /\ AccountTypeOK
    BY DEF Typed, TypeOK
  <2>2. requests[i] \in RequestRecords /\ i \in 1 .. MaxRequests
    BY <2>1, OrderAssumption
  <2> QED
    BY <1>1, <2>1, <2>2 DEF StoredIsOpen, RequestRecords
<1>3. RowKept(o) /\ StateKept(o) /\ LinksKept(o) /\ LossesKept(o) /\ EventsKept(o)
  BY <1>1, Untouched DEF loopVars
<1>4. RequestsKept(o)
  BY <1>1, <1>2, RequestPushed
<1> DEFINE cmd == Command(i)
<1>5. cmd \in Commands /\ cmd.act = "open" /\ cmd.of = requests[i].of
  <2>1. rows[requests[i].of].order_type \in Types
    BY <1>2 DEF Typed, RequestedExist, Exists, TypeOK, StoreTypeOK, Rows
  <2> QED
    BY <1>2, <2>1 DEF Command, Commands, Actions
<1>6. cmds' = Append(cmds, cmd)
  BY <1>1
<1> HIDE DEF cmd
<1>7. cmd \notin Of(Commands, "close", o) /\ (cmd \in OpenCmds(o) <=> requests[i].of = o)
  BY <1>5 DEF OpenCmds, Of
<1>8. CASE requests[i].of # o
  <2>1. AnswersKept(o)
    BY <1>1, <1>2, <1>5, <1>6, <1>7, <1>8, CommandWritten
  <2> QED
    BY <1>3, <1>4, <2>1, KeptKeeps DEF Kept
<1>9. CASE requests[i].of = o
  <2>1. Stored(o)
    BY <1>1, <1>2, <1>9 DEF Stored, Has, StoredOf
  <2>2. ~ Stored(o)'
    BY <1>1, <1>2, <1>9, RequestPushed DEF OrderInv, OneOpen, OpenRequests, Of
  <2>3. /\ ~ Sent(o) /\ ~ Held(o) /\ ~ Answered(o) /\ Opening(o) /\ State(o) = "none"
    BY <2>1 DEF OrderInv, OneOpen, NothingBeforeOpen, Opening
  <2>4. /\ ~ Held(o)' /\ ~ Answered(o)'
        /\ HasOnce(cmds', OpenCmds(o)) /\ HasOnce(resps', OpenResps(o))
        /\ (Filling(o)' <=> Filling(o)) /\ (Refusing(o)' <=> Refusing(o))
        /\ Closing(o)' <=> Closing(o)
    BY <1>1, <1>2, <1>5, <1>6, <1>7, <2>3, CommandWritten DEF OrderInv, OneOpen
  <2>5. OneOpen(o)'
    BY <1>4, <2>2, <2>4 DEF OrderInv, OneOpen, RequestsKept
  <2>6. FreshWhileOpening(o)'
    BY <1>3, <2>3 DEF OrderInv, FreshWhileOpening, RowKept, LinksKept
  <2>7. NothingBeforeOpen(o)'
    BY <1>3, <2>3 DEF OrderInv, NothingBeforeOpen, StateKept, EventsKept
  <2> QED
    BY <1>3, <2>4, <2>5, <2>6, <2>7, PartsKept DEF OrderInv
<1> QED
  BY <1>8, <1>9

LEMMA LinkKeeps ==
  ASSUME Typed, NEW i \in DOMAIN requests, Link(i), NEW o \in Orders, OrderInv(o)
  PROVE  OrderInv(o)'
<1>1. /\ requests' = [requests EXCEPT ![i].at = "linked"]
      /\ UNCHANGED <<rows, account, brokerIndex, respAt, eventAt, lost, answer, resps, events, effect>>
      /\ UNCHANGED cmds
  BY DEF Link, LinkRequest, OutsideUnchanged, accountVars, clientVars, loopVars
<1>2. RequestsKept(o)
  BY <1>1, RequestPushed DEF Typed, TypeOK
<1> QED
  BY <1>1, <1>2, Untouched, KeptKeeps DEF Kept, loopVars

-----------------------------------------------------------------------------
(* The answers.                                                            *)

LEMMA AnswerRead ==
  ASSUME AccountTypeOK, resps # <<>>, NEW r \in Responses, r = Head(resps), resps' = Tail(resps),
         UNCHANGED <<cmds, answer>>, NEW o \in Orders, HasOnce(resps, OpenResps(o))
  PROVE  /\ AnswersKept(o)
         /\ r \in OpenResps(o) => Answered(o) /\ ~ Answered(o)'
         /\ r \in Fills(o) => Filling(o)
         /\ r \in Refusals(o) => Refusing(o)
         /\ r \in Of(Responses, "close", o) => Closing(o)
<1>1. resps \in Seq(Responses)
  BY DEF AccountTypeOK
<1>2. \A S : Has(resps, S) <=> Has(resps', S) \/ r \in S
  BY <1>1, TailHas
<1>3. HasOnce(resps', OpenResps(o)) /\ (r \in OpenResps(o) => ~ Has(resps', OpenResps(o)))
  BY <1>1, TailHas
<1>4. /\ Has(resps', OpenResps(o)) => Has(resps, OpenResps(o))
      /\ Has(resps', Fills(o)) => Has(resps, Fills(o))
      /\ Has(resps', Refusals(o)) => Has(resps, Refusals(o))
      /\ Has(resps', Of(Responses, "close", o)) => Has(resps, Of(Responses, "close", o))
  BY <1>2
<1>5. /\ r \in OpenResps(o) => Has(resps, OpenResps(o))
      /\ r \in Fills(o) => Has(resps, Fills(o))
      /\ r \in Refusals(o) => Has(resps, Refusals(o))
      /\ r \in Of(Responses, "close", o) => Has(resps, Of(Responses, "close", o))
  BY <1>2
<1> QED
  BY <1>3, <1>4, <1>5
     DEF AnswersKept, PlacesKept, Sent, Held, Answered, Filling, Refusing, Closing

\* The row of an order that was filled is closed, or left to the cascade.
LEMMA ClosedKeeps ==
  ASSUME NEW o \in Orders, OrderInv(o), StateKept(o), LinksKept(o), LossesKept(o), RequestsKept(o),
         AnswersKept(o), EventsKept(o),
         Status(o) \in {"filled", "primary_filled", "closed"},
         Status(o)' \in {Status(o), "closed"}, rows'[o].broker = rows[o].broker
  PROVE  OrderInv(o)'
<1>1. ~ Opening(o) /\ ~ Opening(o)'
  BY DEF OrderInv, FreshWhileOpening, Opening, RequestsKept, AnswersKept, PlacesKept
<1>2. FreshWhileOpening(o)'
  BY <1>1 DEF FreshWhileOpening
<1>3. NothingBeforeOpen(o)'
  BY <1>1 DEF OrderInv, NothingBeforeOpen, StateKept, EventsKept, Opening, Statuses
<1>4. State(o) # "working" /\ ~ Leaving(o)
  BY DEF OrderInv, LeavesOnce
<1>5. LeavesOnce(o)'
  BY <1>4 DEF OrderInv, LeavesOnce, StateKept, EventsKept
<1>6. LinkedWasAccepted(o)'
  BY DEF OrderInv, LinkedWasAccepted, LinksKept
<1>7. ClosesFilled(o)'
  BY DEF OrderInv, ClosesFilled, AnswersKept
<1>8. IndexFollowsRow(o)'
  BY DEF OrderInv, IndexFollowsRow, LinksKept, LossesKept
<1>9. RefusedIsNone(o)'
  BY DEF OrderInv, RefusedIsNone, AnswersKept, StateKept, LossesKept
<1> QED
  BY <1>2, <1>3, <1>5, <1>6, <1>7, <1>8, <1>9, PartsKept DEF OrderInv, AnswersKept

\* A patch of the row of one order.
LEMMA RowPatched ==
  ASSUME StoreTypeOK, NEW p \in Orders, NEW row \in Rows, UpdateOrder(p, row), NEW o \in Orders
  PROVE  /\ Exists(p) /\ rows[p] \in Rows
         /\ o # p => RowKept(o)
         /\ o = p => Status(o)' = row.status /\ rows'[o].broker = row.broker
<1>1. /\ rows' = [rows EXCEPT ![p] = row] /\ rows \in [Orders -> Rows \cup {NoRow}] /\ Exists(p)
  BY DEF UpdateOrder, StoreTypeOK
<1>2. rows[p] \in Rows
  BY <1>1 DEF Exists
<1> QED
  BY <1>1, <1>2 DEF RowKept, Status

LEMMA ClosedRowFields ==
  ASSUME NEW o \in Orders, rows[o] \in Rows
  PROVE  /\ ClosedRow(o) \in Rows /\ ClosedRow(o).broker = rows[o].broker
         /\ ClosedRow(o).status \in {Status(o), "closed"}
BY DEF Rows, ClosedRow, Status, Statuses, PStatuses

LEMMA OpenSucceededKeeps ==
  ASSUME Typed, resps # <<>>, NEW r \in Responses, r = Head(resps), OpenSucceeded(r),
         UNCHANGED requests, NEW o \in Orders, OrderInv(o)
  PROVE  OrderInv(o)'
<1>a. StoreTypeOK /\ AccountTypeOK /\ r.of \in Orders /\ AnsweredId(r) \in Ids
  BY ResponseTyped DEF Typed, TypeOK
<1>1. /\ resps' = Tail(resps) /\ respAt' = AnsweredId(r) /\ r.act = "open" /\ r.ok
      /\ UNCHANGED <<account, answer, effect, cmds, events, eventAt, brokerIndex, lost, requests>>
  BY DEF OpenSucceeded, Routed, TakeResponse, accountVars, clientVars
<1> DEFINE s == IF r.filled THEN FilledStatus(r.of) ELSE "pending"
           row == [rows[r.of] EXCEPT !.status = s,
                                     !.p_status = IF r.filled THEN "filled" ELSE "pending",
                                     !.broker = AnsweredId(r)]
<1>2. UpdateOrder(r.of, row) /\ Exists(r.of)
  BY DEF OpenSucceeded, UpdateOrder
<1>3. s \in {"filled", "primary_filled", "pending"} /\ (s = "pending" <=> ~ r.filled)
  BY ResponseTyped DEF FilledStatus
<1>4. rows[r.of] \in Rows
  BY <1>a, <1>2 DEF StoreTypeOK, Exists
<1>5. row \in Rows /\ row.status = s /\ row.broker = AnsweredId(r)
  <2>1. s \in Statuses /\ (IF r.filled THEN "filled" ELSE "pending") \in PStatuses
    BY <1>3 DEF Statuses, PStatuses
  <2> QED
    BY <1>a, <1>4, <2>1 DEF Rows
<1> HIDE DEF row, s
<1>6. /\ StateKept(o) /\ LossesKept(o) /\ RequestsKept(o) /\ EventsKept(o)
  BY <1>1, Untouched
<1>7. /\ AnswersKept(o)
      /\ r \in OpenResps(o) => Answered(o) /\ ~ Answered(o)'
      /\ r \in Fills(o) => Filling(o)
  BY <1>a, <1>1, AnswerRead DEF OrderInv, OneOpen
<1>8. /\ o # r.of => RowKept(o)
      /\ o = r.of => Status(o)' = s /\ rows'[o].broker = AnsweredId(r)
  BY <1>a, <1>2, <1>5, RowPatched
<1>9. AnsweredId(r) \in {OrderId(r.of), PositionId(r.of)}
      /\ (AnsweredId(r) = PositionId(r.of) <=> r.filled)
  BY <1>a, ResponseTyped, SelfIds DEF AnsweredId
<1>10. CASE o # r.of
  <2>1. respAt' \notin {OrderId(o), PositionId(o)}
    BY <1>a, <1>1, <1>9, <1>10, SelfIds
  <2>2. LinksKept(o)
    BY <1>1, <2>1 DEF LinksKept, Moving
  <2> QED
    BY <1>6, <1>7, <1>8, <1>10, <2>2, KeptKeeps DEF Kept
<1>11. CASE o = r.of
  <2>1. r \in OpenResps(o) /\ (r \in Fills(o) <=> r.filled)
    BY <1>1, <1>11 DEF OpenResps, Fills, Of
  <2>2. Answered(o) /\ Opening(o) /\ ~ Stored(o) /\ ~ Sent(o) /\ ~ Held(o)
    BY <1>7, <2>1 DEF OrderInv, OneOpen, Opening
  <2>3. /\ Status(o) = "pending" /\ rows[o].broker = NoId
        /\ {OrderId(o), PositionId(o)} \cap (brokerIndex \cup {respAt}) = {}
    BY <2>2 DEF OrderInv, FreshWhileOpening
  <2>4. ~ Stored(o)' /\ ~ Sent(o)' /\ ~ Held(o)' /\ ~ Answered(o)'
    BY <1>6, <1>7, <2>1, <2>2 DEF RequestsKept, AnswersKept, PlacesKept
  <2>5. FreshWhileOpening(o)'
    BY <2>4 DEF FreshWhileOpening, Opening
  <2>6. NothingBeforeOpen(o)'
    BY <1>3, <1>6, <1>8, <1>11, <2>4
       DEF OrderInv, NothingBeforeOpen, StateKept, EventsKept, Statuses
  <2>7. ~ Moving(o) /\ ~ Moving(o)' /\ ~ Closing(o)
    BY <1>1, <2>3 DEF OrderInv, LinkedWasAccepted, Moving, ClosesFilled
  <2>8. r.filled => State(o) \in {"open", "closed"} /\ ~ Leaving(o)
    BY <1>7, <2>1 DEF OrderInv, FilledAtOnce
  <2>9. LeavesOnce(o)'
    BY <1>3, <1>6, <1>8, <1>11, <2>8 DEF OrderInv, LeavesOnce, StateKept, EventsKept
  <2>10. respAt' \in Ids /\ respAt' # NoId /\ rows'[o].broker = respAt'
    BY <1>1, <1>8, <1>9, <1>11, SelfIds, <1>a
  <2>11. LinkedWasAccepted(o)'
    BY <1>1, <1>3, <1>8, <1>9, <1>11, <2>3, <2>7, SelfIds DEF LinkedWasAccepted
  <2>12. ClosesFilled(o)'
    BY <1>7, <2>7 DEF ClosesFilled, AnswersKept
  <2>13. respAt' \notin brokerIndex'
    BY <1>1, <1>9, <1>11, <2>3
  <2>14. IndexFollowsRow(o)'
    BY <1>1, <2>3, <2>7, <2>10, <2>13 DEF IndexFollowsRow
  <2>15. RefusedIsNone(o)'
    BY <1>3, <1>6, <1>7, <1>8, <1>11
       DEF OrderInv, RefusedIsNone, StateKept, LossesKept, AnswersKept
  <2> QED
    BY <1>6, <1>7, <2>5, <2>6, <2>9, <2>11, <2>12, <2>14, <2>15, PartsKept
       DEF OrderInv, AnswersKept
<1> QED
  BY <1>10, <1>11

LEMMA OpenFailedKeeps ==
  ASSUME Typed, resps # <<>>, NEW r \in Responses, r = Head(resps), OpenFailed(r),
         UNCHANGED requests, NEW o \in Orders, OrderInv(o)
  PROVE  OrderInv(o)'
<1>a. StoreTypeOK /\ AccountTypeOK /\ r.of \in Orders
  BY ResponseTyped DEF Typed, TypeOK
<1>1. /\ resps' = Tail(resps) /\ r.act = "open" /\ ~ r.ok
      /\ UNCHANGED <<account, answer, effect, cmds, events, respAt, eventAt, brokerIndex, lost>>
  BY DEF OpenFailed, Routed, TakeResponse, accountVars, clientVars
<1> DEFINE row == [rows[r.of] EXCEPT !.status = "rejected", !.p_status = "rejected"]
<1>2. UpdateOrder(r.of, row) /\ Exists(r.of)
  BY DEF OpenFailed, UpdateOrder
<1>3. rows[r.of] \in Rows
  BY <1>a, <1>2 DEF StoreTypeOK, Exists
<1>4. row \in Rows /\ row.status = "rejected" /\ row.broker = rows[r.of].broker
  BY <1>3 DEF Rows, Statuses, PStatuses
<1> HIDE DEF row
<1>5. /\ StateKept(o) /\ LossesKept(o) /\ RequestsKept(o) /\ EventsKept(o) /\ LinksKept(o)
  BY <1>1, Untouched DEF loopVars
<1>6. /\ AnswersKept(o)
      /\ r \in OpenResps(o) => Answered(o) /\ ~ Answered(o)'
      /\ r \in Refusals(o) => Refusing(o)
  BY <1>a, <1>1, AnswerRead DEF OrderInv, OneOpen
<1>7. /\ o # r.of => RowKept(o)
      /\ o = r.of => Status(o)' = "rejected" /\ rows'[o].broker = rows[o].broker
  BY <1>a, <1>2, <1>4, RowPatched
<1>8. CASE o # r.of
  BY <1>5, <1>6, <1>7, <1>8, KeptKeeps DEF Kept
<1>9. CASE o = r.of
  <2>1. r \in OpenResps(o) /\ r \in Refusals(o)
    BY <1>1, <1>9 DEF OpenResps, Refusals, Of
  <2>2. Answered(o) /\ Opening(o) /\ ~ Stored(o) /\ ~ Sent(o) /\ ~ Held(o)
    BY <1>6, <2>1 DEF OrderInv, OneOpen, Opening
  <2>3. /\ Status(o) = "pending" /\ rows[o].broker = NoId
        /\ {OrderId(o), PositionId(o)} \cap (brokerIndex \cup {respAt}) = {}
    BY <2>2 DEF OrderInv, FreshWhileOpening
  <2>4. ~ Stored(o)' /\ ~ Sent(o)' /\ ~ Held(o)' /\ ~ Answered(o)'
    BY <1>5, <1>6, <2>1, <2>2 DEF RequestsKept, AnswersKept, PlacesKept
  <2>5. FreshWhileOpening(o)'
    BY <2>4 DEF FreshWhileOpening, Opening
  <2>6. NothingBeforeOpen(o)'
    BY <1>5, <1>7, <1>9, <2>4 DEF OrderInv, NothingBeforeOpen, StateKept, EventsKept, Statuses
  <2>7. ~ Moving(o) /\ ~ Moving(o)' /\ ~ Closing(o)
    BY <1>1, <2>3 DEF OrderInv, LinkedWasAccepted, Moving, ClosesFilled
  <2>8. LeavesOnce(o)'
    BY <1>5, <1>7, <1>9 DEF OrderInv, LeavesOnce, StateKept, EventsKept
  <2>9. LinkedWasAccepted(o)' /\ IndexFollowsRow(o)'
    BY <1>1, <2>3, <2>7 DEF LinkedWasAccepted, IndexFollowsRow
  <2>10. ClosesFilled(o)'
    BY <1>6, <2>7 DEF ClosesFilled, AnswersKept
  <2>11. RefusedIsNone(o)'
    BY <1>5, <1>6, <2>1 DEF OrderInv, RefusedIsNone, StateKept, LossesKept
  <2> QED
    BY <1>5, <1>6, <2>5, <2>6, <2>8, <2>9, <2>10, <2>11, PartsKept DEF OrderInv, AnswersKept
<1> QED
  BY <1>8, <1>9

LEMMA CloseSucceededKeeps ==
  ASSUME Typed, resps # <<>>, NEW r \in Responses, r = Head(resps), CloseSucceeded(r),
         UNCHANGED requests, NEW o \in Orders, OrderInv(o)
  PROVE  OrderInv(o)'
<1>a. StoreTypeOK /\ AccountTypeOK /\ r.of \in Orders
  BY ResponseTyped DEF Typed, TypeOK
<1>1. /\ resps' = Tail(resps) /\ r.act = "close" /\ UpdateOrder(r.of, ClosedRow(r.of))
      /\ UNCHANGED <<account, answer, effect, cmds, events, respAt, eventAt, brokerIndex, lost>>
  BY DEF CloseSucceeded, Routed, TakeResponse, accountVars, clientVars
<1>2. rows[r.of] \in Rows
  BY <1>a, <1>1 DEF StoreTypeOK, Exists, UpdateOrder
<1>3. /\ StateKept(o) /\ LossesKept(o) /\ RequestsKept(o) /\ EventsKept(o) /\ LinksKept(o)
  BY <1>1, Untouched DEF loopVars
<1>4. AnswersKept(o) /\ (r \in Of(Responses, "close", o) => Closing(o))
  BY <1>a, <1>1, AnswerRead DEF OrderInv, OneOpen
<1>5. /\ o # r.of => RowKept(o)
      /\ o = r.of => Status(o)' \in {Status(o), "closed"} /\ rows'[o].broker = rows[o].broker
  BY <1>a, <1>1, <1>2, ClosedRowFields, RowPatched
<1>6. CASE o # r.of
  BY <1>3, <1>4, <1>5, <1>6, KeptKeeps DEF Kept
<1>7. CASE o = r.of
  <2>1. Closing(o)
    BY <1>1, <1>4, <1>7 DEF Of
  <2>2. Status(o) \in {"filled", "closed"}
    BY <2>1 DEF OrderInv, ClosesFilled
  <2> QED
    BY <1>3, <1>4, <1>5, <1>7, <2>2, ClosedKeeps
<1> QED
  BY <1>6, <1>7

LEMMA OtherAnswerKeeps ==
  ASSUME Typed, resps # <<>>, NEW r \in Responses, r = Head(resps),
         DropResponse(r) \/ CloseFailed(r) \/ ModifyAnswered(r),
         UNCHANGED requests, NEW o \in Orders, OrderInv(o)
  PROVE  OrderInv(o)'
<1>a. StoreTypeOK /\ AccountTypeOK /\ r.of \in Orders /\ r.stops \in 0 .. MaxStops
  BY ResponseTyped DEF Typed, TypeOK
<1>1. /\ resps' = Tail(resps)
      /\ UNCHANGED <<account, answer, effect, cmds, events, respAt, eventAt, brokerIndex>>
      /\ UNCHANGED lost \/ \E kind \in {"answer", "edit"} : Lose(r.of, kind)
  BY DEF DropResponse, CloseFailed, ModifyAnswered, Routed, TakeResponse, accountVars, clientVars
<1>2. /\ StateKept(o) /\ RequestsKept(o) /\ EventsKept(o) /\ LinksKept(o)
  BY <1>1, Untouched DEF loopVars
<1>3. LossesKept(o)
  BY <1>a, <1>1, Untouched, LoseKeeps
<1>4. AnswersKept(o)
  BY <1>a, <1>1, AnswerRead DEF OrderInv, OneOpen
<1>5. RowKept(o)
  <2>1. CASE UNCHANGED rows
    BY <2>1, Untouched
  <2>2. CASE UpdateOrder(r.of, [rows[r.of] EXCEPT !.stops = r.stops])
    <3>1. rows[r.of] \in Rows
      BY <1>a, <2>2 DEF StoreTypeOK, Exists, UpdateOrder
    <3> DEFINE row == [rows[r.of] EXCEPT !.stops = r.stops]
    <3>2. row \in Rows /\ row.status = rows[r.of].status /\ row.broker = rows[r.of].broker
      BY <1>a, <3>1 DEF Rows
    <3>3. UpdateOrder(r.of, row)
      BY <2>2
    <3> HIDE DEF row
    <3> QED
      BY <1>a, <3>2, <3>3, RowPatched DEF RowKept, Status
  <2> QED
    BY <2>1, <2>2 DEF DropResponse, CloseFailed, ModifyAnswered
<1> QED
  BY <1>2, <1>3, <1>4, <1>5, KeptKeeps DEF Kept

LEMMA LinkAnsweredKeeps ==
  ASSUME Typed, LinkAnswered, UNCHANGED requests, NEW o \in Orders, OrderInv(o)
  PROVE  OrderInv(o)'
<1>1. /\ respAt # NoId /\ brokerIndex' = brokerIndex \cup {respAt} /\ respAt' = NoId
      /\ UNCHANGED <<rows, account, answer, effect, cmds, resps, events, eventAt, lost>>
  BY DEF LinkAnswered, LinkBrokerId, accountVars, clientVars, streamVars
<1>2. /\ RowKept(o) /\ StateKept(o) /\ LossesKept(o) /\ RequestsKept(o)
      /\ AnswersKept(o) /\ EventsKept(o)
  BY <1>1, Untouched
<1>3. /\ OrderId(o) # NoId /\ PositionId(o) # NoId /\ OrderId(o) # PositionId(o)
  BY SelfIds
<1>4. FreshWhileOpening(o)'
  <2>1. Opening(o)' => Opening(o)
    BY <1>2 DEF Opening, RequestsKept, AnswersKept, PlacesKept
  <2> QED
    BY <1>1, <1>2, <1>3, <2>1 DEF OrderInv, FreshWhileOpening, RowKept
<1>5. Moving(o)' <=> Moving(o)
  BY <1>1 DEF Moving
<1>6. LinkedWasAccepted(o)'
  BY <1>1, <1>2, <1>3, <1>5 DEF OrderInv, LinkedWasAccepted, RowKept
<1>7. IndexFollowsRow(o)'
  BY <1>1, <1>2, <1>3, <1>5 DEF OrderInv, IndexFollowsRow, RowKept
<1> QED
  BY <1>2, <1>4, <1>6, <1>7, PartsKept DEF OrderInv, AnswersKept

LEMMA ResponsesKeep ==
  ASSUME Typed, ResponseLoop, UNCHANGED requests, NEW o \in Orders, OrderInv(o)
  PROVE  OrderInv(o)'
<1>1. resps # <<>> => Head(resps) \in Responses
  BY DEF Typed, TypeOK, AccountTypeOK
<1> QED
  BY <1>1, OpenSucceededKeeps, OpenFailedKeeps, CloseSucceededKeeps, OtherAnswerKeeps,
     LinkAnsweredKeeps DEF ResponseLoop

-----------------------------------------------------------------------------
(* The events.                                                             *)

LEMMA EventRead ==
  ASSUME AccountTypeOK, events # <<>>, NEW e \in Events, e = Head(events), events' = Tail(events),
         UNCHANGED effect, NEW o \in Orders, HasOnce(events, LeavesOf(o))
  PROVE  /\ EventsKept(o)
         /\ e \in LeavesOf(o) => Leaving(o) /\ ~ Leaving(o)'
<1>1. events \in Seq(Events)
  BY DEF AccountTypeOK
<1>2. \A S : Has(events, S) <=> Has(events', S) \/ e \in S
  BY <1>1, TailHas
<1>3. HasOnce(events', LeavesOf(o)) /\ (e \in LeavesOf(o) => ~ Has(events', LeavesOf(o)))
  BY <1>1, TailHas
<1>4. /\ Has(events', EventsOf(o)) => Has(events, EventsOf(o))
      /\ Has(events', LeavesOf(o)) => Has(events, LeavesOf(o))
      /\ e \in LeavesOf(o) => Has(events, LeavesOf(o))
  BY <1>2
<1> QED
  BY <1>3, <1>4 DEF EventsKept, Told, Leaving

\* An event the handlers know leads to the order by the id of its kind.
LEMMA KnownEvent ==
  ASSUME Typed, NEW e \in Events, NEW type, Known(e, type)
  PROVE  /\ e.of \in Orders /\ e \in EventsOf(e.of) /\ e.type = type /\ eventAt = IdleEvent
         /\ EventId(e) \in brokerIndex
         /\ events' = Tail(events)
         /\ UNCHANGED <<account, answer, effect, resps, cmds, respAt, brokerIndex, lost>>
BY EventKinds DEF Known, TakeEvent, EventUnchanged, EventsOf, accountVars, clientVars

LEMMA PositionClosedKeeps ==
  ASSUME Typed, events # <<>>, NEW e \in Events, e = Head(events), PositionClosed(e),
         UNCHANGED requests, NEW o \in Orders, OrderInv(o)
  PROVE  OrderInv(o)'
<1>a. StoreTypeOK /\ AccountTypeOK
  BY DEF Typed, TypeOK
<1>1. /\ e.of \in Orders /\ PositionId(e.of) \in brokerIndex /\ events' = Tail(events)
      /\ UpdateOrder(e.of, ClosedRow(e.of))
      /\ UNCHANGED <<account, answer, effect, resps, cmds, respAt, brokerIndex, lost, eventAt>>
  BY KnownEvent DEF PositionClosed, EventId
<1>2. rows[e.of] \in Rows
  BY <1>a, <1>1 DEF StoreTypeOK, Exists, UpdateOrder
<1>3. /\ StateKept(o) /\ LossesKept(o) /\ RequestsKept(o) /\ AnswersKept(o) /\ LinksKept(o)
  BY <1>1, Untouched DEF loopVars
<1>4. EventsKept(o)
  BY <1>a, <1>1, EventRead DEF OrderInv, LeavesOnce
<1>5. /\ o # e.of => RowKept(o)
      /\ o = e.of => Status(o)' \in {Status(o), "closed"} /\ rows'[o].broker = rows[o].broker
  BY <1>a, <1>1, <1>2, ClosedRowFields, RowPatched
<1>6. CASE o # e.of
  BY <1>3, <1>4, <1>5, <1>6, KeptKeeps DEF Kept
<1>7. CASE o = e.of
  <2>1. Status(o) \in {"filled", "primary_filled", "closed"}
    BY <1>1, <1>7 DEF OrderInv, LinkedWasAccepted
  <2> QED
    BY <1>3, <1>4, <1>5, <1>7, <2>1, ClosedKeeps
<1> QED
  BY <1>6, <1>7

\* What is known of an order whose waiting ends, when the event of it comes.
LEMMA EndsWaiting ==
  ASSUME AccountTypeOK, events # <<>>, NEW e \in Events, e = Head(events), events' = Tail(events),
         UNCHANGED effect, NEW o \in Orders, OrderInv(o), e \in LeavesOf(o),
         OrderId(o) \in brokerIndex, eventAt = IdleEvent
  PROVE  /\ Status(o) = "pending" /\ State(o) \in {"open", "closed", "cancelled"}
         /\ ~ Opening(o) /\ ~ Leaving(o)' /\ ~ Filling(o) /\ ~ Closing(o)
         /\ PositionId(o) \notin brokerIndex /\ respAt \notin {OrderId(o), PositionId(o)}
<1>1. Leaving(o) /\ ~ Leaving(o)'
  BY EventRead DEF OrderInv, LeavesOnce
<1>2. Status(o) = "pending" /\ State(o) \in {"open", "closed", "cancelled"}
  BY <1>1 DEF OrderInv, LeavesOnce, LinkedWasAccepted
<1>3. ~ Opening(o) /\ ~ Filling(o) /\ ~ Closing(o)
  BY <1>1, <1>2 DEF OrderInv, FreshWhileOpening, FilledAtOnce, ClosesFilled
<1>4. PositionId(o) \notin brokerIndex /\ respAt # PositionId(o)
  BY <1>2 DEF OrderInv, LinkedWasAccepted
<1>5. respAt # OrderId(o)
  BY DEF OrderInv, IndexFollowsRow
<1> QED
  BY <1>1, <1>2, <1>3, <1>4, <1>5

LEMMA WaitingEndsKeeps ==
  ASSUME Typed, events # <<>>, NEW e \in Events, e = Head(events),
         PendingFilled(e) \/ OrderCancelled(e),
         UNCHANGED requests, NEW o \in Orders, OrderInv(o)
  PROVE  OrderInv(o)'
<1>a. StoreTypeOK /\ AccountTypeOK
  BY DEF Typed, TypeOK
<1> DEFINE s == IF PendingFilled(e) THEN "filled" ELSE "cancelled"
           row == IF PendingFilled(e)
                  THEN [rows[e.of] EXCEPT !.status = "filled", !.p_status = "filled",
                                          !.broker = PositionId(e.of)]
                  ELSE [rows[e.of] EXCEPT !.status = "cancelled", !.p_status = "cancelled"]
<1>1. /\ e.of \in Orders /\ OrderId(e.of) \in brokerIndex /\ events' = Tail(events)
      /\ e \in LeavesOf(e.of) /\ eventAt = IdleEvent
      /\ UpdateOrder(e.of, row)
      /\ UNCHANGED <<account, answer, effect, resps, cmds, respAt, brokerIndex, lost>>
  BY KnownEvent, LeavesAre DEF PendingFilled, OrderCancelled, EventId
<1>2. /\ PendingFilled(e) => eventAt' = [at |-> "unlink", of |-> e.of]
      /\ ~ PendingFilled(e) => eventAt' = [at |-> "drop", of |-> e.of]
  BY DEF PendingFilled, OrderCancelled
<1>3. rows[e.of] \in Rows
  BY <1>a, <1>1 DEF StoreTypeOK, Exists, UpdateOrder
<1>4. /\ row \in Rows /\ row.status = s
      /\ row.broker = IF PendingFilled(e) THEN PositionId(e.of) ELSE rows[e.of].broker
  BY <1>1, <1>3, SelfIds DEF Rows, Statuses, PStatuses
<1>5. s \in {"filled", "cancelled"} /\ (s = "filled" <=> PendingFilled(e))
  OBVIOUS
<1> HIDE DEF s, row
<1>6. /\ StateKept(o) /\ LossesKept(o) /\ RequestsKept(o) /\ AnswersKept(o)
  BY <1>1, Untouched
<1>7. EventsKept(o)
  BY <1>a, <1>1, EventRead DEF OrderInv, LeavesOnce
<1>8. /\ o # e.of => RowKept(o)
      /\ o = e.of => /\ Status(o)' = s
                     /\ rows'[o].broker = IF PendingFilled(e) THEN PositionId(o) ELSE rows[o].broker
  BY <1>a, <1>1, <1>4, RowPatched
<1>9. CASE o # e.of
  <2>1. LinksKept(o)
    BY <1>1, <1>2, <1>9, Stages DEF LinksKept, Moving
  <2> QED
    BY <1>6, <1>7, <1>8, <1>9, <2>1, KeptKeeps DEF Kept
<1>10. CASE o = e.of
  <2>1. /\ Status(o) = "pending" /\ State(o) \in {"open", "closed", "cancelled"}
        /\ ~ Opening(o) /\ ~ Leaving(o)' /\ ~ Filling(o) /\ ~ Closing(o)
        /\ PositionId(o) \notin brokerIndex /\ respAt \notin {OrderId(o), PositionId(o)}
    BY <1>a, <1>1, <1>10, EndsWaiting
  <2>2. ~ Opening(o)' /\ ~ Closing(o)'
    BY <1>6, <2>1 DEF Opening, RequestsKept, AnswersKept, PlacesKept
  <2>3. FreshWhileOpening(o)' /\ ClosesFilled(o)'
    BY <2>2 DEF FreshWhileOpening, ClosesFilled
  <2>4. NothingBeforeOpen(o)'
    BY <1>5, <1>6, <1>7, <1>8, <1>10, <2>2
       DEF OrderInv, NothingBeforeOpen, StateKept, EventsKept, Statuses, Opening
  <2>5. LeavesOnce(o)'
    BY <1>6, <1>7, <2>1 DEF OrderInv, LeavesOnce, StateKept, EventsKept
  <2>6. Moving(o)' <=> PendingFilled(e)
    BY <1>2, <1>10 DEF Moving
  <2>7. LinkedWasAccepted(o)'
    BY <1>1, <1>5, <1>8, <1>10, <2>1, <2>6 DEF LinkedWasAccepted
  <2>8. IndexFollowsRow(o)'
    <3>1. rows[o].broker = OrderId(o) \/ "crash" \in lost[o]
      BY <1>1, <1>10, Stages DEF OrderInv, IndexFollowsRow
    <3>2. PendingFilled(e) => eventAt' = [at |-> "unlink", of |-> o]
      BY <1>2, <1>10
    <3> QED
      BY <1>1, <1>8, <1>10, <2>1, <2>6, <3>1, <3>2 DEF IndexFollowsRow
  <2>9. RefusedIsNone(o)'
    BY <1>5, <1>6, <1>8, <1>10
       DEF OrderInv, RefusedIsNone, StateKept, LossesKept, AnswersKept
  <2> QED
    BY <1>6, <1>7, <2>3, <2>4, <2>5, <2>7, <2>8, <2>9, PartsKept DEF OrderInv, AnswersKept
<1> QED
  BY <1>9, <1>10

LEMMA OtherEventKeeps ==
  ASSUME Typed, events # <<>>, NEW e \in Events, e = Head(events),
         DropEvent(e) \/ PositionModified(e) \/ ReadSnapshot(e),
         UNCHANGED requests, NEW o \in Orders, OrderInv(o)
  PROVE  OrderInv(o)'
<1>a. StoreTypeOK /\ AccountTypeOK
  BY DEF Typed, TypeOK
<1>1. /\ events' = Tail(events)
      /\ UNCHANGED <<account, answer, effect, resps, cmds, respAt, brokerIndex>>
      /\ eventAt' = eventAt \/ (eventAt = IdleEvent /\ eventAt'.at = "list")
  BY DEF DropEvent, PositionModified, ReadSnapshot, Known, TakeEvent, EventUnchanged,
         accountVars, clientVars
<1>2. /\ StateKept(o) /\ RequestsKept(o) /\ AnswersKept(o)
  BY <1>1, Untouched
<1>3. EventsKept(o)
  BY <1>a, <1>1, EventRead DEF OrderInv, LeavesOnce
<1>4. LinksKept(o)
  BY <1>1, Stages DEF LinksKept, Moving
<1>5. LossesKept(o)
  <2>1. CASE UNCHANGED lost
    BY <2>1, Untouched
  <2>2. CASE DropEvent(e) /\ lost' # lost
    <3>1. e.of \in Orders /\ \E kind \in {"event", "edit"} : Lose(e.of, kind)
      BY <2>2, EventKinds DEF DropEvent
    <3> QED
      BY <1>a, <3>1, LoseKeeps
  <2> QED
    BY <2>1, <2>2 DEF PositionModified, ReadSnapshot, Known
<1>6. RowKept(o)
  <2>1. CASE UNCHANGED rows
    BY <2>1, Untouched
  <2>2. CASE PositionModified(e)
    <3>1. e.of \in Orders /\ e.stops \in 0 .. MaxStops
      BY <2>2, EventKinds DEF PositionModified, Known
    <3> DEFINE row == [rows[e.of] EXCEPT !.stops = e.stops]
    <3>2. UpdateOrder(e.of, row)
      BY <2>2 DEF PositionModified
    <3>3. rows[e.of] \in Rows
      BY <1>a, <3>1, <3>2 DEF StoreTypeOK, Exists, UpdateOrder
    <3>4. row \in Rows /\ row.status = rows[e.of].status /\ row.broker = rows[e.of].broker
      BY <3>1, <3>3 DEF Rows
    <3> HIDE DEF row
    <3> QED
      BY <1>a, <3>1, <3>2, <3>4, RowPatched DEF RowKept, Status
  <2> QED
    BY <2>1, <2>2 DEF DropEvent, ReadSnapshot
<1> QED
  BY <1>2, <1>3, <1>4, <1>5, <1>6, KeptKeeps DEF Kept

LEMMA ReindexKeeps ==
  ASSUME Typed, ForgetOrderId \/ DropOrderId \/ LinkPosition, UNCHANGED requests,
         NEW o \in Orders, OrderInv(o)
  PROVE  OrderInv(o)'
<1>1. /\ UNCHANGED <<rows, account, answer, effect, cmds, resps, events, respAt, lost>>
      /\ eventAt \in EventStages
  BY DEF ForgetOrderId, DropOrderId, LinkPosition, EventStep, EventUnchanged, accountVars,
         clientVars, Typed, TypeOK
<1>2. /\ RowKept(o) /\ StateKept(o) /\ LossesKept(o) /\ RequestsKept(o)
      /\ AnswersKept(o) /\ EventsKept(o)
  BY <1>1, Untouched
<1>3. eventAt \in [at : {"unlink", "link", "drop"}, of : Orders]
  BY <1>1, Stages DEF ForgetOrderId, DropOrderId, LinkPosition, ListStages, DiffStages
<1>4. CASE ForgetOrderId \/ DropOrderId
  <2>1. /\ brokerIndex' = brokerIndex \ {OrderId(eventAt.of)}
        /\ \/ eventAt.at = "unlink" /\ eventAt'.at = "link" /\ eventAt'.of = eventAt.of
           \/ eventAt.at = "drop" /\ eventAt' = IdleEvent
    <3>1. CASE ForgetOrderId
      BY <1>3, <3>1 DEF ForgetOrderId, UnlinkBrokerId
    <3>2. CASE DropOrderId
      BY <3>2 DEF DropOrderId, UnlinkBrokerId
    <3> QED
      BY <1>4, <3>1, <3>2
  <2>2. LinksKept(o)
    BY <1>1, <2>1, Stages DEF LinksKept, Moving
  <2> QED
    BY <1>2, <2>2, KeptKeeps DEF Kept
<1>5. CASE LinkPosition
  <2>1. /\ brokerIndex' = brokerIndex \cup {PositionId(eventAt.of)}
        /\ eventAt.at = "link" /\ eventAt' = IdleEvent /\ eventAt.of \in Orders
    BY <1>3, <1>5 DEF LinkPosition, LinkBrokerId
  <2>2. CASE o # eventAt.of
    <3>1. PositionId(eventAt.of) \notin {OrderId(o), PositionId(o)}
      BY <2>1, <2>2, SelfIds
    <3>2. LinksKept(o)
      BY <1>1, <2>1, <3>1, Stages DEF LinksKept, Moving
    <3> QED
      BY <1>2, <3>2, KeptKeeps DEF Kept
  <2>3. CASE o = eventAt.of
    <3>1. Moving(o) /\ ~ Moving(o)' /\ OrderId(o) # PositionId(o)
      BY <2>1, <2>3, Stages, SelfIds DEF Moving
    <3>2. /\ Status(o) \in {"filled", "primary_filled", "closed"}
          /\ rows[o].broker = PositionId(o) /\ respAt \notin {OrderId(o), PositionId(o)}
      BY <3>1 DEF OrderInv, LinkedWasAccepted, IndexFollowsRow
    <3>3. ~ Opening(o) /\ ~ Opening(o)'
      BY <1>2, <3>2 DEF OrderInv, FreshWhileOpening, Opening, RequestsKept, AnswersKept, PlacesKept
    <3>4. FreshWhileOpening(o)'
      BY <3>3 DEF FreshWhileOpening
    <3>5. LinkedWasAccepted(o)'
      BY <1>1, <1>2, <2>1, <2>3, <3>1, <3>2 DEF OrderInv, LinkedWasAccepted, RowKept
    <3>6. IndexFollowsRow(o)'
      <4>1. OrderId(o) \in brokerIndex => rows[o].broker = OrderId(o) \/ "crash" \in lost[o]
        BY <2>1, <2>3 DEF OrderInv, IndexFollowsRow
      <4> QED
        BY <1>1, <1>2, <2>1, <2>3, <3>1, <3>2, <4>1 DEF IndexFollowsRow, RowKept
    <3> QED
      BY <1>2, <3>4, <3>5, <3>6, PartsKept DEF OrderInv, AnswersKept
  <2> QED
    BY <2>2, <2>3
<1> QED
  BY <1>4, <1>5

LEMMA ReconcileKeeps ==
  ASSUME Typed, Reconcile, UNCHANGED requests, NEW o \in Orders, OrderInv(o)
  PROVE  OrderInv(o)'
<1>a. StoreTypeOK /\ AccountTypeOK /\ eventAt \in EventStages
  BY DEF Typed, TypeOK
<1>1. UNCHANGED <<account, answer, effect, resps, events, respAt, lost, brokerIndex>>
  BY DEF Reconcile, ListOpen, BeginDiff, Diff, EventStep, EventUnchanged, accountVars, clientVars
<1>2. /\ StateKept(o) /\ LossesKept(o) /\ RequestsKept(o) /\ EventsKept(o)
  BY <1>1, Untouched
<1>3. eventAt.at \in {"list", "diff"} /\ eventAt'.at \in {"list", "diff", "idle"}
  <2>1. eventAt.at \in {"list", "diff"}
    BY DEF Reconcile, ListOpen, BeginDiff, Diff
  <2>2. (eventAt.at = "list" => eventAt \in ListStages) /\ (eventAt.at = "diff" => eventAt \in DiffStages)
    BY <1>a, Stages
  <2>3. CASE ListOpen
    BY <2>1, <2>3, ListOpenStage
  <2>4. CASE BeginDiff
    BY <2>1, <2>4 DEF BeginDiff
  <2>5. CASE Diff
    <3>1. eventAt' = IdleEvent \/ \E l \in eventAt.found : eventAt' = [eventAt EXCEPT !.found = @ \ {l}]
      BY <2>5 DEF Diff, DiffRow
    <3>2. eventAt \in DiffStages
      BY <2>2, <2>5 DEF Diff
    <3>3. \A l : [eventAt EXCEPT !.found = @ \ {l}].at = "diff"
      BY <3>2 DEF DiffStages
    <3>4. IdleEvent.at = "idle"
      BY DEF IdleEvent
    <3> QED
      BY <2>1, <3>1, <3>3, <3>4
  <2> QED
    BY <2>3, <2>4, <2>5 DEF Reconcile
<1>4. LinksKept(o)
  BY <1>1, <1>3 DEF LinksKept, Moving
<1>5. CASE UNCHANGED <<rows, cmds>>
  BY <1>1, <1>2, <1>4, <1>5, Untouched, KeptKeeps DEF Kept
<1>6. ASSUME eventAt.at = "diff", NEW l \in eventAt.found, DiffRow(l) PROVE OrderInv(o)'
  <2>1. /\ l.of \in Orders /\ FetchHistory(l.of) \in Commands
        /\ cmds' = cmds \/ cmds' = Append(cmds, FetchHistory(l.of))
    BY <1>6, DiffStep
  <2>2. /\ FetchHistory(l.of) \notin OpenCmds(o)
        /\ FetchHistory(l.of) \notin Of(Commands, "close", o)
    BY DEF FetchHistory, OpenCmds, Of
  <2>3. AnswersKept(o)
    BY <1>a, <1>1, <2>1, <2>2, CommandWritten, Untouched
  <2>4. RowKept(o)
    <3>1. CASE UNCHANGED rows
      BY <3>1, Untouched
    <3>2. CASE UpdateOrder(l.of, [rows[l.of] EXCEPT !.p_status = "unknown"])
      <4> DEFINE row == [rows[l.of] EXCEPT !.p_status = "unknown"]
      <4>1. rows[l.of] \in Rows /\ UpdateOrder(l.of, row)
        BY <1>a, <2>1, <3>2 DEF StoreTypeOK, Exists, UpdateOrder
      <4>2. row \in Rows /\ row.status = rows[l.of].status /\ row.broker = rows[l.of].broker
        BY <4>1 DEF Rows, PStatuses
      <4> HIDE DEF row
      <4> QED
        BY <1>a, <2>1, <4>1, <4>2, RowPatched DEF RowKept, Status
    <3> QED
      BY <1>6, <3>1, <3>2 DEF DiffRow
  <2> QED
    BY <1>2, <1>4, <2>3, <2>4, KeptKeeps DEF Kept
<1> QED
  BY <1>5, <1>6 DEF Reconcile, ListOpen, BeginDiff, Diff

LEMMA EventsKeep ==
  ASSUME Typed, EventLoop, UNCHANGED requests, NEW o \in Orders, OrderInv(o)
  PROVE  OrderInv(o)'
<1>1. events # <<>> => Head(events) \in Events
  BY DEF Typed, TypeOK, AccountTypeOK
<1> QED
  BY <1>1, PositionClosedKeeps, WaitingEndsKeeps, OtherEventKeeps, ReindexKeeps, ReconcileKeeps
     DEF EventLoop

-----------------------------------------------------------------------------
(* The account and the client.                                             *)

\* The account tells an event of order p, or it is missed.
LEMMA EventWritten ==
  ASSUME AccountTypeOK, NEW e \in Events, UNCHANGED effect, NEW o \in Orders,
         events' = events \/ events' = Append(events, e)
  PROVE  /\ e \notin EventsOf(o) => EventsKept(o)
         /\ Told(o)' => Told(o) \/ e \in EventsOf(o)
         /\ Leaving(o)' => Leaving(o) \/ e \in LeavesOf(o)
         /\ HasOnce(events, LeavesOf(o)) /\ (e \in LeavesOf(o) => ~ Leaving(o)) =>
              HasOnce(events', LeavesOf(o))
<1>1. events \in Seq(Events)
  BY DEF AccountTypeOK
<1>2. \A S : Has(events', S) => Has(events, S) \/ e \in S
  BY <1>1, AppendHas
<1>3. HasOnce(events, LeavesOf(o)) /\ (e \in LeavesOf(o) => ~ Has(events, LeavesOf(o))) =>
        HasOnce(events', LeavesOf(o))
  <2>1. CASE events' = events
    BY <2>1
  <2>2. CASE events' = Append(events, e)
    BY <1>1, <2>2, AppendHas
  <2> QED
    BY <2>1, <2>2
<1>4. /\ Has(events', EventsOf(o)) => Has(events, EventsOf(o)) \/ e \in EventsOf(o)
      /\ Has(events', LeavesOf(o)) => Has(events, LeavesOf(o)) \/ e \in LeavesOf(o)
  BY <1>2
<1>5. e \in LeavesOf(o) => e \in EventsOf(o)
  BY DEF LeavesOf
<1> QED
  BY <1>3, <1>4, <1>5 DEF EventsKept, Told, Leaving

LEMMA AccountKeeps ==
  ASSUME Typed, Account, UNCHANGED <<storeVars, loopVars, requests>>, NEW o \in Orders, OrderInv(o)
  PROVE  OrderInv(o)'
<1>a. AccountTypeOK /\ AccountTypeOK'
  BY AccountTyped DEF Typed, TypeOK
<1>b. PICK p \in Orders : Trigger(p) \/ CancelAtBroker(p) \/ CloseAtBroker(p) \/ EditAtBroker(p)
  BY DEF Account
<1>c. account \in [Orders -> [state : {"none", "working", "open", "closed", "cancelled"},
                              stops : 0 .. MaxStops]]
  BY <1>a DEF AccountTypeOK
<1>1. PICK type \in {"position_closed", "pending_filled", "position_modified", "order_cancelled"},
           n \in 0 .. MaxStops :
        /\ events' = events \/ events' = Append(events, OrderEvent(type, p, n))
        /\ type = "pending_filled"    => State(p) = "working" /\ State(p)' = "open"
        /\ type = "order_cancelled"   => State(p) = "working" /\ State(p)' = "cancelled"
        /\ type = "position_closed"   => State(p) = "open" /\ State(p)' = "closed"
        /\ type = "position_modified" => State(p) = "open" /\ State(p)' = "open"
  <2>1. edits' \in 0 .. MaxStops /\ 0 \in 0 .. MaxStops
    BY <1>a, OrderAssumption DEF AccountTypeOK
  <2>2. CASE Trigger(p)
    BY <1>c, <2>1, <2>2 DEF Trigger, Push, State
  <2>3. CASE CancelAtBroker(p)
    BY <1>c, <2>1, <2>3 DEF CancelAtBroker, Push, State
  <2>4. CASE CloseAtBroker(p)
    BY <1>c, <2>1, <2>4 DEF CloseAtBroker, Push, State
  <2>5. CASE EditAtBroker(p)
    BY <1>c, <2>1, <2>5 DEF EditAtBroker, State
  <2> QED
    BY <1>b, <2>2, <2>3, <2>4, <2>5
<1>2. /\ UNCHANGED <<rows, brokerIndex, respAt, eventAt, cmds, answer, resps, effect>>
      /\ o # p => State(o)' = State(o)
      /\ UNCHANGED lost \/ \E kind \in {"event", "edit"} : Lose(p, kind)
  BY <1>b, <1>c DEF Trigger, CancelAtBroker, CloseAtBroker, EditAtBroker, Push, State, clientVars,
                    storeVars, loopVars
<1>3. RowKept(o) /\ LinksKept(o) /\ RequestsKept(o) /\ AnswersKept(o)
  BY <1>2, Untouched DEF loopVars
<1>4. LossesKept(o)
  BY <1>a, <1>2, Untouched, LoseKeeps
<1> DEFINE e == OrderEvent(type, p, n)
<1>5. e \in Events /\ e \in OrderEvents /\ e.type = type /\ e.of = p
  BY OrderEventTyped
<1>6. events' = events \/ events' = Append(events, e)
  BY <1>1
<1> HIDE DEF e
<1>7. /\ e \in EventsOf(o) <=> o = p
      /\ e \in LeavesOf(o) <=> o = p /\ type \in {"pending_filled", "order_cancelled"}
  BY <1>5 DEF EventsOf, LeavesOf
<1>8. /\ e \notin EventsOf(o) => EventsKept(o)
      /\ Told(o)' => Told(o) \/ e \in EventsOf(o)
      /\ Leaving(o)' => Leaving(o) \/ e \in LeavesOf(o)
      /\ HasOnce(events, LeavesOf(o)) /\ (e \in LeavesOf(o) => ~ Leaving(o)) =>
           HasOnce(events', LeavesOf(o))
  BY <1>a, <1>2, <1>5, <1>6, EventWritten
<1>9. CASE o # p
  BY <1>2, <1>3, <1>4, <1>7, <1>8, <1>9, KeptKeeps DEF Kept, StateKept
<1>10. CASE o = p
  <2>1. /\ State(o) \in {"working", "open"} /\ State(o)' \in {"open", "closed", "cancelled"}
        /\ type \in {"pending_filled", "order_cancelled"} => State(o) = "working"
        /\ type \notin {"pending_filled", "order_cancelled"} =>
             State(o) = "open" /\ State(o)' \in {"open", "closed"}
    BY <1>1, <1>10
  <2>2. ~ Stored(o)' /\ ~ Sent(o)' /\ Status(o) \in Statuses
    BY <1>3, <2>1 DEF OrderInv, NothingBeforeOpen, RequestsKept, AnswersKept, PlacesKept
  <2>3. NothingBeforeOpen(o)'
    BY <1>3, <2>1, <2>2 DEF NothingBeforeOpen, RowKept
  <2>4. e \in LeavesOf(o) => ~ Leaving(o) /\ Status(o) \in {"pending", "rejected"} /\ ~ Filling(o)
    BY <1>7, <2>1 DEF OrderInv, LeavesOnce, FilledAtOnce
  <2>5. LeavesOnce(o)'
    BY <1>2, <1>3, <1>8, <2>1, <2>4 DEF OrderInv, LeavesOnce, RowKept
  <2>6. Filling(o) => type \notin {"pending_filled", "order_cancelled"}
    BY <2>1 DEF OrderInv, FilledAtOnce
  <2>7. FilledAtOnce(o)'
    BY <1>3, <1>7, <1>8, <2>1, <2>6 DEF OrderInv, FilledAtOnce, AnswersKept
  <2>8. RefusedIsNone(o)'
    BY <1>3, <1>4, <2>1 DEF OrderInv, RefusedIsNone, RowKept, LossesKept, AnswersKept
  <2> QED
    BY <1>3, <1>4, <2>3, <2>5, <2>7, <2>8, PartsKept DEF OrderInv, AnswersKept
<1> QED
  BY <1>9, <1>10

\* The command in hand, as the account and the answer have it.
LEMMA Handling ==
  ASSUME AccountTypeOK, NEW c \in Commands,
         Executes(c) \/ Refuses(c) \/ ExecutesInDoubt(c) \/ FetchesHistory(c)
  PROVE  \E ok, filled \in BOOLEAN :
           /\ answer = NoAnswer /\ answer' = Reply(c, ok, filled) /\ cmds' = Tail(cmds)
           /\ UNCHANGED <<resps, events>>
           /\ UNCHANGED lost \/ \E kind \in Losses : Lose(c.of, kind)
           /\ \A o \in Orders : o # c.of => State(o)' = State(o)
           /\ c.act = "open" =>
                /\ State(c.of)' \in {"open", "working", State(c.of)}
                /\ filled => State(c.of)' = "open"
                /\ State(c.of)' = State(c.of) \/ ok \/ "doubt" \in lost'[c.of]
                /\ effect' \in {effect, NoEffect}
           /\ c.act # "open" =>
                /\ State(c.of)' = State(c.of) \/ (State(c.of) = "open" /\ State(c.of)' = "closed")
                /\ effect' \in {effect, NoEffect} \/ (effect' = Effect(c) /\ State(c.of)' # "none")
<1>a. /\ account \in [Orders -> [state : {"none", "working", "open", "closed", "cancelled"},
                                 stops : 0 .. MaxStops]]
      /\ lost \in [Orders -> SUBSET Losses] /\ c.of \in Orders /\ c.stops \in 0 .. MaxStops
  BY CommandTyped DEF AccountTypeOK
<1>1. ASSUME Performs(c)
      PROVE  /\ \A o \in Orders : o # c.of => State(o)' = State(o)
             /\ c.act = "open" =>
                  /\ State(c.of)' \in {"open", "working"}
                  /\ c.type = "market" => State(c.of)' = "open"
             /\ c.act # "open" => /\ State(c.of) = "open" /\ State(c.of)' \in {"open", "closed"}
  <2>1. CASE c.act = "open"
    BY <1>a, <1>1, <2>1 DEF Performs, Opened, State
  <2>2. CASE c.act # "open"
    BY <1>a, <1>1, <2>2 DEF Performs, State
  <2> QED
    BY <2>1, <2>2
<1>2. answer = NoAnswer /\ cmds' = Tail(cmds) /\ UNCHANGED <<resps, events>>
  BY DEF Executes, Refuses, ExecutesInDoubt, FetchesHistory, Take
<1>3. CASE Executes(c)
  <2> DEFINE filled == c.act = "open" /\ c.type = "market"
  <2>1. /\ Performs(c) /\ answer' = Reply(c, TRUE, filled) /\ effect' = Effect(c) /\ UNCHANGED lost
        /\ filled \in BOOLEAN /\ (filled => c.act = "open" /\ c.type = "market")
    BY <1>3 DEF Executes
  <2>2. c.act = "open" => effect' = NoEffect
    BY <2>1 DEF Effect
  <2> HIDE DEF filled
  <2> USE <2>1
  <2> WITNESS TRUE \in BOOLEAN, filled \in BOOLEAN
  <2> QED
    BY <1>1, <1>2, <2>1, <2>2
<1>4. CASE Refuses(c)
  <2>1. /\ answer' = Reply(c, FALSE, FALSE) /\ UNCHANGED <<account, effect, lost>>
    BY <1>4 DEF Refuses
  <2>2. \A o \in Orders : State(o)' = State(o)
    BY <2>1 DEF State
  <2> WITNESS FALSE \in BOOLEAN, FALSE \in BOOLEAN
  <2> QED
    BY <1>a, <1>2, <2>1, <2>2
<1>5. CASE ExecutesInDoubt(c)
  <2>1. /\ Performs(c) /\ answer' = Reply(c, FALSE, FALSE)
        /\ \/ /\ effect' = NoEffect
              /\ Lose(c.of, CASE c.act = "open"  -> "doubt"
                              [] c.act = "close" -> "event"
                              [] OTHER           -> "edit")
           \/ /\ c.act # "open" /\ effect' = Effect(c)
              /\ UNCHANGED lost \/ Lose(c.of, "edit")
    BY <1>5 DEF ExecutesInDoubt
  <2>2. UNCHANGED lost \/ \E kind \in Losses : Lose(c.of, kind)
    BY <2>1 DEF Losses
  <2>3. c.act = "open" => "doubt" \in lost'[c.of] /\ effect' = NoEffect
    BY <1>a, <2>1 DEF Lose
  <2> WITNESS FALSE \in BOOLEAN, FALSE \in BOOLEAN
  <2> QED
    BY <1>1, <1>2, <2>1, <2>2, <2>3
<1>6. CASE FetchesHistory(c)
  <2>1. PICK ok \in BOOLEAN :
          /\ answer' = Reply(c, ok, FALSE) /\ UNCHANGED account /\ c.act # "open"
          /\ effect' = NoEffect \/ (effect' = Effect(c) /\ account[c.of].state = "closed")
          /\ UNCHANGED lost \/ Lose(c.of, "history")
    BY <1>6 DEF FetchesHistory
  <2>2. \A o \in Orders : State(o)' = State(o)
    BY <2>1 DEF State
  <2>3. effect' = NoEffect \/ (effect' = Effect(c) /\ State(c.of)' # "none")
    BY <2>1, <2>2, <1>a DEF State
  <2>4. UNCHANGED lost \/ \E kind \in Losses : Lose(c.of, kind)
    BY <2>1 DEF Losses
  <2> WITNESS ok \in BOOLEAN, FALSE \in BOOLEAN
  <2> QED
    BY <1>a, <1>2, <2>1, <2>2, <2>3, <2>4
<1> QED
  BY <1>3, <1>4, <1>5, <1>6

LEMMA CommandRead ==
  ASSUME AccountTypeOK, cmds # <<>>, NEW c \in Commands, c = Head(cmds), cmds' = Tail(cmds),
         NEW ok \in BOOLEAN, NEW filled \in BOOLEAN, answer = NoAnswer, answer' = Reply(c, ok, filled),
         UNCHANGED resps, NEW o \in Orders, HasOnce(cmds, OpenCmds(o))
  PROVE  /\ Sent(o)' => Sent(o)
         /\ c \in OpenCmds(o) => Sent(o) /\ ~ Sent(o)'
         /\ (Held(o)' <=> c \in OpenCmds(o)) /\ ~ Held(o)
         /\ Answered(o)' <=> Answered(o)
         /\ HasOnce(cmds', OpenCmds(o))
         /\ HasOnce(resps, OpenResps(o)) => HasOnce(resps', OpenResps(o))
         /\ Filling(o)' => Filling(o) \/ (c \in OpenCmds(o) /\ filled)
         /\ Refusing(o)' => Refusing(o) \/ (c \in OpenCmds(o) /\ ~ ok)
         /\ Closing(o)' => Closing(o)
<1>1. cmds \in Seq(Commands)
  BY DEF AccountTypeOK
<1>2. \A S : Has(cmds, S) <=> Has(cmds', S) \/ c \in S
  BY <1>1, TailHas
<1>3. HasOnce(cmds', OpenCmds(o)) /\ (c \in OpenCmds(o) => ~ Has(cmds', OpenCmds(o)))
  BY <1>1, TailHas
<1>4. /\ Has(cmds', OpenCmds(o)) => Has(cmds, OpenCmds(o))
      /\ c \in OpenCmds(o) => Has(cmds, OpenCmds(o))
      /\ Has(cmds', Of(Commands, "close", o)) => Has(cmds, Of(Commands, "close", o))
      /\ c \in Of(Commands, "close", o) => Has(cmds, Of(Commands, "close", o))
  BY <1>2
<1>5. answer' \in Responses /\ answer \notin Responses
  BY CommandTyped, NoAnswerIsNone
<1>6. /\ answer'.act = c.act /\ answer'.of = c.of /\ answer'.ok = ok /\ answer'.filled = filled
  BY DEF Reply
<1>7. /\ answer' \in OpenResps(o) <=> c \in OpenCmds(o)
      /\ answer' \in Fills(o) <=> c \in OpenCmds(o) /\ filled
      /\ answer' \in Refusals(o) <=> c \in OpenCmds(o) /\ ~ ok
      /\ answer' \in Of(Responses, "close", o) <=> c \in Of(Commands, "close", o)
      /\ answer \notin OpenResps(o)
  BY <1>5, <1>6 DEF OpenResps, OpenCmds, Fills, Refusals, Of
<1> QED
  BY <1>3, <1>4, <1>7 DEF Sent, Held, Answered, Filling, Refusing, Closing

LEMMA HandleKeeps ==
  ASSUME Typed, HandleCommand, UNCHANGED <<storeVars, loopVars, requests>>,
         NEW o \in Orders, OrderInv(o)
  PROVE  OrderInv(o)'
<1>a. AccountTypeOK /\ Head(cmds) \in Commands /\ cmds # <<>>
  BY DEF Typed, TypeOK, AccountTypeOK, HandleCommand
<1>b. PICK c \in Commands :
        /\ c = Head(cmds)
        /\ Executes(c) \/ Refuses(c) \/ ExecutesInDoubt(c) \/ FetchesHistory(c)
  BY <1>a DEF HandleCommand
<1>1. PICK ok \in BOOLEAN, filled \in BOOLEAN :
           /\ answer = NoAnswer /\ answer' = Reply(c, ok, filled) /\ cmds' = Tail(cmds)
           /\ UNCHANGED <<resps, events>>
           /\ UNCHANGED lost \/ \E kind \in Losses : Lose(c.of, kind)
           /\ \A p \in Orders : p # c.of => State(p)' = State(p)
           /\ c.act = "open" =>
                /\ State(c.of)' \in {"open", "working", State(c.of)}
                /\ filled => State(c.of)' = "open"
                /\ State(c.of)' = State(c.of) \/ ok \/ "doubt" \in lost'[c.of]
                /\ effect' \in {effect, NoEffect}
           /\ c.act # "open" =>
                /\ State(c.of)' = State(c.of) \/ (State(c.of) = "open" /\ State(c.of)' = "closed")
                /\ effect' \in {effect, NoEffect} \/ (effect' = Effect(c) /\ State(c.of)' # "none")
  BY <1>a, <1>b, Handling
<1>c. c.of \in Orders
  BY CommandTyped
<1>2. /\ Sent(o)' => Sent(o)
      /\ c \in OpenCmds(o) => Sent(o) /\ ~ Sent(o)'
      /\ (Held(o)' <=> c \in OpenCmds(o)) /\ ~ Held(o)
      /\ Answered(o)' <=> Answered(o)
      /\ HasOnce(cmds', OpenCmds(o))
      /\ HasOnce(resps, OpenResps(o)) => HasOnce(resps', OpenResps(o))
      /\ Filling(o)' => Filling(o) \/ (c \in OpenCmds(o) /\ filled)
      /\ Refusing(o)' => Refusing(o) \/ (c \in OpenCmds(o) /\ ~ ok)
      /\ Closing(o)' => Closing(o)
  BY <1>a, <1>b, <1>1, CommandRead DEF OrderInv, OneOpen
<1>3. /\ RowKept(o) /\ LinksKept(o) /\ RequestsKept(o)
  BY Untouched DEF storeVars, loopVars
<1>4. LossesKept(o)
  BY <1>a, <1>c, <1>1, Untouched, LoseKeeps
<1>5. /\ (Told(o)' <=> Told(o)) /\ (Leaving(o)' <=> Leaving(o))
      /\ HasOnce(events, LeavesOf(o)) => HasOnce(events', LeavesOf(o))
  BY <1>1 DEF Told, Leaving
<1>6. NoEffect \notin EventsOf(o) /\ NoEffect \notin LeavesOf(o)
  BY LeavesAre
<1>7. c.act # "open" => /\ Effect(c) \in EventsOf(o) => o = c.of
                        /\ Effect(c) \notin LeavesOf(o)
  BY LeavesAre DEF Effect, OrderEvent, EventsOf
<1>8. c \in OpenCmds(o) <=> c.act = "open" /\ c.of = o
  BY DEF OpenCmds, Of
<1>9. CASE o # c.of
  <2>1. StateKept(o) /\ AnswersKept(o)
    BY <1>1, <1>2, <1>8, <1>9 DEF StateKept, AnswersKept, PlacesKept
  <2>2. EventsKept(o)
    BY <1>1, <1>5, <1>6, <1>7, <1>9 DEF EventsKept, LeavesOf
  <2> QED
    BY <1>3, <1>4, <2>1, <2>2, KeptKeeps DEF Kept
<1>10. CASE o = c.of /\ c.act # "open"
  <2>1. AnswersKept(o)
    BY <1>2, <1>8, <1>10 DEF AnswersKept, PlacesKept
  <2>2. State(o)' = State(o) \/ (State(o) = "open" /\ State(o)' = "closed")
    BY <1>1, <1>10
  <2>3. /\ effect' \in EventsOf(o) => effect \in EventsOf(o) \/ State(o)' # "none"
        /\ effect' \in LeavesOf(o) => effect \in LeavesOf(o)
    BY <1>1, <1>6, <1>7, <1>10
  <2>4. NothingBeforeOpen(o)'
    BY <1>3, <1>5, <2>1, <2>2, <2>3
       DEF OrderInv, NothingBeforeOpen, RowKept, RequestsKept, AnswersKept, PlacesKept
  <2>5. LeavesOnce(o)'
    BY <1>3, <1>5, <2>2, <2>3 DEF OrderInv, LeavesOnce, RowKept
  <2>6. FilledAtOnce(o)'
    BY <1>5, <2>1, <2>2 DEF OrderInv, FilledAtOnce, AnswersKept
  <2>7. RefusedIsNone(o)'
    BY <1>3, <1>4, <2>1, <2>2 DEF OrderInv, RefusedIsNone, RowKept, LossesKept, AnswersKept
  <2> QED
    BY <1>3, <1>4, <2>1, <2>4, <2>5, <2>6, <2>7, PartsKept DEF OrderInv, AnswersKept
<1>11. CASE o = c.of /\ c.act = "open"
  <2>1. Sent(o) /\ ~ Sent(o)' /\ Held(o)' /\ ~ Stored(o) /\ ~ Answered(o) /\ Opening(o)
    BY <1>2, <1>8, <1>11 DEF OrderInv, OneOpen, Opening
  <2>2. ~ Stored(o)' /\ ~ Answered(o)' /\ Status(o) = "pending" /\ State(o) = "none"
    BY <1>2, <1>3, <2>1 DEF OrderInv, FreshWhileOpening, NothingBeforeOpen, RequestsKept
  <2>3. ~ Told(o) /\ effect \notin EventsOf(o) /\ ~ Leaving(o) /\ ~ Filling(o)
    BY <2>2 DEF OrderInv, NothingBeforeOpen, LeavesOnce, FilledAtOnce
  <2>4. ~ Refusing(o)
    <3>1. Refusing(o) => Held(o) \/ Answered(o)
      BY DEF Refusing, Refusals, Held, Answered, Has
    <3> QED
      BY <1>2, <2>1, <3>1
  <2>5. /\ State(o)' \in {"open", "working", "none"} /\ (filled => State(o)' = "open")
        /\ State(o)' = "none" \/ ok \/ "doubt" \in lost'[o]
        /\ effect' \notin EventsOf(o) /\ effect' \notin LeavesOf(o)
    BY <1>1, <1>6, <1>11, <2>2, <2>3 DEF OrderInv, LeavesOnce
  <2>6. OneOpen(o)'
    BY <1>2, <1>3, <2>1, <2>2 DEF OrderInv, OneOpen, RequestsKept
  <2>7. FreshWhileOpening(o)'
    BY <1>3, <2>1 DEF OrderInv, FreshWhileOpening, RowKept, LinksKept
  <2>8. NothingBeforeOpen(o)'
    BY <1>3, <1>5, <2>1, <2>2, <2>3, <2>5 DEF NothingBeforeOpen, RowKept, Statuses
  <2>9. LeavesOnce(o)'
    BY <1>3, <1>5, <2>2, <2>3, <2>5 DEF OrderInv, LeavesOnce, RowKept
  <2>10. FilledAtOnce(o)'
    BY <1>2, <1>5, <2>3, <2>5 DEF FilledAtOnce
  <2>11. RefusedIsNone(o)'
    BY <1>2, <1>3, <2>2, <2>4, <2>5 DEF RefusedIsNone, RowKept
  <2> QED
    BY <1>2, <1>3, <1>4, <2>6, <2>7, <2>8, <2>9, <2>10, <2>11, PartsKept DEF OrderInv
<1> QED
  BY <1>9, <1>10, <1>11

LEMMA PublishEffectKeeps ==
  ASSUME Typed, PublishEffect, UNCHANGED <<storeVars, loopVars, requests>>,
         NEW o \in Orders, OrderInv(o)
  PROVE  OrderInv(o)'
<1>a. AccountTypeOK /\ events \in Seq(Events)
  BY DEF Typed, TypeOK, AccountTypeOK
<1>1. /\ effect # NoEffect /\ events' = Append(events, effect) /\ effect' = NoEffect
      /\ UNCHANGED <<account, answer, cmds, resps, lost>>
  BY DEF PublishEffect, accountVars
<1>2. /\ RowKept(o) /\ LinksKept(o) /\ RequestsKept(o) /\ StateKept(o) /\ LossesKept(o)
      /\ AnswersKept(o)
  BY <1>1, Untouched DEF storeVars, loopVars
<1>3. effect \in OrderEvents /\ effect \in Events
  BY <1>a, <1>1, NoEffectIsNone DEF AccountTypeOK
<1>4. \A S : Has(events', S) <=> Has(events, S) \/ effect \in S
  BY <1>a, <1>1, <1>3, AppendHas
<1>5. effect \notin LeavesOf(o)
  BY DEF OrderInv, LeavesOnce
<1>6. HasOnce(events', LeavesOf(o)) /\ (Leaving(o)' <=> Leaving(o))
  BY <1>a, <1>1, <1>3, <1>5, AppendHas DEF OrderInv, LeavesOnce, Leaving
<1>7. Told(o)' => Told(o) \/ effect \in EventsOf(o)
  BY <1>4 DEF Told
<1>8. effect' \notin EventsOf(o) /\ effect' \notin LeavesOf(o)
  BY <1>1, LeavesAre
<1>9. NothingBeforeOpen(o)'
  BY <1>2, <1>7, <1>8
     DEF OrderInv, NothingBeforeOpen, RowKept, StateKept, RequestsKept, AnswersKept, PlacesKept
<1>10. LeavesOnce(o)'
  BY <1>2, <1>6, <1>8 DEF OrderInv, LeavesOnce, RowKept, StateKept
<1>11. FilledAtOnce(o)'
  BY <1>2, <1>6 DEF OrderInv, FilledAtOnce, StateKept, AnswersKept
<1> QED
  BY <1>2, <1>9, <1>10, <1>11, PartsKept DEF OrderInv, AnswersKept

LEMMA RespondKeeps ==
  ASSUME Typed, Respond, UNCHANGED <<storeVars, loopVars, requests>>,
         NEW o \in Orders, OrderInv(o)
  PROVE  OrderInv(o)'
<1>a. AccountTypeOK /\ resps \in Seq(Responses)
  BY DEF Typed, TypeOK, AccountTypeOK
<1>1. /\ answer # NoAnswer /\ resps' = Append(resps, answer) /\ answer' = NoAnswer
      /\ UNCHANGED <<account, cmds, events, effect, lost>>
  BY DEF Respond, accountVars
<1>2. /\ RowKept(o) /\ LinksKept(o) /\ RequestsKept(o) /\ StateKept(o) /\ LossesKept(o)
      /\ EventsKept(o)
  BY <1>1, Untouched DEF storeVars, loopVars
<1>3. answer \in Responses /\ answer' \notin Responses
  BY <1>a, <1>1, NoAnswerIsNone DEF AccountTypeOK
<1>4. \A S : Has(resps', S) <=> Has(resps, S) \/ answer \in S
  BY <1>a, <1>1, <1>3, AppendHas
<1>5. /\ Has(resps', OpenResps(o)) <=> Has(resps, OpenResps(o)) \/ answer \in OpenResps(o)
      /\ Has(resps', Fills(o)) <=> Has(resps, Fills(o)) \/ answer \in Fills(o)
      /\ Has(resps', Refusals(o)) <=> Has(resps, Refusals(o)) \/ answer \in Refusals(o)
      /\ Has(resps', Of(Responses, "close", o)) <=>
           Has(resps, Of(Responses, "close", o)) \/ answer \in Of(Responses, "close", o)
  BY <1>4
<1>6. /\ answer' \notin OpenResps(o) /\ answer' \notin Fills(o) /\ answer' \notin Refusals(o)
      /\ answer' \notin Of(Responses, "close", o)
  BY <1>3 DEF OpenResps, Fills, Refusals, Of
<1>7. HasOnce(resps', OpenResps(o))
  BY <1>a, <1>1, <1>3, AppendHas DEF OrderInv, OneOpen, Held, Answered
<1>8. /\ Sent(o)' <=> Sent(o)
      /\ ~ Held(o)' /\ (Answered(o)' <=> Held(o) \/ Answered(o))
      /\ HasOnce(cmds', OpenCmds(o))
      /\ Filling(o)' => Filling(o)
      /\ Refusing(o)' => Refusing(o)
      /\ Closing(o)' => Closing(o)
  BY <1>1, <1>5, <1>6
     DEF OrderInv, OneOpen, Sent, Held, Answered, Filling, Refusing, Closing
<1>9. OneOpen(o)'
  BY <1>2, <1>7, <1>8 DEF OrderInv, OneOpen, RequestsKept
<1>10. FreshWhileOpening(o)'
  <2>1. Opening(o)' => Opening(o)
    BY <1>2, <1>8 DEF Opening, RequestsKept
  <2> QED
    BY <1>2, <2>1 DEF OrderInv, FreshWhileOpening, RowKept, LinksKept
<1>11. NothingBeforeOpen(o)'
  BY <1>2, <1>8 DEF OrderInv, NothingBeforeOpen, RowKept, StateKept, RequestsKept, EventsKept
<1> QED
  BY <1>2, <1>8, <1>9, <1>10, <1>11, PartsKept DEF OrderInv

\* The client's snapshot is no event of one order, and an answer that is lost
\* with the client is gone.
LEMMA SnapshotKeeps ==
  ASSUME Typed, GoDown \/ Connect \/ QuerySnapshot \/ PublishSnapshot \/ SkipSnapshot,
         UNCHANGED <<storeVars, loopVars, requests>>,
         NEW o \in Orders, OrderInv(o)
  PROVE  OrderInv(o)'
<1>a. AccountTypeOK
  BY DEF Typed, TypeOK
<1>1. /\ UNCHANGED <<account, cmds, resps>>
      /\ UNCHANGED <<answer, effect>> \/ (answer' = NoAnswer /\ effect' = NoEffect)
  BY DEF GoDown, Connect, QuerySnapshot, PublishSnapshot, SkipSnapshot, accountVars, streamVars
<1>2. /\ RowKept(o) /\ LinksKept(o) /\ RequestsKept(o) /\ StateKept(o)
  BY <1>1, Untouched DEF storeVars, loopVars
<1>3. LossesKept(o)
  <2>1. lost \in [Orders -> SUBSET Losses]
    BY <1>a DEF AccountTypeOK
  <2>2. CASE GoDown
    <3>1. lost' = lost \/ \E p : lost' = [lost EXCEPT ![p] = @ \cup {"answer"}]
      BY <2>2 DEF GoDown
    <3> QED
      BY <2>1, <3>1 DEF LossesKept
  <2>3. CASE SkipSnapshot
    BY <2>3 DEF SkipSnapshot, LossesKept
  <2>4. CASE Connect \/ QuerySnapshot \/ PublishSnapshot
    BY <2>4, Untouched DEF Connect, QuerySnapshot, PublishSnapshot
  <2> QED
    BY <2>2, <2>3, <2>4
<1>4. AnswersKept(o)
  <2>1. NoAnswer \notin Responses
    BY NoAnswerIsNone
  <2>2. answer' = answer \/ answer' \notin Responses
    BY <1>1, <2>1
  <2> QED
    BY <1>1, <2>2 DEF AnswersKept, PlacesKept, Sent, Held, Answered, Filling, Refusing, Closing,
                      OpenResps, Fills, Refusals, Of
<1>5. EventsKept(o)
  <2>1. CASE ~ PublishSnapshot
    <3>1. UNCHANGED events
      BY <2>1 DEF GoDown, Connect, QuerySnapshot, SkipSnapshot, streamVars
    <3> QED
      BY <1>1, <3>1, LeavesAre DEF EventsKept, Told, Leaving
  <2>2. CASE PublishSnapshot
    <3>1. PICK e \in Events : events' = Append(events, e) /\ e.type = "reconcile_snapshot"
      <4>1. client.snapshot \in Snapshots
        BY <1>a DEF AccountTypeOK
      <4> QED
        BY <2>2, <4>1 DEF PublishSnapshot, Snapshots, Events
    <3>2. e \notin EventsOf(o) /\ UNCHANGED effect
      BY <2>2, <3>1 DEF EventsOf, OrderEvents, PublishSnapshot
    <3> QED
      BY <1>a, <3>1, <3>2, EventWritten
  <2> QED
    BY <2>1, <2>2
<1> QED
  BY <1>2, <1>3, <1>4, <1>5, KeptKeeps DEF Kept

LEMMA CrashKeeps ==
  ASSUME Typed, Typed', Crash, NEW o \in Orders, OrderInv(o)
  PROVE  OrderInv(o)'
<1>1. PICK read \in 0 .. Len(resps), seen \in 0 .. Len(events) : CrashOf(read, seen)
  BY DEF Crash
<1>a. /\ resps \in Seq(Responses) /\ events \in Seq(Events) /\ requests \in Seq(RequestRecords)
      /\ lost \in [Orders -> SUBSET Losses] /\ requests' \in Seq(RequestRecords)
  BY DEF Typed, TypeOK, AccountTypeOK
<1>2. /\ UNCHANGED <<rows, brokerIndex, account, answer, effect, cmds>>
      /\ resps' = SubSeq(resps, read + 1, Len(resps))
      /\ events' = SubSeq(events, seen + 1, Len(events))
      /\ respAt' = NoId /\ eventAt' = IdleEvent
      /\ lost'[o] = IF Exists(o) THEN lost[o] \cup {"crash"} ELSE lost[o]
  BY <1>1 DEF CrashOf, storeVars, accountVars, clientVars
<1>3. RowKept(o) /\ StateKept(o) /\ LossesKept(o)
  BY <1>2, Untouched DEF LossesKept
<1>4. RequestsKept(o)
  <2>1. requests' = [i \in DOMAIN requests |->
           IF requests[i].at \in {"stored", "pushed"} THEN [requests[i] EXCEPT !.at = "dead"]
           ELSE requests[i]]
    BY <1>1 DEF CrashOf
  <2>2. ASSUME NEW i \in DOMAIN requests
        PROVE  /\ requests'[i].act = requests[i].act /\ requests'[i].of = requests[i].of
               /\ requests'[i].at = "stored" => requests[i].at = "stored"
    <3>1. requests[i] \in RequestRecords
      BY <1>a
    <3> QED
      BY <2>1, <3>1 DEF RequestRecords
  <2> QED
    BY <1>a, <2>1, <2>2, RequestsMoved
<1>5. AnswersKept(o)
  <2>1. /\ Has(resps', OpenResps(o)) => Has(resps, OpenResps(o))
        /\ Has(resps', Fills(o)) => Has(resps, Fills(o))
        /\ Has(resps', Refusals(o)) => Has(resps, Refusals(o))
        /\ Has(resps', Of(Responses, "close", o)) => Has(resps, Of(Responses, "close", o))
        /\ HasOnce(resps, OpenResps(o)) => HasOnce(resps', OpenResps(o))
    BY <1>a, <1>2, CutHas
  <2> QED
    BY <1>2, <2>1 DEF AnswersKept, PlacesKept, Sent, Held, Answered, Filling, Refusing, Closing
<1>6. EventsKept(o)
  <2>1. /\ Has(events', EventsOf(o)) => Has(events, EventsOf(o))
        /\ Has(events', LeavesOf(o)) => Has(events, LeavesOf(o))
        /\ HasOnce(events, LeavesOf(o)) => HasOnce(events', LeavesOf(o))
    BY <1>a, <1>2, CutHas
  <2> QED
    BY <1>2, <2>1 DEF EventsKept, Told, Leaving
<1>7. LinksKept(o)
  <2>1. NoId \notin {OrderId(o), PositionId(o)}
    BY SelfIds
  <2>2. ~ Moving(o)'
    BY <1>2, Stages DEF Moving
  <2>3. OrderId(o) \in brokerIndex => "crash" \in lost'[o]
    <3>1. OrderId(o) \in brokerIndex => Exists(o)
      BY NothingYet
    <3> QED
      BY <1>2, <3>1
  <2> QED
    BY <1>2, <2>1, <2>2, <2>3 DEF LinksKept
<1> QED
  BY <1>3, <1>4, <1>5, <1>6, <1>7, KeptKeeps DEF Kept

-----------------------------------------------------------------------------
(* The invariant.                                                          *)

LEMMA OrdersKeep ==
  ASSUME Typed, Typed', StoredIsOpen, [Next]_vars, NEW o \in Orders, OrderInv(o)
  PROVE  OrderInv(o)'
<1>1. CASE UNCHANGED vars
  BY <1>1, Untouched, KeptKeeps
     DEF vars, Kept, storeVars, accountVars, clientVars, streamVars, loopVars
<1>2. CASE Operator
  BY <1>2, CreateKeeps, AskKeeps DEF Operator
<1>3. CASE Service
  BY <1>3, PushKeeps, LinkKeeps DEF Service
<1>4. CASE Loops
  BY <1>4, ResponsesKeep, EventsKeep DEF Loops
<1>5. CASE Outside
  BY <1>5, AccountKeeps, HandleKeeps, PublishEffectKeeps, RespondKeeps, SnapshotKeeps
     DEF Outside, Client
<1>6. CASE Crash
  BY <1>6, CrashKeeps
<1> QED
  BY <1>1, <1>2, <1>3, <1>4, <1>5, <1>6 DEF Next

LEMMA StoredStaysOpen ==
  ASSUME Typed, Typed', StoredIsOpen, [Next]_vars PROVE StoredIsOpen'
<1>a. requests \in Seq(RequestRecords) /\ requests' \in Seq(RequestRecords)
  BY DEF Typed, TypeOK
<1>1. CASE UNCHANGED requests
  BY <1>1 DEF StoredIsOpen
<1>2. ASSUME NEW o \in Orders, NEW act, NEW n, NEW at, Ask(act, o, n, at),
             at = "stored" => act = "open"
      PROVE  StoredIsOpen'
  <2> DEFINE rec == [act |-> act, of |-> o, stops |-> n, at |-> at]
  <2>1. requests' = Append(requests, rec) /\ rec.act = act /\ rec.at = at
    BY <1>2 DEF Ask
  <2> HIDE DEF rec
  <2>2. \A i \in DOMAIN requests' : \/ i \in DOMAIN requests /\ requests'[i] = requests[i]
                                    \/ requests'[i] = rec
    BY <1>a, <2>1
  <2> QED
    BY <1>2, <2>1, <2>2 DEF StoredIsOpen
<1>3. CASE Operator
  BY <1>2, <1>3 DEF Operator, Create, Close, Modify
<1>4. CASE Service
  BY <1>a, <1>4, RequestPushed DEF Service, PushOpen, Link
<1>5. CASE Crash
  <2>1. requests' = [i \in DOMAIN requests |->
           IF requests[i].at \in {"stored", "pushed"} THEN [requests[i] EXCEPT !.at = "dead"]
           ELSE requests[i]]
    BY <1>5 DEF Crash, CrashOf
  <2>2. ASSUME NEW i \in DOMAIN requests
        PROVE  /\ requests'[i].act = requests[i].act
               /\ requests'[i].at = "stored" => requests[i].at = "stored"
    <3>1. requests[i] \in RequestRecords
      BY <1>a
    <3> QED
      BY <2>1, <3>1 DEF RequestRecords
  <2> QED
    BY <2>1, <2>2 DEF StoredIsOpen
<1> QED
  BY <1>1, <1>3, <1>4, <1>5 DEF Next, Loops, Outside, vars

\* The ways of a status: an order that waits is filled, rejected or cancelled,
\* one that was filled is closed.
StatusMove(s, t) ==
  \/ s = t
  \/ s = "pending" /\ t \in {"filled", "primary_filled", "rejected", "cancelled"}
  \/ s \in {"filled", "primary_filled"} /\ t = "closed"

LEMMA MoveByPatch ==
  ASSUME StoreTypeOK, NEW p \in Orders, NEW row \in Rows, UpdateOrder(p, row), NEW o \in Orders,
         p = o => StatusMove(Status(o), row.status)
  PROVE  StatusMove(Status(o), Status(o)')
BY RowPatched DEF RowKept, StatusMove

LEMMA AnswersMove ==
  ASSUME Typed, ResponseLoop, NEW o \in Orders, OrderInv(o) PROVE StatusMove(Status(o), Status(o)')
<1>a. StoreTypeOK /\ AccountTypeOK
  BY DEF Typed, TypeOK
<1>1. CASE UNCHANGED rows
  BY <1>1 DEF Status, StatusMove
<1>2. ASSUME resps # <<>>, NEW r \in Responses, r = Head(resps),
             \/ OpenSucceeded(r) \/ OpenFailed(r) \/ CloseSucceeded(r) \/ ModifyAnswered(r)
      PROVE  StatusMove(Status(o), Status(o)')
  <2>1. r.of \in Orders /\ r.stops \in 0 .. MaxStops /\ AnsweredId(r) \in Ids
    BY ResponseTyped
  <2>2. /\ r \in OpenResps(o) => Status(o) = "pending"
        /\ r \in Of(Responses, "close", o) => Status(o) \in {"filled", "closed"}
    <3>1. resps' = Tail(resps) /\ UNCHANGED <<cmds, answer>>
      BY <1>2 DEF OpenSucceeded, OpenFailed, CloseSucceeded, ModifyAnswered, Routed, TakeResponse,
                  clientVars
    <3>2. /\ r \in OpenResps(o) => Answered(o)
          /\ r \in Of(Responses, "close", o) => Closing(o)
      BY <1>a, <1>2, <3>1, AnswerRead DEF OrderInv, OneOpen
    <3> QED
      BY <3>2 DEF OrderInv, FreshWhileOpening, Opening, ClosesFilled
  <2>3. ASSUME NEW row, UpdateOrder(r.of, row) PROVE rows[r.of] \in Rows
    BY <1>a, <2>1, <2>3 DEF UpdateOrder, Exists, StoreTypeOK
  <2>4. CASE OpenSucceeded(r)
    <3> DEFINE row == [rows[r.of] EXCEPT !.status = IF r.filled THEN FilledStatus(r.of) ELSE "pending",
                                         !.p_status = IF r.filled THEN "filled" ELSE "pending",
                                         !.broker = AnsweredId(r)]
    <3>1. UpdateOrder(r.of, row) /\ r.act = "open"
      BY <2>4 DEF OpenSucceeded
    <3>2. rows[r.of] \in Rows
      BY <2>3, <3>1
    <3>3. row \in Rows /\ row.status \in {"filled", "primary_filled", "pending"}
      BY <2>1, <3>2, ResponseTyped DEF Rows, Statuses, PStatuses
    <3> HIDE DEF row
    <3>4. r.of = o => Status(o) = "pending"
      BY <2>2, <3>1 DEF OpenResps, Of
    <3> QED
      BY <1>a, <2>1, <3>1, <3>3, <3>4, MoveByPatch DEF StatusMove
  <2>5. CASE OpenFailed(r)
    <3> DEFINE row == [rows[r.of] EXCEPT !.status = "rejected", !.p_status = "rejected"]
    <3>1. UpdateOrder(r.of, row) /\ r.act = "open"
      BY <2>5 DEF OpenFailed
    <3>2. rows[r.of] \in Rows
      BY <2>3, <3>1
    <3>3. row \in Rows /\ row.status = "rejected"
      BY <3>2 DEF Rows, Statuses, PStatuses
    <3> HIDE DEF row
    <3>4. r.of = o => Status(o) = "pending"
      BY <2>2, <3>1 DEF OpenResps, Of
    <3> QED
      BY <1>a, <2>1, <3>1, <3>3, <3>4, MoveByPatch DEF StatusMove
  <2>6. CASE CloseSucceeded(r)
    <3>1. UpdateOrder(r.of, ClosedRow(r.of)) /\ r.act = "close"
      BY <2>6 DEF CloseSucceeded
    <3>2. ClosedRow(r.of) \in Rows /\ ClosedRow(r.of).status \in {Status(r.of), "closed"}
      BY <2>1, <2>3, <3>1, ClosedRowFields
    <3>3. r.of = o => Status(o) \in {"filled", "closed"}
      BY <2>2, <3>1 DEF Of
    <3> QED
      BY <1>a, <2>1, <3>1, <3>2, <3>3, MoveByPatch DEF StatusMove
  <2>7. CASE ModifyAnswered(r) /\ UpdateOrder(r.of, [rows[r.of] EXCEPT !.stops = r.stops])
    <3> DEFINE row == [rows[r.of] EXCEPT !.stops = r.stops]
    <3>1. UpdateOrder(r.of, row)
      BY <2>7
    <3>2. rows[r.of] \in Rows
      BY <2>3, <3>1
    <3>3. row \in Rows /\ row.status = Status(r.of)
      BY <2>1, <3>2 DEF Rows, Status
    <3> HIDE DEF row
    <3> QED
      BY <1>a, <2>1, <3>1, <3>3, MoveByPatch DEF StatusMove
  <2> QED
    BY <1>1, <1>2, <2>4, <2>5, <2>6, <2>7 DEF ModifyAnswered
<1>3. resps # <<>> => Head(resps) \in Responses
  BY <1>a DEF AccountTypeOK
<1> QED
  BY <1>1, <1>2, <1>3 DEF ResponseLoop, LinkAnswered, DropResponse, CloseFailed

LEMMA EventsMove ==
  ASSUME Typed, EventLoop, NEW o \in Orders, OrderInv(o) PROVE StatusMove(Status(o), Status(o)')
<1>a. StoreTypeOK /\ AccountTypeOK
  BY DEF Typed, TypeOK
<1>1. CASE UNCHANGED rows
  BY <1>1 DEF Status, StatusMove
<1>2. ASSUME events # <<>>, NEW e \in Events, e = Head(events), NEW type, Known(e, type),
             \/ PositionClosed(e) \/ PendingFilled(e) \/ PositionModified(e) \/ OrderCancelled(e)
      PROVE  StatusMove(Status(o), Status(o)')
  <2>1. /\ e.of \in Orders /\ e.stops \in 0 .. MaxStops /\ e \in EventsOf(e.of)
        /\ eventAt = IdleEvent /\ EventId(e) \in brokerIndex
        /\ events' = Tail(events) /\ UNCHANGED effect
    BY <1>2, EventKinds, KnownEvent DEF Known
  <2>2. Exists(e.of)
    BY <1>2 DEF PositionClosed, PendingFilled, PositionModified, OrderCancelled, UpdateOrder
  <2>3. rows[e.of] \in Rows
    BY <1>a, <2>1, <2>2 DEF StoreTypeOK, Exists
  <2>4. CASE PositionClosed(e)
    <3>1. UpdateOrder(e.of, ClosedRow(e.of)) /\ PositionId(e.of) \in brokerIndex
      BY <2>1, <2>4 DEF PositionClosed, Known, TakeEvent, EventId
    <3>2. ClosedRow(e.of) \in Rows /\ ClosedRow(e.of).status \in {Status(e.of), "closed"}
      BY <2>1, <2>3, ClosedRowFields
    <3>3. e.of = o => Status(o) \in {"filled", "primary_filled", "closed"}
      BY <3>1 DEF OrderInv, LinkedWasAccepted
    <3> QED
      BY <1>a, <2>1, <3>1, <3>2, <3>3, MoveByPatch DEF StatusMove
  <2>5. CASE PendingFilled(e) \/ OrderCancelled(e)
    <3>1. e \in LeavesOf(e.of) /\ OrderId(e.of) \in brokerIndex
      BY <2>1, <2>5, LeavesAre DEF PendingFilled, OrderCancelled, Known, TakeEvent, EventId
    <3>2. e.of = o => Status(o) = "pending"
      BY <1>a, <1>2, <2>1, <3>1, EndsWaiting
    <3>3. PICK row \in Rows : UpdateOrder(e.of, row) /\ row.status \in {"filled", "cancelled"}
      <4>1. CASE PendingFilled(e)
        <5> DEFINE row == [rows[e.of] EXCEPT !.status = "filled", !.p_status = "filled",
                                             !.broker = PositionId(e.of)]
        <5>1. row \in Rows /\ row.status = "filled"
          BY <2>1, <2>3, SelfIds DEF Rows, Statuses, PStatuses
        <5>2. UpdateOrder(e.of, row)
          BY <4>1 DEF PendingFilled
        <5> HIDE DEF row
        <5> QED
          BY <5>1, <5>2
      <4>2. CASE OrderCancelled(e)
        <5> DEFINE row == [rows[e.of] EXCEPT !.status = "cancelled", !.p_status = "cancelled"]
        <5>1. row \in Rows /\ row.status = "cancelled"
          BY <2>3 DEF Rows, Statuses, PStatuses
        <5>2. UpdateOrder(e.of, row)
          BY <4>2 DEF OrderCancelled
        <5> HIDE DEF row
        <5> QED
          BY <5>1, <5>2
      <4> QED
        BY <2>5, <4>1, <4>2
    <3> QED
      BY <1>a, <2>1, <3>2, <3>3, MoveByPatch DEF StatusMove
  <2>6. CASE PositionModified(e)
    <3> DEFINE row == [rows[e.of] EXCEPT !.stops = e.stops]
    <3>1. row \in Rows /\ row.status = Status(e.of)
      BY <2>1, <2>3 DEF Rows, Status
    <3>2. UpdateOrder(e.of, row)
      BY <2>6 DEF PositionModified
    <3> HIDE DEF row
    <3> QED
      BY <1>a, <2>1, <3>1, <3>2, MoveByPatch DEF StatusMove
  <2> QED
    BY <1>2, <2>4, <2>5, <2>6
<1>3. ASSUME eventAt.at = "diff", NEW l \in eventAt.found, DiffRow(l)
      PROVE  StatusMove(Status(o), Status(o)')
  <2>1. l.of \in Orders
    BY <1>3, DiffStep
  <2>2. CASE UpdateOrder(l.of, [rows[l.of] EXCEPT !.p_status = "unknown"])
    <3> DEFINE row == [rows[l.of] EXCEPT !.p_status = "unknown"]
    <3>1. rows[l.of] \in Rows /\ UpdateOrder(l.of, row)
      BY <1>a, <2>1, <2>2 DEF StoreTypeOK, Exists, UpdateOrder
    <3>2. row \in Rows /\ row.status = Status(l.of)
      BY <3>1 DEF Rows, PStatuses, Status
    <3> HIDE DEF row
    <3> QED
      BY <1>a, <2>1, <3>1, <3>2, MoveByPatch DEF StatusMove
  <2> QED
    BY <1>1, <1>3, <2>2 DEF DiffRow
<1>4. CASE ForgetOrderId \/ LinkPosition \/ DropOrderId \/ ListOpen \/ BeginDiff
  BY <1>1, <1>4 DEF ForgetOrderId, LinkPosition, DropOrderId, ListOpen, BeginDiff
<1>5. CASE Diff
  BY <1>1, <1>3, <1>5 DEF Diff
<1>6. ASSUME events # <<>>, NEW e \in Events, e = Head(events),
             \/ DropEvent(e) \/ PositionClosed(e) \/ PendingFilled(e)
             \/ PositionModified(e) \/ OrderCancelled(e) \/ ReadSnapshot(e)
      PROVE  StatusMove(Status(o), Status(o)')
  <2>1. CASE DropEvent(e) \/ ReadSnapshot(e)
    BY <1>1, <2>1 DEF DropEvent, ReadSnapshot
  <2>2. CASE PositionClosed(e) \/ PendingFilled(e) \/ PositionModified(e) \/ OrderCancelled(e)
    <3>1. PICK type : Known(e, type)
      BY <2>2 DEF PositionClosed, PendingFilled, PositionModified, OrderCancelled
    <3> QED
      BY <1>2, <1>6, <2>2, <3>1
  <2> QED
    BY <1>6, <2>1, <2>2
<1>7. events # <<>> => Head(events) \in Events
  BY <1>a DEF AccountTypeOK
<1> QED
  BY <1>4, <1>5, <1>6, <1>7 DEF EventLoop, Reconcile

LEMMA StatusMoves ==
  ASSUME Typed, [Next]_vars, NEW o \in Orders, OrderInv(o), Exists(o)
  PROVE  StatusMove(Status(o), Status(o)')
<1>1. CASE UNCHANGED rows
  BY <1>1 DEF Status, StatusMove
<1>2. CASE Operator
  <2>1. ASSUME NEW p \in Orders, NEW type \in Types, Create(p, type)
        PROVE  StatusMove(Status(o), Status(o)')
    <3>1. o # p /\ \E row : rows' = [rows EXCEPT ![p] = row]
      BY <2>1 DEF Create, CreateOrder
    <3> QED
      BY <3>1 DEF Typed, TypeOK, StoreTypeOK, Status, StatusMove
  <2>2. ASSUME NEW p \in Orders, Close(p) \/ Modify(p) PROVE StatusMove(Status(o), Status(o)')
    BY <1>1, <2>2 DEF Close, Modify, storeVars
  <2> QED
    BY <1>2, <2>1, <2>2 DEF Operator
<1>3. CASE Service \/ Outside \/ Crash
  BY <1>1, <1>3 DEF Service, PushOpen, Link, Outside, Crash, CrashOf, storeVars
<1> QED
  BY <1>1, <1>2, <1>3, AnswersMove, EventsMove DEF Next, Loops, vars, storeVars

-----------------------------------------------------------------------------
(* The reconciler's reading of the open orders.                            *)

\* An order that waits no more does not come back to it.
LEMMA WaitsNoMore ==
  ASSUME Typed, [Next]_vars, NEW o \in Orders, OrderInv(o), Exists(o), Status(o) # "pending"
  PROVE  Status(o)' # "pending"
BY StatusMoves DEF StatusMove

\* Who is looked at is in the sets that are listed.
LEMMA OpenAreListed ==
  ASSUME StoreTypeOK, StatusIndexAgrees
  PROVE  \A o \in OpenOrders :
           \/ Status(o) = "pending" /\ \E l \in ListByStatus("pending") : l.of = o
           \/ Status(o) = "filled" /\ \E l \in ListByStatus("filled") : l.of = o
<1> TAKE o \in OpenOrders
<1>1. /\ o \in byStatus["pending"] \/ o \in byStatus["filled"]
      /\ o \in Orders /\ {"pending", "filled"} \subseteq Statuses
  BY DEF OpenOrders, OpenStatuses, Statuses
<1>2. CASE o \in byStatus["pending"]
  BY <1>1, <1>2, ListedRows DEF StatusIndexAgrees, Status
<1>3. CASE o \in byStatus["filled"]
  BY <1>1, <1>3, ListedRows DEF StatusIndexAgrees, Status
<1> QED
  BY <1>1, <1>2, <1>3

LEMMA ReadKeeps ==
  ASSUME Typed, \A o \in Orders : OrderInv(o), ReadUnderEither, [Next]_vars
  PROVE  ReadUnderEither'
<1>a. StoreTypeOK /\ StatusIndexAgrees /\ eventAt \in EventStages
  BY DEF Typed, TypeOK
<1>b. eventAt.at = "list" => /\ eventAt \in ListStages
                             /\ \A o \in eventAt.owed : o \in Orders /\ Exists(o)
  BY <1>a, Stages DEF Typed, FoundExist, ListStages
<1>1. CASE UNCHANGED eventAt
  <2>1. ASSUME eventAt.at = "list", NEW o \in eventAt.owed, Status(o) # "pending"
        PROVE  Status(o)' # "pending"
    BY <1>b, <2>1, WaitsNoMore
  <2> QED
    BY <1>1, <2>1 DEF ReadUnderEither
<1>2. CASE eventAt'.at # "list"
  BY <1>2 DEF ReadUnderEither
<1>3. ASSUME NEW e, ReadSnapshot(e) PROVE ReadUnderEither'
  <2>1. eventAt'.left = 2
    BY <1>3 DEF ReadSnapshot, OpenStatuses
  <2> QED
    BY <2>1 DEF ReadUnderEither
<1>4. CASE ListOpen
  <2>1. /\ eventAt.at = "list" /\ eventAt.left \in {1, 2} /\ eventAt'.left = eventAt.left - 1
        /\ eventAt'.owed = eventAt.owed \cap OpenOrders
        /\ eventAt.left = 2 => eventAt'.found = eventAt.found \cup ListByStatus("pending")
        /\ eventAt.left = 1 => eventAt'.found = eventAt.found \cup ListByStatus("filled")
        /\ UNCHANGED rows
    BY <1>4, ListOpenStage DEF Typed, ListOpen
  <2>2. ASSUME NEW o \in eventAt'.owed
        PROVE  /\ eventAt'.left = 1 => Status(o)' # "pending" \/ \E l \in eventAt'.found : l.of = o
               /\ eventAt'.left = 0 => \E l \in eventAt'.found : l.of = o
    <3>1. o \in eventAt.owed /\ o \in OpenOrders /\ Status(o)' = Status(o)
      BY <2>1 DEF Status
    <3>2. \/ Status(o) = "pending" /\ \E l \in ListByStatus("pending") : l.of = o
          \/ Status(o) = "filled" /\ \E l \in ListByStatus("filled") : l.of = o
      BY <1>a, <3>1, OpenAreListed
    <3>3. CASE eventAt.left = 2
      <4>1. eventAt'.left = 1
        BY <2>1, <3>3
      <4> QED
        BY <2>1, <3>1, <3>2, <3>3, <4>1
    <3>4. CASE eventAt.left = 1
      <4>1. eventAt'.left = 0
        BY <2>1, <3>4
      <4>2. Status(o) # "pending" \/ \E l \in eventAt.found : l.of = o
        BY <2>1, <3>1, <3>4 DEF ReadUnderEither
      <4> QED
        BY <2>1, <3>2, <3>4, <4>1, <4>2
    <3> QED
      BY <2>1, <3>3, <3>4
  <2> QED
    BY <2>2 DEF ReadUnderEither
<1>5. CASE BeginDiff \/ ForgetOrderId \/ LinkPosition \/ DropOrderId \/ Diff
  <2>1. CASE Diff
    <3>1. eventAt \in DiffStages
      BY <1>a, <2>1, Stages DEF Diff
    <3>2. eventAt'.at # "list"
      BY <2>1, <3>1, Stages DEF Diff, DiffRow, DiffStages
    <3> QED
      BY <1>2, <3>2
  <2>2. CASE ForgetOrderId
    <3>1. eventAt \in [at : {"unlink", "link", "drop"}, of : Orders]
      BY <1>a, <2>2, Stages DEF ForgetOrderId, ListStages, DiffStages
    <3>2. eventAt'.at # "list"
      BY <2>2, <3>1 DEF ForgetOrderId
    <3> QED
      BY <1>2, <3>2
  <2>3. CASE BeginDiff \/ LinkPosition \/ DropOrderId
    <3>1. eventAt'.at # "list"
      BY <2>3, Stages DEF BeginDiff, LinkPosition, DropOrderId
    <3> QED
      BY <1>2, <3>1
  <2> QED
    BY <1>5, <2>1, <2>2, <2>3
<1>6. ASSUME NEW e, \/ DropEvent(e) \/ PositionClosed(e) \/ PendingFilled(e)
                    \/ PositionModified(e) \/ OrderCancelled(e)
      PROVE  ReadUnderEither'
  <2>1. UNCHANGED eventAt \/ eventAt'.at # "list"
    BY <1>6 DEF DropEvent, PositionClosed, PendingFilled, PositionModified, OrderCancelled
  <2> QED
    BY <1>1, <1>2, <2>1
<1>7. CASE EventLoop
  BY <1>3, <1>4, <1>5, <1>6, <1>7 DEF EventLoop, Reconcile
<1>8. CASE Crash
  <2>1. eventAt'.at # "list"
    BY <1>8, Stages DEF Crash, CrashOf
  <2> QED
    BY <1>2, <2>1
<1>9. CASE ResponseLoop
  <2>1. UNCHANGED eventAt
    BY <1>9 DEF ResponseLoop, DropResponse, OpenSucceeded, OpenFailed, CloseSucceeded, CloseFailed,
                ModifyAnswered, LinkAnswered, Routed, TakeResponse
  <2> QED
    BY <1>1, <2>1
<1>10. CASE Operator \/ Service \/ Outside \/ UNCHANGED vars
  <2>1. UNCHANGED eventAt
    BY <1>10 DEF Operator, Service, Outside, vars, loopVars, Create, Close, Modify, PushOpen, Link,
                 OutsideUnchanged
  <2> QED
    BY <1>1, <2>1
<1> QED
  BY <1>7, <1>8, <1>9, <1>10 DEF Next, Loops

-----------------------------------------------------------------------------
(* What holds of every order at every moment.                              *)

LEMMA InitInv == Init => Inv
<1> SUFFICES ASSUME Init PROVE Inv
  OBVIOUS
<1>1. Typed
  BY InitTyped
<1>2. /\ requests = <<>> /\ cmds = <<>> /\ resps = <<>> /\ events = <<>>
      /\ answer = NoAnswer /\ effect = NoEffect /\ respAt = NoId /\ eventAt = IdleEvent
      /\ brokerIndex = {} /\ \A o \in Orders : rows[o] = NoRow /\ account[o].state = "none"
  BY DEF Init, StoreInit, AccountInit, LoopInit
<1>3. StoredIsOpen /\ ReadUnderEither
  BY <1>2, Stages DEF StoredIsOpen, ReadUnderEither
<1>4. ASSUME NEW o \in Orders PROVE OrderInv(o)
  <2>1. /\ Status(o) = "none" /\ State(o) = "none" /\ ~ Moving(o)
        /\ Status(o) \notin Statuses \cup {"rejected"}
    BY <1>2, Stages DEF Status, State, Moving, NoRow, Statuses
  <2>2. \A S : /\ ~ Has(requests, S) /\ ~ Has(cmds, S) /\ ~ Has(resps, S) /\ ~ Has(events, S)
               /\ HasOnce(requests, S) /\ HasOnce(cmds, S) /\ HasOnce(resps, S) /\ HasOnce(events, S)
    BY <1>2 DEF Has, HasOnce
  <2>3. /\ \A act : answer \notin Of(Responses, act, o)
        /\ effect \notin EventsOf(o)
    BY <1>2, NoAnswerIsNone, NoEffectIsNone DEF Of, EventsOf
  <2>4. ~ Stored(o) /\ ~ Sent(o) /\ ~ Held(o) /\ ~ Answered(o) /\ ~ Told(o) /\ ~ Leaving(o)
    BY <2>2, <2>3 DEF Stored, Sent, Held, Answered, Told, Leaving, OpenResps
  <2>5. ~ Filling(o) /\ ~ Refusing(o) /\ ~ Closing(o) /\ effect \notin LeavesOf(o)
    BY <2>2, <2>3 DEF Filling, Refusing, Closing, Fills, Refusals, OpenResps, LeavesOf
  <2>6. {OrderId(o), PositionId(o)} \cap (brokerIndex \cup {respAt}) = {}
    BY <1>2, SelfIds
  <2>7. eventAt # [at |-> "unlink", of |-> o]
    BY <1>2 DEF IdleEvent
  <2>8. OneOpen(o) /\ FreshWhileOpening(o) /\ NothingBeforeOpen(o)
    BY <2>1, <2>2, <2>3, <2>4 DEF OneOpen, FreshWhileOpening, Opening, NothingBeforeOpen
  <2>9. LeavesOnce(o) /\ FilledAtOnce(o) /\ ClosesFilled(o) /\ RefusedIsNone(o)
    BY <2>1, <2>2, <2>4, <2>5 DEF LeavesOnce, FilledAtOnce, ClosesFilled, RefusedIsNone
  <2>10. LinkedWasAccepted(o) /\ IndexFollowsRow(o)
    BY <2>1, <2>6, <2>7 DEF LinkedWasAccepted, IndexFollowsRow
  <2> QED
    BY <2>8, <2>9, <2>10 DEF OrderInv
<1> QED
  BY <1>1, <1>3, <1>4 DEF Inv

LEMMA StepInv == Inv /\ [Next]_vars => Inv'
<1> SUFFICES ASSUME Inv, [Next]_vars PROVE Inv'
  OBVIOUS
<1>1. Typed /\ Typed'
  BY StepTyped DEF Inv
<1>2. \A o \in Orders : OrderInv(o)'
  BY <1>1, OrdersKeep DEF Inv
<1>3. StoredIsOpen' /\ ReadUnderEither'
  BY <1>1, StoredStaysOpen, ReadKeeps DEF Inv
<1> QED
  BY <1>1, <1>2, <1>3 DEF Inv

\* An event finds an order only by the id its row has: the two awaits by which
\* the event loop replaces the waiting order's id by the position's are the
\* only moment at which the index leads on, and a crash between them the only
\* way for this to last.
THEOREM LinksAreCurrent == Spec => []LinkedIdIsCurrent
<1>1. Inv => LinkedIdIsCurrent
  <2> SUFFICES ASSUME Inv, NEW id \in brokerIndex
               PROVE  \/ rows[id[2]].broker = id
                      \/ eventAt.at \in {"unlink", "drop"} /\ eventAt.of = id[2]
                      \/ "crash" \in lost[id[2]]
    BY DEF LinkedIdIsCurrent
  <2>1. id[2] \in Orders /\ (id = OrderId(id[2]) \/ id = PositionId(id[2]))
    BY IdsAre DEF Inv, Typed, TypeOK, StoreTypeOK
  <2>2. IndexFollowsRow(id[2])
    BY <2>1 DEF Inv, OrderInv
  <2> QED
    BY <2>1, <2>2 DEF IndexFollowsRow
<1> QED
  BY <1>1, InitInv, StepInv, PTL DEF Spec

\* The operator is told of a rejection only where the broker has nothing of
\* the order; the one exception is the open that was executed after the
\* client's timeout.
THEOREM RejectionIsTrue == Spec => []RejectedHasNoPosition
<1>1. Inv => RejectedHasNoPosition
  BY DEF Inv, OrderInv, RefusedIsNone, RejectedHasNoPosition, Status, State
<1> QED
  BY <1>1, InitInv, StepInv, PTL DEF Spec

\* The reconciler, which lists the waiting orders and then the filled ones
\* while other tasks move orders on, misses none that was open throughout.
THEOREM NoneOverlooked == Spec => []NoOpenOrderOverlooked
<1>1. Inv => NoOpenOrderOverlooked
  BY DEF Inv, ReadUnderEither, NoOpenOrderOverlooked
<1> QED
  BY <1>1, InitInv, StepInv, PTL DEF Spec

\* No answer and no event, late or repeated, takes an order out of closed,
\* rejected or cancelled, though the handlers do not look at the status.
THEOREM FinalStays == Spec => FinalIsFinal
<1>1. Inv /\ [Next]_vars =>
        [\A o \in Orders :
           Exists(o) /\ rows[o].status \in FinalStatuses => rows'[o].status = rows[o].status]_vars
  <2> SUFFICES ASSUME Inv, [Next]_vars, NEW o \in Orders, Exists(o), Status(o) \in FinalStatuses
               PROVE  rows'[o].status = rows[o].status
    BY DEF Status
  <2>1. StatusMove(Status(o), Status(o)')
    BY StatusMoves DEF Inv
  <2> QED
    BY <2>1 DEF StatusMove, FinalStatuses, Status
<1> QED
  BY <1>1, InitInv, StepInv, PTL DEF Spec, FinalIsFinal
=============================================================================
