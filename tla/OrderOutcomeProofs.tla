------------------------- MODULE OrderOutcomeProofs -------------------------
(***************************************************************************)
(* What the row of a single-leg order shows once nothing of the order is   *)
(* under way: that a position that is open is tracked, with the stops the  *)
(* account has.  The invariant of OrderRequestsProofs is taken as known;   *)
(* the parts added here account for every answer and event under way.      *)
(***************************************************************************)
EXTENDS OrderRequestsProofs

FillEvents(o)   == {e \in EventsOf(o) : e.type = "pending_filled"}
CancelEvents(o) == {e \in EventsOf(o) : e.type = "order_cancelled"}
CloseEvents(o)  == {e \in EventsOf(o) : e.type = "position_closed"}
StopsEvents(o)  == {e \in EventsOf(o) : e.type = "position_modified"}
CloseAnswers(o) == {r \in Of(Responses, "close", o) : r.ok}
StopsAnswers(o) == {r \in Of(Responses, "modify_sl_tp", o) : r.ok}

\* Who says that an order has ended says so after it ended.
EndsTold(o) ==
  /\ effect \in CloseEvents(o) \/ Has(events, CloseEvents(o)) => State(o) = "closed"
  /\ answer \in CloseAnswers(o) \/ Has(resps, CloseAnswers(o)) => State(o) = "closed"
  /\ Has(events, CancelEvents(o)) => State(o) = "cancelled"
  /\ eventAt = [at |-> "drop", of |-> o] => Status(o) = "cancelled"

\* The status of the leg follows that of the order.
LegFollows(o) ==
  /\ Status(o) = "pending" => rows[o].p_status \in {"pending", "unknown"}
  /\ Status(o) \in {"filled", "primary_filled"} => rows[o].p_status \in {"filled", "closed"}

\* A row the reconciler read as waiting, and may write, still waits.
FoundWaits(o) ==
  eventAt.at \in {"list", "diff"} =>
    \A l \in eventAt.found :
      l.of = o /\ l.row.p_status = "pending" /\ l.row.broker # NoId =>
        Status(o) = "pending" /\ rows[o].broker # NoId

\* The id in the row leads to it, or is about to.
RowIsIndexed(o) ==
  Exists(o) /\ "crash" \notin lost[o] =>
    /\ rows[o].broker = OrderId(o) /\ Status(o) = "pending" =>
         OrderId(o) \in brokerIndex \cup {respAt}
    /\ rows[o].broker = PositionId(o) =>
         PositionId(o) \in brokerIndex \cup {respAt} \/ Moving(o)

\* The row shows an open position, or an answer or an event will say so.
Shown(o) ==
  /\ Status(o) \in {"filled", "primary_filled"} /\ rows[o].p_status = "filled"
  /\ rows[o].broker = PositionId(o)
LiveAccounted(o) ==
  State(o) = "open" /\ lost[o] \cap {"answer", "event", "doubt", "crash"} = {} =>
    Filling(o) \/ Has(events, FillEvents(o)) \/ Shown(o)

EffectAnswered ==
  effect # NoEffect =>
    /\ answer # NoAnswer /\ answer.of = effect.of
    /\ effect.type = "position_modified" => answer.act = "modify_sl_tp"

AtStops(S, n) == {x \in S : x.stops = n}

\* Stops are set on what was opened only.
WithStops(S) == {x \in S : x.stops # 0}
OpensWithout(o) ==
  /\ ~ Has(requests, WithStops(OpenRequests(o))) /\ ~ Has(cmds, WithStops(OpenCmds(o)))
  /\ State(o) = "none" => account[o].stops = 0

\* The last word on the stops, in each stream and in the row when they are
\* empty, is what the account has.
EventsSay(o, n) ==
  /\ effect \in StopsEvents(o) => effect.stops = n
  /\ effect \notin StopsEvents(o) => LastIn(events, StopsEvents(o), AtStops(StopsEvents(o), n))
AnswersSay(o, n) ==
  /\ answer \in StopsAnswers(o) => answer.stops = n
  /\ answer \notin StopsAnswers(o) => LastIn(resps, StopsAnswers(o), AtStops(StopsAnswers(o), n))
StopsToCome(o) ==
  \/ effect \in StopsEvents(o) \/ Has(events, StopsEvents(o))
  \/ answer \in StopsAnswers(o) \/ Has(resps, StopsAnswers(o))
LastWord(o) ==
  LET now == account[o].stops IN
  lost[o] = {} =>
    /\ EventsSay(o, now) /\ AnswersSay(o, now)
    /\ Exists(o) => StopsToCome(o) \/ rows[o].stops = now

OutcomeInv(o) ==
  /\ EndsTold(o) /\ LegFollows(o) /\ FoundWaits(o) /\ RowIsIndexed(o) /\ LiveAccounted(o)
  /\ OpensWithout(o) /\ LastWord(o)

AccountedFor == Inv /\ EffectAnswered /\ \A o \in Orders : OutcomeInv(o)

-----------------------------------------------------------------------------
(* What a step does to the row of an order.                                *)

RowIs(o, status, leg, id, stops) ==
  /\ Status(o)' = status /\ rows'[o].p_status = leg
  /\ rows'[o].broker = id /\ rows'[o].stops = stops

CreateMoves(o) ==
  /\ ~ Exists(o) /\ \E type \in Types : Create(o, type)
  /\ RowIs(o, "pending", "pending", NoId, 0)

AnswerMoves(o) ==
  /\ Exists(o) /\ resps # <<>>
  /\ LET r == Head(resps) IN
     /\ r.of = o
     /\ \/ /\ OpenSucceeded(r)
           /\ RowIs(o, IF r.filled THEN FilledStatus(o) ELSE "pending",
                    IF r.filled THEN "filled" ELSE "pending", AnsweredId(r), rows[o].stops)
        \/ OpenFailed(r) /\ RowIs(o, "rejected", "rejected", rows[o].broker, rows[o].stops)
        \/ /\ CloseSucceeded(r)
           /\ \E s \in {Status(o), "closed"} : RowIs(o, s, "closed", rows[o].broker, rows[o].stops)
        \/ /\ ModifyAnswered(r) /\ r.ok
           /\ RowIs(o, Status(o), rows[o].p_status, rows[o].broker, r.stops)

EventMoves(o) ==
  /\ Exists(o) /\ events # <<>>
  /\ LET e == Head(events) IN
     /\ e \in EventsOf(o)
     /\ \/ /\ PositionClosed(e)
           /\ \E s \in {Status(o), "closed"} : RowIs(o, s, "closed", rows[o].broker, rows[o].stops)
        \/ PendingFilled(e) /\ RowIs(o, "filled", "filled", PositionId(o), rows[o].stops)
        \/ PositionModified(e) /\ RowIs(o, Status(o), rows[o].p_status, rows[o].broker, e.stops)
        \/ OrderCancelled(e) /\ RowIs(o, "cancelled", "cancelled", rows[o].broker, rows[o].stops)

DiffMoves(o) ==
  /\ Exists(o) /\ eventAt.at = "diff"
  /\ \E l \in eventAt.found : l.of = o /\ GoneOffline(l) /\ DiffRow(l)
  /\ EventStep
  /\ RowIs(o, Status(o), "unknown", rows[o].broker, rows[o].stops)

RowMoves(o) ==
  rows'[o] = rows[o] \/ CreateMoves(o) \/ AnswerMoves(o) \/ EventMoves(o) \/ DiffMoves(o)

LEMMA RowWritten ==
  ASSUME StoreTypeOK, NEW p \in Orders, NEW row, UpdateOrder(p, row), NEW o \in Orders
  PROVE  /\ Exists(p) /\ rows[p] \in Rows
         /\ o # p => rows'[o] = rows[o]
         /\ o = p => rows'[o] = row
<1>1. rows' = [rows EXCEPT ![p] = row] /\ Exists(p) /\ rows \in [Orders -> Rows \cup {NoRow}]
  BY DEF UpdateOrder, StoreTypeOK
<1> QED
  BY <1>1 DEF Exists

LEMMA FilledRowIs ==
  ASSUME NEW o \in Orders, rows[o] \in Rows, NEW s, NEW leg, NEW id,
         rows'[o] = [rows[o] EXCEPT !.status = s, !.p_status = leg, !.broker = id]
  PROVE  RowIs(o, s, leg, id, rows[o].stops)
BY DEF Rows, Status, RowIs

LEMMA EndedRowIs ==
  ASSUME NEW o \in Orders, rows[o] \in Rows, NEW s,
         rows'[o] = [rows[o] EXCEPT !.status = s, !.p_status = s]
  PROVE  RowIs(o, s, s, rows[o].broker, rows[o].stops)
BY DEF Rows, Status, RowIs

LEMMA ClosedRowIs ==
  ASSUME NEW o \in Orders, rows[o] \in Rows, rows'[o] = ClosedRow(o)
  PROVE  \E s \in {Status(o), "closed"} : RowIs(o, s, "closed", rows[o].broker, rows[o].stops)
BY DEF Rows, ClosedRow, Status, RowIs

LEMMA AnswerRows ==
  ASSUME Typed, ResponseLoop, NEW o \in Orders
  PROVE  rows'[o] = rows[o] \/ AnswerMoves(o)
<1>a. StoreTypeOK /\ AccountTypeOK
  BY DEF Typed, TypeOK
<1>1. CASE LinkAnswered
  BY <1>1 DEF LinkAnswered
<1>2. CASE resps # <<>>
  <2> DEFINE r == Head(resps)
  <2>1. r \in Responses /\ r.of \in Orders
    BY <1>a, <1>2, ResponseTyped DEF AccountTypeOK
  <2> HIDE DEF r
  <2>2. CASE OpenSucceeded(r)
    <3> DEFINE row == [rows[r.of] EXCEPT !.status = IF r.filled THEN FilledStatus(r.of) ELSE "pending",
                          !.p_status = IF r.filled THEN "filled" ELSE "pending",
                          !.broker = AnsweredId(r)]
    <3>1. UpdateOrder(r.of, row)
      BY <2>2 DEF OpenSucceeded
    <3>2. rows[r.of] \in Rows /\ Exists(r.of) /\ (o # r.of => rows'[o] = rows[o])
          /\ (o = r.of => rows'[o] = row)
      BY <1>a, <2>1, <3>1, RowWritten
    <3>3. o = r.of => RowIs(o, IF r.filled THEN FilledStatus(o) ELSE "pending",
                    IF r.filled THEN "filled" ELSE "pending", AnsweredId(r), rows[o].stops)
      BY <3>2, FilledRowIs, EndedRowIs
    <3> HIDE DEF row
    <3> QED
      BY <1>2, <2>2, <3>2, <3>3 DEF AnswerMoves, r
  <2>3. CASE OpenFailed(r)
    <3> DEFINE row == [rows[r.of] EXCEPT !.status = "rejected", !.p_status = "rejected"]
    <3>1. UpdateOrder(r.of, row)
      BY <2>3 DEF OpenFailed
    <3>2. rows[r.of] \in Rows /\ Exists(r.of) /\ (o # r.of => rows'[o] = rows[o])
          /\ (o = r.of => rows'[o] = row)
      BY <1>a, <2>1, <3>1, RowWritten
    <3>3. o = r.of => RowIs(o, "rejected", "rejected", rows[o].broker, rows[o].stops)
      BY <3>2, FilledRowIs, EndedRowIs
    <3> HIDE DEF row
    <3> QED
      BY <1>2, <2>3, <3>2, <3>3 DEF AnswerMoves, r
  <2>4. CASE CloseSucceeded(r)
    <3>1. UpdateOrder(r.of, ClosedRow(r.of))
      BY <2>4 DEF CloseSucceeded
    <3>2. rows[r.of] \in Rows /\ Exists(r.of) /\ (o # r.of => rows'[o] = rows[o])
          /\ (o = r.of => rows'[o] = ClosedRow(o))
      BY <1>a, <2>1, <3>1, RowWritten
    <3>3. o = r.of => \E s \in {Status(o), "closed"} :
                         RowIs(o, s, "closed", rows[o].broker, rows[o].stops)
      BY <3>2, ClosedRowIs
    <3> QED
      BY <1>2, <2>4, <3>2, <3>3 DEF AnswerMoves, r
  <2>5. CASE ModifyAnswered(r) /\ r.ok
    <3> DEFINE row == [rows[r.of] EXCEPT !.stops = r.stops]
    <3>1. UpdateOrder(r.of, row)
      BY <2>5 DEF ModifyAnswered
    <3>2. rows[r.of] \in Rows /\ Exists(r.of) /\ (o # r.of => rows'[o] = rows[o])
          /\ (o = r.of => rows'[o] = row)
      BY <1>a, <2>1, <3>1, RowWritten
    <3>3. o = r.of => RowIs(o, Status(o), rows[o].p_status, rows[o].broker, r.stops)
      BY <3>2 DEF Rows, RowIs, Status
    <3> HIDE DEF row
    <3> QED
      BY <1>2, <2>5, <3>2, <3>3 DEF AnswerMoves, r
  <2>6. CASE DropResponse(r) \/ CloseFailed(r) \/ (ModifyAnswered(r) /\ ~ r.ok)
    BY <2>6 DEF DropResponse, CloseFailed, ModifyAnswered
  <2> QED
    BY <1>1, <2>2, <2>3, <2>4, <2>5, <2>6 DEF ResponseLoop, r
<1> QED
  BY <1>1, <1>2 DEF ResponseLoop

LEMMA EventRows ==
  ASSUME Typed, EventLoop, NEW o \in Orders
  PROVE  rows'[o] = rows[o] \/ EventMoves(o) \/ DiffMoves(o)
<1>a. StoreTypeOK /\ AccountTypeOK
  BY DEF Typed, TypeOK
<1>1. ASSUME events # <<>>,
             LET e == Head(events) IN
               \/ PositionClosed(e) \/ PendingFilled(e) \/ PositionModified(e) \/ OrderCancelled(e)
      PROVE  rows'[o] = rows[o] \/ EventMoves(o)
  <2> DEFINE e == Head(events)
  <2>1. e \in Events
    BY <1>a, <1>1 DEF AccountTypeOK
  <2> HIDE DEF e
  <2>0. ASSUME NEW type, Known(e, type) PROVE e.of \in Orders /\ e \in EventsOf(e.of)
    BY <2>0, <2>1, KnownEvent
  <2>2. CASE PositionClosed(e)
    <3>1. UpdateOrder(e.of, ClosedRow(e.of)) /\ e.of \in Orders /\ e \in EventsOf(e.of)
      BY <2>0, <2>2 DEF PositionClosed
    <3>2. rows[e.of] \in Rows /\ Exists(e.of) /\ (o # e.of => rows'[o] = rows[o])
          /\ (o = e.of => rows'[o] = ClosedRow(o))
      BY <1>a, <3>1, RowWritten
    <3>3. o = e.of => \E s \in {Status(o), "closed"} :
                         RowIs(o, s, "closed", rows[o].broker, rows[o].stops)
      BY <3>2, ClosedRowIs
    <3> QED
      BY <1>1, <2>2, <3>1, <3>2, <3>3 DEF EventMoves, e
  <2>3. CASE PendingFilled(e)
    <3> DEFINE row == [rows[e.of] EXCEPT !.status = "filled", !.p_status = "filled",
                                         !.broker = PositionId(e.of)]
    <3>1. UpdateOrder(e.of, row) /\ e.of \in Orders /\ e \in EventsOf(e.of)
      BY <2>0, <2>3 DEF PendingFilled
    <3>2. rows[e.of] \in Rows /\ Exists(e.of) /\ (o # e.of => rows'[o] = rows[o])
          /\ (o = e.of => rows'[o] = row)
      BY <1>a, <3>1, RowWritten
    <3>3. o = e.of => RowIs(o, "filled", "filled", PositionId(o), rows[o].stops)
      BY <3>2, FilledRowIs, EndedRowIs
    <3> HIDE DEF row
    <3> QED
      BY <1>1, <2>3, <3>1, <3>2, <3>3 DEF EventMoves, e
  <2>4. CASE PositionModified(e)
    <3> DEFINE row == [rows[e.of] EXCEPT !.stops = e.stops]
    <3>1. UpdateOrder(e.of, row) /\ e.of \in Orders /\ e \in EventsOf(e.of)
      BY <2>0, <2>4 DEF PositionModified
    <3>2. rows[e.of] \in Rows /\ Exists(e.of) /\ (o # e.of => rows'[o] = rows[o])
          /\ (o = e.of => rows'[o] = row)
      BY <1>a, <3>1, RowWritten
    <3>3. o = e.of => RowIs(o, Status(o), rows[o].p_status, rows[o].broker, e.stops)
      BY <3>2 DEF Rows, RowIs, Status
    <3> HIDE DEF row
    <3> QED
      BY <1>1, <2>4, <3>1, <3>2, <3>3 DEF EventMoves, e
  <2>5. CASE OrderCancelled(e)
    <3> DEFINE row == [rows[e.of] EXCEPT !.status = "cancelled", !.p_status = "cancelled"]
    <3>1. UpdateOrder(e.of, row) /\ e.of \in Orders /\ e \in EventsOf(e.of)
      BY <2>0, <2>5 DEF OrderCancelled
    <3>2. rows[e.of] \in Rows /\ Exists(e.of) /\ (o # e.of => rows'[o] = rows[o])
          /\ (o = e.of => rows'[o] = row)
      BY <1>a, <3>1, RowWritten
    <3>3. o = e.of => RowIs(o, "cancelled", "cancelled", rows[o].broker, rows[o].stops)
      BY <3>2, FilledRowIs, EndedRowIs
    <3> HIDE DEF row
    <3> QED
      BY <1>1, <2>5, <3>1, <3>2, <3>3 DEF EventMoves, e
  <2> QED
    BY <1>1, <2>2, <2>3, <2>4, <2>5 DEF e
<1>2. ASSUME events # <<>>, LET e == Head(events) IN DropEvent(e) \/ ReadSnapshot(e)
      PROVE  rows'[o] = rows[o]
  BY <1>2 DEF DropEvent, ReadSnapshot
<1>3. CASE ForgetOrderId \/ LinkPosition \/ DropOrderId \/ ListOpen \/ BeginDiff
  BY <1>3 DEF ForgetOrderId, LinkPosition, DropOrderId, ListOpen, BeginDiff
<1>4. CASE Diff
  <2>1. eventAt.at = "diff" /\ EventStep
    BY <1>4 DEF Diff
  <2>2. ASSUME NEW l \in eventAt.found, DiffRow(l) PROVE rows'[o] = rows[o] \/ DiffMoves(o)
    <3>1. l.of \in Orders
      BY <2>1, <2>2, DiffStep
    <3>2. CASE GoneOffline(l)
      <4> DEFINE row == [rows[l.of] EXCEPT !.p_status = "unknown"]
      <4>1. UpdateOrder(l.of, row)
        BY <2>2, <3>2 DEF DiffRow
      <4>2. rows[l.of] \in Rows /\ Exists(l.of) /\ (o # l.of => rows'[o] = rows[o])
            /\ (o = l.of => rows'[o] = row)
        BY <1>a, <3>1, <4>1, RowWritten
      <4>3. o = l.of => RowIs(o, Status(o), "unknown", rows[o].broker, rows[o].stops)
        BY <4>2 DEF Rows, RowIs, Status
      <4> HIDE DEF row
      <4> QED
        BY <2>1, <2>2, <3>2, <4>2, <4>3 DEF DiffMoves
    <3>3. CASE ~ GoneOffline(l)
      BY <2>2, <3>3 DEF DiffRow
    <3> QED
      BY <3>2, <3>3
  <2> QED
    BY <1>4, <2>2 DEF Diff
<1> QED
  BY <1>1, <1>2, <1>3, <1>4 DEF EventLoop, Reconcile

LEMMA RowsMove ==
  ASSUME Typed, [Next]_vars, NEW o \in Orders PROVE RowMoves(o)
<1>1. CASE UNCHANGED rows
  BY <1>1 DEF RowMoves
<1>2. CASE Operator
  <2>1. ASSUME NEW p \in Orders, NEW type \in Types, Create(p, type) PROVE RowMoves(o)
    <3>1. rows \in [Orders -> Rows \cup {NoRow}]
      BY DEF Typed, TypeOK, StoreTypeOK
    <3>2. CASE o # p
      BY <2>1, <3>1, <3>2 DEF Create, CreateOrder, RowMoves
    <3>3. CASE o = p
      BY <2>1, <3>1, <3>3 DEF Create, CreateOrder, RowMoves, CreateMoves, RowIs, Status
    <3> QED
      BY <3>2, <3>3
  <2>2. ASSUME NEW p \in Orders, Close(p) \/ Modify(p) PROVE RowMoves(o)
    BY <1>1, <2>2 DEF Close, Modify, storeVars
  <2> QED
    BY <1>2, <2>1, <2>2 DEF Operator
<1>3. CASE Service \/ Outside \/ Crash
  BY <1>1, <1>3 DEF Service, PushOpen, Link, Outside, Crash, CrashOf, storeVars
<1> QED
  BY <1>1, <1>2, <1>3, AnswerRows, EventRows DEF Next, Loops, RowMoves, vars, storeVars

-----------------------------------------------------------------------------
(* What is known of an answer and of an event that reach the row.          *)

LEMMA AnswerRouted ==
  ASSUME Typed, NEW o \in Orders, OrderInv(o), EndsTold(o), resps # <<>>, NEW r, r = Head(resps),
         r.of = o,
         OpenSucceeded(r) \/ OpenFailed(r) \/ CloseSucceeded(r) \/ (ModifyAnswered(r) /\ r.ok)
  PROVE  /\ r \in Responses /\ resps \in Seq(Responses) /\ resps' = Tail(resps)
         /\ UNCHANGED <<account, effect, answer, cmds, events, eventAt, brokerIndex, lost>>
         /\ respAt = NoId
         /\ r.act = "open" => /\ r \in OpenResps(o) /\ Answered(o)
                              /\ Status(o) = "pending" /\ rows[o].broker = NoId
                              /\ OrderId(o) \notin brokerIndex /\ PositionId(o) \notin brokerIndex
         /\ OpenSucceeded(r) => r.act = "open" /\ respAt' = AnsweredId(r)
         /\ OpenFailed(r) => r.act = "open" /\ Refusing(o)
         /\ ~ OpenSucceeded(r) => respAt' = respAt
         /\ CloseSucceeded(r) =>
              /\ r.act = "close" /\ State(o) = "closed" /\ Status(o) \in {"filled", "closed"}
         /\ ModifyAnswered(r) => r.act = "modify_sl_tp"
         /\ r.act = "modify_sl_tp" => r \in StopsAnswers(o)
<1>1. /\ resps \in Seq(Responses) /\ r \in Responses
      /\ \A S : r \in S => Has(resps, S)
  <2>1. resps \in Seq(Responses)
    BY DEF Typed, TypeOK, AccountTypeOK
  <2> QED
    BY <2>1, TailIndexed, TailHas
<1>2. /\ resps' = Tail(resps) /\ respAt = NoId
      /\ UNCHANGED <<account, effect, answer, cmds, events, eventAt, brokerIndex, lost>>
      /\ OpenSucceeded(r) => r.act = "open" /\ respAt' = AnsweredId(r)
      /\ OpenFailed(r) => r.act = "open" /\ ~ r.ok
      /\ CloseSucceeded(r) => r.act = "close" /\ r.ok
      /\ ModifyAnswered(r) => r.act = "modify_sl_tp"
      /\ ~ OpenSucceeded(r) => respAt' = respAt
  BY DEF OpenSucceeded, OpenFailed, CloseSucceeded, ModifyAnswered, Routed, TakeResponse,
         accountVars, clientVars
<1>3. ASSUME r.act = "open"
      PROVE  /\ r \in OpenResps(o) /\ Answered(o)
             /\ Status(o) = "pending" /\ rows[o].broker = NoId
             /\ OrderId(o) \notin brokerIndex /\ PositionId(o) \notin brokerIndex
  <2>1. r \in OpenResps(o) /\ Answered(o)
    BY <1>1, <1>3 DEF OpenResps, Of, Answered
  <2> QED
    BY <2>1 DEF OrderInv, FreshWhileOpening, Opening
<1>4. OpenFailed(r) => Refusing(o)
  BY <1>1, <1>2 DEF Refusing, Refusals, OpenResps, Of
<1>5. CloseSucceeded(r) => State(o) = "closed" /\ Status(o) \in {"filled", "closed"}
  <2>1. CloseSucceeded(r) => r \in CloseAnswers(o) /\ r \in Of(Responses, "close", o)
    BY <1>1, <1>2 DEF CloseAnswers, Of
  <2>2. CloseSucceeded(r) =>
          Has(resps, CloseAnswers(o)) /\ Has(resps, Of(Responses, "close", o))
    BY <1>1, <2>1
  <2> QED
    BY <2>2 DEF EndsTold, OrderInv, ClosesFilled, Closing
<1>6. r.act = "modify_sl_tp" => r \in StopsAnswers(o)
  BY <1>1, <1>2 DEF StopsAnswers, Of, OpenSucceeded, OpenFailed, CloseSucceeded
<1> QED
  BY <1>1, <1>2, <1>3, <1>4, <1>5, <1>6

LEMMA EventRouted ==
  ASSUME Typed, NEW o \in Orders, OrderInv(o), EndsTold(o), events # <<>>, NEW e, e = Head(events),
         e \in EventsOf(o),
         PositionClosed(e) \/ PendingFilled(e) \/ PositionModified(e) \/ OrderCancelled(e)
  PROVE  /\ events \in Seq(Events) /\ e \in Events /\ events' = Tail(events) /\ eventAt = IdleEvent
         /\ UNCHANGED <<account, effect, answer, cmds, resps, respAt, brokerIndex, lost>>
         /\ PositionClosed(e) =>
              /\ e.type = "position_closed" /\ eventAt' = eventAt /\ State(o) = "closed"
              /\ Status(o) \in {"filled", "primary_filled", "closed"}
         /\ PositionModified(e) =>
              /\ e.type = "position_modified" /\ eventAt' = eventAt /\ e \in StopsEvents(o)
              /\ Status(o) \in {"filled", "primary_filled", "closed"}
         /\ PendingFilled(e) =>
              /\ e.type = "pending_filled" /\ eventAt' = [at |-> "unlink", of |-> o]
              /\ Status(o) = "pending" /\ OrderId(o) \in brokerIndex
              /\ ~ Opening(o) /\ ~ Closing(o) /\ respAt \notin {OrderId(o), PositionId(o)}
         /\ OrderCancelled(e) =>
              /\ e.type = "order_cancelled" /\ eventAt' = [at |-> "drop", of |-> o]
              /\ State(o) = "cancelled"
              /\ Status(o) = "pending" /\ OrderId(o) \in brokerIndex
              /\ ~ Opening(o) /\ ~ Closing(o) /\ respAt \notin {OrderId(o), PositionId(o)}
<1>1. /\ events \in Seq(Events) /\ e \in Events
      /\ \A S : e \in S => Has(events, S)
  <2>1. events \in Seq(Events)
    BY DEF Typed, TypeOK, AccountTypeOK
  <2> QED
    BY <2>1, TailIndexed, TailHas
<1>2. e.of = o /\ e \in OrderEvents
  BY DEF EventsOf
<1>3. /\ PositionClosed(e) => Known(e, "position_closed") /\ eventAt' = eventAt
      /\ PositionModified(e) => Known(e, "position_modified") /\ eventAt' = eventAt
      /\ PendingFilled(e) => Known(e, "pending_filled") /\ eventAt' = [at |-> "unlink", of |-> o]
      /\ OrderCancelled(e) => Known(e, "order_cancelled") /\ eventAt' = [at |-> "drop", of |-> o]
  BY <1>2 DEF PositionClosed, PositionModified, PendingFilled, OrderCancelled
<1>4. PICK type : Known(e, type)
  BY <1>3
<1>5. /\ e.type = type /\ eventAt = IdleEvent /\ EventId(e) \in brokerIndex /\ events' = Tail(events)
      /\ UNCHANGED <<account, effect, answer, cmds, resps, respAt, brokerIndex, lost>>
  BY <1>1, <1>4, KnownEvent
<1>6. /\ PositionClosed(e) => e.type = "position_closed"
      /\ PositionModified(e) => e.type = "position_modified"
      /\ PendingFilled(e) => e.type = "pending_filled"
      /\ OrderCancelled(e) => e.type = "order_cancelled"
  BY <1>1, <1>3, KnownEvent
<1>7. PositionClosed(e) \/ PositionModified(e) =>
        Status(o) \in {"filled", "primary_filled", "closed"}
  <2>1. PositionClosed(e) \/ PositionModified(e) => PositionId(o) \in brokerIndex
    BY <1>2, <1>5, <1>6 DEF EventId
  <2> QED
    BY <2>1 DEF OrderInv, LinkedWasAccepted
<1>8. PositionClosed(e) => State(o) = "closed"
  <2>1. PositionClosed(e) => e \in CloseEvents(o)
    BY <1>2, <1>6 DEF CloseEvents
  <2>2. PositionClosed(e) => Has(events, CloseEvents(o))
    BY <1>1, <2>1
  <2> QED
    BY <2>2 DEF EndsTold
<1>9. PositionModified(e) => e \in StopsEvents(o)
  BY <1>2, <1>6 DEF StopsEvents
<1>10. ASSUME PendingFilled(e) \/ OrderCancelled(e)
       PROVE  /\ Status(o) = "pending" /\ OrderId(o) \in brokerIndex
              /\ ~ Opening(o) /\ ~ Closing(o) /\ respAt \notin {OrderId(o), PositionId(o)}
  <2>1. e \in LeavesOf(o) /\ OrderId(o) \in brokerIndex
    BY <1>2, <1>5, <1>6, <1>10 DEF LeavesOf, EventsOf, EventId
  <2>2. AccountTypeOK
    BY DEF Typed, TypeOK
  <2> QED
    BY <1>1, <1>5, <2>1, <2>2, EndsWaiting
<1>11. OrderCancelled(e) => State(o) = "cancelled"
  <2>1. OrderCancelled(e) => e \in CancelEvents(o)
    BY <1>2, <1>6 DEF CancelEvents
  <2>2. OrderCancelled(e) => Has(events, CancelEvents(o))
    BY <1>1, <2>1
  <2> QED
    BY <2>2 DEF EndsTold
<1> QED
  BY <1>1, <1>3, <1>5, <1>6, <1>7, <1>8, <1>9, <1>10, <1>11

-----------------------------------------------------------------------------
(* The row keeps its parts together.                                       *)

LEMMA LegKeeps ==
  ASSUME Typed, [Next]_vars, NEW o \in Orders, OrderInv(o), EndsTold(o), LegFollows(o), FoundWaits(o)
  PROVE  LegFollows(o)'
<1>1. CASE rows'[o] = rows[o]
  BY <1>1 DEF LegFollows, Status
<1>2. CASE CreateMoves(o)
  BY <1>2 DEF CreateMoves, RowIs, LegFollows, Status
<1>3. CASE AnswerMoves(o)
  <2> DEFINE r == Head(resps)
  <2>1. resps # <<>> /\ r.of = o
    BY <1>3 DEF AnswerMoves
  <2> HIDE DEF r
  <2>2. CASE OpenSucceeded(r) \/ OpenFailed(r) \/ CloseSucceeded(r) \/ (ModifyAnswered(r) /\ r.ok)
    <3>1. /\ OpenSucceeded(r) => r.act = "open"
          /\ OpenFailed(r) => r.act = "open"
          /\ CloseSucceeded(r) => r.act = "close" /\ Status(o) \in {"filled", "closed"}
          /\ ModifyAnswered(r) => r.act = "modify_sl_tp"
      BY <2>1, <2>2, AnswerRouted DEF r
    <3>2. FilledStatus(o) \in {"filled", "primary_filled"}
      BY DEF FilledStatus
    <3> QED
      BY <1>3, <3>1, <3>2 DEF AnswerMoves, RowIs, LegFollows, Status, r
  <2> QED
    BY <1>3, <2>2 DEF AnswerMoves, r
<1>4. CASE EventMoves(o)
  <2> DEFINE e == Head(events)
  <2>1. events # <<>> /\ e \in EventsOf(o)
        /\ (PositionClosed(e) \/ PendingFilled(e) \/ PositionModified(e) \/ OrderCancelled(e))
    BY <1>4 DEF EventMoves
  <2> HIDE DEF e
  <2>2. /\ PositionClosed(e) => Status(o) \in {"filled", "primary_filled", "closed"}
    BY <2>1, EventRouted DEF e
  <2> QED
    BY <1>4, <2>2 DEF EventMoves, RowIs, LegFollows, Status, e
<1>5. CASE DiffMoves(o)
  <2>1. eventAt.at = "diff" /\ RowIs(o, Status(o), "unknown", rows[o].broker, rows[o].stops)
    BY <1>5 DEF DiffMoves
  <2>2. PICK l \in eventAt.found : l.of = o /\ GoneOffline(l)
    BY <1>5 DEF DiffMoves
  <2>3. Status(o) = "pending"
    BY <2>1, <2>2 DEF FoundWaits, GoneOffline
  <2> QED
    BY <2>1, <2>3 DEF RowIs, LegFollows, Status
<1> QED
  BY <1>1, <1>2, <1>3, <1>4, <1>5, RowsMove DEF RowMoves

\* What the reconciler has read is what it had read, or a row as it is now.
LEMMA FoundMoves ==
  ASSUME Typed, [Next]_vars, eventAt'.at \in {"list", "diff"}, NEW l \in eventAt'.found
  PROVE  \/ eventAt.at \in {"list", "diff"} /\ l \in eventAt.found
         \/ /\ l.row = rows[l.of] /\ Status(l.of) \in {"pending", "filled"}
            /\ UNCHANGED rows
<1>a. StoreTypeOK /\ StatusIndexAgrees /\ eventAt \in EventStages
  BY DEF Typed, TypeOK
<1>1. CASE UNCHANGED eventAt
  BY <1>1
<1>2. CASE eventAt'.at \notin {"list", "diff"}
  BY <1>2
<1>3. ASSUME NEW e, ReadSnapshot(e) PROVE FALSE
  BY <1>3 DEF ReadSnapshot
<1>4. CASE ListOpen
  <2>1. /\ eventAt.at = "list" /\ UNCHANGED rows
        /\ \/ eventAt'.found = eventAt.found \cup ListByStatus("pending")
           \/ eventAt'.found = eventAt.found \cup ListByStatus("filled")
    BY <1>4, ListOpenStage DEF ListOpen
  <2>2. {"pending", "filled"} \subseteq Statuses
    BY DEF Statuses
  <2> QED
    BY <1>a, <2>1, <2>2, ListedRows DEF Status
<1>5. CASE BeginDiff
  BY <1>5 DEF BeginDiff
<1>6. CASE Diff
  <2>1. eventAt.at = "diff" /\ eventAt \in DiffStages
    BY <1>a, <1>6, Stages DEF Diff
  <2>2. \/ eventAt' = IdleEvent
        \/ \E m \in eventAt.found : eventAt' = [eventAt EXCEPT !.found = @ \ {m}]
    BY <1>6 DEF Diff, DiffRow
  <2> QED
    BY <1>2, <2>1, <2>2, Stages DEF DiffStages
<1>7. CASE ForgetOrderId
  <2>1. eventAt \in [at : {"unlink", "link", "drop"}, of : Orders]
    BY <1>a, <1>7, Stages DEF ForgetOrderId, ListStages, DiffStages
  <2>2. eventAt'.at = "link"
    BY <1>7, <2>1 DEF ForgetOrderId
  <2> QED
    BY <1>2, <2>2
<1>8. CASE LinkPosition \/ DropOrderId
  BY <1>2, <1>8, Stages DEF LinkPosition, DropOrderId
<1>9. ASSUME NEW e, \/ DropEvent(e) \/ PositionClosed(e) \/ PendingFilled(e)
                    \/ PositionModified(e) \/ OrderCancelled(e)
      PROVE  UNCHANGED eventAt \/ eventAt'.at \notin {"list", "diff"}
  BY <1>9 DEF DropEvent, PositionClosed, PendingFilled, PositionModified, OrderCancelled
<1>10. CASE EventLoop
  BY <1>1, <1>2, <1>3, <1>4, <1>5, <1>6, <1>7, <1>8, <1>9, <1>10 DEF EventLoop, Reconcile
<1>11. CASE Crash
  BY <1>2, <1>11, Stages DEF Crash, CrashOf
<1>12. CASE ResponseLoop
  <2>1. UNCHANGED eventAt
    BY <1>12 DEF ResponseLoop, DropResponse, OpenSucceeded, OpenFailed, CloseSucceeded, CloseFailed,
                 ModifyAnswered, LinkAnswered, Routed, TakeResponse
  <2> QED
    BY <1>1, <2>1
<1>13. CASE Operator \/ Service \/ Outside \/ UNCHANGED vars
  <2>1. UNCHANGED eventAt
    BY <1>13 DEF Operator, Service, Outside, vars, loopVars, Create, Close, Modify, PushOpen, Link,
                 OutsideUnchanged
  <2> QED
    BY <1>1, <2>1
<1> QED
  BY <1>10, <1>11, <1>12, <1>13 DEF Next, Loops

LEMMA FoundKeeps ==
  ASSUME Typed, [Next]_vars, NEW o \in Orders, OrderInv(o), EndsTold(o), LegFollows(o), FoundWaits(o)
  PROVE  FoundWaits(o)'
<1> SUFFICES ASSUME eventAt'.at \in {"list", "diff"}, NEW l \in eventAt'.found, l.of = o,
                    l.row.p_status = "pending", l.row.broker # NoId
             PROVE  Status(o)' = "pending" /\ rows'[o].broker # NoId
  BY DEF FoundWaits
<1>1. CASE l.row = rows[o] /\ Status(o) \in {"pending", "filled"} /\ UNCHANGED rows
  BY <1>1 DEF LegFollows, Status
<1>2. CASE eventAt.at \in {"list", "diff"} /\ l \in eventAt.found
  <2>1. Status(o) = "pending" /\ rows[o].broker # NoId
    BY <1>2 DEF FoundWaits
  <2>2. ~ CreateMoves(o)
    BY <2>1 DEF CreateMoves, Exists, Status, NoRow
  <2>3. ASSUME AnswerMoves(o) PROVE Status(o)' = Status(o) /\ rows'[o].broker = rows[o].broker
    <3> DEFINE r == Head(resps)
    <3>1. /\ resps # <<>> /\ r.of = o
          /\ OpenSucceeded(r) \/ OpenFailed(r) \/ CloseSucceeded(r) \/ (ModifyAnswered(r) /\ r.ok)
      BY <2>3 DEF AnswerMoves
    <3> HIDE DEF r
    <3>2. ~ OpenSucceeded(r) /\ ~ OpenFailed(r) /\ ~ CloseSucceeded(r)
      BY <2>1, <3>1, AnswerRouted DEF r
    <3> QED
      BY <2>3, <3>2 DEF AnswerMoves, RowIs, r
  <2>4. ~ EventMoves(o)
    <3>1. eventAt # IdleEvent
      BY <1>2, Stages
    <3> QED
      BY <3>1, EventRouted DEF EventMoves
  <2>5. DiffMoves(o) => Status(o)' = Status(o) /\ rows'[o].broker = rows[o].broker
    BY DEF DiffMoves, RowIs
  <2> QED
    BY <2>1, <2>2, <2>3, <2>4, <2>5, RowsMove DEF RowMoves, Status
<1> QED
  BY <1>1, <1>2, FoundMoves

-----------------------------------------------------------------------------
(* What a step does to the streams, and to the account.                    *)

Still == UNCHANGED <<account, effect, answer, resps, events, lost>>

ReadsAnswer ==
  /\ resps # <<>> /\ resps' = Tail(resps) /\ UNCHANGED <<account, effect, answer, events, client>>
  /\ LET r == Head(resps) IN
     \/ DropResponse(r)
     \/ UNCHANGED lost /\ (\/ OpenSucceeded(r) \/ OpenFailed(r) \/ CloseSucceeded(r)
                           \/ CloseFailed(r) \/ ModifyAnswered(r))

ReadsEvent ==
  /\ events # <<>> /\ events' = Tail(events) /\ UNCHANGED <<account, effect, answer, resps, client>>
  /\ LET e == Head(events) IN
     \/ DropEvent(e)
     \/ UNCHANGED lost /\ (\/ PositionClosed(e) \/ PendingFilled(e) \/ PositionModified(e)
                           \/ OrderCancelled(e) \/ ReadSnapshot(e))

Elsewhere == UNCHANGED <<storeVars, loopVars, requests>>

LEMMA Kinds ==
  ASSUME Typed, [Next]_vars
  PROVE  \/ Still
         \/ ReadsAnswer \/ ReadsEvent
         \/ Elsewhere /\ (\/ Account \/ HandleCommand \/ PublishEffect \/ Respond
                          \/ GoDown \/ PublishSnapshot \/ SkipSnapshot)
         \/ Crash
<1>1. CASE Operator
  BY <1>1 DEF Operator, Create, Close, Modify, OutsideUnchanged, accountVars, clientVars, Still
<1>2. CASE Service
  BY <1>2 DEF Service, PushOpen, Link, OutsideUnchanged, accountVars, clientVars, Still
<1>3. CASE ResponseLoop
  <2>1. CASE LinkAnswered
    BY <2>1 DEF LinkAnswered, accountVars, clientVars, streamVars, Still
  <2>2. ASSUME resps # <<>>, NEW r, r = Head(resps),
               \/ DropResponse(r) \/ OpenSucceeded(r) \/ OpenFailed(r)
               \/ CloseSucceeded(r) \/ CloseFailed(r) \/ ModifyAnswered(r)
        PROVE  ReadsAnswer
    <3>1. TakeResponse(r)
      BY <2>2 DEF DropResponse, OpenSucceeded, OpenFailed, CloseSucceeded, CloseFailed,
                  ModifyAnswered, Routed
    <3>2. UNCHANGED lost \/ DropResponse(r)
      BY <2>2 DEF OpenSucceeded, OpenFailed, CloseSucceeded, CloseFailed, ModifyAnswered, Routed
    <3> QED
      BY <2>2, <3>1, <3>2 DEF TakeResponse, ReadsAnswer, accountVars, clientVars
  <2> QED
    BY <1>3, <2>1, <2>2 DEF ResponseLoop
<1>4. CASE EventLoop
  <2>1. CASE ForgetOrderId \/ LinkPosition \/ DropOrderId \/ Reconcile
    BY <2>1 DEF ForgetOrderId, LinkPosition, DropOrderId, Reconcile, ListOpen, BeginDiff, Diff,
                EventStep, EventUnchanged, accountVars, clientVars, Still
  <2>2. ASSUME events # <<>>, NEW e, e = Head(events),
               \/ DropEvent(e) \/ PositionClosed(e) \/ PendingFilled(e)
               \/ PositionModified(e) \/ OrderCancelled(e) \/ ReadSnapshot(e)
        PROVE  ReadsEvent
    <3>1. PICK type : TakeEvent(e, type)
      BY <2>2 DEF DropEvent, PositionClosed, PendingFilled, PositionModified, OrderCancelled,
                  ReadSnapshot, Known
    <3>2. UNCHANGED lost \/ DropEvent(e)
      BY <2>2 DEF PositionClosed, PendingFilled, PositionModified, OrderCancelled, ReadSnapshot, Known
    <3> QED
      BY <2>2, <3>1, <3>2 DEF TakeEvent, EventUnchanged, ReadsEvent, accountVars, clientVars
  <2> QED
    BY <1>4, <2>1, <2>2 DEF EventLoop
<1>5. CASE Outside
  <2>1. CASE Connect \/ QuerySnapshot
    BY <2>1 DEF Connect, QuerySnapshot, accountVars, streamVars, Still
  <2> QED
    BY <1>5, <2>1 DEF Outside, Client, Elsewhere
<1>6. CASE UNCHANGED vars
  BY <1>6 DEF vars, accountVars, clientVars, streamVars, Still
<1> QED
  BY <1>1, <1>2, <1>3, <1>4, <1>5, <1>6 DEF Next, Loops

LEMMA PerformsAre ==
  ASSUME AccountTypeOK, NEW c \in Commands, Performs(c)
  PROVE  /\ \A o \in Orders : o # c.of => account'[o] = account[o]
         /\ c.act = "open" => State(c.of)' = Opened(c) /\ account'[c.of].stops = c.stops
         /\ c.act = "close" => /\ State(c.of) = "open" /\ State(c.of)' = "closed"
                               /\ account'[c.of].stops = account[c.of].stops
         /\ c.act = "modify_sl_tp" => /\ State(c.of) = "open" /\ State(c.of)' = "open"
                                      /\ account'[c.of].stops = c.stops
         /\ c.act # "fetch_close_history"
<1>1. /\ account \in [Orders -> [state : {"none", "working", "open", "closed", "cancelled"},
                                 stops : 0 .. MaxStops]]
      /\ c.of \in Orders
  BY CommandTyped DEF AccountTypeOK
<1>2. account[c.of] \in [state : {"none", "working", "open", "closed", "cancelled"},
                         stops : 0 .. MaxStops]
  BY <1>1
<1>3. CASE c.act = "open"
  BY <1>1, <1>3 DEF Performs, State
<1>4. CASE c.act = "close"
  BY <1>1, <1>2, <1>4 DEF Performs, State
<1>5. CASE c.act = "modify_sl_tp"
  BY <1>1, <1>2, <1>5 DEF Performs, State
<1> QED
  BY <1>3, <1>4, <1>5 DEF Performs

\* The client has a command in hand, and nothing of an earlier one.
InHand(c) ==
  /\ cmds # <<>> /\ c = Head(cmds) /\ cmds' = Tail(cmds) /\ client.at = "up"
  /\ answer = NoAnswer /\ effect = NoEffect
  /\ answer' \in Responses
  /\ answer'.act = c.act /\ answer'.of = c.of /\ answer'.stops = c.stops
  /\ effect' \in {NoEffect, Effect(c)}
  /\ UNCHANGED <<resps, events, client>>
  /\ Executes(c) \/ Refuses(c) \/ ExecutesInDoubt(c) \/ FetchesHistory(c)

LEMMA Handled ==
  ASSUME Typed, EffectAnswered, HandleCommand
  PROVE  \E c \in Commands : InHand(c)
<1> DEFINE c == Head(cmds)
<1>1. c \in Commands /\ cmds # <<>>
  BY DEF HandleCommand, Typed, TypeOK, AccountTypeOK
<1>2. Executes(c) \/ Refuses(c) \/ ExecutesInDoubt(c) \/ FetchesHistory(c)
  BY DEF HandleCommand
<1> HIDE DEF c
<1>3. /\ cmds' = Tail(cmds) /\ client.at = "up" /\ answer = NoAnswer
      /\ UNCHANGED <<resps, events, client>>
      /\ \E ok, filled \in BOOLEAN : answer' = Reply(c, ok, filled)
      /\ effect' \in {effect, NoEffect, Effect(c)}
  BY <1>2 DEF Executes, Refuses, ExecutesInDoubt, FetchesHistory, Take
<1>4. effect = NoEffect
  BY <1>3 DEF EffectAnswered
<1>5. \A ok, filled \in BOOLEAN : Reply(c, ok, filled) \in Responses
  BY <1>1, CommandTyped
<1>6. /\ answer' \in Responses
      /\ answer'.act = c.act /\ answer'.of = c.of /\ answer'.stops = c.stops
  BY <1>3, <1>5 DEF Reply
<1> QED
  BY <1>1, <1>2, <1>3, <1>4, <1>6 DEF InHand, c

LEMMA EffectKeeps ==
  ASSUME Typed, Typed', EffectAnswered, [Next]_vars PROVE EffectAnswered'
<1>1. CASE UNCHANGED <<effect, answer>>
  BY <1>1 DEF EffectAnswered
<1>2. CASE HandleCommand
  <2>1. PICK c \in Commands : InHand(c)
    BY <1>2, Handled
  <2>2. c.of \in Orders /\ c.stops \in 0 .. MaxStops /\ answer' # NoAnswer
    BY <2>1, CommandTyped, NoAnswerIsNone DEF InHand
  <2>3. effect' # NoEffect => /\ effect'.of = c.of
                              /\ effect'.type = "position_modified" => c.act = "modify_sl_tp"
    BY <2>1 DEF InHand, Effect, OrderEvent, NoEffect
  <2> QED
    BY <2>1, <2>2, <2>3 DEF EffectAnswered, InHand
<1>3. CASE PublishEffect \/ GoDown
  BY <1>3 DEF PublishEffect, GoDown, EffectAnswered
<1>4. CASE Respond
  BY <1>4 DEF Respond, EffectAnswered
<1>5. CASE Account \/ PublishSnapshot \/ SkipSnapshot
  BY <1>1, <1>5 DEF Account, Trigger, CancelAtBroker, CloseAtBroker, EditAtBroker, PublishSnapshot,
                    SkipSnapshot, clientVars
<1>6. CASE Still \/ ReadsAnswer \/ ReadsEvent \/ Crash
  BY <1>1, <1>6 DEF Still, ReadsAnswer, ReadsEvent, Crash, CrashOf, clientVars
<1> QED
  BY <1>2, <1>3, <1>4, <1>5, <1>6, Kinds

-----------------------------------------------------------------------------
(* Losses are not forgotten, and an order ends for good.                   *)

LEMMA LossesGrow ==
  ASSUME Typed, EffectAnswered, [Next]_vars, NEW o \in Orders PROVE LossesKept(o)
<1>a. AccountTypeOK /\ lost \in [Orders -> SUBSET Losses]
  BY DEF Typed, TypeOK, AccountTypeOK
<1>1. CASE UNCHANGED lost
  BY <1>1 DEF LossesKept
<1>2. ASSUME NEW p, NEW kind, Lose(p, kind) PROVE LossesKept(o)
  BY <1>a, <1>2 DEF Lose, LossesKept
<1>3. CASE ReadsAnswer \/ ReadsEvent \/ Account
  BY <1>1, <1>2, <1>3 DEF ReadsAnswer, DropResponse, ReadsEvent, DropEvent, Account, Trigger,
                          CancelAtBroker, CloseAtBroker, EditAtBroker, Push
<1>4. CASE HandleCommand
  BY <1>1, <1>2, <1>4 DEF HandleCommand, Executes, Refuses, ExecutesInDoubt, FetchesHistory
<1>5. CASE GoDown
  <2>1. lost' = lost \/ \E p : lost' = [lost EXCEPT ![p] = @ \cup {"answer"}]
    BY <1>5 DEF GoDown
  <2> QED
    BY <1>a, <2>1 DEF LossesKept
<1>6. CASE SkipSnapshot
  BY <1>6 DEF SkipSnapshot, LossesKept
<1>7. CASE Crash
  BY <1>7 DEF Crash, CrashOf, LossesKept
<1>8. CASE Still \/ PublishEffect \/ Respond \/ PublishSnapshot
  BY <1>1, <1>8 DEF Still, PublishEffect, Respond, PublishSnapshot
<1> QED
  BY <1>3, <1>4, <1>5, <1>6, <1>7, <1>8, Kinds

\* How the account of an order moves.
StateMove(s, t) ==
  \/ s = t
  \/ s = "none" /\ t \in {"open", "working"}
  \/ s = "working" /\ t \in {"open", "cancelled"}
  \/ s = "open" /\ t = "closed"

LEMMA StateMoves ==
  ASSUME Typed, EffectAnswered, [Next]_vars, NEW o \in Orders, OrderInv(o)
  PROVE  /\ StateMove(State(o), State(o)')
         /\ State(o)' # State(o) => Account \/ HandleCommand
<1>a. /\ AccountTypeOK
      /\ account \in [Orders -> [state : {"none", "working", "open", "closed", "cancelled"},
                                 stops : 0 .. MaxStops]]
  BY DEF Typed, TypeOK, AccountTypeOK
<1>1. CASE UNCHANGED account
  BY <1>1 DEF StateMove, State
<1>2. CASE Account
  BY <1>a, <1>2 DEF Account, Trigger, CancelAtBroker, CloseAtBroker, EditAtBroker, StateMove, State
<1>3. CASE HandleCommand
  <2>1. PICK c \in Commands : InHand(c)
    BY <1>3, Handled
  <2>2. CASE UNCHANGED account
    BY <1>3, <2>2, <1>1
  <2>3. CASE Performs(c)
    <3>1. c.of # o \/ c.act # "open" => StateMove(State(o), State(o)')
      BY <1>a, <2>3, PerformsAre DEF StateMove, State, Commands, Actions
    <3>2. ASSUME c.of = o, c.act = "open" PROVE State(o) = "none" /\ State(o)' \in {"open", "working"}
      <4>1. cmds \in Seq(Commands)
        BY <1>a DEF AccountTypeOK
      <4>2. c \in OpenCmds(o) /\ Sent(o)
        BY <2>1, <3>2, <4>1, TailHas DEF OpenCmds, Of, Sent, InHand
      <4> QED
        BY <1>a, <2>3, <3>2, <4>2, PerformsAre DEF OrderInv, NothingBeforeOpen, Opened
    <3> QED
      BY <1>3, <3>1, <3>2 DEF StateMove
  <2> QED
    BY <2>1, <2>2, <2>3 DEF InHand, Executes, Refuses, ExecutesInDoubt, FetchesHistory
<1>4. CASE Still \/ ReadsAnswer \/ ReadsEvent \/ PublishEffect \/ Respond \/ GoDown \/ PublishSnapshot
             \/ SkipSnapshot \/ Crash
  BY <1>1, <1>4 DEF Still, ReadsAnswer, ReadsEvent, PublishEffect, Respond, GoDown, PublishSnapshot,
                    SkipSnapshot, Crash, CrashOf, accountVars
<1> QED
  BY <1>2, <1>3, <1>4, Kinds

\* Where an event of order o comes from.
LEMMA EventComes ==
  ASSUME Typed, [Next]_vars, NEW o \in Orders, NEW S \in SUBSET EventsOf(o), Has(events', S),
         ~ Has(events, S)
  PROVE  \/ effect \in S /\ PublishEffect
         \/ \E e \in S : /\ e.type = "pending_filled" => Trigger(o)
                         /\ e.type = "order_cancelled" => CancelAtBroker(o)
                         /\ e.type = "position_closed" => CloseAtBroker(o)
                         /\ e.type = "position_modified" => EditAtBroker(o)
<1>a. events \in Seq(Events) /\ AccountTypeOK
  BY DEF Typed, TypeOK, AccountTypeOK
<1>1. CASE UNCHANGED events
  BY <1>1 DEF Has
<1>2. CASE ReadsEvent
  BY <1>a, <1>2, TailHas DEF ReadsEvent
<1>3. CASE Crash
  <2>1. PICK seen \in 0 .. Len(events) : events' = SubSeq(events, seen + 1, Len(events))
    BY <1>3 DEF Crash, CrashOf
  <2> QED
    BY <1>a, <2>1, CutHas
<1>4. CASE PublishEffect
  <2>1. effect \in Events
    BY <1>a, <1>4, NoEffectIsNone DEF PublishEffect, AccountTypeOK
  <2> QED
    BY <1>a, <1>4, <2>1, AppendHas DEF PublishEffect
<1>5. CASE PublishSnapshot
  <2>1. PICK e \in Events : events' = Append(events, e) /\ e.type = "reconcile_snapshot"
    <3>1. client.snapshot \in Snapshots
      BY <1>a DEF AccountTypeOK
    <3> QED
      BY <1>5, <3>1 DEF PublishSnapshot, Snapshots, Events
  <2>2. e \notin EventsOf(o)
    BY <2>1 DEF EventsOf, OrderEvents
  <2> QED
    BY <1>a, <2>1, <2>2, AppendHas
<1>6. CASE Account
  <2>1. PICK p \in Orders : Trigger(p) \/ CancelAtBroker(p) \/ CloseAtBroker(p) \/ EditAtBroker(p)
    BY <1>6 DEF Account
  <2>2. PICK type \in {"position_closed", "pending_filled", "position_modified", "order_cancelled"},
             n \in 0 .. MaxStops :
          /\ UNCHANGED events \/ events' = Append(events, OrderEvent(type, p, n))
          /\ type = "pending_filled" => Trigger(p)
          /\ type = "order_cancelled" => CancelAtBroker(p)
          /\ type = "position_closed" => CloseAtBroker(p)
          /\ type = "position_modified" => EditAtBroker(p)
    <3>1. 0 \in 0 .. MaxStops /\ (EditAtBroker(p) => edits' \in 0 .. MaxStops)
      BY <1>a, OrderAssumption DEF EditAtBroker, AccountTypeOK
    <3>2. CASE Trigger(p)
      BY <3>1, <3>2 DEF Trigger, Push
    <3>3. CASE CancelAtBroker(p)
      BY <3>1, <3>3 DEF CancelAtBroker, Push
    <3>4. CASE CloseAtBroker(p)
      BY <3>1, <3>4 DEF CloseAtBroker, Push
    <3>5. CASE EditAtBroker(p)
      BY <3>1, <3>5 DEF EditAtBroker
    <3> QED
      BY <2>1, <3>2, <3>3, <3>4, <3>5
  <2> DEFINE e == OrderEvent(type, p, n)
  <2>3. e \in Events /\ e.type = type /\ e.of = p
    BY OrderEventTyped
  <2>4. UNCHANGED events \/ events' = Append(events, e)
    BY <2>2
  <2> HIDE DEF e
  <2>5. e \in S
    BY <1>1, <1>a, <2>3, <2>4, AppendHas
  <2>6. p = o
    BY <2>3, <2>5 DEF EventsOf
  <2> QED
    BY <2>2, <2>3, <2>5, <2>6
<1>7. CASE Still \/ ReadsAnswer \/ HandleCommand \/ Respond \/ GoDown \/ SkipSnapshot
  <2>1. UNCHANGED events
    BY <1>7 DEF Still, ReadsAnswer, HandleCommand, Executes, Refuses, ExecutesInDoubt,
                FetchesHistory, Respond, GoDown, SkipSnapshot, streamVars
  <2> QED
    BY <1>1, <2>1
<1> QED
  BY <1>2, <1>3, <1>4, <1>5, <1>6, <1>7, Kinds

\* Where the event of a command, and an answer, come from.
LEMMA EffectComes ==
  ASSUME Typed, EffectAnswered, [Next]_vars, NEW o \in Orders, effect' \in EventsOf(o),
         effect' # effect
  PROVE  \E c \in Commands : InHand(c) /\ effect' = Effect(c) /\ c.of = o /\ c.act # "open"
<1>1. effect' # NoEffect
  BY LeavesAre
<1>2. CASE HandleCommand
  <2>1. PICK c \in Commands : InHand(c)
    BY <1>2, Handled
  <2>2. effect' = Effect(c) /\ c.act # "open"
    BY <1>1, <2>1 DEF InHand, Effect
  <2>3. c.of = o
    BY <2>2 DEF Effect, OrderEvent, EventsOf
  <2> QED
    BY <2>1, <2>2, <2>3
<1>3. CASE ~ HandleCommand
  BY <1>1, <1>3, Kinds DEF Still, ReadsAnswer, ReadsEvent, Account, Trigger, CancelAtBroker,
     CloseAtBroker, EditAtBroker, PublishEffect, Respond, GoDown, PublishSnapshot, SkipSnapshot,
     Crash, CrashOf, clientVars
<1> QED
  BY <1>2, <1>3

LEMMA AnswerComes ==
  ASSUME Typed, EffectAnswered, [Next]_vars, NEW S \in SUBSET Responses
  PROVE  /\ Has(resps', S) /\ ~ Has(resps, S) => answer \in S /\ Respond
         /\ answer' \in S /\ answer' # answer => \E c \in Commands : InHand(c)
<1>a. resps \in Seq(Responses) /\ AccountTypeOK
  BY DEF Typed, TypeOK, AccountTypeOK
<1>b. NoAnswer \notin S
  BY NoAnswerIsNone
<1>1. CASE UNCHANGED <<resps, answer>>
  BY <1>1 DEF Has
<1>2. CASE ReadsAnswer
  BY <1>a, <1>2, TailHas DEF ReadsAnswer
<1>3. CASE Crash
  <2>1. PICK read \in 0 .. Len(resps) : resps' = SubSeq(resps, read + 1, Len(resps))
    BY <1>3 DEF Crash, CrashOf
  <2>2. UNCHANGED answer
    BY <1>3 DEF Crash, CrashOf, clientVars
  <2> QED
    BY <1>a, <2>1, <2>2, CutHas
<1>4. CASE Respond
  <2>1. answer \in Responses /\ resps' = Append(resps, answer) /\ answer' = NoAnswer
    BY <1>a, <1>4 DEF Respond, AccountTypeOK
  <2> QED
    BY <1>a, <1>b, <1>4, <2>1, AppendHas
<1>5. CASE GoDown
  BY <1>b, <1>5 DEF GoDown, streamVars, Has
<1>6. CASE HandleCommand
  BY <1>6, Handled DEF InHand, Has
<1>7. CASE Still \/ ReadsEvent \/ Account \/ PublishEffect \/ PublishSnapshot \/ SkipSnapshot
  <2>1. UNCHANGED <<resps, answer>>
    BY <1>7 DEF Still, ReadsEvent, Account, Trigger, CancelAtBroker, CloseAtBroker, EditAtBroker,
                PublishEffect, PublishSnapshot, SkipSnapshot, clientVars, streamVars
  <2> QED
    BY <1>1, <2>1
<1> QED
  BY <1>2, <1>3, <1>4, <1>5, <1>6, <1>7, Kinds

\* What is in hand is done, or left; a close that is answered or told is done.
LEMMA InHandEnds ==
  ASSUME Typed, NEW c \in Commands, InHand(c)
  PROVE  /\ c.act = "close" /\ (answer'.ok \/ effect' # NoEffect) => State(c.of)' = "closed"
         /\ c.act = "fetch_close_history" /\ effect' # NoEffect => State(c.of)' = "closed"
<1>a. AccountTypeOK
  BY DEF Typed, TypeOK
<1>1. ASSUME c.act = "close", answer'.ok \/ effect' # NoEffect PROVE Performs(c)
  BY <1>1 DEF InHand, Executes, Refuses, ExecutesInDoubt, FetchesHistory, Reply
<1>2. c.act = "fetch_close_history" /\ effect' # NoEffect => FetchesHistory(c)
  BY <1>a, PerformsAre DEF InHand, Executes, Refuses, ExecutesInDoubt
<1>3. c.act = "fetch_close_history" /\ effect' # NoEffect => State(c.of)' = "closed"
  BY <1>2 DEF FetchesHistory, State
<1> QED
  BY <1>a, <1>1, <1>3, PerformsAre

\* The event loop drops the id of an order that was cancelled.
LEMMA DropBegins ==
  ASSUME Typed, [Next]_vars, NEW o \in Orders, eventAt' = [at |-> "drop", of |-> o],
         eventAt' # eventAt
  PROVE  Status(o)' = "cancelled"
<1>a. eventAt'.at = "drop" /\ eventAt'.of = o /\ eventAt' # IdleEvent
  BY DEF IdleEvent
<1>b. eventAt \in EventStages /\ StoreTypeOK
  BY DEF Typed, TypeOK
<1>1. CASE EventLoop
  <2>1. ~ ForgetOrderId /\ ~ LinkPosition /\ ~ DropOrderId
    <3>1. ~ ForgetOrderId
      <4>1. ForgetOrderId => eventAt \in [at : {"unlink", "link", "drop"}, of : Orders]
        BY <1>b, Stages DEF ForgetOrderId, ListStages, DiffStages
      <4>2. ForgetOrderId => eventAt'.at = "link"
        BY <4>1 DEF ForgetOrderId
      <4> QED
        BY <1>a, <4>2
    <3> QED
      BY <1>a, <3>1 DEF LinkPosition, DropOrderId
  <2>2. ~ Reconcile
    <3>1. ~ ListOpen
      <4>1. ListOpen => eventAt \in ListStages
        BY <1>b, Stages DEF ListOpen
      <4>2. ListOpen => eventAt'.at = "list"
        BY <4>1 DEF ListOpen, ListStages
      <4> QED
        BY <1>a, <4>2
    <3>2. ~ BeginDiff
      BY <1>a DEF BeginDiff
    <3>3. ~ Diff
      <4>1. Diff => eventAt \in DiffStages
        BY <1>b, Stages DEF Diff
      <4>2. Diff => eventAt' = IdleEvent \/ eventAt'.at = "diff"
        BY <4>1 DEF Diff, DiffRow, DiffStages
      <4> QED
        BY <1>a, <4>2
    <3> QED
      BY <3>1, <3>2, <3>3 DEF Reconcile
  <2>3. ASSUME events # <<>>, NEW e, e = Head(events),
               \/ DropEvent(e) \/ PositionClosed(e) \/ PendingFilled(e)
               \/ PositionModified(e) \/ OrderCancelled(e) \/ ReadSnapshot(e)
        PROVE  OrderCancelled(e) /\ e.of = o
    BY <1>a, <2>3 DEF DropEvent, PositionClosed, PendingFilled, PositionModified, OrderCancelled,
                      ReadSnapshot
  <2>4. PICK e : OrderCancelled(e) /\ e.of = o
    BY <1>1, <2>1, <2>2, <2>3 DEF EventLoop
  <2> DEFINE row == [rows[e.of] EXCEPT !.status = "cancelled", !.p_status = "cancelled"]
  <2>5. UpdateOrder(o, row)
    BY <2>4 DEF OrderCancelled
  <2>6. rows[o] \in Rows /\ rows'[o] = row
    BY <1>b, <2>5, RowWritten
  <2> QED
    BY <2>4, <2>6 DEF Rows, Status
<1>2. CASE Crash
  BY <1>a, <1>2 DEF Crash, CrashOf
<1>3. CASE Operator \/ Service \/ ResponseLoop \/ Outside \/ UNCHANGED vars
  BY <1>3 DEF Operator, Create, Close, Modify, Service, PushOpen, Link, OutsideUnchanged, ResponseLoop,
     LinkAnswered, DropResponse, OpenSucceeded, OpenFailed, CloseSucceeded, CloseFailed,
     ModifyAnswered, Routed, TakeResponse, Outside, loopVars, vars
<1> QED
  BY <1>1, <1>2, <1>3 DEF Next, Loops

LEMMA EndsKeeps ==
  ASSUME Typed, EffectAnswered, [Next]_vars, NEW o \in Orders, OrderInv(o), EndsTold(o)
  PROVE  EndsTold(o)'
<1>a. /\ AccountTypeOK
      /\ account \in [Orders -> [state : {"none", "working", "open", "closed", "cancelled"},
                                 stops : 0 .. MaxStops]]
  BY DEF Typed, TypeOK, AccountTypeOK
<1>1. State(o) \in {"closed", "cancelled"} => State(o)' = State(o)
  BY StateMoves DEF StateMove
<1>2. CloseEvents(o) \in SUBSET EventsOf(o) /\ CancelEvents(o) \in SUBSET EventsOf(o)
      /\ CloseAnswers(o) \in SUBSET Responses
  BY DEF CloseEvents, CancelEvents, CloseAnswers, Of
<1>3. effect' \in CloseEvents(o) => State(o)' = "closed"
  <2>1. CASE effect' = effect
    BY <1>1, <2>1 DEF EndsTold
  <2>2. ASSUME effect' # effect, effect' \in CloseEvents(o) PROVE State(o)' = "closed"
    <3>1. PICK c \in Commands : InHand(c) /\ effect' = Effect(c) /\ c.of = o /\ c.act # "open"
      BY <1>2, <2>2, EffectComes
    <3>2. effect' # NoEffect /\ effect'.type = "position_closed"
      BY <1>2, <2>2, LeavesAre DEF CloseEvents
    <3>3. c.act \in {"close", "fetch_close_history"}
      BY <3>1, <3>2 DEF Effect, OrderEvent, Commands, Actions
    <3> QED
      BY <3>1, <3>2, <3>3, InHandEnds
  <2> QED
    BY <2>1, <2>2
<1>4. Has(events', CloseEvents(o)) => State(o)' = "closed"
  <2>1. CASE Has(events, CloseEvents(o)) \/ effect \in CloseEvents(o)
    BY <1>1, <2>1 DEF EndsTold
  <2>2. ASSUME CloseAtBroker(o) PROVE State(o)' = "closed"
    BY <1>a, <2>2 DEF CloseAtBroker, State
  <2> QED
    BY <1>2, <2>1, <2>2, EventComes DEF CloseEvents
<1>5. answer' \in CloseAnswers(o) => State(o)' = "closed"
  <2>1. CASE answer' = answer
    BY <1>1, <2>1 DEF EndsTold
  <2>2. ASSUME answer' # answer, answer' \in CloseAnswers(o) PROVE State(o)' = "closed"
    <3>1. PICK c \in Commands : InHand(c)
      BY <1>2, <2>2, AnswerComes
    <3>2. c.act = "close" /\ c.of = o /\ answer'.ok
      BY <2>2, <3>1 DEF InHand, CloseAnswers, Of
    <3> QED
      BY <3>1, <3>2, InHandEnds
  <2> QED
    BY <2>1, <2>2
<1>6. Has(resps', CloseAnswers(o)) => State(o)' = "closed"
  BY <1>1, <1>2, AnswerComes DEF EndsTold
<1>7. Has(events', CancelEvents(o)) => State(o)' = "cancelled"
  <2>1. CASE Has(events, CancelEvents(o))
    BY <1>1, <2>1 DEF EndsTold
  <2>2. effect \notin CancelEvents(o)
    BY DEF OrderInv, LeavesOnce, LeavesOf, CancelEvents
  <2>3. ASSUME CancelAtBroker(o) PROVE State(o)' = "cancelled"
    BY <1>a, <2>3 DEF CancelAtBroker, State
  <2> QED
    BY <1>2, <2>1, <2>2, <2>3, EventComes DEF CancelEvents
<1>8. ASSUME eventAt' = [at |-> "drop", of |-> o] PROVE Status(o)' = "cancelled"
  <2>1. CASE eventAt' = eventAt
    <3>1. Status(o) = "cancelled"
      BY <1>8, <2>1 DEF EndsTold
    <3>2. Exists(o)
      BY <3>1 DEF Exists, Status, NoRow
    <3> QED
      BY <3>1, <3>2, StatusMoves DEF StatusMove
  <2>2. CASE eventAt' # eventAt
    BY <1>8, <2>2, DropBegins
  <2> QED
    BY <2>1, <2>2
<1> QED
  BY <1>3, <1>4, <1>5, <1>6, <1>7, <1>8 DEF EndsTold, Status

-----------------------------------------------------------------------------
(* The id in the row leads to it.                                          *)

\* An id leaves the index for another one, or with the order that had it.
LEMMA LinksMove ==
  ASSUME Typed, [Next]_vars, NEW o \in Orders, Exists(o), "crash" \notin lost'[o]
  PROVE  /\ OrderId(o) \in brokerIndex \cup {respAt} =>
              \/ OrderId(o) \in brokerIndex' \cup {respAt'}
              \/ Moving(o) \/ eventAt = [at |-> "drop", of |-> o]
         /\ PositionId(o) \in brokerIndex \cup {respAt} \/ Moving(o) =>
              PositionId(o) \in brokerIndex' \cup {respAt'} \/ Moving(o)'
<1>a. eventAt \in EventStages
  BY DEF Typed, TypeOK
<1>b. OrderId(o) # NoId /\ PositionId(o) # NoId /\ \A p : OrderId(p) = OrderId(o) => p = o
  BY SelfIds
<1>c. \A p : OrderId(p) # PositionId(o)
  BY DEF OrderId, PositionId
<1>1. CASE UNCHANGED <<brokerIndex, respAt, eventAt>>
  BY <1>1 DEF Moving
<1>2. CASE ResponseLoop
  <2>1. UNCHANGED eventAt
    BY <1>2 DEF ResponseLoop, DropResponse, OpenSucceeded, OpenFailed, CloseSucceeded, CloseFailed,
                ModifyAnswered, LinkAnswered, Routed, TakeResponse
  <2>2. CASE LinkAnswered
    BY <2>1, <2>2 DEF LinkAnswered, LinkBrokerId, Moving
  <2>3. CASE ~ LinkAnswered
    <3>1. respAt = NoId /\ UNCHANGED brokerIndex
      BY <1>2, <2>3 DEF ResponseLoop, DropResponse, OpenSucceeded, OpenFailed, CloseSucceeded,
                        CloseFailed, ModifyAnswered, Routed, TakeResponse
    <3> QED
      BY <1>b, <2>1, <3>1 DEF Moving
  <2> QED
    BY <2>2, <2>3
<1>3. CASE ForgetOrderId
  <2>1. eventAt \in [at : {"unlink", "link", "drop"}, of : Orders]
    BY <1>a, <1>3, Stages DEF ForgetOrderId, ListStages, DiffStages
  <2>2. /\ eventAt.at = "unlink" /\ eventAt'.at = "link" /\ eventAt'.of = eventAt.of
        /\ brokerIndex' = brokerIndex \ {OrderId(eventAt.of)} /\ UNCHANGED respAt
    BY <1>3, <2>1 DEF ForgetOrderId, UnlinkBrokerId, EventStep, EventUnchanged
  <2> QED
    BY <1>b, <1>c, <2>2 DEF Moving
<1>4. CASE LinkPosition
  BY <1>4 DEF LinkPosition, LinkBrokerId, EventStep, EventUnchanged, Moving
<1>5. CASE DropOrderId
  <2>1. eventAt \in [at : {"unlink", "link", "drop"}, of : Orders]
    BY <1>a, <1>5, Stages DEF DropOrderId, ListStages, DiffStages
  <2>2. /\ eventAt.at = "drop"
        /\ brokerIndex' = brokerIndex \ {OrderId(eventAt.of)} /\ UNCHANGED respAt
    BY <1>5 DEF DropOrderId, UnlinkBrokerId, EventStep, EventUnchanged
  <2> QED
    BY <1>b, <1>c, <2>1, <2>2 DEF Moving
<1>6. CASE Reconcile
  <2>1. eventAt.at \in {"list", "diff"} /\ UNCHANGED <<brokerIndex, respAt>>
    BY <1>6 DEF Reconcile, ListOpen, BeginDiff, Diff, EventStep, EventUnchanged
  <2> QED
    BY <2>1 DEF Moving
<1>7. ASSUME NEW e, \/ DropEvent(e) \/ PositionClosed(e) \/ PendingFilled(e)
                    \/ PositionModified(e) \/ OrderCancelled(e) \/ ReadSnapshot(e)
      PROVE  eventAt = IdleEvent /\ UNCHANGED <<brokerIndex, respAt>>
  BY <1>7 DEF DropEvent, PositionClosed, PendingFilled, PositionModified, OrderCancelled,
              ReadSnapshot, Known, TakeEvent, EventUnchanged
<1>8. CASE EventLoop
  BY <1>3, <1>4, <1>5, <1>6, <1>7, <1>8, Stages DEF EventLoop, Moving
<1>9. CASE Crash
  BY <1>9 DEF Crash, CrashOf
<1>10. CASE Operator \/ Service \/ Outside \/ UNCHANGED vars
  BY <1>1, <1>10 DEF Operator, Create, Close, Modify, Service, PushOpen, Link, OutsideUnchanged,
     Outside, loopVars, storeVars, vars
<1> QED
  BY <1>2, <1>8, <1>9, <1>10 DEF Next, Loops

LEMMA IndexedKeeps ==
  ASSUME Typed, EffectAnswered, [Next]_vars, NEW o \in Orders, OrderInv(o), EndsTold(o),
         RowIsIndexed(o)
  PROVE  RowIsIndexed(o)'
<1> DEFINE OrderLeads    == OrderId(o) \in brokerIndex \cup {respAt}
           PositionLeads == PositionId(o) \in brokerIndex \cup {respAt} \/ Moving(o)
           Leads == /\ rows[o].broker = OrderId(o) /\ Status(o) = "pending" => OrderLeads
                    /\ rows[o].broker = PositionId(o) => PositionLeads
<1> SUFFICES ASSUME Exists(o)', "crash" \notin lost'[o] PROVE Leads'
  BY DEF RowIsIndexed
<1>a. OrderId(o) # NoId /\ PositionId(o) # NoId /\ OrderId(o) # PositionId(o)
  BY SelfIds
<1>b. CASE ~ Exists(o)
  <2>1. rows'[o].broker = NoId
    <3>1. CreateMoves(o)
      BY <1>b, RowsMove DEF RowMoves, Exists, AnswerMoves, EventMoves, DiffMoves
    <3> QED
      BY <3>1 DEF CreateMoves, RowIs
  <2> QED
    BY <1>a, <2>1
<1>c. CASE Exists(o)
  <2>1. "crash" \notin lost[o]
    BY LossesGrow DEF LossesKept
  <2>2. /\ rows[o].broker = OrderId(o) /\ Status(o) = "pending" => OrderLeads
        /\ rows[o].broker = PositionId(o) => PositionLeads
    BY <1>c, <2>1 DEF RowIsIndexed
  <2>3. Moving(o) => rows[o].broker = PositionId(o)
    BY DEF OrderInv, IndexFollowsRow
  <2>4. eventAt = [at |-> "drop", of |-> o] => Status(o) = "cancelled"
    BY DEF EndsTold
  <2>5. /\ rows[o].broker = OrderId(o) /\ Status(o) = "pending" => OrderLeads'
        /\ rows[o].broker = PositionId(o) => PositionLeads'
    BY <1>a, <1>c, <2>2, <2>3, <2>4, LinksMove
  <2> HIDE DEF OrderLeads, PositionLeads
  <2>6. CASE rows'[o].broker = rows[o].broker /\ Status(o)' \in {Status(o), "rejected", "closed", "cancelled"}
    BY <2>5, <2>6
  <2>7. CASE AnswerMoves(o)
    <3> DEFINE r == Head(resps)
    <3>1. /\ resps # <<>> /\ r.of = o
          /\ OpenSucceeded(r) \/ OpenFailed(r) \/ CloseSucceeded(r) \/ (ModifyAnswered(r) /\ r.ok)
      BY <2>7 DEF AnswerMoves
    <3>2. OpenSucceeded(r) => rows'[o].broker = AnsweredId(r)
      <4>1. OpenSucceeded(r) => ~ OpenFailed(r) /\ ~ CloseSucceeded(r) /\ ~ ModifyAnswered(r)
        BY DEF OpenSucceeded, OpenFailed, CloseSucceeded, ModifyAnswered
      <4> QED
        BY <2>7, <4>1 DEF AnswerMoves, RowIs
    <3>3. OpenSucceeded(r) => respAt' = AnsweredId(r)
      BY DEF OpenSucceeded
    <3>4. OpenSucceeded(r) => Leads'
      BY <3>2, <3>3 DEF OrderLeads, PositionLeads
    <3>5. ~ OpenSucceeded(r) =>
            rows'[o].broker = rows[o].broker /\ Status(o)' \in {Status(o), "rejected", "closed", "cancelled"}
      BY <2>7 DEF AnswerMoves, RowIs
    <3> QED
      BY <2>6, <3>4, <3>5
  <2>8. CASE EventMoves(o)
    <3> DEFINE e == Head(events)
    <3>1. \/ /\ PendingFilled(e) /\ RowIs(o, "filled", "filled", PositionId(o), rows[o].stops)
             /\ e \in EventsOf(o)
          \/ rows'[o].broker = rows[o].broker /\ Status(o)' \in {Status(o), "closed", "cancelled"}
      BY <2>8 DEF EventMoves, RowIs
    <3>2. ASSUME PendingFilled(e), e \in EventsOf(o), rows'[o].broker = PositionId(o)
          PROVE  Leads'
      <4>1. Moving(o)'
        BY <3>2 DEF PendingFilled, EventsOf, Moving
      <4> QED
        BY <1>a, <3>2, <4>1 DEF PositionLeads
    <3> QED
      BY <2>6, <3>1, <3>2 DEF RowIs
  <2>9. CASE rows'[o] = rows[o] \/ DiffMoves(o)
    BY <2>6, <2>9 DEF DiffMoves, RowIs, Status
  <2> QED
    BY <1>c, <2>7, <2>8, <2>9, RowsMove DEF RowMoves, CreateMoves
<1> QED
  BY <1>b, <1>c

-----------------------------------------------------------------------------
(* A position that is open is shown, or an answer or an event will tell.   *)

Untold(o) == lost[o] \cap {"answer", "event", "doubt", "crash"} = {}

LEMMA ShownKeeps ==
  ASSUME Typed, [Next]_vars, NEW o \in Orders, OrderInv(o), EndsTold(o), FoundWaits(o), Shown(o),
         State(o) = "open"
  PROVE  Shown(o)'
<1>1. CASE rows'[o] = rows[o]
  BY <1>1 DEF Shown, Status
<1>2. ~ CreateMoves(o)
  BY DEF CreateMoves, Shown, Exists, Status, NoRow
<1>3. CASE AnswerMoves(o)
  <2> DEFINE r == Head(resps)
  <2>1. /\ resps # <<>> /\ r.of = o
        /\ OpenSucceeded(r) \/ OpenFailed(r) \/ CloseSucceeded(r) \/ (ModifyAnswered(r) /\ r.ok)
    BY <1>3 DEF AnswerMoves
  <2>2. ~ OpenSucceeded(r) /\ ~ OpenFailed(r) /\ ~ CloseSucceeded(r)
    <3> HIDE DEF r
    <3> QED
      BY <2>1, AnswerRouted DEF Shown, r
  <2> QED
    BY <1>3, <2>2 DEF AnswerMoves, RowIs, Shown
<1>4. CASE EventMoves(o)
  <2> DEFINE e == Head(events)
  <2>1. /\ events # <<>> /\ e \in EventsOf(o)
        /\ PositionClosed(e) \/ PendingFilled(e) \/ PositionModified(e) \/ OrderCancelled(e)
    BY <1>4 DEF EventMoves
  <2>2. ~ PositionClosed(e) /\ ~ PendingFilled(e) /\ ~ OrderCancelled(e)
    <3> HIDE DEF e
    <3> QED
      BY <2>1, EventRouted DEF Shown, e
  <2> QED
    BY <1>4, <2>2 DEF EventMoves, RowIs, Shown
<1>5. ~ DiffMoves(o)
  BY DEF DiffMoves, FoundWaits, GoneOffline, Shown
<1> QED
  BY <1>1, <1>2, <1>3, <1>4, <1>5, RowsMove DEF RowMoves

\* The answer to an open that was filled is lost, or reaches the row.
LEMMA FillingKeeps ==
  ASSUME Typed, EffectAnswered, [Next]_vars, NEW o \in Orders, OrderInv(o), EndsTold(o), Filling(o),
         State(o) = "open", Untold(o)'
  PROVE  Filling(o)' \/ Shown(o)'
<1>a. /\ resps \in Seq(Responses) /\ AccountTypeOK /\ StoreTypeOK /\ Untold(o)
      /\ lost \in [Orders -> SUBSET Losses] /\ Exists(o)
  <2>1. Exists(o)
    BY NothingYet
  <2> QED
    BY <2>1, LossesGrow DEF Typed, TypeOK, AccountTypeOK, Untold, LossesKept
<1>1. CASE answer \in Fills(o)
  <2>1. answer # NoAnswer /\ answer.of = o
    BY <1>1, NoAnswerIsNone DEF Fills, OpenResps, Of
  <2>2. CASE UNCHANGED answer
    BY <1>1, <2>2 DEF Filling
  <2>3. CASE Respond
    <3>1. resps' = Append(resps, answer) /\ answer \in Responses
      BY <1>1, <2>3 DEF Respond, Fills, OpenResps, Of
    <3> QED
      BY <1>a, <1>1, <3>1, AppendHas DEF Filling
  <2>4. ~ GoDown
    <3>1. GoDown => "answer" \in lost'[o]
      BY <1>a, <2>1 DEF GoDown
    <3> QED
      BY <3>1 DEF Untold
  <2>5. ~ HandleCommand
    BY <2>1, Handled DEF InHand
  <2> QED
    BY <2>2, <2>3, <2>4, <2>5, Kinds DEF Still, ReadsAnswer, ReadsEvent, Account, Trigger,
       CancelAtBroker, CloseAtBroker, EditAtBroker, PublishEffect, PublishSnapshot, SkipSnapshot,
       Crash, CrashOf, clientVars
<1>2. CASE Has(resps, Fills(o))
  <2>1. CASE UNCHANGED resps
    BY <1>2, <2>1 DEF Filling
  <2>2. CASE Respond
    <3>1. answer \in Responses /\ resps' = Append(resps, answer)
      BY <1>a, <2>2 DEF Respond, AccountTypeOK
    <3> QED
      BY <1>a, <1>2, <3>1, AppendHas DEF Filling
  <2>3. ~ Crash
    BY <1>a DEF Crash, CrashOf, Untold
  <2>4. CASE ReadsAnswer
    <3> DEFINE r == Head(resps)
    <3>1. resps # <<>> /\ resps' = Tail(resps)
      BY <2>4 DEF ReadsAnswer
    <3>2. CASE r \notin Fills(o)
      BY <1>a, <1>2, <3>1, <3>2, TailHas DEF Filling
    <3>3. CASE r \in Fills(o)
      <4>1. r.act = "open" /\ r.of = o /\ r.filled
        BY <3>3 DEF Fills, OpenResps, Of
      <4> HIDE DEF r
      <4>2. ~ DropResponse(r)
        BY <1>a, <4>1 DEF DropResponse, Lose, Untold
      <4>3. ~ OpenFailed(r)
        <5>1. OpenFailed(r) => Refusing(o)
          BY <3>1, <4>1, AnswerRouted DEF r
        <5> QED
          BY <5>1, <1>a DEF OrderInv, RefusedIsNone, Untold
      <4>6. OpenSucceeded(r)
        BY <2>4, <4>1, <4>2, <4>3 DEF ReadsAnswer, CloseSucceeded, CloseFailed, ModifyAnswered, r
      <4> DEFINE row == [rows[r.of] EXCEPT !.status = FilledStatus(r.of), !.p_status = "filled",
                                           !.broker = PositionId(r.of)]
      <4>7. UpdateOrder(o, row)
        BY <4>1, <4>6 DEF OpenSucceeded, AnsweredId
      <4>8. rows[o] \in Rows /\ rows'[o] = row
        BY <1>a, <4>7, RowWritten
      <4> QED
        BY <4>1, <4>8 DEF Shown, Rows, Status, FilledStatus
    <3> QED
      BY <3>2, <3>3
  <2>5. CASE Still \/ ReadsEvent \/ Account \/ HandleCommand \/ PublishEffect \/ GoDown
             \/ PublishSnapshot \/ SkipSnapshot
    <3>1. UNCHANGED resps
      BY <2>5 DEF Still, ReadsEvent, Account, Trigger, CancelAtBroker, CloseAtBroker, EditAtBroker,
         HandleCommand, Executes, Refuses, ExecutesInDoubt, FetchesHistory, Take,
         PublishEffect, GoDown, PublishSnapshot, SkipSnapshot, streamVars
    <3> QED
      BY <2>1, <3>1
  <2> QED
    BY <2>2, <2>3, <2>4, <2>5, Kinds
<1> QED
  BY <1>1, <1>2 DEF Filling

\* The event of a fill finds the row, though its answer came before it only just.
LEMMA TellingKeeps ==
  ASSUME Typed, EffectAnswered, [Next]_vars, NEW o \in Orders, OrderInv(o), EndsTold(o),
         RowIsIndexed(o), Has(events, FillEvents(o)), State(o) = "open", Untold(o)'
  PROVE  Has(events', FillEvents(o)) \/ Shown(o)'
<1>a. /\ events \in Seq(Events) /\ AccountTypeOK /\ StoreTypeOK /\ Untold(o)
      /\ lost \in [Orders -> SUBSET Losses] /\ Exists(o)
  <2>1. Exists(o)
    BY NothingYet
  <2> QED
    BY <2>1, LossesGrow DEF Typed, TypeOK, AccountTypeOK, Untold, LossesKept
<1>1. CASE UNCHANGED events
  BY <1>1
<1>2. ASSUME NEW e \in Events, events' = Append(events, e) PROVE Has(events', FillEvents(o))
  BY <1>a, <1>2, AppendHas
<1>3. ~ Crash
  BY <1>a DEF Crash, CrashOf, Untold
<1>4. CASE ReadsEvent
  <2> DEFINE e == Head(events)
  <2>1. events # <<>> /\ events' = Tail(events)
    BY <1>4 DEF ReadsEvent
  <2>2. CASE e \notin FillEvents(o)
    BY <1>a, <2>1, <2>2, TailHas
  <2>3. CASE e \in FillEvents(o)
    <3>1. e \in EventsOf(o) /\ e.type = "pending_filled" /\ e.of = o
      BY <2>3 DEF FillEvents, EventsOf
    <3>2. Status(o) = "pending"
      <4>1. e \in LeavesOf(o)
        BY <3>1 DEF LeavesOf
      <4>2. Leaving(o)
        BY <1>a, <2>1, <4>1, TailHas DEF Leaving
      <4> QED
        BY <1>a, <4>2 DEF OrderInv, LeavesOnce, RefusedIsNone, Untold
    <3> HIDE DEF e
    <3>3. ~ DropEvent(e)
      <4>1. SUFFICES ASSUME DropEvent(e) PROVE FALSE
        OBVIOUS
      <4>2. OrderId(o) \notin brokerIndex /\ EventId(e) = OrderId(o)
        BY <3>1, <4>1 DEF DropEvent, EventId
      <4>3. rows[o].broker = OrderId(o) /\ respAt # OrderId(o)
        <5>1. OrderId(o)[2] = o
          BY SelfIds
        <5>2. NotYetKnown(OrderId(o)) => Lose(o, "event")
          BY <3>1, <4>1, <4>2 DEF DropEvent
        <5>3. ~ NotYetKnown(OrderId(o))
          BY <1>a, <5>2 DEF Lose, Untold
        <5> QED
          BY <5>1, <5>3 DEF NotYetKnown
      <4> QED
        BY <1>a, <3>2, <4>2, <4>3 DEF RowIsIndexed, Untold
    <3>4. PendingFilled(e)
      <4>1. /\ PositionClosed(e) => e.type = "position_closed"
            /\ PositionModified(e) => e.type = "position_modified"
            /\ OrderCancelled(e) => e.type = "order_cancelled"
            /\ ReadSnapshot(e) => e.type = "reconcile_snapshot"
        BY DEF PositionClosed, PositionModified, OrderCancelled, ReadSnapshot, Known, TakeEvent
      <4> QED
        BY <1>4, <3>1, <3>3, <4>1 DEF ReadsEvent, e
    <3> DEFINE row == [rows[e.of] EXCEPT !.status = "filled", !.p_status = "filled",
                                         !.broker = PositionId(e.of)]
    <3>5. UpdateOrder(o, row)
      BY <3>1, <3>4 DEF PendingFilled
    <3>6. rows[o] \in Rows /\ rows'[o] = row
      BY <1>a, <3>5, RowWritten
    <3> QED
      BY <3>1, <3>6 DEF Shown, Rows, Status
  <2> QED
    BY <2>2, <2>3
<1>5. CASE PublishEffect
  <2>1. effect \in Events
    BY <1>a, <1>5, NoEffectIsNone DEF PublishEffect, AccountTypeOK
  <2> QED
    BY <1>2, <1>5, <2>1 DEF PublishEffect
<1>6. CASE PublishSnapshot
  <2>1. client.snapshot \in Snapshots
    BY <1>a DEF AccountTypeOK
  <2> QED
    BY <1>2, <1>6, <2>1 DEF PublishSnapshot, Snapshots, Events
<1>7. CASE Account
  <2>1. PICK p \in Orders : Trigger(p) \/ CancelAtBroker(p) \/ CloseAtBroker(p) \/ EditAtBroker(p)
    BY <1>7 DEF Account
  <2>2. 0 \in 0 .. MaxStops /\ (EditAtBroker(p) => edits' \in 0 .. MaxStops)
    BY <1>a, OrderAssumption DEF EditAtBroker, AccountTypeOK
  <2>3. UNCHANGED events \/ \E e \in Events : events' = Append(events, e)
    BY <2>1, <2>2, OrderEventTyped DEF Trigger, CancelAtBroker, CloseAtBroker, EditAtBroker, Push
  <2> QED
    BY <1>1, <1>2, <2>3
<1>8. CASE Still \/ ReadsAnswer \/ HandleCommand \/ Respond \/ GoDown \/ SkipSnapshot
  BY <1>1, <1>8 DEF Still, ReadsAnswer, HandleCommand, Executes, Refuses, ExecutesInDoubt,
     FetchesHistory, Respond, GoDown, SkipSnapshot, streamVars
<1> QED
  BY <1>3, <1>4, <1>5, <1>6, <1>7, <1>8, Kinds

\* An order that becomes a position is told of by the answer to its open, or by
\* the event of its fill.
LEMMA OpensTold ==
  ASSUME Typed, EffectAnswered, [Next]_vars, NEW o \in Orders, OrderInv(o),
         State(o) # "open", State(o)' = "open", Untold(o)'
  PROVE  Filling(o)' \/ Has(events', FillEvents(o))
<1>a. /\ AccountTypeOK /\ events \in Seq(Events) /\ lost \in [Orders -> SUBSET Losses]
      /\ account \in [Orders -> [state : {"none", "working", "open", "closed", "cancelled"},
                                 stops : 0 .. MaxStops]]
  BY DEF Typed, TypeOK, AccountTypeOK
<1>1. CASE Account
  <2>1. Trigger(o)
    BY <1>a, <1>1 DEF Account, Trigger, CancelAtBroker, CloseAtBroker, EditAtBroker, State
  <2> DEFINE e == OrderEvent("pending_filled", o, 0)
  <2>2. e \in Events /\ e \in FillEvents(o)
    BY OrderEventTyped, OrderAssumption DEF FillEvents, EventsOf
  <2>3. "event" \in lost'[o] \/ events' = Append(events, e)
    BY <1>a, <2>1 DEF Trigger, Push, Lose
  <2> HIDE DEF e
  <2>4. events' = Append(events, e)
    BY <2>3 DEF Untold
  <2>5. Has(Append(events, e), FillEvents(o))
    BY <1>a, <2>2, AppendHas
  <2> QED
    BY <2>4, <2>5
<1>2. CASE HandleCommand
  <2>1. PICK c \in Commands : InHand(c)
    BY <1>2, Handled
  <2>2. Performs(c)
    BY <2>1 DEF InHand, Executes, Refuses, ExecutesInDoubt, FetchesHistory, State
  <2>3. c.of = o /\ c.act = "open" /\ c.type = "market"
    BY <1>a, <2>2, PerformsAre DEF State, Commands, Actions, Opened
  <2>4. ~ ExecutesInDoubt(c)
    BY <1>a, <2>3 DEF ExecutesInDoubt, Lose, Untold
  <2>5. Executes(c)
    BY <2>1, <2>3, <2>4 DEF InHand, Refuses, FetchesHistory, State
  <2>6. answer' \in Fills(o)
    BY <2>1, <2>3, <2>5 DEF InHand, Executes, Reply, Fills, OpenResps, Of
  <2> QED
    BY <2>6 DEF Filling
<1> QED
  BY <1>1, <1>2, StateMoves

LEMMA LiveKeeps ==
  ASSUME Typed, EffectAnswered, [Next]_vars, NEW o \in Orders, OrderInv(o), EndsTold(o),
         FoundWaits(o), RowIsIndexed(o), LiveAccounted(o)
  PROVE  LiveAccounted(o)'
<1> SUFFICES ASSUME State(o)' = "open", Untold(o)'
             PROVE  Filling(o)' \/ Has(events', FillEvents(o)) \/ Shown(o)'
  BY DEF LiveAccounted, Untold, FillEvents, EventsOf
<1>1. CASE State(o) = "open"
  <2>1. Untold(o)
    BY LossesGrow DEF LossesKept, Untold
  <2>2. Filling(o) \/ Has(events, FillEvents(o)) \/ Shown(o)
    BY <1>1, <2>1 DEF LiveAccounted, Untold
  <2> QED
    BY <1>1, <2>2, FillingKeeps, TellingKeeps, ShownKeeps
<1>2. CASE State(o) # "open"
  BY <1>2, OpensTold
<1> QED
  BY <1>1, <1>2

-----------------------------------------------------------------------------
(* The stops.                                                              *)

LEMMA RequestsWithout ==
  ASSUME Typed, Typed', [Next]_vars, NEW o \in Orders, ~ Has(requests, WithStops(OpenRequests(o)))
  PROVE  ~ Has(requests', WithStops(OpenRequests(o)))
<1>a. requests \in Seq(RequestRecords) /\ requests' \in Seq(RequestRecords)
  BY DEF Typed, TypeOK
<1>b. \A i \in DOMAIN requests : requests[i] \in RequestRecords
  BY <1>a
<1>1. CASE UNCHANGED requests
  BY <1>1
<1>2. ASSUME NEW q \in RequestRecords, requests' = Append(requests, q),
             q.act = "open" => q.stops = 0
      PROVE  ~ Has(requests', WithStops(OpenRequests(o)))
  <2>1. q \notin WithStops(OpenRequests(o))
    BY <1>2 DEF WithStops, OpenRequests, Of
  <2> QED
    BY <1>a, <1>2, <2>1, AppendHas
<1>3. ASSUME DOMAIN requests' = DOMAIN requests,
             \A i \in DOMAIN requests : /\ requests'[i].act = requests[i].act
                                       /\ requests'[i].of = requests[i].of
                                       /\ requests'[i].stops = requests[i].stops
      PROVE  ~ Has(requests', WithStops(OpenRequests(o)))
  BY <1>b, <1>3 DEF Has, WithStops, OpenRequests, Of
<1>4. CASE Operator
  <2>1. ASSUME NEW act, NEW p, NEW n, NEW at, Ask(act, p, n, at), act = "open" => n = 0
        PROVE  ~ Has(requests', WithStops(OpenRequests(o)))
    <3> DEFINE q == [act |-> act, of |-> p, stops |-> n, at |-> at]
    <3>1. requests' = Append(requests, q) /\ q.act = act /\ q.stops = n
      BY <2>1 DEF Ask
    <3> HIDE DEF q
    <3>2. q \in RequestRecords
      <4>1. Len(requests) + 1 \in DOMAIN requests' /\ requests'[Len(requests) + 1] = q
        BY <1>a, <3>1
      <4> QED
        BY <1>a, <4>1
    <3> QED
      BY <1>2, <2>1, <3>1, <3>2
  <2> QED
    BY <1>4, <2>1 DEF Operator, Create, Close, Modify
<1>5. CASE Service
  <2>1. PICK i \in DOMAIN requests, at \in {"pushed", "linked"} : requests' = [requests EXCEPT ![i].at = at]
    BY <1>5 DEF Service, PushOpen, Link
  <2>2. \A j \in DOMAIN requests : requests'[j] = IF j = i THEN [requests[i] EXCEPT !.at = at]
                                                 ELSE requests[j]
    BY <2>1
  <2>3. requests[i] \in RequestRecords
    BY <1>b
  <2>4. /\ [requests[i] EXCEPT !.at = at].act = requests[i].act
        /\ [requests[i] EXCEPT !.at = at].of = requests[i].of
        /\ [requests[i] EXCEPT !.at = at].stops = requests[i].stops
    BY <2>3 DEF RequestRecords
  <2> QED
    BY <1>3, <2>1, <2>2, <2>4
<1>6. CASE Crash
  <2>1. requests' = [i \in DOMAIN requests |->
           IF requests[i].at \in {"stored", "pushed"} THEN [requests[i] EXCEPT !.at = "dead"]
           ELSE requests[i]]
    BY <1>6 DEF Crash, CrashOf
  <2>2. ASSUME NEW i \in DOMAIN requests
        PROVE  /\ requests'[i].act = requests[i].act /\ requests'[i].of = requests[i].of
               /\ requests'[i].stops = requests[i].stops
    <3>1. requests[i] \in RequestRecords
      BY <1>b
    <3> QED
      BY <2>1, <3>1 DEF RequestRecords
  <2> QED
    BY <1>3, <2>1, <2>2
<1> QED
  BY <1>1, <1>4, <1>5, <1>6 DEF Next, Loops, Outside, vars

LEMMA CmdsWithout ==
  ASSUME Typed, Typed', [Next]_vars, NEW o \in Orders, OpensWithout(o)
  PROVE  ~ Has(cmds', WithStops(OpenCmds(o)))
<1>a. /\ cmds \in Seq(Commands) /\ cmds' \in Seq(Commands) /\ requests \in Seq(RequestRecords)
      /\ ~ Has(cmds, WithStops(OpenCmds(o)))
  BY DEF Typed, TypeOK, AccountTypeOK, OpensWithout
<1>1. CASE UNCHANGED cmds
  BY <1>1, <1>a
<1>2. ASSUME NEW c, cmds' = Append(cmds, c), c.act = "open" /\ c.of = o => c.stops = 0
      PROVE  ~ Has(cmds', WithStops(OpenCmds(o)))
  <2>1. c \notin WithStops(OpenCmds(o))
    BY <1>2 DEF WithStops, OpenCmds, Of
  <2>2. c \in Commands
    <3>1. Len(cmds) + 1 \in DOMAIN cmds' /\ cmds'[Len(cmds) + 1] = c
      BY <1>a, <1>2
    <3> QED
      BY <1>a, <3>1
  <2> QED
    BY <1>a, <1>2, <2>1, <2>2, AppendHas
<1>3. CASE Operator
  <2>1. ASSUME NEW p \in Orders, NEW act \in {"close", "modify_sl_tp"}, NEW n,
               cmds' = Append(cmds, [id |-> Len(requests'), act |-> act, of |-> p,
                                     type |-> rows[p].order_type, stops |-> n])
        PROVE  ~ Has(cmds', WithStops(OpenCmds(o)))
    BY <1>2, <2>1
  <2> QED
    BY <1>1, <1>3, <2>1 DEF Operator, Create, Close, Modify
<1>4. CASE Service
  <2>1. ASSUME NEW i \in DOMAIN requests, cmds' = Append(cmds, Command(i))
        PROVE  ~ Has(cmds', WithStops(OpenCmds(o)))
    <3>1. requests[i] \in RequestRecords
      BY <1>a
    <3>2. requests[i].act = "open" /\ requests[i].of = o => requests[i].stops = 0
      BY <3>1 DEF OpensWithout, Has, WithStops, OpenRequests, Of
    <3>3. /\ Command(i).act = requests[i].act /\ Command(i).of = requests[i].of
          /\ Command(i).stops = requests[i].stops
      BY DEF Command
    <3> QED
      BY <1>2, <2>1, <3>2, <3>3
  <2> QED
    BY <1>1, <1>4, <2>1 DEF Service, PushOpen, Link
<1>5. CASE EventLoop
  <2>1. UNCHANGED cmds \/ \E p : cmds' = Append(cmds, FetchHistory(p))
    BY <1>5 DEF EventLoop, DropEvent, PositionClosed, PendingFilled, PositionModified,
       OrderCancelled, ReadSnapshot, Known, ForgetOrderId, LinkPosition, DropOrderId, Reconcile,
       ListOpen, BeginDiff, Diff, DiffRow
  <2>2. \A p : FetchHistory(p).act # "open"
    BY DEF FetchHistory
  <2> QED
    BY <1>1, <1>2, <2>1, <2>2
<1>6. CASE ResponseLoop
  BY <1>1, <1>6 DEF ResponseLoop, DropResponse, OpenSucceeded, OpenFailed, CloseSucceeded, CloseFailed,
     ModifyAnswered, Routed, TakeResponse, LinkAnswered, streamVars
<1>7. CASE Outside
  <2>1. CASE HandleCommand
    <3>1. cmds # <<>> /\ cmds' = Tail(cmds)
      BY <2>1 DEF HandleCommand, Executes, Refuses, ExecutesInDoubt, FetchesHistory, Take
    <3> QED
      BY <1>a, <3>1, TailHas
  <2>2. CASE ~ HandleCommand
    <3>1. UNCHANGED cmds
      BY <1>7, <2>2 DEF Outside, Account, Trigger, CancelAtBroker, CloseAtBroker, EditAtBroker, Client,
         PublishEffect, Respond, GoDown, Connect, QuerySnapshot, PublishSnapshot, SkipSnapshot,
         streamVars
    <3> QED
      BY <1>1, <3>1
  <2> QED
    BY <2>1, <2>2
<1>8. CASE Crash \/ UNCHANGED vars
  BY <1>1, <1>8 DEF Crash, CrashOf, vars, streamVars
<1> QED
  BY <1>3, <1>4, <1>5, <1>6, <1>7, <1>8 DEF Next, Loops

LEMMA WithoutKeeps ==
  ASSUME Typed, Typed', EffectAnswered, [Next]_vars, NEW o \in Orders, OrderInv(o), OpensWithout(o)
  PROVE  OpensWithout(o)'
<1>a. /\ AccountTypeOK /\ cmds \in Seq(Commands) /\ requests \in Seq(RequestRecords)
      /\ account \in [Orders -> [state : {"none", "working", "open", "closed", "cancelled"},
                                 stops : 0 .. MaxStops]]
  BY DEF Typed, TypeOK, AccountTypeOK
<1>1. ~ Has(requests', WithStops(OpenRequests(o)))
  BY RequestsWithout DEF OpensWithout
<1>2. ~ Has(cmds', WithStops(OpenCmds(o)))
  BY CmdsWithout
<1>3. ASSUME State(o)' = "none" PROVE account'[o].stops = 0
  <2>1. State(o) = "none"
    BY <1>3, StateMoves DEF StateMove
  <2>2. account'[o].stops = account[o].stops
    <3>1. CASE UNCHANGED account
      BY <3>1
    <3>2. CASE Account
      BY <1>a, <2>1, <3>2 DEF Account, Trigger, CancelAtBroker, CloseAtBroker, EditAtBroker, State
    <3>3. CASE HandleCommand
      <4>1. PICK c \in Commands : InHand(c)
        BY <3>3, Handled
      <4>2. CASE Performs(c)
        BY <1>a, <1>3, <2>1, <4>2, PerformsAre DEF Commands, Actions, Opened
      <4> QED
        BY <3>1, <4>1, <4>2 DEF InHand, Executes, Refuses, ExecutesInDoubt, FetchesHistory
    <3>4. CASE Still \/ ReadsAnswer \/ ReadsEvent \/ PublishEffect \/ Respond \/ GoDown
                 \/ PublishSnapshot \/ SkipSnapshot \/ Crash
      BY <3>1, <3>4 DEF Still, ReadsAnswer, ReadsEvent, PublishEffect, Respond, GoDown,
         PublishSnapshot, SkipSnapshot, Crash, CrashOf, accountVars
    <3> QED
      BY <3>2, <3>3, <3>4, Kinds
  <2> QED
    BY <2>1, <2>2 DEF OpensWithout
<1> QED
  BY <1>1, <1>2, <1>3 DEF OpensWithout, State, OpenRequests, OpenCmds

LEMMA SaysAre ==
  ASSUME NEW o \in Orders
  PROVE  /\ StopsEvents(o) \in SUBSET EventsOf(o) /\ StopsEvents(o) \subseteq Events
         /\ StopsAnswers(o) \in SUBSET Responses
         /\ NoEffect \notin StopsEvents(o) /\ NoAnswer \notin StopsAnswers(o)
         /\ \A e \in Events : e \in StopsEvents(o) <=> e.type = "position_modified" /\ e.of = o
         /\ \A r \in Responses : r \in StopsAnswers(o) <=> r.act = "modify_sl_tp" /\ r.of = o /\ r.ok
<1>1. \A e \in EventsOf(o) : e \in Events /\ e # NoEffect
  BY LeavesAre, NoEffectIsNone DEF EventsOf
<1>2. \A e \in Events : e \in EventsOf(o) <=> e.type # "reconcile_snapshot" /\ e.of = o
  BY EventKinds DEF EventsOf, OrderEvents
<1> QED
  BY <1>1, <1>2, NoAnswerIsNone DEF StopsEvents, StopsAnswers, Of

\* A command in hand changes the stops if it is a modify; an open finds none.
LEMMA StopsInHand ==
  ASSUME Typed, NEW c \in Commands, InHand(c), NEW o \in Orders, OrderInv(o), OpensWithout(o)
  PROVE  \/ account'[o].stops = account[o].stops
         \/ /\ c.of = o /\ c.act = "modify_sl_tp" /\ account'[o].stops = c.stops
            /\ Executes(c) \/ ExecutesInDoubt(c)
<1>a. AccountTypeOK /\ cmds \in Seq(Commands)
  BY DEF Typed, TypeOK, AccountTypeOK
<1>1. CASE UNCHANGED account
  BY <1>1
<1>2. CASE Performs(c) /\ c.of = o /\ c.act = "open"
  <2>1. c \in OpenCmds(o) /\ Has(cmds, OpenCmds(o))
    BY <1>a, <1>2, TailHas DEF OpenCmds, Of, InHand
  <2>2. account[o].stops = 0
    BY <2>1 DEF Sent, OrderInv, NothingBeforeOpen, OpensWithout
  <2>3. c.stops = 0
    <3>1. c.stops # 0 => Has(cmds, WithStops(OpenCmds(o)))
      BY <1>a, <2>1, TailHas DEF WithStops, InHand
    <3> QED
      BY <3>1 DEF OpensWithout
  <2> QED
    BY <1>a, <1>2, <2>2, <2>3, PerformsAre
<1>3. CASE Performs(c) /\ ~ (c.of = o /\ c.act = "open") /\ (Executes(c) \/ ExecutesInDoubt(c))
  BY <1>a, <1>3, PerformsAre DEF Commands, Actions
<1> QED
  BY <1>1, <1>2, <1>3 DEF InHand, Executes, Refuses, ExecutesInDoubt, FetchesHistory

\* The last word in a stream stays what it is when something else is written,
\* when it is published, and when the stream is read.
LEMMA EventsSayOn ==
  ASSUME Typed, EffectAnswered, NEW o \in Orders, NEW n, EventsSay(o, n),
         \/ Still \/ ReadsAnswer \/ ReadsEvent \/ PublishEffect \/ Respond
         \/ GoDown /\ (answer # NoAnswer => answer.of # o)
         \/ PublishSnapshot \/ Crash
  PROVE  EventsSay(o, n)'
<1> DEFINE S == StopsEvents(o)
           T == AtStops(StopsEvents(o), n)
<1>a. events \in Seq(Events) /\ AccountTypeOK
  BY DEF Typed, TypeOK, AccountTypeOK
<1>b. /\ NoEffect \notin S /\ \A e \in S : e \in Events
      /\ \A e \in S : e.of = o /\ e.type = "position_modified"
  BY SaysAre
<1>c. /\ effect \in S => effect.stops = n
      /\ effect \notin S => LastIn(events, S, T)
  BY DEF EventsSay
<1>d. \A e \in S : e \in T <=> e.stops = n
  BY DEF AtStops
<1> SUFFICES /\ effect' \in S => effect'.stops = n
             /\ effect' \notin S => LastIn(events', S, T)
  BY DEF EventsSay, StopsEvents, EventsOf, AtStops
<1> HIDE DEF S, T
<1>1. CASE UNCHANGED <<effect, events>>
  BY <1>1, <1>c
<1>2. CASE ReadsEvent
  BY <1>2, <1>a, <1>c, TailLast DEF ReadsEvent
<1>3. CASE PublishEffect
  <2>1. effect \in Events /\ events' = Append(events, effect) /\ effect' = NoEffect
    BY <1>a, <1>3, NoEffectIsNone DEF PublishEffect, AccountTypeOK
  <2>2. IF effect \in S THEN effect \in T ELSE LastIn(events, S, T)
    BY <1>c, <1>d
  <2>3. LastIn(Append(events, effect), S, T)
    BY <1>a, <2>1, <2>2, AppendLast
  <2> QED
    BY <1>b, <2>1, <2>3
<1>4. CASE GoDown /\ (answer # NoAnswer => answer.of # o)
  <2>1. effect \notin S
    BY <1>b, <1>4 DEF EffectAnswered
  <2> QED
    BY <1>b, <1>c, <1>4, <2>1 DEF GoDown, streamVars
<1>5. CASE PublishSnapshot
  <2>1. PICK e \in Events : events' = Append(events, e) /\ e.type = "reconcile_snapshot"
    <3>1. client.snapshot \in Snapshots
      BY <1>a DEF AccountTypeOK
    <3> QED
      BY <1>5, <3>1 DEF PublishSnapshot, Snapshots, Events
  <2>2. e \notin S /\ effect' = effect
    BY <1>5, <1>b, <2>1 DEF PublishSnapshot
  <2>3. effect \notin S => LastIn(Append(events, e), S, T)
    BY <1>a, <1>c, <2>2, AppendLast
  <2> QED
    BY <1>c, <2>1, <2>2, <2>3
<1>6. CASE Crash
  <2>1. PICK seen \in 0 .. Len(events) : events' = SubSeq(events, seen + 1, Len(events))
    BY <1>6 DEF Crash, CrashOf
  <2>2. effect' = effect
    BY <1>6 DEF Crash, CrashOf, clientVars
  <2> QED
    BY <1>a, <1>c, <2>1, <2>2, CutLast
<1> QED
  BY <1>1, <1>2, <1>3, <1>4, <1>5, <1>6 DEF Still, ReadsAnswer, Respond

LEMMA AnswersSayOn ==
  ASSUME Typed, NEW o \in Orders, NEW n, AnswersSay(o, n),
         \/ Still \/ ReadsAnswer \/ ReadsEvent \/ PublishEffect \/ Respond
         \/ GoDown /\ (answer # NoAnswer => answer.of # o)
         \/ PublishSnapshot \/ Crash
  PROVE  AnswersSay(o, n)'
<1> DEFINE S == StopsAnswers(o)
           T == AtStops(StopsAnswers(o), n)
<1>a. resps \in Seq(Responses) /\ AccountTypeOK
  BY DEF Typed, TypeOK, AccountTypeOK
<1>b. NoAnswer \notin S /\ \A r \in S : r \in Responses /\ r.of = o
  BY SaysAre
<1>c. /\ answer \in S => answer.stops = n
      /\ answer \notin S => LastIn(resps, S, T)
  BY DEF AnswersSay
<1>d. \A r \in S : r \in T <=> r.stops = n
  BY DEF AtStops
<1> SUFFICES /\ answer' \in S => answer'.stops = n
             /\ answer' \notin S => LastIn(resps', S, T)
  BY DEF AnswersSay, StopsAnswers, Of, AtStops
<1> HIDE DEF S, T
<1>1. CASE UNCHANGED <<answer, resps>>
  BY <1>1, <1>c
<1>2. CASE ReadsAnswer
  BY <1>2, <1>a, <1>c, TailLast DEF ReadsAnswer
<1>3. CASE Respond
  <2>1. answer \in Responses /\ resps' = Append(resps, answer) /\ answer' = NoAnswer
    BY <1>a, <1>3 DEF Respond, AccountTypeOK
  <2>2. IF answer \in S THEN answer \in T ELSE LastIn(resps, S, T)
    BY <1>c, <1>d
  <2>3. LastIn(Append(resps, answer), S, T)
    BY <1>a, <2>1, <2>2, AppendLast
  <2> QED
    BY <1>b, <2>1, <2>3
<1>4. CASE GoDown /\ (answer # NoAnswer => answer.of # o)
  <2>1. answer \notin S
    BY <1>b, <1>4
  <2> QED
    BY <1>b, <1>c, <1>4, <2>1 DEF GoDown, streamVars
<1>5. CASE Crash
  <2>1. PICK read \in 0 .. Len(resps) : resps' = SubSeq(resps, read + 1, Len(resps))
    BY <1>5 DEF Crash, CrashOf
  <2>2. answer' = answer
    BY <1>5 DEF Crash, CrashOf, clientVars
  <2> QED
    BY <1>a, <1>c, <2>1, <2>2, CutLast
<1> QED
  BY <1>1, <1>2, <1>3, <1>4, <1>5 DEF Still, ReadsEvent, PublishEffect, PublishSnapshot

\* The stops in the row are those of a new row, or come from an answer or an
\* event that is read.
LEMMA RowStops ==
  ASSUME Typed, [Next]_vars, NEW o \in Orders, OrderInv(o), EndsTold(o), Exists(o)'
  PROVE  \/ Exists(o) /\ rows'[o].stops = rows[o].stops
         \/ ~ Exists(o) /\ rows'[o].stops = 0 /\ UNCHANGED <<account, lost>>
         \/ /\ resps # <<>> /\ resps' # resps /\ Head(resps) \in StopsAnswers(o)
            /\ rows'[o].stops = Head(resps).stops
         \/ /\ events # <<>> /\ events' # events /\ Head(events) \in StopsEvents(o)
            /\ rows'[o].stops = Head(events).stops
<1>1. CASE rows'[o] = rows[o]
  BY <1>1 DEF Exists
<1>2. CASE CreateMoves(o)
  BY <1>2 DEF CreateMoves, Create, OutsideUnchanged, accountVars, RowIs
<1>3. CASE AnswerMoves(o)
  <2> DEFINE r == Head(resps)
  <2>1. /\ resps # <<>> /\ r.of = o /\ Exists(o)
        /\ OpenSucceeded(r) \/ OpenFailed(r) \/ CloseSucceeded(r) \/ (ModifyAnswered(r) /\ r.ok)
    BY <1>3 DEF AnswerMoves
  <2>2. /\ resps \in Seq(Responses) /\ resps' = Tail(resps)
        /\ ModifyAnswered(r) => r.act = "modify_sl_tp"
        /\ r.act = "modify_sl_tp" => r \in StopsAnswers(o)
    <3> HIDE DEF r
    <3> QED
      BY <2>1, AnswerRouted DEF r
  <2>3. Len(Tail(resps)) # Len(resps)
    BY <2>1, <2>2
  <2>4. rows'[o].stops = rows[o].stops \/ (ModifyAnswered(r) /\ rows'[o].stops = r.stops)
    BY <1>3 DEF AnswerMoves, RowIs
  <2> QED
    BY <2>1, <2>2, <2>3, <2>4
<1>4. CASE EventMoves(o)
  <2> DEFINE e == Head(events)
  <2>1. /\ events # <<>> /\ e \in EventsOf(o) /\ Exists(o)
        /\ PositionClosed(e) \/ PendingFilled(e) \/ PositionModified(e) \/ OrderCancelled(e)
    BY <1>4 DEF EventMoves
  <2>2. /\ events \in Seq(Events) /\ events' = Tail(events)
        /\ PositionModified(e) => e \in StopsEvents(o)
    <3> HIDE DEF e
    <3> QED
      BY <2>1, EventRouted DEF e
  <2>3. Len(Tail(events)) # Len(events)
    BY <2>1, <2>2
  <2>4. rows'[o].stops = rows[o].stops \/ (PositionModified(e) /\ rows'[o].stops = e.stops)
    BY <1>4 DEF EventMoves, RowIs
  <2> QED
    BY <2>1, <2>2, <2>3, <2>4
<1>5. CASE DiffMoves(o)
  BY <1>5 DEF DiffMoves, RowIs
<1> QED
  BY <1>1, <1>2, <1>3, <1>4, <1>5, RowsMove DEF RowMoves

\* An answer to a modify that is read reaches the row.
LEMMA AnswerShown ==
  ASSUME Typed, ReadsAnswer, NEW o \in Orders, Head(resps) \in StopsAnswers(o), lost'[o] = {}
  PROVE  rows'[o].stops = Head(resps).stops
<1> DEFINE r == Head(resps)
<1>1. r.act = "modify_sl_tp" /\ r.of = o /\ r.ok
  BY DEF StopsAnswers, Of
<1>a. StoreTypeOK /\ lost \in [Orders -> SUBSET Losses]
  BY DEF Typed, TypeOK, AccountTypeOK
<1> HIDE DEF r
<1>2. ~ DropResponse(r)
  BY <1>a, <1>1 DEF DropResponse, Lose
<1>3. ModifyAnswered(r)
  BY <1>1, <1>2 DEF ReadsAnswer, OpenSucceeded, OpenFailed, CloseSucceeded, CloseFailed, r
<1>4. UpdateOrder(o, [rows[o] EXCEPT !.stops = r.stops])
  BY <1>1, <1>3 DEF ModifyAnswered
<1>5. rows[o] \in Rows /\ rows'[o] = [rows[o] EXCEPT !.stops = r.stops]
  BY <1>4, <1>a, RowWritten
<1> QED
  BY <1>5 DEF Rows, r

\* So does an event of new stops: its position is linked already, or the loss
\* is one the code leaves open.
LEMMA EventShown ==
  ASSUME Typed, ReadsEvent, NEW o \in Orders, OrderInv(o), RowIsIndexed(o),
         Head(events) \in StopsEvents(o), lost[o] = {}, lost'[o] = {}
  PROVE  rows'[o].stops = Head(events).stops
<1> DEFINE e == Head(events)
<1>1. e.type = "position_modified" /\ e.of = o /\ e \in EventsOf(o)
  BY DEF StopsEvents, EventsOf
<1>a. /\ StoreTypeOK /\ events \in Seq(Events) /\ lost \in [Orders -> SUBSET Losses]
      /\ events # <<>>
  BY DEF Typed, TypeOK, AccountTypeOK, ReadsEvent
<1>b. Exists(o)
  <2>1. Has(events, EventsOf(o))
    BY <1>1, <1>a, TailHas
  <2> QED
    BY <2>1, NothingYet DEF Told
<1> HIDE DEF e
<1>2. ~ DropEvent(e)
  <2> SUFFICES ASSUME DropEvent(e) PROVE FALSE
    OBVIOUS
  <2>1. PositionId(o) \notin brokerIndex /\ EventId(e) = PositionId(o) /\ eventAt = IdleEvent
    BY <1>1 DEF DropEvent, EventId, TakeEvent
  <2>2. NotYetKnown(PositionId(o)) => Lose(o, "edit")
    BY <1>1, <2>1 DEF DropEvent
  <2>3. ~ NotYetKnown(PositionId(o))
    BY <1>a, <2>2 DEF Lose
  <2>4. PositionId(o)[2] = o /\ ~ Moving(o)
    BY <2>1, SelfIds, Stages DEF Moving
  <2> QED
    BY <1>b, <2>1, <2>3, <2>4 DEF NotYetKnown, RowIsIndexed
<1>3. PositionModified(e)
  <2>1. /\ PositionClosed(e) => e.type = "position_closed"
        /\ PendingFilled(e) => e.type = "pending_filled"
        /\ OrderCancelled(e) => e.type = "order_cancelled"
        /\ ReadSnapshot(e) => e.type = "reconcile_snapshot"
    BY DEF PositionClosed, PendingFilled, OrderCancelled, ReadSnapshot, Known, TakeEvent
  <2> QED
    BY <1>1, <1>2, <2>1 DEF ReadsEvent, e
<1>4. UpdateOrder(o, [rows[o] EXCEPT !.stops = e.stops])
  BY <1>1, <1>3 DEF PositionModified
<1>5. rows[o] \in Rows /\ rows'[o] = [rows[o] EXCEPT !.stops = e.stops]
  BY <1>4, <1>a, RowWritten
<1> QED
  BY <1>5 DEF Rows, e

\* What is to come is read last, and not lost.
LEMMA ToComeOn ==
  ASSUME Typed, EffectAnswered, [Next]_vars, NEW o \in Orders, StopsToCome(o),
         ~ (ReadsAnswer /\ Head(resps) \in StopsAnswers(o)),
         ~ (ReadsEvent /\ Head(events) \in StopsEvents(o)),
         ~ (GoDown /\ answer # NoAnswer /\ answer.of = o), ~ Crash
  PROVE  StopsToCome(o)'
<1>a. /\ events \in Seq(Events) /\ resps \in Seq(Responses) /\ AccountTypeOK
      /\ answer \in Responses \cup {NoAnswer} /\ effect \in OrderEvents \cup {NoEffect}
  BY DEF Typed, TypeOK, AccountTypeOK
<1>b. /\ NoEffect \notin StopsEvents(o) /\ \A e \in StopsEvents(o) : e \in Events /\ e.of = o
      /\ NoAnswer \notin StopsAnswers(o) /\ \A r \in StopsAnswers(o) : r \in Responses /\ r.of = o
  BY SaysAre DEF StopsEvents, EventsOf
<1> DEFINE S == StopsEvents(o)
           A == StopsAnswers(o)
<1>c. effect \in S \/ Has(events, S) \/ answer \in A \/ Has(resps, A)
  BY DEF StopsToCome
<1> SUFFICES effect' \in S \/ Has(events', S) \/ answer' \in A \/ Has(resps', A)
  BY DEF StopsToCome, StopsEvents, StopsAnswers, EventsOf, Of
<1> HIDE DEF S, A
<1>1. CASE UNCHANGED <<effect, events, answer, resps>>
  BY <1>1, <1>c
<1>2. CASE ReadsAnswer /\ Head(resps) \notin A
  <2>1. Has(resps, A) => Has(resps', A)
    BY <1>2, <1>a, TailHas DEF ReadsAnswer
  <2> QED
    BY <1>2, <1>c, <2>1 DEF ReadsAnswer
<1>3. CASE ReadsEvent /\ Head(events) \notin S
  <2>1. Has(events, S) => Has(events', S)
    BY <1>3, <1>a, TailHas DEF ReadsEvent
  <2> QED
    BY <1>3, <1>c, <2>1 DEF ReadsEvent
<1>4. CASE PublishEffect
  <2>1. effect \in Events /\ events' = Append(events, effect)
    BY <1>a, <1>4, NoEffectIsNone DEF PublishEffect
  <2>2. Has(events, S) \/ effect \in S => Has(events', S)
    BY <1>a, <2>1, AppendHas
  <2> QED
    BY <1>4, <1>c, <2>2 DEF PublishEffect
<1>5. CASE Respond
  <2>1. answer \in Responses /\ resps' = Append(resps, answer)
    BY <1>a, <1>5 DEF Respond
  <2>2. Has(resps, A) \/ answer \in A => Has(resps', A)
    BY <1>a, <2>1, AppendHas
  <2> QED
    BY <1>5, <1>c, <2>2 DEF Respond
<1>6. CASE GoDown
  <2>1. effect \notin S /\ answer \notin A
    BY <1>b, <1>6 DEF EffectAnswered, S, A
  <2> QED
    BY <1>c, <1>6, <2>1 DEF GoDown, streamVars
<1>7. ASSUME NEW e \in Events, events' = Append(events, e), UNCHANGED <<effect, answer, resps>>
      PROVE  effect' \in S \/ Has(events', S) \/ answer' \in A \/ Has(resps', A)
  <2>1. Has(events, S) => Has(events', S)
    BY <1>a, <1>7, AppendHas
  <2> QED
    BY <1>7, <1>c, <2>1
<1>8. CASE PublishSnapshot
  <2>1. client.snapshot \in Snapshots
    BY <1>a DEF AccountTypeOK
  <2> QED
    BY <1>7, <1>8, <2>1 DEF PublishSnapshot, Snapshots, Events
<1>9. CASE Account
  <2>1. PICK p \in Orders : Trigger(p) \/ CancelAtBroker(p) \/ CloseAtBroker(p) \/ EditAtBroker(p)
    BY <1>9 DEF Account
  <2>2. 0 \in 0 .. MaxStops /\ (EditAtBroker(p) => edits' \in 0 .. MaxStops)
    BY <1>a, OrderAssumption DEF EditAtBroker, AccountTypeOK
  <2>3. UNCHANGED events \/ \E e \in Events : events' = Append(events, e)
    BY <2>1, <2>2, OrderEventTyped DEF Trigger, CancelAtBroker, CloseAtBroker, EditAtBroker, Push
  <2>4. UNCHANGED <<effect, answer, resps>>
    BY <2>1 DEF Trigger, CancelAtBroker, CloseAtBroker, EditAtBroker, clientVars
  <2> QED
    BY <1>1, <1>7, <2>3, <2>4
<1>10. CASE HandleCommand
  <2>1. PICK c \in Commands : InHand(c)
    BY <1>10, Handled
  <2> QED
    BY <1>b, <1>c, <2>1 DEF InHand, S, A
<1>11. CASE Still \/ SkipSnapshot
  BY <1>1, <1>11 DEF Still, SkipSnapshot, streamVars
<1> QED
  BY <1>2, <1>3, <1>4, <1>5, <1>6, <1>8, <1>9, <1>10, <1>11, Kinds DEF S, A

\* The row, once it has read what was to come.
LEMMA StopsShown ==
  ASSUME Typed, EffectAnswered, [Next]_vars, NEW o \in Orders, OrderInv(o), EndsTold(o),
         RowIsIndexed(o), OpensWithout(o), NEW n, account[o].stops = n,
         EventsSay(o, n), AnswersSay(o, n), Exists(o) => StopsToCome(o) \/ rows[o].stops = n,
         lost[o] = {}, lost'[o] = {}, Exists(o)'
  PROVE  StopsToCome(o)' \/ rows'[o].stops = n
<1>a. /\ events \in Seq(Events) /\ resps \in Seq(Responses) /\ lost \in [Orders -> SUBSET Losses]
      /\ account[o].stops = n
  BY DEF Typed, TypeOK, AccountTypeOK
<1> DEFINE S == StopsEvents(o)
           A == StopsAnswers(o)
<1>b. effect' \in S \/ Has(events', S) \/ answer' \in A \/ Has(resps', A) => StopsToCome(o)'
  BY DEF StopsToCome, StopsEvents, StopsAnswers, EventsOf, Of
<1> HIDE DEF S, A
<1>1. ~ Crash
  <2>1. Crash => Exists(o) /\ "crash" \in lost'[o]
    BY DEF Crash, CrashOf, Exists, storeVars
  <2> QED
    BY <2>1
<1>2. ~ (GoDown /\ answer # NoAnswer /\ answer.of = o)
  <2>1. GoDown /\ answer # NoAnswer /\ answer.of = o => "answer" \in lost'[o]
    BY <1>a DEF GoDown
  <2> QED
    BY <2>1
<1>3. CASE ReadsAnswer /\ Head(resps) \in A
  <2>1. rows'[o].stops = Head(resps).stops /\ resps # <<>> /\ resps' = Tail(resps) /\ answer' = answer
    BY <1>3, AnswerShown DEF A, ReadsAnswer
  <2>2. CASE answer \in A
    BY <1>b, <2>1, <2>2
  <2>3. CASE answer \notin A
    <3>1. LastIn(resps, A, AtStops(A, n))
      BY <2>3 DEF AnswersSay, A
    <3>2. Head(resps) \in AtStops(A, n) \/ Has(Tail(resps), A)
      BY <1>3, <1>a, <2>1, <3>1, TailLast
    <3> QED
      BY <1>b, <2>1, <3>2 DEF AtStops
  <2> QED
    BY <2>2, <2>3
<1>4. CASE ReadsEvent /\ Head(events) \in S
  <2>1. rows'[o].stops = Head(events).stops /\ events # <<>> /\ events' = Tail(events) /\ effect' = effect
    BY <1>4, EventShown DEF S, ReadsEvent
  <2>2. CASE effect \in S
    BY <1>b, <2>1, <2>2
  <2>3. CASE effect \notin S
    <3>1. LastIn(events, S, AtStops(S, n))
      BY <2>3 DEF EventsSay, S
    <3>2. Head(events) \in AtStops(S, n) \/ Has(Tail(events), S)
      BY <1>4, <1>a, <2>1, <3>1, TailLast
    <3> QED
      BY <1>b, <2>1, <3>2 DEF AtStops
  <2> QED
    BY <2>2, <2>3
<1>5. ASSUME ~ (ReadsAnswer /\ Head(resps) \in A), ~ (ReadsEvent /\ Head(events) \in S)
      PROVE  StopsToCome(o)' \/ rows'[o].stops = n
  <2>1. StopsToCome(o) => StopsToCome(o)'
    BY <1>1, <1>2, <1>5, ToComeOn DEF S, A
  <2>2. Exists(o) /\ rows'[o].stops = rows[o].stops => StopsToCome(o)' \/ rows'[o].stops = n
    BY <2>1
  <2>3. ~ Exists(o) /\ rows'[o].stops = 0 => rows'[o].stops = n
    BY <1>a, NothingYet DEF OpensWithout
  <2>4. CASE Elsewhere
    BY <2>2, <2>4 DEF Elsewhere, storeVars, Exists
  <2>5. CASE Still \/ ReadsAnswer \/ ReadsEvent
    <3>1. resps' # resps => ReadsAnswer
      BY <2>5 DEF Still, ReadsEvent
    <3>2. events' # events => ReadsEvent
      BY <2>5 DEF Still, ReadsAnswer
    <3> QED
      BY <1>5, <2>2, <2>3, <3>1, <3>2, RowStops DEF S, A
  <2> QED
    BY <1>1, <2>4, <2>5, Kinds
<1> QED
  BY <1>3, <1>4, <1>5

\* A step of the account, and of a command, is followed by what tells it.
LEMMA AccountSays ==
  ASSUME Typed, EffectAnswered, Account, NEW o \in Orders, NEW n, NEW m,
         account[o].stops = n, account'[o].stops = m,
         EventsSay(o, n), AnswersSay(o, n), lost'[o] = {}
  PROVE  /\ EventsSay(o, m)' /\ AnswersSay(o, m)'
         /\ m = n \/ StopsToCome(o)'
<1>a. /\ events \in Seq(Events) /\ resps \in Seq(Responses) /\ lost \in [Orders -> SUBSET Losses]
      /\ account \in [Orders -> [state : {"none", "working", "open", "closed", "cancelled"},
                                 stops : 0 .. MaxStops]]
      /\ edits \in 0 .. MaxStops
  BY DEF Typed, TypeOK, AccountTypeOK
<1>b. account[o].stops = n /\ account'[o].stops = m
  OBVIOUS
<1>1. PICK p \in Orders : Trigger(p) \/ CancelAtBroker(p) \/ CloseAtBroker(p) \/ EditAtBroker(p)
  BY DEF Account
<1>2. UNCHANGED <<effect, answer, resps>>
  BY <1>1 DEF Trigger, CancelAtBroker, CloseAtBroker, EditAtBroker, clientVars
<1>3. AnswersSay(o, n) => AnswersSay(o, n)'
  BY <1>2 DEF AnswersSay, LastIn, StopsAnswers, Of, AtStops
<1>4. CASE EditAtBroker(p) /\ p = o
  <2> DEFINE e == OrderEvent("position_modified", o, edits')
  <2>1. client.at # "down" /\ ~ ModifyOnTheWay(o)
    BY <1>4, <1>a DEF EditAtBroker, Lose
  <2>2. events' = Append(events, e) /\ m = edits' /\ edits' \in 0 .. MaxStops
    BY <1>4, <1>a, <1>b, <2>1, OrderAssumption DEF EditAtBroker
  <2>3. e \in StopsEvents(o) /\ e.stops = m /\ e \in Events
    BY <2>2, OrderEventTyped DEF StopsEvents, EventsOf, OrderEvent
  <2>4. answer \notin StopsAnswers(o) /\ ~ Has(resps, StopsAnswers(o))
    BY <1>a, <2>1, SaysAre DEF ModifyOnTheWay, Has, StopsAnswers, Of
  <2>5. effect \notin StopsEvents(o)
    BY <2>1, SaysAre DEF ModifyOnTheWay, EffectAnswered, StopsEvents, EventsOf
  <2> HIDE DEF e
  <2>6. e \in AtStops(StopsEvents(o), m)
    BY <2>3 DEF AtStops
  <2>7. LastIn(events', StopsEvents(o), AtStops(StopsEvents(o), m))
    <3>1. LastIn(Append(events, e), StopsEvents(o), AtStops(StopsEvents(o), m))
      BY <1>a, <2>3, <2>6, AppendLast
    <3> QED
      BY <2>2, <3>1
  <2>8. Has(events', StopsEvents(o))
    BY <1>a, <2>2, <2>3, AppendHas
  <2>9. EventsSay(o, m)'
    BY <1>2, <2>5, <2>7 DEF EventsSay, StopsEvents, EventsOf, AtStops
  <2>10. LastIn(resps', StopsAnswers(o), AtStops(StopsAnswers(o), m)) /\ answer' \notin StopsAnswers(o)
    BY <1>2, <2>4 DEF LastIn, Has
  <2>11. AnswersSay(o, m)'
    BY <2>10 DEF AnswersSay, StopsAnswers, Of, AtStops
  <2> QED
    BY <2>8, <2>9, <2>11 DEF StopsToCome, StopsEvents, EventsOf
<1>5. CASE ~ (EditAtBroker(p) /\ p = o)
  <2>1. m = n
    BY <1>1, <1>5, <1>a, <1>b DEF Trigger, CancelAtBroker, CloseAtBroker, EditAtBroker, accountVars
  <2>2. 0 \in 0 .. MaxStops /\ (EditAtBroker(p) => edits' \in 0 .. MaxStops)
    BY <1>a, OrderAssumption DEF EditAtBroker
  <2>3. events' = events \/ \E e \in Events : events' = Append(events, e) /\ e \notin StopsEvents(o)
    <3>1. ASSUME NEW type \in {"position_closed", "pending_filled", "order_cancelled"}
          PROVE  OrderEvent(type, p, 0) \in Events /\ OrderEvent(type, p, 0) \notin StopsEvents(o)
      BY <2>2, OrderEventTyped DEF StopsEvents
    <3>2. EditAtBroker(p) => /\ OrderEvent("position_modified", p, edits') \in Events
                             /\ OrderEvent("position_modified", p, edits') \notin StopsEvents(o)
      BY <1>5, <2>2, OrderEventTyped DEF StopsEvents, EventsOf
    <3> QED
      BY <1>1, <3>1, <3>2 DEF Trigger, CancelAtBroker, CloseAtBroker, EditAtBroker, Push
  <2>4. LastIn(events, StopsEvents(o), AtStops(StopsEvents(o), n)) =>
          LastIn(events', StopsEvents(o), AtStops(StopsEvents(o), n))
    <3> DEFINE S == StopsEvents(o)
               T == AtStops(StopsEvents(o), n)
    <3> HIDE DEF S, T
    <3>1. ASSUME LastIn(events, S, T), NEW e \in Events, e \notin S PROVE LastIn(Append(events, e), S, T)
      BY <1>a, <3>1, AppendLast
    <3>2. LastIn(events, S, T) => LastIn(events', S, T)
      BY <2>3, <3>1 DEF S
    <3> QED
      BY <3>2 DEF S, T
  <2>5. EventsSay(o, n)'
    BY <1>2, <2>4 DEF EventsSay, StopsEvents, EventsOf, AtStops
  <2> QED
    BY <1>3, <2>1, <2>5
<1> QED
  BY <1>4, <1>5

LEMMA CommandSays ==
  ASSUME Typed, NEW c \in Commands, InHand(c), NEW o \in Orders, OrderInv(o), OpensWithout(o),
         NEW n, NEW m, account[o].stops = n, account'[o].stops = m,
         EventsSay(o, n), AnswersSay(o, n), lost'[o] = {}
  PROVE  /\ EventsSay(o, m)' /\ AnswersSay(o, m)'
         /\ m = n \/ StopsToCome(o)'
<1> DEFINE S == StopsEvents(o)
           A == StopsAnswers(o)
<1>a. /\ AccountTypeOK /\ resps \in Seq(Responses) /\ lost \in [Orders -> SUBSET Losses]
      /\ account[o].stops = n /\ account'[o].stops = m
  BY DEF Typed, TypeOK, AccountTypeOK
<1>b. NoEffect \notin S /\ NoAnswer \notin A
  BY SaysAre
<1>c. /\ effect = NoEffect /\ answer = NoAnswer /\ UNCHANGED <<resps, events>>
      /\ answer' \in Responses /\ answer'.act = c.act /\ answer'.of = c.of /\ answer'.stops = c.stops
      /\ effect' \in {NoEffect, Effect(c)}
      /\ Executes(c) \/ Refuses(c) \/ ExecutesInDoubt(c) \/ FetchesHistory(c)
  BY DEF InHand
<1>d. LastIn(events, S, AtStops(S, n)) /\ LastIn(resps, A, AtStops(A, n))
  <2> HIDE DEF S, A
  <2> QED
    BY <1>b, <1>c DEF EventsSay, AnswersSay, S, A
<1>e. c.act = "modify_sl_tp" /\ c.of = o =>
        /\ Effect(c) \in S /\ Effect(c).stops = c.stops
        /\ answer'.ok => answer' \in A
  BY <1>c, CommandTyped, OrderEventTyped DEF Effect, OrderEvent, StopsEvents, EventsOf, StopsAnswers, Of
<1>f. /\ effect' \in S => effect' = Effect(c) /\ c.act = "modify_sl_tp" /\ c.of = o
      /\ answer' \in A => c.act = "modify_sl_tp" /\ c.of = o /\ answer'.ok
  <2>1. Effect(c) \in S => c.act = "modify_sl_tp" /\ c.of = o
    BY DEF Effect, OrderEvent, NoEffect, StopsEvents, EventsOf
  <2> QED
    BY <1>b, <1>c, <2>1 DEF StopsAnswers, Of
<1>g. ModifyOnTheWay(o) \/ ~ Has(resps, A)
  BY <1>a DEF ModifyOnTheWay, Has, StopsAnswers, Of
<1> HIDE DEF S, A
<1>1. ASSUME c.act = "modify_sl_tp", c.of = o, effect' = Effect(c) \/ answer'.ok
      PROVE  m = c.stops
  <2>1. ~ FetchesHistory(c)
    BY <1>1 DEF FetchesHistory
  <2>2. ~ Refuses(c)
    BY <1>1, <1>b, <1>c, <1>e DEF Refuses, Reply
  <2>3. Performs(c)
    BY <1>c, <2>1, <2>2 DEF Executes, ExecutesInDoubt
  <2> QED
    BY <1>1, <1>a, <2>3, PerformsAre
<1>2. /\ effect' \in S => effect'.stops = m
      /\ answer' \in A => answer'.stops = m
  BY <1>1, <1>c, <1>e, <1>f
<1>3. ASSUME m # n PROVE effect' \in S /\ (answer' \in A \/ ~ Has(resps, A))
  <2>1. c.of = o /\ c.act = "modify_sl_tp" /\ (Executes(c) \/ ExecutesInDoubt(c))
    BY <1>3, <1>a, StopsInHand
  <2>2. CASE Executes(c)
    <3>1. answer'.ok /\ effect' = Effect(c)
      BY <2>2 DEF Executes, Reply
    <3> QED
      BY <1>e, <2>1, <3>1
  <2>3. CASE ExecutesInDoubt(c)
    <3>1. effect' = Effect(c) /\ ~ ModifyOnTheWay(o)
      BY <1>a, <2>1, <2>3 DEF ExecutesInDoubt, Lose
    <3> QED
      BY <1>e, <1>g, <2>1, <3>1
  <2> QED
    BY <2>1, <2>2, <2>3
<1>4. effect' \notin S => LastIn(events', S, AtStops(S, m))
  BY <1>c, <1>d, <1>3
<1>5. answer' \notin A => LastIn(resps', A, AtStops(A, m))
  <2>1. ~ Has(resps, A) => LastIn(resps, A, AtStops(A, m))
    BY DEF Has, LastIn
  <2> QED
    BY <1>c, <1>d, <1>3, <2>1
<1>6. EventsSay(o, m)'
  BY <1>2, <1>4 DEF EventsSay, StopsEvents, EventsOf, AtStops, S
<1>7. AnswersSay(o, m)'
  BY <1>2, <1>5 DEF AnswersSay, StopsAnswers, Of, AtStops, A
<1> QED
  BY <1>3, <1>6, <1>7 DEF StopsToCome, StopsEvents, EventsOf, S

LEMMA LastKeeps ==
  ASSUME Typed, EffectAnswered, [Next]_vars, NEW o \in Orders, OrderInv(o), EndsTold(o),
         RowIsIndexed(o), OpensWithout(o), LastWord(o)
  PROVE  LastWord(o)'
<1> SUFFICES ASSUME lost'[o] = {} PROVE LastWord(o)'
  BY DEF LastWord
<1>a. lost[o] = {} /\ lost \in [Orders -> SUBSET Losses]
  BY LossesGrow DEF LossesKept, Typed, TypeOK, AccountTypeOK
<1>1. PICK n : n = account[o].stops
  OBVIOUS
<1>2. PICK m : m = account'[o].stops
  OBVIOUS
<1>3. EventsSay(o, n) /\ AnswersSay(o, n) /\ (Exists(o) => StopsToCome(o) \/ rows[o].stops = n)
  BY <1>a, <1>1 DEF LastWord
<1>4. SUFFICES /\ EventsSay(o, m)' /\ AnswersSay(o, m)'
               /\ Exists(o)' => StopsToCome(o)' \/ rows'[o].stops = m
  BY <1>2 DEF LastWord, EventsSay, AnswersSay, AtStops
<1>5. CASE Elsewhere /\ (Account \/ HandleCommand)
  <2>1. EventsSay(o, m)' /\ AnswersSay(o, m)' /\ (m = n \/ StopsToCome(o)')
    <3>1. CASE Account
      BY <1>1, <1>2, <1>3, <3>1, AccountSays
    <3>2. CASE HandleCommand
      <4>1. PICK c \in Commands : InHand(c)
        BY <3>2, Handled
      <4> QED
        BY <1>1, <1>2, <1>3, <4>1, CommandSays
    <3> QED
      BY <1>5, <3>1, <3>2
  <2>2. CASE m = n
    BY <1>1, <1>2, <1>3, <1>a, <2>1, <2>2, StopsShown
  <2>3. CASE StopsToCome(o)'
    BY <2>1, <2>3
  <2> QED
    BY <2>1, <2>2, <2>3
<1>6. CASE \/ Still \/ ReadsAnswer \/ ReadsEvent \/ PublishEffect \/ Respond
           \/ GoDown \/ PublishSnapshot \/ Crash
  <2>1. GoDown => (answer # NoAnswer => answer.of # o)
    <3>1. GoDown /\ answer # NoAnswer /\ answer.of = o => "answer" \in lost'[o]
      BY <1>a DEF GoDown
    <3> QED
      BY <3>1
  <2>2. EventsSay(o, n)'
    BY <1>3, <1>6, <2>1, EventsSayOn
  <2>3. AnswersSay(o, n)'
    BY <1>3, <1>6, <2>1, AnswersSayOn
  <2>4. m = n
    BY <1>1, <1>2, <1>6 DEF Still, ReadsAnswer, ReadsEvent, PublishEffect, Respond, GoDown,
                            PublishSnapshot, Crash, CrashOf, accountVars
  <2>5. Exists(o)' => StopsToCome(o)' \/ rows'[o].stops = n
    BY <1>1, <1>2, <1>3, <1>a, <2>4, StopsShown
  <2> QED
    BY <2>2, <2>3, <2>4, <2>5
<1>7. ~ SkipSnapshot
  <2>1. SkipSnapshot => "history" \in lost'[o]
    BY DEF SkipSnapshot
  <2> QED
    BY <2>1
<1> QED
  BY <1>5, <1>6, <1>7, Kinds

-----------------------------------------------------------------------------
(* The invariant, and what it says of an order about which all is quiet.   *)

LEMMA InitAccounted ==
  ASSUME Init PROVE AccountedFor
<1>1. Inv
  BY InitInv
<1>2. /\ account = [o \in Orders |-> [state |-> "none", stops |-> 0]]
      /\ answer = NoAnswer /\ effect = NoEffect /\ cmds = <<>> /\ resps = <<>> /\ events = <<>>
      /\ requests = <<>> /\ rows = [o \in Orders |-> NoRow] /\ eventAt = IdleEvent
  BY DEF Init, StoreInit, AccountInit, LoopInit
<1>3. \A S : ~ Has(cmds, S) /\ ~ Has(resps, S) /\ ~ Has(events, S) /\ ~ Has(requests, S)
  BY <1>2 DEF Has
<1>4. EffectAnswered
  BY <1>2 DEF EffectAnswered
<1>5. ASSUME NEW o \in Orders PROVE OutcomeInv(o)
  <2>1. /\ ~ Exists(o) /\ Status(o) = "none" /\ State(o) = "none" /\ account[o].stops = 0
        /\ eventAt.at = "idle"
    BY <1>2, Stages DEF Exists, Status, State, NoRow
  <2>2. EndsTold(o)
    <3>1. effect \notin CloseEvents(o) /\ answer \notin CloseAnswers(o)
      BY <1>2 DEF CloseEvents, EventsOf, OrderEvents, NoEffect, CloseAnswers, Of, Responses, NoAnswer
    <3> QED
      BY <1>3, <2>1, <3>1 DEF EndsTold
  <2>3. LegFollows(o) /\ FoundWaits(o) /\ RowIsIndexed(o) /\ LiveAccounted(o) /\ OpensWithout(o)
    BY <1>3, <2>1 DEF LegFollows, FoundWaits, RowIsIndexed, LiveAccounted, OpensWithout
  <2>4. LastWord(o)
    <3>1. effect \notin StopsEvents(o) /\ answer \notin StopsAnswers(o)
      BY <1>2, SaysAre
    <3>2. \A S, T : LastIn(events, S, T) /\ LastIn(resps, S, T)
      BY <1>2 DEF LastIn
    <3> QED
      BY <2>1, <3>1, <3>2 DEF LastWord, EventsSay, AnswersSay
  <2> QED
    BY <2>2, <2>3, <2>4 DEF OutcomeInv
<1> QED
  BY <1>1, <1>4, <1>5 DEF AccountedFor

LEMMA StepAccounted ==
  ASSUME AccountedFor, [Next]_vars PROVE AccountedFor'
<1>1. Inv /\ Inv' /\ Typed /\ Typed' /\ EffectAnswered /\ EffectAnswered'
  BY StepInv, EffectKeeps DEF AccountedFor, Inv
<1>2. ASSUME NEW o \in Orders PROVE OutcomeInv(o)'
  <2>1. /\ OrderInv(o) /\ EndsTold(o) /\ LegFollows(o) /\ FoundWaits(o) /\ RowIsIndexed(o)
        /\ LiveAccounted(o) /\ OpensWithout(o) /\ LastWord(o)
    BY DEF AccountedFor, OutcomeInv, Inv
  <2>2. EndsTold(o)'
    BY <1>1, <2>1, EndsKeeps
  <2>3. LegFollows(o)'
    BY <1>1, <2>1, LegKeeps
  <2>4. FoundWaits(o)'
    BY <1>1, <2>1, FoundKeeps
  <2>5. RowIsIndexed(o)'
    BY <1>1, <2>1, IndexedKeeps
  <2>6. LiveAccounted(o)'
    BY <1>1, <2>1, LiveKeeps
  <2>7. OpensWithout(o)'
    BY <1>1, <2>1, WithoutKeeps
  <2>8. LastWord(o)'
    BY <1>1, <2>1, LastKeeps
  <2> QED
    BY <2>2, <2>3, <2>4, <2>5, <2>6, <2>7, <2>8 DEF OutcomeInv
<1> QED
  BY <1>1, <1>2 DEF AccountedFor

\* Nothing that concerns the order is in a stream or in hand.
LEMMA QuietIs ==
  ASSUME Typed, EffectAnswered, NEW o \in Orders, Quiet(o)
  PROVE  /\ \A S \in SUBSET EventsOf(o) : ~ Has(events, S) /\ effect \notin S
         /\ \A S : (\A r \in S : r \in Responses /\ r.of = o) => ~ Has(resps, S) /\ answer \notin S
         /\ respAt = NoId /\ eventAt = IdleEvent /\ ~ Moving(o)
<1>1. /\ respAt = NoId /\ eventAt = IdleEvent /\ ~ Moving(o)
  BY Stages DEF Quiet, Moving
<1>2. ASSUME NEW S \in SUBSET EventsOf(o) PROVE ~ Has(events, S) /\ effect \notin S
  <2>1. \A e \in S : e.of = o /\ e.type # "reconcile_snapshot" /\ e # NoEffect
    BY NoEffectIsNone DEF EventsOf
  <2> QED
    BY <2>1 DEF Quiet, Has, EffectAnswered
<1>3. ASSUME NEW S, \A r \in S : r \in Responses /\ r.of = o
      PROVE  ~ Has(resps, S) /\ answer \notin S
  BY <1>3, NoAnswerIsNone DEF Quiet, Has
<1> QED
  BY <1>1, <1>2, <1>3

\* Once nothing of an order is under way, a position that is open is one that
\* the row shows and the index leads to: whichever of response_handler_loop and
\* event_handler_loop told the server of the fill, and however the restarts
\* fell, unless one of the named losses took the only word of it.
THEOREM LiveTracked == Spec => []LiveIsTracked
<1>1. ASSUME AccountedFor PROVE LiveIsTracked
  <2> SUFFICES ASSUME NEW o \in Orders, Quiet(o), State(o) = "open",
                      lost[o] \cap {"answer", "event", "doubt", "crash"} = {}
               PROVE  /\ rows[o].p_status = "filled"
                      /\ rows[o].status \in {"filled", "primary_filled"}
                      /\ PositionId(o) \in brokerIndex
    BY DEF LiveIsTracked, State
  <2>a. Typed /\ EffectAnswered /\ OrderInv(o) /\ RowIsIndexed(o) /\ LiveAccounted(o)
    BY <1>1 DEF AccountedFor, OutcomeInv, Inv
  <2>1. ~ Filling(o)
    <3>1. \A r \in Fills(o) : r \in Responses /\ r.of = o
      BY DEF Fills, OpenResps, Of
    <3> QED
      BY <2>a, <3>1, QuietIs DEF Filling
  <2>2. ~ Has(events, FillEvents(o))
    BY <2>a, QuietIs DEF FillEvents
  <2>3. Shown(o)
    BY <2>a, <2>1, <2>2 DEF LiveAccounted
  <2>4. Exists(o)
    BY <2>a, <2>3, NothingYet DEF Shown
  <2>5. PositionId(o) \in brokerIndex
    BY <2>a, <2>3, <2>4, QuietIs, SelfIds DEF RowIsIndexed, Shown
  <2> QED
    BY <2>3, <2>5 DEF Shown, Status
<1> QED
  BY <1>1, InitAccounted, StepAccounted, PTL DEF Spec

\* Once nothing of an order is under way, the row has the stops the account has:
\* the answers to modify_order and the position_modified events come on two
\* streams, each in order, and what could cross is counted as lost.
THEOREM StopsFollow == Spec => []StopsAgree
<1>1. ASSUME AccountedFor PROVE StopsAgree
  <2> SUFFICES ASSUME NEW o \in Orders, Quiet(o), State(o) = "open", lost[o] = {}
               PROVE  rows[o].stops = account[o].stops
    BY DEF StopsAgree, State
  <2>a. Typed /\ EffectAnswered /\ OrderInv(o) /\ LastWord(o)
    BY <1>1 DEF AccountedFor, OutcomeInv, Inv
  <2>1. Exists(o)
    BY <2>a, NothingYet
  <2>2. ~ StopsToCome(o)
    <3>1. \A r \in StopsAnswers(o) : r \in Responses /\ r.of = o
      BY DEF StopsAnswers, Of
    <3> QED
      BY <2>a, <3>1, QuietIs, SaysAre DEF StopsToCome
  <2> QED
    BY <2>a, <2>1, <2>2 DEF LastWord
<1> QED
  BY <1>1, InitAccounted, StepAccounted, PTL DEF Spec
=============================================================================
