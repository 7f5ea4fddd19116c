# Formal verification of the FTMO/Exness hedge system

The system keeps one *hedge order* in two places: a primary position at FTMO
(cTrader) and an opposite secondary position at Exness (MT5). A central server
(`server/`) holds the order in Redis and drives both legs through Redis streams;
one client process per broker (`apps/ftmo-client`, `apps/exness-client`) turns
stream entries into broker calls and broker events into stream entries.

The paths below are relative to `src/`. Sections: 1 inventory, 2 modules and
code, 3 runs, 4 proofs, 5 what is not modelled, 6 plan.

## 1. Inventory

| part | state | operations | who calls it |
|---|---|---|---|
| `OrderService` | none (rows in Redis) | create, close, modify | REST API |
| `RedisService` | `order:{id}` rows, status indices, side indices `request_id_/p_/s_broker_order_id_to_order`, `cascade_lock:{id}`, streams, accounts, pairs | `update_order` (Lua: patch + compare-and-set + index move), link, find, lock, push, read | everything on the server |
| `response_handler` | none | one loop per account: open/close/modify responses of FTMO and Exness | stream `resp_stream` |
| `event_handler` | none | one loop per account: fills, closes, modifications, reconcile snapshots; Exness closes and modifications | stream `event_stream` |
| `HedgeService` | asyncio tasks in memory only | opening cascade, closing cascade, cancel path, completion by event | the two handlers |
| FTMO client | pending executions by request, connection | command loop, bridge, event publisher, replay of deals | streams, cTrader |
| Exness client | snapshot of positions, close ledger | command processor, action handler, position monitor | streams, MT5 |
| mapping cache, auto-match | one file per signature with its users; `mapping_cache:{sig}`, `account_to_mapping:{acc}`, `mapping_status:{acc}`, `exness_raw_symbols:{acc}` | lookup, save, edit, status; removal of an account; rebuilding at start | wizard API, command line, server start |
| alerts, broadcast, heartbeats | cooldown keys, subscriptions, last tick, TTL key | publish, coalesce, expire | all services |
| P&L, volume | none | arithmetic on ticks, symbols, risk | API, tracker |

What is hard in it:

* **Interleavings.** Every `await` of a handler lets another task of the server
  run. An order is worked on by up to five of them: the FTMO response loop, the
  opening-cascade task, the FTMO event loop (which *awaits* the closing cascade
  inline), the Exness response loop and the Exness event loop.
* **Polling through the row.** A cascade pushes a command and then polls
  `s_status`, which the response loop writes. Both cascades and the response
  loop share that one field.
* **Retries.** An attempt is retried after a rejection and after a timeout, and
  a timeout says nothing about whether the command was executed.
* **Push before link.** A command is pushed before its request id is linked to
  the order; a response that arrives in between is dropped.
* **Crashes.** Cascades live in memory; a stream entry that was read is never
  delivered again; the lock stays until its TTL ends, with no owner recorded.
* **Unreliable steps at Exness.** A command is read once and acknowledged after
  it was dispatched, but an unacknowledged entry is never read again, so a client that dies
  with a command in hand loses it. Publishing a response or an event may fail silently, the
  monitor publishes before it persists, and it takes a `None` of `positions_get` for
  an account without positions.
* **Two streams, two tasks.** What a command did comes back twice, as a response
  and as an event, on two streams read by two loops in any relative order. The
  lookups by id that connect them are written after the row.
* **Files, keys and three processes.** The mapping of an Exness account is a
  file, four Redis keys and the requests in flight; the server, the Exness
  client and the command line write them without a lock between them.

What makes each part correct is listed with the runs (section 3). `PROJECT.json` lists every
hazard at its line, with the properties that watch it.

## 2. Modules and code

| module | code | role |
|---|---|---|
| `HedgeState` | `redis_service.py`, row of `order:{id}` | constants, variables, value sets, `TypeOK` |
| `CascadeOpen` | `hedge_service.py` 97-259 | the opening cascade, `OpenTask` |
| `CascadeClose` | `hedge_service.py` 380-803, `event_handler.py` 223-319 | the closing cascade and its cancel path, `CloseTask` |
| `WaitingOrder` | `event_handler.py` 344-510 | FTMO event loop: `pending_filled` and `order_cancelled` of a hedge whose primary leg is a limit or stop order |
| `StreamHandlers` | `response_handler.py`, `event_handler.py`, `complete_cascade_close` | FTMO response loop, Exness response loop, Exness event loop |
| `ExnessLeg` | `exness_client/` | command processor, action handler, ledger, monitor; faults of the Exness side |
| `HedgeCascade` | | composition: `Init`, FTMO side, `Crash`, `LockExpires`, `Next`, properties |
| `HedgeLifecycle` | | abstract specification: the life of the row that readers may rely on |
| `HedgeCascadeProofs`, `HedgeOutcomeProofs` | | theorems and proofs about `HedgeCascade`: its types and tickets; what an order comes to, and the refinement |
| `CtraderBridge` | `ftmo_client/ctrader_bridge.py`, `action_handlers.py`, `command_loop.py` | the FTMO client's command loop over the two threads of its bridge |
| `CtraderBridgeProofs` | | theorems and proofs about `CtraderBridge` |
| `OrderStore` | `redis_service.py` 392-790, `redis_service_lua.py` | the rows, status sets and side indices of single-leg orders |
| `FtmoAccount` | `action_handlers.py`, `event_publisher.py`, `main.py`, `ctrader_bridge.py` of the FTMO client | the cTrader account, the client that serves it, what is lost |
| `OrderLoops` | `response_handler.py` 50-510, `event_handler.py` 57-650 | every handler of the FTMO response loop and of the FTMO event loop |
| `OrderRequests` | `order_service.py` | the operator's create, close, modify; composition of the four; properties |
| `OrderRequestsProofs`, `OrderOutcomeProofs` | | theorems and proofs about `OrderRequests`: its types, identifiers and statuses; what the row of an order shows in the end |
| `MappingCache`, `MCMapping` | `mapping_cache_service.py`, `mapping_cache_repository.py`, `symbol_mapping.py`, account code of `redis_service.py`, `main.py` | mapping files and keys, wizard requests, account command line, start of the server |
| `MappingCacheProofs` | | theorems and proofs about `MappingCache` |
| `MarketFeed` | `broadcast.py`, `market_data.py`, `ws.py` | chart subscriptions and the cached tick |
| `AlertCooldown` | `alert_service.py` | the cooldown claim of `emit` |
| `OperatorFeed`, `OperatorBounds`, `MCFeed` | | composition of the last two, their shared bounds |
| `OperatorFeedProofs` | | theorems and proofs about `OperatorFeed` |
| `StreamLemmas` | | what appending, taking the head and a crash do to the entries of a stream; used by three of the proof modules |

### State

* `order_type, status, p_status, s_status, s_ticket` are the row; `order_type` is
  market or limit (a stop order is handled as a limit order is), `s_ticket` is
  `s_broker_order_id`, 0 when empty. `reqIndex, pIndex, sIndex` are the side
  indices; `pIndex` says which id of the primary leg leads to the order, that of the waiting
  order or that of the position. `lock` is `cascade_lock:{id}`.
* Each process has a program counter where it can be interrupted: `openPc`
  (opening cascade), `closePc` (FTMO event loop, which runs the closing cascade), `ftmoResp` (the one FTMO open
  response and how far the loop is with it), `respLink` (ticket still to be
  linked by the Exness response loop), `eventPc` (Exness event loop).
* `xCmds, xResps, xEvents` are the streams, oldest entry first. A command is
  identified by its cascade and attempt number, which is what a fresh
  `request_id` per push gives. `closeEvents` counts the unread `position_closed`
  events of the primary leg: they are equal, so a counter is a queue. `bookEvent` is the
  unread event of an order that left the book, which stands before them.
* `positions` is the Exness account, tickets numbered in opening order; `seen`
  is the monitor's persisted snapshot, `ledger` the close ledger, `blind` what a poll
  that saw no positions has still to report.
* `gaveUp` and `misread` are history variables: some poll of the opening cascade ended in a
  timeout; the open positions that were reported as closed. `crashes, faults` count what
  the bounds limit.

### Steps

An action is everything a process does between two awaits at which the state can
be changed by another process. One `update_order` is one action, because the
Lua script is atomic and the patch and the index move are inside it. A read and
the write that follows it are two actions when an `await` on Redis lies between
them and the write has no compare-and-set (`CloseRead`/`CloseBranch` and the
write in `CloseInitiate`); when the write has a compare-and-set, `Cas` decides
at the write. Sleeps (retry delays, poll intervals, the two-second wait) are the
freedom of the scheduler to run others first. A poll may give up at any time:
its deadline is real time, and the model lets it be shorter or longer than the
answer. A retry restarts the attempt with a fresh request and the reset of
`s_status` the code does.

The FTMO side is reduced to what the server sees of it: the open response, a
limit or stop order that trips or is taken out of the book, the
end of the position for whatever reason (operator, SL, TP, stop-out), and
`position_closed` events, which may be repeated (replay after a reconnect,
`fetch_close_history`).

A limit or stop order has a life of its own. Its open response has no fill price, so
the row stays `pending` and no opening cascade is started (`FtmoAccepted`); when it trips,
`_handle_pending_filled` writes `filled` (`PendingFilled`) and nobody opens the second leg.
If the position closes, the closing cascade finds `filled` without a ticket and ends in
`close_failed`. The properties and `HedgeLifecycle` describe this life as the code
leads it; `hedge_limit_fill` shows that the documents promise another.

Faults of the Exness side are a lost command, response or event, an event reported twice, and
`PollBlind`: `positions_get()` returns `None` while the terminal is connected, the
monitor reads it as an empty list and reports every position it knew as closed.

`Crash` kills the tasks and cuts an arbitrary prefix (a batch that was read) off
the streams. `LockExpires` may happen at any time the lock exists: the TTL is
30 s and a cascade may run for about a minute.

### The bridge to cTrader

`CtraderBridge` is a system of its own: one FTMO client, its command stream and
its broker. It meets the core at the streams: where `HedgeCascade` has an FTMO
open response or a `position_closed` event out of nowhere, `CtraderBridge` says
how the client comes to write it.

* `pc, req` are the command loop inside `handle_open` and `handle_close`:
  `response` and `amending` await `_send_and_wait`, `filling` awaits the future
  in `_pending_executions`, `report` and `respond` await Redis, `settle` is the
  delay before the amend. `Pending` is the set of keys of
  `_pending_executions`; the `finally` of both bridge methods makes it a function
  of `pc`.
* `answer` and `fillSet` are the two futures. `callbacks` is what
  `call_soon_threadsafe` has queued for them, `tasks` the unsolicited publications.
  `OnMessage` is the reactor thread: it decides from the loop's variables as they
  are now, and `RunCallback` applies the result when they may have changed. That
  is the race of the two threads.
* `deferreds, outgoing, wire, link` are the cTrader library and the connection,
  `broker, amended, stopped` the broker. They are external: the library fires a
  Deferred once, calls `_on_message` first, may or may not forget its Deferreds
  when the connection goes, and reconnects by itself. After a reconnect only the
  application is authenticated (`_on_connected`); the account is authenticated
  by `connect_with_retry` at start, so the broker refuses what comes later
  (`RefuseUnauthenticated`) and no longer reports (`Tell`).
* A timeout may come at any moment of a wait. A request has two: `wait_for` in the
  coroutine (`NoAnswer`, published as `timeout`) and the library's Deferred, which is
  given the same 30 s and fails with the connection too (`LibraryGivesUp`, published as
  `broker_error`); either may be first. `broker_error` is also what `map_ctrader_error` makes of a
  refusal it does not know, so `AnsweredRejected` has two outcomes: `refused`, which stands for
  all codes of its own, and `broker_error`. `InDoubt` are the two outcomes after
  which the server cannot know what the broker did. `received` and `lost` are history
  variables.

### Single-leg orders

`OrderRequests` is the life of an order of which one leg, at FTMO, is followed:
market and limit orders, closes, modifications, what the account does by itself,
and the reconciliation when the client starts again. It EXTENDS `OrderLoops`,
which EXTENDS `FtmoAccount`, which EXTENDS `OrderStore`: four parts over one set
of variables.

* `rows` and `byStatus` are the HASH of an order and the status sets. `UpdateOrder`
  is the Lua script: patch and move are one step. `brokerIndex` and
  `requestIndex` are the keys that exist, since the value of a key is the order
  its name is about. cTrader names a waiting order and its position differently;
  `Ids` has both, and a fill moves the key from one to the other in two steps
  (`ForgetOrderId`, `LinkPosition`).
* `account` is the truth at cTrader. `client` is the FTMO client, `answer` and
  `effect` are what it has to publish of the command in hand: the event first,
  then the response, on two streams (`PublishEffect`, `Respond`). What
  `CtraderBridge` shows of one command is its outcome here: executed, refused, or
  executed in doubt (the answer came after the timeout).
* `respAt` and `eventAt` are how far the two loops are with the entry they
  handle. `eventAt` also holds what `_handle_reconcile_snapshot` has listed so
  far, one status set per step, while other tasks move orders between the sets.
* `requests` is what the operator asked, each stored, pushed and linked in this
  order, with the loops in between.
* `GoDown` ends the client and what it had in hand; events of the account are
  then told to nobody until `Connect`, `QuerySnapshot` and `PublishSnapshot`.
  `Crash` ends the server's tasks and cuts what was read off the streams.
* `lost` is a history variable: what was lost of an order, by kind: the
  `answer` to its open, an `event`, an open in `doubt`, an `edit` of its stops,
  a query of the `history`, or anything in a server `crash`. A property that
  excepts a loss names its kind.

### The mapping cache

`MappingCache` has one variable per kind of file or key (`files`, `hashes`,
`pointer`, `status`, `raw`, `registered`) and one record per wizard request
(`call`) and for the command line (`cli`). Actions are named after the source's
functions and keys. The repository's methods never give up the event loop, so a
step is a Redis command with the file operations around it. A cache file is one
value because it is written aside and renamed. `Restart` is a crash with
`populate_redis_from_disk` and `_init_mapping_statuses` in one step; while they
run the server answers nobody.

A file holds `spec`, the contract specification of each symbol in the snapshot of the account
that created it, and `mapped`, the symbols it has an entry for; an entry carries the
specification of that snapshot. `Divergent` compares the mapped symbols only, as
`validate_spec_divergence` does, and `edit_mapping` replaces `mapped` for every account that
shares the file, without a comparison. The history variables record what a property
excepts: `torn` (made active by a request that a removal cut) and `removed`; `link` is
the specifications an account was saved with and the symbols that were compared then.

### The operator's view

In `MarketFeed` a connection's `set_symbol` is four awaited requests and the
joining of its channel; a quote is a task that may read the cached tick, await,
and write it back. In `AlertCooldown` a call of `emit` claims the cooldown key
and then writes the alert. `OperatorFeed` puts both side by side. The history
variable `mixed` holds the symbols whose quotes overlapped or were lost, `failed` the
connections whose last `set_symbol` failed or lost the cTrader session.

## 3. Runs

| run | bounds | question |
|---|---|---|
| `hedge_interleavings` | market or limit order, 2 attempts, 2 close events, no fault | every interleaving of processes; all safety properties and the refinement |
| `hedge_faults` | market or limit order, 1 attempt, 2 close events, 1 crash, 1 fault | the same with a crash at any point and one lost command, lost response, lost or repeated event, or poll that sees no positions |
| `hedge_liveness` | market or limit order, 1 attempt, 2 close events, no crash, 1 fault | what must eventually happen, under fairness |
| `late_fill` | 1 attempt, 1 close event | finding: the cancel path does not see a late fill |
| `fill_clobbered` | 1 attempt, 1 close event | finding: exhaustion overwrites a fill |
| `ctrader_bridge` | one open, one close, 1 lost connection, 1 failed Redis access | what the FTMO client may answer and publish, whatever comes late or not at all |
| `amend_timeout` | one open, one close, no fault | finding: an unanswered amend turns a fill into an error |
| `order_requests` | 1 order, 3 requests, 2 values of the stops, 1 fault | every order of requests, answers, events, edits, and one end of the client or of the server |
| `hedge_limit_fill` | the same, the order has an Exness account | finding: a pending order of a hedge that triggers gets no second leg |
| `mapping_cache` | 2 accounts, 2 signatures, 1 symbol, 2 specifications, 3 snapshots, 3 requests, 1 removal, 1 restart | two wizards, a removal and a restart at any point |
| `readded_account` | 1 account, 1 signature, 1 symbol, 2 specifications, 2 snapshots, 2 requests, 1 removal | finding: an account that was removed and added again |
| `operator_feed` | 2 screens, 2 symbols, 2 timeframes, 2 quote tasks, 2 emitters, 1 key, 4 operations, 1 fault | screens sharing the subscriptions, overlapping quotes, alerts raised at once |

`CHECK_DEADLOCK FALSE`: an order that is settled and whose bounds are used up
has nothing left to do, which is the normal end of every behaviour. The other
runs stop for the same reason.

Why the bounds are enough. Two attempts distinguish first, retry and last; the
loop of the code treats attempts 2 to 4 alike. Two close events are a close and
its replay; the closing cascade is the only reader and it handles them one
after another. One crash and one fault reach every place where a step of a pair
is lost; two faults combine losses whose effects are those of each alone on
an attempt of its own.

The bridge executes one command at a time, so only late messages, callbacks and
tasks of one command meet another: two commands, in either order, reach that.

`order_requests` has one order because no handler touches the row or a key of
another order; entries of other orders only delay. Three requests are an open
and any two of close and modify: two closes, and a close that overtakes a
modification. The second value of the stops tells an edit from what
the order had. Two modifications of different stops take a third value, which
brings the run with `RestartRecovers` past five minutes; `StopsAgree` and
`LiveIsTracked` were checked with three values without it, and `OrderOutcomeProofs`
proves them for every number. That proof is where the third value counted: a
modification whose answer times out tells the server by its event alone, and the
event, on a stream of its own, can be handled before the answer to the modification
before it. The row then keeps the older stops. `lost` counts this as an edit not seen
(`ModifyOnTheWay` in `ExecutesInDoubt`). One fault is enough for what `RestartRecovers` promises, whose
conclusion excepts a second one.

Two accounts sharing a signature is where the files and hashes have two writers.
Three snapshots let an account publish again after both have saved; with two
specifications the broker can change them under the same names. One symbol is mapped or not,
independently of every other one: `Divergent` and the edits look at each symbol by itself. Three
requests are two saves and an edit of the file they share. Accounts,
signatures, symbols and specifications are symmetric: none is treated apart. `MappingCacheProofs`
has no bound on any of them.

Two screens make one that moves away from the other's symbol, two quotes overlap, and two
emitters race for the claim. The four operations are shared by
screens, quotes and alerts: two charts and two quotes is the longest case any of the
three properties needs.

### Properties

Of the hedge order:

* `ClosingOnlyAfterPrimaryGone`, `NoHedgeCloseBeforePrimaryGone`: the secondary
  leg is passive. Nothing the Exness side reports may start closing, and a hedge
  is never taken off a live primary.
* `TicketKnownBeforeClose`, `TicketNeverReplaced`: `filled` has a ticket that
  exists, unless the primary was a limit or stop order, which is filled with none; each
  close command names the tracked ticket, and no late fill replaces it.
* `EachCommandExecutesOnce`: no more positions than pushes, in spite of crashes
  and lost answers. `OneHedgeWhilePrimaryLives`: while no poll timed out and the
  primary lives, retrying opens no second hedge. The two restrictions are real:
  after a timeout the code does open a second one, and when the closing cascade
  overwrites `s_status` between a fill and the opening cascade's next look, the
  opening cascade can read the closing cascade's `rejected` as its own.
* `ClosedMeansTrackedLegGone`: an order that ends as closed leaves no tracked
  position behind, if no attempt was given up on, only one was opened, and the monitor did not
  report the leg as closed while it was open. The last restriction is real: after a poll
  that saw no positions the row takes the leg for closed, and the close of the primary
  then ends the order as `closed` with the position open.
* `ClosedFinalOnceSettled`: once both cascades are at rest a closed order stays
  closed. (Before that it may not: the cancel path and the exhaustion failover
  write without a compare-and-set.)
* `ImplementsLifecycle`: `HedgeCascade` refines `HedgeLifecycle`, whose state is
  the status, the leg's ticket and whether an opening cascade is before, in or
  after its run. It is the list of status changes an observer of the row may see, the
  unhedged life of a limit or stop order (`TripsUnhedged`, `Cancelled`,
  `UnhedgedCloseFails`) among them.
* `ClosingSettles`, `HedgeSettles`: an order whose closing began is settled; a
  filled primary does not stay in `primary_filled`. Fairness is weak fairness
  of each loop and task of the server only: asyncio runs every ready task, and
  the polls have deadlines. Nothing is assumed of the brokers, of the Exness
  client, of the publication of closes, or of the lock's expiry. The run has no
  crash, since after one the order does stay where it was.

Of the bridge:

* `SuccessIsReal`, `RefusedIsReal`: what the client answers is what the broker
  did, although the broker answers twice, on another thread, and late. Of `broker_error`
  nothing is claimed: it stands for unknown refusals and for answers that never came, and
  the command may have been executed. (`retcode_mapping.py` 10 calls it
  non-retryable, which is what a server should do with it; it must not be read as "not
  executed".)
* `AnsweredOnce`, `EveryCommandAnswered`: at most one response per command, and
  one in the end unless Redis fails.
* `ReportedOnce`, `SuccessfulCloseReported`, `ReceivedCloseIsReported`: the
  closing cascade of the server starts from `position_closed`. It is published
  exactly once on each of its three ways, before the success is answered.
* `LostOnlyInDoubt`: there is one way to lose a fill. The reactor finds the
  fill's future pending and schedules its result, the wait times out before the
  callback runs, and nobody publishes it. The server has then been answered
  with a timeout or with `broker_error`, and never with a refusal under its own code. `ReceivedCloseIsReported` excepts these fills by name.

Fairness: the loop, its callbacks and its tasks run; nothing is assumed of the
broker and of the connection, because every wait has a timeout.

Of single-leg orders:

* `StatusIndexAgrees`: each order is in the status set its row names, and in no
  other, at every step.
* `LinkedIdIsCurrent`: no event reaches an order through an id it no longer has,
  but for the two steps in which the key moves.
* `LiveIsTracked`, `StopsAgree`, `RejectedHasNoPosition`: the row agrees with the
  account once nothing of the order is under way. These compare the two ends
  of the system, so that every reordering and every dropped entry in between counts.
  The exceptions are what the code leaves open: a fast answer before its link, an
  event before its link, an answer after the timeout, a crash; for the stops also
  an edit at the broker, or a modification that timed out, that crosses the answer
  to a modification.
* `FinalIsFinal`: no late, repeated or reordered answer or event takes an order out
  of closed, rejected or cancelled.
* `NoOpenOrderOverlooked`: the reconciler reads the status sets one after the
  other while orders move; an order that was open all the time is found, because
  the sets are read in the order in which orders go through them.
* `RestartRecovers`: a position that closed while the client was down is closed in
  the row in the end. Fairness: the request tasks, the two loops, and the client's
  commands, publications and start. Nothing is assumed of the account or of the
  operator. Not covered: a query that fails, which nobody repeats.

Of the mapping cache:

* `ActiveIsUsable`: an account the hedge gate lets through has a pointer to a file
  that is there, at each step of each request.
* `LinkSurvives`: a file never forgets an account that points at it, though two
  requests hold copies of its user list.
* `LinkedSpecMatches`: an active account has the specifications of its own broker
  for every symbol that was compared when it was linked, however the accounts that
  share the file drop and map symbols afterwards. The exceptions are what nothing
  compares: a symbol an edit maps later, a link to a file that the lookup missed.
* `RestartKeepsMapping`: what a restart may do to an active account.

Of the operator's view:

* `SoleViewerIsFed`: a chart nobody else asked for is streamed to who shows it.
  The restriction is real: leaving a chart counts no watchers, so the second
  screen on a symbol loses its stream when the first one moves on.
* `QuietCacheIsNewest`: the cached tick, from which volumes are computed, has both
  sides, and the newest ones unless quotes overlapped or were lost.
* `CooldownTellsOnce`: one alert per cooldown, and none suppressed without a
  reason. The claim is not given back when the write fails.

### Findings

`hedge_limit_fill`: the event handler writes `filled` for a limit order that triggers,
whether or not it has an Exness account, and only the response handler starts the
opening cascade. `readded_account`: the command line's `RedisService` has no repository,
so removing an account leaves its file; when it is added again a save links to that
file without comparing the specifications.

Seen while modelling, without a run: the design of the symbol mapping
(`docs/phase-4-symbol-mapping-design.md` 557 and 560) has each symbol of the two snapshots
compared, and each override of an edit checked against the account's latest snapshot, and the code
compares the mapped symbols and checks no edit, so that an edit may give an
account that shares the file the specification of another broker; the comment at
`server/app/main.py` 227-233 says accounts with a pointer are marked active, and
the code makes them pending; the OAuth callback (`auth_ctrader.py` 123) builds a
`MarketDataService` without injecting the broadcast service, so no quotes are
published until the next start.

`amend_timeout`: a market order is filled, the amend of its SL/TP gets no answer
in time, and the exception passes over the fill: the server is told that the
open failed. `late_fill` and `fill_clobbered` are violated: the code does not do what its own
comments say. The traces and quotes are in `PROJECT.json`.

## 4. Proofs

Every theorem is proved for all values of the constants, from the named assumptions
of the modules only. Each rests on an inductive invariant, whose parts are named
definitions of the proof module with a comment each; what follows is why the parts
are needed. The properties are those of section 3, where TLC checks each on a small
instance.

### The hedge order

From `HedgeAssumption` (one attempt at least, the bounds natural numbers), for any
number of attempts, crashes and faults, `HedgeCascadeProofs` has

* `TypeCorrect`: `Spec => []TypeOK`
* `ClosingAfterPrimary`, `HedgeStaysOn`, `TicketKnown`: the invariants of the
  same subjects in section 3
* `TicketStable`: the action property `TicketNeverReplaced`

The inductive invariant `IInv` is the conjunction of five parts. `Typed`
strengthens `TypeOK` by what the streams may hold: every response and command
belongs to a ticket that was issued. `PrimaryFirst` says that whoever is at
work on closing (the program counter of the closing cascade, an event waiting in
the stream, the event loop at its completion) knows the primary is gone; neither
of the two properties on the primary is inductive without it. `Untouched` says
that before the primary's answer is processed nothing of the secondary exists. `ByOrderType` tells a
limit order, which alone waits in the book, from a market order, which alone is followed by
the opening cascade; `TicketKnown` needs it for its exception. `TrackedLeg`
says that a stored ticket was issued, and that the ticket the closing cascade
carries, and that of every close command, is the stored one. `Crash` keeps
all of it because each part is stated over sets the entries of a stream belong
to, and a suffix of a stream has no other entries (`SuffixTyped`).

`HedgeOutcomeProofs` strengthens it further, to

* `ClosedStaysClosed`: `ClosedFinalOnceSettled`
* `CascadeImplementsLifecycle`: the refinement, `Spec => ImplementsLifecycle`
* `OnePositionPerPush`: `EachCommandExecutesOnce`
* `OneHedge`: `OneHedgeWhilePrimaryLives`
* `ClosedLegIsGone`: `ClosedMeansTrackedLegGone`

The writes of the cascades without a compare-and-set are what makes the status hard:
`StatusAtClose` names, for each point of the closing cascade, the statuses the
write may find there, and `CloseLast` that before a close is committed to no trace
of one is anywhere, in streams, ledger or event loop. With these each step is a step
of `HedgeLifecycle` or leaves its state alone. `WaitingOrderLife` names the statuses of a
limit order by the place of its primary leg and of the event that tells of it. `PushedOnce` numbers the open commands that are
still unread by their attempts, increasing along the stream and above the number of
positions opened. `OneAttempt` is the argument for one hedge: without an attempt
given up on there is one command or one response in flight, and whoever finds a
rejection, in a response or in the row, may conclude that nothing was opened.
`LinkedLast` is needed for it: an answer cannot be credited to an attempt that has
not linked its request. `ClosedReported` says of everyone who reports that the leg
is closed (answer, monitor, row, cascade about to write) that it was closed before; a
report of the monitor (`GoneEvents`) is true or its ticket is in `misread`.

### The bridge

From `BridgeAssumption` (opens and closes are different commands, `None` is none of
them), for any sets of commands and any number of lost connections and Redis
failures, `CtraderBridgeProofs` has

* `BridgeTypeCorrect`, `SuccessReal`, `RefusalReal`, `AnsweredAtMostOnce`
* `ReportedAtMostOnce`: `ReportedOnce`; `CloseIsPublished`:
  `SuccessfulCloseReported`; `LostInDoubt`: `LostOnlyInDoubt`

`IInv` follows an answer on its way: `InTransit` (every message on the wire
and every scheduled callback is true of what the broker did), `Told` (so is what
the running command holds), `Answered` (so is what it publishes). For a true
message to stay true the broker's last word must be final, which needs
`SentOnce`: a command that has been executed is not under way again. `Unanswered`
says that an unread or running command has no response yet.

`FillInv(r)` follows the fill of one command `r` across the two threads. `OneFill`:
the broker tells of it once, and nothing is done about it before. `OneWay`: it goes
to the command that waits or to a task of its own, never to both. `Doubtful` is
the race: a callback can come too late for the fill's future only after the wait was
given up, and the answer does not overtake it (`Before`), so a fill nobody publishes
belongs to a command that ends in doubt. `Waited` says that as long as the library
holds the Deferred of a command nobody was given its answer.

### Single-leg orders

From `OrderAssumption` and `FaultAssumption` (hedged orders are orders, the bounds
natural numbers), for any number of orders, requests, values of the stops and
faults, `OrderRequestsProofs` has

* `TypeCorrect`, `StatusIndex`: `TypeOK`, `StatusIndexAgrees`
* `LinksAreCurrent`: `LinkedIdIsCurrent`
* `RejectionIsTrue`: `RejectedHasNoPosition`
* `NoneOverlooked`: `NoOpenOrderOverlooked`
* `FinalStays`: the action property `FinalIsFinal`

The handlers that write without looking at the row are safe because of what the
streams cannot hold. `OrderInv(o)` says this for one order. `OneOpen`: its open is in
one place, once (request, command, client, answer), so that it is answered once;
`FreshWhileOpening`: until then its row is as it was created. `LeavesOnce`: a waiting
order leaves the book once, and its row still waits when the event of this comes.
`ClosesFilled` and `LinkedWasAccepted`: closes and links are about orders that were
accepted. `IndexFollowsRow` is `LinkedIdIsCurrent` with the steps in which the key
moves. `ReadUnderEither` is the argument for the reconciler: an order that was open all
the time was found under `pending`, or has left it for the set that is still to be read. A step is treated
by how little it may do to an order that is not its own (`Kept`), and then for the
order it is about.

From the same assumptions, and with `Inv` of `OrderRequestsProofs` as known,
`OrderOutcomeProofs` has

* `LiveTracked`: `LiveIsTracked`
* `StopsFollow`: `StopsAgree`

Both compare the row with the account once nothing of the order is under way
(`Quiet`), so the invariant `AccountedFor` says of everything under way what the row
will be when it has been handled. `LiveAccounted`: of a position that is open, the
row shows it, or an answer or an event that says so is still to be read, or it was
lost. `RowIsIndexed`: the id in the row leads to it, or one of the loops is about to
link it. `EndsTold`: what says that an order has ended says so after it did, so that
no late word takes an open position out of the row. `LegFollows` and `FoundWaits`: what
the reconciler read as waiting, and may write, still waits. `LastWord`: on each of the
two streams the last entry about the stops has those of the account, and so has the row
when both are empty; that the two streams agree although nothing orders them is what
the exceptions of `lost` are for. `EffectAnswered` ties the event of a command in hand
to its answer.

### The mapping cache

From `MappingAssumption` (the value for "none" is no signature or specification,
the bounds natural numbers), for any accounts and signatures, `MappingCacheProofs` has

* `TypeCorrect`: `TypeOK`; `LinksSurvive`: `LinkSurvives`; `ActiveHasMapping`:
  `ActiveIsUsable`; `LinkedSpecsMatch`: `LinkedSpecMatches`
* `RestartKeeps`: the action property `RestartKeepsMapping`

`Listed` says that a request between the writes of file and pointer is in the file's
user list: with it no writer of another list drops it. `Mapped` carries the pointer
through the rest of a request, unless a removal dropped it meanwhile. `Checked` says
that the specifications an account was linked with are those of its file for the symbols
compared then, from the comparison on (a file never changes its snapshot, and an edit only
chooses among its symbols), and `FewFiles`
that an account is listed in a finite number of files, which the counting in
`RestartKeepsMapping` needs.

### The operator's view

From `FeedAssumption` (the value for "no symbol" is none) and `BoundsAssumption`, for any screens, symbols,
quotes and emitters, `OperatorFeedProofs` has

* `CooldownOnce`: `CooldownTellsOnce`, by `OneWriter` (whoever is to write for a key
  is alone, and it is claimed) and `ClaimAccountedFor`
* `SoleViewerFed`: `SoleViewerIsFed`, by `TakenIsStreamed`: what a connection took so
  far in a `set_symbol` is streamed, unless somebody else took the symbol up
* `QuietCacheNewest`: `QuietCacheIsNewest`, by `TaskIsNewest`: what a quote is about to
  store is the newest, which needs that it is the only one of its symbol (`NoOverlap`)

`StreamLemmas` states once what these proofs use of streams: an entry that satisfies
something, at most one, one kind before another, the last of a kind, under `Append`,
`Tail` and a cut.

### Only model-checked

* Liveness, which is out of the prover's reach: `ClosingSettles`, `HedgeSettles`,
  `EveryCommandAnswered`, `ReceivedCloseIsReported`, `RestartRecovers`.
* The findings: a run shows a counterexample, which a proof would not.


## 5. Not modelled

* A rejected `order_send` is taken to have opened nothing. Ambiguous return
  codes of MT5 are not modelled.
* Of the Exness client: an `order_send` that times out or raises and was executed all
  the same; a snapshot key that expired or was lost, after which the monitor takes what
  it sees as its baseline and reports nothing.
* Closing with `closed_leg="s"`: the function has the parameter, no caller uses
  it.
* Alerts, broadcasts, logging, prices, volumes and P&L inside the cascades and
  the order handlers.
* Of the hedge order: a command to the FTMO leg that was executed although its answer says
  it failed. `OrderRequests` and `CtraderBridge` have it; in the core an open response
  is true. The operator's close of a hedge order and the reconciliation are there as
  the end of the primary position and the repeated `position_closed` they lead to.
* Of the FTMO client: account info, partial fills, Redis failures outside
  `CtraderBridge`. `OrderRequests` has one command as one step, so the exchange of
  messages for limit orders and modifications is not followed one by one.
* Of the order store: expiry of keys (24 h and more), pairs, settings, and the
  checks of `create_order` on its input, which change nothing.
* Of the mapping cache: what an entry has beside the symbol it maps and its
  specification, tolerances that only warn, the auto-match engine that proposes
  entries (a pure function over symbol names on which no key depends; which symbols are
  mapped is a free choice in the model), and the sweep of temporary files.
* Of the operator's view: the subscribe and unsubscribe messages, the candles, the
  symbol list, and the text of an alert. The cooldown is taken to outlast the write that
  follows its claim.
* The position tracker and the volume calculation compute with binary floating
  point, which TLC does not have; they change no order.
* Heartbeats, REST validation, authentication, the web frontend, the MT5 stub: no
  state that another part depends on.
* Two orders sharing a stream: entries of other orders only delay.
* `PROJECT.json` lists every part with its status and the reason.

## 6. Plan

The models planned are there: the core, the order store and the requests on it, the
bridge, the mapping cache, the operator's view. Each has its proofs: every safety
invariant and every action property that a passing run checks is a theorem, and so is
the refinement of `HedgeLifecycle`. What section 4 lists as only model-checked stays so.
