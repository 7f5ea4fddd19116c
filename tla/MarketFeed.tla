----------------------------- MODULE MarketFeed -----------------------------
(***************************************************************************)
(* What the operator's screens show of the market: the WebSocket           *)
(* connections and the symbol each of them watches, the subscriptions they *)
(* share at cTrader, and the cached tick every quote is merged into.       *)
(*                                                                         *)
(* Each quote runs publish_tick in a task of its own, so two quotes of one *)
(* symbol may be merged at the same time.  Prices are the numbers of the   *)
(* quotes that brought them; 0 is a side that is missing.                  *)
(***************************************************************************)
EXTENDS OperatorBounds, FiniteSets

CONSTANTS
    Viewers,   \* WebSocket connections
    Symbols,
    Frames,    \* chart timeframes
    Tasks      \* bound: publish_tick tasks in flight

\* "none" stands for no symbol.
ASSUME FeedAssumption == "none" \notin Symbols

VARIABLES
    authenticated,  \* the session with cTrader: TCP, application and account
    streams,        \* what cTrader streams on it
    viewer,         \* a connection and the set_symbol it is handling
    subs,           \* who is in which tick channel
    cache,          \* tick:{symbol}
    task,           \* the publish_tick tasks
    quoted,         \* history: the newest price of each side
    watched,        \* history: the symbols a connection ever asked for
    failed,         \* history: connections whose last set_symbol failed or lost its session
    mixed           \* history: symbols whose quotes overlapped or were lost

feedVars == <<authenticated, streams, viewer, subs, cache, task,
              quoted, watched, failed, mixed>>

NoChart == [symbol |-> "none", frame |-> "none"]
Charts  == [symbol : Symbols, frame : Frames]
Gone    == [on |-> FALSE, pc |-> "idle", want |-> NoChart, now |-> NoChart]
NoTick  == [bid |-> 0, ask |-> 0]
NoTask  == [pc |-> "idle", symbol |-> "none", tick |-> NoTick, full |-> FALSE, alone |-> TRUE]

Spot(c) == <<"spot", c.symbol>>
Bar(c)  == <<"bar", c.symbol, c.frame>>

FeedInit ==
    /\ authenticated = TRUE
    /\ streams = {}
    /\ viewer = [w \in Viewers |-> Gone]
    /\ subs = {}
    /\ cache = [s \in Symbols |-> NoTick]
    /\ task = [t \in Tasks |-> NoTask]
    /\ quoted = [s \in Symbols |-> NoTick]
    /\ watched = [w \in Viewers |-> {}]
    /\ failed = {}
    /\ mixed = {}

quotes == <<cache, task, quoted, mixed>>

-----------------------------------------------------------------------------
(* Connections.                                                            *)

connect(w) ==
    /\ ~viewer[w].on
    /\ viewer' = [viewer EXCEPT ![w] = [Gone EXCEPT !.on = TRUE]]
    /\ UNCHANGED <<authenticated, streams, subs, quotes, watched, failed, bounds>>

\* A connection that ends leaves its channels, and nothing at cTrader.
disconnect(w) ==
    /\ viewer[w].on
    /\ viewer[w].pc = "idle"
    /\ viewer' = [viewer EXCEPT ![w] = Gone]
    /\ subs' = subs \ ({w} \X Symbols)
    /\ failed' = failed \ {w}
    /\ UNCHANGED <<authenticated, streams, quotes, watched, bounds>>

-----------------------------------------------------------------------------
(* set_symbol: leave the previous chart at cTrader, take the new one, join *)
(* its channels.  Each request is awaited.                                 *)

Goto(w, pc) == viewer' = [viewer EXCEPT ![w].pc = pc]

\* A plausible bug: the new chart is taken before the old one is left.
TakesFirst == <<"takeSpot", "takeBar", "leaveSpot", "leaveBar", "join">>

\* The order of the requests.
Order == <<"leaveSpot", "leaveBar", "takeSpot", "takeBar", "join">>

After(pc) == LET i == CHOOSE i \in 1 .. 4 : Order[i] = pc IN Order[i + 1]

\* Without a session the request is refused at once.
set_symbol(w) ==
    /\ viewer[w].on
    /\ viewer[w].pc = "idle"
    /\ authenticated
    /\ Operation
    /\ \E c \in Charts :
           /\ viewer' = [viewer EXCEPT
                  ![w].want = c,
                  ![w].pc = IF viewer[w].now \in {NoChart, c} THEN "takeSpot" ELSE Order[1]]
           /\ watched' = [watched EXCEPT ![w] = @ \cup {c.symbol}]
    /\ failed' = failed \ {w}
    /\ UNCHANGED <<authenticated, streams, subs, quotes>>

\* Nothing counts who else watches what is left.
unsubscribe_spots(w) ==
    /\ viewer[w].pc = "leaveSpot"
    /\ streams' = streams \ {Spot(viewer[w].now)}
    /\ Goto(w, After("leaveSpot"))
    /\ UNCHANGED <<authenticated, subs, quotes, watched, failed, bounds>>

unsubscribe_live_trendbar(w) ==
    /\ viewer[w].pc = "leaveBar"
    /\ streams' = streams \ {Bar(viewer[w].now)}
    /\ Goto(w, After("leaveBar"))
    /\ UNCHANGED <<authenticated, subs, quotes, watched, failed, bounds>>

\* A request to leave that fails or times out, done or not, is logged and the
\* rest of the leaving skipped.
LeaveFails(w) ==
    /\ viewer[w].pc \in {"leaveSpot", "leaveBar"}
    /\ Fault
    /\ streams' \in {streams, streams \ {IF viewer[w].pc = "leaveSpot"
                                         THEN Spot(viewer[w].now) ELSE Bar(viewer[w].now)}}
    /\ Goto(w, After("leaveBar"))
    /\ UNCHANGED <<authenticated, subs, quotes, watched, failed>>

subscribe_spots(w) ==
    /\ viewer[w].pc = "takeSpot"
    /\ authenticated
    /\ streams' = streams \cup {Spot(viewer[w].want)}
    /\ Goto(w, After("takeSpot"))
    /\ UNCHANGED <<authenticated, subs, quotes, watched, failed, bounds>>

subscribe_live_trendbar(w) ==
    /\ viewer[w].pc = "takeBar"
    /\ authenticated
    /\ streams' = streams \cup {Bar(viewer[w].want)}
    /\ Goto(w, After("takeBar"))
    /\ UNCHANGED <<authenticated, subs, quotes, watched, failed, bounds>>

\* The connection is told, and keeps the chart it may have left at cTrader.
Refused(w) ==
    /\ viewer[w].pc \in {"takeSpot", "takeBar"}
    /\ Goto(w, "idle")
    /\ failed' = failed \cup {w}
    /\ UNCHANGED <<authenticated, subs, quotes, watched>>

TakeFails(w) ==
    \/ /\ ~authenticated
       /\ UNCHANGED <<streams, bounds>>
       /\ Refused(w)
    \/ /\ authenticated
       /\ Fault
       /\ streams' \in {streams, streams \cup {IF viewer[w].pc = "takeSpot"
                                               THEN Spot(viewer[w].want) ELSE Bar(viewer[w].want)}}
       /\ Refused(w)

join(w) ==
    LET c == viewer[w].want
    IN  /\ viewer[w].pc = "join"
        /\ viewer' = [viewer EXCEPT ![w].now = c, ![w].pc = "idle"]
        /\ subs' = subs \cup {<<w, c.symbol>>}
        /\ UNCHANGED <<authenticated, streams, quotes, watched, failed, bounds>>

-----------------------------------------------------------------------------
(* The session with cTrader.                                               *)

\* What was streamed ends with it, for every screen.
on_disconnected ==
    /\ authenticated
    /\ Fault
    /\ authenticated' = FALSE
    /\ streams' = {}
    /\ failed' = Viewers
    /\ UNCHANGED <<viewer, subs, quotes, watched>>

\* The operator signs in again; no chart is taken up by itself.
authenticate ==
    /\ ~authenticated
    /\ authenticated' = TRUE
    /\ UNCHANGED <<streams, viewer, subs, quotes, watched, failed, bounds>>

-----------------------------------------------------------------------------
(* Quotes.                                                                 *)

InFlight(s) == {t \in Tasks : task[t].symbol = s}

\* A quote brings the sides that changed.  A full one goes straight to the
\* cache; a partial one reads it first.
handle_spot_event(s) ==
    /\ <<"spot", s>> \in streams
    /\ Operation
    /\ \E t \in Tasks, bid, ask \in {0, operations + 1} :
           /\ task[t] = NoTask
           /\ {bid, ask} # {0}
           /\ task' = [u \in Tasks |->
                  IF u = t
                  THEN [pc |-> IF 0 \in {bid, ask} THEN "coalesce" ELSE "store", symbol |-> s,
                        tick |-> [bid |-> bid, ask |-> ask],
                        full |-> 0 \notin {bid, ask}, alone |-> InFlight(s) = {}]
                  ELSE [task[u] EXCEPT !.alone = @ /\ u \notin InFlight(s)]]
           /\ quoted' = [quoted EXCEPT ![s] =
                  [bid |-> IF bid = 0 THEN @.bid ELSE bid, ask |-> IF ask = 0 THEN @.ask ELSE ask]]
    /\ mixed' = IF InFlight(s) = {} THEN mixed ELSE mixed \cup {s}
    /\ UNCHANGED <<authenticated, streams, viewer, subs, cache, watched, failed>>

\* A plausible bug: the cached side is preferred to the one the quote brought.
KeepCached(new, old) == IF old # 0 THEN old ELSE new

\* One side of the merged tick.
Side(new, old) == IF new # 0 THEN new ELSE old

EndTask(t) == task' = [task EXCEPT ![t] = NoTask]

\* The missing side comes from the cache; without one the quote is dropped.
coalesce_tick(t) ==
    LET old    == cache[task[t].symbol]
        merged == [bid |-> Side(task[t].tick.bid, old.bid),
                   ask |-> Side(task[t].tick.ask, old.ask)]
    IN  /\ task[t].pc = "coalesce"
        /\ IF 0 \in {merged.bid, merged.ask}
           THEN EndTask(t)
           ELSE task' = [task EXCEPT ![t].pc = "store", ![t].tick = merged]
        /\ UNCHANGED <<authenticated, streams, viewer, subs, cache, quoted,
                       watched, failed, mixed, bounds>>

\* The tick is cached, then sent to whoever is in its channel.
publish_tick(t) ==
    LET s == task[t].symbol
    IN  /\ task[t].pc = "store"
        /\ cache' = [cache EXCEPT ![s] = task[t].tick]
        /\ mixed' = IF task[t].full /\ task[t].alone THEN mixed \ {s} ELSE mixed
        /\ EndTask(t)
        /\ UNCHANGED <<authenticated, streams, viewer, subs, quoted, watched, failed, bounds>>

\* Redis raises: a read that fails drops the quote, a write that fails is logged.
CacheFails(t) ==
    /\ task[t].pc # "idle"
    /\ Fault
    /\ mixed' = mixed \cup {task[t].symbol}
    /\ EndTask(t)
    /\ UNCHANGED <<authenticated, streams, viewer, subs, cache, quoted, watched, failed>>

\* A minute without a quote.
TickExpires(s) ==
    /\ cache[s] # NoTick
    /\ InFlight(s) = {}
    /\ cache' = [cache EXCEPT ![s] = NoTick]
    /\ UNCHANGED <<authenticated, streams, viewer, subs, task, quoted,
                   watched, failed, mixed, bounds>>

-----------------------------------------------------------------------------
Watching(w) ==
    \/ connect(w) \/ disconnect(w) \/ set_symbol(w)
    \/ unsubscribe_spots(w) \/ unsubscribe_live_trendbar(w) \/ LeaveFails(w)
    \/ subscribe_spots(w) \/ subscribe_live_trendbar(w) \/ TakeFails(w) \/ join(w)

FeedNext ==
    \/ \E w \in Viewers : Watching(w)
    \/ on_disconnected \/ authenticate
    \/ \E s \in Symbols : handle_spot_event(s) \/ TickExpires(s)
    \/ \E t \in Tasks : coalesce_tick(t) \/ publish_tick(t) \/ CacheFails(t)

\* A screen whose set_symbol was answered is streamed the chart it shows and is
\* in its channel, whatever charts it showed before, as long as no other
\* connection ever asked for the symbol: leaving a chart counts no watchers, so
\* a second screen that moves away takes the stream with it.
SoleViewerIsFed ==
    \A w \in Viewers \ failed :
        LET c == viewer[w].now
            sole == \A v \in Viewers \ {w} : c.symbol \notin watched[v]
        IN  viewer[w].pc = "idle" /\ c # NoChart /\ sole =>
                /\ {Spot(c), Bar(c)} \subseteq streams
                /\ <<w, c.symbol>> \in subs

\* The cached tick, from which orders and volumes are computed, never has one
\* side only, and when no quote of the symbol is being merged it holds the
\* newest price of each side.  Quotes that overlapped, or that Redis lost, may
\* leave an older price: one full quote handled on its own puts it right.
QuietCacheIsNewest ==
    \A s \in Symbols :
        cache[s] # NoTick =>
            /\ 0 \notin {cache[s].bid, cache[s].ask}
            /\ s \notin mixed /\ InFlight(s) = {} => cache[s] = quoted[s]
=============================================================================
