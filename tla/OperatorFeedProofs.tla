------------------------- MODULE OperatorFeedProofs -------------------------
(***************************************************************************)
(* Theorems about OperatorFeed, for any connections, symbols, timeframes,  *)
(* emitting tasks and alert keys, and any number of operations and faults. *)
(***************************************************************************)
EXTENDS OperatorFeed, TLAPS

-----------------------------------------------------------------------------
(* The alerts.                                                             *)

Emits == [pc : {"idle", "claim", "store"}, key : Keys \cup {"none"}, claims : BOOLEAN]

AlertTyped ==
  /\ emit \in [Emitters -> Emits]
  /\ \A e \in Emitters : emit[e].pc # "idle" => emit[e].key \in Keys
  /\ stored \in [Keys -> Nat]
  /\ suppressed \in [Keys -> BOOLEAN] /\ unstored \in [Keys -> BOOLEAN]

\* Task e writes the alert for which it claimed key k.
Writes(e, k) == emit[e].key = k /\ emit[e].claims /\ emit[e].pc = "store"

\* One task at most writes for a key, and only while nothing is written for it
\* and the key is claimed.
OneWriter ==
  \A k \in Keys, e \in Emitters :
    Writes(e, k) =>
      /\ k \in claimed /\ stored[k] = 0
      /\ \A f \in Emitters : Writes(f, k) => f = e

\* A key that is claimed has its alert written, being written, or given up.
ClaimAccountedFor ==
  \A k \in Keys :
    /\ k \in claimed => stored[k] = 1 \/ unstored[k] \/ Storing(k)
    /\ k \notin claimed => stored[k] = 0 /\ ~suppressed[k]
    /\ stored[k] <= 1

\* What a task is to claim has a cooldown.
OnlyCooldownsClaim == \A e \in Emitters : emit[e].pc = "claim" => emit[e].claims

AlertInv == AlertTyped /\ OnlyCooldownsClaim /\ OneWriter /\ ClaimAccountedFor

\* What a step makes of one task's call.
LEMMA EmitSet ==
  ASSUME AlertTyped, NEW e \in Emitters, NEW m \in Emits, emit' = [emit EXCEPT ![e] = m]
  PROVE  /\ emit' \in [Emitters -> Emits] /\ emit'[e] = m
         /\ \A f \in Emitters \ {e} : emit'[f] = emit[f]
BY DEF AlertTyped

LEMMA ReturnSet ==
  ASSUME AlertTyped, NEW e \in Emitters, Return(e)
  PROVE  /\ emit' \in [Emitters -> Emits] /\ emit'[e].pc = "idle"
         /\ \A f \in Emitters \ {e} : emit'[f] = emit[f]
         /\ \A k \in Keys : ~Writes(e, k)'
<1>1. NoEmit \in Emits /\ NoEmit.pc = "idle"
  BY DEF NoEmit, Emits
<1>2. /\ emit' \in [Emitters -> Emits] /\ emit'[e] = NoEmit
      /\ \A f \in Emitters \ {e} : emit'[f] = emit[f]
  BY <1>1, EmitSet DEF Return
<1> QED
  BY <1>1, <1>2 DEF Writes

LEMMA ClaimSet ==
  ASSUME AlertInv, NEW e \in Emitters, Claim(e)
  PROVE  /\ emit' \in [Emitters -> Emits] /\ emit'[e].pc = "store" /\ emit'[e].claims
         /\ emit'[e].key = emit[e].key /\ emit[e].key \in Keys
         /\ \A f \in Emitters \ {e} : emit'[f] = emit[f]
<1> DEFINE m == [emit[e] EXCEPT !.pc = "store"]
<1>1. emit[e] \in Emits /\ emit[e].claims /\ emit[e].key \in Keys
  BY DEF AlertInv, AlertTyped, OnlyCooldownsClaim, Claim
<1>2. m \in Emits /\ m.pc = "store" /\ m.claims /\ m.key = emit[e].key
  BY <1>1 DEF Emits
<1>3. emit' = [emit EXCEPT ![e] = m]
  BY DEF Claim
<1> HIDE DEF m
<1> QED
  BY <1>1, <1>2, <1>3, EmitSet DEF AlertInv

LEMMA EmitSetsOut ==
  ASSUME AlertInv, NEW e \in Emitters, Emit(e)
  PROVE  /\ emit' \in [Emitters -> Emits]
         /\ \A f \in Emitters \ {e} : emit'[f] = emit[f]
         /\ emit[e] = NoEmit
         /\ emit'[e].key \in Keys /\ (emit'[e].pc = "claim" <=> emit'[e].claims)
         /\ emit'[e].pc # "idle"
<1>1. PICK k \in Keys, claims \in BOOLEAN :
        emit' = [emit EXCEPT ![e] = [pc |-> IF claims THEN "claim" ELSE "store",
                                     key |-> k, claims |-> claims]]
  BY DEF Emit
<1> DEFINE m == [pc |-> IF claims THEN "claim" ELSE "store", key |-> k, claims |-> claims]
<1>2. m \in Emits /\ m.key = k /\ m.pc # "idle" /\ (m.pc = "claim" <=> m.claims)
  BY DEF Emits
<1> HIDE DEF m
<1>3. emit' = [emit EXCEPT ![e] = m]
  BY <1>1 DEF m
<1> QED
  BY <1>2, <1>3, EmitSet DEF AlertInv, Emit

\* Storing, told by Writes.
LEMMA StoringIsWriting ==
  ASSUME NEW k \in Keys
  PROVE  /\ Storing(k) <=> \E e \in Emitters : Writes(e, k)
         /\ Storing(k)' <=> \E e \in Emitters : Writes(e, k)'
BY DEF Storing, Writes

LEMMA AlertStep ==
  ASSUME AlertInv, AlertNext PROVE AlertInv'
<1> USE DEF AlertInv
<1>1. ASSUME NEW e \in Emitters, Emit(e) PROVE AlertInv'
  <2>1. /\ emit' \in [Emitters -> Emits]
        /\ \A f \in Emitters \ {e} : emit'[f] = emit[f]
        /\ emit[e].pc = "idle" /\ emit'[e].key \in Keys
        /\ emit'[e].pc = "claim" <=> emit'[e].claims
    BY <1>1, EmitSetsOut DEF NoEmit
  <2>2. UNCHANGED <<claimed, stored, suppressed, unstored>>
    BY <1>1 DEF Emit
  <2>3. \A k \in Keys, f \in Emitters : Writes(f, k)' <=> Writes(f, k)
    BY <2>1 DEF Writes
  <2>4. AlertTyped' /\ OnlyCooldownsClaim'
    BY <2>1, <2>2 DEF AlertTyped, OnlyCooldownsClaim
  <2>5. OneWriter' /\ ClaimAccountedFor'
    BY <2>2, <2>3, StoringIsWriting DEF OneWriter, ClaimAccountedFor
  <2> QED
    BY <2>4, <2>5
<1>2. ASSUME NEW e \in Emitters, Claim(e) PROVE AlertInv'
  <2>0. PICK k \in Keys : k = emit[e].key
    BY <1>2, ClaimSet
  <2>1. /\ emit' \in [Emitters -> Emits] /\ emit'[e].pc = "store" /\ emit'[e].claims
        /\ emit'[e].key = k /\ k \in Keys
        /\ \A f \in Emitters \ {e} : emit'[f] = emit[f]
    BY <1>2, <2>0, ClaimSet
  <2>2. /\ k \notin claimed /\ claimed' = claimed \cup {k}
        /\ UNCHANGED <<stored, suppressed, unstored>>
    BY <1>2, <2>0 DEF Claim, Claims
  <2>3. emit[e].pc = "claim"
    BY <1>2 DEF Claim
  <2>4. AlertTyped' /\ OnlyCooldownsClaim'
    BY <2>1, <2>2 DEF AlertTyped, OnlyCooldownsClaim
  <2>5. stored[k] = 0 /\ \A f \in Emitters : ~Writes(f, k)
    BY <2>1, <2>2 DEF OneWriter, ClaimAccountedFor
  <2>a. Writes(e, k)'
    BY <2>1 DEF Writes
  <2>b. \A f \in Emitters, j \in Keys : Writes(f, j)' => Writes(f, j) \/ (f = e /\ j = k)
    BY <2>1, <2>3 DEF Writes
  <2>c. \A f \in Emitters, j \in Keys : Writes(f, j) => Writes(f, j)'
    BY <2>1, <2>3 DEF Writes
  <2>6. OneWriter'
    BY <2>1, <2>2, <2>5, <2>b DEF OneWriter
  <2>7. ClaimAccountedFor'
    <3> SUFFICES ASSUME NEW j \in Keys
                 PROVE  /\ j \in claimed' => stored'[j] = 1 \/ unstored'[j] \/ Storing(j)'
                        /\ j \notin claimed' => stored'[j] = 0 /\ ~suppressed'[j]
                        /\ stored'[j] <= 1
      BY DEF ClaimAccountedFor
    <3>1. Storing(k)'
      BY <2>1, <2>a, StoringIsWriting
    <3>2. Storing(j) => Storing(j)'
      BY <2>c, StoringIsWriting
    <3> QED
      BY <2>2, <3>1, <3>2 DEF ClaimAccountedFor
  <2> QED
    BY <2>4, <2>6, <2>7
<1>3. ASSUME NEW e \in Emitters, Suppress(e) \/ ClaimFails(e) PROVE AlertInv'
  <2> DEFINE k == emit[e].key
  <2>1. /\ emit' \in [Emitters -> Emits] /\ emit'[e].pc = "idle"
        /\ \A f \in Emitters \ {e} : emit'[f] = emit[f]
        /\ \A j \in Keys : ~Writes(e, j)'
    BY <1>3, ReturnSet DEF Suppress, ClaimFails
  <2>2. emit[e].pc = "claim" /\ k \in Keys /\ stored' = stored
    BY <1>3 DEF Suppress, ClaimFails, AlertTyped
  <2>3. \A f \in Emitters, j \in Keys : Writes(f, j)' <=> Writes(f, j)
    BY <2>1, <2>2 DEF Writes
  <2>4. \/ k \in claimed /\ suppressed' = [suppressed EXCEPT ![k] = TRUE]
           /\ UNCHANGED <<claimed, unstored>>
        \/ UNCHANGED <<claimed, unstored, suppressed>>
        \/ k \notin claimed /\ claimed' = claimed \cup {k}
           /\ unstored' = [unstored EXCEPT ![k] = TRUE] /\ suppressed' = suppressed
    BY <1>3 DEF Suppress, ClaimFails, Claims
  <2> HIDE DEF k
  <2>5. AlertTyped' /\ OnlyCooldownsClaim'
    BY <2>1, <2>2, <2>4 DEF AlertTyped, OnlyCooldownsClaim
  <2>6. OneWriter'
    BY <2>2, <2>3, <2>4 DEF OneWriter
  <2>7. ClaimAccountedFor'
    BY <2>2, <2>3, <2>4, StoringIsWriting DEF ClaimAccountedFor, AlertTyped
  <2> QED
    BY <2>5, <2>6, <2>7
<1>4. ASSUME NEW e \in Emitters, Store(e) \/ StoreFails(e) PROVE AlertInv'
  <2>0. PICK k \in Keys : k = emit[e].key
    BY <1>4 DEF Store, StoreFails, AlertTyped
  <2>1. /\ emit' \in [Emitters -> Emits] /\ emit'[e].pc = "idle"
        /\ \A f \in Emitters \ {e} : emit'[f] = emit[f]
        /\ \A j \in Keys : ~Writes(e, j)'
    BY <1>4, ReturnSet DEF Store, StoreFails
  <2>2. /\ emit[e].pc = "store" /\ k \in Keys /\ emit[e].claims \in BOOLEAN
        /\ UNCHANGED <<claimed, suppressed>>
    BY <1>4, <2>0 DEF Store, StoreFails, AlertTyped, Emits
  <2>3. \A f \in Emitters \ {e}, j \in Keys : Writes(f, j)' <=> Writes(f, j)
    BY <2>1 DEF Writes
  <2>4. \/ stored' = [stored EXCEPT ![k] = @ + IF emit[e].claims THEN 1 ELSE 0]
           /\ unstored' = unstored
        \/ unstored' = [unstored EXCEPT ![k] = @ \/ emit[e].claims] /\ stored' = stored
    BY <1>4, <2>0 DEF Store, StoreFails
  <2>5. \A j \in Keys : Writes(e, j) <=> emit[e].claims /\ j = k
    BY <2>0, <2>2 DEF Writes
  <2>6. AlertTyped' /\ OnlyCooldownsClaim'
    <3>1. unstored' \in [Keys -> BOOLEAN]
      BY <2>2, <2>4 DEF AlertTyped
    <3>2. stored' \in [Keys -> Nat]
      BY <2>2, <2>4 DEF AlertTyped
    <3> QED
      BY <2>1, <2>2, <3>1, <3>2 DEF AlertTyped, OnlyCooldownsClaim
  <2>7. CASE emit[e].claims
    <3>a. Writes(e, k)
      BY <2>2, <2>5, <2>7
    <3>b. stored[k] = 0 /\ k \in claimed /\ \A f \in Emitters : Writes(f, k) => f = e
      BY <2>2, <3>a DEF OneWriter
    <3>1. \A f \in Emitters : ~Writes(f, k)'
      BY <2>1, <2>2, <2>3, <3>b
    <3>2. /\ stored'[k] <= 1 /\ (stored'[k] = 1 \/ unstored'[k])
          /\ \A j \in Keys \ {k} : stored'[j] = stored[j] /\ unstored'[j] = unstored[j]
      <4>1. CASE /\ stored' = [stored EXCEPT ![k] = @ + IF emit[e].claims THEN 1 ELSE 0]
                 /\ unstored' = unstored
        BY <2>2, <2>7, <3>b, <4>1 DEF AlertTyped
      <4>2. CASE /\ unstored' = [unstored EXCEPT ![k] = @ \/ emit[e].claims]
                 /\ stored' = stored
        <5>1. unstored \in [Keys -> BOOLEAN]
          BY DEF AlertTyped
        <5>2. unstored'[k] /\ \A j \in Keys \ {k} : unstored'[j] = unstored[j]
          BY <2>2, <2>7, <4>2, <5>1, Zenon
        <5> QED
          BY <2>2, <3>b, <4>2, <5>2
      <4> QED
        BY <2>4, <4>1, <4>2
    <3>3. \A f \in Emitters, j \in Keys : Writes(f, j)' => j # k /\ Writes(f, j)
      BY <2>1, <2>3, <3>1
    <3>4. \A j \in Keys \ {k} : Storing(j) => Storing(j)'
      BY <2>3, <2>5, StoringIsWriting
    <3>5. OneWriter'
      BY <2>2, <3>2, <3>3 DEF OneWriter
    <3>6. ClaimAccountedFor'
      BY <2>2, <3>b, <3>2, <3>4 DEF ClaimAccountedFor
    <3> QED
      BY <2>6, <3>5, <3>6
  <2>8. CASE ~emit[e].claims
    <3>1. \A j \in Keys : stored'[j] = stored[j] /\ (unstored'[j] <=> unstored[j])
      BY <2>2, <2>4, <2>8 DEF AlertTyped
    <3>2. \A f \in Emitters, j \in Keys : Writes(f, j)' <=> Writes(f, j)
      BY <2>1, <2>3, <2>5, <2>8
    <3>3. OneWriter'
      BY <2>2, <3>1, <3>2 DEF OneWriter
    <3>4. ClaimAccountedFor'
      BY <2>2, <3>1, <3>2, StoringIsWriting DEF ClaimAccountedFor
    <3> QED
      BY <2>6, <3>3, <3>4
  <2> QED
    BY <2>2, <2>7, <2>8
<1>5. ASSUME NEW k \in Keys, CooldownEnds(k) PROVE AlertInv'
  <2>1. /\ claimed' = claimed \ {k} /\ emit' = emit
        /\ stored' = [stored EXCEPT ![k] = 0] /\ suppressed' = [suppressed EXCEPT ![k] = FALSE]
        /\ unstored' = [unstored EXCEPT ![k] = FALSE]
        /\ \A e \in Emitters : ~Writes(e, k)
    BY <1>5, StoringIsWriting DEF CooldownEnds
  <2>2. \A f \in Emitters, j \in Keys : Writes(f, j)' <=> Writes(f, j)
    BY <2>1 DEF Writes
  <2>3. AlertTyped' /\ OnlyCooldownsClaim'
    BY <2>1 DEF AlertTyped, OnlyCooldownsClaim
  <2>4. OneWriter'
    BY <2>1, <2>2 DEF OneWriter, AlertTyped
  <2>5. ClaimAccountedFor'
    BY <2>1, <2>2, StoringIsWriting DEF ClaimAccountedFor, AlertTyped
  <2> QED
    BY <2>3, <2>4, <2>5
<1> QED
  BY <1>1, <1>2, <1>3, <1>4, <1>5 DEF AlertNext

LEMMA AlertStart ==
  ASSUME AlertInit PROVE AlertInv
BY DEF AlertInit, AlertInv, AlertTyped, Emits, NoEmit, OnlyCooldownsClaim, OneWriter, Writes,
       ClaimAccountedFor

LEMMA AlertInvAlways == Spec => []AlertInv
<1>1. Init => AlertInv
  BY AlertStart DEF Init
<1>2. ASSUME AlertInv, UNCHANGED alertVars PROVE AlertInv'
  BY <1>2 DEF alertVars, AlertInv, AlertTyped, OnlyCooldownsClaim, OneWriter, Writes,
              ClaimAccountedFor, Storing
<1>3. AlertInv /\ [Next]_vars => AlertInv'
  BY <1>2, AlertStep DEF Next, vars
<1> QED
  BY <1>1, <1>3, PTL DEF Spec

\* AlertService.emit writes at most one alert while a cooldown key lasts, and
\* suppresses none without one written, being written or given up.
THEOREM CooldownOnce == Spec => []CooldownTellsOnce
<1>1. ASSUME AlertInv PROVE CooldownTellsOnce
  BY <1>1 DEF AlertInv, ClaimAccountedFor, CooldownTellsOnce
<1> QED
  BY <1>1, AlertInvAlways, PTL
-----------------------------------------------------------------------------
(* The screens.                                                            *)

Stages == {"idle", "leaveSpot", "leaveBar", "takeSpot", "takeBar", "join"}
Screens == [on : BOOLEAN, pc : Stages, want : Charts \cup {NoChart}, now : Charts \cup {NoChart}]

ScreensTyped ==
  /\ viewer \in [Viewers -> Screens]
  /\ watched \in [Viewers -> SUBSET Symbols]
  /\ failed \subseteq Viewers

\* Nobody but w ever asked for the symbol.
Sole(w, symbol) == \A v \in Viewers \ {w} : symbol \notin watched[v]

\* What a connection shows, and what it asks for, it has asked for.
ShownIsWatched ==
  \A w \in Viewers :
    /\ viewer[w].now # NoChart =>
         viewer[w].now.symbol \in watched[w] /\ <<w, viewer[w].now.symbol>> \in subs
    /\ viewer[w].pc # "idle" => viewer[w].want \in Charts /\ viewer[w].want.symbol \in watched[w]
    /\ viewer[w].pc \in {"leaveSpot", "leaveBar"} => viewer[w].now # NoChart

\* What a connection has taken so far is streamed to it, unless its request
\* failed or another connection took the symbol up as well.
TakenIsStreamed ==
  \A w \in Viewers \ failed :
    /\ viewer[w].pc \in {"takeBar", "join"} /\ Sole(w, viewer[w].want.symbol) =>
         Spot(viewer[w].want) \in streams
    /\ viewer[w].pc = "join" /\ Sole(w, viewer[w].want.symbol) =>
         Bar(viewer[w].want) \in streams
    /\ viewer[w].pc = "idle" /\ viewer[w].now # NoChart /\ Sole(w, viewer[w].now.symbol) =>
         {Spot(viewer[w].now), Bar(viewer[w].now)} \subseteq streams

ScreenInv == ScreensTyped /\ ShownIsWatched /\ TakenIsStreamed

\* After a request the next one in Order is made.
LEMMA Requests ==
  /\ After("leaveSpot") = "leaveBar" /\ After("leaveBar") = "takeSpot"
  /\ After("takeSpot") = "takeBar" /\ After("takeBar") = "join"
<1>1. ASSUME NEW i \in 1 .. 4 PROVE /\ Order[i] = "leaveSpot" <=> i = 1
                                    /\ Order[i] = "leaveBar" <=> i = 2
                                    /\ Order[i] = "takeSpot" <=> i = 3
                                    /\ Order[i] = "takeBar" <=> i = 4
  <2>1. i = 1 \/ i = 2 \/ i = 3 \/ i = 4
    OBVIOUS
  <2> QED
    BY <2>1 DEF Order
<1>2. /\ (CHOOSE i \in 1 .. 4 : Order[i] = "leaveSpot") = 1
      /\ (CHOOSE i \in 1 .. 4 : Order[i] = "leaveBar") = 2
      /\ (CHOOSE i \in 1 .. 4 : Order[i] = "takeSpot") = 3
      /\ (CHOOSE i \in 1 .. 4 : Order[i] = "takeBar") = 4
  BY <1>1
<1> QED
  BY <1>2 DEF After, Order

\* What two charts of different symbols need streamed is different.
LEMMA ChartsApart ==
  ASSUME NEW c, NEW d, c.symbol # d.symbol
  PROVE  {Spot(c), Bar(c)} \cap {Spot(d), Bar(d)} = {}
BY DEF Spot, Bar

LEMMA NoChartIsNone == NoChart \notin Charts
BY FeedAssumption DEF NoChart, Charts

\* The screen of one connection changes, and something it shows may no longer
\* be streamed: what it must show for itself is enough.
LEMMA ScreensByOne ==
  ASSUME ScreenInv, NEW w \in Viewers, ScreensTyped',
         \A v \in Viewers \ {w} : viewer'[v] = viewer[v],
         \A v \in Viewers : watched[v] \subseteq watched'[v],
         \A v \in Viewers \ {w} : v \in failed => v \in failed',
         \A v \in Viewers \ {w}, s \in Symbols : <<v, s>> \in subs => <<v, s>> \in subs',
         \A x \in streams \ streams' : /\ viewer[w].now # NoChart
                                       /\ x \in {Spot(viewer[w].now), Bar(viewer[w].now)},
         viewer'[w].now # NoChart =>
            viewer'[w].now.symbol \in watched'[w] /\ <<w, viewer'[w].now.symbol>> \in subs',
         viewer'[w].pc # "idle" =>
            viewer'[w].want \in Charts /\ viewer'[w].want.symbol \in watched'[w],
         viewer'[w].pc \in {"leaveSpot", "leaveBar"} => viewer'[w].now # NoChart,
         w \notin failed' =>
            /\ viewer'[w].pc \in {"takeBar", "join"} =>
                 /\ viewer'[w].want = viewer[w].want
                 /\ Sole(w, viewer[w].want.symbol) => Spot(viewer'[w].want) \in streams'
            /\ viewer'[w].pc = "join" /\ Sole(w, viewer[w].want.symbol) =>
                 Bar(viewer'[w].want) \in streams'
            /\ viewer'[w].pc = "idle" /\ viewer'[w].now # NoChart =>
                 /\ viewer'[w].now = viewer[w].want
                 /\ Sole(w, viewer[w].want.symbol) =>
                      {Spot(viewer'[w].now), Bar(viewer'[w].now)} \subseteq streams'
  PROVE  ScreenInv'
<1> USE DEF ScreenInv
<1>1. ShownIsWatched'
  <2> SUFFICES ASSUME NEW v \in Viewers
               PROVE  /\ viewer'[v].now # NoChart => /\ viewer'[v].now.symbol \in watched'[v]
                                                     /\ <<v, viewer'[v].now.symbol>> \in subs'
                      /\ viewer'[v].pc # "idle" => /\ viewer'[v].want \in Charts
                                                   /\ viewer'[v].want.symbol \in watched'[v]
                      /\ viewer'[v].pc \in {"leaveSpot", "leaveBar"} => viewer'[v].now # NoChart
    BY DEF ShownIsWatched
  <2>1. CASE v = w
    BY <2>1
  <2>2. CASE v # w
    BY <2>2 DEF ShownIsWatched, ScreensTyped
  <2> QED
    BY <2>1, <2>2
<1>2. TakenIsStreamed'
  <2> DEFINE Alone(v, symbol) == \A u \in Viewers \ {v} : symbol \notin watched'[u]
  <2> SUFFICES ASSUME NEW v \in Viewers, v \notin failed'
               PROVE  /\ viewer'[v].pc \in {"takeBar", "join"} /\ Alone(v, viewer'[v].want.symbol) =>
                           Spot(viewer'[v].want) \in streams'
                      /\ viewer'[v].pc = "join" /\ Alone(v, viewer'[v].want.symbol) =>
                           Bar(viewer'[v].want) \in streams'
                      /\ viewer'[v].pc = "idle" /\ viewer'[v].now # NoChart
                         /\ Alone(v, viewer'[v].now.symbol) =>
                           {Spot(viewer'[v].now), Bar(viewer'[v].now)} \subseteq streams'
    BY DEF TakenIsStreamed, Sole
  <2>1. \A symbol : Alone(v, symbol) => Sole(v, symbol)
    BY DEF Sole
  <2>2. CASE v = w
    <3> HIDE DEF Alone
    <3>1. CASE viewer'[w].pc \in {"takeBar", "join"}
      BY <2>1, <2>2, <3>1
    <3>2. CASE viewer'[w].pc = "idle"
      BY <2>1, <2>2, <3>2
    <3> QED
      BY <2>2, <3>1, <3>2
  <2>3. CASE v # w
    <3>1. ASSUME NEW c, Alone(v, c.symbol), {Spot(c), Bar(c)} \cap (streams \ streams') # {}
          PROVE  FALSE
      <4>1. viewer[w].now # NoChart /\ viewer[w].now.symbol \in watched'[w]
        BY <3>1 DEF ShownIsWatched, ScreensTyped
      <4>2. viewer[w].now.symbol # c.symbol
        BY <2>3, <3>1, <4>1
      <4> QED
        BY <3>1, <4>2, ChartsApart
    <3> HIDE DEF Alone
    <3>2. v \notin failed /\ viewer'[v] = viewer[v]
      BY <2>3
    <3> QED
      BY <2>1, <3>1, <3>2 DEF TakenIsStreamed
  <2> QED
    BY <2>2, <2>3
<1> QED
  BY <1>1, <1>2

LEMMA GotoMoves ==
  ASSUME viewer \in [Viewers -> Screens], NEW w \in Viewers, NEW pc \in Stages, Goto(w, pc)
  PROVE  /\ viewer' \in [Viewers -> Screens]
         /\ viewer'[w].pc = pc /\ viewer'[w].now = viewer[w].now
         /\ viewer'[w].want = viewer[w].want
         /\ \A v \in Viewers \ {w} : viewer'[v] = viewer[v]
BY DEF Goto, Screens

\* A request to leave, whether it succeeds or not.
LEMMA LeavesStep ==
  ASSUME ScreenInv, NEW w \in Viewers,
         unsubscribe_spots(w) \/ unsubscribe_live_trendbar(w) \/ LeaveFails(w)
  PROVE  ScreenInv'
<1>1. PICK pc \in {"leaveBar", "takeSpot"} : Goto(w, pc)
  BY Requests DEF unsubscribe_spots, unsubscribe_live_trendbar, LeaveFails
<1>2. viewer \in [Viewers -> Screens] /\ pc \in Stages
  BY DEF ScreenInv, ScreensTyped, Stages
<1>3. /\ viewer' \in [Viewers -> Screens]
      /\ viewer'[w].pc = pc /\ viewer'[w].now = viewer[w].now
      /\ viewer'[w].want = viewer[w].want
      /\ \A v \in Viewers \ {w} : viewer'[v] = viewer[v]
  BY <1>1, <1>2, GotoMoves
<1>4. /\ UNCHANGED <<subs, watched, failed>>
      /\ viewer[w].pc \in {"leaveSpot", "leaveBar"}
      /\ streams \ streams' \subseteq {Spot(viewer[w].now), Bar(viewer[w].now)}
  BY DEF unsubscribe_spots, unsubscribe_live_trendbar, LeaveFails
<1>5. /\ viewer[w].now # NoChart /\ viewer[w].now.symbol \in watched[w]
      /\ <<w, viewer[w].now.symbol>> \in subs
      /\ viewer[w].want \in Charts /\ viewer[w].want.symbol \in watched[w]
  BY <1>4 DEF ScreenInv, ShownIsWatched
<1>6. ScreensTyped'
  BY <1>3, <1>4 DEF ScreenInv, ScreensTyped
<1> QED
  BY <1>1, <1>3, <1>4, <1>5, <1>6, ScreensByOne

\* A request to take, whether it succeeds or not.
LEMMA TakesStep ==
  ASSUME ScreenInv, NEW w \in Viewers,
         subscribe_spots(w) \/ subscribe_live_trendbar(w) \/ TakeFails(w)
  PROVE  ScreenInv'
<1>1. PICK pc \in {"takeBar", "join", "idle"} : Goto(w, pc)
  BY Requests DEF subscribe_spots, subscribe_live_trendbar, TakeFails, Refused
<1>2. viewer \in [Viewers -> Screens] /\ pc \in Stages
  BY DEF ScreenInv, ScreensTyped, Stages
<1>3. /\ viewer' \in [Viewers -> Screens]
      /\ viewer'[w].pc = pc /\ viewer'[w].now = viewer[w].now
      /\ viewer'[w].want = viewer[w].want
      /\ \A v \in Viewers \ {w} : viewer'[v] = viewer[v]
  BY <1>1, <1>2, GotoMoves
<1>4. /\ UNCHANGED <<subs, watched>> /\ streams \subseteq streams'
      /\ failed \subseteq failed' /\ failed' \subseteq Viewers
      /\ viewer[w].pc \in {"takeSpot", "takeBar"}
  BY DEF subscribe_spots, subscribe_live_trendbar, TakeFails, Refused, ScreenInv, ScreensTyped
<1>5. /\ viewer[w].now # NoChart =>
           viewer[w].now.symbol \in watched[w] /\ <<w, viewer[w].now.symbol>> \in subs
      /\ viewer[w].want \in Charts /\ viewer[w].want.symbol \in watched[w]
  BY <1>4 DEF ScreenInv, ShownIsWatched
<1>6. ScreensTyped'
  BY <1>3, <1>4 DEF ScreenInv, ScreensTyped
<1>7. w \notin failed' /\ Sole(w, viewer[w].want.symbol) =>
        /\ Spot(viewer[w].want) \in streams'
        /\ pc = "join" => Bar(viewer[w].want) \in streams'
  <2>1. CASE subscribe_spots(w)
    <3>1. Goto(w, "takeBar") /\ Spot(viewer[w].want) \in streams'
      BY <2>1, Requests DEF subscribe_spots
    <3>2. pc = "takeBar"
      BY <1>2, <1>3, <3>1, GotoMoves DEF Stages
    <3> QED
      BY <3>1, <3>2
  <2>2. CASE subscribe_live_trendbar(w)
    BY <1>4, <2>2 DEF subscribe_live_trendbar, ScreenInv, TakenIsStreamed
  <2>3. CASE TakeFails(w)
    BY <2>3 DEF TakeFails, Refused
  <2> QED
    BY <2>1, <2>2, <2>3
<1>8. pc = "idle" => w \in failed'
  <2>1. CASE subscribe_spots(w)
    <3>1. Goto(w, "takeBar")
      BY <2>1, Requests DEF subscribe_spots
    <3> QED
      BY <1>2, <1>3, <3>1, GotoMoves DEF Stages
  <2>2. CASE subscribe_live_trendbar(w)
    <3>1. Goto(w, "join")
      BY <2>2, Requests DEF subscribe_live_trendbar
    <3> QED
      BY <1>2, <1>3, <3>1, GotoMoves DEF Stages
  <2>3. CASE TakeFails(w)
    BY <2>3 DEF TakeFails, Refused
  <2> QED
    BY <2>1, <2>2, <2>3
<1> QED
  BY <1>1, <1>3, <1>4, <1>5, <1>6, <1>7, <1>8, ScreensByOne

LEMMA WatchingStep ==
  ASSUME ScreenInv, NEW w \in Viewers, Watching(w) PROVE ScreenInv'
<1>a. viewer \in [Viewers -> Screens] /\ watched \in [Viewers -> SUBSET Symbols]
  BY DEF ScreenInv, ScreensTyped
<1>1. CASE connect(w) \/ disconnect(w)
  <2>1. /\ viewer' \in [Viewers -> Screens]
        /\ viewer'[w].pc = "idle" /\ viewer'[w].now = NoChart
        /\ \A v \in Viewers \ {w} : viewer'[v] = viewer[v]
    <3>1. ASSUME NEW g \in Screens, g.pc = "idle", g.now = NoChart,
                 viewer' = [viewer EXCEPT ![w] = g]
          PROVE  /\ viewer' \in [Viewers -> Screens]
                 /\ viewer'[w].pc = "idle" /\ viewer'[w].now = NoChart
                 /\ \A v \in Viewers \ {w} : viewer'[v] = viewer[v]
      BY <1>a, <3>1
    <3> DEFINE g == [Gone EXCEPT !.on = TRUE]
    <3>2. g \in Screens /\ g.pc = "idle" /\ g.now = NoChart
      BY DEF Gone, Screens, Stages
    <3>3. Gone \in Screens /\ Gone.pc = "idle" /\ Gone.now = NoChart
      BY DEF Gone, Screens, Stages
    <3>4. viewer' = [viewer EXCEPT ![w] = g] \/ viewer' = [viewer EXCEPT ![w] = Gone]
      BY <1>1 DEF connect, disconnect
    <3> HIDE DEF g
    <3> QED
      BY <3>1, <3>2, <3>3, <3>4
  <2>2. /\ UNCHANGED <<streams, watched>> /\ failed \ {w} \subseteq failed'
        /\ failed' \subseteq failed
        /\ \A v \in Viewers \ {w}, s \in Symbols : <<v, s>> \in subs => <<v, s>> \in subs'
    BY <1>1 DEF connect, disconnect
  <2>3. ScreensTyped'
    BY <2>1, <2>2 DEF ScreenInv, ScreensTyped
  <2> QED
    BY <2>1, <2>2, <2>3, ScreensByOne
<1>2. CASE set_symbol(w)
  <2>1. PICK c \in Charts :
          /\ viewer' = [viewer EXCEPT
               ![w].want = c,
               ![w].pc = IF viewer[w].now \in {NoChart, c} THEN "takeSpot" ELSE Order[1]]
          /\ watched' = [watched EXCEPT ![w] = @ \cup {c.symbol}]
    BY <1>2 DEF set_symbol
  <2>2. c.symbol \in Symbols /\ Order[1] = "leaveSpot"
    BY DEF Charts, Order
  <2>3. /\ viewer' \in [Viewers -> Screens]
        /\ viewer'[w].pc \in {"takeSpot", "leaveSpot"} /\ viewer'[w].now = viewer[w].now
        /\ viewer'[w].pc = "leaveSpot" => viewer[w].now # NoChart
        /\ viewer'[w].want = c
        /\ \A v \in Viewers \ {w} : viewer'[v] = viewer[v]
    BY <1>a, <2>1, <2>2 DEF Screens, Stages
  <2>4. /\ watched' \in [Viewers -> SUBSET Symbols] /\ c.symbol \in watched'[w]
        /\ \A v \in Viewers : watched[v] \subseteq watched'[v]
    BY <1>a, <2>1, <2>2
  <2>5. UNCHANGED <<streams, subs>> /\ failed' = failed \ {w}
    BY <1>2 DEF set_symbol
  <2>6. ScreensTyped'
    BY <2>3, <2>4, <2>5 DEF ScreenInv, ScreensTyped
  <2>7. viewer[w].now # NoChart =>
          viewer[w].now.symbol \in watched[w] /\ <<w, viewer[w].now.symbol>> \in subs
    BY DEF ScreenInv, ShownIsWatched
  <2> QED
    BY <2>3, <2>4, <2>5, <2>6, <2>7, ScreensByOne
<1>3. CASE join(w)
  <2> DEFINE c == viewer[w].want
  <2>1. /\ viewer' = [viewer EXCEPT ![w].now = c, ![w].pc = "idle"]
        /\ subs' = subs \cup {<<w, c.symbol>>} /\ UNCHANGED <<streams, watched, failed>>
        /\ viewer[w].pc = "join"
    BY <1>3 DEF join
  <2>2. c \in Charts /\ c.symbol \in watched[w]
    BY <2>1 DEF ScreenInv, ShownIsWatched
  <2>3. /\ viewer' \in [Viewers -> Screens]
        /\ viewer'[w].pc = "idle" /\ viewer'[w].now = c
        /\ \A v \in Viewers \ {w} : viewer'[v] = viewer[v]
    BY <1>a, <2>1, <2>2 DEF Screens, Stages
  <2>4. w \notin failed /\ Sole(w, c.symbol) => {Spot(c), Bar(c)} \subseteq streams
    BY <2>1 DEF ScreenInv, TakenIsStreamed
  <2>5. ScreensTyped'
    BY <2>1, <2>3 DEF ScreenInv, ScreensTyped
  <2>6. /\ \A v \in Viewers : watched[v] \subseteq watched'[v]
        /\ \A v \in Viewers \ {w}, s \in Symbols : <<v, s>> \in subs => <<v, s>> \in subs'
        /\ streams \ streams' = {} /\ failed' = failed
    BY <2>1
  <2>7. viewer'[w].now.symbol \in watched'[w] /\ <<w, viewer'[w].now.symbol>> \in subs'
    BY <2>1, <2>2, <2>3
  <2>8. w \notin failed' /\ Sole(w, viewer[w].want.symbol) =>
          {Spot(viewer'[w].now), Bar(viewer'[w].now)} \subseteq streams'
    BY <2>1, <2>3, <2>4
  <2> QED
    BY <2>3, <2>5, <2>6, <2>7, <2>8, ScreensByOne
<1> QED
  BY <1>1, <1>2, <1>3, LeavesStep, TakesStep DEF Watching

LEMMA FeedScreens ==
  ASSUME ScreenInv, FeedNext PROVE ScreenInv'
<1>1. CASE on_disconnected
  <2>1. UNCHANGED <<viewer, watched, subs>> /\ failed' = Viewers
    BY <1>1 DEF on_disconnected
  <2>2. TakenIsStreamed'
    BY <2>1 DEF TakenIsStreamed
  <2> QED
    BY <2>1, <2>2 DEF ScreenInv, ScreensTyped, ShownIsWatched
<1>2. CASE UNCHANGED <<viewer, watched, failed, subs, streams>>
  BY <1>2 DEF ScreenInv, ScreensTyped, ShownIsWatched, TakenIsStreamed, Sole
<1> QED
  BY <1>1, <1>2, WatchingStep
     DEF FeedNext, authenticate, handle_spot_event, TickExpires, coalesce_tick, publish_tick,
         CacheFails

LEMMA ScreenInvAlways == Spec => []ScreenInv
<1>1. ASSUME Init PROVE ScreenInv
  <2>1. Gone \in Screens /\ Gone.pc = "idle" /\ Gone.now = NoChart
    BY DEF Gone, Screens, Stages
  <2> QED
    BY <1>1, <2>1 DEF Init, FeedInit, ScreenInv, ScreensTyped, ShownIsWatched, TakenIsStreamed
<1>2. ASSUME ScreenInv, UNCHANGED feedVars PROVE ScreenInv'
  BY <1>2 DEF feedVars, ScreenInv, ScreensTyped, ShownIsWatched, TakenIsStreamed, Sole
<1>3. ScreenInv /\ [Next]_vars => ScreenInv'
  BY <1>2, FeedScreens DEF Next, vars
<1> QED
  BY <1>1, <1>3, PTL DEF Spec

\* A connection whose set_symbol was answered is streamed the chart it shows
\* and is in its channel, as long as nobody else ever asked for the symbol.
THEOREM SoleViewerFed == Spec => []SoleViewerIsFed
<1>1. ASSUME ScreenInv PROVE SoleViewerIsFed
  BY <1>1 DEF ScreenInv, ShownIsWatched, TakenIsStreamed, Sole, SoleViewerIsFed
<1> QED
  BY <1>1, ScreenInvAlways, PTL
-----------------------------------------------------------------------------
(* The quotes.                                                             *)

Ticks  == [bid : Nat, ask : Nat]
PublishTasks ==
  [pc : {"idle", "coalesce", "store"}, symbol : Symbols \cup {"none"}, tick : Ticks,
   full : BOOLEAN, alone : BOOLEAN]

QuotesTyped ==
  /\ operations \in Nat
  /\ cache \in [Symbols -> Ticks] /\ quoted \in [Symbols -> Ticks]
  /\ task \in [Tasks -> PublishTasks]
  /\ \A t \in Tasks : task[t].pc = "idle" <=> task[t].symbol = "none"

Whole(tick) == tick.bid # 0 /\ tick.ask # 0

\* What is stored, or about to be, has both sides.
StoredIsWhole ==
  /\ \A s \in Symbols : cache[s] # NoTick => Whole(cache[s])
  /\ \A t \in Tasks : task[t].pc = "store" => Whole(task[t].tick)

\* A task that is alone, or whose symbol is not mixed up, is the only one of
\* its symbol.
NoOverlap ==
  \A t, u \in Tasks :
    /\ task[t].symbol # "none"
    /\ task[u].symbol = task[t].symbol
    /\ task[t].alone \/ task[t].symbol \notin mixed
    => u = t

\* A side a task has is the newest, and so is the cached one it is to take.
SideIsNewest(new, old, newest) ==
  IF new # 0 THEN new = newest ELSE old # 0 => old = newest

TaskIsNewest ==
  \A t \in Tasks :
    LET s    == task[t].symbol
        tick == task[t].tick
    IN  /\ task[t].pc = "coalesce" => ~task[t].full
        /\ task[t].pc = "store" /\ (s \notin mixed \/ (task[t].full /\ task[t].alone)) =>
             tick = quoted[s]
        /\ task[t].pc = "coalesce" /\ s \notin mixed =>
             /\ SideIsNewest(tick.bid, cache[s].bid, quoted[s].bid)
             /\ SideIsNewest(tick.ask, cache[s].ask, quoted[s].ask)

CachedIsNewest ==
  \A s \in Symbols :
    cache[s] # NoTick /\ s \notin mixed /\ InFlight(s) = {} => cache[s] = quoted[s]

QuoteInv == QuotesTyped /\ StoredIsWhole /\ NoOverlap /\ TaskIsNewest /\ CachedIsNewest

\* A task ends: the others are left alone, and no symbol has more tasks.
LEMMA TaskEnds ==
  ASSUME QuotesTyped, NEW t \in Tasks, EndTask(t)
  PROVE  /\ task' \in [Tasks -> PublishTasks]
         /\ task'[t].pc = "idle" /\ task'[t].symbol = "none"
         /\ \A u \in Tasks \ {t} : task'[u] = task[u]
         /\ \A s \in Symbols, u \in Tasks \ {t} : u \in InFlight(s)' <=> u \in InFlight(s)
<1>1. NoTask \in PublishTasks /\ NoTask.pc = "idle" /\ NoTask.symbol = "none"
  BY DEF NoTask, NoTick, PublishTasks, Ticks
<1>2. /\ task' \in [Tasks -> PublishTasks]
      /\ task'[t].pc = "idle" /\ task'[t].symbol = "none"
      /\ \A u \in Tasks \ {t} : task'[u] = task[u]
  BY <1>1 DEF EndTask, QuotesTyped
<1> QED
  BY <1>2 DEF InFlight

\* A task that runs is about a symbol, and in flight for it.
LEMMA RunningTask ==
  ASSUME QuotesTyped, NEW t \in Tasks, task[t].pc # "idle"
  PROVE  task[t] \in PublishTasks /\ task[t].symbol \in Symbols /\ t \in InFlight(task[t].symbol)
BY DEF QuotesTyped, PublishTasks, InFlight

\* A task ends while nothing of the quotes is lost but what mixed says.
LEMMA EndStep ==
  ASSUME QuoteInv, NEW t \in Tasks, EndTask(t), UNCHANGED <<operations, cache, quoted>>,
         task[t].pc # "idle",
         mixed' = mixed \cup {task[t].symbol} \/ (mixed' = mixed /\ cache[task[t].symbol] = NoTick)
  PROVE  QuoteInv'
<1> USE DEF QuoteInv
<1>1. /\ task' \in [Tasks -> PublishTasks]
      /\ task'[t].pc = "idle" /\ task'[t].symbol = "none"
      /\ \A u \in Tasks \ {t} : task'[u] = task[u]
      /\ \A s \in Symbols, u \in Tasks \ {t} : u \in InFlight(s)' <=> u \in InFlight(s)
  BY TaskEnds
<1>2. mixed \subseteq mixed' /\ t \in InFlight(task[t].symbol) /\ task[t].symbol \in Symbols
  BY RunningTask
<1>3. QuotesTyped' /\ StoredIsWhole'
  BY <1>1 DEF QuotesTyped, StoredIsWhole
<1>4. NoOverlap'
  BY <1>1, <1>2 DEF NoOverlap
<1>5. TaskIsNewest'
  <2> SUFFICES ASSUME NEW u \in Tasks
               PROVE  /\ task'[u].pc = "coalesce" => ~task'[u].full
                      /\ task'[u].pc = "store"
                         /\ (task'[u].symbol \notin mixed' \/ (task'[u].full /\ task'[u].alone)) =>
                           task'[u].tick = quoted'[task'[u].symbol]
                      /\ task'[u].pc = "coalesce" /\ task'[u].symbol \notin mixed' =>
                           /\ SideIsNewest(task'[u].tick.bid, cache'[task'[u].symbol].bid,
                                           quoted'[task'[u].symbol].bid)
                           /\ SideIsNewest(task'[u].tick.ask, cache'[task'[u].symbol].ask,
                                           quoted'[task'[u].symbol].ask)
    BY DEF TaskIsNewest, SideIsNewest
  <2>1. CASE u = t
    BY <1>1, <2>1
  <2>2. CASE u # t
    BY <1>1, <1>2, <2>2 DEF TaskIsNewest
  <2> QED
    BY <2>1, <2>2
<1>6. CachedIsNewest'
  <2> SUFFICES ASSUME NEW s \in Symbols, cache'[s] # NoTick, s \notin mixed', InFlight(s)' = {}
               PROVE  cache'[s] = quoted'[s]
    BY DEF CachedIsNewest
  <2>1. s # task[t].symbol
    OBVIOUS
  <2>2. t \notin InFlight(s)
    BY <2>1 DEF InFlight
  <2>3. InFlight(s) = {}
    <3>1. InFlight(s) \subseteq Tasks
      BY DEF InFlight
    <3> QED
      BY <1>1, <2>2, <3>1
  <2> QED
    BY <1>2, <2>3 DEF CachedIsNewest
<1> QED
  BY <1>3, <1>4, <1>5, <1>6

\* The cached tick is gone after a minute without a quote.
LEMMA ExpireStep ==
  ASSUME QuoteInv, NEW s \in Symbols, TickExpires(s) PROVE QuoteInv'
<1> USE DEF QuoteInv
<1>1. /\ cache' = [cache EXCEPT ![s] = NoTick] /\ InFlight(s) = {}
      /\ UNCHANGED <<task, quoted, mixed, operations>>
  BY DEF TickExpires, bounds
<1>2. NoTick \in Ticks
  BY DEF NoTick, Ticks
<1>3. cache' \in [Symbols -> Ticks] /\ cache'[s] = NoTick
      /\ \A x \in Symbols \ {s} : cache'[x] = cache[x]
  BY <1>1, <1>2 DEF QuotesTyped
<1>4. QuotesTyped'
  BY <1>1, <1>3 DEF QuotesTyped
<1>5. \A u \in Tasks : task[u].pc # "idle" => task[u].symbol \in Symbols \ {s}
  BY <1>1, RunningTask
<1>6. StoredIsWhole' /\ NoOverlap' /\ CachedIsNewest'
  BY <1>1, <1>3 DEF StoredIsWhole, NoOverlap, CachedIsNewest, InFlight
<1>7. TaskIsNewest'
  BY <1>1, <1>3, <1>5 DEF TaskIsNewest, SideIsNewest
<1> QED
  BY <1>4, <1>6, <1>7

\* coalesce_tick fills in the missing side, or drops the quote.
LEMMA CoalesceStep ==
  ASSUME QuoteInv, NEW t \in Tasks, coalesce_tick(t) PROVE QuoteInv'
<1> USE DEF QuoteInv
<1> DEFINE tick == task[t].tick
           old  == cache[task[t].symbol]
           merged == [bid |-> Side(tick.bid, old.bid), ask |-> Side(tick.ask, old.ask)]
<1>1. PICK s \in Symbols : s = task[t].symbol /\ t \in InFlight(s)
  BY RunningTask DEF coalesce_tick
<1>2. task[t] \in PublishTasks /\ tick \in Ticks /\ old \in Ticks /\ quoted[s] \in Ticks
  BY <1>1 DEF QuotesTyped, PublishTasks
<1>3. UNCHANGED <<operations, cache, quoted, mixed>> /\ task[t].pc = "coalesce"
  BY DEF coalesce_tick, bounds
<1>4. CASE 0 \in {merged.bid, merged.ask}
  <2>1. EndTask(t)
    BY <1>4 DEF coalesce_tick
  <2>2. cache[s] = NoTick
    BY <1>1, <1>4 DEF StoredIsWhole, Whole, Side
  <2> QED
    BY <1>1, <1>3, <2>1, <2>2, EndStep
<1>5. CASE 0 \notin {merged.bid, merged.ask}
  <2>1. merged \in Ticks /\ Whole(merged)
    BY <1>2, <1>5 DEF Ticks, Side, Whole
  <2>2. s \notin mixed => merged = quoted[s]
    <3>1. s \notin mixed => /\ SideIsNewest(tick.bid, old.bid, quoted[s].bid)
                            /\ SideIsNewest(tick.ask, old.ask, quoted[s].ask)
      BY <1>1, <1>3 DEF TaskIsNewest
    <3>2. s \notin mixed => merged.bid = quoted[s].bid /\ merged.ask = quoted[s].ask
      BY <1>5, <3>1 DEF SideIsNewest, Side
    <3> HIDE DEF merged
    <3> QED
      BY <1>2, <2>1, <3>2 DEF Ticks
  <2>3. task' = [task EXCEPT ![t].pc = "store", ![t].tick = merged]
    BY <1>5 DEF coalesce_tick
  <2>4. ~task[t].full
    BY <1>3 DEF TaskIsNewest
  <2> HIDE DEF merged, old, tick
  <2>5. /\ task' \in [Tasks -> PublishTasks]
        /\ task'[t].pc = "store" /\ task'[t].symbol = s /\ task'[t].tick = merged
        /\ task'[t].full = task[t].full /\ task'[t].alone = task[t].alone
        /\ \A u \in Tasks \ {t} : task'[u] = task[u]
    BY <1>1, <1>2, <2>1, <2>3 DEF QuotesTyped, PublishTasks
  <2>6. \A u \in Tasks : task'[u].symbol = task[u].symbol /\ (task'[u].alone <=> task[u].alone)
    BY <1>1, <2>5
  <2>7. QuotesTyped'
    BY <1>1, <1>3, <2>5, FeedAssumption DEF QuotesTyped
  <2>8. StoredIsWhole'
    BY <1>3, <2>1, <2>5 DEF StoredIsWhole
  <2>9. NoOverlap'
    BY <1>3, <2>6 DEF NoOverlap
  <2>10. CachedIsNewest'
    BY <1>3, <2>6 DEF CachedIsNewest, InFlight
  <2>11. TaskIsNewest'
    <3> SUFFICES ASSUME NEW u \in Tasks
                 PROVE  /\ task'[u].pc = "coalesce" => ~task'[u].full
                        /\ task'[u].pc = "store"
                           /\ (task'[u].symbol \notin mixed' \/ (task'[u].full /\ task'[u].alone)) =>
                             task'[u].tick = quoted'[task'[u].symbol]
                        /\ task'[u].pc = "coalesce" /\ task'[u].symbol \notin mixed' =>
                             /\ SideIsNewest(task'[u].tick.bid, cache'[task'[u].symbol].bid,
                                             quoted'[task'[u].symbol].bid)
                             /\ SideIsNewest(task'[u].tick.ask, cache'[task'[u].symbol].ask,
                                             quoted'[task'[u].symbol].ask)
      BY DEF TaskIsNewest, SideIsNewest
    <3>1. CASE u = t
      BY <1>3, <2>2, <2>4, <2>5, <3>1
    <3>2. CASE u # t
      BY <1>3, <2>5, <3>2 DEF TaskIsNewest
    <3> QED
      BY <3>1, <3>2
  <2> QED
    BY <2>7, <2>8, <2>9, <2>10, <2>11
<1> QED
  BY <1>4, <1>5

\* publish_tick stores the whole tick.
LEMMA PublishStep ==
  ASSUME QuoteInv, NEW t \in Tasks, publish_tick(t) PROVE QuoteInv'
<1> USE DEF QuoteInv
<1>1. PICK s \in Symbols : s = task[t].symbol /\ t \in InFlight(s)
  BY RunningTask DEF publish_tick
<1>2. /\ task[t].pc = "store" /\ EndTask(t)
      /\ cache' = [cache EXCEPT ![s] = task[t].tick]
      /\ mixed' = IF task[t].full /\ task[t].alone THEN mixed \ {s} ELSE mixed
      /\ UNCHANGED <<quoted, operations>>
  BY <1>1 DEF publish_tick, bounds
<1>3. /\ task' \in [Tasks -> PublishTasks]
      /\ task'[t].pc = "idle" /\ task'[t].symbol = "none"
      /\ \A u \in Tasks \ {t} : task'[u] = task[u]
      /\ \A x \in Symbols, u \in Tasks \ {t} : u \in InFlight(x)' <=> u \in InFlight(x)
  BY <1>2, TaskEnds
<1>4. task[t].tick \in Ticks /\ Whole(task[t].tick)
  BY <1>2 DEF QuotesTyped, PublishTasks, StoredIsWhole
<1>5. /\ cache' \in [Symbols -> Ticks] /\ cache'[s] = task[t].tick
      /\ \A x \in Symbols \ {s} : cache'[x] = cache[x]
  BY <1>2, <1>4 DEF QuotesTyped
<1>6. s \notin mixed' => task[t].tick = quoted[s] /\ \A u \in Tasks : task[u].symbol = s => u = t
  <2>1. ASSUME s \notin mixed' PROVE s \notin mixed \/ (task[t].full /\ task[t].alone)
    BY <1>2, <2>1
  <2> QED
    BY <1>1, <1>2, <2>1, FeedAssumption DEF TaskIsNewest, NoOverlap
<1>7. \A u \in Tasks \ {t} : task[u].symbol = s => s \in mixed' /\ s \in mixed
  BY <1>2, <1>6
<1>8. \A x : x # s => (x \in mixed' <=> x \in mixed)
  BY <1>2
<1>9. QuotesTyped' /\ StoredIsWhole'
  BY <1>2, <1>3, <1>4, <1>5 DEF QuotesTyped, StoredIsWhole
<1>10. NoOverlap'
  <2> SUFFICES ASSUME NEW u \in Tasks, NEW v \in Tasks, task'[u].symbol # "none",
                      task'[v].symbol = task'[u].symbol,
                      task'[u].alone \/ task'[u].symbol \notin mixed'
               PROVE  v = u
    BY DEF NoOverlap
  <2>1. u # t /\ v # t
    BY <1>3
  <2>2. task[u].alone \/ task[u].symbol \notin mixed
    BY <1>3, <1>7, <1>8, <2>1
  <2> QED
    BY <1>3, <2>1, <2>2 DEF NoOverlap
<1>11. TaskIsNewest'
  <2> SUFFICES ASSUME NEW u \in Tasks
               PROVE  /\ task'[u].pc = "coalesce" => ~task'[u].full
                      /\ task'[u].pc = "store"
                         /\ (task'[u].symbol \notin mixed' \/ (task'[u].full /\ task'[u].alone)) =>
                           task'[u].tick = quoted'[task'[u].symbol]
                      /\ task'[u].pc = "coalesce" /\ task'[u].symbol \notin mixed' =>
                           /\ SideIsNewest(task'[u].tick.bid, cache'[task'[u].symbol].bid,
                                           quoted'[task'[u].symbol].bid)
                           /\ SideIsNewest(task'[u].tick.ask, cache'[task'[u].symbol].ask,
                                           quoted'[task'[u].symbol].ask)
    BY DEF TaskIsNewest, SideIsNewest
  <2>1. CASE u = t
    BY <1>3, <2>1
  <2>2. CASE u # t /\ task[u].pc # "idle"
    <3>1. task'[u] = task[u] /\ task[u].symbol \in Symbols
      BY <1>3, <2>2, RunningTask
    <3>2. task[u].symbol \notin mixed' => /\ task[u].symbol \notin mixed
                                          /\ cache'[task[u].symbol] = cache[task[u].symbol]
      BY <1>5, <1>7, <1>8, <2>2, <3>1
    <3> QED
      BY <1>2, <3>1, <3>2 DEF TaskIsNewest
  <2>3. CASE u # t /\ task[u].pc = "idle"
    BY <1>3, <2>3
  <2> QED
    BY <2>1, <2>2, <2>3
<1>12. CachedIsNewest'
  <2> SUFFICES ASSUME NEW x \in Symbols, cache'[x] # NoTick, x \notin mixed', InFlight(x)' = {}
               PROVE  cache'[x] = quoted'[x]
    BY DEF CachedIsNewest
  <2>1. CASE x = s
    BY <1>2, <1>5, <1>6, <2>1
  <2>2. CASE x # s
    <3>1. InFlight(x) \subseteq Tasks /\ t \notin InFlight(x)
      BY <1>1, <2>2 DEF InFlight
    <3>2. InFlight(x) = {}
      BY <1>3, <3>1
    <3> QED
      BY <1>2, <1>5, <1>8, <2>2, <3>2 DEF CachedIsNewest
  <2> QED
    BY <2>1, <2>2
<1> QED
  BY <1>9, <1>10, <1>11, <1>12

\* A quote starts a task; the tasks it finds in flight are no longer alone.
LEMMA QuoteArrives ==
  ASSUME QuotesTyped, NEW s \in Symbols, handle_spot_event(s)
  PROVE  \E t \in Tasks, bid, ask \in Nat :
           /\ bid # 0 \/ ask # 0
           /\ task[t].pc = "idle"
           /\ task' \in [Tasks -> PublishTasks]
           /\ task'[t].symbol = s /\ task'[t].tick = [bid |-> bid, ask |-> ask]
           /\ task'[t].pc = IF bid = 0 \/ ask = 0 THEN "coalesce" ELSE "store"
           /\ task'[t].full <=> bid # 0 /\ ask # 0
           /\ task'[t].alone => InFlight(s) = {}
           /\ \A u \in Tasks \ {t} :
                /\ task'[u].pc = task[u].pc /\ task'[u].symbol = task[u].symbol
                /\ task'[u].tick = task[u].tick /\ (task'[u].full <=> task[u].full)
                /\ task'[u].alone => task[u].alone /\ task[u].symbol # s
           /\ quoted' \in [Symbols -> Ticks]
           /\ quoted'[s] = [bid |-> IF bid = 0 THEN quoted[s].bid ELSE bid,
                            ask |-> IF ask = 0 THEN quoted[s].ask ELSE ask]
           /\ \A x \in Symbols \ {s} : quoted'[x] = quoted[x]
<1>1. operations \in Nat /\ operations + 1 \in Nat /\ 0 \in Nat /\ operations' \in Nat
  BY DEF handle_spot_event, Operation, QuotesTyped
<1>2. PICK t \in Tasks, bid, ask \in {0, operations + 1} :
        /\ task[t] = NoTask
        /\ {bid, ask} # {0}
        /\ task' = [u \in Tasks |->
               IF u = t
               THEN [pc |-> IF 0 \in {bid, ask} THEN "coalesce" ELSE "store", symbol |-> s,
                     tick |-> [bid |-> bid, ask |-> ask],
                     full |-> 0 \notin {bid, ask}, alone |-> InFlight(s) = {}]
               ELSE [task[u] EXCEPT !.alone = @ /\ u \notin InFlight(s)]]
        /\ quoted' = [quoted EXCEPT ![s] =
               [bid |-> IF bid = 0 THEN @.bid ELSE bid, ask |-> IF ask = 0 THEN @.ask ELSE ask]]
  BY DEF handle_spot_event
<1>3. bid \in Nat /\ ask \in Nat /\ (bid # 0 \/ ask # 0)
  BY <1>1, <1>2
<1> DEFINE m == [pc |-> IF 0 \in {bid, ask} THEN "coalesce" ELSE "store", symbol |-> s,
                 tick |-> [bid |-> bid, ask |-> ask],
                 full |-> 0 \notin {bid, ask}, alone |-> InFlight(s) = {}]
           r(u) == [task[u] EXCEPT !.alone = @ /\ u \notin InFlight(s)]
           q == [bid |-> IF bid = 0 THEN quoted[s].bid ELSE bid,
                 ask |-> IF ask = 0 THEN quoted[s].ask ELSE ask]
<1>4. /\ m \in PublishTasks
      /\ m.symbol = s /\ m.tick = [bid |-> bid, ask |-> ask]
      /\ m.pc = IF bid = 0 \/ ask = 0 THEN "coalesce" ELSE "store"
      /\ m.full <=> bid # 0 /\ ask # 0
      /\ m.alone => InFlight(s) = {}
  BY <1>3 DEF PublishTasks, Ticks
<1>5. ASSUME NEW u \in Tasks
      PROVE  /\ r(u) \in PublishTasks
             /\ r(u).pc = task[u].pc /\ r(u).symbol = task[u].symbol
             /\ r(u).tick = task[u].tick /\ (r(u).full <=> task[u].full)
             /\ r(u).alone => task[u].alone /\ task[u].symbol # s
  <2> DEFINE b == task[u].alone /\ u \notin InFlight(s)
  <2>1. task[u] \in PublishTasks /\ b \in BOOLEAN /\ (b => task[u].alone /\ task[u].symbol # s)
    BY DEF QuotesTyped, PublishTasks, InFlight
  <2>2. r(u) = [task[u] EXCEPT !.alone = b]
    OBVIOUS
  <2> HIDE DEF b, r
  <2>3. r(u) \in PublishTasks /\ r(u).alone = b
    BY <2>1, <2>2 DEF PublishTasks
  <2> QED
    BY <2>1, <2>2, <2>3 DEF PublishTasks
<1>6. q \in Ticks
  BY <1>3 DEF QuotesTyped, Ticks
<1>7. task' = [u \in Tasks |-> IF u = t THEN m ELSE r(u)] /\ quoted' = [quoted EXCEPT ![s] = q]
  BY <1>2
<1>8. task[t].pc = "idle"
  BY <1>2 DEF NoTask
<1> HIDE DEF m, r
<1>9. /\ task' \in [Tasks -> PublishTasks] /\ task'[t] = m
      /\ \A u \in Tasks \ {t} : task'[u] = r(u)
  BY <1>4, <1>5, <1>7
<1>10. /\ quoted' \in [Symbols -> Ticks] /\ quoted'[s] = q
       /\ \A x \in Symbols \ {s} : quoted'[x] = quoted[x]
  BY <1>6, <1>7 DEF QuotesTyped
<1>11. \A u \in Tasks \ {t} :
         /\ task'[u].pc = task[u].pc /\ task'[u].symbol = task[u].symbol
         /\ task'[u].tick = task[u].tick /\ (task'[u].full <=> task[u].full)
         /\ task'[u].alone => task[u].alone /\ task[u].symbol # s
  BY <1>5, <1>9
<1>12. /\ task'[t].symbol = s /\ task'[t].tick = [bid |-> bid, ask |-> ask]
       /\ task'[t].pc = IF bid = 0 \/ ask = 0 THEN "coalesce" ELSE "store"
       /\ task'[t].full <=> bid # 0 /\ ask # 0
       /\ task'[t].alone => InFlight(s) = {}
  BY <1>4, <1>9
<1> USE <1>3
<1> WITNESS t \in Tasks, bid \in Nat, ask \in Nat
<1> QED
  BY <1>3, <1>8, <1>9, <1>10, <1>11, <1>12

LEMMA QuoteStep ==
  ASSUME QuoteInv, NEW s \in Symbols, handle_spot_event(s) PROVE QuoteInv'
<1> USE DEF QuoteInv
<1>1. PICK t \in Tasks, bid, ask \in Nat :
        /\ bid # 0 \/ ask # 0
        /\ task[t].pc = "idle"
        /\ task' \in [Tasks -> PublishTasks]
        /\ task'[t].symbol = s /\ task'[t].tick = [bid |-> bid, ask |-> ask]
        /\ task'[t].pc = IF bid = 0 \/ ask = 0 THEN "coalesce" ELSE "store"
        /\ task'[t].full <=> bid # 0 /\ ask # 0
        /\ task'[t].alone => InFlight(s) = {}
        /\ \A u \in Tasks \ {t} :
             /\ task'[u].pc = task[u].pc /\ task'[u].symbol = task[u].symbol
             /\ task'[u].tick = task[u].tick /\ (task'[u].full <=> task[u].full)
             /\ task'[u].alone => task[u].alone /\ task[u].symbol # s
        /\ quoted' \in [Symbols -> Ticks]
        /\ quoted'[s] = [bid |-> IF bid = 0 THEN quoted[s].bid ELSE bid,
                         ask |-> IF ask = 0 THEN quoted[s].ask ELSE ask]
        /\ \A x \in Symbols \ {s} : quoted'[x] = quoted[x]
  BY QuoteArrives
<1>2. /\ cache' = cache /\ operations' \in Nat
      /\ mixed' = IF InFlight(s) = {} THEN mixed ELSE mixed \cup {s}
  BY DEF handle_spot_event, Operation, QuotesTyped
<1>3. \A u \in Tasks : u \in InFlight(s) <=> task[u].symbol = s
  BY DEF InFlight
<1>4. s \notin mixed' => InFlight(s) = {} /\ s \notin mixed
  BY <1>2
<1>5. \A x : x # s => (x \in mixed' <=> x \in mixed)
  BY <1>2
<1>6. t \notin InFlight(s)
  BY <1>1, FeedAssumption DEF QuotesTyped, InFlight
<1>7. QuotesTyped'
  BY <1>1, <1>2, FeedAssumption DEF QuotesTyped
<1>8. StoredIsWhole'
  BY <1>1, <1>2 DEF StoredIsWhole, Whole
<1>9. NoOverlap'
  <2> SUFFICES ASSUME NEW u \in Tasks, NEW v \in Tasks, task'[u].symbol # "none",
                      task'[v].symbol = task'[u].symbol,
                      task'[u].alone \/ task'[u].symbol \notin mixed'
               PROVE  v = u
    BY DEF NoOverlap
  <2>1. CASE task'[u].symbol = s
    <3>1. InFlight(s) = {}
      BY <1>1, <1>4, <2>1
    <3> QED
      BY <1>1, <1>3, <2>1, <3>1
  <2>2. CASE task'[u].symbol # s
    <3>1. u # t /\ v # t
      BY <1>1, <2>2
    <3>2. task[u].alone \/ task[u].symbol \notin mixed
      BY <1>1, <1>5, <2>2, <3>1
    <3> QED
      BY <1>1, <3>1, <3>2 DEF NoOverlap
  <2> QED
    BY <2>1, <2>2
<1>10. TaskIsNewest'
  <2> SUFFICES ASSUME NEW u \in Tasks
               PROVE  /\ task'[u].pc = "coalesce" => ~task'[u].full
                      /\ task'[u].pc = "store"
                         /\ (task'[u].symbol \notin mixed' \/ (task'[u].full /\ task'[u].alone)) =>
                           task'[u].tick = quoted'[task'[u].symbol]
                      /\ task'[u].pc = "coalesce" /\ task'[u].symbol \notin mixed' =>
                           /\ SideIsNewest(task'[u].tick.bid, cache'[task'[u].symbol].bid,
                                           quoted'[task'[u].symbol].bid)
                           /\ SideIsNewest(task'[u].tick.ask, cache'[task'[u].symbol].ask,
                                           quoted'[task'[u].symbol].ask)
    BY DEF TaskIsNewest, SideIsNewest
  <2>1. CASE u = t
    <3>1. CASE bid # 0 /\ ask # 0
      BY <1>1, <2>1, <3>1
    <3>2. CASE bid = 0 \/ ask = 0
      <4>1. task'[t].pc = "coalesce" /\ ~task'[t].full /\ task'[t].symbol = s
        BY <1>1, <3>2
      <4>2. s \notin mixed' /\ cache[s] # NoTick => cache[s] = quoted[s]
        BY <1>4 DEF CachedIsNewest
      <4>3. s \notin mixed' => /\ SideIsNewest(bid, cache[s].bid, quoted'[s].bid)
                               /\ SideIsNewest(ask, cache[s].ask, quoted'[s].ask)
        BY <1>1, <4>2 DEF SideIsNewest, NoTick
      <4> QED
        BY <1>1, <1>2, <2>1, <4>1, <4>3
    <3> QED
      BY <3>1, <3>2
  <2>2. CASE u # t /\ task[u].symbol = s
    <3>1. s \in mixed' /\ ~task'[u].alone
      BY <1>1, <1>3, <1>4, <2>2
    <3> QED
      BY <1>1, <2>2, <3>1 DEF TaskIsNewest
  <2>3. CASE u # t /\ task[u].symbol # s
    <3>1. task[u].pc # "idle" => task[u].symbol \in Symbols \ {s}
      BY <2>3, RunningTask
    <3> QED
      BY <1>1, <1>2, <1>5, <2>3, <3>1 DEF TaskIsNewest
  <2> QED
    BY <2>1, <2>2, <2>3
<1>11. CachedIsNewest'
  <2> SUFFICES ASSUME NEW x \in Symbols, cache'[x] # NoTick, x \notin mixed', InFlight(x)' = {}
               PROVE  cache'[x] = quoted'[x]
    BY DEF CachedIsNewest
  <2>1. x # s
    BY <1>1 DEF InFlight
  <2>2. InFlight(x) = {}
    <3>1. \A u \in Tasks : task[u].symbol = x => task'[u].symbol = x
      BY <1>1, FeedAssumption DEF QuotesTyped
    <3> QED
      BY <3>1 DEF InFlight
  <2> QED
    BY <1>1, <1>2, <1>5, <2>1, <2>2 DEF CachedIsNewest
<1> QED
  BY <1>7, <1>8, <1>9, <1>10, <1>11

LEMMA OtherQuotes ==
  ASSUME QuoteInv, UNCHANGED quotes, operations' \in Nat PROVE QuoteInv'
BY DEF quotes, QuoteInv, QuotesTyped, StoredIsWhole, NoOverlap, TaskIsNewest, CachedIsNewest,
       InFlight

LEMMA FeedQuotes ==
  ASSUME QuoteInv, FeedNext PROVE QuoteInv'
<1>1. ASSUME NEW t \in Tasks, CacheFails(t) PROVE QuoteInv'
  <2>1. EndTask(t) /\ UNCHANGED <<operations, cache, quoted>> /\ task[t].pc # "idle"
        /\ mixed' = mixed \cup {task[t].symbol}
    BY <1>1 DEF CacheFails, Fault
  <2> QED
    BY <2>1, EndStep
<1>2. CASE (\E w \in Viewers : Watching(w)) \/ on_disconnected \/ authenticate
  <2>1. operations \in Nat
    BY DEF QuoteInv, QuotesTyped
  <2>2. UNCHANGED quotes /\ (operations' = operations \/ operations' = operations + 1)
    BY <1>2 DEF Watching, on_disconnected, authenticate, connect, disconnect, set_symbol,
                unsubscribe_spots, unsubscribe_live_trendbar, LeaveFails, subscribe_spots,
                subscribe_live_trendbar, TakeFails, Refused, join, quotes, bounds, Operation, Fault
  <2> QED
    BY <2>1, <2>2, OtherQuotes
<1> QED
  BY <1>1, <1>2, QuoteStep, ExpireStep, CoalesceStep, PublishStep DEF FeedNext

LEMMA QuoteInvAlways == Spec => []QuoteInv
<1>1. ASSUME Init PROVE QuoteInv
  <2>1. /\ NoTask \in PublishTasks /\ NoTask.pc = "idle" /\ NoTask.symbol = "none"
        /\ NoTick \in Ticks
    BY DEF NoTask, NoTick, PublishTasks, Ticks
  <2> QED
    BY <1>1, <2>1 DEF Init, FeedInit, BoundsInit, QuoteInv, QuotesTyped, StoredIsWhole,
                      NoOverlap, TaskIsNewest, CachedIsNewest
<1>2. ASSUME QuoteInv, AlertNext, UNCHANGED feedVars PROVE QuoteInv'
  <2>1. operations \in Nat
    BY <1>2 DEF QuoteInv, QuotesTyped
  <2>2. operations' = operations \/ operations' = operations + 1
    BY <1>2 DEF AlertNext, Emit, Claim, Suppress, ClaimFails, Store, StoreFails, CooldownEnds,
                Operation, Fault, bounds
  <2> QED
    BY <1>2, <2>1, <2>2, OtherQuotes DEF feedVars, quotes
<1>3. ASSUME QuoteInv, UNCHANGED vars PROVE QuoteInv'
  <2>1. UNCHANGED quotes /\ operations' \in Nat
    BY <1>3 DEF vars, feedVars, quotes, bounds, QuoteInv, QuotesTyped
  <2> QED
    BY <1>3, <2>1, OtherQuotes
<1>4. QuoteInv /\ [Next]_vars => QuoteInv'
  BY <1>2, <1>3, FeedQuotes DEF Next
<1> QED
  BY <1>1, <1>4, PTL DEF Spec

\* The cached tick has both sides, and the newest prices when no quote of the
\* symbol is being merged: unless quotes overlapped in coalesce_tick or Redis
\* lost one, and no full quote has been published on its own since.
THEOREM QuietCacheNewest == Spec => []QuietCacheIsNewest
<1>1. ASSUME QuoteInv PROVE QuietCacheIsNewest
  BY <1>1 DEF QuoteInv, StoredIsWhole, Whole, CachedIsNewest, QuietCacheIsNewest
<1> QED
  BY <1>1, QuoteInvAlways, PTL
=============================================================================
