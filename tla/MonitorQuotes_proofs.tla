------------------------ MODULE MonitorQuotes_proofs ------------------------
(* Safety of two services that keep their data in Redis: of the heartbeat  *)
(* and the metrics loop (Monitor), for any set of workers and rates, any   *)
(* thresholds and any intervals; and of the market data (Quotes), for any  *)
(* requests, symbols, chains and limits.                                   *)
EXTENDS Monitor, Quotes, FiniteSetTheorems, TLAPS

-----------------------------------------------------------------------------
(* The heartbeat.                                                          *)

BeatTyped ==
  /\ beat \in Nat /\ redis \in BOOLEAN
  /\ worker \in [Workers -> [at : {"off", "run", "stopping", "clear"}, due : BOOLEAN]]

(* A worker that has written, and has lost nothing since, finds its key:   *)
(* whole before its next write falls due, one interval younger after.      *)
Kept ==
  \A w \in Workers : Looping(w) /\ w \notin wiped =>
    /\ beat >= Ttl - 1
    /\ ~worker[w].due => beat >= Ttl

BeatInv == BeatTyped /\ Kept

BeatStep ==
  \/ \E w \in Workers :
       \/ Start(w) \/ Write(w)
       \/ Signal(w) \/ CancelBeat(w) \/ ClearBeat(w) \/ Crash(w)
  \/ Tick \/ RedisTurns

(* The steps of the metrics leave the heartbeat alone.                     *)
LEMMA MetricsLeaveBeats ==
  ASSUME [Next]_vars, ~BeatStep
  PROVE  UNCHANGED beats
<1>1. CASE \E now \in Samples, arrives \in BOOLEAN : Collect(now, arrives)
  BY <1>1 DEF Collect
<1>2. CASE \E kept \in BOOLEAN : Archive(kept)
  BY <1>2 DEF Archive
<1>3. CASE \E now \in Samples : OpenPage(now)
  BY <1>3 DEF OpenPage
<1>4. CASE UNCHANGED vars
  BY <1>4 DEF vars
<1> QED
  BY <1>1, <1>2, <1>3, <1>4 DEF Next, BeatStep

LEMMA BeatInit == Init => BeatInv
<1> SUFFICES ASSUME Init PROVE BeatInv
  OBVIOUS
<1>1. BeatTyped
  BY DEF Init, BeatTyped, Off
<1>2. Kept
  BY DEF Init, Kept, Looping, Off
<1> QED
  BY <1>1, <1>2 DEF BeatInv

LEMMA BeatInductive == BeatInv /\ [Next]_vars => BeatInv'
<1> SUFFICES ASSUME BeatInv, [Next]_vars PROVE BeatInv'
  OBVIOUS
<1> USE DEF BeatInv, BeatTyped
<1>0. Ttl \in Nat /\ Ttl # 0
  BY MonitorAssumption
<1>1. ASSUME NEW w \in Workers, Start(w) PROVE BeatInv'
  BY <1>1 DEF Start, Kept, Looping, Off
<1>2. ASSUME NEW w \in Workers, Write(w) PROVE BeatInv'
  <2>1. BeatTyped'
    BY <1>0, <1>2 DEF Write
  <2>2. ASSUME NEW v \in Workers, Looping(v)', v \notin wiped'
        PROVE  beat' >= Ttl - 1 /\ (~worker'[v].due => beat' >= Ttl)
    <3>1. Looping(v)
      BY <1>2, <2>2 DEF Write, Looping
    <3>2. CASE redis
      BY <1>0, <1>2, <3>2 DEF Write
    <3>3. CASE ~redis
      BY <1>2, <2>2, <3>1, <3>3 DEF Write, Kept
    <3> QED
      BY <3>2, <3>3
  <2> QED
    BY <2>1, <2>2 DEF Kept
<1>3. ASSUME NEW w \in Workers, Signal(w) PROVE BeatInv'
  BY <1>3 DEF Signal, Kept, Looping
<1>4. ASSUME NEW w \in Workers, CancelBeat(w) PROVE BeatInv'
  BY <1>4 DEF CancelBeat, Kept, Looping, Off
<1>5. ASSUME NEW w \in Workers, ClearBeat(w) PROVE BeatInv'
  BY <1>5 DEF ClearBeat, Kept, Looping, Off
<1>6. ASSUME NEW w \in Workers, Crash(w) PROVE BeatInv'
  BY <1>6 DEF Crash, Kept, Looping, Off
<1>7. CASE Tick
  <2>1. BeatTyped'
    <3>1. ASSUME NEW w \in Workers
          PROVE  [worker[w] EXCEPT !.due = TRUE]
                   \in [at : {"off", "run", "stopping", "clear"}, due : BOOLEAN]
      OBVIOUS
    <3>2. beat' \in Nat
      <4>1. beat' = IF beat = 0 THEN 0 ELSE beat - 1
        BY <1>7, Zenon DEF Tick
      <4> QED
        BY <4>1
    <3> QED
      BY <1>7, <3>1, <3>2 DEF Tick
  <2>2. ASSUME NEW v \in Workers, Looping(v)', v \notin wiped'
        PROVE  beat' >= Ttl - 1 /\ worker'[v].due
    BY <1>0, <1>7, <2>2 DEF Tick, Looping, Kept
  <2> QED
    BY <2>1, <2>2 DEF Kept
<1>8. CASE RedisTurns
  BY <1>8 DEF RedisTurns, Kept, Looping
<1>9. CASE ~BeatStep
  BY <1>9, MetricsLeaveBeats DEF beats, Kept, Looping
<1> QED
  BY <1>1, <1>2, <1>3, <1>4, <1>5, <1>6, <1>7, <1>8, <1>9 DEF BeatStep

(* A missing heartbeat beside a worker that runs and has written has one   *)
(* of two causes, a failed write or another worker's shutdown, whenever    *)
(* the time to live is longer than one interval (worker.py:44-46).         *)
THEOREM PhantomsNamed ==
  ASSUME Ttl > 1
  PROVE  FairSpec => []PhantomNamed
<1>1. BeatInv => PhantomNamed
  BY MonitorAssumption DEF BeatInv, BeatTyped, Kept, PhantomNamed, Shown, Fresh
<1> QED
  BY <1>1, BeatInit, BeatInductive, PTL DEF FairSpec

-----------------------------------------------------------------------------
(* The archive: a round begins with a snapshot overdue only when one has   *)
(* just failed.                                                            *)

ArchiveInv ==
  /\ since \in 0..ArchiveEvery /\ gap \in Nat /\ misses \in Nat
  /\ round \in {"sleep", "archive"}
  /\ round = "sleep" /\ since < ArchiveEvery => gap <= since
  /\ round = "sleep" /\ since = ArchiveEvery => gap < ArchiveEvery + misses
  /\ round = "archive" => since = ArchiveEvery /\ gap <= ArchiveEvery + misses

LEMMA ArchiveInductive == ArchiveInv /\ [Next]_vars => ArchiveInv'
<1> SUFFICES ASSUME ArchiveInv, [Next]_vars PROVE ArchiveInv'
  OBVIOUS
<1> USE MonitorAssumption DEF ArchiveInv
<1>1. ASSUME NEW now \in Samples, NEW arrives \in BOOLEAN, Collect(now, arrives)
      PROVE  ArchiveInv'
  BY <1>1 DEF Collect
<1>2. ASSUME NEW kept \in BOOLEAN, Archive(kept) PROVE ArchiveInv'
  BY <1>2 DEF Archive
<1>3. ASSUME UNCHANGED <<round, since, gap, misses>> PROVE ArchiveInv'
  BY <1>3
<1>4. CASE BeatStep
  BY <1>3, <1>4 DEF BeatStep, Start, Write, Signal, CancelBeat, ClearBeat, Crash, Tick,
                    RedisTurns, metrics
<1>5. ASSUME NEW now \in Samples, OpenPage(now) PROVE ArchiveInv'
  BY <1>3, <1>5 DEF OpenPage
<1>6. CASE UNCHANGED vars
  BY <1>3, <1>6 DEF vars, metrics
<1> QED
  BY <1>1, <1>2, <1>4, <1>5, <1>6 DEF Next, BeatStep

(* Each failed archive delays the next snapshot by one round.              *)
THEOREM SnapshotsBounded == FairSpec => []SnapshotGap
<1>1. Init => ArchiveInv
  BY MonitorAssumption DEF Init, ArchiveInv
<1>2. ArchiveInv => SnapshotGap
  BY MonitorAssumption DEF ArchiveInv, SnapshotGap
<1> QED
  BY <1>1, <1>2, ArchiveInductive, PTL DEF FairSpec

-----------------------------------------------------------------------------
(* The view.                                                               *)

ViewTyped ==
  /\ view \in Samples /\ last \in Samples \cup {NoSample}
  /\ quiet \in [cpu : {None} \cup 0..MaxLevel, rate : {None, 0}]

ViewInv == ViewTyped /\ ViewFollows

LEMMA DiffRange ==
  ASSUME NEW a \in Levels, NEW b \in Levels
  PROVE  Diff(a, b) \in 0..MaxLevel /\ Diff(a, a) = 0
  BY MonitorAssumption DEF Diff, Levels

LEMMA DiffTriangle ==
  ASSUME NEW a \in Levels, NEW b \in Levels, NEW c \in Levels
  PROVE  Diff(a, c) <= Diff(a, b) + Diff(b, c) /\ Diff(b, c) = Diff(c, b)
  BY MonitorAssumption DEF Diff, Levels

(* One more silent round leaves room for one more step below the           *)
(* threshold, also where the count of the rounds stops.                    *)
LEMMA RoomForOne ==
  ASSUME NEW q \in 0..MaxLevel - 1
  PROVE  (Step - 1) * (q + 1) = (Step - 1) * q + (Step - 1)
  BY MonitorAssumption

LEMMA RoomAtCap ==
  ASSUME Step > 1
  PROVE  MaxLevel <= (Step - 1) * MaxLevel
<1>1. \A a \in Nat, b \in Nat : b <= (a + 1) * b
  OBVIOUS
<1>2. Step - 2 \in Nat /\ MaxLevel \in Nat /\ (Step - 2) + 1 = Step - 1
  BY MonitorAssumption
<1> QED
  BY <1>1, <1>2

LEMMA CpuFollows ==
  ASSUME ViewInv, NEW now \in Samples, last # NoSample, quiet.cpu # None,
         Diff(now.cpu, last.cpu) < Step
  PROVE  LET q == IF quiet.cpu \in 0..MaxLevel - 1 THEN quiet.cpu + 1 ELSE quiet.cpu
         IN  Diff(view.cpu, now.cpu) <= (Step - 1) * q
<1> DEFINE v == view.cpu  l == last.cpu  n == now.cpu  q == quiet.cpu
<1>1. v \in Levels /\ l \in Levels /\ n \in Levels /\ q \in 0..MaxLevel
  BY DEF ViewInv, ViewTyped, Samples
<1>2. Diff(v, n) <= Diff(v, l) + Diff(n, l) /\ Diff(v, l) <= (Step - 1) * q
  BY <1>1, DiffTriangle DEF ViewInv, ViewFollows
<1>3. Step \in Nat /\ MaxLevel \in Nat /\ Step > 0
  BY MonitorAssumption
<1>4. Diff(v, n) \in Nat /\ Diff(v, l) \in Nat /\ Diff(n, l) \in Nat
      /\ Diff(v, n) <= MaxLevel /\ Diff(n, l) <= Step - 1
  BY <1>1, <1>3, DiffRange
<1>5. CASE q \in 0..MaxLevel - 1
  <2>1. (Step - 1) * (q + 1) = (Step - 1) * q + (Step - 1)
    BY <1>5, RoomForOne
  <2>2. (Step - 1) * q \in Nat
    BY <1>1, <1>3
  <2> HIDE DEF v, l, n, q
  <2>3. Diff(v, n) <= (Step - 1) * (q + 1)
    BY <1>2, <1>3, <1>4, <2>1, <2>2
  <2> QED
    BY <1>5, <2>3 DEF v, n, q
<1>6. CASE q \notin 0..MaxLevel - 1
  <2>1. q = MaxLevel
    BY <1>1, <1>3, <1>6
  <2>2. CASE Step > 1
    BY <1>3, <1>4, <1>6, <2>1, <2>2, RoomAtCap
  <2>3. CASE Step = 1
    <3>1. (Step - 1) * q = 0
      BY <1>3, <2>1, <2>3
    <3>2. Diff(v, n) <= 0
      BY <1>2, <1>4, <2>3, <3>1
    <3> QED
      BY <1>6, <3>1, <3>2
  <2> QED
    BY <1>3, <2>2, <2>3
<1> QED
  BY <1>5, <1>6

LEMMA ViewInductive == ViewInv /\ [Next]_vars => ViewInv'
<1> SUFFICES ASSUME ViewInv, [Next]_vars PROVE ViewInv'
  OBVIOUS
<1>1. ASSUME NEW now \in Samples, NEW arrives \in BOOLEAN, Collect(now, arrives)
      PROVE  ViewInv'
  <2> DEFINE told == IF arrives THEN Changed(now) ELSE {}
             lost == Changed(now) \ told
  <2>1. /\ view' = [f \in DOMAIN view |-> IF f \in told THEN now[f] ELSE view[f]]
        /\ quiet' = [f \in DOMAIN quiet |-> IF f \in lost THEN None ELSE Quieter(f, told)]
        /\ last' = now
    BY <1>1 DEF Collect
  <2>2. Changed(now) \subseteq {"cpu", "rate"} /\ told \subseteq Changed(now)
    BY DEF Changed
  <2>3. /\ view' = [cpu |-> IF "cpu" \in told THEN now.cpu ELSE view.cpu,
                    rate |-> IF "rate" \in told THEN now.rate ELSE view.rate]
        /\ quiet' = [cpu |-> IF "cpu" \in lost THEN None ELSE Quieter("cpu", told),
                     rate |-> IF "rate" \in lost THEN None ELSE Quieter("rate", told)]
    BY <2>1 DEF ViewInv, ViewTyped, Samples
  <2> HIDE DEF told, lost
  <2>4. /\ Quieter("rate", told) = IF "rate" \in told THEN 0 ELSE quiet.rate
        /\ Quieter("cpu", told) =
             IF "cpu" \in told THEN 0
             ELSE IF quiet.cpu \in 0..MaxLevel - 1 THEN quiet.cpu + 1 ELSE quiet.cpu
    BY DEF Quieter, ViewInv, ViewTyped
  <2>5. now.cpu \in Levels /\ now.rate \in Rates
    BY DEF Samples
  <2>6. ViewTyped'
    <3>1. quiet.cpu \in {None} \cup 0..MaxLevel /\ quiet.rate \in {None, 0}
      BY DEF ViewInv, ViewTyped
    <3>2. MaxLevel \in Nat
      BY MonitorAssumption
    <3>3. Quieter("cpu", told) \in {None} \cup 0..MaxLevel /\ Quieter("rate", told) \in {None, 0}
      BY <2>4, <3>1, <3>2
    <3>4. view' \in Samples
      BY <2>3, <2>5 DEF Samples, ViewInv, ViewTyped
    <3> QED
      BY <2>1, <2>3, <3>3, <3>4 DEF ViewTyped
  <2>7. ASSUME quiet'.rate # None PROVE view'.rate = last'.rate
    <3>1. "rate" \notin lost
      BY <2>3, <2>7
    <3>2. CASE "rate" \in told
      BY <2>1, <2>3, <3>2
    <3>3. CASE "rate" \notin told
      <4>1. "rate" \notin Changed(now)
        BY <3>1, <3>3 DEF lost
      <4>2. now.rate = last.rate
        BY <4>1 DEF Changed
      <4>3. quiet.rate # None
        BY <2>3, <2>4, <2>7, <3>1, <3>3
      <4> QED
        BY <2>1, <2>3, <3>3, <4>2, <4>3 DEF ViewInv, ViewFollows
    <3> QED
      BY <3>2, <3>3
  <2>8. ASSUME quiet'.cpu # None
        PROVE  Diff(view'.cpu, last'.cpu) <= (Step - 1) * quiet'.cpu
    <3>1. "cpu" \notin lost
      BY <2>3, <2>8
    <3>2. CASE "cpu" \in told
      <4>1. view'.cpu = now.cpu /\ last'.cpu = now.cpu /\ quiet'.cpu = 0
        BY <2>1, <2>3, <2>4, <3>1, <3>2
      <4>2. Diff(now.cpu, now.cpu) = 0 /\ (Step - 1) * 0 = 0
        BY <2>5, DiffRange, MonitorAssumption
      <4> QED
        BY <4>1, <4>2
    <3>3. CASE "cpu" \notin told
      <4>1. "cpu" \notin Changed(now)
        BY <3>1, <3>3 DEF lost
      <4>2. last # NoSample /\ ~(Diff(now.cpu, last.cpu) >= Step)
        BY <4>1 DEF Changed
      <4>3. last.cpu \in Levels
        BY <4>2 DEF ViewInv, ViewTyped, Samples
      <4>4. Diff(now.cpu, last.cpu) < Step
        BY <2>5, <4>2, <4>3, DiffRange, MonitorAssumption
      <4>5. /\ quiet.cpu # None
            /\ quiet'.cpu = IF quiet.cpu \in 0..MaxLevel - 1 THEN quiet.cpu + 1 ELSE quiet.cpu
        <5>1. quiet'.cpu = Quieter("cpu", told)
          BY <2>3, <3>1
        <5>2. Quieter("cpu", told) =
                IF quiet.cpu \in 0..MaxLevel - 1 THEN quiet.cpu + 1 ELSE quiet.cpu
          BY <2>4, <3>3, Zenon
        <5>3. quiet.cpu # None
          <6>1. CASE quiet.cpu \in 0..MaxLevel - 1
            BY <6>1, MonitorAssumption DEF None
          <6>2. CASE quiet.cpu \notin 0..MaxLevel - 1
            BY <2>8, <5>1, <5>2, <6>2
          <6> QED
            BY <6>1, <6>2
        <5> QED
          BY <5>1, <5>2, <5>3
      <4>6. view'.cpu = view.cpu /\ last'.cpu = now.cpu
        BY <2>1, <2>3, <3>3
      <4> QED
        BY <4>2, <4>4, <4>5, <4>6, CpuFollows
    <3> QED
      BY <3>2, <3>3
  <2> QED
    BY <2>6, <2>7, <2>8 DEF ViewInv, ViewFollows
<1>2. ASSUME NEW now \in Samples, OpenPage(now) PROVE ViewInv'
  BY <1>2 DEF OpenPage, NoSample, None, ViewInv, ViewTyped, ViewFollows
<1>3. ASSUME UNCHANGED <<view, last, quiet>> PROVE ViewInv'
  BY <1>3 DEF ViewInv, ViewTyped, ViewFollows
<1>4. ASSUME NEW kept \in BOOLEAN, Archive(kept) PROVE ViewInv'
  BY <1>3, <1>4 DEF Archive
<1>5. CASE BeatStep
  BY <1>3, <1>5 DEF BeatStep, Start, Write, Signal, CancelBeat, ClearBeat, Crash, Tick,
                    RedisTurns, metrics
<1>6. CASE UNCHANGED vars
  BY <1>3, <1>6 DEF vars, metrics
<1> QED
  BY <1>1, <1>2, <1>4, <1>5, <1>6 DEF Next, BeatStep

(* What a page shows drifts from the last sample by less than one          *)
(* threshold for each silent round, and a rate not at all.                 *)
THEOREM ViewBounded == FairSpec => []ViewFollows
<1>1. Init => ViewInv
  BY DEF Init, ViewInv, ViewTyped, ViewFollows, NoSample, None, Samples
<1>2. ViewInv => ViewFollows
  BY DEF ViewInv
<1> QED
  BY <1>1, <1>2, ViewInductive, PTL DEF FairSpec

-----------------------------------------------------------------------------
(* Market data (Quotes): the rate window and the cache.                    *)

AskRecord == Asks \cup {AllIndices}
Places == {"idle", "rate", "count", "fetch", "row", "store", "cache", "look", "yahoo"}
QuoteState == [at : Places, ask : AskRecord, left : Seq(Collectors), got : SUBSET Symbols,
               read : Nat, known : BOOLEAN]
Chained == {"quote", "indices", "commodities"}

(* The first answer ends the chain of a quote, with one item in hand.      *)
OneQuote(q) ==
  q.ask.kind = "quote" => q.got = {} \/ (q.left = <<>> /\ \E of \in Symbols : q.got = {of})

(* Where a request may be, given what it asks for: only what has a chain   *)
(* meets the window, a quote alone is stored, and a count it holds is      *)
(* below the limit of the collector it is for.                             *)
Fits(q) ==
  /\ q \in QuoteState
  /\ q.at # "idle" => q.ask \in Asks
  /\ q.at \in {"rate", "count", "fetch"} => q.left # <<>> /\ q.ask.kind \in Chained /\ OneQuote(q)
  /\ q.at \in {"rate", "count"} => Limit[Head(q.left)] > 0
  /\ q.at = "count" => q.read < Limit[Head(q.left)]
  /\ q.at \in {"row", "store"} => q.ask.kind = "quote" /\ \E of \in Symbols : q.got = {of}
  /\ q.at = "yahoo" => q.ask.kind = "search"

(* What a request is about to cache is in the tables.                      *)
Backed(q) ==
  q.at = "cache" =>
    /\ q.ask.kind = "quote" => \A of \in q.got : <<q.ask.of, of>> \in stored
    /\ q.ask.kind = "search" => q.got \subseteq rows

RequestsFit == req \in [Requests -> QuoteState] /\ \A r \in Requests : Fits(req[r]) /\ Backed(req[r])
TablesHold == /\ rows \subseteq Symbols
             /\ stored \subseteq Symbols \X Symbols
             /\ cache \in [Asks -> SUBSET Symbols] /\ CachedIsStored

(* As long as no two calls overlapped, the window has counted every call   *)
(* it let through.                                                         *)
Counted ==
  /\ window \in Nat /\ passed \in Nat /\ overlapped \in BOOLEAN /\ exceeded \in BOOLEAN
  /\ ~overlapped => passed = window
  /\ ~exceeded
QuoteInv == RequestsFit /\ TablesHold /\ Counted /\ redisUp \in BOOLEAN

-----------------------------------------------------------------------------
LEMMA AskKinds ==
  ASSUME NEW a \in AskRecord
  PROVE  /\ a.kind \in {"quote", "nav", "search", "indices", "commodities"}
         /\ a.kind \in {"quote", "nav", "search"} => a.of \in Symbols
<1>1. CASE a \in {QuoteOf(s) : s \in Quoted}
  BY <1>1 DEF QuoteOf, Quoted, Symbols
<1>2. CASE a \in {Nav(s) : s \in Funds}
  BY <1>2 DEF Nav, Symbols
<1>3. CASE a \in {Search(s) : s \in Quoted}
  BY <1>3 DEF Search, Quoted, Symbols
<1>4. CASE a \in {AllIndices, AllCommodities}
  BY <1>4 DEF AllIndices, AllCommodities
<1>5. QED
  BY <1>1, <1>2, <1>3, <1>4, AsksAssumption DEF AskRecord

LEMMA IdleFits == Fits(Idle) /\ Backed(Idle)
<1>1. Idle \in QuoteState
  BY DEF Idle, QuoteState, Places, AskRecord
<1>2. QED
  BY <1>1 DEF Idle, Fits, Backed

LEMMA WantedSymbols ==
  ASSUME NEW a \in AskRecord
  PROVE  Wanted(a) \subseteq Symbols
BY AskKinds DEF Wanted, Symbols

LEMMA ChainCollects ==
  ASSUME NEW a
  PROVE  Chain(a) \in Seq(Collectors)
<1>1. <<"eastmoney", "yfinance">> \in Seq(Collectors) /\ <<"yfinance", "alpha_vantage">> \in Seq(Collectors)
  BY DEF Collectors
<1>2. <<"yfinance", "alpha_vantage", "finnhub">> \in Seq(Collectors)
  BY DEF Collectors
<1>3. QED
  BY <1>1, <1>2 DEF Chain

(* The turn to the next collector, or to what follows the chain.           *)
LEMMA TurnFits ==
  ASSUME NEW q \in QuoteState, q.ask \in Asks, q.ask.kind \in Chained, OneQuote(q)
  PROVE  Fits(Turn(q)) /\ Backed(Turn(q))
<1>1. CASE q.left = <<>> /\ q.got = {}
  BY <1>1, IdleFits DEF Turn
<1>2. CASE q.left = <<>> /\ q.got # {}
  <2> DEFINE place == IF q.ask.kind = "quote" THEN "row" ELSE "cache"
             v == [q EXCEPT !.at = place]
  <2>1. Turn(q) = v
    BY <1>2 DEF Turn
  <2>2. /\ v \in QuoteState /\ v.at = place /\ v.ask = q.ask /\ v.got = q.got
    BY DEF QuoteState, Places
  <2> HIDE DEF v
  <2>3. QED
    BY <1>2, <2>1, <2>2 DEF Fits, Backed, Chained, OneQuote
<1>3. CASE q.left # <<>>
  <2> DEFINE place == IF Limit[Head(q.left)] = 0 THEN "fetch" ELSE "rate"
             v == [q EXCEPT !.read = 0, !.at = place]
  <2>1. Turn(q) = v
    BY <1>3 DEF Turn
  <2>2. Head(q.left) \in Collectors
    BY <1>3 DEF QuoteState
  <2>3. Limit[Head(q.left)] \in Nat
    BY <2>2, QuotesAssumption
  <2>4. v \in QuoteState /\ v.at = place /\ v.ask = q.ask /\ v.left = q.left /\ v.got = q.got
    BY DEF QuoteState, Places
  <2> HIDE DEF v
  <2>5. OneQuote(v)
    BY <2>4 DEF OneQuote
  <2>6. QED
    BY <1>3, <2>1, <2>3, <2>4, <2>5 DEF Fits, Backed
<1>4. QED
  BY <1>1, <1>2, <1>3

(* A request moves on, and nobody takes anything out of the tables.        *)
LEMMA MoveOn ==
  ASSUME RequestsFit, NEW r \in Requests, NEW q, Fits(q), Put(r, q),
         rows \subseteq rows', stored \subseteq stored',
         q.at = "cache" =>
           /\ q.ask.kind = "quote" => \A of \in q.got : <<q.ask.of, of>> \in stored'
           /\ q.ask.kind = "search" => q.got \subseteq rows'
  PROVE  RequestsFit'
<1>1. req \in [Requests -> QuoteState] /\ q \in QuoteState
  BY DEF RequestsFit, Fits
<1>2. req' \in [Requests -> QuoteState] /\ \A s \in Requests : req'[s] = IF s = r THEN q ELSE req[s]
  BY <1>1 DEF Put
<1>3. Fits(req'[r]) /\ Backed(req[r])'
  BY <1>2 DEF Backed
<1>4. ASSUME NEW s \in Requests, s # r PROVE Fits(req'[s]) /\ Backed(req[s])'
  <2>1. req'[s] = req[s] /\ Fits(req[s]) /\ Backed(req[s])
    BY <1>2, <1>4 DEF RequestsFit
  <2>2. QED
    BY <2>1 DEF Backed
<1>5. \A s \in Requests : Fits(req'[s]) /\ Backed(req[s])'
  BY <1>3, <1>4
<1>6. \A s \in Requests : Fits(req[s])'
  BY <1>5 DEF Fits
<1>7. QED
  BY <1>2, <1>5, <1>6 DEF RequestsFit

-----------------------------------------------------------------------------
(* The steps of a request, and what each of them leaves true.              *)

(* A request that stays off the tables and off the cache.                  *)
LEMMA StaysOff ==
  ASSUME RequestsFit, TablesHold, NEW r \in Requests, NEW q, Fits(q), Backed(q), Put(r, q),
         UNCHANGED <<cache, rows, stored>>
  PROVE  RequestsFit' /\ TablesHold'
<1>1. rows \subseteq rows' /\ stored \subseteq stored'
  OBVIOUS
<1>2. q.at = "cache" =>
        /\ q.ask.kind = "quote" => \A of \in q.got : <<q.ask.of, of>> \in stored'
        /\ q.ask.kind = "search" => q.got \subseteq rows'
  BY DEF Backed
<1>3. RequestsFit'
  BY <1>1, <1>2, MoveOn
<1>4. QED
  BY <1>3 DEF TablesHold, CachedIsStored

LEMMA AskKeeps ==
  ASSUME RequestsFit, TablesHold, NEW r \in Requests, NEW a \in Asks, Ask(r, a)
  PROVE  RequestsFit' /\ TablesHold'
<1> DEFINE new == [Idle EXCEPT !.ask = a]
           looking == [new EXCEPT !.at = "look"]
           chained == [new EXCEPT !.left = Chain(a)]
<1>1. a \in AskRecord /\ Idle \in QuoteState
  BY IdleFits DEF AskRecord, Fits
<1>2. CASE a.kind \in {"nav", "search"}
  <2>1. looking \in QuoteState /\ looking.at = "look" /\ looking.ask = a
    BY <1>1 DEF QuoteState, Places, Idle
  <2>2. Put(r, looking) /\ UNCHANGED <<cache, rows, stored>>
    BY <1>2 DEF Ask
  <2> HIDE DEF looking
  <2>3. Fits(looking) /\ Backed(looking)
    BY <2>1 DEF Fits, Backed
  <2>4. QED
    BY <2>2, <2>3, StaysOff
<1>3. CASE a.kind \notin {"nav", "search"}
  <2>1. chained \in QuoteState /\ chained.ask = a /\ chained.got = {}
    BY <1>1, ChainCollects DEF QuoteState, Idle
  <2>2. Put(r, Turn(chained)) /\ UNCHANGED <<cache, rows, stored>>
    BY <1>3 DEF Ask
  <2>3. a.kind \in Chained
    BY <1>1, <1>3, AskKinds DEF Chained
  <2> HIDE DEF chained
  <2>4. Fits(Turn(chained)) /\ Backed(Turn(chained))
    BY <2>1, <2>3, TurnFits DEF OneQuote
  <2>5. QED
    BY <2>2, <2>4, StaysOff
<1>4. QED
  BY <1>2, <1>3

(* The collector is passed over.                                           *)
LEMMA PassFits ==
  ASSUME RequestsFit, NEW r \in Requests, req[r].at \in {"rate", "count", "fetch"}
  PROVE  /\ Pass(r) \in QuoteState /\ Pass(r).ask = req[r].ask
         /\ Fits(Turn(Pass(r))) /\ Backed(Turn(Pass(r)))
<1>1. /\ req[r] \in QuoteState /\ req[r].ask \in Asks /\ req[r].left # <<>>
      /\ req[r].ask.kind \in Chained /\ OneQuote(req[r])
  BY DEF RequestsFit, Fits
<1>2. Tail(req[r].left) \in Seq(Collectors)
  BY <1>1 DEF QuoteState
<1>3. Pass(r) \in QuoteState /\ Pass(r).ask = req[r].ask /\ Pass(r).got = req[r].got
  BY <1>1, <1>2 DEF Pass, QuoteState
<1>4. OneQuote(Pass(r))
  BY <1>1, <1>3 DEF OneQuote
<1>5. QED
  BY <1>1, <1>3, <1>4, TurnFits

LEMMA ReadKeeps ==
  ASSUME RequestsFit, TablesHold, window \in Nat, NEW r \in Requests, RateRead(r)
  PROVE  RequestsFit' /\ TablesHold'
<1> DEFINE held == [Go(r, "count") EXCEPT !.read = window]
           full == window # 0 /\ window >= Limited(r)
<1>1. /\ req[r] \in QuoteState /\ Fits(req[r]) /\ req[r].at = "rate"
      /\ req[r].left # <<>> /\ req[r].ask.kind \in Chained /\ Limited(r) > 0
      /\ req[r].ask \in Asks /\ OneQuote(req[r])
  BY DEF RequestsFit, Fits, RateRead, Limited
<1>2. UNCHANGED <<cache, rows, stored>>
  BY DEF RateRead
<1>3. CASE full
  <2>1. Put(r, Turn(Pass(r)))
    BY <1>3 DEF RateRead
  <2>2. QED
    BY <1>1, <1>2, <2>1, PassFits, StaysOff
<1>4. CASE ~full
  <2>1. Put(r, held)
    BY <1>4 DEF RateRead
  <2>2. /\ held \in QuoteState /\ held.at = "count" /\ held.read = window
        /\ held.left = req[r].left /\ held.ask = req[r].ask /\ held.got = req[r].got
    BY <1>1 DEF Go, QuoteState, Places
  <2>3. Head(req[r].left) \in Collectors
    BY <1>1 DEF QuoteState
  <2>4. Limited(r) \in Nat
    BY <2>3, QuotesAssumption DEF Limited
  <2>5. window < Limited(r)
    BY <1>1, <1>4, <2>4
  <2> HIDE DEF held
  <2>6. Fits(held) /\ Backed(held)
    BY <1>1, <2>2, <2>5 DEF Fits, Backed, Limited, OneQuote
  <2>7. QED
    BY <1>2, <2>1, <2>6, StaysOff
<1>5. QED
  BY <1>3, <1>4

(* A call that is let through goes on to its collector.                    *)
LEMMA FetchFits ==
  ASSUME RequestsFit, NEW r \in Requests, req[r].at \in {"rate", "count"}
  PROVE  LET q == [Go(r, "fetch") EXCEPT !.read = 0] IN Fits(q) /\ Backed(q)
<1> DEFINE q == [Go(r, "fetch") EXCEPT !.read = 0]
<1>1. /\ req[r] \in QuoteState /\ req[r].ask \in Asks /\ req[r].left # <<>>
      /\ req[r].ask.kind \in Chained /\ OneQuote(req[r])
  BY DEF RequestsFit, Fits
<1>2. /\ q \in QuoteState /\ q.at = "fetch" /\ q.left = req[r].left /\ q.ask = req[r].ask
      /\ q.got = req[r].got
  BY <1>1 DEF Go, QuoteState, Places
<1> HIDE DEF q
<1>3. Fits(q) /\ Backed(q)
  BY <1>1, <1>2 DEF Fits, Backed, OneQuote
<1>4. QED
  BY <1>3 DEF q

LEMMA AdmittedKeeps ==
  ASSUME RequestsFit, TablesHold, NEW r \in Requests, RateWrite(r) \/ RateUnknown(r)
  PROVE  RequestsFit' /\ TablesHold'
<1> DEFINE q == [Go(r, "fetch") EXCEPT !.read = 0]
<1>1. Put(r, q) /\ UNCHANGED <<cache, rows, stored>> /\ req[r].at \in {"rate", "count"}
  BY DEF RateWrite, RateUnknown
<1> HIDE DEF q
<1>2. Fits(q) /\ Backed(q)
  BY <1>1, FetchFits DEF q
<1>3. QED
  BY <1>1, <1>2, StaysOff

LEMMA OffersSymbols ==
  ASSUME RequestsFit, NEW r \in Requests
  PROVE  Offers(r) \subseteq Symbols
<1>1. req[r].ask \in AskRecord
  BY DEF RequestsFit, QuoteState
<1>2. Wanted(req[r].ask) \subseteq Symbols
  BY <1>1, WantedSymbols
<1>3. CnIndices \subseteq Symbols
  BY QuotesAssumption DEF Symbols
<1>4. QED
  BY <1>2, <1>3 DEF Offers

LEMMA FetchKeeps ==
  ASSUME RequestsFit, TablesHold, NEW r \in Requests, FetchEnds(r)
  PROVE  RequestsFit' /\ TablesHold'
<1>1. /\ req[r] \in QuoteState /\ req[r].at = "fetch"
      /\ req[r].ask \in Asks /\ req[r].left # <<>> /\ req[r].ask.kind \in Chained
  BY DEF RequestsFit, Fits, FetchEnds
<1>2. UNCHANGED <<cache, rows, stored>>
  BY DEF FetchEnds
<1>3. PICK items \in SUBSET Offers(r) : \E state \in Gathered(r, items) : Put(r, state)
  BY DEF FetchEnds
<1>4. PICK state \in Gathered(r, items) : Put(r, state)
  BY <1>3
<1>5. items \subseteq Symbols
  BY OffersSymbols
<1>6. <<>> \in Seq(Collectors) /\ Tail(req[r].left) \in Seq(Collectors)
  BY <1>1 DEF QuoteState
<1>7. \A got \in SUBSET Symbols, left \in Seq(Collectors) :
        (req[r].ask.kind = "quote" => left = <<>> /\ \E of \in Symbols : got = {of})
        => LET q == [req[r] EXCEPT !.got = got, !.left = left] IN Fits(Turn(q)) /\ Backed(Turn(q))
  <2> TAKE got \in SUBSET Symbols, left \in Seq(Collectors)
  <2> HAVE req[r].ask.kind = "quote" => left = <<>> /\ \E of \in Symbols : got = {of}
  <2> DEFINE q == [req[r] EXCEPT !.got = got, !.left = left]
  <2>1. q \in QuoteState /\ q.ask = req[r].ask /\ q.got = got /\ q.left = left
    BY <1>1 DEF QuoteState
  <2> HIDE DEF q
  <2>2. Fits(Turn(q)) /\ Backed(Turn(q))
    BY <1>1, <2>1, TurnFits DEF OneQuote
  <2>3. QED
    BY <2>2 DEF q
<1>8. CASE items = {}
  <2>1. state = Turn(Pass(r))
    BY <1>8 DEF Gathered
  <2>2. QED
    BY <1>1, <1>2, <1>4, <2>1, PassFits, StaysOff
<1>9. CASE items # {}
  <2>1. CASE req[r].ask.kind = "quote"
    <3>1. PICK of \in items : state = Turn([req[r] EXCEPT !.got = {of}, !.left = <<>>])
      BY <1>9, <2>1 DEF Gathered
    <3>2. {of} \in SUBSET Symbols /\ of \in Symbols
      BY <1>5
    <3>3. Fits(state) /\ Backed(state)
      BY <1>6, <1>7, <3>1, <3>2
    <3>4. QED
      BY <1>2, <1>4, <3>3, StaysOff
  <2>2. CASE req[r].ask.kind = "commodities"
    <3>1. state = Turn([req[r] EXCEPT !.got = items, !.left = <<>>])
      BY <1>9, <2>2 DEF Gathered
    <3>2. Fits(state) /\ Backed(state)
      BY <1>5, <1>6, <1>7, <2>2, <3>1
    <3>3. QED
      BY <1>2, <1>4, <3>2, StaysOff
  <2>3. CASE req[r].ask.kind = "indices"
    <3> DEFINE all == req[r].got \cup (items \cap Indices)
               rest == IF all = Indices THEN <<>> ELSE Tail(req[r].left)
    <3>1. state = Turn([req[r] EXCEPT !.got = all, !.left = rest])
      BY <1>9, <2>3 DEF Gathered
    <3>2. all \in SUBSET Symbols /\ rest \in Seq(Collectors)
      BY <1>1, <1>5, <1>6 DEF QuoteState
    <3> HIDE DEF all, rest
    <3>3. Fits(state) /\ Backed(state)
      BY <1>7, <2>3, <3>1, <3>2
    <3>4. QED
      BY <1>2, <1>4, <3>3, StaysOff
  <2>4. QED
    BY <1>1, <2>1, <2>2, <2>3 DEF Chained
<1>10. QED
  BY <1>8, <1>9

LEMMA RowKeeps ==
  ASSUME RequestsFit, TablesHold, NEW r \in Requests, RowRead(r)
  PROVE  RequestsFit' /\ TablesHold'
<1> DEFINE q == [Go(r, "store") EXCEPT !.known = Symbol(r) \in rows]
<1>1. /\ req[r] \in QuoteState /\ req[r].at = "row" /\ req[r].ask \in Asks
      /\ req[r].ask.kind = "quote" /\ \E of \in Symbols : req[r].got = {of}
  BY DEF RequestsFit, Fits, RowRead
<1>2. (Symbol(r) \in rows) \in BOOLEAN
  OBVIOUS
<1>3. q \in QuoteState /\ q.at = "store" /\ q.ask = req[r].ask /\ q.got = req[r].got
  BY <1>1, <1>2 DEF Go, QuoteState, Places
<1>4. Put(r, q) /\ UNCHANGED <<cache, rows, stored>>
  BY DEF RowRead
<1> HIDE DEF q
<1>5. Fits(q) /\ Backed(q)
  BY <1>1, <1>3 DEF Fits, Backed
<1>6. QED
  BY <1>4, <1>5, StaysOff

(* The quote is a row before it may be cached.                             *)
LEMMA StoreKeeps ==
  ASSUME RequestsFit, TablesHold, NEW r \in Requests, StoreQuote(r)
  PROVE  RequestsFit' /\ TablesHold'
<1> DEFINE q == [Go(r, "cache") EXCEPT !.known = FALSE]
<1>1. /\ req[r] \in QuoteState /\ req[r].at = "store" /\ req[r].ask \in Asks
      /\ req[r].ask.kind = "quote"
  BY DEF RequestsFit, Fits, StoreQuote
<1>2. cache' = cache
  BY DEF StoreQuote
<1>3. CASE Doubled(r) \/ Refused(r)
  <2>1. Put(r, Idle) /\ UNCHANGED <<cache, rows, stored>>
    BY <1>2, <1>3 DEF StoreQuote
  <2>2. QED
    BY <2>1, IdleFits, StaysOff
<1>4. CASE ~(Doubled(r) \/ Refused(r))
  <2>1. /\ rows' = rows \cup {Symbol(r)}
        /\ stored' = stored \cup {<<Symbol(r), of>> : of \in req[r].got}
        /\ Put(r, q)
    BY <1>4 DEF StoreQuote
  <2>2. q \in QuoteState /\ q.ask = req[r].ask /\ q.at = "cache" /\ q.got = req[r].got
    BY <1>1 DEF Go, QuoteState, Places
  <2> HIDE DEF q
  <2>3. Fits(q)
    BY <1>1, <2>2 DEF Fits
  <2>4. \A of \in q.got : <<q.ask.of, of>> \in stored'
    BY <2>1, <2>2 DEF Symbol
  <2>5. rows \subseteq rows' /\ stored \subseteq stored' /\ q.ask.kind # "search"
    BY <1>1, <2>1, <2>2
  <2>6. RequestsFit'
    BY <2>1, <2>3, <2>4, <2>5, MoveOn
  <2>7. Symbol(r) \in Symbols
    <3>1. req[r].ask \in AskRecord
      BY <1>1 DEF QuoteState
    <3>2. QED
      BY <1>1, <3>1, AskKinds DEF Symbol
  <2>8. stored' \subseteq Symbols \X Symbols
    <3>1. req[r].got \subseteq Symbols
      BY <1>1 DEF QuoteState
    <3>2. QED
      BY <2>1, <2>7, <3>1 DEF TablesHold
  <2>9. QED
    BY <1>2, <2>1, <2>5, <2>6, <2>7, <2>8 DEF TablesHold, CachedIsStored
<1>5. QED
  BY <1>3, <1>4

LEMMA PublishKeeps ==
  ASSUME RequestsFit, TablesHold, NEW r \in Requests, Publish(r)
  PROVE  RequestsFit' /\ TablesHold'
<1>1. req[r] \in QuoteState /\ Backed(req[r]) /\ req[r].at = "cache"
  BY DEF RequestsFit, Publish
<1>2. Put(r, Idle) /\ UNCHANGED <<rows, stored>>
  BY DEF Publish
<1>3. RequestsFit'
  BY <1>2, IdleFits, MoveOn DEF Idle
<1>4. CASE ~redisUp
  <2>1. cache' = cache
    BY <1>4 DEF Publish
  <2>2. QED
    BY <1>2, <1>3, <2>1 DEF TablesHold, CachedIsStored
<1>5. CASE redisUp
  <2>1. cache' = [cache EXCEPT ![req[r].ask] = req[r].got]
    BY <1>5 DEF Publish
  <2>2. cache \in [Asks -> SUBSET Symbols] /\ req[r].got \in SUBSET Symbols
    BY <1>1 DEF TablesHold, QuoteState
  <2>3. cache' \in [Asks -> SUBSET Symbols]
    BY <2>1, <2>2
  <2>4. \A a \in Asks : cache'[a] = IF a = req[r].ask THEN req[r].got ELSE cache[a]
    BY <2>1, <2>2
  <2>5. ASSUME NEW a \in Asks
        PROVE  /\ a.kind = "quote" => \A of \in cache'[a] : <<a.of, of>> \in stored
               /\ a.kind = "search" => cache'[a] \subseteq rows
    <3>1. CASE a = req[r].ask
      BY <1>1, <2>4, <3>1 DEF Backed
    <3>2. CASE a # req[r].ask
      BY <2>4, <3>2 DEF TablesHold, CachedIsStored
    <3>3. QED
      BY <3>1, <3>2
  <2>6. QED
    BY <1>2, <1>3, <2>3, <2>5 DEF TablesHold, CachedIsStored
<1>6. QED
  BY <1>4, <1>5

LEMMA SearchRowsKeeps ==
  ASSUME RequestsFit, TablesHold, NEW r \in Requests, SearchRows(r)
  PROVE  RequestsFit' /\ TablesHold'
<1>1. /\ req[r] \in QuoteState /\ req[r].ask \in Asks /\ req[r].ask.kind = "search"
      /\ UNCHANGED <<cache, rows, stored>>
  BY DEF RequestsFit, Fits, SearchRows
<1>2. CASE Symbol(r) \in rows /\ Put(r, [Go(r, "cache") EXCEPT !.got = {Symbol(r)}])
  <2> DEFINE q == [Go(r, "cache") EXCEPT !.got = {Symbol(r)}]
  <2>1. {Symbol(r)} \in SUBSET Symbols
    BY <1>2 DEF TablesHold
  <2>2. q \in QuoteState /\ q.at = "cache" /\ q.ask = req[r].ask /\ q.got = {Symbol(r)}
    BY <1>1, <2>1 DEF Go, QuoteState, Places
  <2>3. Put(r, q)
    BY <1>2
  <2> HIDE DEF q
  <2>4. Fits(q) /\ Backed(q)
    BY <1>1, <1>2, <2>2 DEF Fits, Backed
  <2>5. QED
    BY <1>1, <2>3, <2>4, StaysOff
<1>3. CASE Put(r, Go(r, "yahoo"))
  <2> DEFINE q == Go(r, "yahoo")
  <2>1. q \in QuoteState /\ q.at = "yahoo" /\ q.ask = req[r].ask
    BY <1>1 DEF Go, QuoteState, Places
  <2> HIDE DEF q
  <2>2. Fits(q) /\ Backed(q)
    BY <1>1, <2>1 DEF Fits, Backed
  <2>3. QED
    BY <1>1, <1>3, <2>2, StaysOff DEF q
<1>4. QED
  BY <1>2, <1>3 DEF SearchRows

LEMMA SearchOutsideKeeps ==
  ASSUME RequestsFit, TablesHold, NEW r \in Requests, SearchOutside(r)
  PROVE  RequestsFit' /\ TablesHold'
<1>1. /\ req[r] \in QuoteState /\ req[r].ask \in Asks /\ req[r].ask.kind = "search"
      /\ UNCHANGED <<cache, stored>>
  BY DEF RequestsFit, Fits, SearchOutside
<1>2. PICK found \in SUBSET Quoted :
        IF found = {} \/ found \cap rows # {}
          THEN Put(r, Idle) /\ UNCHANGED rows
          ELSE /\ rows' = rows \cup found
               /\ Put(r, [Go(r, "cache") EXCEPT !.got = found])
  BY DEF SearchOutside
<1>3. CASE found = {} \/ found \cap rows # {}
  <2>1. Put(r, Idle) /\ UNCHANGED <<cache, rows, stored>>
    BY <1>1, <1>2, <1>3
  <2>2. QED
    BY <2>1, IdleFits, StaysOff
<1>4. CASE ~(found = {} \/ found \cap rows # {})
  <2> DEFINE q == [Go(r, "cache") EXCEPT !.got = found]
  <2>1. found \in SUBSET Symbols
    BY DEF Quoted, Symbols
  <2>2. q \in QuoteState /\ q.at = "cache" /\ q.ask = req[r].ask /\ q.got = found
    BY <1>1, <2>1 DEF Go, QuoteState, Places
  <2>3. rows' = rows \cup found /\ Put(r, q)
    BY <1>2, <1>4
  <2> HIDE DEF q
  <2>4. Fits(q) /\ q.ask.kind # "quote" /\ q.got \subseteq rows'
    BY <1>1, <2>2, <2>3 DEF Fits
  <2>5. rows \subseteq rows' /\ stored \subseteq stored'
    BY <1>1, <2>3
  <2>6. RequestsFit'
    BY <2>3, <2>4, <2>5, MoveOn
  <2>7. QED
    BY <1>1, <2>1, <2>3, <2>6 DEF TablesHold, CachedIsStored
<1>5. QED
  BY <1>3, <1>4

LEMMA NavKeeps ==
  ASSUME RequestsFit, TablesHold, NEW r \in Requests, NavRead(r)
  PROVE  RequestsFit' /\ TablesHold'
<1>1. /\ req[r] \in QuoteState /\ req[r].ask \in Asks /\ req[r].ask.kind = "nav"
      /\ UNCHANGED <<cache, rows, stored>>
  BY DEF RequestsFit, Fits, NavRead
<1>2. CASE Symbol(r) \in rows /\ redisUp
  <2> DEFINE q == [Go(r, "cache") EXCEPT !.got = {Symbol(r)}]
  <2>1. {Symbol(r)} \in SUBSET Symbols
    BY <1>2 DEF TablesHold
  <2>2. q \in QuoteState /\ q.at = "cache" /\ q.ask = req[r].ask
    BY <1>1, <2>1 DEF Go, QuoteState, Places
  <2>3. Put(r, q)
    BY <1>2 DEF NavRead
  <2> HIDE DEF q
  <2>4. Fits(q) /\ Backed(q)
    BY <1>1, <2>2 DEF Fits, Backed
  <2>5. QED
    BY <1>1, <2>3, <2>4, StaysOff
<1>3. CASE ~(Symbol(r) \in rows /\ redisUp)
  <2>1. Put(r, Idle)
    BY <1>3 DEF NavRead
  <2>2. QED
    BY <1>1, <2>1, IdleFits, StaysOff
<1>4. QED
  BY <1>2, <1>3

-----------------------------------------------------------------------------
(* The window.                                                             *)

(* A count that is held is below the limit: a call that is let through     *)
(* alone is the one after the last.                                        *)
LEMMA WriteCounts ==
  ASSUME RequestsFit, Counted, NEW r \in Requests, RateWrite(r)
  PROVE  Counted'
<1>1. req[r].read \in Nat /\ req[r].read < Limited(r)
  BY DEF RequestsFit, Fits, QuoteState, RateWrite, Limited
<1>2. Limited(r) \in Nat
  <2>1. Head(req[r].left) \in Collectors
    BY DEF RequestsFit, Fits, QuoteState, RateWrite
  <2>2. QED
    BY <2>1, QuotesAssumption DEF Limited
<1>3. window' = req[r].read + 1 /\ Admits(r, window # req[r].read)
  BY DEF RateWrite
<1>4. overlapped' \in BOOLEAN /\ (~overlapped' => ~overlapped /\ window = req[r].read)
  BY <1>3 DEF Admits, Counted
<1>5. CASE overlapped'
  BY <1>1, <1>3, <1>5 DEF Admits, Counted
<1>6. CASE ~overlapped'
  <2>1. passed = req[r].read /\ ~exceeded
    BY <1>4, <1>6 DEF Counted
  <2>2. passed' = passed + 1 /\ exceeded' = (exceeded \/ passed >= Limited(r))
    BY <1>3, <1>6 DEF Admits
  <2>3. ~(passed >= Limited(r))
    BY <1>1, <1>2, <2>1
  <2>4. exceeded' = FALSE
    BY <2>1, <2>2, <2>3
  <2>5. QED
    BY <1>1, <1>3, <1>4, <2>1, <2>2, <2>4 DEF Counted
<1>7. QED
  BY <1>4, <1>5, <1>6

LEMMA UnknownCounts ==
  ASSUME Counted, NEW r \in Requests, RateUnknown(r)
  PROVE  Counted'
<1>1. Admits(r, TRUE) /\ window' = window
  BY DEF RateUnknown
<1>2. overlapped' = TRUE
  BY <1>1 DEF Admits
<1>3. QED
  BY <1>1, <1>2 DEF Admits, Counted

LEMMA LapseCounts == WindowLapses => Counted'
<1> SUFFICES ASSUME WindowLapses PROVE Counted'
  OBVIOUS
<1>1. window' = 0 /\ passed' = 0 /\ overlapped' = FALSE /\ exceeded' = FALSE
  BY DEF WindowLapses
<1>2. ~exceeded' /\ overlapped' \in BOOLEAN /\ exceeded' \in BOOLEAN
  BY <1>1
<1>3. QED
  BY <1>1, <1>2 DEF Counted

-----------------------------------------------------------------------------
LEMMA QuoteBegins == QuoteInit => QuoteInv
<1> SUFFICES ASSUME QuoteInit PROVE QuoteInv
  OBVIOUS
<1>1. req \in [Requests -> QuoteState] /\ \A r \in Requests : Fits(req[r]) /\ Backed(req[r])
  BY IdleFits DEF QuoteInit, Fits
<1>2. TablesHold
  BY QuotesAssumption DEF QuoteInit, TablesHold, CachedIsStored, Symbols
<1>3. QED
  BY <1>1, <1>2 DEF QuoteInit, QuoteInv, RequestsFit, Counted

LEMMA QuoteStep == QuoteInv /\ [QuoteNext]_quoteVars => QuoteInv'
<1> SUFFICES ASSUME QuoteInv, [QuoteNext]_quoteVars PROVE QuoteInv'
  OBVIOUS
<1> USE DEF QuoteInv
<1>0. redisUp' \in BOOLEAN
  <2>1. redisUp' = redisUp \/ redisUp' = TRUE \/ redisUp' = FALSE
    BY DEF QuoteNext, Working, Ask, RateRead, RateWrite, RateUnknown, FetchEnds, RowRead,
       StoreQuote, Publish, SearchRows, SearchOutside, NavRead, RedisFails, RedisReturns,
       WindowLapses, EntryLapses, quoteVars
  <2>2. QED
    BY <2>1
<1>1. ASSUME UNCHANGED <<cache, rows, stored, req>>
      PROVE  RequestsFit' /\ TablesHold'
  <2>1. \A r \in Requests : Fits(req[r])' /\ Backed(req[r])'
    BY <1>1 DEF RequestsFit, Fits, Backed
  <2>2. RequestsFit'
    BY <1>1, <2>1 DEF RequestsFit, Fits
  <2>3. QED
    BY <1>1, <2>2 DEF TablesHold, CachedIsStored
<1>2. ASSUME UNCHANGED counts PROVE Counted'
  BY <1>2 DEF Counted, counts
<1>3. CASE \E r \in Requests, a \in Asks : Ask(r, a)
  BY <1>2, <1>3, AskKeeps DEF Ask
<1>4. CASE \E r \in Requests : RateRead(r)
  BY <1>2, <1>4, ReadKeeps DEF RateRead, Counted
<1>5. CASE \E r \in Requests : RateWrite(r)
  BY <1>0, <1>5, AdmittedKeeps, WriteCounts
<1>6. CASE \E r \in Requests : RateUnknown(r)
  BY <1>0, <1>6, AdmittedKeeps, UnknownCounts
<1>7. CASE \E r \in Requests : FetchEnds(r)
  BY <1>2, <1>7, FetchKeeps DEF FetchEnds
<1>8. CASE \E r \in Requests : RowRead(r)
  BY <1>2, <1>8, RowKeeps DEF RowRead
<1>9. CASE \E r \in Requests : StoreQuote(r)
  BY <1>2, <1>9, StoreKeeps DEF StoreQuote
<1>10. CASE \E r \in Requests : Publish(r)
  BY <1>2, <1>10, PublishKeeps DEF Publish
<1>11. CASE \E r \in Requests : SearchRows(r)
  BY <1>2, <1>11, SearchRowsKeeps DEF SearchRows
<1>12. CASE \E r \in Requests : SearchOutside(r)
  BY <1>2, <1>12, SearchOutsideKeeps DEF SearchOutside
<1>13. CASE \E r \in Requests : NavRead(r)
  BY <1>2, <1>13, NavKeeps DEF NavRead
<1>14. CASE RedisFails \/ RedisReturns
  BY <1>1, <1>2, <1>14 DEF RedisFails, RedisReturns
<1>15. CASE WindowLapses
  BY <1>1, <1>15, LapseCounts DEF WindowLapses
<1>16. CASE EntryLapses
  <2>1. PICK a \in Asks : cache' = [cache EXCEPT ![a] = {}]
    BY <1>16 DEF EntryLapses
  <2>2. UNCHANGED <<counts, rows, stored, req>>
    BY <1>16 DEF EntryLapses
  <2>3. cache' \in [Asks -> SUBSET Symbols] /\ \A b \in Asks : cache'[b] \subseteq cache[b]
    BY <2>1 DEF TablesHold
  <2>4. TablesHold'
    BY <2>2, <2>3 DEF TablesHold, CachedIsStored
  <2>5. \A r \in Requests : Fits(req[r])' /\ Backed(req[r])'
    BY <2>2 DEF RequestsFit, Fits, Backed
  <2>6. RequestsFit'
    BY <2>2, <2>5 DEF RequestsFit, Fits
  <2>7. QED
    BY <1>0, <1>2, <2>2, <2>4, <2>6
<1>17. CASE UNCHANGED quoteVars
  BY <1>1, <1>2, <1>17 DEF quoteVars
<1>18. QED
  BY <1>3, <1>4, <1>5, <1>6, <1>7, <1>8, <1>9, <1>10, <1>11, <1>12, <1>13, <1>14,
     <1>15, <1>16, <1>17 DEF QuoteNext, Working

LEMMA QuoteAlways == QuoteSpec => []QuoteInv
BY QuoteBegins, QuoteStep, PTL DEF QuoteSpec

(* Types, and that a request which stores has one quote in hand            *)
(* (_try_collector).                                                       *)
THEOREM QuotesTyped == QuoteSpec => []TypeOK
<1>1. QuoteInv => TypeOK
  <2> SUFFICES ASSUME QuoteInv PROVE TypeOK
    OBVIOUS
  <2>1. ASSUME NEW r \in Requests
        PROVE  /\ req[r].at \in Places
               /\ req[r].at # "idle" => req[r].ask \in Asks
               /\ req[r].got \subseteq Symbols
               /\ req[r].at \in {"rate", "count", "fetch"} => req[r].left # <<>>
               /\ req[r].at \in {"row", "store"} => Cardinality(req[r].got) = 1
    <3>1. req[r] \in QuoteState /\ Fits(req[r])
      BY DEF QuoteInv, RequestsFit
    <3>2. ASSUME req[r].at \in {"row", "store"} PROVE Cardinality(req[r].got) = 1
      <4>1. PICK of \in Symbols : req[r].got = {of}
        BY <3>1, <3>2 DEF Fits
      <4>2. QED
        BY <4>1, FS_Singleton
    <3>3. QED
      BY <3>1, <3>2 DEF Fits, QuoteState
  <2>2. QED
    BY <2>1 DEF QuoteInv, RequestsFit, TablesHold, Counted, TypeOK, Places
<1>2. QED
  BY <1>1, QuoteAlways, PTL

(* A collector is never called beyond its limit as long as no two calls    *)
(* of one window overlapped and Redis answered, whatever the limits, the   *)
(* chain and the number of requests (rate_limit_check, base.py:126-134).   *)
THEOREM RateKept == QuoteSpec => []RateHolds
<1>1. QuoteInv => RateHolds
  BY DEF QuoteInv, Counted, RateHolds
<1>2. QED
  BY <1>1, QuoteAlways, PTL

(* What the cache holds for a quote or for a search is in the tables,      *)
(* whoever inserts in between and whichever commit fails (get_quote and    *)
(* _search_symbols_external).                                              *)
THEOREM CacheBacked == QuoteSpec => []CachedIsStored
<1>1. QuoteInv => CachedIsStored
  BY DEF QuoteInv, TablesHold
<1>2. QED
  BY <1>1, QuoteAlways, PTL
=============================================================================
