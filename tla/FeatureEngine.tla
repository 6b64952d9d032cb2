----------------------------- MODULE FeatureEngine -----------------------------
(***************************************************************************)
(* feature_engine/engine.py, for one symbol: what a feature is computed    *)
(* from, and the levels of a day.                                          *)
(*                                                                         *)
(* A candle is its minute.  A window, an accumulator or a value latched    *)
(* for the day is the minutes it was made of: what a live candle adds and  *)
(* what the rows of candle_store bring back must make up the same.         *)
(***************************************************************************)
EXTENDS Integers, Sequences, FiniteSets, FiniteSetsExt, SequencesExt

CONSTANTS
  LastFeatureMinute, FeatureDay, \* minutes 0 .. LastFeatureMinute, FeatureDay of them a day
  PreMinutes, RegularMinutes,   \* of a day; the rest is after the close
  WideWidth, WindowCapacity,    \* minutes of a wider candle; closes kept
  MaxWorkerCrashes, MaxReadFailures

VARIABLES
  closedMinutes, \* minutes that closed
  candleQueue,   \* CandleClosed waiting for the worker
  unwritten,     \* rows waiting for the recorder
  recordedRows,  \* the candles table
  memory,        \* the engine's dictionaries for the symbol
  unread,        \* minutes a restored value had to do without
  dropped,       \* minutes whose computation raised
  workerCrashes, readFailures

featureVars == <<closedMinutes, candleQueue, unwritten, recordedRows, memory, unread, dropped,
                 workerCrashes, readFailures>>

DayOf(ts) == ts \div FeatureDay
MinuteOfDay(ts) == ts % FeatureDay
PreMarket(ts) == MinuteOfDay(ts) < PreMinutes
InRegular(ts) == MinuteOfDay(ts) \in PreMinutes .. PreMinutes + RegularMinutes - 1
InPlay(ts) == PreMarket(ts) \/ InRegular(ts)

NoDay == -1
Accumulator(day, rows) == [day |-> day, counted |-> rows, twice |-> {}]
NothingKnown ==
  [applied |-> -1, window |-> <<>>, cold |-> TRUE,
   wideApplied |-> -1, wide |-> <<>>, wideCold |-> TRUE,
   vwap |-> Accumulator(NoDay, {}), extended |-> Accumulator(NoDay, {}),
   previous |-> [day |-> NoDay, rows |-> {}], premarket |-> [day |-> NoDay, rows |-> {}],
   gap |-> [day |-> NoDay, open |-> -1]]

FeatureInit ==
  /\ closedMinutes = {} /\ candleQueue = <<>> /\ unwritten = <<>> /\ recordedRows = {}
  /\ memory = NothingKnown /\ unread = {} /\ dropped = {} /\ workerCrashes = 0 /\ readFailures = 0

---------------------------------------------------------------------------
(* What candle_store returns: rows before the candle at hand.              *)

(* mutant: the row of the candle itself, if it was written already         *)
RowsBefore_Inclusive(ts) == {r \in recordedRows : r <= ts}

RowsBefore(ts) == {r \in recordedRows : r < ts}

Ascending(S) == SetToSortSeq(S, <)
LastOf(s, n) == IF Len(s) <= n THEN s ELSE SubSeq(s, Len(s) - n + 1, Len(s))

Adds(acc, ts) == [acc EXCEPT !.counted = @ \cup {ts}, !.twice = IF ts \in acc.counted THEN @ \cup {ts} ELSE @]

UpdateVwap(m, ts) ==
  IF ~InRegular(ts) THEN m
  ELSE LET rows == {r \in RowsBefore(ts) : DayOf(r) = DayOf(ts) /\ InRegular(r)}
       IN [m EXCEPT !.vwap = Adds(IF @.day = DayOf(ts) THEN @ ELSE Accumulator(DayOf(ts), rows), ts)]

UpdateExtended(m, ts) ==
  IF ~InPlay(ts) THEN m
  ELSE LET rows == {r \in RowsBefore(ts) : DayOf(r) = DayOf(ts) /\ InPlay(r)}
       IN [m EXCEPT !.extended = Adds(IF @.day = DayOf(ts) THEN @ ELSE Accumulator(DayOf(ts), rows), ts)]

(* The last day of which there are rows; fixed for the day.                *)
UpdatePrevious(m, ts) ==
  LET earlier == {r \in RowsBefore(ts) : DayOf(r) < DayOf(ts)}
      last == Max({DayOf(r) : r \in earlier})
  IN IF m.previous.day = DayOf(ts) THEN m
     ELSE [m EXCEPT !.previous = [day |-> DayOf(ts), rows |-> {r \in earlier : DayOf(r) = last}]]

UpdatePremarket(m, ts) ==
  LET rows == {r \in RowsBefore(ts) : DayOf(r) = DayOf(ts) /\ PreMarket(r)}
      today == IF m.premarket.day = DayOf(ts) THEN m.premarket ELSE [day |-> DayOf(ts), rows |-> rows]
  IN [m EXCEPT !.premarket = IF PreMarket(ts) THEN [today EXCEPT !.rows = @ \cup {ts}] ELSE today]

(* mutant: with no rows to restore, the open of the first candle seen that *)
(* day                                                                     *)
RegularOpen_FirstSeen(open, ts) == IF open = -1 THEN ts ELSE open

RegularOpen(open, ts) == IF open = -1 /\ InRegular(ts) THEN ts ELSE open

UpdateGap(m, ts) ==
  LET rows == {r \in RowsBefore(ts) : DayOf(r) = DayOf(ts) /\ InRegular(r)}
      restored == IF rows = {} THEN -1 ELSE Min(rows)
      open == IF m.gap.day = DayOf(ts) THEN m.gap.open ELSE restored
  IN [m EXCEPT !.gap = [day |-> DayOf(ts), open |-> RegularOpen(open, ts)]]

ApplyClose(m, ts) ==
  LET window == IF m.cold THEN LastOf(Ascending(RowsBefore(ts)), WindowCapacity - 1) ELSE m.window
  IN [m EXCEPT !.cold = FALSE, !.applied = ts, !.window = LastOf(Append(window, ts), WindowCapacity)]

(* A wider candle starts with its session and is complete with its last    *)
(* minute; its close is the close of the last minute it has.               *)
SessionStart(ts) ==
  FeatureDay * DayOf(ts) + (CASE PreMarket(ts) -> 0
                              [] InRegular(ts) -> PreMinutes
                              [] OTHER -> PreMinutes + RegularMinutes)
BucketOf(ts) == SessionStart(ts) + ((ts - SessionStart(ts)) \div WideWidth) * WideWidth

(* mutant: a bucket is complete when the next minute is due                *)
CompletesBucket_Always(ts) == TRUE

CompletesBucket(ts) == (ts - SessionStart(ts)) % WideWidth = WideWidth - 1

Bars(rows) == {[bucket |-> b, close |-> Max({r \in rows : BucketOf(r) = b})] : b \in {BucketOf(r) : r \in rows}}

ComputeAggregated(m, ts) ==
  LET bars == {b \in Bars(RowsBefore(ts)) : b.bucket < BucketOf(ts)}
      prior == IF m.wideCold THEN LastOf(SetToSortSeq(bars, LAMBDA a, b : a.bucket < b.bucket), WindowCapacity - 1)
               ELSE m.wide
  IN IF ~CompletesBucket(ts) \/ BucketOf(ts) <= m.wideApplied THEN m
     ELSE [m EXCEPT !.wideCold = FALSE, !.wideApplied = BucketOf(ts),
                    !.wide = LastOf(Append(prior, [bucket |-> BucketOf(ts), close |-> ts]), WindowCapacity)]

---------------------------------------------------------------------------
(* The steps of _compute_one, in order, and those that read the table.     *)

Updated(i, m, ts) ==
  CASE i = 1 -> UpdateVwap(m, ts)
    [] i = 2 -> UpdateExtended(m, ts)
    [] i = 3 -> UpdatePrevious(m, ts)
    [] i = 4 -> UpdatePremarket(m, ts)
    [] i = 5 -> UpdateGap(m, ts)
    [] i = 6 -> ApplyClose(m, ts)
    [] i = 7 -> ComputeAggregated(m, ts)

Reads(m, ts) ==
  {i \in 1 .. 7 :
     CASE i = 1 -> InRegular(ts) /\ m.vwap.day # DayOf(ts)
       [] i = 2 -> InPlay(ts) /\ m.extended.day # DayOf(ts)
       [] i = 3 -> m.previous.day # DayOf(ts)
       [] i = 4 -> m.premarket.day # DayOf(ts)
       [] i = 5 -> m.gap.day # DayOf(ts)
       [] i = 6 -> m.cold
       [] i = 7 -> CompletesBucket(ts) /\ m.wideCold}

(* mutant: the pre-market's volume goes on being compared after the open   *)
ComparedBefore_Always(ts) == TRUE

ComparedBefore(ts) == PreMarket(ts)

(* _update_rvol and _update_premarket_volume_ratio: the minutes whose      *)
(* volume is compared with a usual day's, at how many minutes' pace.       *)
Pace(acc, ts) == <<[minutes |-> acc.counted, elapsed |-> Max({1, ts - SessionStart(ts)})]>>
RelativeVolume(m, ts) ==
  IF InRegular(ts) /\ m.vwap.day = DayOf(ts) THEN Pace(m.vwap, ts) ELSE <<>>
PremarketRatio(m, ts) ==
  IF ComparedBefore(ts) /\ m.extended.day = DayOf(ts) THEN Pace(m.extended, ts) ELSE <<>>

(* What was updated before a read that fails stays updated.                *)
Until(i, ts) == FoldLeft(LAMBDA m, k : Updated(k, m, ts), memory, [k \in 1 .. i |-> k])

(* One item of _worker_loop.                                               *)
ComputeOne ==
  /\ candleQueue # <<>> /\ candleQueue' = Tail(candleQueue)
  /\ LET ts == Head(candleQueue)
         reads == Reads(memory, ts)
     IN IF ts <= memory.applied THEN UNCHANGED <<memory, unread, dropped, readFailures>>
        ELSE /\ unread' = IF reads = {} THEN unread
                          ELSE unread \cup {c \in closedMinutes \ recordedRows : c < ts}
             /\ \/ memory' = Until(7, ts) /\ UNCHANGED <<dropped, readFailures>>
                \/ /\ readFailures < MaxReadFailures /\ readFailures' = readFailures + 1
                   /\ \E i \in reads : memory' = Until(i - 1, ts)
                   /\ dropped' = dropped \cup {ts}
  /\ UNCHANGED <<closedMinutes, unwritten, recordedRows, workerCrashes>>

---------------------------------------------------------------------------
(* A candle closes, not in every minute; after a change of provider the    *)
(* last minute closes again.                                               *)
MinuteCloses ==
  /\ Len(candleQueue) < 2 /\ Len(unwritten) < 2
  /\ LET last == Max(closedMinutes \cup {-1})
     IN \E ts \in (last .. last + 2) \cap (0 .. LastFeatureMinute) :
          /\ closedMinutes' = closedMinutes \cup {ts} /\ candleQueue' = Append(candleQueue, ts)
          /\ unwritten' = IF ts \in closedMinutes THEN unwritten ELSE Append(unwritten, ts)
  /\ UNCHANGED <<recordedRows, memory, unread, dropped, workerCrashes, readFailures>>

RowWritten ==
  /\ unwritten # <<>> /\ unwritten' = Tail(unwritten)
  /\ recordedRows' = recordedRows \cup {Head(unwritten)}
  /\ UNCHANGED <<closedMinutes, candleQueue, memory, unread, dropped, workerCrashes, readFailures>>

WorkerCrashes ==
  /\ workerCrashes < MaxWorkerCrashes /\ workerCrashes' = workerCrashes + 1
  /\ candleQueue' = <<>> /\ unwritten' = <<>> /\ memory' = NothingKnown /\ unread' = {} /\ dropped' = {}
  /\ UNCHANGED <<closedMinutes, recordedRows, readFailures>>

(* stop(): the worker ends when all that waits for it is computed, the     *)
(* recorder when it has written; the process is started again.             *)
WorkerStops ==
  /\ closedMinutes # {} /\ candleQueue = <<>> /\ unwritten = <<>>
  /\ memory' = NothingKnown /\ unread' = {} /\ dropped' = {}
  /\ UNCHANGED <<closedMinutes, candleQueue, unwritten, recordedRows, workerCrashes, readFailures>>

FeatureNext == ComputeOne \/ MinuteCloses \/ RowWritten \/ WorkerCrashes \/ WorkerStops

---------------------------------------------------------------------------
FeatureTypeOK ==
  /\ recordedRows \subseteq closedMinutes /\ closedMinutes \subseteq 0 .. LastFeatureMinute
  /\ Len(memory.window) <= WindowCapacity /\ Len(memory.wide) <= WindowCapacity
  /\ memory.applied \in closedMinutes \cup {-1}

Present(S) == {c \in S : c <= memory.applied} \ (unread \cup dropped)
Of(day, Session(_)) == {c \in closedMinutes : DayOf(c) = day /\ Session(c)}

(* The volume of a session counts every minute of it, and none twice, also *)
(* over a restart in it, but minutes a failed or an early read left out.   *)
SessionVolumeSound ==
  \A acc \in {<<memory.vwap, Of(memory.vwap.day, InRegular)>>,
              <<memory.extended, Of(memory.extended.day, InPlay)>>} :
    /\ Present(acc[2]) \subseteq acc[1].counted
    /\ acc[1].counted \subseteq acc[2] /\ acc[1].twice \subseteq dropped

(* A volume that is compared is of one session, the one its pace is of: no *)
(* minute of it lies outside, and there are no more than its pace allows,  *)
(* but the one that is just over.                                          *)
VolumeOnPace ==
  LET ts == memory.applied
  IN ts # -1 => \A pace \in Range(RelativeVolume(memory, ts) \o PremarketRatio(memory, ts)) :
       LET seen == {c \in pace.minutes : c <= ts}
       IN /\ \A c \in seen : SessionStart(c) = SessionStart(ts)
          /\ Cardinality(seen) <= pace.elapsed + 1

(* What is latched for the day is the day's: all of the last day that had  *)
(* candles, the whole of the pre-market, the open of the first regular     *)
(* minute.                                                                 *)
DayValuesSound ==
  LET rows == memory.previous.rows
      earlier == {c \in closedMinutes \ unread : DayOf(c) < memory.previous.day}
  IN /\ \A r \in rows : \A c \in earlier : DayOf(c) <= DayOf(r) /\ (DayOf(c) = DayOf(r) => c \in rows)
     /\ rows = {} => earlier = {}
     /\ \A r \in rows : DayOf(r) < memory.previous.day
     /\ Present(Of(memory.premarket.day, PreMarket)) \subseteq memory.premarket.rows
     /\ memory.premarket.rows \subseteq Of(memory.premarket.day, PreMarket)
     /\ memory.gap.open # -1 => InRegular(memory.gap.open) /\ DayOf(memory.gap.open) = memory.gap.day
     /\ \A c \in Present(Of(memory.gap.day, InRegular)) : memory.gap.open # -1 /\ memory.gap.open <= c

(* A window is the last closes, in order and without a hole, and a wider   *)
(* close that of the last minute of its bucket.                            *)
WindowsSound ==
  LET w == memory.window
      inWindow == {w[i] : i \in DOMAIN w}
  IN /\ \A i \in 1 .. Len(w) - 1 : w[i] < w[i + 1]
     /\ Len(w) >= Min({WindowCapacity, Cardinality(Present(closedMinutes))})
     /\ w # <<>> => \A c \in Present(closedMinutes) : c >= w[1] => c \in inWindow
     /\ \A i \in 1 .. Len(memory.wide) - 1 : memory.wide[i].bucket < memory.wide[i + 1].bucket
     /\ \A i \in DOMAIN memory.wide :
          \A c \in closedMinutes \ unread : BucketOf(c) = memory.wide[i].bucket => c <= memory.wide[i].close

---------------------------------------------------------------------------
(***************************************************************************)
(* indicators/daily_levels.py and its callers: the levels of a day,        *)
(* clustered from daily candles once a day and given the ids of the levels *)
(* of the day before, and the averages frozen from the same fetch.         *)
(*                                                                         *)
(* A tolerance is a distance instead of a share of the price.              *)
(***************************************************************************)

CONSTANTS
  LastDay, DailyBars,           \* days 0 .. LastDay; opens and closes of a day
  LevelLookback,                \* daily candles that are fetched
  RvolLookback,                 \* those the average volume of a day is taken of
  ClusterTolerance, MatchTolerance, MinCandles,
  MaxRefreshFailures, MaxDailyRestarts

VARIABLES
  dailyBars,    \* the daily candles of the days before today
  levelTable,   \* daily_level_state: id, price, status, last_confirmed_day
  levels,       \* _daily_levels_state, and whether its ids are ephemeral
  dailyCache,   \* _daily_candle_cache: the day it was fetched on, and the candles
  averages,     \* _atr_state: its day, and the day its candles were fetched on
  baseline,     \* _premarket_baseline_cache: its day, and the day it was fetched on
  refreshFailures, dailyRestarts

dailyVars == <<dailyBars, levelTable, levels, dailyCache, averages, baseline,
               refreshFailures, dailyRestarts>>

Today == Len(dailyBars)
Unset == -1
NoLevels == [day |-> Unset, set |-> {}, ephemeral |-> FALSE]
NoCache == [day |-> Unset, candles |-> <<>>]
NothingFrozen == [day |-> Unset, from |-> Unset]

DailyInit ==
  /\ dailyBars = <<>> /\ levelTable = {} /\ levels = NoLevels /\ dailyCache = NoCache
  /\ averages = NothingFrozen /\ baseline = NothingFrozen
  /\ refreshFailures = 0 /\ dailyRestarts = 0

LastN(s, n) == IF Len(s) <= n THEN s ELSE SubSeq(s, Len(s) - n + 1, Len(s))
RefreshFails == refreshFailures < MaxRefreshFailures /\ refreshFailures' = refreshFailures + 1

---------------------------------------------------------------------------
(* cluster_daily_levels, with exact averages: a price is a total and the   *)
(* number of points it is the average of.                                  *)

Distance(a, b) == IF a < b THEN b - a ELSE a - b
Total(points) == FoldSeq(LAMBDA p, sum : p.price + sum, 0, points)

(* mutant: only the new point is compared with the new average             *)
Fits_NewOnly(points) ==
  Distance(Last(points).price * Len(points), Total(points)) <= ClusterTolerance * Len(points)

Fits(points) ==
  \A i \in DOMAIN points :
    Distance(points[i].price * Len(points), Total(points)) <= ClusterTolerance * Len(points)

PointsOf(candles) ==
  SetToSortSeq({[candle |-> i, end |-> e, price |-> candles[i][e]] : i \in DOMAIN candles, e \in {1, 2}},
               LAMBDA a, b : \/ a.price < b.price
                             \/ a.price = b.price /\ 2 * a.candle + a.end < 2 * b.candle + b.end)

(* Points in ascending order join the cluster while it still fits.         *)
Grown(clusters, p) ==
  IF clusters = <<>> THEN <<<<p>>>>
  ELSE IF Fits(Append(Last(clusters), p)) THEN Append(Front(clusters), Append(Last(clusters), p))
  ELSE Append(clusters, <<p>>)

AllClusters(candles) == FoldLeft(Grown, <<>>, PointsOf(candles))

(* Prices are multiples of 60, so that averages of up to six are whole.    *)
Price(points) == Total(points) \div Len(points)
Clustered(candles) ==
  {Price(points) : points \in {points \in ToSet(AllClusters(candles)) :
     Len(points) >= 2 /\ Cardinality({points[i].candle : i \in DOMAIN points}) >= MinCandles}}

---------------------------------------------------------------------------
(* _reconcile_and_persist_daily_levels                                     *)

Active == {r \in levelTable : r.status = "active"}

(* Closest pairs first: a pair that is not taken has a price or a row that *)
(* a pair as close has.                                                    *)
Claims(prices, pairs) ==
  /\ \A q \in pairs : Distance(q[1], q[2].price) <= MatchTolerance
  /\ \A q, c \in pairs : q # c => q[1] # c[1] /\ q[2] # c[2]
  /\ \A q \in prices \X Active :
       Distance(q[1], q[2].price) <= MatchTolerance =>
         \E c \in pairs :
           (c[1] = q[1] \/ c[2] = q[2]) /\ Distance(c[1], c[2].price) <= Distance(q[1], q[2].price)

NewIds(n) == LET used == Max({0} \cup {r.id : r \in levelTable}) IN used + 1 .. used + n
Row(id, price) == [id |-> id, price |-> price, status |-> "active", confirmed |-> Today]

(* mutant: a level that no cluster confirms is deleted                     *)
Unconfirmed_Deleted(pairs) == {}

Unconfirmed(pairs) ==
  {[r EXCEPT !.status = "archived"] : r \in {r \in Active : \A q \in pairs : q[2] # r}}

(* The rows after it, one of the ways ids can be given to what is new      *)
Reconciled(prices, pairs) ==
  LET matched == {q[1] : q \in pairs}
      fresh == SetToSortSeq(prices \ matched, <)
      ids == SetToSortSeq(NewIds(Len(fresh)), <)
  IN (levelTable \ Active)
     \cup {Row(q[2].id, q[1]) : q \in pairs}
     \cup {Row(ids[i], fresh[i]) : i \in DOMAIN fresh}
     \cup Unconfirmed(pairs)

Shown(rows) == {[id |-> r.id, price |-> r.price] : r \in rows}
ConfirmedToday(rows) == {r \in rows : r.status = "active" /\ r.confirmed = Today}

(* _mint_adhoc_daily_levels                                                *)
Ephemeral(prices) == {[id |-> 0, price |-> p] : p \in prices}

---------------------------------------------------------------------------
(* _maybe_refresh_daily_levels, _maybe_refresh_premarket_baseline and      *)
(* _update_atr for one candle of today                                     *)

Fetched == LastN(dailyBars, LevelLookback)
Levels(set, ephemeral) == [day |-> Today, set |-> set, ephemeral |-> ephemeral]

(* What today's reconciliation left in the table, before a restart         *)
RestoredToday ==
  /\ ConfirmedToday(levelTable) # {}
  /\ levels' = Levels(Shown(ConfirmedToday(levelTable)), FALSE)
  /\ UNCHANGED <<levelTable, dailyCache, refreshFailures>>

(* Nothing is read, no provider is connected: levels there are stay.       *)
NoProvider ==
  /\ RefreshFails
  /\ levels' = IF levels = NoLevels THEN Levels({}, FALSE) ELSE levels
  /\ UNCHANGED <<levelTable, dailyCache>>

(* The provider does not have the symbol.                                  *)
NotServed ==
  /\ RefreshFails /\ levels' = Levels({}, FALSE) /\ UNCHANGED <<levelTable, dailyCache>>

(* Any other error: the next candle tries again.                           *)
FetchFails ==
  /\ RefreshFails /\ UNCHANGED <<levels, levelTable, dailyCache>>

(* The table is out of reach, before the fetch or after it, or does not    *)
(* say that it took the commit.                                            *)
Fetches ==
  \E pairs \in SUBSET (Clustered(Fetched) \X Active) :
    /\ Claims(Clustered(Fetched), pairs)
    /\ dailyCache' = [day |-> Today, candles |-> Fetched]
    /\ \/ /\ levelTable' = Reconciled(Clustered(Fetched), pairs)
          /\ levels' = Levels(Shown(ConfirmedToday(levelTable')), FALSE)
          /\ IF ConfirmedToday(levelTable) = {} THEN UNCHANGED refreshFailures ELSE RefreshFails
       \/ /\ RefreshFails /\ levels' = Levels(Ephemeral(Clustered(Fetched)), TRUE)
          /\ levelTable' \in {levelTable, Reconciled(Clustered(Fetched), pairs)}

RefreshLevels ==
  IF levels.day = Today THEN UNCHANGED <<levels, levelTable, dailyCache, refreshFailures>>
  ELSE RestoredToday \/ NoProvider \/ NotServed \/ FetchFails \/ Fetches

(* The volume of earlier pre-markets                                       *)
RefreshBaseline ==
  IF baseline.day = Today THEN UNCHANGED baseline
  ELSE baseline' \in {[day |-> Today, from |-> Today], [day |-> Today, from |-> Unset], baseline}

(* mutant: the averages are frozen before the day's fetch                  *)
CacheRead_Before == dailyCache

CacheRead == dailyCache'

(* The averages are frozen with the first candle of the day, from what the *)
(* cache then has.                                                         *)
FirstCandles ==
  /\ levels.day # Today \/ baseline.day # Today \/ averages.day # Today
  /\ RefreshLevels /\ RefreshBaseline
  /\ averages' = IF averages.day = Today THEN averages ELSE [day |-> Today, from |-> CacheRead.day]
  /\ UNCHANGED <<dailyBars, dailyRestarts>>

(* _update_rvol compares today's volume with the last days of the cache,   *)
(* whenever it was fetched.                                                *)
RvolDays ==
  IF Len(dailyCache.candles) < RvolLookback THEN <<>> ELSE LastN(dailyCache.candles, RvolLookback)

NextDay ==
  /\ Today < LastDay
  /\ \E bar \in DailyBars : dailyBars' = Append(dailyBars, bar)
  /\ UNCHANGED <<levelTable, levels, dailyCache, averages, baseline, refreshFailures, dailyRestarts>>

RestartDaily ==
  /\ dailyRestarts < MaxDailyRestarts /\ dailyRestarts' = dailyRestarts + 1
  /\ levels' = NoLevels /\ dailyCache' = NoCache /\ averages' = NothingFrozen /\ baseline' = NothingFrozen
  /\ UNCHANGED <<dailyBars, levelTable, refreshFailures>>

DailyNext == FirstCandles \/ NextDay \/ RestartDaily

---------------------------------------------------------------------------
DailyTypeOK ==
  /\ levels.day <= Today /\ dailyCache.day <= Today /\ averages.day <= Today /\ baseline.day <= Today
  /\ \A r \in levelTable : r.status \in {"active", "archived"} /\ r.confirmed <= Today

(* Points are in one cluster each, in order; a cluster is as large as its  *)
(* average allows, and no two levels have one price.                       *)
ClustersSound ==
  LET clusters == AllClusters(Fetched)
  IN /\ FlattenSeq(clusters) = PointsOf(Fetched)
     /\ \A i \in DOMAIN clusters :
          LET c == clusters[i]
          IN /\ \A k \in DOMAIN c : Distance(c[k].price, Price(c)) <= ClusterTolerance
             /\ i < Len(clusters) =>
                  Price(c) < Price(clusters[i + 1]) /\ ~Fits(Append(c, clusters[i + 1][1]))

(* A level has one id and one price, the published ones are those of the   *)
(* table, and a restart on the same day changes nothing; the average true  *)
(* range is today's or absent and the volume compared with that of the     *)
(* last days, if the day's fetch did not fail.                             *)
LevelsSound ==
  /\ \A r, s \in levelTable : r # s => r.id # s.id /\ (r \in Active /\ s \in Active => r.price # s.price)
  /\ levels.day = Today /\ ~levels.ephemeral /\ levels.set # {} =>
       levels.set = Shown(ConfirmedToday(levelTable))
  /\ refreshFailures = 0 =>
       /\ averages.from \in {Unset, averages.day}
       /\ levels.day = Today => RvolDays \in {<<>>, LastN(dailyBars, RvolLookback)}

(* An id stays with its price, which moves by less than the tolerance in a *)
(* day; once archived it does not come back; an unmoved price keeps its    *)
(* id.                                                                     *)
IdsKept ==
  [][\A r \in levelTable : \E s \in levelTable' :
       /\ s.id = r.id /\ Distance(s.price, r.price) <= MatchTolerance
       /\ r.status = "archived" => s = r
       /\ r.status = "active" =>
            \A t \in levelTable' : t.status = "active" /\ t.price = r.price => t.id = r.id]_dailyVars

=============================================================================
