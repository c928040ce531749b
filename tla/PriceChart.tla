------------------------------ MODULE PriceChart ------------------------------
(***************************************************************************)
(* The price chart (components/charts/useBTCUSDTChartData.ts and           *)
(* BTCUSDTPriceChart.tsx): the candles of the selected interval, older ones *)
(* as the user scrolls, a reload whenever the cache is said to have         *)
(* changed, and a drawn series that is brought up to date in place.        *)
(*                                                                         *)
(* Effects run with the render that follows a change of state, so each     *)
(* action below draws what it leaves.                                      *)
(***************************************************************************)
EXTENDS Naturals, FiniteSets

CONSTANTS
  MaxTime,      \* candles the server can come to have
  PageLen,      \* candles in an answer, at most
  MaxFetches    \* requests under way, at most

ASSUME ChartAssumption ==
  MaxTime \in Nat /\ PageLen \in Nat \ {0} /\ MaxFetches \in Nat \ {0}

VARIABLES
  cached,    \* [last, rev]: the newest candle of the server, and its revision
  chart,     \* [interval, data, loading, older, more, failed]
  series,    \* [created, drawn, prev]: the chart object, its candles, those of the last effect
  fetches,   \* requests: [id, kind, interval, before, current, shows]
  strayed    \* history: an older page has come to a chart without candles

chartVars == <<cached, chart, series, fetches, strayed>>

Interval == {"1m", "5m"}

Empty == [t \in {} |-> "none"]

NoSeries == [created |-> FALSE, drawn |-> Empty, prev |-> Empty]

Newest(data) == CHOOSE t \in DOMAIN data : \A u \in DOMAIN data : u <= t
Oldest(data) == CHOOSE t \in DOMAIN data : \A u \in DOMAIN data : t <= u

\* The newest candle is still changing, the others are final.
CandleAt(t, interval) == <<interval, IF t < cached.last THEN "final" ELSE cached.rev>>

\* The newest candles up to a time.
Candles(upto, interval) ==
  [t \in {t \in 1 .. upto : t + PageLen > upto} |-> CandleAt(t, interval)]

\* normalizeAscUnique: of two candles of one time the later in the list.
Merged(older, data) ==
  [t \in DOMAIN older \cup DOMAIN data |-> IF t \in DOMAIN data THEN data[t] ELSE older[t]]
-----------------------------------------------------------------------------
(* Drawing. *)

\* As a bug would have it: the series is extended whatever it starts with.
NoPrefixTest(prev, next) == Cardinality(DOMAIN prev) <= Cardinality(DOMAIN next)

\* isPrefixMatch: the times drawn last are the first of the new ones.
IsPrefixMatch(prev, next) ==
  /\ DOMAIN prev \subseteq DOMAIN next
  /\ \A t \in DOMAIN next \ DOMAIN prev : \A u \in DOMAIN prev : u < t

\* setData, or an update of the candles that come after those drawn, or of the
\* last one when it has changed.
DrawnOver(s, data) ==
  LET added == DOMAIN data \ DOMAIN s.prev
      last  == Newest(data)
  IN IF s.prev = Empty \/ ~IsPrefixMatch(s.prev, data) THEN data
     ELSE IF added # {} THEN Merged(s.drawn, [t \in added |-> data[t]])
     ELSE IF s.prev[last] # data[last] THEN [s.drawn EXCEPT ![last] = data[last]]
     ELSE s.drawn

\* The chart effect and the effect that removes the chart.
Redraw(c, s) ==
  IF c.data = Empty THEN NoSeries
  ELSE IF c.loading \/ c.failed THEN s
  ELSE [created |-> TRUE, drawn |-> DrawnOver(s, c.data), prev |-> c.data]

Show(c) == chart' = c /\ series' = Redraw(c, series)
-----------------------------------------------------------------------------
(* loadRange and loadOlder. *)

Fetch(fs, kind, interval, before, shows) ==
  fs \cup {[kind |-> kind, interval |-> interval, before |-> before, current |-> TRUE, shows |-> shows,
            id |-> CHOOSE i \in 1 .. MaxFetches : \A f \in fs : f.id # i]}

Superseded(fs) == {IF f.kind = "range" THEN [f EXCEPT !.current = FALSE] ELSE f : f \in fs}

\* As a bug would have it: every reload shows the loading message.
ShowLoadingAlways(c) == TRUE

\* shouldShowLoading: there is nothing to go on showing.
ShouldShowLoading(c) == c.data = Empty

LoadRange(c) ==
  /\ Cardinality(fetches) < MaxFetches
  /\ fetches' = Fetch(Superseded(fetches), "range", c.interval, 0, ShouldShowLoading(c))
  /\ Show([c EXCEPT !.loading = @ \/ ShouldShowLoading(c), !.failed = FALSE])

ChartInit ==
  /\ cached \in [last : 0 .. MaxTime, rev : {"open"}]
  /\ chart = [interval |-> "1m", data |-> Empty, loading |-> TRUE, older |-> FALSE, more |-> FALSE, failed |-> FALSE]
  /\ series = NoSeries
  /\ fetches = Fetch({}, "range", "1m", 0, TRUE)
  /\ strayed = FALSE

\* The interval buttons of the dashboard.
SelectInterval ==
  /\ \E i \in Interval \ {chart.interval} : LoadRange([chart EXCEPT !.interval = i])
  /\ UNCHANGED <<cached, strayed>>

\* An event tells the page that the cache has changed.
CacheUpdated ==
  /\ LoadRange(chart)
  /\ UNCHANGED <<cached, strayed>>

\* The user scrolls near the oldest candle.
LoadOlder ==
  /\ series.created
  /\ ~chart.loading /\ ~chart.older /\ chart.more /\ chart.data # Empty
  /\ Cardinality(fetches) < MaxFetches
  /\ fetches' = Fetch(fetches, "older", chart.interval, Oldest(chart.data), FALSE)
  /\ Show([chart EXCEPT !.older = TRUE])
  /\ UNCHANGED <<cached, strayed>>

\* The finally block of loadRange.
Finally(c, f) == [c EXCEPT !.loading = @ /\ ~f.shows, !.older = @ /\ ~f.shows]

RangeAnswered ==
  /\ \E f \in fetches :
       /\ f.kind = "range"
       /\ fetches' = fetches \ {f}
       /\ IF ~f.current THEN UNCHANGED <<chart, series>>
          ELSE Show(Finally([chart EXCEPT !.data = Candles(cached.last, f.interval),
                                          !.more = cached.last > PageLen], f))
  /\ UNCHANGED <<cached, strayed>>

RangeFails ==
  /\ \E f \in fetches :
       /\ f.kind = "range"
       /\ fetches' = fetches \ {f}
       /\ IF ~f.current THEN UNCHANGED <<chart, series>>
          ELSE Show(Finally([chart EXCEPT !.data = Empty, !.failed = TRUE], f))
  /\ UNCHANGED <<cached, strayed>>

\* Whatever the chart has come to show since it was asked for.
OlderAnswered ==
  /\ \E f \in fetches :
       LET upto == IF f.before - 1 < cached.last THEN f.before - 1 ELSE cached.last
       IN /\ f.kind = "older"
          /\ fetches' = fetches \ {f}
          /\ Show([chart EXCEPT !.data = Merged(Candles(upto, f.interval), @),
                                !.more = upto > PageLen, !.older = FALSE])
          /\ strayed' = (strayed \/ chart.data = Empty)
  /\ UNCHANGED cached

OlderFails ==
  /\ \E f \in fetches : f.kind = "older" /\ fetches' = fetches \ {f}
  /\ Show([chart EXCEPT !.older = FALSE])
  /\ UNCHANGED <<cached, strayed>>
-----------------------------------------------------------------------------
(* The server's cache (external). *)

CacheGrows ==
  /\ cached.last < MaxTime
  /\ cached' = [last |-> cached.last + 1, rev |-> "open"]
  /\ UNCHANGED <<chart, series, fetches, strayed>>

CandleChanges ==
  /\ cached.last > 0
  /\ cached' = [cached EXCEPT !.rev = "later"]
  /\ UNCHANGED <<chart, series, fetches, strayed>>

CacheCleared ==
  /\ cached' = [last |-> 0, rev |-> "open"]
  /\ UNCHANGED <<chart, series, fetches, strayed>>

ChartNext ==
  \/ SelectInterval \/ CacheUpdated \/ LoadOlder
  \/ RangeAnswered \/ RangeFails \/ OlderAnswered \/ OlderFails
  \/ CacheGrows \/ CandleChanges \/ CacheCleared
-----------------------------------------------------------------------------
\* What the card shows.
ChartView ==
  CASE chart.loading                       -> "loading"
    [] ~chart.loading /\ chart.failed      -> "error"
    [] ~chart.loading /\ ~chart.failed     -> IF chart.data = Empty THEN "empty" ELSE "chart"

ChartTypeOK ==
  /\ cached.last \in 0 .. MaxTime
  /\ DOMAIN chart.data \subseteq 1 .. MaxTime
  /\ Cardinality(fetches) <= MaxFetches

\* The element that the chart object draws in is there only while the card
\* shows the chart: the object is never left drawing in one that is gone.
ChartIsOnThePage == series.created => ChartView = "chart"

\* After any reloads, older pages, changes of interval and cleared caches, the
\* series drawn in place has exactly the candles held, and the newest of them
\* as it is now.  (An earlier one may keep the values it had while it was new.)
SeriesHasTheCandles ==
  series.created =>
    /\ DOMAIN series.drawn = DOMAIN chart.data
    /\ series.drawn[Newest(chart.data)] = chart.data[Newest(chart.data)]

\* A chart that says it is loading has the request under way that ends it,
\* unless an older page arrived where there were no candles left.
ChartLoadingEnds ==
  chart.loading => strayed \/ \E f \in fetches : f.kind = "range" /\ f.current /\ f.shows
=============================================================================
