--------------------------- MODULE AnswersProofs ----------------------------
(*****************************************************************************)
(* Pages that show what the server answers, whose answers come late, out of  *)
(* order or not at all: the lists, the price chart, the stars, the decisions *)
(* about blueprints and jobs, the documents, the results of an experiment.   *)
(* The invariants follow the requests under way: each may still bring what   *)
(* the page then shows, and what it brings may take away what is selected.   *)
(*****************************************************************************)
EXTENDS PageLists, PriceChart, Favourites, DecisionPages, Documentation, ExperimentPage, ModelPage,
        WellFoundedInduction, FunctionTheorems, FiniteSetTheorems, SequenceTheorems, TLAPS

(* The lists. *)

ListsSpec == ListInit /\ [][ListNext]_listVars

\* A record is known by its fields.
TableFields == {"answer", "pages", "loading", "failed"}
LoadFields == {"query", "live", "id"}

TableOK == table = [x \in TableFields |-> table[x]]

LoadOK(l) == l = [x \in LoadFields |-> l[x]]

\* A load that is still owned is for what the page wants.
OwnedIsWanted == Guarded => \A l \in listLoads : l.live => l.query = wanted

\* What was answered last is what the page wants, unless that is on its way or
\* has failed.
AnswerIsWanted ==
  /\ Guarded /\ ~table.loading /\ ~table.failed => table.answer = {wanted}
  /\ listView \in ReadOnce => table.answer \subseteq {wanted}

CancelsRuns == listCancel # {} => listView = "experiments"

ListsInv ==
  /\ listView \in ListViews
  /\ TableOK
  /\ \A l \in listLoads : LoadOK(l)
  /\ OwnedIsWanted
  /\ AnswerIsWanted
  /\ CancelsRuns
  /\ LoadingEnds
-----------------------------------------------------------------------------
LEMMA ListsInitOK == ListInit => ListsInv
<1> SUFFICES ASSUME ListInit PROVE ListsInv
  OBVIOUS
<1> USE DEF ListInit
<1>1. TableOK
  BY DEF TableOK, TableFields
<1>2. PICK i : listLoads = {[query |-> wanted, live |-> TRUE, id |-> i]}
  BY DEF NewLoad
<1>3. (\A l \in listLoads : LoadOK(l)) /\ OwnedIsWanted
  BY <1>2 DEF LoadOK, LoadFields, OwnedIsWanted
<1>4. LoadingEnds
  <2> DEFINE first == [query |-> wanted, live |-> TRUE, id |-> i]
  <2>1. first \in listLoads /\ first.live
    BY <1>2
  <2> QED BY <2>1 DEF LoadingEnds
<1> QED BY <1>1, <1>3, <1>4 DEF ListsInv, AnswerIsWanted, CancelsRuns

\* A run of the load effect for what is wanted from now on; on the experiment
\* list it may be for something else.
LEMMA ReloadOK ==
  ASSUME ListsInv, NEW query, Reload(query), UNCHANGED listView,
         Guarded => wanted' = query, listView \in ReadOnce => UNCHANGED wanted, CancelsRuns'
  PROVE  ListsInv'
<1> USE DEF ListsInv
<1>1. PICK i : listLoads' = Disowned(listLoads) \cup {[query |-> query, live |-> TRUE, id |-> i]}
  BY DEF Reload, NewLoad
<1>2. \A l \in Disowned(listLoads) : LoadOK(l) /\ (Guarded => ~l.live)
  BY DEF Disowned, LoadOK, LoadFields
<1>3. \A l \in listLoads' : LoadOK(l) /\ (Guarded /\ l.live => l.query = query)
  BY <1>1, <1>2 DEF LoadOK, LoadFields
<1>4. \E l \in listLoads' : l.live
  <2> DEFINE new == [query |-> query, live |-> TRUE, id |-> i]
  <2>1. new \in listLoads' /\ new.live
    BY <1>1
  <2> QED BY <2>1
<1>5. TableOK' /\ table'.loading /\ table'.answer = table.answer
  BY DEF Reload, TableOK, TableFields
<1> QED BY <1>3, <1>4, <1>5 DEF LoadOK, OwnedIsWanted, AnswerIsWanted, LoadingEnds, Guarded, Catches

\* Asking for something, if it is not what is wanted already.
LEMMA WantOK ==
  ASSUME ListsInv, NEW query, Want(query), UNCHANGED <<listView, listCancel>>, listView \notin ReadOnce
  PROVE  ListsInv'
<1>1. CASE query = wanted
  BY <1>1 DEF Want, ListsInv, TableOK, LoadOK, OwnedIsWanted, AnswerIsWanted, CancelsRuns, LoadingEnds,
     Guarded, Catches
<1>2. CASE query # wanted
  BY <1>2, ReloadOK DEF Want, ListsInv, CancelsRuns
<1> QED BY <1>1, <1>2

LEMMA UserStepsOK ==
  ASSUME ListsInv, TypeFilter \/ Debounce \/ ApplyFilters \/ ClearFilters \/ SortBy \/ TurnListPage
  PROVE  ListsInv'
<1>1. CASE TypeFilter
  <2>1. CASE Immediate
    BY <1>1, <2>1, WantOK DEF TypeFilter
  <2>2. CASE ~Immediate
    BY <1>1, <2>2 DEF TypeFilter, ListsInv, TableOK, LoadOK, OwnedIsWanted, AnswerIsWanted, CancelsRuns,
       LoadingEnds, Guarded, Catches
  <2> QED BY <2>1, <2>2
<1>2. CASE Debounce
  BY <1>2, WantOK DEF Debounce, ReadOnce
<1>3. CASE ApplyFilters
  BY <1>3, WantOK DEF ApplyFilters, ReadOnce
<1>4. CASE ClearFilters
  BY <1>4, ReloadOK DEF ClearFilters, ReadOnce, ListsInv, CancelsRuns
<1>5. CASE SortBy
  BY <1>5, WantOK DEF SortBy, ReadOnce
<1>6. CASE TurnListPage
  BY <1>6, WantOK DEF TurnListPage, ReadOnce
<1> QED BY <1>1, <1>2, <1>3, <1>4, <1>5, <1>6

LEMMA CancelsOK ==
  ASSUME ListsInv, CancelListed \/ CancelListedAnswered
  PROVE  ListsInv'
<1>1. CASE CancelListed
  BY <1>1 DEF CancelListed, ListsInv, TableOK, LoadOK, OwnedIsWanted, AnswerIsWanted, CancelsRuns, LoadingEnds,
     Guarded, Catches
<1>2. CASE CancelListedAnswered
  <2>1. PICK q \in listCancel : Reload(q) \/ UNCHANGED <<table, listLoads>>
    BY <1>2 DEF CancelListedAnswered
  <2>2. listView = "experiments" /\ UNCHANGED <<listView, wanted>> /\ CancelsRuns'
    BY <1>2, <2>1 DEF CancelListedAnswered, ListsInv, CancelsRuns
  <2>3. CASE Reload(q)
    BY <2>2, <2>3, ReloadOK DEF Guarded
  <2>4. CASE UNCHANGED <<table, listLoads>>
    BY <2>2, <2>4 DEF ListsInv, TableOK, LoadOK, OwnedIsWanted, AnswerIsWanted, LoadingEnds, Guarded, Catches
  <2> QED BY <2>1, <2>3, <2>4
<1> QED BY <1>1, <1>2

\* An answer, or a failure, takes its load away; when that was owned, nothing
\* is loading any more.
LEMMA ArrivalsOK ==
  ASSUME ListsInv, ListAnswered \/ LoadingFails
  PROVE  ListsInv'
<1> USE DEF ListsInv
<1>1. PICK l \in listLoads :
        /\ listLoads' = listLoads \ {l}
        /\ \/ ~l.live /\ table' = table
           \/ ~Catches /\ table' = table
           \/ /\ l.live /\ ~table'.loading /\ TableOK'
              /\ table'.answer \subseteq {l.query} \cup table.answer
              /\ ~table'.failed => table'.answer = {l.query}
              /\ table'.answer \in {{}, {l.query}, table.answer}
  <2>1. CASE ListAnswered
    <3> PICK l \in listLoads :
          /\ listLoads' = listLoads \ {l}
          /\ table' = IF ~l.live THEN table
               ELSE [answer |-> {l.query}, pages |-> PagesOf[l.query.filter],
                     loading |-> FALSE, failed |-> table.failed]
      BY <2>1 DEF ListAnswered
    <3>1. CASE l.live
      <4>1. TableOK' /\ ~table'.loading /\ table'.answer = {l.query}
        BY <3>1 DEF TableOK, TableFields
      <4> QED BY <3>1, <4>1
    <3> QED BY <3>1
  <2>2. CASE LoadingFails
    <3> PICK l \in listLoads :
          /\ listLoads' = listLoads \ {l}
          /\ table' = IF ~l.live \/ ~Catches THEN table
               ELSE [table EXCEPT !.failed = TRUE, !.loading = FALSE,
                       !.answer = IF listView \in {"experiments", "rankings", "highlights"} THEN {} ELSE @]
      BY <2>2 DEF LoadingFails
    <3>1. CASE l.live /\ Catches
      <4>1. TableOK' /\ table'.failed /\ ~table'.loading /\ table'.answer \in {{}, table.answer}
        BY <3>1 DEF TableOK, TableFields
      <4> QED BY <3>1, <4>1
    <3> QED BY <3>1
  <2> QED BY <2>1, <2>2
<1>2. UNCHANGED <<listView, inputs, wanted>> /\ CancelsRuns'
  BY DEF ListAnswered, LoadingFails, CancelsRuns
<1>3. (\A k \in listLoads : LoadOK(k))' /\ OwnedIsWanted'
  BY <1>1, <1>2 DEF LoadOK, OwnedIsWanted, Guarded
<1>4. TableOK' /\ AnswerIsWanted'
  BY <1>1, <1>2 DEF TableOK, OwnedIsWanted, AnswerIsWanted, Guarded, ReadOnce
<1>5. LoadingEnds'
  BY <1>1, <1>2 DEF LoadingEnds, Catches
<1> QED BY <1>2, <1>3, <1>4, <1>5

LEMMA ListsNextOK == ListsInv /\ [ListNext]_listVars => ListsInv'
<1> SUFFICES ASSUME ListsInv, [ListNext]_listVars PROVE ListsInv'
  OBVIOUS
<1>1. CASE UNCHANGED listVars
  BY <1>1 DEF listVars, ListsInv, TableOK, LoadOK, OwnedIsWanted, AnswerIsWanted, CancelsRuns, LoadingEnds,
     Guarded, Catches
<1>2. CASE ListNext
  BY <1>2, UserStepsOK, CancelsOK, ArrivalsOK DEF ListNext
<1> QED BY <1>1, <1>2

\* The invariant holds for any filters and any number of loads.
THEOREM ListsInvariant == ListsSpec => []ListsInv
BY ListsInitOK, ListsNextOK, PTL DEF ListsSpec

\* Rows, and the word that there are none, are there only when what is wanted
\* was answered.
LEMMA RowsAreAnswered == ListsInv => RowsAreOfQuery
<1> SUFFICES ASSUME ListsInv, Guarded, ~table.failed, ListShown \cap {"rows", "empty"} # {}
             PROVE  table.answer = {wanted}
  BY DEF RowsAreOfQuery
<1> USE DEF ListsInv
<1>1. CASE ~table.loading
  BY <1>1 DEF AnswerIsWanted
<1>2. CASE table.loading
  <2>1. listView = "profile"
    BY <1>2 DEF ListShown, ListViews, ReadOnce, Guarded, OneAtATime, DashboardShown, Told
  <2>2. HasRows
    BY <1>2, <2>1 DEF ListShown, OneAtATime, Told
  <2> QED BY <2>1, <2>2 DEF HasRows, AnswerIsWanted, ReadOnce
<1> QED BY <1>1, <1>2 DEF TableOK

\* Whatever order the answers come in, rows that a page shows are those of the
\* filter, the order and the page that it was last asked for.
THEOREM RowsAreOfQueryAlways == ListsSpec => []RowsAreOfQuery
BY ListsInvariant, RowsAreAnswered, PTL

\* A page that says it is loading has a load under way that will end it.
THEOREM LoadingEndsAlways == ListsSpec => []LoadingEnds
<1>1. ListsInv => LoadingEnds
  BY DEF ListsInv
<1> QED BY <1>1, ListsInvariant, PTL
-----------------------------------------------------------------------------
(* The price chart. *)

ChartSpec == ChartInit /\ [][ChartNext]_chartVars

\* A record is known by its fields.
ChartFields == {"interval", "data", "loading", "older", "more", "failed"}
FetchFields == {"kind", "interval", "before", "current", "shows", "id"}

IsCandles(data) == data = [t \in DOMAIN data |-> data[t]] /\ DOMAIN data \subseteq 1 .. MaxTime

ChartOK(c) == c = [x \in ChartFields |-> c[x]] /\ IsCandles(c.data)

FetchOK(f) == f = [x \in FetchFields |-> f[x]] /\ f.before \in Nat

\* There is no series, or one for a chart that is shown, drawn from its candles.
SeriesOK(s, c) ==
  /\ ~s.created => s = NoSeries
  /\ s.created => /\ c.data # Empty /\ ~c.loading /\ ~c.failed
                  /\ s.prev = c.data
                  /\ DOMAIN s.drawn = DOMAIN c.data
                  /\ s.drawn[Newest(c.data)] = c.data[Newest(c.data)]

Current(f) == f.kind = "range" /\ f.current

\* A reload disowns those before it.
OneCurrent == \A f, g \in fetches : Current(f) /\ Current(g) => f = g

\* The loading message is there only where there are no candles.
LoadingIsEmpty == chart.loading => strayed \/ chart.data = Empty

ChartInv ==
  /\ cached.last \in 0 .. MaxTime
  /\ ChartOK(chart)
  /\ \A f \in fetches : FetchOK(f)
  /\ SeriesOK(series, chart)
  /\ OneCurrent
  /\ LoadingIsEmpty
  /\ ChartLoadingEnds
-----------------------------------------------------------------------------
(* Candles. *)

LEMMA Bounds == MaxTime \in Nat /\ PageLen \in Nat
BY ChartAssumption

\* Candles have a newest one.
LEMMA NewestIsLast ==
  ASSUME NEW data, DOMAIN data \subseteq 1 .. MaxTime, DOMAIN data # {}
  PROVE  Newest(data) \in DOMAIN data /\ \A u \in DOMAIN data : u <= Newest(data)
<1> DEFINE Left == {n \in Nat : \E u \in DOMAIN data : n = MaxTime - u}
<1>1. \A u \in DOMAIN data : u \in Nat /\ u <= MaxTime
  BY Bounds
<1>2. Left \in SUBSET Nat /\ Left # {}
  <2>1. PICK u \in DOMAIN data : TRUE
    OBVIOUS
  <2>2. MaxTime - u \in Left
    BY <1>1, Bounds
  <2> QED BY <2>2
<1> HIDE DEF Left
<1>3. PICK least \in Left : \A m \in Left : ~(<<m, least>> \in OpToRel(<, Nat))
  BY <1>2, NatLessThanWellFounded, WFMin
<1>4. PICK t \in DOMAIN data : least = MaxTime - t
  BY DEF Left
<1>5. ASSUME NEW u \in DOMAIN data PROVE u <= t
  <2>1. MaxTime - u \in Left /\ MaxTime - u \in Nat /\ least \in Nat
    BY <1>1, <1>2, Bounds DEF Left
  <2>2. ~(MaxTime - u < least)
    BY <1>3, <2>1 DEF OpToRel
  <2> QED BY <1>1, <1>4, <2>1, <2>2, Bounds
<1> QED BY <1>5 DEF Newest

\* And an oldest one.
LEMMA OldestIsFirst ==
  ASSUME NEW data, DOMAIN data \subseteq 1 .. MaxTime, DOMAIN data # {}
  PROVE  Oldest(data) \in DOMAIN data
<1>1. DOMAIN data \in SUBSET Nat /\ DOMAIN data # {}
  BY Bounds
<1>2. PICK t \in DOMAIN data : \A u \in DOMAIN data : ~(<<u, t>> \in OpToRel(<, Nat))
  BY <1>1, NatLessThanWellFounded, WFMin
<1>3. ASSUME NEW u \in DOMAIN data PROVE t <= u
  <2>1. u \in Nat /\ t \in Nat
    BY <1>1
  <2>2. u < t => <<u, t>> \in OpToRel(<, Nat)
    BY <2>1 DEF OpToRel
  <2>3. ~(u < t)
    BY <1>2, <2>2
  <2> QED BY <2>1, <2>3
<1> QED BY <1>3 DEF Oldest

LEMMA NoCandles == ASSUME NEW data, IsCandles(data), data # Empty PROVE DOMAIN data # {}
BY DEF IsCandles, Empty

\* An answer has candles the server has.
LEMMA CandlesOK ==
  ASSUME NEW upto, upto \in Int, upto <= MaxTime, NEW interval
  PROVE  IsCandles(Candles(upto, interval))
BY Bounds DEF IsCandles, Candles

LEMMA MergedOK ==
  ASSUME NEW older, NEW data, IsCandles(older), IsCandles(data)
  PROVE  IsCandles(Merged(older, data)) /\ (data # Empty => Merged(older, data) # Empty)
<1>1. IsCandles(Merged(older, data))
  BY DEF IsCandles, Merged
<1>2. DOMAIN Merged(older, data) = DOMAIN older \cup DOMAIN data
  BY DEF Merged
<1>3. DOMAIN Empty = {}
  BY DEF Empty
<1> QED BY <1>1, <1>2, <1>3, NoCandles
-----------------------------------------------------------------------------
(* Drawing. *)

\* Drawing in place leaves the new candles' times and the newest candle.
LEMMA DrawnOverOK ==
  ASSUME NEW s, NEW data, IsCandles(s.prev), IsCandles(data), data # Empty,
         s.prev # Empty => /\ DOMAIN s.drawn = DOMAIN s.prev
                           /\ s.drawn[Newest(s.prev)] = s.prev[Newest(s.prev)]
  PROVE  /\ DOMAIN DrawnOver(s, data) = DOMAIN data
         /\ DrawnOver(s, data)[Newest(data)] = data[Newest(data)]
<1> DEFINE added == DOMAIN data \ DOMAIN s.prev
           last  == Newest(data)
<1>1. CASE s.prev = Empty \/ ~IsPrefixMatch(s.prev, data)
  BY <1>1 DEF DrawnOver
<1>2. CASE s.prev # Empty /\ IsPrefixMatch(s.prev, data)
  <2>1. DOMAIN data # {} /\ DOMAIN s.prev # {}
    BY <1>2, NoCandles
  <2>2. last \in DOMAIN data /\ \A u \in DOMAIN data : u <= last
    BY <2>1, NewestIsLast DEF IsCandles
  <2>3. DOMAIN data \subseteq Nat
    BY Bounds DEF IsCandles
  <2>4. DOMAIN s.prev \subseteq DOMAIN data /\ \A t \in added : \A u \in DOMAIN s.prev : u < t
    BY <1>2 DEF IsPrefixMatch
  <2>5. CASE added # {}
    <3>1. DrawnOver(s, data) = Merged(s.drawn, [t \in added |-> data[t]])
      BY <1>2, <2>5 DEF DrawnOver
    <3>2. last \in added
      <4>1. PICK t \in added : TRUE
        BY <2>5
      <4> SUFFICES ASSUME last \in DOMAIN s.prev PROVE FALSE
        BY <2>2
      <4>2. last < t /\ t <= last
        BY <2>2, <2>4, <4>1
      <4> QED BY <2>2, <2>3, <4>1, <4>2
    <3>3. DOMAIN s.drawn \cup added = DOMAIN data
      BY <1>2, <2>4
    <3> HIDE DEF added, last
    <3>4. /\ DOMAIN Merged(s.drawn, [t \in added |-> data[t]]) = DOMAIN s.drawn \cup added
          /\ Merged(s.drawn, [t \in added |-> data[t]])[last] = data[last]
      BY <3>2 DEF Merged
    <3> QED BY <3>1, <3>3, <3>4 DEF last
  <2>6. CASE added = {} /\ s.prev[last] # data[last]
    <3>1. DrawnOver(s, data) = [s.drawn EXCEPT ![last] = data[last]]
      BY <1>2, <2>6 DEF DrawnOver
    <3>2. DOMAIN s.drawn = DOMAIN data /\ last \in DOMAIN s.drawn
      BY <1>2, <2>2, <2>4, <2>6
    <3> HIDE DEF last
    <3> QED BY <3>1, <3>2 DEF last
  <2>7. CASE added = {} /\ s.prev[last] = data[last]
    <3>1. DrawnOver(s, data) = s.drawn
      BY <1>2, <2>7 DEF DrawnOver
    <3>2. DOMAIN s.prev = DOMAIN data
      BY <2>4, <2>7
    <3>3. Newest(s.prev) = last
      <4>1. Newest(s.prev) \in DOMAIN s.prev /\ \A u \in DOMAIN s.prev : u <= Newest(s.prev)
        BY <2>1, NewestIsLast DEF IsCandles
      <4> HIDE DEF last
      <4>2. Newest(s.prev) <= last /\ last <= Newest(s.prev)
        BY <2>2, <3>2, <4>1
      <4> QED BY <2>2, <2>3, <3>2, <4>1, <4>2
    <3> QED BY <1>2, <2>7, <3>1, <3>2, <3>3
  <2> QED BY <2>5, <2>6, <2>7
<1> QED BY <1>1, <1>2

\* A chart that stays on the page, or loses its candles, is drawn right.
LEMMA RedrawOK ==
  ASSUME NEW s, NEW old, NEW c, SeriesOK(s, old), IsCandles(old.data), IsCandles(c.data),
         s.created => c.data = Empty \/ (~c.loading /\ ~c.failed)
  PROVE  SeriesOK(Redraw(c, s), c)
<1>1. CASE c.data = Empty
  BY <1>1 DEF Redraw, SeriesOK, NoSeries
<1>2. CASE c.data # Empty /\ (c.loading \/ c.failed)
  <2>1. ~s.created /\ Redraw(c, s) = s
    BY <1>2 DEF Redraw
  <2> QED BY <2>1 DEF SeriesOK
<1>3. CASE c.data # Empty /\ ~(c.loading \/ c.failed)
  <2>1. Redraw(c, s) = [created |-> TRUE, drawn |-> DrawnOver(s, c.data), prev |-> c.data]
    BY <1>3 DEF Redraw
  <2>2. IsCandles(s.prev) /\ (s.prev # Empty => s.created)
    <3>1. CASE s.created
      BY <3>1 DEF SeriesOK
    <3>2. CASE ~s.created
      BY <3>2 DEF SeriesOK, NoSeries, IsCandles, Empty
    <3> QED BY <3>1, <3>2
  <2>3. s.prev # Empty => /\ DOMAIN s.drawn = DOMAIN s.prev
                          /\ s.drawn[Newest(s.prev)] = s.prev[Newest(s.prev)]
    BY <2>2 DEF SeriesOK
  <2>4. /\ DOMAIN DrawnOver(s, c.data) = DOMAIN c.data
        /\ DrawnOver(s, c.data)[Newest(c.data)] = c.data[Newest(c.data)]
    BY <1>3, <2>2, <2>3, DrawnOverOK
  <2> QED BY <1>3, <2>1, <2>4 DEF SeriesOK
<1> QED BY <1>1, <1>2, <1>3
-----------------------------------------------------------------------------
(* The steps.  Every step but those of the server draws what it leaves. *)

LEMMA ShowOK ==
  ASSUME ChartInv, NEW c, ChartOK(c), Show(c),
         series.created => c.data = Empty \/ (~c.loading /\ ~c.failed)
  PROVE  ChartOK(chart)' /\ SeriesOK(series, chart)' /\ chart' = c
<1>1. SeriesOK(Redraw(c, series), c)
  BY RedrawOK DEF ChartInv, ChartOK
<1> QED BY <1>1 DEF Show

LEMMA RequestOK ==
  ASSUME NEW kind, NEW interval, NEW before \in Nat, NEW shows, NEW id
  PROVE  FetchOK([kind |-> kind, interval |-> interval, before |-> before, current |-> TRUE, shows |-> shows,
                  id |-> id])
BY DEF FetchOK, FetchFields

LEMMA ChartInitOK == ChartInit => ChartInv
<1> SUFFICES ASSUME ChartInit PROVE ChartInv
  OBVIOUS
<1> USE DEF ChartInit
<1>1. PICK f : fetches = {f} /\ FetchOK(f) /\ f.kind = "range" /\ f.current /\ f.shows
  <2> DEFINE f == [kind |-> "range", interval |-> "1m", before |-> 0, current |-> TRUE, shows |-> TRUE,
                   id |-> CHOOSE i \in 1 .. MaxFetches : \A g \in {} : g.id # i]
  <2>1. fetches = {f}
    BY DEF Fetch
  <2>2. FetchOK(f)
    BY RequestOK
  <2>3. f.kind = "range" /\ f.current /\ f.shows
    OBVIOUS
  <2> HIDE DEF f
  <2> QED BY <2>1, <2>2, <2>3
<1>2. cached.last \in 0 .. MaxTime
  OBVIOUS
<1>3. ChartOK(chart)
  BY DEF ChartOK, ChartFields, IsCandles, Empty
<1>4. SeriesOK(series, chart)
  BY DEF SeriesOK, NoSeries
<1>5. \A g \in fetches : FetchOK(g)
  BY <1>1
<1>6. OneCurrent /\ ChartLoadingEnds
  BY <1>1 DEF OneCurrent, ChartLoadingEnds
<1>7. LoadingIsEmpty
  BY DEF LoadingIsEmpty
<1> QED BY <1>2, <1>3, <1>4, <1>5, <1>6, <1>7 DEF ChartInv

\* A reload owns the chart alone, and shows the message where nothing is shown.
LEMMA LoadRangeOK ==
  ASSUME ChartInv, NEW i, LoadRange([chart EXCEPT !.interval = i]) \/ LoadRange(chart),
         UNCHANGED <<cached, strayed>>
  PROVE  ChartInv'
<1>1. PICK c : c \in {chart, [chart EXCEPT !.interval = i]} /\ LoadRange(c)
  OBVIOUS
<1>2. ChartOK(c) /\ c.data = chart.data /\ c.loading = chart.loading /\ c.failed = chart.failed
  BY <1>1 DEF ChartInv, ChartOK, ChartFields
<1> DEFINE d == [c EXCEPT !.loading = @ \/ ShouldShowLoading(c), !.failed = FALSE]
<1>3. /\ ChartOK(d) /\ d.data = chart.data /\ ~d.failed
      /\ d.loading = (chart.loading \/ chart.data = Empty)
  BY <1>2 DEF ChartOK, ChartFields, ShouldShowLoading
<1>4. Show(d)
  BY <1>1 DEF LoadRange
<1> HIDE DEF d
<1>5. ChartOK(chart)' /\ SeriesOK(series, chart)' /\ chart' = d
  <2>1. series.created => d.data = Empty \/ (~d.loading /\ ~d.failed)
    BY <1>3 DEF ChartInv, SeriesOK
  <2> QED BY <1>3, <1>4, <2>1, ShowOK
<1>6. PICK n : /\ fetches' = Superseded(fetches) \cup {n} /\ FetchOK(n)
               /\ n.kind = "range" /\ n.current /\ n.shows = (chart.data = Empty)
  <2> DEFINE n == [kind |-> "range", interval |-> c.interval, before |-> 0, current |-> TRUE,
                   shows |-> ShouldShowLoading(c),
                   id |-> CHOOSE k \in 1 .. MaxFetches : \A g \in Superseded(fetches) : g.id # k]
  <2>1. fetches' = Superseded(fetches) \cup {n}
    BY <1>1 DEF LoadRange, Fetch
  <2>2. FetchOK(n)
    BY RequestOK
  <2>3. n.kind = "range" /\ n.current /\ n.shows = (chart.data = Empty)
    BY <1>2 DEF ShouldShowLoading
  <2> QED BY <2>1, <2>2, <2>3
<1>7. \A f \in Superseded(fetches) : FetchOK(f) /\ ~Current(f)
  BY DEF ChartInv, Superseded, FetchOK, FetchFields, Current
<1>8. (\A f \in fetches : FetchOK(f))' /\ OneCurrent'
  BY <1>6, <1>7 DEF OneCurrent, Current, FetchOK
<1>9. ChartLoadingEnds'
  <2> SUFFICES ASSUME d.loading, ~strayed PROVE chart.data = Empty
    BY <1>5, <1>6 DEF ChartLoadingEnds
  <2> QED BY <1>3 DEF ChartInv, LoadingIsEmpty
<1>10. LoadingIsEmpty'
  BY <1>3, <1>5 DEF ChartInv, LoadingIsEmpty
<1> QED BY <1>5, <1>8, <1>9, <1>10 DEF ChartInv

LEMMA UserReloadsOK == ChartInv /\ (SelectInterval \/ CacheUpdated) => ChartInv'
BY LoadRangeOK DEF SelectInterval, CacheUpdated

\* An older page is asked for a chart that is shown.
LEMMA LoadOlderOK == ChartInv /\ LoadOlder => ChartInv'
<1> SUFFICES ASSUME ChartInv, LoadOlder PROVE ChartInv'
  OBVIOUS
<1> DEFINE c == [chart EXCEPT !.older = TRUE]
<1>1. ChartOK(c) /\ c.data = chart.data /\ c.loading = chart.loading /\ c.failed = chart.failed
  BY DEF ChartInv, ChartOK, ChartFields
<1>2. Show(c)
  BY DEF LoadOlder
<1> HIDE DEF c
<1>3. ChartOK(chart)' /\ SeriesOK(series, chart)' /\ chart' = c
  <2>1. series.created => c.data = Empty \/ (~c.loading /\ ~c.failed)
    BY <1>1 DEF ChartInv, SeriesOK
  <2> QED BY <1>1, <1>2, <2>1, ShowOK
<1>4. PICK n : fetches' = fetches \cup {n} /\ FetchOK(n) /\ n.kind = "older"
  <2> DEFINE n == [kind |-> "older", interval |-> chart.interval, before |-> Oldest(chart.data),
                   current |-> TRUE, shows |-> FALSE,
                   id |-> CHOOSE k \in 1 .. MaxFetches : \A g \in fetches : g.id # k]
  <2>1. fetches' = fetches \cup {n}
    BY DEF LoadOlder, Fetch
  <2>2. Oldest(chart.data) \in Nat
    <3>1. IsCandles(chart.data) /\ chart.data # Empty
      BY DEF ChartInv, ChartOK, LoadOlder
    <3>2. DOMAIN chart.data \subseteq 1 .. MaxTime /\ DOMAIN chart.data # {}
      BY <3>1, NoCandles DEF IsCandles
    <3> QED BY <3>2, OldestIsFirst, Bounds
  <2>3. FetchOK(n)
    BY <2>2, RequestOK
  <2>4. n.kind = "older"
    OBVIOUS
  <2> HIDE DEF n
  <2> QED BY <2>1, <2>3, <2>4
<1>5. (\A f \in fetches : FetchOK(f))' /\ OneCurrent'
  BY <1>4 DEF ChartInv, OneCurrent, Current, FetchOK
<1>6. ~chart.loading /\ UNCHANGED <<cached, strayed>>
  BY DEF LoadOlder
<1> QED BY <1>1, <1>3, <1>5, <1>6 DEF ChartInv, ChartLoadingEnds, LoadingIsEmpty

\* The answer to the current reload ends the loading that it began.
LEMMA RangeEndsOK == ChartInv /\ (RangeAnswered \/ RangeFails) => ChartInv'
<1> SUFFICES ASSUME ChartInv, RangeAnswered \/ RangeFails PROVE ChartInv'
  OBVIOUS
<1> DEFINE Answer(f) == [chart EXCEPT !.data = Candles(cached.last, f.interval), !.more = cached.last > PageLen]
           Failure == [chart EXCEPT !.data = Empty, !.failed = TRUE]
<1>1. PICK f \in fetches :
        /\ f.kind = "range" /\ fetches' = fetches \ {f}
        /\ \/ ~f.current /\ UNCHANGED <<chart, series>>
           \/ f.current /\ \E c \in {Answer(f), Failure} : Show(Finally(c, f))
  BY DEF RangeAnswered, RangeFails
<1>2. UNCHANGED <<cached, strayed>>
  BY DEF RangeAnswered, RangeFails
<1>3. (\A g \in fetches : FetchOK(g))' /\ OneCurrent'
  BY <1>1 DEF ChartInv, OneCurrent, FetchOK, Current
<1>4. CASE ~f.current
  BY <1>1, <1>2, <1>3, <1>4 DEF ChartInv, SeriesOK, ChartOK, IsCandles, ChartLoadingEnds, LoadingIsEmpty
<1>5. CASE f.current
  <2>1. PICK c \in {Answer(f), Failure} : Show(Finally(c, f))
    BY <1>1, <1>5
  <2>2. /\ ChartOK(Answer(f)) /\ Answer(f).loading = chart.loading /\ Answer(f).failed = chart.failed
    <3>1. cached.last \in Int /\ cached.last <= MaxTime
      BY Bounds DEF ChartInv
    <3>2. IsCandles(Candles(cached.last, f.interval))
      BY <3>1, CandlesOK
    <3> QED BY <3>2 DEF ChartInv, ChartOK, ChartFields
  <2>3. ChartOK(Failure) /\ Failure.loading = chart.loading /\ Failure.data = Empty
    BY DEF ChartInv, ChartOK, ChartFields, IsCandles, Empty
  <2> HIDE DEF Answer, Failure
  <2> DEFINE d == Finally(c, f)
  <2>4. /\ ChartOK(d) /\ d.data = c.data /\ d.failed = c.failed
        /\ d.loading = (chart.loading /\ ~f.shows)
    BY <2>1, <2>2, <2>3 DEF ChartOK, ChartFields, Finally
  <2> HIDE DEF d
  <2>5. ChartOK(chart)' /\ SeriesOK(series, chart)' /\ chart' = d
    <3>1. series.created => d.data = Empty \/ (~d.loading /\ ~d.failed)
      BY <2>1, <2>2, <2>3, <2>4 DEF ChartInv, SeriesOK
    <3> QED BY <2>1, <2>4, <3>1, ShowOK DEF d
  <2>6. d.loading => strayed
    <3> SUFFICES ASSUME d.loading, ~strayed PROVE FALSE
      OBVIOUS
    <3>1. PICK g \in fetches : g.kind = "range" /\ g.current /\ g.shows
      BY <2>4 DEF ChartInv, ChartLoadingEnds
    <3>2. g = f
      BY <1>1, <1>5, <3>1 DEF ChartInv, OneCurrent, Current
    <3> QED BY <2>4, <3>1, <3>2
  <2> QED BY <1>2, <1>3, <2>5, <2>6 DEF ChartInv, ChartLoadingEnds, LoadingIsEmpty
<1> QED BY <1>4, <1>5

\* An older page adds candles to what is shown, or strays.
LEMMA OlderEndsOK == ChartInv /\ (OlderAnswered \/ OlderFails) => ChartInv'
<1> SUFFICES ASSUME ChartInv, OlderAnswered \/ OlderFails PROVE ChartInv'
  OBVIOUS
<1>1. PICK c, f :
        /\ f \in fetches /\ f.kind = "older" /\ fetches' = fetches \ {f}
        /\ Show(c) /\ ChartOK(c) /\ c.loading = chart.loading /\ c.failed = chart.failed
        /\ chart.data # Empty => c.data # Empty
        /\ strayed => strayed'
        /\ c.data = chart.data \/ (chart.data = Empty => strayed')
  <2>1. CASE OlderAnswered
    <3> DEFINE Upto(f) == IF f.before - 1 < cached.last THEN f.before - 1 ELSE cached.last
               Older(f) == Candles(Upto(f), f.interval)
               c(f) == [chart EXCEPT !.data = Merged(Older(f), @), !.more = Upto(f) > PageLen, !.older = FALSE]
    <3>1. PICK f \in fetches :
            /\ f.kind = "older" /\ fetches' = fetches \ {f} /\ Show(c(f))
            /\ strayed' = (strayed \/ chart.data = Empty)
      BY <2>1 DEF OlderAnswered
    <3>2. Upto(f) \in Int /\ Upto(f) <= MaxTime
      BY Bounds DEF ChartInv, FetchOK
    <3>3. IsCandles(Older(f))
      BY <3>2, CandlesOK
    <3>4. IsCandles(chart.data)
      BY DEF ChartInv, ChartOK
    <3>5. IsCandles(Merged(Older(f), chart.data)) /\ (chart.data # Empty => Merged(Older(f), chart.data) # Empty)
      BY <3>3, <3>4, MergedOK
    <3> HIDE DEF Upto, Older
    <3>6. /\ ChartOK(c(f)) /\ c(f).loading = chart.loading /\ c(f).failed = chart.failed
          /\ chart.data # Empty => c(f).data # Empty
      BY <3>5 DEF ChartInv, ChartOK, ChartFields
    <3>7. (strayed => strayed') /\ (chart.data = Empty => strayed')
      BY <3>1
    <3> QED BY <3>1, <3>6, <3>7
  <2>2. CASE OlderFails
    <3> DEFINE c == [chart EXCEPT !.older = FALSE]
    <3>1. ChartOK(c) /\ c.loading = chart.loading /\ c.failed = chart.failed /\ c.data = chart.data
      BY DEF ChartInv, ChartOK, ChartFields
    <3>2. Show(c) /\ strayed' = strayed /\ \E f \in fetches : f.kind = "older" /\ fetches' = fetches \ {f}
      BY <2>2 DEF OlderFails
    <3> HIDE DEF c
    <3> QED BY <3>1, <3>2
  <2> QED BY <2>1, <2>2
<1>2. UNCHANGED cached
  BY DEF OlderAnswered, OlderFails
<1>3. (\A g \in fetches : FetchOK(g))' /\ OneCurrent'
  BY <1>1 DEF ChartInv, OneCurrent, FetchOK, Current
<1>4. ChartOK(chart)' /\ SeriesOK(series, chart)' /\ chart' = c
  <2>1. series.created => c.data = Empty \/ (~c.loading /\ ~c.failed)
    BY <1>1 DEF ChartInv, SeriesOK
  <2> QED BY <1>1, <2>1, ShowOK
<1>5. strayed => strayed'
  BY <1>1
<1>6. ChartLoadingEnds'
  <2>1. chart'.loading = chart.loading
    BY <1>1, <1>4
  <2>2. chart'.loading => strayed' \/ \E g \in fetches' : g.kind = "range" /\ g.current /\ g.shows
    BY <1>1, <1>5, <2>1 DEF ChartInv, ChartLoadingEnds
  <2> QED BY <2>2 DEF ChartLoadingEnds
<1>7. LoadingIsEmpty'
  <2>1. chart'.loading = chart.loading /\ chart'.data = c.data
    BY <1>1, <1>4
  <2>2. chart'.loading => strayed' \/ chart'.data = Empty
    BY <1>1, <2>1 DEF ChartInv, LoadingIsEmpty
  <2> QED BY <2>2 DEF LoadingIsEmpty
<1> QED BY <1>2, <1>3, <1>4, <1>6, <1>7 DEF ChartInv

\* The server's steps touch nothing of the page.
LEMMA CacheStepsOK == ChartInv /\ (CacheGrows \/ CandleChanges \/ CacheCleared) => ChartInv'
<1> SUFFICES ASSUME ChartInv, CacheGrows \/ CandleChanges \/ CacheCleared PROVE ChartInv'
  OBVIOUS
<1>1. UNCHANGED <<chart, series, fetches, strayed>>
  BY DEF CacheGrows, CandleChanges, CacheCleared
<1>2. cached'.last \in 0 .. MaxTime
  <2>1. CASE CacheGrows
    BY <2>1, Bounds DEF CacheGrows, ChartInv
  <2>2. CASE CandleChanges
    BY <2>2, Bounds DEF CandleChanges, ChartInv
  <2>3. CASE CacheCleared
    BY <2>3, Bounds DEF CacheCleared
  <2> QED BY <2>1, <2>2, <2>3
<1> QED BY <1>1, <1>2 DEF ChartInv, ChartOK, IsCandles, SeriesOK, OneCurrent, LoadingIsEmpty, ChartLoadingEnds

LEMMA ChartNextOK == ChartInv /\ [ChartNext]_chartVars => ChartInv'
<1> SUFFICES ASSUME ChartInv, [ChartNext]_chartVars PROVE ChartInv'
  OBVIOUS
<1>1. CASE UNCHANGED chartVars
  BY <1>1 DEF chartVars, ChartInv, ChartOK, IsCandles, SeriesOK, OneCurrent, LoadingIsEmpty, ChartLoadingEnds
<1>2. CASE ChartNext
  BY <1>2, UserReloadsOK, LoadOlderOK, RangeEndsOK, OlderEndsOK, CacheStepsOK DEF ChartNext
<1> QED BY <1>1, <1>2
-----------------------------------------------------------------------------
\* The invariant holds for any number of candles and of requests under way.
THEOREM ChartInvariant == ChartSpec => []ChartInv
BY ChartInitOK, ChartNextOK, PTL DEF ChartSpec

LEMMA ChartPromises == ChartInv => ChartIsOnThePage /\ SeriesHasTheCandles /\ ChartLoadingEnds
<1> SUFFICES ASSUME ChartInv PROVE ChartIsOnThePage /\ SeriesHasTheCandles /\ ChartLoadingEnds
  OBVIOUS
<1>1. ChartIsOnThePage
  BY DEF ChartInv, SeriesOK, ChartIsOnThePage, ChartView
<1>2. SeriesHasTheCandles
  BY DEF ChartInv, SeriesOK, SeriesHasTheCandles
<1> QED BY <1>1, <1>2 DEF ChartInv

\* The chart object is never left drawing in an element that is gone.
THEOREM ChartIsOnThePageAlways == ChartSpec => []ChartIsOnThePage
BY ChartInvariant, ChartPromises, PTL

\* The series drawn in place has exactly the candles held, the newest as it is.
THEOREM SeriesHasTheCandlesAlways == ChartSpec => []SeriesHasTheCandles
BY ChartInvariant, ChartPromises, PTL
-----------------------------------------------------------------------------
(* Stars. *)

FavSpec == FavInit /\ [][FavNext]_favVars

ToggleFields == {"of", "was", "before", "shelf", "crossed", "stage", "id"}

ToggleOK(t) ==
  /\ t = [x \in ToggleFields |-> t[x]]
  /\ t.of \in Items /\ t.before \subseteq Items /\ t.crossed \subseteq Items
  /\ t.was \in BOOLEAN /\ t.stage \in {"sent", "served"}

OneOfAnItem ==
  \A t, u \in toggles : t.of \notin muddled /\ u.of = t.of => u = t

\* In the rankings, requests under way together know of each other.
TheyCross == shelf = "rankings" => \A t, u \in toggles : u # t => u.of \in t.crossed

\* Until a request is over the page shows the state that was asked for; the
\* server has it once it has acted.
UnderWay(t) ==
  /\ t.of \in starred <=> (t.was <=> t.stage = "sent")
  /\ shelf # "rankings" => (t.of \in stars <=> ~t.was)
  /\ shelf # "rankings" /\ t.stage = "sent" => t.of \in rows
  /\ shelf = "rankings" => t.was /\ t.of \in t.before /\ t.of \notin stars

\* The list that the rankings would put back is right about the items that were
\* not asked about meanwhile.
OldListIsRight ==
  shelf = "rankings" =>
    \A t \in toggles : \A i \in Items \ muddled :
      i # t.of /\ i \notin t.crossed => (i \in t.before <=> i \in starred)

\* So is the list on its way to the library, once it is read.
ReadIsRight ==
  /\ listRead # {} => shelf \in Tabs
  /\ \A r \in listRead :
       /\ r.got \subseteq Items
       /\ r.stage = "served" =>
            /\ \A i \in Items \ muddled : i \in r.got <=> i \in starred
            /\ \A t \in toggles : t.stage = "sent" => t.of \in muddled

FavInv ==
  /\ shelf \in Shelves
  /\ starred \subseteq Items /\ rows \subseteq Items /\ stars \subseteq rows /\ muddled \subseteq Items
  /\ shelf = "rankings" => stars = rows
  /\ \A t \in toggles : ToggleOK(t) /\ (t.of \notin muddled => UnderWay(t))
  /\ OneOfAnItem /\ TheyCross
  /\ OldListIsRight /\ ReadIsRight
  /\ StarsAreServers
-----------------------------------------------------------------------------
LEMMA FavInitOK == FavInit => FavInv
BY DEF FavInit, FavInv, OneOfAnItem, TheyCross, OldListIsRight, ReadIsRight, StarsAreServers, OnlyFavourites

\* A click.
LEMMA ToggleFavoriteOK == FavInv /\ ToggleFavorite => FavInv'
<1> SUFFICES ASSUME FavInv, ToggleFavorite PROVE FavInv'
  OBVIOUS
<1> USE DEF FavInv
<1>1. PICK i \in rows :
        /\ toggles' = {[t EXCEPT !.crossed = @ \cup Noted({i})] : t \in toggles} \cup {NewToggle(i)}
        /\ stars' = Flip(stars, i)
        /\ rows' = IF shelf = "rankings" THEN rows \ {i} ELSE rows
        /\ muddled' = IF \E t \in toggles : t.of = i THEN muddled \cup {i} ELSE muddled
        /\ listRead = {} /\ UNCHANGED <<shelf, starred, listRead>>
  BY DEF ToggleFavorite
<1> DEFINE Aware(t) == [t EXCEPT !.crossed = @ \cup Noted({i})]
<1>2. ASSUME NEW t \in toggles
      PROVE  /\ ToggleOK(Aware(t)) /\ Aware(t).of = t.of /\ Aware(t).was = t.was /\ Aware(t).before = t.before
             /\ Aware(t).stage = t.stage /\ Aware(t).crossed = t.crossed \cup Noted({i})
  <2>1. t = [x \in ToggleFields |-> t[x]] /\ t.crossed \subseteq Items
    BY DEF ToggleOK
  <2>2. /\ Aware(t) = [x \in ToggleFields |-> Aware(t)[x]]
        /\ Aware(t).of = t.of /\ Aware(t).was = t.was /\ Aware(t).before = t.before
        /\ Aware(t).stage = t.stage /\ Aware(t).crossed = t.crossed \cup Noted({i})
    BY <2>1 DEF ToggleFields
  <2> HIDE DEF Aware
  <2> QED BY <2>2 DEF ToggleOK, Noted
<1>3. PICK new :
        /\ ToggleOK(new) /\ new.of = i /\ new.was = (i \in stars) /\ new.before = stars /\ new.stage = "sent"
        /\ new.crossed = Noted({t.of : t \in toggles})
        /\ toggles' = {Aware(t) : t \in toggles} \cup {new}
  <2> DEFINE among == Noted({t.of : t \in toggles})
             call(n) == [of |-> i, was |-> i \in stars, before |-> stars, shelf |-> shelf,
                         crossed |-> among, stage |-> "sent", id |-> n]
  <2>1. among \subseteq Items
    BY DEF ToggleOK, Noted
  <2>2. PICK n : NewToggle(i) = call(n)
    BY DEF NewToggle
  <2> HIDE DEF among
  <2>3. ToggleOK(call(n)) /\ call(n).of = i /\ call(n).was = (i \in stars) /\ call(n).before = stars
        /\ call(n).stage = "sent" /\ call(n).crossed = among
    BY <2>1 DEF ToggleOK, ToggleFields
  <2> HIDE DEF call
  <2> QED BY <1>1, <2>2, <2>3 DEF among
<1>4. toggles' = {Aware(t) : t \in toggles} \cup {new}
  BY <1>3
<1> HIDE DEF Aware
<1>5. /\ muddled \subseteq muddled' /\ muddled' \subseteq muddled \cup {i}
      /\ i \notin muddled' => \A t \in toggles : t.of # i
      /\ \A t \in toggles : t.of \notin muddled' => t.of # i /\ t.of \notin muddled
  BY <1>1
<1>6. /\ shelf' \in Shelves /\ starred' \subseteq Items /\ muddled' \subseteq Items /\ rows' \subseteq Items
      /\ stars' \subseteq rows' /\ (shelf' = "rankings" => stars' = rows')
  <2>1. CASE shelf = "rankings"
    BY <1>1, <1>5, <2>1 DEF Flip
  <2>2. CASE shelf # "rankings"
    BY <1>1, <1>5, <2>2 DEF Flip
  <2> QED BY <2>1, <2>2
<1>7. OneOfAnItem'
  <2> SUFFICES ASSUME NEW t \in toggles', NEW u \in toggles', t.of \notin muddled', u.of = t.of PROVE u = t
    BY DEF OneOfAnItem
  <2>1. CASE t = new
    BY <1>2, <1>3, <1>4, <1>5, <2>1
  <2>2. CASE t # new
    <3>1. PICK t0 \in toggles : t = Aware(t0)
      BY <1>4, <2>2
    <3>2. u # new
      BY <1>2, <1>3, <1>5, <3>1
    <3>3. PICK u0 \in toggles : u = Aware(u0)
      BY <1>4, <3>2
    <3> QED BY <1>2, <1>5, <3>1, <3>3 DEF OneOfAnItem
  <2> QED BY <2>1, <2>2
<1>8. TheyCross'
  <2> SUFFICES ASSUME shelf = "rankings", NEW t \in toggles', NEW u \in toggles', u # t PROVE u.of \in t.crossed
    BY <1>1 DEF TheyCross
  <2>1. CASE t = new
    BY <1>2, <1>3, <1>4, <2>1 DEF Noted
  <2>2. CASE u = new
    BY <1>2, <1>3, <1>4, <2>2 DEF Noted
  <2>3. CASE t # new /\ u # new
    <3>1. PICK t0 \in toggles, u0 \in toggles : t = Aware(t0) /\ u = Aware(u0)
      BY <1>4, <2>3
    <3> QED BY <1>2, <3>1 DEF TheyCross
  <2> QED BY <2>1, <2>2, <2>3
<1>9. \A t \in toggles' : ToggleOK(t) /\ (t.of \notin muddled' => UnderWay(t)')
  <2>1. ASSUME NEW t \in toggles, NEW u, u = Aware(t), u.of \notin muddled' PROVE UnderWay(u)'
    <3>1. u.of = t.of /\ u.was = t.was /\ u.before = t.before /\ u.stage = t.stage
      BY <1>2, <2>1
    <3>2. t.of # i /\ UnderWay(t)
      BY <1>5, <2>1, <3>1
    <3> QED BY <1>1, <3>1, <3>2 DEF UnderWay, Flip
  <2>2. i \notin muddled' => (i \in starred <=> i \in stars)
    BY <1>1, <1>5 DEF StarsAreServers
  <2>3. ASSUME i \notin muddled' PROVE UnderWay(new)'
    BY <1>1, <1>3, <2>2, <2>3 DEF UnderWay, Flip
  <2> QED BY <1>2, <1>3, <1>4, <2>1, <2>3
<1>10. OldListIsRight'
  <2> SUFFICES ASSUME shelf = "rankings", NEW t \in toggles', NEW k \in Items \ muddled', k # t.of, k \notin t.crossed
               PROVE  k \in t.before <=> k \in starred
    BY <1>1 DEF OldListIsRight
  <2>1. CASE t = new
    BY <1>1, <1>3, <1>5, <2>1 DEF StarsAreServers, OnlyFavourites, Noted
  <2>2. CASE t # new
    <3>1. PICK t0 \in toggles : t = Aware(t0)
      BY <1>4, <2>2
    <3> QED BY <1>2, <1>5, <3>1 DEF OldListIsRight
  <2> QED BY <2>1, <2>2
<1>11. StarsAreServers'
  <2> SUFFICES ASSUME NEW k \in Items \ muddled', \A u \in toggles' : u.of # k, k \in rows' \/ OnlyFavourites
               PROVE  k \in stars' <=> k \in starred
    BY <1>1 DEF StarsAreServers, OnlyFavourites
  <2>1. k # i /\ k \notin muddled /\ \A u \in toggles : u.of # k
    BY <1>2, <1>3, <1>4, <1>5
  <2> QED BY <1>1, <2>1 DEF StarsAreServers, Flip, OnlyFavourites
<1>12. ReadIsRight'
  BY <1>1 DEF ReadIsRight
<1> QED BY <1>6, <1>7, <1>8, <1>9, <1>10, <1>11, <1>12

LEMMA ServeToggleOK == FavInv /\ ServeToggle => FavInv'
<1> SUFFICES ASSUME FavInv, ServeToggle PROVE FavInv'
  OBVIOUS
<1> USE DEF FavInv
<1>1. PICK t \in toggles :
        /\ t.stage = "sent"
        /\ starred' = IF t.was THEN starred \ {t.of} ELSE starred \cup {t.of}
        /\ toggles' = (toggles \ {t}) \cup {[t EXCEPT !.stage = "served"]}
        /\ UNCHANGED <<shelf, rows, stars, listRead, muddled>>
  BY DEF ServeToggle
<1> DEFINE s == [t EXCEPT !.stage = "served"]
<1>2. /\ ToggleOK(s) /\ s.of = t.of /\ s.was = t.was /\ s.before = t.before /\ s.stage = "served"
      /\ s.crossed = t.crossed
  BY DEF ToggleOK, ToggleFields
<1>3. toggles' = (toggles \ {t}) \cup {s}
  BY <1>1
<1> HIDE DEF s
<1>4. OneOfAnItem' /\ TheyCross'
  BY <1>1, <1>2, <1>3 DEF OneOfAnItem, TheyCross
<1>5. \A u \in toggles' : u.of \notin muddled' => UnderWay(u)'
  <2>1. ASSUME NEW u \in toggles \ {t}, u.of \notin muddled PROVE UnderWay(u)'
    BY <1>1, <2>1 DEF UnderWay, OneOfAnItem
  <2>2. ASSUME t.of \notin muddled PROVE UnderWay(s)'
    BY <1>1, <1>2, <2>2 DEF UnderWay
  <2> QED BY <1>1, <1>2, <1>3, <2>1, <2>2
<1>6. StarsAreServers'
  <2> SUFFICES ASSUME listRead = {}, NEW k \in Items \ muddled, \A u \in toggles' : u.of # k, k \in rows \/ OnlyFavourites
               PROVE  k \in stars <=> k \in starred'
    BY <1>1 DEF StarsAreServers, OnlyFavourites
  <2>1. k # t.of /\ \A u \in toggles : u.of # k
    BY <1>2, <1>3
  <2> QED BY <1>1, <2>1 DEF StarsAreServers
<1>7. OldListIsRight'
  <2> SUFFICES ASSUME shelf = "rankings", NEW u \in toggles', NEW k \in Items \ muddled, k # u.of, k \notin u.crossed
               PROVE  k \in u.before <=> k \in starred'
    BY <1>1 DEF OldListIsRight
  <2>1. PICK u0 \in toggles : /\ u0.of = u.of /\ u0.crossed = u.crossed /\ u0.before = u.before
                              /\ u0 = t \/ u0 = u
    BY <1>2, <1>3
  <2>2. k # t.of
    BY <2>1 DEF TheyCross
  <2> QED BY <1>1, <2>1, <2>2 DEF OldListIsRight
<1>8. ReadIsRight'
  <2>1. ASSUME NEW r \in listRead, r.stage = "served" PROVE t.of \in muddled
    BY <1>1, <2>1 DEF ReadIsRight
  <2> QED BY <1>1, <1>2, <1>3, <2>1 DEF ReadIsRight
<1>9. starred' \subseteq Items /\ \A u \in toggles' : ToggleOK(u)
  BY <1>1, <1>2, <1>3 DEF ToggleOK
<1> QED BY <1>1, <1>4, <1>5, <1>6, <1>7, <1>8, <1>9

LEMMA ToggleAnsweredOK == FavInv /\ ToggleAnswered => FavInv'
<1> SUFFICES ASSUME FavInv, ToggleAnswered PROVE FavInv'
  OBVIOUS
<1> USE DEF FavInv
<1>1. PICK t \in toggles :
        /\ t.stage = "served"
        /\ toggles' = toggles \ {t}
        /\ IF t.shelf = "favorited" /\ t.was
           THEN rows' = rows \ {t.of} /\ stars' = stars \ {t.of}
           ELSE UNCHANGED <<rows, stars>>
        /\ UNCHANGED <<shelf, starred, listRead, muddled>>
  BY DEF ToggleAnswered
<1>2. OneOfAnItem' /\ TheyCross' /\ OldListIsRight' /\ ReadIsRight'
  BY <1>1 DEF OneOfAnItem, TheyCross, OldListIsRight, ReadIsRight
<1>3. ASSUME NEW u \in toggles', u.of \notin muddled PROVE UnderWay(u)'
  <2>1. u \in toggles /\ u # t /\ u.of # t.of
    BY <1>1, <1>3 DEF OneOfAnItem
  <2> QED BY <1>1, <1>3, <2>1 DEF UnderWay
<1>4. StarsAreServers'
  <2> SUFFICES ASSUME listRead = {}, NEW k \in Items \ muddled, \A u \in toggles' : u.of # k, k \in rows' \/ OnlyFavourites
               PROVE  k \in stars' <=> k \in starred
    BY <1>1 DEF StarsAreServers, OnlyFavourites
  <2>1. CASE k = t.of
    BY <1>1, <2>1 DEF UnderWay, ToggleOK
  <2>2. CASE k # t.of
    BY <1>1, <2>2 DEF StarsAreServers, OnlyFavourites
  <2> QED BY <2>1, <2>2
<1> QED BY <1>1, <1>2, <1>3, <1>4

LEMMA ToggleFailsOK == FavInv /\ ToggleFails => FavInv'
<1> SUFFICES ASSUME FavInv, ToggleFails PROVE FavInv'
  OBVIOUS
<1> USE DEF FavInv
<1>1. PICK t \in toggles :
        /\ toggles' = toggles \ {t}
        /\ muddled' = muddled \cup Dragged(t) \cup {i \in {t.of} : t.stage = "served"}
        /\ RolledBack(t)
        /\ UNCHANGED <<shelf, starred, listRead>>
  BY DEF ToggleFails
<1>2. /\ muddled \subseteq muddled' /\ Dragged(t) \subseteq muddled'
      /\ t.of \notin muddled' => t.stage = "sent"
  BY <1>1 DEF ToggleOK
<1>3. OneOfAnItem' /\ TheyCross' /\ OldListIsRight' /\ ReadIsRight'
  <2>1. OneOfAnItem' /\ TheyCross'
    BY <1>1, <1>2 DEF OneOfAnItem, TheyCross
  <2>2. OldListIsRight'
    BY <1>1, <1>2 DEF OldListIsRight
  <2>3. ReadIsRight'
    BY <1>1, <1>2 DEF ReadIsRight
  <2> QED BY <2>1, <2>2, <2>3
<1>4. ASSUME NEW u \in toggles', u.of \notin muddled' PROVE UnderWay(u)'
  <2>1. u \in toggles /\ u # t /\ u.of \notin muddled /\ u.of # t.of
    BY <1>1, <1>2, <1>4 DEF OneOfAnItem
  <2>2. CASE shelf = "rankings"
    BY <1>1, <1>2, <1>4, <2>1, <2>2 DEF UnderWay, RolledBack, Dragged, TheyCross
  <2>3. CASE shelf # "rankings"
    BY <1>1, <2>1, <2>3 DEF UnderWay, RolledBack
  <2> QED BY <2>2, <2>3
<1>5. StarsAreServers'
  <2> SUFFICES ASSUME listRead = {}, NEW k \in Items \ muddled', \A u \in toggles' : u.of # k, k \in rows' \/ OnlyFavourites
               PROVE  k \in stars' <=> k \in starred
    BY <1>1 DEF StarsAreServers, OnlyFavourites
  <2>1. CASE k = t.of
    BY <1>1, <1>2, <2>1 DEF UnderWay, RolledBack, ToggleOK
  <2>2. CASE k # t.of /\ shelf = "rankings"
    <3>1. \A u \in toggles : u.of # k
      BY <1>1, <2>2
    <3>2. k \in t.before <=> k \in starred
      BY <1>2, <2>2, <3>1 DEF OldListIsRight, Dragged, StarsAreServers, OnlyFavourites
    <3> QED BY <1>1, <2>2, <3>2 DEF RolledBack
  <2>3. CASE k # t.of /\ shelf # "rankings"
    BY <1>1, <1>2, <2>3 DEF StarsAreServers, OnlyFavourites, RolledBack
  <2> QED BY <2>1, <2>2, <2>3
<1>6. /\ rows' \subseteq Items /\ stars' \subseteq rows' /\ muddled' \subseteq Items
      /\ shelf = "rankings" => stars' = rows'
  BY <1>1 DEF RolledBack, ToggleOK, Dragged
<1> QED BY <1>1, <1>3, <1>4, <1>5, <1>6

\* The library's list, asked for, read and shown.
LEMMA LibraryReadOK == FavInv /\ (ReadLibrary \/ ServeLibrary \/ LibraryAnswered) => FavInv'
<1> SUFFICES ASSUME FavInv, ReadLibrary \/ ServeLibrary \/ LibraryAnswered PROVE FavInv'
  OBVIOUS
<1> USE DEF FavInv
<1>1. CASE ReadLibrary
  <2>1. /\ listRead' # {} /\ shelf # "rankings" /\ shelf' # "rankings" /\ shelf' \in Shelves
        /\ UNCHANGED <<starred, rows, stars, toggles, muddled>>
    BY <1>1 DEF ReadLibrary, Tabs, Shelves
  <2>2. ReadIsRight'
    BY <1>1 DEF ReadLibrary, ReadIsRight
  <2>3. \A t \in toggles : t.of \notin muddled => UnderWay(t)'
    BY <2>1 DEF UnderWay
  <2> QED BY <2>1, <2>2, <2>3 DEF OneOfAnItem, TheyCross, OldListIsRight, StarsAreServers
<1>2. CASE ServeLibrary
  <2>1. /\ listRead # {} /\ listRead' # {} /\ muddled \subseteq muddled'
        /\ muddled' = muddled \cup {t.of : t \in {u \in toggles : u.stage = "sent"}}
        /\ UNCHANGED <<shelf, starred, rows, stars, toggles>>
    BY <1>2 DEF ServeLibrary
  <2>2. ReadIsRight'
    BY <1>2, <2>1 DEF ServeLibrary, ReadIsRight
  <2>3. muddled' \subseteq Items
    BY <2>1 DEF ToggleOK
  <2>4. \A t \in toggles : t.of \notin muddled' => UnderWay(t)'
    BY <2>1 DEF UnderWay
  <2> QED BY <2>1, <2>2, <2>3, <2>4 DEF OneOfAnItem, TheyCross, OldListIsRight, StarsAreServers
<1>3. CASE LibraryAnswered
  <2>1. PICK r \in listRead :
          /\ r.stage = "served" /\ stars' = r.got
          /\ rows' = IF shelf = "library" THEN Items ELSE r.got
          /\ listRead' = {} /\ UNCHANGED <<shelf, starred, toggles, muddled>>
    BY <1>3 DEF LibraryAnswered
  <2>2. /\ shelf \in Tabs /\ shelf # "rankings" /\ r.got \subseteq Items
        /\ \A i \in Items \ muddled : i \in r.got <=> i \in starred
        /\ \A t \in toggles : t.stage = "sent" => t.of \in muddled
    BY <2>1 DEF ReadIsRight, Tabs
  <2>3. \A t \in toggles : t.of \notin muddled => UnderWay(t)'
    BY <2>1, <2>2 DEF UnderWay, ToggleOK
  <2>4. StarsAreServers'
    BY <2>1, <2>2 DEF StarsAreServers
  <2> QED BY <2>1, <2>2, <2>3, <2>4 DEF OneOfAnItem, TheyCross, OldListIsRight, ReadIsRight
<1> QED BY <1>1, <1>2, <1>3

LEMMA FavNextOK == FavInv /\ [FavNext]_favVars => FavInv'
<1>1. FavInv /\ UNCHANGED favVars => FavInv'
  BY DEF favVars, FavInv, OneOfAnItem, TheyCross, OldListIsRight, ReadIsRight, StarsAreServers, UnderWay, OnlyFavourites
<1> QED BY <1>1, ToggleFavoriteOK, ServeToggleOK, ToggleAnsweredOK, ToggleFailsOK, LibraryReadOK DEF FavNext

\* The inductive invariant of the stars holds for any items and any number of clicks
\* and of lists that are on their way.
THEOREM FavInvariant == FavSpec => []FavInv
BY FavInitOK, FavNextOK, PTL DEF FavSpec

\* A star whose request is over is the server's, with the exceptions that
\* Favourites!StarsAreServers names: for the rankings, an item whose own request was
\* under way with a failed one, and that the list put back then moves.
THEOREM StarsAreServersAlways == FavSpec => []StarsAreServers
<1>1. FavInv => StarsAreServers
  BY DEF FavInv
<1> QED BY <1>1, FavInvariant, PTL
-----------------------------------------------------------------------------
(* Decisions. *)

DecisionSpec == DecisionInit /\ [][DecisionNext]_deskVars

DeskCallFields == {"what", "of", "to", "by", "stage", "got", "id"}

\* What an answer brings has been so; what a blueprint's page was granted as well.
DeskCallOK(c) ==
  /\ c = [x \in DeskCallFields |-> c[x]]
  /\ c.of \in Subjects
  /\ c.what = "load" => c.stage \in {"sent", "ok"}
  /\ c.what = "act" => c.got = {}
  /\ \A g \in c.got : \A s \in Subjects : g[s] \in past[s]
  /\ c.what = "act" /\ c.stage = "ok" /\ desk.page = "blueprint" => c.to \in past[c.of]
  /\ c.what = "act" /\ OfJobs => c.to = "gone"
  /\ c.what \in {"load", "act"}

DeskTypes ==
  /\ desk.page \in {"blueprint", "moderation", "jobs", "job"}
  /\ OfJobs => record \in [Subjects -> JobProgress]
  /\ record = [s \in Subjects |-> record[s]]
  /\ past = [s \in Subjects |-> past[s]]
  /\ display = [s \in Subjects |-> display[s]]
  /\ notice = [x \in {"loading", "error", "canceling"} |-> notice[x]]

\* On the page of a job one request follows another.
JobAsksOnce ==
  desk.page = "job" =>
    /\ \A c, d \in deskCalls : c = d
    /\ deskCalls # {} => notice.canceling \/ display[Focus] = Unknown

\* The page of a job, and the answer on its way to it, are behind the job.
JobLags ==
  desk.page = "job" =>
    /\ display[Focus] # Unknown =>
         display[Focus] \in JobProgress /\ JobRank[display[Focus]] <= JobRank[record[Focus]]
    /\ \A c \in deskCalls : \A g \in c.got :
         /\ g[Focus] \in JobProgress /\ JobRank[g[Focus]] <= JobRank[record[Focus]]
         /\ display[Focus] # Unknown => JobRank[display[Focus]] <= JobRank[g[Focus]]

DecisionInv ==
  /\ DeskTypes
  /\ \A s \in Subjects : record[s] \in past[s]
  /\ \A c \in deskCalls : DeskCallOK(c)
  /\ ShownWasReal
  /\ JobAsksOnce
  /\ JobLags
-----------------------------------------------------------------------------
LEMMA DeskCallIsOK ==
  ASSUME NEW calls, NEW what \in {"load", "act"}, NEW of \in Subjects, NEW to, NEW by,
         what = "act" /\ OfJobs => to = "gone"
  PROVE  \E c \in NewCall(calls, what, of, to, by) :
           NewCall(calls, what, of, to, by) = calls \cup {c} /\ DeskCallOK(c) /\ c.got = {}
<1>1. PICK n : NewCall(calls, what, of, to, by) = calls \cup
        {[what |-> what, of |-> of, to |-> to, by |-> by, stage |-> "sent", got |-> {}, id |-> n]}
  BY DEF NewCall
<1> DEFINE call == [what |-> what, of |-> of, to |-> to, by |-> by, stage |-> "sent", got |-> {}, id |-> n]
<1>2. call = [x \in DeskCallFields |-> call[x]]
  BY DEF DeskCallFields
<1>3. DeskCallOK(call)
  BY <1>2 DEF DeskCallOK
<1>4. NewCall(calls, what, of, to, by) = calls \cup {call} /\ call.got = {}
  BY <1>1
<1> HIDE DEF call
<1> QED BY <1>3, <1>4

LEMMA DeskLoadIsOK ==
  ASSUME NEW calls, NEW by
  PROVE  \E c \in LoadCall(calls, by) : LoadCall(calls, by) = calls \cup {c} /\ DeskCallOK(c) /\ c.got = {}
BY DeskCallIsOK, DecisionAssumption DEF LoadCall

LEMMA DecisionInitOK == DecisionInit => DecisionInv
<1> SUFFICES ASSUME DecisionInit PROVE DecisionInv
  OBVIOUS
<1> USE DEF DecisionInit
<1>1. desk.page \in {"blueprint", "moderation", "jobs", "job"}
  OBVIOUS
<1>2. PICK c : deskCalls = {c} /\ DeskCallOK(c) /\ c.got = {}
  <2>1. PICK c : LoadCall({}, "open") = {} \cup {c} /\ DeskCallOK(c) /\ c.got = {}
    BY DeskLoadIsOK
  <2> QED BY <2>1
<1>3. DeskTypes
  BY <1>1 DEF DeskTypes, JobProgress
<1> QED BY <1>2, <1>3, DecisionAssumption DEF DecisionInv, ShownWasReal, JobAsksOnce, JobLags

\* A user asks: nothing but a request is new.
LEMMA UserAsksOK ==
  ASSUME DecisionInv, RequestApproval \/ Moderate \/ RefreshQueue \/ CancelRow \/ CancelJob
  PROVE  DecisionInv' /\ UNCHANGED display
<1> USE DEF DecisionInv
<1>1. UNCHANGED <<desk, record, past, display>> /\ (desk.page = "job" => CancelJob)
  BY DEF RequestApproval, Moderate, RefreshQueue, CancelRow, CancelJob
<1>2. PICK what, of, to, by :
        /\ what \in {"load", "act"} /\ of \in Subjects /\ (what = "act" /\ OfJobs => to = "gone")
        /\ deskCalls' = NewCall(deskCalls, what, of, to, by)
  BY DecisionAssumption DEF RequestApproval, Moderate, RefreshQueue, CancelRow, CancelJob, LoadCall, OfJobs
<1>3. PICK c \in deskCalls' : deskCalls' = deskCalls \cup {c} /\ DeskCallOK(c) /\ c.got = {}
  <2> HIDE DEF DecisionInv
  <2>1. \E c \in NewCall(deskCalls, what, of, to, by) :
          NewCall(deskCalls, what, of, to, by) = deskCalls \cup {c} /\ DeskCallOK(c) /\ c.got = {}
    BY ONLY <1>2, DeskCallIsOK
  <2> QED BY ONLY <1>2, <2>1
<1>4. DeskTypes'
  BY <1>1 DEF DeskTypes, OfJobs, RequestApproval, Moderate, RefreshQueue, CancelRow, CancelJob
<1>5. \A d \in deskCalls' : DeskCallOK(d)'
  BY <1>1, <1>3 DEF DeskCallOK, OfJobs
<1>6. JobAsksOnce'
  <2> SUFFICES ASSUME desk.page = "job" PROVE JobAsksOnce'
    BY <1>1 DEF JobAsksOnce
  <2>1. deskCalls = {} /\ notice'.canceling
    BY <1>1, DecisionAssumption DEF CancelJob, JobAsksOnce, Cancellable, JobProgress, DeskTypes
  <2> QED BY <1>1, <1>3, <2>1 DEF JobAsksOnce
<1>7. JobLags'
  BY <1>1, <1>3 DEF JobLags
<1> QED BY <1>1, <1>4, <1>5, <1>6, <1>7 DEF ShownWasReal

\* A request that goes on keeps what it is about.
LEMMA DeskStagedOK ==
  ASSUME NEW c, DeskCallOK(c), NEW stage, c.what = "act",
         stage = "ok" /\ desk.page = "blueprint" => c.to \in past[c.of]
  PROVE  \E d : Staged(c, stage) = (deskCalls \ {c}) \cup {d} /\ DeskCallOK(d) /\ d.got = {}
<1> DEFINE d == [c EXCEPT !.stage = stage]
<1>1. Staged(c, stage) = (deskCalls \ {c}) \cup {d}
  BY DEF Staged
<1>2. /\ d = [x \in DeskCallFields |-> d[x]] /\ d.of = c.of /\ d.what = c.what
      /\ d.got = c.got /\ d.to = c.to /\ d.stage = stage
  BY DEF DeskCallOK, DeskCallFields
<1> HIDE DEF d
<1>3. DeskCallOK(d)
  BY <1>2 DEF DeskCallOK
<1> QED BY <1>1, <1>2, <1>3 DEF DeskCallOK

\* The requests change, one for another, and nothing else.
LEMMA DeskReplacedOK ==
  ASSUME DecisionInv, UNCHANGED <<desk, record, past, display, notice>>, NEW c \in deskCalls, NEW d,
         deskCalls' = (deskCalls \ {c}) \cup {d}, DeskCallOK(d), d.got \subseteq {record}
  PROVE  DecisionInv'
<1> USE DEF DecisionInv
<1>1. DeskTypes' /\ ShownWasReal'
  BY DEF DeskTypes, OfJobs, ShownWasReal
<1>2. \A e \in deskCalls' : DeskCallOK(e)'
  BY DEF DeskCallOK, OfJobs
<1>3. JobAsksOnce'
  BY DEF JobAsksOnce
<1>4. JobLags'
  BY DecisionAssumption DEF JobLags, DeskTypes, OfJobs, JobProgress, JobRank
<1> QED BY <1>1, <1>2, <1>3, <1>4

LEMMA ServedOK ==
  ASSUME DecisionInv, ServeLoad \/ CheckMove
  PROVE  DecisionInv' /\ UNCHANGED display
<1> USE DEF DecisionInv
<1>1. CASE ServeLoad
  <2>1. PICK c \in deskCalls :
          /\ c.what = "load"
          /\ deskCalls' = (deskCalls \ {c}) \cup {[c EXCEPT !.stage = "ok", !.got = {record}]}
    BY <1>1 DEF ServeLoad
  <2> DEFINE d == [c EXCEPT !.stage = "ok", !.got = {record}]
  <2>2. /\ d = [x \in DeskCallFields |-> d[x]] /\ d.of = c.of /\ d.what = c.what
        /\ d.got = {record} /\ d.to = c.to /\ d.stage = "ok" /\ deskCalls' = (deskCalls \ {c}) \cup {d}
    <3>1. c = [x \in DeskCallFields |-> c[x]]
      BY DEF DeskCallOK
    <3> HIDE DEF DecisionInv
    <3> QED BY <2>1, <3>1 DEF DeskCallFields
  <2> HIDE DEF d
  <2>3. DeskCallOK(d)
    BY <2>1, <2>2 DEF DeskCallOK
  <2> QED BY <1>1, <2>2, <2>3, DeskReplacedOK DEF ServeLoad
<1>2. CASE CheckMove
  <2>1. PICK c \in deskCalls, stage \in {"checked", "refused"} : c.what = "act" /\ deskCalls' = Staged(c, stage)
    BY <1>2 DEF CheckMove
  <2>2. PICK d : deskCalls' = (deskCalls \ {c}) \cup {d} /\ DeskCallOK(d) /\ d.got = {}
    BY <2>1, DeskStagedOK
  <2> QED BY <1>2, <2>2, DeskReplacedOK DEF CheckMove
<1> QED BY <1>1, <1>2

\* A subject moves on.
LEMMA DeskMovedOK ==
  ASSUME DecisionInv, NEW s \in Subjects, NEW to, Move(s, to), UNCHANGED <<desk, display, notice>>,
         OfJobs => to \in JobProgress /\ JobRank[record[s]] <= JobRank[to],
         \A c \in deskCalls' : DeskCallOK(c)',
         \A c \in deskCalls' : c.got # {} => c \in deskCalls,
         desk.page = "job" => (\A c, d \in deskCalls' : c = d) /\ (deskCalls' # {} => deskCalls # {})
  PROVE  DecisionInv'
<1> USE DEF DecisionInv
<1>1. /\ record' = [x \in Subjects |-> IF x = s THEN to ELSE record[x]]
      /\ past' = [x \in Subjects |-> IF x = s THEN past[x] \cup {to} ELSE past[x]]
  BY DEF Move, DeskTypes
<1>2. DeskTypes'
  BY <1>1 DEF DeskTypes, OfJobs
<1>3. (\A x \in Subjects : record'[x] \in past'[x]) /\ ShownWasReal'
  BY <1>1 DEF ShownWasReal
<1>4. JobAsksOnce'
  BY DEF JobAsksOnce
<1>5. JobLags'
  <2> SUFFICES ASSUME desk.page = "job" PROVE JobLags'
    BY DEF JobLags
  <2>1. record[Focus] \in JobProgress /\ record'[Focus] \in JobProgress /\ JobRank[record[Focus]] <= JobRank[record'[Focus]]
    BY <1>1, DecisionAssumption DEF DeskTypes, OfJobs, JobProgress, JobRank
  <2> QED BY <2>1 DEF JobLags, JobProgress, JobRank
<1> QED BY <1>2, <1>3, <1>4, <1>5

LEMMA PastGrowsOK ==
  ASSUME DecisionInv, NEW s \in Subjects, NEW to, Move(s, to), UNCHANGED desk, NEW c, DeskCallOK(c)
  PROVE  DeskCallOK(c)'
<1>1. \A x \in Subjects : past[x] \subseteq past'[x]
  BY DEF Move, DecisionInv, DeskTypes
<1> QED BY <1>1 DEF DeskCallOK, OfJobs

LEMMA WriteMoveOK ==
  ASSUME DecisionInv, WriteMove
  PROVE  DecisionInv' /\ UNCHANGED display
<1> USE DEF DecisionInv
<1>1. PICK c \in deskCalls :
        /\ c.stage = "checked"
        /\ IF OfJobs /\ record[c.of] # "queued"
           THEN /\ deskCalls' = Staged(c, IF record[c.of] = "running" THEN "ok" ELSE "refused")
                /\ UNCHANGED <<record, past>>
           ELSE Move(c.of, c.to) /\ deskCalls' = Staged(c, "ok")
        /\ UNCHANGED <<desk, display, notice>>
  BY DEF WriteMove
<1>2. c.what = "act"
  BY <1>1 DEF DeskCallOK
<1>3. CASE OfJobs /\ record[c.of] # "queued"
  <2>1. PICK stage : deskCalls' = Staged(c, stage)
    BY <1>1, <1>3
  <2>2. PICK d : deskCalls' = (deskCalls \ {c}) \cup {d} /\ DeskCallOK(d) /\ d.got = {}
    BY <1>2, <1>3, <2>1, DeskStagedOK DEF OfJobs
  <2> QED BY <1>1, <1>3, <2>2, DeskReplacedOK
<1>4. CASE ~(OfJobs /\ record[c.of] # "queued")
  <2>1. Move(c.of, c.to) /\ deskCalls' = (deskCalls \ {c}) \cup {[c EXCEPT !.stage = "ok"]}
    BY <1>1, <1>4 DEF Staged
  <2> DEFINE d == [c EXCEPT !.stage = "ok"]
  <2>2. /\ d = [x \in DeskCallFields |-> d[x]] /\ d.of = c.of /\ d.what = c.what
        /\ d.got = c.got /\ d.to = c.to /\ d.stage = "ok" /\ deskCalls' = (deskCalls \ {c}) \cup {d}
    BY <2>1 DEF DeskCallOK, DeskCallFields
  <2> HIDE DEF d
  <2>3. c.of \in Subjects /\ c.to \in past'[c.of] /\ \A x \in Subjects : past[x] \subseteq past'[x]
    BY <2>1 DEF Move, DeskTypes, DeskCallOK
  <2>4. /\ d.of \in Subjects /\ (d.what = "act" /\ OfJobs => d.to = "gone") /\ d.to \in past'[d.of]
        /\ d.got = {} /\ d.what = "act"
    BY <1>2, <2>2, <2>3 DEF DeskCallOK
  <2>5. DeskCallOK(d)'
    BY <1>1, <2>2, <2>4 DEF DeskCallOK, OfJobs
  <2>6. \A e \in deskCalls : DeskCallOK(e)'
    BY <1>1, <2>1, <2>3, PastGrowsOK
  <2>7. OfJobs => c.to \in JobProgress /\ JobRank[record[c.of]] <= JobRank[c.to]
    BY <1>2, <1>4 DEF DeskCallOK, JobProgress, JobRank
  <2> QED BY <1>1, <2>1, <2>2, <2>3, <2>4, <2>5, <2>6, <2>7, DeskMovedOK DEF JobAsksOnce
<1> QED BY <1>3, <1>4

LEMMA DeskElsewhereOK ==
  ASSUME DecisionInv, Elsewhere
  PROVE  DecisionInv' /\ UNCHANGED display
<1> USE DEF DecisionInv
<1>1. PICK s \in Subjects, m \in IF OfJobs THEN JobMoves ELSE Moves :
        record[s] = m[1] /\ Move(s, m[2]) /\ UNCHANGED <<desk, display, notice, deskCalls>>
  BY DecisionAssumption DEF Elsewhere, Seen
<1>2. OfJobs => m[2] \in JobProgress /\ JobRank[record[s]] <= JobRank[m[2]]
  BY <1>1 DEF JobMoves, JobProgress, JobRank
<1>3. \A c \in deskCalls' : DeskCallOK(c)'
  BY <1>1, PastGrowsOK
<1> QED BY <1>1, <1>2, <1>3, DeskMovedOK DEF JobAsksOnce

\* An answer is over, and nothing but the page changes.
LEMMA DeskAnswersOK ==
  ASSUME DecisionInv, LoadAnswered \/ LoadLost \/ ActFails
  PROVE  DecisionInv' /\ JobGoesForward
<1> USE DEF DecisionInv
<1>1. PICK c \in deskCalls : deskCalls' = deskCalls \ {c}
  BY DEF LoadAnswered, LoadLost, ActFails
<1>2. UNCHANGED <<desk, record, past>>
  BY DEF LoadAnswered, LoadLost, ActFails
<1>3. DeskTypes'
  BY <1>2 DEF DeskTypes, OfJobs, LoadAnswered, LoadLost, ActFails, KeptToPage
<1>4. \A d \in deskCalls' : DeskCallOK(d)'
  BY <1>1, <1>2 DEF DeskCallOK, OfJobs
<1>5. desk.page = "job" => deskCalls' = {}
  BY <1>1 DEF JobAsksOnce
<1>6. display' = display \/ (\A s \in Subjects : display'[s] = Unknown)
      \/ \E d \in deskCalls : \E g \in d.got : display' = KeptToPage(g)
  BY DEF LoadAnswered, LoadLost, ActFails
<1>7. ASSUME NEW d \in deskCalls, NEW g \in d.got, NEW s \in Subjects
      PROVE  KeptToPage(g)[s] # Unknown => KeptToPage(g)[s] = g[s] /\ g[s] \in past[s]
  BY DEF KeptToPage, DeskTypes, DeskCallOK
<1>8. ShownWasReal'
  BY <1>2, <1>6, <1>7 DEF ShownWasReal
<1>9. JobLags' /\ JobGoesForward
  <2> SUFFICES ASSUME desk.page = "job", display'[Focus] # Unknown
               PROVE  /\ display'[Focus] \in JobProgress /\ JobRank[display'[Focus]] <= JobRank[record[Focus]]
                      /\ display[Focus] # Unknown => JobRank[display[Focus]] <= JobRank[display'[Focus]]
    BY <1>2, <1>5 DEF JobLags, JobGoesForward
  <2>1. CASE display' = display
    BY <2>1 DEF JobLags, JobProgress, JobRank
  <2>2. CASE \E d \in deskCalls : \E g \in d.got : display' = KeptToPage(g)
    BY <1>7, <2>2, DecisionAssumption DEF JobLags
  <2> QED BY <1>6, <2>1, <2>2, DecisionAssumption
<1> QED BY <1>2, <1>3, <1>4, <1>5, <1>8, <1>9 DEF JobAsksOnce

LEMMA ActAnsweredOK ==
  ASSUME DecisionInv, ActAnswered
  PROVE  DecisionInv' /\ JobGoesForward
<1> USE DEF DecisionInv
<1>1. PICK c \in deskCalls :
        /\ c.what = "act" /\ c.stage = "ok"
        /\ IF desk.page = "blueprint"
           THEN /\ display' = [display EXCEPT ![c.of] = c.to]
                /\ deskCalls' = deskCalls \ {c}
                /\ UNCHANGED notice
           ELSE /\ deskCalls' = LoadCall(deskCalls \ {c}, c.by)
                /\ notice' = [notice EXCEPT !.error = @ /\ ~OfJobs, !.loading = @ \/ desk.page = "job"]
                /\ UNCHANGED display
        /\ UNCHANGED <<desk, record, past>>
  BY DEF ActAnswered
<1>2. CASE desk.page = "blueprint"
  <2>1. DeskTypes' /\ ShownWasReal'
    BY <1>1, <1>2 DEF DeskTypes, OfJobs, ShownWasReal, DeskCallOK
  <2>2. \A d \in deskCalls' : DeskCallOK(d)'
    BY <1>1, <1>2 DEF DeskCallOK, OfJobs
  <2> QED BY <1>1, <1>2, <2>1, <2>2 DEF JobAsksOnce, JobLags, JobGoesForward
<1>3. CASE desk.page # "blueprint"
  <2>1. PICK d : deskCalls' = (deskCalls \ {c}) \cup {d} /\ DeskCallOK(d) /\ d.got = {}
    BY <1>1, <1>3, DeskLoadIsOK
  <2>2. DeskTypes' /\ ShownWasReal' /\ notice'.canceling = notice.canceling
    BY <1>1, <1>3 DEF DeskTypes, OfJobs, ShownWasReal
  <2>3. \A e \in deskCalls' : DeskCallOK(e)'
    BY <1>1, <2>1 DEF DeskCallOK, OfJobs
  <2>4. JobAsksOnce'
    BY <1>1, <1>3, <2>1, <2>2 DEF JobAsksOnce
  <2>5. JobLags' /\ JobGoesForward
    BY <1>1, <1>3, <2>1 DEF JobLags, JobGoesForward, JobProgress, JobRank
  <2> QED BY <1>1, <2>2, <2>3, <2>4, <2>5
<1> QED BY <1>2, <1>3

LEMMA DecisionNextOK ==
  DecisionInv /\ [DecisionNext]_deskVars => DecisionInv' /\ [ShownWasReal' /\ JobGoesForward]_deskVars
<1> SUFFICES ASSUME DecisionInv, [DecisionNext]_deskVars
             PROVE  DecisionInv' /\ [ShownWasReal' /\ JobGoesForward]_deskVars
  OBVIOUS
<1>1. ASSUME DecisionInv', UNCHANGED display PROVE ShownWasReal' /\ JobGoesForward
  BY <1>1 DEF DecisionInv, JobGoesForward, JobLags, JobProgress, JobRank
<1>2. CASE UNCHANGED deskVars
  BY <1>2 DEF deskVars, DecisionInv, DeskTypes, OfJobs, DeskCallOK, ShownWasReal, JobAsksOnce, JobLags
<1>3. CASE DecisionNext
  BY <1>1, <1>3, UserAsksOK, ServedOK, WriteMoveOK, DeskElsewhereOK, DeskAnswersOK, ActAnsweredOK
     DEF DecisionNext, DecisionInv
<1> QED BY <1>2, <1>3

\* The inductive invariant of the pages that decide: an answer on its way brings a
\* state that the thing has had.
THEOREM DecisionInvariant == DecisionSpec => []DecisionInv
BY DecisionInitOK, DecisionNextOK, PTL DEF DecisionSpec

\* Whoever decides meanwhile and whatever answers come late, a state shown is one that
\* the thing has had, and the page of a job does not go back (JobDetailView).
THEOREM DecisionsShownWereReal == DecisionSpec => [][ShownWasReal' /\ JobGoesForward]_deskVars
BY DecisionInvariant, DecisionNextOK, PTL DEF DecisionSpec

-----------------------------------------------------------------------------
(* The reader of the documentation. *)

DocsSpec == DocsInit /\ [][DocsNext]_docsVars

\* Lines that may be in no block.
Silent == {"blank", "fence", "separator"}

IsReading ==
  /\ reading = [lines |-> reading.lines, index |-> reading.index, blocks |-> reading.blocks]
  /\ reading.lines \in Seq(Line)
  /\ reading.index \in Nat \ {0}
  /\ reading.blocks \in Seq([kind : {"code", "table", "list", "heading", "paragraph"}, of : SUBSET Nat])

\* The blocks have lines that have been read, no two the same, and none is missing.
ReadingInv ==
  /\ IsReading
  /\ \A b \in DOMAIN reading.blocks : reading.blocks[b].of \subseteq 1 .. reading.index - 1
  /\ \A b, c \in DOMAIN reading.blocks : b # c => reading.blocks[b].of \cap reading.blocks[c].of = {}
  /\ \A i \in 1 .. Len(reading.lines) :
       i < reading.index /\ LineAt(i) \notin Silent => \E b \in DOMAIN reading.blocks : i \in reading.blocks[b].of

\* There is a first line from i on that is not of a kind, if only the end.
LEMMA BeyondIs ==
  ASSUME IsReading, NEW i \in Nat \ {0}, i <= Len(reading.lines) + 1, NEW kinds
  PROVE  /\ Beyond(i, kinds) \in i .. Len(reading.lines) + 1
         /\ \A k \in i .. Beyond(i, kinds) - 1 : LineAt(k) \in kinds
         /\ Beyond(i, kinds) = Len(reading.lines) + 1 \/ LineAt(Beyond(i, kinds)) \notin kinds
<1> DEFINE end == Len(reading.lines) + 1
           stops == {j \in i .. end : j = end \/ LineAt(j) \notin kinds}
<1>1. end \in Nat
  BY DEF IsReading
<1>2. stops \in SUBSET Nat /\ end \in stops
  BY <1>1
<1>3. PICK j \in stops : \A k \in stops : ~(<<k, j>> \in OpToRel(<, Nat))
  BY <1>2, NatLessThanWellFounded, WFMin
<1>4. ASSUME NEW k \in i .. j - 1 PROVE LineAt(k) \in kinds
  <2>1. k \in Nat /\ j \in Nat /\ k < j
    BY <1>2
  <2>2. k \notin stops
    BY <1>3, <2>1 DEF OpToRel
  <2>3. k \in i .. end
    <3>1. j \in Int /\ j <= end /\ i \in Int /\ end \in Int
      BY <1>1, <1>2
    <3>2. k \in Int /\ i <= k /\ k < j
      BY <2>1
    <3> HIDE DEF end, stops
    <3> QED BY <3>1, <3>2
  <2> QED BY <2>2, <2>3
<1>5. j \in i .. end /\ (j = end \/ LineAt(j) \notin kinds)
  BY <1>3
<1> QED BY <1>4, <1>5 DEF Beyond

\* A block of the lines from the index on, of which it leaves out only silent
\* ones, after which the reader goes on, keeps the invariant.
LEMMA BlockOK ==
  ASSUME ReadingInv, NEW kind \in {"code", "table", "list", "heading", "paragraph"}, NEW of, NEW next \in Nat,
         reading.index < next, of \subseteq reading.index .. next - 1,
         \A i \in reading.index .. next - 1 : i <= Len(reading.lines) => LineAt(i) \in Silent \/ i \in of,
         Block(kind, of, next)
  PROVE  ReadingInv'
<1> DEFINE n == Len(reading.blocks)
           new == [kind |-> kind, of |-> of]
<1>1. /\ reading.lines' = reading.lines
      /\ reading.index' = next
      /\ reading.blocks' = Append(reading.blocks, new)
      /\ reading' = [lines |-> reading.lines, index |-> next, blocks |-> Append(reading.blocks, new)]
  BY DEF Block, ReadingInv, IsReading
<1>2. new \in [kind : {"code", "table", "list", "heading", "paragraph"}, of : SUBSET Nat]
  BY DEF ReadingInv, IsReading
<1>3. IsReading'
  BY <1>1, <1>2 DEF ReadingInv, IsReading
<1>4. /\ n \in Nat /\ DOMAIN reading.blocks = 1 .. n /\ DOMAIN reading.blocks' = 1 .. n + 1
      /\ \A b \in 1 .. n : reading.blocks'[b] = reading.blocks[b]
      /\ reading.blocks'[n + 1].of = of
  BY <1>1, <1>2 DEF ReadingInv, IsReading
<1> HIDE DEF n, new
<1>5. \A b \in DOMAIN reading.blocks' : (reading.blocks'[b]).of \subseteq 1 .. next - 1
  <2>1. \A b \in 1 .. n : reading.blocks[b].of \subseteq 1 .. reading.index - 1
    BY <1>4 DEF ReadingInv
  <2>2. 1 .. reading.index - 1 \subseteq 1 .. next - 1 /\ of \subseteq 1 .. next - 1
    BY DEF ReadingInv, IsReading
  <2>3. ASSUME NEW b \in 1 .. n + 1 PROVE (reading.blocks'[b]).of \subseteq 1 .. next - 1
    <3>1. b \in 1 .. n \/ b = n + 1
      BY <1>4
    <3> QED BY <1>4, <2>1, <2>2, <3>1
  <2> QED BY <1>4, <2>3
<1>6. \A b, c \in DOMAIN reading.blocks' : b # c => (reading.blocks'[b]).of \cap (reading.blocks'[c]).of = {}
  <2>1. \A b \in 1 .. n : (reading.blocks'[b]).of \cap of = {}
    <3>1. \A k \in 1 .. reading.index - 1 : k \notin reading.index .. next - 1
      BY DEF ReadingInv, IsReading
    <3>2. \A b \in 1 .. n : (reading.blocks'[b]).of \subseteq 1 .. reading.index - 1
      BY <1>4 DEF ReadingInv
    <3> QED BY <3>1, <3>2
  <2>2. ASSUME NEW b \in 1 .. n + 1, NEW c \in 1 .. n + 1, b # c
        PROVE  (reading.blocks'[b]).of \cap (reading.blocks'[c]).of = {}
    <3>1. CASE b = n + 1 /\ c \in 1 .. n
      BY <1>4, <2>1, <3>1
    <3>2. CASE c = n + 1 /\ b \in 1 .. n
      BY <1>4, <2>1, <3>2
    <3>3. CASE b \in 1 .. n /\ c \in 1 .. n
      BY <1>4, <2>2, <3>3 DEF ReadingInv
    <3> QED BY <1>4, <2>2, <3>1, <3>2, <3>3
  <2> QED BY <1>4, <2>2
<1>7. ASSUME NEW i \in 1 .. Len(reading.lines), i < next, LineAt(i) \notin Silent
      PROVE  \E b \in DOMAIN reading.blocks' : i \in (reading.blocks'[b]).of
  <2>1. CASE i < reading.index
    <3>1. PICK b \in 1 .. n : i \in reading.blocks[b].of
      BY <1>4, <1>7, <2>1 DEF ReadingInv
    <3>2. b \in DOMAIN reading.blocks' /\ reading.blocks'[b] = reading.blocks[b]
      BY <1>4
    <3> QED BY <3>1, <3>2
  <2>2. CASE ~(i < reading.index)
    <3>1. i \in of
      BY <1>7, <2>2 DEF ReadingInv, IsReading
    <3> QED BY <1>4, <3>1
  <2> QED BY <2>1, <2>2
<1> QED BY <1>1, <1>3, <1>5, <1>6, <1>7 DEF ReadingInv, LineAt

LEMMA ReadBlockOK == ReadingInv /\ ReadBlock => ReadingInv'
<1> SUFFICES ASSUME ReadingInv, ReadBlock PROVE ReadingInv'
  OBVIOUS
<1> DEFINE now == reading.index
<1>1. /\ now \in Nat \ {0} /\ now <= Len(reading.lines) /\ Len(reading.lines) \in Nat
      /\ LineAt(now) \in Line /\ IsReading
  BY DEF ReadingInv, IsReading, ReadBlock, LineAt
<1>2. CASE ReadCode
  <2> DEFINE close == Beyond(now + 1, Line \ {"fence"})
  <2>1. /\ close \in now + 1 .. Len(reading.lines) + 1
        /\ close = Len(reading.lines) + 1 \/ LineAt(close) \notin Line \ {"fence"}
    BY <1>1, BeyondIs
  <2>2. close <= Len(reading.lines) => LineAt(close) \in Silent
    BY <1>1, <2>1 DEF IsReading, LineAt, Silent
  <2>3. LineAt(now) \in Silent /\ Block("code", now + 1 .. close - 1, close + 1)
    BY <1>2 DEF ReadCode, Silent
  <2> HIDE DEF close
  <2> QED BY <1>1, <2>1, <2>2, <2>3, BlockOK
<1>3. CASE ReadTable
  <2> DEFINE end == Beyond(now + 2, {l \in Line : Barred(l)})
  <2>1. now + 2 <= Len(reading.lines) + 1 /\ LineAt(now + 1) \in Silent
    BY <1>1, <1>3 DEF ReadTable, IsTable, Silent
  <2>2. end \in now + 2 .. Len(reading.lines) + 1
    BY <1>1, <2>1, BeyondIs
  <2>3. Block("table", {now} \cup (now + 2 .. end - 1), end)
    BY <1>3 DEF ReadTable
  <2> HIDE DEF end
  <2> QED BY <1>1, <2>1, <2>2, <2>3, BlockOK
<1>4. CASE ReadList
  <2>1. PICK kinds \in {{l \in Line : Bullet(l)}, {"number"}} :
          /\ LineAt(now) \in kinds
          /\ Block("list", now .. Beyond(now, kinds) - 1, Beyond(now, kinds))
    BY <1>4 DEF ReadList
  <2> DEFINE end == Beyond(now, kinds)
  <2>2. /\ end \in now .. Len(reading.lines) + 1
        /\ end = Len(reading.lines) + 1 \/ LineAt(end) \notin kinds
    BY <1>1, BeyondIs
  <2>3. Block("list", now .. end - 1, end)
    BY <2>1
  <2> HIDE DEF end
  <2>4. end # now
    BY <1>1, <2>1, <2>2
  <2>5. end > now
    BY <1>1, <2>2, <2>4
  <2> QED BY <1>1, <2>2, <2>3, <2>5, BlockOK
<1>5. CASE ReadLine
  <2>1. PICK kind \in {"heading", "paragraph"} : Block(kind, {now}, now + 1)
    BY <1>5 DEF ReadLine
  <2> QED BY <1>1, <2>1, BlockOK
<1>6. CASE SkipBlank
  <2>1. LineAt(now) \in Silent
    BY <1>6 DEF SkipBlank, Silent
  <2>2. /\ reading.lines' = reading.lines /\ reading.blocks' = reading.blocks /\ reading.index' = now + 1
        /\ reading' = [lines |-> reading.lines, index |-> now + 1, blocks |-> reading.blocks]
    BY <1>1, <1>6 DEF SkipBlank, IsReading
  <2>3. IsReading'
    BY <1>1, <2>2 DEF IsReading
  <2>4. \A b \in DOMAIN reading.blocks : reading.blocks[b].of \subseteq 1 .. now
    BY <1>1 DEF ReadingInv
  <2>5. ASSUME NEW i \in 1 .. Len(reading.lines), i < now + 1, LineAt(i) \notin Silent
        PROVE  \E b \in DOMAIN reading.blocks : i \in reading.blocks[b].of
    <3>1. i < now
      BY <1>1, <2>1, <2>5
    <3> QED BY <2>5, <3>1 DEF ReadingInv
  <2> QED BY <1>1, <2>2, <2>3, <2>4, <2>5 DEF ReadingInv, LineAt
<1> QED BY <1>2, <1>3, <1>4, <1>5, <1>6 DEF ReadBlock

\* The inductive invariant of the reader.
THEOREM ReadingInvariant == DocsSpec => []ReadingInv
<1>1. DocsInit => ReadingInv
  <2> SUFFICES ASSUME DocsInit PROVE ReadingInv
    OBVIOUS
  <2>1. PICK lines \in Seq(Line) : reading = [lines |-> lines, index |-> 1, blocks |-> <<>>]
    <3>1. \A n \in 1 .. MaxLines : [1 .. n -> Line] \subseteq Seq(Line)
      OBVIOUS
    <3>2. CASE reading = [lines |-> <<>>, index |-> 1, blocks |-> <<>>]
      <4>1. <<>> \in Seq(Line)
        OBVIOUS
      <4> WITNESS <<>> \in Seq(Line)
      <4> QED BY <3>2
    <3>3. CASE \E n \in 1 .. MaxLines : \E lines \in [1 .. n -> Line] :
                 reading = [lines |-> lines, index |-> 1, blocks |-> <<>>]
      BY <3>1, <3>3
    <3> QED BY <3>2, <3>3 DEF DocsInit
  <2> QED BY <2>1 DEF ReadingInv, IsReading
<1>2. ReadingInv /\ [DocsNext]_docsVars => ReadingInv'
  <2> SUFFICES ASSUME ReadingInv, [DocsNext]_docsVars PROVE ReadingInv'
    OBVIOUS
  <2>1. UNCHANGED reading => ReadingInv'
    BY DEF ReadingInv, IsReading, LineAt
  <2>2. ~ReadBlock => UNCHANGED reading
    BY DEF DocsNext, docsVars, SearchDocs, IndexAnswered, SelectDoc, DocAnswered, DocFails
  <2> QED BY <2>1, <2>2, ReadBlockOK
<1> QED BY <1>1, <1>2, PTL DEF DocsSpec

\* Whatever lines a document has, each that has been read is in one block, and none
\* is in two (Documentation!NoLineIsLost).
THEOREM NoLineIsLostAlways == DocsSpec => []NoLineIsLost
<1>1. ReadingInv => NoLineIsLost
  <2> SUFFICES ASSUME ReadingInv, NEW i \in 1 .. Len(reading.lines)
               PROVE  LET in == {b \in DOMAIN reading.blocks : i \in reading.blocks[b].of}
                      IN /\ Cardinality(in) <= 1
                         /\ i < reading.index /\ LineAt(i) \notin Silent => in # {}
    BY DEF NoLineIsLost, Silent
  <2> DEFINE in == {b \in DOMAIN reading.blocks : i \in reading.blocks[b].of}
  <2>1. \A b, c \in in : b = c
    BY DEF ReadingInv
  <2>2. Cardinality(in) <= 1
    <3>1. CASE in = {}
      <4>1. Cardinality({}) = 0
        BY FS_EmptySet
      <4>2. Cardinality(in) = 0
        BY ONLY <3>1, <4>1
      <4> QED BY <4>2
    <3>2. CASE in # {}
      <4>1. PICK b : in = {b}
        BY <2>1, <3>2
      <4>2. Cardinality({b}) = 1
        BY FS_Singleton
      <4>3. Cardinality(in) = 1
        BY ONLY <4>1, <4>2
      <4> QED BY <4>3
    <3> QED BY <3>1, <3>2
  <2>3. i < reading.index /\ LineAt(i) \notin Silent => in # {}
    BY DEF ReadingInv
  <2> QED BY <2>2, <2>3
<1> QED BY <1>1, ReadingInvariant, PTL

-----------------------------------------------------------------------------
(* The results of an experiment. *)

ResultsSpec == ExperimentInit /\ [][ExperimentNext]_experimentVars

\* Any of the models are finitely many.
LEMMA ModelsAreFinite ==
  ASSUME NEW models \in SUBSET Model
  PROVE  /\ IsFiniteSet(models) /\ Cardinality(models) \in Nat
         /\ Cardinality(models) = 0 <=> models = {}
<1>1. Executed \in Surjection(1 .. Len(Executed), Model)
  <2>1. Executed \in Seq(Model)
    BY ExperimentPageAssumption
  <2>2. Executed \in [1 .. Len(Executed) -> Model] /\ DOMAIN Executed = 1 .. Len(Executed)
    BY ONLY <2>1
  <2>3. \A m \in Model : \E i \in DOMAIN Executed : Executed[i] = m
    BY DEF Model, ToSet
  <2> QED BY <2>2, <2>3 DEF Surjection
<1>2. Len(Executed) \in Nat
  <2>1. Executed \in Seq(Model)
    BY ExperimentPageAssumption
  <2> QED BY ONLY <2>1
<1>3. IsFiniteSet(Model)
  BY <1>1, <1>2, FS_Interval, FS_Surjection
<1>4. IsFiniteSet(models)
  BY <1>3, FS_Subset
<1> QED BY <1>4, FS_CardinalityType, FS_EmptySet

\* A sort order has each model in one place.
LEMMA PlacesAreDistinct ==
  ASSUME NEW key \in DOMAIN Ranking
  PROVE  /\ \A m \in Model : PlaceIn(Ranking[key], m) \in Nat
         /\ \A m, o \in Model : PlaceIn(Ranking[key], m) = PlaceIn(Ranking[key], o) => m = o
<1>1. Ranking[key] \in Seq(Model) /\ ToSet(Ranking[key]) = Model
  BY ExperimentPageAssumption
<1>2. ASSUME NEW m \in Model
      PROVE  PlaceIn(Ranking[key], m) \in 1 .. Len(Ranking[key]) /\ Ranking[key][PlaceIn(Ranking[key], m)] = m
  <2>1. \E i \in 1 .. Len(Ranking[key]) : Ranking[key][i] = m
    BY <1>1 DEF ToSet
  <2> QED BY <2>1 DEF PlaceIn
<1>3. 1 .. Len(Ranking[key]) \subseteq Nat
  BY <1>1
<1> QED BY <1>2, <1>3

\* What is meant by the best of some models.
Best(m, models, key) ==
  m \in models /\ \A o \in models : PlaceIn(Ranking[key], m) <= PlaceIn(Ranking[key], o)

\* Of some models one is the best.
LEMMA OneIsBest ==
  ASSUME NEW key \in DOMAIN Ranking, NEW models \in SUBSET Model, models # {}
  PROVE  /\ \E m : Best(m, models, key)
         /\ \A m, o : Best(m, models, key) /\ Best(o, models, key) => m = o
<1> DEFINE place(m) == PlaceIn(Ranking[key], m)
           places == {place(m) : m \in models}
<1>1. \A m \in models : place(m) \in Nat
  BY PlacesAreDistinct
<1>2. places \in SUBSET Nat /\ places # {}
  BY <1>1
<1>3. PICK p \in places : \A q \in places : ~(<<q, p>> \in OpToRel(<, Nat))
  BY <1>2, NatLessThanWellFounded, WFMin
<1>4. PICK m \in models : p = place(m)
  BY <1>3
<1>5. ASSUME NEW o \in models PROVE place(m) <= place(o)
  <2>1. place(o) \in places /\ place(o) \in Nat /\ place(m) \in Nat
    BY <1>1
  <2>2. ~(place(o) < place(m))
    BY <1>3, <1>4, <2>1 DEF OpToRel
  <2> QED BY <2>1, <2>2
<1>6. Best(m, models, key)
  BY <1>5 DEF Best
<1>7. ASSUME NEW a, NEW b, Best(a, models, key), Best(b, models, key) PROVE a = b
  <2>1. a \in models /\ b \in models /\ place(a) <= place(b) /\ place(b) <= place(a)
    BY <1>7 DEF Best
  <2>2. place(a) = place(b)
    BY <1>1, <2>1
  <2> QED BY <2>1, <2>2, PlacesAreDistinct
<1> QED BY <1>6, <1>7

\* All of the models are ranked, and the first is the best.
LEMMA FirstIsBest ==
  ASSUME NEW key \in DOMAIN Ranking, NEW models \in SUBSET Model
  PROVE  /\ Len(Ranked(models, key)) = Cardinality(models)
         /\ Ranked(models, key) = <<>> <=> models = {}
         /\ models # {} => Best(Ranked(models, key)[1], models, key)
<1> DEFINE place(m) == PlaceIn(Ranking[key], m)
           upTo(m) == {o \in models : place(o) <= place(m)}
           n == Cardinality(models)
           nth(i) == CHOOSE m \in models : Cardinality(upTo(m)) = i
           list == Ranked(models, key)
<1>1. n \in Nat /\ (n = 0 <=> models = {})
  BY ModelsAreFinite
<1>2. list = [i \in 1 .. n |-> nth(i)]
  BY DEF Ranked
<1> HIDE DEF n
<1>3. Len(list) = n /\ (list = <<>> <=> n = 0)
  <2> DEFINE values == {list[i] : i \in 1 .. n}
  <2>1. list \in [1 .. n -> values]
    BY <1>2
  <2> HIDE DEF list, values
  <2>2. list \in Seq(values) /\ Len(list) = n
    BY <1>1, <2>1
  <2> QED BY <2>2, EmptySeq
<1>4. n > 0 => list[1] = nth(1)
  <2> HIDE DEF nth, list
  <2> QED BY <1>1, <1>2
<1>5. ASSUME models # {} PROVE Best(list[1], models, key)
  <2>1. \A m \in models : place(m) \in Nat
    BY PlacesAreDistinct
  <2>2. ASSUME NEW m \in models PROVE Cardinality(upTo(m)) = 1 <=> Best(m, models, key)
    <3>1. m \in upTo(m) /\ IsFiniteSet(upTo(m))
      BY <2>1, ModelsAreFinite
    <3>2. ASSUME Cardinality(upTo(m)) = 1 PROVE Best(m, models, key)
      <4>1. upTo(m) = {m}
        BY <3>1, <3>2, FS_Singleton
      <4>2. ASSUME NEW o \in models PROVE place(m) <= place(o)
        <5>1. o = m \/ ~(place(o) <= place(m))
          BY <4>1
        <5> QED BY <2>1, <5>1
      <4> QED BY <4>2 DEF Best
    <3>3. ASSUME Best(m, models, key) PROVE Cardinality(upTo(m)) = 1
      <4>1. ASSUME NEW o \in upTo(m) PROVE o = m
        <5>1. place(o) = place(m)
          BY <2>1, <3>3 DEF Best
        <5> QED BY <5>1, PlacesAreDistinct
      <4>2. upTo(m) = {m}
        BY <3>1, <4>1
      <4> QED BY <4>2, FS_Singleton
    <3> QED BY <3>2, <3>3
  <2>3. \E m \in models : Cardinality(upTo(m)) = 1
    <3>1. PICK m : Best(m, models, key)
      BY <1>5, OneIsBest
    <3>2. m \in models
      BY <3>1 DEF Best
    <3> QED BY <2>2, <3>1, <3>2
  <2>4. list[1] \in models /\ Cardinality(upTo(list[1])) = 1
    <3>1. n > 0
      BY <1>1, <1>5
    <3>2. list[1] = CHOOSE m \in models : Cardinality(upTo(m)) = 1
      BY <1>4, <3>1
    <3> HIDE DEF list, upTo
    <3> QED BY <2>3, <3>2
  <2> QED BY <2>2, <2>4
<1> USE DEF n
<1> QED BY <1>1, <1>3, <1>4, <1>5

LEMMA RowsAreModels == ASSUME NEW data, \A r \in data : r.models \subseteq Model PROVE Rows(data) \in SUBSET Model
BY DEF Rows

\* The server's order of the models by return, with those of zero last.
LEMMA ServedInOrder ==
  ASSUME NEW m \in Model, NEW o \in Model, NEW q \in Model
  PROVE  /\ ~ServedBefore(m, m)
         /\ ServedBefore(q, o) /\ ServedBefore(o, m) => ServedBefore(q, m)
         /\ m # o => ServedBefore(m, o) \/ ServedBefore(o, m)
<1>1. \A x \in Model : ReturnPlace(x) \in Nat
  BY PlacesAreDistinct, ExperimentPageAssumption DEF ReturnPlace
<1>2. \A x, y \in Model : ReturnPlace(x) = ReturnPlace(y) => x = y
  BY PlacesAreDistinct, ExperimentPageAssumption DEF ReturnPlace
<1> QED BY <1>1, <1>2 DEF ServedBefore

\* Those that come before one, of some models, and the first of them.
Ahead(m, models) == {o \in models : ServedBefore(o, m)}

Top(models) == {m \in models : Cardinality(Ahead(m, models)) < LeaderboardSize}

\* Each of some models has a place of its own, and no place is left out.
LEMMA AheadCounts ==
  ASSUME NEW models \in SUBSET Model
  PROVE  [m \in models |-> Cardinality(Ahead(m, models))] \in Bijection(models, 0 .. Cardinality(models) - 1)
<1> DEFINE n == Cardinality(models)
           before(m) == Cardinality(Ahead(m, models))
           f == [m \in models |-> before(m)]
<1>1. IsFiniteSet(models) /\ n \in Nat
  BY ModelsAreFinite
<1>2. ASSUME NEW m \in models
      PROVE  IsFiniteSet(Ahead(m, models)) /\ before(m) \in 0 .. n - 1
  <2>1. Ahead(m, models) \in SUBSET models /\ m \notin Ahead(m, models)
    BY ServedInOrder DEF Ahead
  <2>2. /\ IsFiniteSet(Ahead(m, models)) /\ before(m) <= n
        /\ n = before(m) => models = Ahead(m, models)
    BY <1>1, <2>1, FS_Subset
  <2>3. before(m) \in Nat /\ before(m) # n
    BY <2>1, <2>2, FS_CardinalityType
  <2> QED BY <1>1, <2>2, <2>3
<1>3. ASSUME NEW m \in models, NEW o \in models, ServedBefore(o, m) PROVE before(o) < before(m)
  <2>1. Ahead(o, models) \in SUBSET Ahead(m, models) /\ Ahead(o, models) # Ahead(m, models)
    <3>1. o \in Ahead(m, models) /\ o \notin Ahead(o, models)
      BY <1>3, ServedInOrder DEF Ahead
    <3>2. \A q \in Ahead(o, models) : q \in Ahead(m, models)
      BY <1>3, ServedInOrder DEF Ahead
    <3> QED BY <3>1, <3>2
  <2>2. before(o) <= before(m) /\ before(o) # before(m)
    BY <1>2, <2>1, FS_Subset
  <2>3. before(o) \in Int /\ before(m) \in Int
    BY <1>2
  <2> HIDE DEF before
  <2> QED BY <2>2, <2>3
<1>4. ASSUME NEW m \in models, NEW o \in models, m # o PROVE before(m) # before(o)
  <2>1. before(m) \in Int /\ before(o) \in Int
    BY <1>2
  <2>2. ServedBefore(m, o) \/ ServedBefore(o, m)
    BY <1>4, ServedInOrder
  <2>3. before(m) < before(o) \/ before(o) < before(m)
    BY <1>3, <2>2
  <2> HIDE DEF before
  <2> QED BY <2>1, <2>3
<1> HIDE DEF before, n
<1>5. f \in Injection(models, 0 .. n - 1)
  BY <1>2, <1>4 DEF Injection, IsInjective
<1>6. IsFiniteSet(0 .. n - 1) /\ Cardinality(0 .. n - 1) = n
  BY <1>1, FS_Interval
<1>7. f \in Surjection(models, 0 .. n - 1)
  BY <1>5, <1>6, FS_Injection DEF n
<1> QED BY <1>5, <1>7 DEF Bijection, before, n

\* The first of some models are as many as there are, up to their limit.
LEMMA TopCounts ==
  ASSUME NEW models \in SUBSET Model
  PROVE  Cardinality(Top(models)) =
           IF Cardinality(models) < LeaderboardSize THEN Cardinality(models) ELSE LeaderboardSize
<1> DEFINE n == Cardinality(models)
           k == IF n < LeaderboardSize THEN n ELSE LeaderboardSize
           before(m) == Cardinality(Ahead(m, models))
           f == [m \in models |-> before(m)]
           g == [m \in Top(models) |-> before(m)]
<1>1. n \in Nat /\ LeaderboardSize \in Nat
  BY ModelsAreFinite, ExperimentPageAssumption
<1>2. f \in Bijection(models, 0 .. n - 1)
  BY AheadCounts
<1>3. Top(models) = {m \in models : before(m) < LeaderboardSize}
  BY DEF Top
<1> HIDE DEF before, n
<1>4. /\ \A m \in models : before(m) \in 0 .. n - 1
      /\ \A m, o \in models : before(m) = before(o) => m = o
      /\ \A i \in 0 .. n - 1 : \E m \in models : before(m) = i
  BY <1>2 DEF Bijection, Injection, IsInjective, Surjection
<1>5. 0 .. k - 1 \subseteq 0 .. n - 1 /\ \A i \in 0 .. n - 1 : i < LeaderboardSize <=> i \in 0 .. k - 1
  BY <1>1
<1> HIDE DEF k
<1>6. /\ \A m \in Top(models) : before(m) \in 0 .. k - 1
      /\ \A i \in 0 .. k - 1 : \E m \in Top(models) : before(m) = i
  BY <1>3, <1>4, <1>5
<1>7. g \in Injection(Top(models), 0 .. k - 1) /\ g \in Surjection(Top(models), 0 .. k - 1)
  BY <1>3, <1>4, <1>6 DEF Injection, IsInjective, Surjection
<1>8. IsFiniteSet(0 .. k - 1) /\ Cardinality(0 .. k - 1) = k
  <2>1. k \in Nat
    BY <1>1 DEF k
  <2> QED BY <2>1, FS_Interval
<1>9. Cardinality(Top(models)) = k
  BY <1>7, <1>8, FS_Injection
<1> QED BY <1>9 DEF k, n

\* The leaderboard is of the rows, and there is one when there are any.
LEMMA LeaderboardOK ==
  ASSUME NEW data, \A r \in data : r.models \subseteq Model
  PROVE  /\ Leaderboard(data) = Top(Rows(data)) /\ Leaderboard(data) \in SUBSET Rows(data)
         /\ Leaderboard(data) \in SUBSET Model
         /\ Rows(data) # {} => Leaderboard(data) # {}
<1>1. Leaderboard(data) = Top(Rows(data)) /\ Leaderboard(data) \in SUBSET Rows(data)
  BY DEF Leaderboard, Top, Ahead
<1>2. Rows(data) \in SUBSET Model
  BY RowsAreModels
<1>3. ASSUME Rows(data) # {} PROVE Leaderboard(data) # {}
  <2>1. Cardinality(Rows(data)) \in Nat \ {0} /\ LeaderboardSize \in Nat \ {0}
    BY <1>2, <1>3, ModelsAreFinite, ExperimentPageAssumption
  <2>2. Cardinality(Top(Rows(data))) # 0
    BY <1>2, <2>1, TopCounts
  <2> QED BY <1>1, <2>2, FS_EmptySet
<1> QED BY <1>1, <1>2, <1>3

IsBoard ==
  /\ board = [page |-> board.page, sort |-> board.sort, positiveOnly |-> board.positiveOnly,
              selected |-> board.selected, open |-> board.open]
  /\ board.page \in Nat \ {0} /\ board.sort \in DOMAIN Ranking

\* Of models alone is anything loaded.
ModelsLoaded ==
  /\ experiment = [status |-> experiment.status, models |-> experiment.models, retries |-> experiment.retries]
  /\ experiment.models \subseteq Model
  /\ loads = [unread |-> loads.unread, replies |-> loads.replies]
  /\ \A r \in loads.replies : r.models \subseteq Model
  /\ \A r \in shown : r.models \subseteq Model

RiskOK == watched = "risk" /\ Rows(shown) # {} => risk.active # NoModel

\* The page of the leaderboard is one there is, and the risk chart has an active
\* row as soon as there are any.
ResultsInv == ModelsLoaded /\ IsBoard /\ board.page <= PageCount(shown, board) /\ RiskOK

\* The number of rows that the filters leave.
Left(data, b) == Cardinality({m \in Leaderboard(data) : b.positiveOnly => m \in Positive})

\* The last page is the one with the last row.
LEMMA PagesThereAre ==
  ASSUME NEW data, \A r \in data : r.models \subseteq Model, NEW b, b.sort \in DOMAIN Ranking
  PROVE  /\ Left(data, b) \in Nat /\ Len(Filtered(data, b)) = Left(data, b)
         /\ PageCount(data, b) \in Nat \ {0}
         /\ \A p \in Nat \ {0} : p <= PageCount(data, b) /\ Left(data, b) > 0 =>
              (p - 1) * PageSize + 1 <= Left(data, b)
<1> DEFINE n == Left(data, b)
           q == (n + PageSize - 1) \div PageSize
<1>1. n \in Nat /\ Len(Filtered(data, b)) = n
  <2>1. {m \in Leaderboard(data) : b.positiveOnly => m \in Positive} \in SUBSET Model
    BY LeaderboardOK
  <2> QED BY <2>1, FirstIsBest, ModelsAreFinite DEF Filtered, Left
<1>2. PageSize \in Nat \ {0}
  BY ExperimentPageAssumption
<1>3. PageCount(data, b) = IF q < 1 THEN 1 ELSE q
  BY <1>1 DEF PageCount
<1> HIDE DEF n
<1>4. q \in Nat /\ q * PageSize <= n + PageSize - 1
  BY <1>1, <1>2
<1> HIDE DEF q
<1>5. ASSUME NEW p \in Nat \ {0}, p <= PageCount(data, b), n > 0 PROVE (p - 1) * PageSize + 1 <= n
  <2>1. CASE p <= q
    <3>1. p * PageSize <= q * PageSize
      BY <1>2, <1>4, <2>1
    <3>2. p * PageSize <= n + PageSize - 1
      BY <1>1, <1>2, <1>4, <3>1
    <3>3. (p - 1) * PageSize = p * PageSize - PageSize
      BY <1>2
    <3> QED BY <1>1, <1>2, <3>2, <3>3
  <2>2. CASE p = 1
    BY <1>1, <1>2, <1>5, <2>2
  <2> QED BY <1>3, <1>4, <1>5, <2>1, <2>2
<1> USE DEF n
<1> QED BY <1>1, <1>3, <1>4, <1>5

\* The page and the selection do not count.
LEMMA PageCountOfSort ==
  ASSUME NEW data, NEW b, NEW c, b.sort = c.sort, b.positiveOnly = c.positiveOnly
  PROVE  PageCount(data, b) = PageCount(data, c)
BY DEF PageCount, Filtered

LEMMA ClampedOK ==
  ASSUME NEW data, \A r \in data : r.models \subseteq Model, IsBoard, board' = Clamped(data, board)
  PROVE  IsBoard' /\ board'.page <= PageCount(data, board')
<1> DEFINE n == PageCount(data, board)
<1>1. n \in Nat \ {0}
  BY PagesThereAre DEF IsBoard
<1>2. CASE board.page > n
  <2>1. board' = [page |-> n, sort |-> board.sort, positiveOnly |-> board.positiveOnly,
                  selected |-> board.selected, open |-> board.open]
    BY <1>2 DEF Clamped, IsBoard
  <2> HIDE DEF n
  <2>2. board'.sort = board.sort /\ board'.positiveOnly = board.positiveOnly /\ board'.page = n
    BY <2>1
  <2>3. PageCount(data, board') = n
    BY <2>2, PageCountOfSort DEF n
  <2> QED BY <1>1, <2>1, <2>2, <2>3 DEF IsBoard
<1>3. CASE ~(board.page > n)
  <2>1. board' = board
    BY <1>3 DEF Clamped
  <2> QED BY <1>1, <1>3, <2>1 DEF IsBoard
<1> QED BY <1>2, <1>3

\* The row that the risk chart takes for selected is one, when there are any.
LEMMA ChartRowOK ==
  ASSUME NEW data, \A r \in data : r.models \subseteq Model, Rows(data) # {}, NEW b, b.sort \in DOMAIN Ranking
  PROVE  ChartRow(data, b) # NoModel
<1> DEFINE some == {m \in Leaderboard(data) : b.positiveOnly => m \in Positive}
<1>1. /\ Leaderboard(data) \in SUBSET Model /\ Leaderboard(data) # {}
      /\ some \in SUBSET Model /\ NoModel \notin Model
  BY LeaderboardOK, ExperimentPageAssumption
<1>2. Filtered(data, b) # <<>> => Filtered(data, b)[1] \in Model
  BY <1>1, FirstIsBest DEF Filtered, Best
<1>3. RankCurve(data) # <<>> /\ RankCurve(data)[1] \in Model
  BY <1>1, FirstIsBest, ExperimentPageAssumption DEF RankCurve, Best
<1> QED BY <1>1, <1>2, <1>3 DEF ChartRow, SelectedModel

\* What has been loaded is shown, with the page and the active row put right.
LEMMA LoadArrivesOK == ResultsInv /\ LoadArrives => ResultsInv'
<1> SUFFICES ASSUME ResultsInv, LoadArrives PROVE ResultsInv'
  OBVIOUS
<1>1. PICK reply \in loads.replies :
        /\ loads' = [loads EXCEPT !.replies = @ \ {reply}]
        /\ shown' = {reply}
        /\ board' = Clamped(shown', board)
        /\ risk' = IF watched = "risk" THEN RiskFilled(shown', board', risk) ELSE risk
  BY DEF LoadArrives
<1>2. UNCHANGED <<experiment, watched>>
  BY DEF LoadArrives
<1>3. \A r \in shown' : r.models \subseteq Model
  BY <1>1 DEF ResultsInv, ModelsLoaded
<1>4. loads' = [unread |-> loads.unread, replies |-> loads.replies \ {reply}]
  BY <1>1 DEF ResultsInv, ModelsLoaded
<1>5. ModelsLoaded'
  BY <1>2, <1>3, <1>4 DEF ResultsInv, ModelsLoaded
<1>6. IsBoard' /\ board'.page <= PageCount(shown', board')
  BY <1>1, <1>3, ClampedOK DEF ResultsInv
<1>7. ASSUME watched = "risk", Rows(shown') # {} PROVE risk'.active # NoModel
  <2>1. ChartRow(shown', board') # NoModel
    BY <1>3, <1>6, <1>7, ChartRowOK DEF IsBoard
  <2> QED BY <1>1, <1>7, <2>1 DEF RiskFilled
<1> QED BY <1>2, <1>5, <1>6, <1>7 DEF ResultsInv, RiskOK

\* The user turns the pages, sorts and filters, and selects.
LEMMA BoardStepsOK ==
  ResultsInv /\ (EditFilters \/ TurnPage \/ ViewModel \/ CloseModel \/ SelectChartPoint) => ResultsInv'
<1> SUFFICES ASSUME ResultsInv, EditFilters \/ TurnPage \/ ViewModel \/ CloseModel \/ SelectChartPoint
             PROVE  ResultsInv'
  OBVIOUS
<1>1. UNCHANGED <<experiment, shown, loads, watched>>
  BY DEF EditFilters, TurnPage, ViewModel, CloseModel, SelectChartPoint
<1>2. ModelsLoaded' /\ (UNCHANGED risk => RiskOK')
  BY <1>1 DEF ResultsInv, ModelsLoaded, RiskOK
<1>3. CASE EditFilters
  <2>1. PICK sort \in DOMAIN Ranking, positiveOnly \in BOOLEAN :
          board' = [board EXCEPT !.page = 1, !.sort = sort, !.positiveOnly = positiveOnly]
    BY <1>3 DEF EditFilters
  <2>2. board' = [page |-> 1, sort |-> sort, positiveOnly |-> positiveOnly,
                  selected |-> board.selected, open |-> board.open]
    BY <2>1 DEF ResultsInv, IsBoard
  <2>3. IsBoard'
    BY <2>2 DEF IsBoard
  <2>4. PageCount(shown, board') \in Nat \ {0}
    BY <2>3, PagesThereAre DEF IsBoard, ResultsInv, ModelsLoaded
  <2>5. board'.page <= PageCount(shown', board')
    BY <1>1, <2>2, <2>4
  <2> QED BY <1>2, <1>3, <2>3, <2>5 DEF ResultsInv, EditFilters
<1>4. CASE TurnPage
  <2>1. PICK p \in {board.page - 1, board.page + 1} \cap (1 .. PageCount(shown, board)) :
          board' = [board EXCEPT !.page = p]
    BY <1>4 DEF TurnPage
  <2>2. board' = [page |-> p, sort |-> board.sort, positiveOnly |-> board.positiveOnly,
                  selected |-> board.selected, open |-> board.open]
    BY <2>1 DEF ResultsInv, IsBoard
  <2>3. PageCount(shown, board) \in Nat
    BY PagesThereAre DEF IsBoard, ResultsInv, ModelsLoaded
  <2>4. p \in Nat \ {0} /\ p <= PageCount(shown, board)
    BY <2>1, <2>3
  <2>5. IsBoard'
    BY <2>2, <2>4 DEF IsBoard, ResultsInv
  <2>6. PageCount(shown, board') = PageCount(shown, board)
    BY <2>2, PageCountOfSort
  <2> QED BY <1>1, <1>2, <1>4, <2>2, <2>4, <2>5, <2>6 DEF ResultsInv, TurnPage
<1>5. CASE ViewModel \/ CloseModel
  <2>1. PICK selected, open : board' = [page |-> board.page, sort |-> board.sort, positiveOnly |-> board.positiveOnly,
                                        selected |-> selected, open |-> open]
    BY <1>5 DEF ViewModel, CloseModel, ResultsInv, IsBoard
  <2>2. IsBoard'
    BY <2>1 DEF IsBoard, ResultsInv
  <2>3. PageCount(shown, board') = PageCount(shown, board)
    BY <2>1, PageCountOfSort
  <2> QED BY <1>1, <1>2, <1>5, <2>1, <2>2, <2>3 DEF ResultsInv, ViewModel, CloseModel
<1>6. CASE SelectChartPoint
  <2>1. PICK m \in Leaderboard(shown) :
          risk' = [key |-> Cluster[m],
                   active |-> Ranked({o \in Leaderboard(shown) : Cluster[o] = Cluster[m]}, "total_return_net_pct")[1]]
    BY <1>6 DEF SelectChartPoint
  <2> DEFINE point == {o \in Leaderboard(shown) : Cluster[o] = Cluster[m]}
  <2>2. point \in SUBSET Model /\ m \in point
    BY LeaderboardOK DEF ResultsInv, ModelsLoaded
  <2>3. Ranked(point, "total_return_net_pct")[1] \in Model
    BY <2>2, FirstIsBest, ExperimentPageAssumption DEF Best
  <2>4. risk'.active # NoModel
    BY <2>1, <2>3, ExperimentPageAssumption
  <2>5. UNCHANGED board
    BY <1>6 DEF SelectChartPoint
  <2> QED BY <1>1, <1>2, <2>4, <2>5 DEF ResultsInv, RiskOK, IsBoard
<1> QED BY <1>3, <1>4, <1>5, <1>6

\* The worker, the server and the calls change the experiment and what is loaded.
LEMMA ServerStepsOK ==
  ResultsInv /\ (Work \/ ReadExperiment \/ Poll \/ LoadFails \/ ActionServed \/ ActionAnswered) => ResultsInv'
<1> SUFFICES ASSUME ResultsInv, Work \/ ReadExperiment \/ Poll \/ LoadFails \/ ActionServed \/ ActionAnswered
             PROVE  ResultsInv'
  OBVIOUS
<1>1. UNCHANGED <<shown, board, risk, watched>>
  BY DEF Work, ReadExperiment, Poll, LoadFails, ActionServed, ActionAnswered
<1>2. ASSUME ModelsLoaded' PROVE ResultsInv'
  BY <1>1, <1>2 DEF ResultsInv, RiskOK, IsBoard
<1>3. CASE Work
  <2>1. UNCHANGED loads
    BY <1>3 DEF Work
  <2>2. PICK status, models : /\ models \subseteq Model
                              /\ experiment' = [status |-> status, models |-> models, retries |-> experiment.retries]
    <3>1. Cardinality(experiment.models) \in Nat
      BY ModelsAreFinite DEF ResultsInv, ModelsLoaded
    <3>2. Cardinality(experiment.models) < Len(Executed) => Executed[Cardinality(experiment.models) + 1] \in Model
      BY <3>1, ExperimentPageAssumption
    <3> QED BY <1>3, <3>2 DEF Work, ResultsInv, ModelsLoaded
  <2>3. ModelsLoaded'
    BY <1>1, <2>1, <2>2 DEF ResultsInv, ModelsLoaded
  <2> QED BY <1>2, <2>3
<1>4. CASE ReadExperiment
  BY <1>1, <1>2, <1>4 DEF ReadExperiment, ResultsInv, ModelsLoaded
<1>5. CASE Poll \/ LoadFails \/ ActionAnswered
  BY <1>1, <1>2, <1>5 DEF Poll, LoadFails, ActionAnswered, Load, ResultsInv, ModelsLoaded
<1>6. CASE ActionServed
  <2>1. UNCHANGED loads
    BY <1>6 DEF ActionServed
  <2>2. PICK status, models, retries :
          /\ models \subseteq Model
          /\ experiment' = [status |-> status, models |-> models, retries |-> retries]
    BY <1>6 DEF ActionServed, ResultsInv, ModelsLoaded
  <2>3. ModelsLoaded'
    BY <1>1, <2>1, <2>2 DEF ResultsInv, ModelsLoaded
  <2> QED BY <1>2, <2>3
<1> QED BY <1>3, <1>4, <1>5, <1>6

LEMMA ResultsStepOK == ResultsInv /\ [ExperimentNext]_experimentVars => ResultsInv'
<1> SUFFICES ASSUME ResultsInv, [ExperimentNext]_experimentVars PROVE ResultsInv'
  OBVIOUS
<1>1. ASSUME UNCHANGED <<experiment, shown, loads, board, risk, watched>> PROVE ResultsInv'
  BY <1>1 DEF ResultsInv, ModelsLoaded, RiskOK, IsBoard
<1>2. CASE UNCHANGED experimentVars
  BY <1>1, <1>2 DEF experimentVars
<1>3. CASE ClickCancel \/ ClickRetry \/ ClickDelete \/ ActionFails
  BY <1>1, <1>3 DEF ClickCancel, ClickRetry, ClickDelete, Click, ActionFails
<1>4. CASE TypeRoundModel \/ DownloadRoundLog \/ RoundLogAnswered
  BY <1>1, <1>4 DEF TypeRoundModel, DownloadRoundLog, RoundLogAnswered
<1> QED BY <1>2, <1>3, <1>4, LoadArrivesOK, BoardStepsOK, ServerStepsOK DEF ExperimentNext

\* The inductive invariant of the page of an experiment.
THEOREM ResultsInvariant == ResultsSpec => []ResultsInv
<1>1. ExperimentInit => ResultsInv
  <2> SUFFICES ASSUME ExperimentInit PROVE ResultsInv
    OBVIOUS
  <2>1. ModelsLoaded /\ shown = {}
    BY DEF ExperimentInit, ModelsLoaded
  <2>2. IsBoard /\ board.page = 1
    BY ExperimentPageAssumption DEF ExperimentInit, IsBoard
  <2>3. PageCount(shown, board) \in Nat \ {0}
    BY <2>1, <2>2, PagesThereAre DEF IsBoard
  <2>4. RiskOK
    BY <2>1 DEF RiskOK, Rows
  <2> QED BY <2>1, <2>2, <2>3, <2>4 DEF ResultsInv
<1> QED BY <1>1, ResultsStepOK, PTL DEF ResultsSpec

\* The page of the leaderboard, with the first row it has.
LEMMA FirstRowOfPage ==
  ASSUME ResultsInv, Filtered(shown, board) # <<>>
  PROVE  /\ PagedLeaderboard(shown, board) # <<>>
         /\ board.page = 1 => PagedLeaderboard(shown, board)[1] = Filtered(shown, board)[1]
<1> DEFINE list == Filtered(shown, board)
           first == (board.page - 1) * PageSize + 1
           last == IF board.page * PageSize < Len(list) THEN board.page * PageSize ELSE Len(list)
           some == {m \in Leaderboard(shown) : board.positiveOnly => m \in Positive}
<1>1. some \in SUBSET Model
  BY LeaderboardOK DEF ResultsInv, ModelsLoaded
<1>2. Len(list) \in Nat \ {0} /\ Len(list) = Left(shown, board)
  BY <1>1, FirstIsBest, ModelsAreFinite DEF Filtered, Left, ResultsInv, IsBoard
<1>3. first \in Nat /\ first <= Len(list) /\ first <= board.page * PageSize
  <2>1. first <= Left(shown, board)
    BY <1>2, PagesThereAre DEF ResultsInv, ModelsLoaded, IsBoard
  <2>2. (board.page - 1) * PageSize = board.page * PageSize - PageSize /\ board.page * PageSize \in Nat
    BY ExperimentPageAssumption DEF ResultsInv, IsBoard
  <2>3. board.page - 1 \in Nat /\ PageSize \in Nat \ {0}
    BY ExperimentPageAssumption DEF ResultsInv, IsBoard
  <2>4. (board.page - 1) * PageSize \in Nat
    BY <2>3
  <2> QED BY <1>2, <2>1, <2>2, <2>3, <2>4
<1>4. PagedLeaderboard(shown, board) = SubSeq(list, first, last)
  BY DEF PagedLeaderboard
<1>5. first \in Int /\ last \in Int /\ first <= last
  BY <1>2, <1>3, ExperimentPageAssumption DEF ResultsInv, IsBoard
<1> DEFINE values == {list[i] : i \in first .. last}
<1> HIDE DEF list, first, last
<1>6. /\ Len(SubSeq(list, first, last)) = last - first + 1
      /\ SubSeq(list, first, last)[1] = list[first]
  <2>1. \A i \in first .. last : list[i] \in values
    OBVIOUS
  <2> HIDE DEF values
  <2>2. /\ Len(SubSeq(list, first, last)) = last - first + 1
        /\ \A i \in 1 .. last - first + 1 : SubSeq(list, first, last)[i] = list[first + i - 1]
    BY <1>5, <2>1, SubSeqProperties
  <2>3. 1 \in 1 .. last - first + 1 /\ first + 1 - 1 = first
    BY <1>5
  <2> QED BY <2>2, <2>3
<1>7. SubSeq(list, first, last) # <<>>
  <2>1. Len(SubSeq(list, first, last)) # 0
    BY <1>5, <1>6
  <2> QED BY <2>1, EmptySeq
<1>8. board.page = 1 => first = 1
  BY ExperimentPageAssumption DEF first
<1> QED BY <1>4, <1>6, <1>7, <1>8 DEF list

\* The positive ones on the leaderboard are the first of those there are.
LEMMA PositiveOnTop ==
  ASSUME NEW models \in SUBSET Model
  PROVE  {m \in Top(models) : m \in Positive} = Top(models \cap Positive)
<1>1. ASSUME NEW m \in models, m \in Positive PROVE Ahead(m, models) = Ahead(m, models \cap Positive)
  <2>1. ASSUME NEW o \in models, ServedBefore(o, m) PROVE o \in Positive
    <3>1. m \notin Zero /\ (o \notin Positive => ReturnPlace(m) < ReturnPlace(o))
      BY <1>1, ExperimentPageAssumption
    <3>2. o \notin Zero /\ ReturnPlace(o) < ReturnPlace(m)
      BY <2>1, <3>1 DEF ServedBefore
    <3>3. ReturnPlace(o) \in Nat /\ ReturnPlace(m) \in Nat
      BY PlacesAreDistinct, ExperimentPageAssumption DEF ReturnPlace
    <3> QED BY <3>1, <3>2, <3>3
  <2> QED BY <2>1 DEF Ahead
<1> QED BY <1>1 DEF Top

\* The best return is on the leaderboard, if it is not zero or all have room there.
LEMMA BestOnTop ==
  ASSUME NEW models \in SUBSET Model, NEW m, Best(m, models, "total_return_net_pct"),
         m \notin Zero \/ Cardinality(models) <= LeaderboardSize
  PROVE  m \in Top(models)
<1>1. m \in models /\ LeaderboardSize \in Nat \ {0}
  BY ExperimentPageAssumption DEF Best
<1>2. CASE m \notin Zero
  <2>1. ASSUME NEW o \in models PROVE ~ServedBefore(o, m)
    <3>1. ReturnPlace(m) <= ReturnPlace(o) /\ ReturnPlace(m) \in Nat /\ ReturnPlace(o) \in Nat
      BY <1>1, PlacesAreDistinct, ExperimentPageAssumption DEF Best, ReturnPlace
    <3> QED BY <1>2, <3>1 DEF ServedBefore
  <2>2. Ahead(m, models) = {}
    BY <2>1 DEF Ahead
  <2> QED BY <1>1, <2>2, FS_EmptySet DEF Top
<1>3. CASE Cardinality(models) <= LeaderboardSize
  <2> DEFINE before(o) == Cardinality(Ahead(o, models))
             f == [o \in models |-> before(o)]
  <2>1. f \in Bijection(models, 0 .. Cardinality(models) - 1)
    BY AheadCounts
  <2>2. Cardinality(models) \in Nat
    BY ModelsAreFinite
  <2> HIDE DEF before
  <2>3. before(m) \in 0 .. Cardinality(models) - 1
    BY <1>1, <2>1 DEF Bijection, Injection
  <2>4. before(m) < LeaderboardSize
    BY <1>1, <1>3, <2>2, <2>3
  <2> QED BY <1>1, <2>4 DEF Top, before
<1> QED BY <1>2, <1>3

\* Whatever answers come late and take rows away, whatever is sorted, filtered and
\* turned to, and however many models there are: the leaderboard shows rows when
\* there are any, as many as the overview counts as far as it reaches and the best
\* return first (one of zero excepted), and the list beside the risk chart names a
\* model (ExperimentPage!ResultsStayInView).
THEOREM ResultsStayInViewAlways == ResultsSpec => []ResultsStayInView
<1>1. ResultsInv => ResultsStayInView
  <2> SUFFICES ASSUME ResultsInv PROVE ResultsStayInView
    OBVIOUS
  <2> DEFINE got == Rows(shown)
             counted == Overview(shown)[IF board.positiveOnly THEN 2 ELSE 1]
  <2>1. /\ got \in SUBSET Model /\ board.sort \in DOMAIN Ranking
        /\ Leaderboard(shown) = Top(got) /\ Top(got) \in SUBSET got
    BY RowsAreModels, LeaderboardOK DEF ResultsInv, ModelsLoaded, IsBoard
  <2>2. Len(Filtered(shown, board)) = IF counted < LeaderboardSize THEN counted ELSE LeaderboardSize
    <3>1. Len(Filtered(shown, board)) = Left(shown, board)
      BY <2>1, PagesThereAre DEF ResultsInv, ModelsLoaded
    <3>2. CASE board.positiveOnly
      <4>1. {m \in Leaderboard(shown) : board.positiveOnly => m \in Positive} = Top(got \cap Positive)
        BY <2>1, <3>2, PositiveOnTop
      <4>2. counted = Cardinality(got \cap Positive)
        BY <3>2 DEF Overview
      <4>3. got \cap Positive \in SUBSET Model
        BY <2>1
      <4> HIDE DEF got, counted
      <4> QED BY <3>1, <4>1, <4>2, <4>3, TopCounts DEF Left
    <3>3. CASE ~board.positiveOnly
      <4>1. {m \in Leaderboard(shown) : board.positiveOnly => m \in Positive} = Top(got)
        BY <2>1, <3>3
      <4>2. counted = Cardinality(got)
        BY <3>3 DEF Overview
      <4> HIDE DEF got, counted
      <4> QED BY <2>1, <3>1, <4>1, <4>2, TopCounts DEF Left
    <3> QED BY <3>2, <3>3
  <2>3. ASSUME ~board.positiveOnly, board.page = 1, board.sort = "total_return_net_pct", got # {},
               BestReturn(shown) \notin Zero \/ Cardinality(got) <= LeaderboardSize
        PROVE  PagedLeaderboard(shown, board)[1] = BestReturn(shown)
    <3> DEFINE row == Ranked(Top(got), board.sort)[1]
               best == BestReturn(shown)
    <3>1. {m \in Leaderboard(shown) : board.positiveOnly => m \in Positive} = Top(got)
      BY <2>1, <2>3
    <3>2. Filtered(shown, board) = Ranked(Top(got), board.sort)
      BY <3>1 DEF Filtered
    <3>3. Top(got) # {} /\ Top(got) \in SUBSET Model
      BY <2>1, <2>3, LeaderboardOK DEF ResultsInv, ModelsLoaded
    <3>4. Filtered(shown, board) # <<>> /\ Best(row, Top(got), board.sort)
      BY <2>1, <3>2, <3>3, FirstIsBest
    <3>5. PagedLeaderboard(shown, board)[1] = row
      BY <2>3, <3>2, <3>4, FirstRowOfPage
    <3>6. best = CHOOSE m : Best(m, got, board.sort)
      BY <2>3 DEF BestReturn, Best, ReturnPlace
    <3>7. \E m : Best(m, got, board.sort)
      BY <2>1, <2>3, OneIsBest
    <3>8. Best(best, got, board.sort)
      <4> HIDE DEF best, got
      <4> QED BY <3>6, <3>7
    <3>9. best \in Top(got)
      BY <2>1, <2>3, <3>8, BestOnTop
    <3>10. Best(best, Top(got), board.sort)
      BY <2>1, <3>8, <3>9 DEF Best
    <3> HIDE DEF row, best, got
    <3>11. best = row
      BY <2>1, <3>3, <3>4, <3>10, OneIsBest
    <3> QED BY <3>5, <3>11 DEF best
  <2>4. watched = "risk" /\ Rows(shown) # {} => RiskRows # {}
    BY DEF ResultsInv, RiskOK, RiskRows
  <2> QED BY <2>2, <2>3, <2>4, FirstRowOfPage DEF ResultsStayInView
<1> QED BY <1>1, ResultsInvariant, PTL
-----------------------------------------------------------------------------
(* The review of a model. *)

ModelSpec == ModelInit /\ [][ModelNext]_modelVars

\* What is reviewed is one of the models.
LEMMA ReviewedIsModelAlways == ModelSpec => [](review \in Models)
<1>1. ModelInit => review \in Models
  BY DEF ModelInit
<1>2. review \in Models /\ [ModelNext]_modelVars => (review \in Models)'
  BY DEF ModelNext, OpenModel, modelVars
<1> QED BY <1>1, <1>2, PTL DEF ModelSpec

\* A set of naturals has a least element.
LEMMA LeastNatural ==
  ASSUME NEW S \in SUBSET Nat, S # {}
  PROVE  \E m \in S : \A k \in S : m <= k
<1>1. PICK m \in S : \A k \in S : ~(<<k, m>> \in OpToRel(<, Nat))
  BY NatLessThanWellFounded, WFMin
<1>2. ASSUME NEW k \in S PROVE m <= k
  <2>1. k \in Nat /\ m \in Nat
    OBVIOUS
  <2>2. ~(k < m)
    BY <1>1, <2>1 DEF OpToRel
  <2> QED BY <2>1, <2>2
<1> QED BY <1>2

\* Of a set of places in two sequences, one comes first.
LEMMA FirstPlace ==
  ASSUME NEW held \in SUBSET (Nat \X Nat), held # {}
  PROVE  \E p \in held : \A r \in held : p[1] < r[1] \/ (p[1] = r[1] /\ p[2] <= r[2])
<1> DEFINE ones == {j \in Nat : \E k \in Nat : <<j, k>> \in held}
<1>1. \A r \in held : r[1] \in Nat /\ r[2] \in Nat /\ r = <<r[1], r[2]>>
  OBVIOUS
<1>2. \A r \in held : r[1] \in ones
  BY <1>1
<1>3. PICK i \in ones : \A j \in ones : i <= j
  <2>1. ones \in SUBSET Nat /\ ones # {}
    BY <1>2
  <2> HIDE DEF ones
  <2> QED BY <2>1, LeastNatural
<1> DEFINE twos == {k \in Nat : <<i, k>> \in held}
<1>4. \A r \in held : r[1] = i => r[2] \in twos
  BY <1>1
<1>5. PICK k \in twos : \A j \in twos : k <= j
  <2>1. twos \in SUBSET Nat /\ twos # {}
    BY <1>3
  <2> HIDE DEF twos
  <2> QED BY <2>1, LeastNatural
<1>6. <<i, k>> \in held /\ i \in Nat /\ k \in Nat
  BY <1>3, <1>5
<1>7. ASSUME NEW r \in held PROVE i < r[1] \/ (i = r[1] /\ k <= r[2])
  <2>1. i <= r[1] /\ (r[1] = i => k <= r[2])
    <3> HIDE DEF ones, twos
    <3> QED BY <1>2, <1>3, <1>4, <1>5
  <2>2. r[1] \in Nat
    BY <1>1
  <2> HIDE DEF ones, twos
  <2> QED BY <2>1, <2>2, <1>6
<1> DEFINE place == <<i, k>>
<1>8. place[1] = i /\ place[2] = k /\ place \in held
  BY <1>6
<1> HIDE DEF place
<1> QED BY <1>7, <1>8

\* firstValue finds nothing only where there is nothing; what it finds comes
\* before everything else that is there.
LEMMA FirstValueIs ==
  ASSUME NEW sources, NEW keys, DOMAIN sources \subseteq Nat, DOMAIN keys \subseteq Nat
  PROVE  \/ /\ FirstValue(sources, keys) = Null
            /\ \A i \in DOMAIN sources, k \in DOMAIN keys : At(sources[i], keys[k]) = Null
         \/ \E i \in DOMAIN sources, k \in DOMAIN keys :
              /\ FirstValue(sources, keys) = At(sources[i], keys[k])
              /\ FirstValue(sources, keys) # Null
              /\ \A j \in DOMAIN sources, l \in DOMAIN keys :
                   At(sources[j], keys[l]) # Null => i < j \/ (i = j /\ k <= l)
<1> DEFINE there(i, k) == At(sources[i], keys[k]) # Null
           held == {p \in (DOMAIN sources) \X (DOMAIN keys) : there(p[1], p[2])}
           Before(p) == \A r \in held : p[1] < r[1] \/ (p[1] = r[1] /\ p[2] <= r[2])
           first == CHOOSE p \in held : Before(p)
<1>1. FirstValue(sources, keys) = IF held = {} THEN Null ELSE At(sources[first[1]], keys[first[2]])
  BY DEF FirstValue
<1>2. \A i \in DOMAIN sources, k \in DOMAIN keys :
        there(i, k) => <<i, k>> \in held /\ <<i, k>>[1] = i /\ <<i, k>>[2] = k
  <2> HIDE DEF there
  <2> QED OBVIOUS
<1>3. held \in SUBSET (Nat \X Nat) /\ held \subseteq (DOMAIN sources) \X (DOMAIN keys)
  <2> HIDE DEF there
  <2> QED OBVIOUS
<1>4. CASE held = {}
  <2>1. ASSUME NEW i \in DOMAIN sources, NEW k \in DOMAIN keys PROVE At(sources[i], keys[k]) = Null
    BY <1>2, <1>4
  <2> QED BY <1>1, <1>4, <2>1
<1>5. CASE held # {}
  <2>1. \E p \in held : Before(p)
    <3> HIDE DEF there
    <3> QED BY <1>3, <1>5, FirstPlace
  <2>2. first \in held /\ Before(first)
    <3> HIDE DEF held, Before
    <3> QED BY <2>1
  <2>3. first[1] \in DOMAIN sources /\ first[2] \in DOMAIN keys /\ there(first[1], first[2])
    <3> HIDE DEF first, there
    <3> QED BY <2>2
  <2>4. ASSUME NEW j \in DOMAIN sources, NEW l \in DOMAIN keys, there(j, l)
        PROVE  first[1] < j \/ (first[1] = j /\ first[2] <= l)
    <3>1. <<j, l>> \in held /\ <<j, l>>[1] = j /\ <<j, l>>[2] = l
      BY <1>2, <2>4
    <3> HIDE DEF held, first, there
    <3> QED BY <3>1, <2>2
  <2> HIDE DEF first, held
  <2> QED BY <1>1, <1>5, <2>3, <2>4
<1> QED BY <1>4, <1>5

\* The last of the logs with any of the keys is one of them.
LEMMA LatestLogIs ==
  ASSUME NEW logs, NEW n \in Nat, DOMAIN logs = 1 .. n, NEW keys
  PROVE  LatestLog(logs, keys) = <<>> \/ \E i \in DOMAIN logs : LatestLog(logs, keys) = logs[i]
<1> DEFINE with == {i \in DOMAIN logs : Range(keys) \cap DOMAIN logs[i] # {}}
           last == CHOOSE i \in with : \A j \in with : j <= i
<1>1. LatestLog(logs, keys) = IF with = {} THEN <<>> ELSE logs[last]
  BY DEF LatestLog
<1>2. with \subseteq 1 .. n /\ with \subseteq DOMAIN logs
  OBVIOUS
<1> HIDE DEF with
<1>3. CASE with # {}
  <2> DEFINE behind == {d \in Nat : n - d \in with}
  <2>1. ASSUME NEW i \in with PROVE n - i \in behind
    <3>1. i \in 1 .. n /\ n - i \in Nat /\ n - (n - i) = i
      BY <1>2
    <3> QED BY <3>1
  <2>2. PICK d \in behind : \A j \in behind : d <= j
    <3>1. behind \in SUBSET Nat /\ behind # {}
      BY <1>3, <2>1
    <3> HIDE DEF behind
    <3> QED BY <3>1, LeastNatural
  <2>3. d \in Nat /\ n - d \in with
    OBVIOUS
  <2>4. ASSUME NEW j \in with PROVE j <= n - d
    <3>1. n - j \in behind /\ j \in Int /\ n - j \in Nat
      BY <1>2, <2>1
    <3>2. d <= n - j
      BY <3>1, <2>2
    <3> HIDE DEF behind
    <3> QED BY <3>1, <3>2, <2>3
  <2>5. last \in with
    BY <2>3, <2>4
  <2> HIDE DEF last
  <2> QED BY <1>1, <1>2, <1>3, <2>5
<1> QED BY <1>1, <1>3

-----------------------------------------------------------------------------
(* Arithmetic of the figures. *)

\* What a quotient is.
LEMMA Quotient ==
  ASSUME NEW x \in Nat, NEW d \in Nat \ {0}
  PROVE  x \div d \in Nat /\ d * (x \div d) <= x /\ x < d * (x \div d) + d
OBVIOUS

\* A product grows with its factor.
LEMMA TimesMonotone ==
  ASSUME NEW d \in Nat, NEW a \in Nat, NEW b \in Nat, a <= b
  PROVE  d * a \in Nat /\ d * b \in Nat /\ d * a <= d * b
OBVIOUS

\* A quotient lies between the numbers whose products do.
LEMMA QuotientBetween ==
  ASSUME NEW x \in Nat, NEW d \in Nat \ {0}, NEW low \in Nat, NEW high \in Nat,
         d * low <= x, x <= d * high
  PROVE  low <= x \div d /\ x \div d <= high
<1> DEFINE q == x \div d
<1>1. q \in Nat /\ d * q <= x /\ x < d * q + d
  BY Quotient
<1> HIDE DEF q
<1>2. low <= q
  <2> SUFFICES ASSUME q + 1 <= low PROVE FALSE
    BY <1>1
  <2>1. d * (q + 1) <= d * low
    BY <1>1, TimesMonotone
  <2>2. d * (q + 1) = d * q + d
    BY <1>1
  <2>3. d * q \in Nat /\ d * low \in Nat
    BY <1>1, TimesMonotone
  <2> QED BY <1>1, <2>1, <2>2, <2>3
<1>3. q <= high
  <2> SUFFICES ASSUME high + 1 <= q PROVE FALSE
    BY <1>1
  <2>1. d * (high + 1) <= d * q
    BY <1>1, TimesMonotone
  <2>2. d * (high + 1) = d * high + d
    OBVIOUS
  <2>3. d * q \in Nat /\ d * high \in Nat
    BY <1>1, TimesMonotone
  <2> QED BY <1>1, <2>1, <2>2, <2>3
<1> QED BY <1>2, <1>3 DEF q

\* The harmonic mean lies between the two.
LEMMA HarmonicBetween ==
  ASSUME NEW p \in Nat, NEW r \in Nat, p <= r, p + r > 0
  PROVE  /\ p <= (2 * p * r) \div (p + r) /\ (2 * p * r) \div (p + r) <= r
         /\ 2 * p * r = 2 * r * p
<1>1. r * p \in Nat /\ p * p \in Nat /\ r * r \in Nat /\ p * p <= r * p /\ r * p <= r * r /\ p * r = r * p
  <2>1. p * p <= p * r /\ r * p <= r * r /\ p * p \in Nat /\ r * r \in Nat /\ p * r \in Nat
    BY TimesMonotone
  <2>2. p * r = r * p
    OBVIOUS
  <2> QED BY <2>1, <2>2
<1>2. (p + r) * p = p * p + r * p /\ (p + r) * r = r * p + r * r
  OBVIOUS
<1>3. 2 * p * r = 2 * (r * p) /\ 2 * r * p = 2 * (r * p)
  OBVIOUS
<1> DEFINE x == 2 * p * r
           d == p + r
<1>4. x \in Nat /\ d \in Nat \ {0} /\ d * p <= x /\ x <= d * r
  BY <1>1, <1>2, <1>3
<1> HIDE DEF x, d
<1>5. p <= x \div d /\ x \div d <= r
  BY <1>4, QuotientBetween
<1> QED BY <1>3, <1>5 DEF x, d

\* A hundred per cent of all is all.
LEMMA WholeShare ==
  ASSUME NEW x \in Nat, NEW y \in Nat, x + y # 0, (10000 * x) \div (x + y) = 10000
  PROVE  y = 0
<1>1. (x + y) * 10000 <= 10000 * x
  <2>1. 10000 * x \in Nat /\ x + y \in Nat \ {0}
    OBVIOUS
  <2> QED BY <2>1, Quotient
<1> QED BY <1>1

\* A share that is rounded up is nothing only if there is nothing.
LEMMA RoundedUpShare ==
  ASSUME NEW x \in Nat, NEW d \in Nat \ {0}, (10000 * x + d - 1) \div d = 0
  PROVE  x = 0
<1>1. 10000 * x + d - 1 \in Nat
  OBVIOUS
<1>2. 10000 * x + d - 1 < d * 0 + d
  BY <1>1, Quotient
<1> QED BY <1>2
-----------------------------------------------------------------------------
(* The figures of a model. *)

\* The two logs and the metrics a figure is looked up in are of their kind, and
\* the logs hold no fractions of precision and recall.
LEMMA SourcesOK ==
  ASSUME review \in Models
  PROVE  /\ DOMAIN Sources(review) = 1 .. 3
         /\ \A i \in 1 .. 3 : FiguresOK(Sources(review)[i])
         /\ \A i \in 1 .. 2, k \in {"precision", "recall"} : At(Sources(review)[i], k) = Null
<1> DEFINE logs == review.logs
           Fits(s) == FiguresOK(s) /\ \A k \in {"precision", "recall"} : At(s, k) = Null
<1>1. /\ DOMAIN logs = 1 .. Len(logs) /\ Len(logs) \in Nat
      /\ FiguresOK(review.metrics)
      /\ \A i \in DOMAIN logs : FiguresOK(logs[i]) /\ {"precision", "recall"} \cap DOMAIN logs[i] = {}
  BY FiguresAssumption DEF ModelAssumption
<1>2. Fits(<<>>)
  <2> DEFINE nothing == <<>>
  <2>1. \A k : At(nothing, k) = Null
    BY DEF At
  <2> HIDE DEF nothing
  <2>2. Null \in CountOrNull /\ Null \in PercentageOrNull /\ Null \in FractionOrNull
    BY DEF CountOrNull, PercentageOrNull, FractionOrNull
  <2>3. Fits(nothing)
    BY <2>1, <2>2 DEF FiguresOK
  <2> QED BY <2>3 DEF nothing
<1>3. \A i \in DOMAIN logs : Fits(logs[i])
  BY <1>1 DEF At
<1>4. ASSUME NEW keys PROVE Fits(LatestLog(logs, keys))
  <2> HIDE DEF Fits, logs
  <2> QED BY <1>1, <1>2, <1>3, LatestLogIs
<1>5. Sources(review) = <<LatestLog(logs, ClassificationKeys), LatestLog(logs, BacktestKeys), review.metrics>>
  BY DEF Sources
<1> DEFINE c == LatestLog(logs, ClassificationKeys)
           b == LatestLog(logs, BacktestKeys)
<1>6. Fits(c) /\ Fits(b)
  BY <1>4
<1>7. Sources(review) = <<c, b, review.metrics>>
  BY <1>5
<1> HIDE DEF c, b, logs
<1>8. /\ DOMAIN Sources(review) = 1 .. 3 /\ Sources(review)[1] = c /\ Sources(review)[2] = b
      /\ Sources(review)[3] = review.metrics
  BY <1>7
<1>9. \A i \in 1 .. 3 : i = 1 \/ i = 2 \/ i = 3
  OBVIOUS
<1>10. \A i \in 1 .. 2 : i = 1 \/ i = 2
  OBVIOUS
<1> QED BY <1>1, <1>6, <1>8, <1>9, <1>10

\* Where a figure of some keys comes from.
LEMMA FigureIs ==
  ASSUME review \in Models, NEW keys, DOMAIN keys \subseteq Nat
  PROVE  LET value(i, k) == At(Sources(review)[i], keys[k])
         IN \/ Figure(keys) = Null /\ \A i \in 1 .. 3, k \in DOMAIN keys : value(i, k) = Null
            \/ \E i \in 1 .. 3, k \in DOMAIN keys :
                 /\ Figure(keys) = value(i, k) /\ Figure(keys) # Null
                 /\ \A j \in 1 .. 3, l \in DOMAIN keys : value(j, l) # Null => i < j \/ (i = j /\ k <= l)
<1>1. DOMAIN Sources(review) = 1 .. 3 /\ 1 .. 3 \subseteq Nat
  BY SourcesOK
<1> DEFINE S == Sources(review)
<1>2. Figure(keys) = FirstValue(S, keys)
  BY DEF Figure
<1> HIDE DEF S
<1>3. DOMAIN S = 1 .. 3 /\ DOMAIN S \subseteq Nat
  BY <1>1 DEF S
<1>4. \/ /\ FirstValue(S, keys) = Null
         /\ \A i \in DOMAIN S, k \in DOMAIN keys : At(S[i], keys[k]) = Null
      \/ \E i \in DOMAIN S, k \in DOMAIN keys :
           /\ FirstValue(S, keys) = At(S[i], keys[k])
           /\ FirstValue(S, keys) # Null
           /\ \A j \in DOMAIN S, l \in DOMAIN keys :
                At(S[j], keys[l]) # Null => i < j \/ (i = j /\ k <= l)
  BY <1>3, FirstValueIs
<1> QED BY <1>2, <1>3, <1>4 DEF S

\* A figure of one key is that of the first source that has it.
LEMMA OneKey ==
  ASSUME review \in Models, NEW key
  PROVE  \/ Figure(<<key>>) = Null /\ \A i \in 1 .. 3 : At(Sources(review)[i], key) = Null
         \/ \E i \in 1 .. 3 :
              /\ Figure(<<key>>) = At(Sources(review)[i], key) /\ Figure(<<key>>) # Null
              /\ \A j \in 1 .. 3 : At(Sources(review)[j], key) # Null => i <= j
<1> DEFINE keys == <<key>>
           v(i) == At(Sources(review)[i], key)
<1>1. DOMAIN keys = {1} /\ keys[1] = key /\ {1} \subseteq Nat
  OBVIOUS
<1>2. \/ Figure(keys) = Null /\ \A i \in 1 .. 3, k \in DOMAIN keys : At(Sources(review)[i], keys[k]) = Null
      \/ \E i \in 1 .. 3, k \in DOMAIN keys :
           /\ Figure(keys) = At(Sources(review)[i], keys[k]) /\ Figure(keys) # Null
           /\ \A j \in 1 .. 3, l \in DOMAIN keys :
                At(Sources(review)[j], keys[l]) # Null => i < j \/ (i = j /\ k <= l)
  <2> HIDE DEF keys
  <2> QED BY <1>1, FigureIs
<1>3. \/ Figure(keys) = Null /\ \A i \in 1 .. 3 : v(i) = Null
      \/ \E i \in 1 .. 3 : /\ Figure(keys) = v(i) /\ Figure(keys) # Null
                           /\ \A j \in 1 .. 3 : v(j) # Null => i < j \/ i = j
  <2> HIDE DEF keys
  <2> QED BY <1>1, <1>2
<1> QED BY <1>3

\* A figure is of the kind of the values it may be.
LEMMA FigureKind ==
  ASSUME review \in Models, NEW keys, NEW n \in Nat, DOMAIN keys = 1 .. n, NEW T, Null \in T,
         \A i \in 1 .. 3, k \in 1 .. n : At(Sources(review)[i], keys[k]) \in T
  PROVE  Figure(keys) \in T
<1>1. DOMAIN keys \subseteq Nat
  OBVIOUS
<1>2. \/ Figure(keys) = Null /\ \A i \in 1 .. 3, k \in DOMAIN keys : At(Sources(review)[i], keys[k]) = Null
      \/ \E i \in 1 .. 3, k \in DOMAIN keys :
           Figure(keys) = At(Sources(review)[i], keys[k]) /\ Figure(keys) # Null
  BY <1>1, FigureIs
<1> QED BY <1>2

\* What precision, or recall, is kept as.
KeptAs(pct, fraction) == pct \in {"precision_pct", "recall_pct"} /\ fraction \in {"precision", "recall"}

\* The values it may have.
InRange(percentage, ratio) == percentage \in PercentageOrNull /\ ratio \in FractionOrNull

\* Precision and recall: the percentage where there is one, in whichever source,
\* and else the fraction.
LEMMA PercentageFirst ==
  ASSUME review \in Models, NEW pct, NEW fraction, KeptAs(pct, fraction)
  PROVE  /\ InRange(Figure(<<pct>>), Figure(<<fraction>>))
         /\ Figure(<<pct, fraction>>) = IF Figure(<<pct>>) # Null THEN Figure(<<pct>>) ELSE Figure(<<fraction>>)
<1> DEFINE a(i) == At(Sources(review)[i], pct)
           b(i) == At(Sources(review)[i], fraction)
           keys == <<pct, fraction>>
<1>1. /\ \A i \in 1 .. 3 : InRange(a(i), b(i))
      /\ \A i \in 1 .. 3 : b(i) # Null => i = 3
  <2>1. ASSUME NEW i \in 1 .. 3 PROVE InRange(a(i), b(i))
    <3> DEFINE s == Sources(review)[i]
    <3>1. FiguresOK(s)
      BY SourcesOK
    <3> HIDE DEF s
    <3>2. InRange(At(s, pct), At(s, fraction))
      BY <3>1 DEF FiguresOK, KeptAs, InRange
    <3>3. a(i) = At(s, pct) /\ b(i) = At(s, fraction)
      BY DEF s
    <3> HIDE DEF a, b
    <3> QED BY <3>2, <3>3
  <2>2. ASSUME NEW i \in 1 .. 2 PROVE b(i) = Null
    BY SourcesOK DEF KeptAs
  <2> HIDE DEF a, b
  <2>3. ASSUME NEW i \in 1 .. 3, b(i) # Null PROVE i = 3
    <3>1. i \notin 1 .. 2
      BY <2>2, <2>3
    <3> QED BY <3>1
  <2> QED BY <2>1, <2>3
<1>2. \/ Figure(<<pct>>) = Null /\ \A i \in 1 .. 3 : a(i) = Null
      \/ \E i \in 1 .. 3 : /\ Figure(<<pct>>) = a(i) /\ Figure(<<pct>>) # Null
                           /\ \A j \in 1 .. 3 : a(j) # Null => i <= j
  BY OneKey
<1>3. \/ Figure(<<fraction>>) = Null /\ \A i \in 1 .. 3 : b(i) = Null
      \/ \E i \in 1 .. 3 : /\ Figure(<<fraction>>) = b(i) /\ Figure(<<fraction>>) # Null
                           /\ \A j \in 1 .. 3 : b(j) # Null => i <= j
  BY OneKey
<1>4. DOMAIN keys = 1 .. 2 /\ keys[1] = pct /\ keys[2] = fraction /\ DOMAIN keys \subseteq Nat
  OBVIOUS
<1>5. \/ Figure(keys) = Null /\ \A i \in 1 .. 3, k \in 1 .. 2 : At(Sources(review)[i], keys[k]) = Null
      \/ \E i \in 1 .. 3, k \in 1 .. 2 :
           /\ Figure(keys) = At(Sources(review)[i], keys[k]) /\ Figure(keys) # Null
           /\ \A j \in 1 .. 3, l \in 1 .. 2 :
                At(Sources(review)[j], keys[l]) # Null => i < j \/ (i = j /\ k <= l)
  <2> HIDE DEF keys
  <2> QED BY <1>4, FigureIs
<1>6. \/ Figure(keys) = Null /\ \A i \in 1 .. 3 : a(i) = Null /\ b(i) = Null
      \/ \E i \in 1 .. 3 : /\ Figure(keys) = a(i) /\ a(i) # Null
                           /\ \A j \in 1 .. 3 : a(j) # Null => i <= j
      \/ \E i \in 1 .. 3 : /\ Figure(keys) = b(i) /\ b(i) # Null
                           /\ \A j \in 1 .. 3 : a(j) # Null => i < j
  <2>1. 1 \in 1 .. 2 /\ 2 \in 1 .. 2 /\ \A k \in 1 .. 2 : k = 1 \/ k = 2
    OBVIOUS
  <2> HIDE DEF keys
  <2>2. \A i \in 1 .. 3 : At(Sources(review)[i], keys[1]) = a(i) /\ At(Sources(review)[i], keys[2]) = b(i)
    BY <1>4
  <2> HIDE DEF a, b
  <2>3. CASE Figure(keys) = Null /\ \A i \in 1 .. 3, k \in 1 .. 2 : At(Sources(review)[i], keys[k]) = Null
    BY <2>1, <2>2, <2>3
  <2>4. ASSUME NEW i \in 1 .. 3, NEW k \in 1 .. 2,
               Figure(keys) = At(Sources(review)[i], keys[k]), Figure(keys) # Null,
               \A j \in 1 .. 3, l \in 1 .. 2 :
                 At(Sources(review)[j], keys[l]) # Null => i < j \/ (i = j /\ k <= l)
        PROVE  \/ k = 1 /\ Figure(keys) = a(i) /\ a(i) # Null /\ \A j \in 1 .. 3 : a(j) # Null => i <= j
               \/ k = 2 /\ Figure(keys) = b(i) /\ b(i) # Null /\ \A j \in 1 .. 3 : a(j) # Null => i < j
    BY <2>1, <2>2, <2>4
  <2> QED BY <1>5, <2>3, <2>4
<1> HIDE DEF a, b, keys
<1> DEFINE Chosen == Figure(keys) = IF Figure(<<pct>>) # Null THEN Figure(<<pct>>) ELSE Figure(<<fraction>>)
<1>7. ASSUME Figure(keys) = Null, \A i \in 1 .. 3 : a(i) = Null /\ b(i) = Null
      PROVE  Chosen
  <2>1. Figure(<<pct>>) = Null
    BY <1>2, <1>7
  <2>2. Figure(<<fraction>>) = Null
    BY <1>3, <1>7
  <2> QED BY <1>7, <2>1, <2>2
<1>8. ASSUME NEW i \in 1 .. 3, Figure(keys) = a(i), a(i) # Null, \A j \in 1 .. 3 : a(j) # Null => i <= j
      PROVE  Chosen
  <2>1. PICK j \in 1 .. 3 : /\ Figure(<<pct>>) = a(j) /\ Figure(<<pct>>) # Null
                           /\ \A l \in 1 .. 3 : a(l) # Null => j <= l
    BY <1>2, <1>8
  <2>2. i <= j /\ j <= i
    BY <1>8, <2>1
  <2>3. i = j
    BY <2>2
  <2> QED BY <1>8, <2>1, <2>3
<1>9. ASSUME NEW i \in 1 .. 3, Figure(keys) = b(i), b(i) # Null, \A j \in 1 .. 3 : a(j) # Null => i < j
      PROVE  Chosen
  <2>1. i = 3
    BY <1>1, <1>9
  <2>2. \A j \in 1 .. 3 : a(j) = Null
    BY <1>9, <2>1
  <2>3. Figure(<<pct>>) = Null
    BY <1>2, <2>2
  <2>4. PICK j \in 1 .. 3 : Figure(<<fraction>>) = b(j) /\ b(j) # Null
    BY <1>3, <1>9
  <2>5. j = 3
    BY <1>1, <2>4
  <2> QED BY <1>9, <2>1, <2>3, <2>4, <2>5
<1>10. Chosen
  BY <1>6, <1>7, <1>8, <1>9
<1>11. InRange(Figure(<<pct>>), Figure(<<fraction>>))
  <2>1. Figure(<<pct>>) = Null \/ \E i \in 1 .. 3 : Figure(<<pct>>) = a(i)
    BY <1>2
  <2>2. Figure(<<fraction>>) = Null \/ \E i \in 1 .. 3 : Figure(<<fraction>>) = b(i)
    BY <1>3
  <2>3. Null \in PercentageOrNull /\ Null \in FractionOrNull
    BY DEF PercentageOrNull, FractionOrNull
  <2>4. \A i \in 1 .. 3 : a(i) \in PercentageOrNull /\ b(i) \in FractionOrNull
    BY <1>1 DEF InRange
  <2> QED BY <2>1, <2>2, <2>3, <2>4 DEF InRange
<1> QED BY <1>10, <1>11 DEF keys

LEMMA PercentageIs == ASSUME NEW v \in PercentageOrNull, v # Null PROVE v \in 0 .. 10000
BY DEF PercentageOrNull

LEMMA FractionIs == ASSUME NEW f \in FractionOrNull PROVE Num(f) \in 0 .. 100
BY DEF FractionOrNull, Num

\* A percentage above one, and a fraction, are each told for what they are.
LEMMA RatioOfKept ==
  ASSUME NEW v \in PercentageOrNull, NEW f \in FractionOrNull, v = Null \/ v = 0 \/ v > 100
  PROVE  LET percent == IF v # Null THEN v ELSE 100 * Num(f)
         IN Ratio(Num(IF v # Null THEN v ELSE f)) = percent /\ percent \in Nat
<1>1. CASE v # Null
  <2>1. v \in 0 .. 10000 /\ (v = 0 \/ v > 100)
    BY <1>1, PercentageIs
  <2>2. Num(v) = v
    BY <1>1 DEF Num
  <2>3. Ratio(v) = v /\ v \in Nat
    BY <2>1 DEF Ratio
  <2> QED BY <1>1, <2>2, <2>3
<1>2. CASE v = Null
  <2>1. Num(f) \in 0 .. 100
    BY FractionIs
  <2>2. Ratio(Num(f)) = 100 * Num(f) /\ 100 * Num(f) \in Nat
    BY <2>1 DEF Ratio
  <2> QED BY <1>2, <2>2
<1> QED BY <1>1, <1>2

\* The ratio worked out of precision, or of recall, is the percentage kept or a
\* hundred times the fraction, but for a percentage taken for a fraction.
LEMMA RatioIs ==
  ASSUME review \in Models, NEW pct, NEW fraction, KeptAs(pct, fraction),
         Figure(<<pct>>) \notin {Null, 0} => Figure(<<pct>>) > 100
  PROVE  LET percent == IF Figure(<<pct>>) # Null THEN Figure(<<pct>>) ELSE 100 * Num(Figure(<<fraction>>))
         IN Ratio(Num(Figure(<<pct, fraction>>))) = percent /\ percent \in Nat
<1> DEFINE v == Figure(<<pct>>)
           f == Figure(<<fraction>>)
<1>1. v \in PercentageOrNull /\ f \in FractionOrNull
  BY PercentageFirst DEF InRange
<1>2. Figure(<<pct, fraction>>) = IF v # Null THEN v ELSE f
  BY PercentageFirst
<1>3. v = Null \/ v = 0 \/ v > 100
  OBVIOUS
<1> HIDE DEF v, f
<1>4. LET percent == IF v # Null THEN v ELSE 100 * Num(f)
      IN Ratio(Num(IF v # Null THEN v ELSE f)) = percent /\ percent \in Nat
  BY <1>1, <1>3, RatioOfKept
<1> QED BY <1>2, <1>4 DEF v, f

\* The cells of the confusion matrix are counts.
LEMMA CellsAreCounts ==
  ASSUME review \in Models
  PROVE  Confusion.tp \in Nat /\ Confusion.fp \in Nat /\ Confusion.tn \in Nat /\ Confusion.fn \in Nat
<1>1. ASSUME NEW a \in CountKeys, NEW b \in CountKeys, NEW c \in CountKeys
      PROVE  Num(Figure(<<a, b, c>>)) \in Nat
  <2> DEFINE keys == <<a, b, c>>
  <2>1. DOMAIN keys = 1 .. 3 /\ \A k \in 1 .. 3 : keys[k] \in CountKeys
    OBVIOUS
  <2> HIDE DEF keys
  <2>2. ASSUME NEW i \in 1 .. 3, NEW k \in 1 .. 3 PROVE At(Sources(review)[i], keys[k]) \in CountOrNull
    <3> DEFINE s == Sources(review)[i]
    <3>1. FiguresOK(s) /\ keys[k] \in CountKeys
      BY SourcesOK, <2>1
    <3> HIDE DEF s
    <3>2. At(s, keys[k]) \in CountOrNull
      BY <3>1 DEF FiguresOK
    <3> QED BY <3>2 DEF s
  <2>3. Figure(keys) \in CountOrNull
    <3>1. 3 \in Nat /\ Null \in CountOrNull
      BY DEF CountOrNull
    <3> QED BY <2>1, <2>2, <3>1, FigureKind
  <2>4. Num(Figure(keys)) \in Nat
    BY <2>3 DEF Num, CountOrNull
  <2> QED BY <2>4 DEF keys
<1> DEFINE cells == [tp |-> Num(Figure(<<"tp_count", "true_positive_count", "true_positives">>)),
                     fp |-> Num(Figure(<<"fp_count", "false_positive_count", "false_positives">>)),
                     tn |-> Num(Figure(<<"tn_count", "true_negative_count", "true_negatives">>)),
                     fn |-> Num(Figure(<<"fn_count", "false_negative_count", "false_negatives">>))]
<1>2. /\ "tp_count" \in CountKeys /\ "true_positive_count" \in CountKeys /\ "true_positives" \in CountKeys
      /\ "fp_count" \in CountKeys /\ "false_positive_count" \in CountKeys /\ "false_positives" \in CountKeys
      /\ "tn_count" \in CountKeys /\ "true_negative_count" \in CountKeys /\ "true_negatives" \in CountKeys
      /\ "fn_count" \in CountKeys /\ "false_negative_count" \in CountKeys /\ "false_negatives" \in CountKeys
  BY DEF CountKeys
<1>3. Num(Figure(<<"tp_count", "true_positive_count", "true_positives">>)) \in Nat
  BY <1>1, <1>2
<1>4. Num(Figure(<<"fp_count", "false_positive_count", "false_positives">>)) \in Nat
  BY <1>1, <1>2
<1>5. Num(Figure(<<"tn_count", "true_negative_count", "true_negatives">>)) \in Nat
  BY <1>1, <1>2
<1>6. Num(Figure(<<"fn_count", "false_negative_count", "false_negatives">>)) \in Nat
  BY <1>1, <1>2
<1>7. cells.tp \in Nat /\ cells.fp \in Nat /\ cells.tn \in Nat /\ cells.fn \in Nat
  BY <1>3, <1>4, <1>5, <1>6
<1> QED BY <1>7 DEF Confusion

\* Where there is no figure of any of the keys, there is none of all.
LEMMA NoneOfTwo ==
  ASSUME review \in Models, NEW a, NEW b, Figure(<<a>>) = Null, Figure(<<b>>) = Null
  PROVE  Figure(<<a, b>>) = Null
<1> DEFINE keys == <<a, b>>
<1>1. \A i \in 1 .. 3 : At(Sources(review)[i], a) = Null /\ At(Sources(review)[i], b) = Null
  BY OneKey
<1>2. DOMAIN keys \subseteq Nat /\ \A k \in DOMAIN keys : keys[k] = a \/ keys[k] = b
  OBVIOUS
<1> HIDE DEF keys
<1>3. Figure(keys) = Null
  BY <1>1, <1>2, FigureIs
<1> QED BY <1>3 DEF keys

LEMMA NoneOfThree ==
  ASSUME review \in Models, NEW a, NEW b, NEW c,
         Figure(<<a>>) = Null, Figure(<<b>>) = Null, Figure(<<c>>) = Null
  PROVE  Figure(<<a, b, c>>) = Null
<1> DEFINE keys == <<a, b, c>>
<1>1. \A i \in 1 .. 3 : /\ At(Sources(review)[i], a) = Null /\ At(Sources(review)[i], b) = Null
                       /\ At(Sources(review)[i], c) = Null
  BY OneKey
<1>2. DOMAIN keys \subseteq Nat /\ \A k \in DOMAIN keys : keys[k] = a \/ keys[k] = b \/ keys[k] = c
  OBVIOUS
<1> HIDE DEF keys
<1>3. Figure(keys) = Null
  BY <1>1, <1>2, FigureIs
<1> QED BY <1>3 DEF keys

\* The figures of every model fit together.
LEMMA FiguresOfModelFit == review \in Models => FiguresFit
<1> SUFFICES ASSUME review \in Models PROVE FiguresFit
  OBVIOUS
<1> DEFINE has(key) == Figure(<<key>>) # Null
           given == {Figure(<<k>>) : k \in {"precision_pct", "recall_pct"}} \ {Null, 0}
           percent(pct, fraction) == IF has(pct) THEN Figure(<<pct>>) ELSE 100 * Num(Figure(<<fraction>>))
           p == percent("precision_pct", "precision")
           r == percent("recall_pct", "recall")
<1>0. Null \notin Int
  BY FiguresAssumption
<1>1. ASSUME ~has("f1_score_pct"), ~has("f1_pct"), ~has("f1"), \A v \in given : v > 100
      PROVE  IF p + r = 0 THEN F1 = Null
             ELSE F1 >= (IF p < r THEN p ELSE r) /\ F1 <= (IF p < r THEN r ELSE p)
  <2>1. Figure(<<"f1_score_pct", "f1_pct", "f1">>) = Null
    BY <1>1, NoneOfThree
  <2>2. Ratio(Num(Precision)) = p /\ p \in Nat
    <3>1. Figure(<<"precision_pct">>) \notin {Null, 0} => Figure(<<"precision_pct">>) > 100
      BY <1>1
    <3>2. KeptAs("precision_pct", "precision")
      BY DEF KeptAs
    <3> QED BY <3>1, <3>2, RatioIs DEF Precision
  <2>3. Ratio(Num(Recall)) = r /\ r \in Nat
    <3>1. Figure(<<"recall_pct">>) \notin {Null, 0} => Figure(<<"recall_pct">>) > 100
      BY <1>1
    <3>2. KeptAs("recall_pct", "recall")
      BY DEF KeptAs
    <3> QED BY <3>1, <3>2, RatioIs DEF Recall
  <2> HIDE DEF p, r
  <2>4. F1 = IF p + r > 0 THEN (2 * p * r) \div (p + r) ELSE Null
    BY <2>1, <2>2, <2>3 DEF F1
  <2>5. CASE p + r = 0
    BY <2>2, <2>3, <2>4, <2>5
  <2>6. CASE p + r # 0 /\ p <= r
    <3>1. p + r > 0
      BY <2>2, <2>3, <2>6
    <3>2. p <= (2 * p * r) \div (p + r) /\ (2 * p * r) \div (p + r) <= r
      BY <2>2, <2>3, <2>6, <3>1, HarmonicBetween
    <3>3. F1 = (2 * p * r) \div (p + r)
      BY <2>4, <3>1
    <3>4. p <= F1 /\ F1 <= r
      BY <3>2, <3>3
    <3>5. (IF p < r THEN p ELSE r) = p /\ (IF p < r THEN r ELSE p) = r
      BY <2>2, <2>3, <2>6
    <3>6. F1 \in Int
      BY <3>3, <2>2, <2>3, <3>1
    <3> QED BY <2>2, <2>3, <2>6, <3>4, <3>5, <3>6
  <2>7. CASE p + r # 0 /\ ~(p <= r)
    <3>1. p + r > 0 /\ r <= p /\ r + p > 0 /\ r + p = p + r
      BY <2>2, <2>3, <2>7
    <3>2. /\ r <= (2 * r * p) \div (r + p) /\ (2 * r * p) \div (r + p) <= p
          /\ 2 * r * p = 2 * p * r
      BY <2>2, <2>3, <3>1, HarmonicBetween
    <3>3. F1 = (2 * p * r) \div (p + r)
      BY <2>4, <3>1
    <3>4. r <= F1 /\ F1 <= p
      BY <3>1, <3>2, <3>3
    <3>5. (IF p < r THEN p ELSE r) = r /\ (IF p < r THEN r ELSE p) = p
      BY <2>2, <2>3, <2>7
    <3>6. F1 \in Int
      BY <3>3, <2>2, <2>3, <3>1
    <3> QED BY <2>2, <2>3, <2>7, <3>4, <3>5, <3>6
  <2> QED BY <2>5, <2>6, <2>7
<1>2. ASSUME ~has("accuracy_pct"), ~has("accuracy"), Accuracy = 10000
      PROVE  Confusion.fp = 0 /\ Confusion.fn = 0
  <2> DEFINE x == Confusion.tp + Confusion.tn
             y == Confusion.fp + Confusion.fn
             total == Confusion.tp + Confusion.fp + Confusion.tn + Confusion.fn
             kept == Figure(<<"accuracy_pct", "accuracy">>)
  <2>1. kept = Null
    <3>1. Figure(<<"accuracy_pct">>) = Null /\ Figure(<<"accuracy">>) = Null
      BY <1>2
    <3> QED BY ONLY <3>1, review \in Models, NoneOfTwo
  <2>2. Accuracy = IF total # 0 THEN (10000 * x) \div total ELSE Null
    <3>1. Accuracy = IF kept # Null THEN kept ELSE IF total # 0 THEN (10000 * x) \div total ELSE Null
      BY DEF Accuracy
    <3> HIDE DEF kept, total, x
    <3> QED BY <2>1, <3>1
  <2>3. x \in Nat /\ y \in Nat /\ total = x + y /\ (y = 0 => Confusion.fp = 0 /\ Confusion.fn = 0)
    <3> DEFINE tp == Confusion.tp
               fp == Confusion.fp
               tn == Confusion.tn
               fn == Confusion.fn
    <3>1. tp \in Nat /\ fp \in Nat /\ tn \in Nat /\ fn \in Nat
      BY CellsAreCounts
    <3>2. x = tp + tn /\ y = fp + fn /\ total = tp + fp + tn + fn
      OBVIOUS
    <3> HIDE DEF tp, fp, tn, fn, x, y, total
    <3>3. x \in Nat /\ y \in Nat /\ total = x + y /\ (y = 0 => fp = 0 /\ fn = 0)
      BY <3>1, <3>2
    <3> QED BY <3>3 DEF fp, fn
  <2> HIDE DEF x, y, total
  <2>4. x + y # 0 /\ (10000 * x) \div (x + y) = 10000
    BY <1>0, <1>2, <2>2, <2>3
  <2>5. y = 0
    BY <2>3, <2>4, WholeShare
  <2> QED BY <2>3, <2>5
<1>3. ASSUME ~has("false_positive_rate"), FalsePositiveRate = 0
      PROVE  Confusion.fp = 0
  <2> DEFINE x == Confusion.fp
             d == Confusion.fp + Confusion.tn
  <2>1. x \in Nat /\ d \in Nat
    BY CellsAreCounts
  <2>2. FalsePositiveRate = IF d > 0 THEN (10000 * x + d - 1) \div d ELSE Null
    BY <1>3 DEF FalsePositiveRate
  <2> HIDE DEF x, d
  <2>3. d \in Nat \ {0} /\ (10000 * x + d - 1) \div d = 0
    BY <1>0, <1>3, <2>1, <2>2
  <2>4. x = 0
    BY <2>1, <2>3, RoundedUpShare
  <2> QED BY <2>4 DEF x
<1> QED BY <1>1, <1>2, <1>3 DEF FiguresFit

\* The figures the page of a model works out fit those they are worked out from,
\* for any figures its logs and its metrics may hold, in whichever unit and from
\* whichever source each comes.
THEOREM FiguresFitAlways == ModelSpec => []FiguresFit
BY ReviewedIsModelAlways, FiguresOfModelFit, PTL
-----------------------------------------------------------------------------
(* What every page keeps to: a few requests under way, and what it knows. *)

\* No more requests than there may be.
Bounded(calls, n) == IsFiniteSet(calls) /\ Cardinality(calls) \in 0 .. n

LEMMA BoundedOK ==
  ASSUME NEW n \in Nat, NEW calls, Bounded(calls, n)
  PROVE  /\ \A some \in SUBSET calls : Bounded(some, n)
         /\ \A c \in calls : \A d : Bounded((calls \ {c}) \cup {d}, n)
         /\ Cardinality(calls) < n => \A d : Bounded(calls \cup {d}, n)
<1>1. IsFiniteSet(calls) /\ Cardinality(calls) \in Nat /\ Cardinality(calls) <= n
  BY DEF Bounded
<1>2. ASSUME NEW some \in SUBSET calls PROVE Bounded(some, n)
  BY <1>1, FS_Subset, FS_CardinalityType DEF Bounded
<1>3. ASSUME NEW c \in calls, NEW d PROVE Bounded((calls \ {c}) \cup {d}, n)
  <2>1. IsFiniteSet(calls \ {c}) /\ Cardinality(calls \ {c}) = Cardinality(calls) - 1
    BY <1>1, FS_RemoveElement
  <2>2. Cardinality(calls \ {c}) \in Nat
    BY <2>1, FS_CardinalityType
  <2>3. /\ IsFiniteSet((calls \ {c}) \cup {d})
        /\ Cardinality((calls \ {c}) \cup {d}) \in {Cardinality(calls \ {c}), Cardinality(calls \ {c}) + 1}
    BY <2>1, FS_AddElement
  <2> QED BY <1>1, <2>1, <2>2, <2>3 DEF Bounded
<1>4. ASSUME Cardinality(calls) < n, NEW d PROVE Bounded(calls \cup {d}, n)
  <2>1. /\ IsFiniteSet(calls \cup {d})
        /\ Cardinality(calls \cup {d}) \in {Cardinality(calls), Cardinality(calls) + 1}
    BY <1>1, FS_AddElement
  <2> QED BY <1>1, <1>4, <2>1 DEF Bounded
<1> QED BY <1>2, <1>3, <1>4

\* Requests that are changed one by one are no more than they were.
LEMMA BoundedChanged ==
  ASSUME NEW n \in Nat, NEW calls, Bounded(calls, n), NEW f, DOMAIN f = calls
  PROVE  Bounded({f[c] : c \in calls}, n) /\ Cardinality({f[c] : c \in calls}) <= Cardinality(calls)
<1> DEFINE image == {f[c] : c \in calls}
           onto == [c \in calls |-> f[c]]
<1>1. onto \in Surjection(calls, image)
  BY DEF Surjection
<1>2. IsFiniteSet(calls) /\ Cardinality(calls) \in 0 .. n
  BY DEF Bounded
<1> HIDE DEF onto, image
<1>3. IsFiniteSet(image) /\ Cardinality(image) <= Cardinality(calls)
  BY <1>1, <1>2, FS_Surjection
<1>4. Cardinality(image) \in Nat
  BY <1>3, FS_CardinalityType
<1> QED BY <1>2, <1>3, <1>4 DEF Bounded, image

\* What has been answered is one query or none.
OneAnswer(answer) == answer = {} \/ \E q \in Queries : answer = {q}

ListTypes ==
  /\ inputs \in Filter /\ wanted \in Queries /\ listCancel \subseteq Queries
  /\ OneAnswer(table.answer)
  /\ \A l \in listLoads : l.query \in Queries

LEMMA FirstIsQuery == ASSUME NEW f \in Filter, wanted \in Queries PROVE First(f, wanted.order) \in Queries
BY DEF First, Queries

LEMMA ListTypesInit == ListInit => ListTypes
<1> SUFFICES ASSUME ListInit PROVE ListTypes
  OBVIOUS
<1>1. wanted \in Queries /\ inputs \in Filter
  BY PageListsAssumption DEF ListInit, First, Queries
<1>2. \A l \in listLoads : l.query = wanted
  BY DEF ListInit, NewLoad
<1> QED BY <1>1, <1>2 DEF ListInit, ListTypes, OneAnswer

LEMMA ReloadTypes ==
  ASSUME ListsInv, ListTypes, NEW query \in Queries, Reload(query) \/ UNCHANGED <<table, listLoads>>
  PROVE  OneAnswer(table'.answer) /\ \A l \in listLoads' : l.query \in Queries
<1>1. CASE Reload(query)
  <2>1. table'.answer = table.answer
    BY <1>1 DEF Reload, ListsInv, TableOK, TableFields
  <2>2. PICK i : listLoads' = Disowned(listLoads) \cup {[query |-> query, live |-> TRUE, id |-> i]}
    BY <1>1 DEF Reload, NewLoad
  <2>3. \A l \in Disowned(listLoads) : l.query \in Queries
    BY DEF Disowned, ListsInv, LoadOK, LoadFields, ListTypes
  <2> QED BY <2>1, <2>2, <2>3 DEF ListTypes
<1>2. CASE UNCHANGED <<table, listLoads>>
  BY <1>2 DEF ListTypes
<1> QED BY <1>1, <1>2

LEMMA WantTypes ==
  ASSUME ListsInv, ListTypes, NEW query \in Queries, Want(query), inputs' \in Filter, listCancel' \subseteq Queries
  PROVE  ListTypes'
BY ReloadTypes DEF Want, ListTypes

LEMMA ListTypesNext == ListsInv /\ ListTypes /\ [ListNext]_listVars => ListTypes'
<1> SUFFICES ASSUME ListsInv, ListTypes, [ListNext]_listVars PROVE ListTypes'
  OBVIOUS
<1>1. /\ inputs \in Filter /\ wanted \in Queries /\ listCancel \subseteq Queries
      /\ \A f \in Filter : First(f, wanted.order) \in Queries
      /\ First(NoFilter, wanted.order) \in Queries /\ NoFilter \in Filter
  BY FirstIsQuery, PageListsAssumption DEF ListTypes
<1>2. CASE TypeFilter
  BY <1>1, <1>2, WantTypes DEF TypeFilter, ListTypes
<1>3. CASE Debounce \/ ApplyFilters
  BY <1>1, <1>3, WantTypes DEF Debounce, ApplyFilters
<1>4. CASE ClearFilters
  BY <1>1, <1>4, ReloadTypes DEF ClearFilters, ListTypes
<1>5. CASE SortBy
  <2>1. PICK order \in {"asc", "desc"} : Want(First(wanted.filter, order))
    BY <1>5 DEF SortBy
  <2>2. First(wanted.filter, order) \in Queries
    BY <1>1 DEF First, Queries
  <2> QED BY <1>1, <1>5, <2>1, <2>2, WantTypes DEF SortBy
<1>6. CASE TurnListPage
  <2>1. wanted.page \in Nat \ {0}
    BY <1>1 DEF Queries
  <2>2. wanted.page > 1 => [wanted EXCEPT !.page = @ - 1] \in Queries
    BY <1>1, <2>1 DEF Queries
  <2>3. [wanted EXCEPT !.page = @ + 1] \in Queries
    BY <1>1, <2>1 DEF Queries
  <2> QED BY <1>1, <1>6, <2>2, <2>3, WantTypes DEF TurnListPage
<1>7. CASE CancelListed
  BY <1>1, <1>7 DEF CancelListed, ListTypes
<1>8. CASE CancelListedAnswered
  <2>1. PICK q \in Queries : Reload(q) \/ UNCHANGED <<table, listLoads>>
    BY <1>1, <1>8 DEF CancelListedAnswered
  <2>2. OneAnswer(table'.answer) /\ \A l \in listLoads' : l.query \in Queries
    BY <2>1, ReloadTypes
  <2> QED BY <1>1, <1>8, <2>2 DEF CancelListedAnswered, ListTypes
<1>9. CASE ListAnswered
  BY <1>9 DEF ListAnswered, ListTypes, OneAnswer
<1>10. CASE LoadingFails
  <2>1. PICK l \in listLoads :
          /\ listLoads' = listLoads \ {l}
          /\ table' = IF ~l.live \/ ~Catches THEN table
               ELSE [table EXCEPT !.failed = TRUE, !.loading = FALSE,
                       !.answer = IF listView \in {"experiments", "rankings", "highlights"} THEN {} ELSE @]
    BY <1>10 DEF LoadingFails
  <2>2. table = [x \in TableFields |-> table[x]]
    BY DEF ListsInv, TableOK
  <2>3. table'.answer \in {{}, table.answer}
    <3> HIDE DEF ListsInv, ListTypes
    <3> QED BY ONLY <2>1, <2>2 DEF TableFields
  <2> QED BY <1>10, <2>1, <2>3 DEF LoadingFails, ListTypes, OneAnswer
<1>11. CASE UNCHANGED listVars
  BY <1>11 DEF listVars, ListTypes
<1> QED BY <1>2, <1>3, <1>4, <1>5, <1>6, <1>7, <1>8, <1>9, <1>10, <1>11 DEF ListNext

\* A list shows one answer or none, and what it asks for is a page of its rows.
THEOREM ListTypeOKAlways == ListsSpec => []ListTypeOK
<1>1. ListTypes => ListTypeOK
  <2>1. ASSUME NEW answer, OneAnswer(answer) PROVE answer \subseteq Queries /\ Cardinality(answer) <= 1
    <3>1. CASE answer = {}
      BY <3>1, FS_EmptySet
    <3>2. ASSUME NEW q \in Queries, answer = {q} PROVE answer \subseteq Queries /\ Cardinality(answer) <= 1
      <4>1. Cardinality({q}) = 1
        BY FS_Singleton
      <4> QED BY <3>2, <4>1
    <3> QED BY <2>1, <3>1, <3>2 DEF OneAnswer
  <2> QED BY <2>1 DEF ListTypes, ListTypeOK
<1>2. ListsSpec => []ListTypes
  BY ListTypesInit, ListTypesNext, ListsInvariant, PTL DEF ListsSpec
<1> QED BY <1>1, <1>2, PTL

FetchesFew == Bounded(fetches, MaxFetches)

LEMMA FetchesAreFew == ChartInit => FetchesFew
<1> SUFFICES ASSUME ChartInit PROVE Bounded(fetches, MaxFetches)
  BY DEF FetchesFew
<1>1. MaxFetches \in Nat \ {0} /\ Bounded({}, MaxFetches) /\ Cardinality({}) < MaxFetches
  BY ChartAssumption, FS_EmptySet DEF Bounded
<1>2. \E f : fetches = {} \cup {f}
  BY DEF ChartInit, Fetch
<1> QED BY <1>1, <1>2, BoundedOK

LEMMA LoadRangeFew ==
  ASSUME Bounded(fetches, MaxFetches), NEW c, LoadRange(c)
  PROVE  Bounded(fetches', MaxFetches)
<1> DEFINE f == [g \in fetches |-> IF g.kind = "range" THEN [g EXCEPT !.current = FALSE] ELSE g]
<1>1. MaxFetches \in Nat
  BY ChartAssumption
<1>2. Superseded(fetches) = {f[g] : g \in fetches} /\ DOMAIN f = fetches
  BY DEF Superseded
<1> HIDE DEF f
<1>3. Bounded(Superseded(fetches), MaxFetches) /\ Cardinality(Superseded(fetches)) <= Cardinality(fetches)
  BY <1>1, <1>2, BoundedChanged
<1>4. Cardinality(Superseded(fetches)) < MaxFetches
  BY <1>1, <1>3 DEF LoadRange, Bounded
<1>5. \E g : fetches' = Superseded(fetches) \cup {g}
  BY DEF LoadRange, Fetch
<1> QED BY <1>1, <1>3, <1>4, <1>5, BoundedOK

LEMMA ChartNextFew == FetchesFew /\ [ChartNext]_chartVars => FetchesFew'
<1> SUFFICES ASSUME Bounded(fetches, MaxFetches), [ChartNext]_chartVars PROVE Bounded(fetches', MaxFetches)
  BY DEF FetchesFew
<1>1. MaxFetches \in Nat
  BY ChartAssumption
<1>2. CASE SelectInterval \/ CacheUpdated
  BY <1>2, LoadRangeFew DEF SelectInterval, CacheUpdated
<1>3. CASE LoadOlder
  <2>1. Cardinality(fetches) < MaxFetches /\ \E f : fetches' = fetches \cup {f}
    BY <1>3 DEF LoadOlder, Fetch
  <2> QED BY <1>1, <2>1, BoundedOK
<1>4. CASE RangeAnswered \/ RangeFails \/ OlderAnswered \/ OlderFails
  <2>1. fetches' \subseteq fetches
    BY <1>4 DEF RangeAnswered, RangeFails, OlderAnswered, OlderFails
  <2> QED BY <1>1, <2>1, BoundedOK
<1>5. CASE UNCHANGED fetches
  BY <1>5
<1> QED BY <1>2, <1>3, <1>4, <1>5 DEF ChartNext, CacheGrows, CandleChanges, CacheCleared, chartVars

\* The chart has candles of the times that there are, and asks for no more at once than
\* it may.
THEOREM ChartTypeOKAlways == ChartSpec => []ChartTypeOK
<1>1. ChartInv /\ FetchesFew => ChartTypeOK
  BY ChartAssumption DEF ChartInv, ChartOK, IsCandles, ChartTypeOK, FetchesFew, Bounded
<1>2. ChartSpec => []FetchesFew
  BY FetchesAreFew, ChartNextFew, PTL DEF ChartSpec
<1> QED BY <1>1, <1>2, ChartInvariant, PTL

\* Stars are of what is listed, and all of the items there are.
THEOREM FavTypeOKAlways == FavSpec => []FavTypeOK
<1>1. FavInv => FavTypeOK
  BY DEF FavInv, FavTypeOK
<1> QED BY <1>1, FavInvariant, PTL

\* The states that the things of a page may be in.
DeskState == IF OfJobs THEN JobProgress ELSE BlueprintState

DecisionKinds ==
  /\ \A s \in Subjects : past[s] \subseteq DeskState
  /\ \A c \in deskCalls : c.what = "act" => c.to \in DeskState
  /\ Bounded(deskCalls, MaxCalls)

LEMMA NewCallKinds ==
  ASSUME NEW calls, NEW n \in Nat, Bounded(calls, n), Cardinality(calls) < n,
         NEW what, NEW of, NEW to, NEW by, what = "act" => to \in DeskState,
         \A c \in calls : c.what = "act" => c.to \in DeskState
  PROVE  /\ \A c \in NewCall(calls, what, of, to, by) : c.what = "act" => c.to \in DeskState
         /\ Bounded(NewCall(calls, what, of, to, by), n)
<1>1. PICK i : NewCall(calls, what, of, to, by) = calls \cup
        {[what |-> what, of |-> of, to |-> to, by |-> by, stage |-> "sent", got |-> {}, id |-> i]}
  BY DEF NewCall
<1> DEFINE call == [what |-> what, of |-> of, to |-> to, by |-> by, stage |-> "sent", got |-> {}, id |-> i]
<1>2. call.what = "act" => call.to \in DeskState
  OBVIOUS
<1>3. NewCall(calls, what, of, to, by) = calls \cup {call}
  BY <1>1
<1> HIDE DEF call
<1>4. Bounded(calls \cup {call}, n)
  BY BoundedOK
<1> QED BY <1>2, <1>3, <1>4

LEMMA DecisionKindsInit == DecisionInit => DecisionKinds
<1> SUFFICES ASSUME DecisionInit PROVE DecisionKinds
  OBVIOUS
<1>1. \A s \in Subjects : past[s] \subseteq DeskState
  BY DEF DecisionInit, DeskState, JobProgress, BlueprintState
<1>2. MaxCalls \in Nat /\ Bounded({}, MaxCalls) /\ Cardinality({}) < MaxCalls
  BY DecisionAssumption, FS_EmptySet DEF Bounded
<1>3. deskCalls = NewCall({}, "load", Focus, "none", "open")
  BY DEF DecisionInit, LoadCall
<1>4. /\ \A c \in deskCalls : c.what = "act" => c.to \in DeskState
      /\ Bounded(deskCalls, MaxCalls)
  BY <1>2, <1>3, NewCallKinds
<1> QED BY <1>1, <1>4 DEF DecisionKinds

LEMMA StagedKinds ==
  ASSUME DecisionInv, DecisionKinds, NEW c \in deskCalls, NEW stage, deskCalls' = Staged(c, stage)
  PROVE  (\A d \in deskCalls' : d.what = "act" => d.to \in DeskState) /\ Bounded(deskCalls', MaxCalls)
<1> DEFINE d == [c EXCEPT !.stage = stage]
<1>1. d.what = c.what /\ d.to = c.to /\ deskCalls' = (deskCalls \ {c}) \cup {d}
  BY DEF DecisionInv, DeskCallOK, DeskCallFields, Staged
<1> HIDE DEF d
<1>2. Bounded(deskCalls', MaxCalls)
  BY <1>1, BoundedOK, DecisionAssumption DEF DecisionKinds
<1> QED BY <1>1, <1>2 DEF DecisionKinds

LEMMA DecisionKindsNext == DecisionInv /\ DecisionKinds /\ [DecisionNext]_deskVars => DecisionKinds'
<1> SUFFICES ASSUME DecisionInv, DecisionKinds, [DecisionNext]_deskVars PROVE DecisionKinds'
  OBVIOUS
<1>1. /\ MaxCalls \in Nat /\ Bounded(deskCalls, MaxCalls)
      /\ \A c \in deskCalls : c.what = "act" => c.to \in DeskState
      /\ \A s \in Subjects : past[s] \subseteq DeskState
  BY DecisionAssumption DEF DecisionKinds
<1>2. DeskState' = DeskState
  BY DEF DeskState, OfJobs, DecisionNext, deskVars, RequestApproval, Moderate, RefreshQueue, CancelRow, CancelJob,
     ServeLoad, CheckMove, WriteMove, Elsewhere, LoadAnswered, LoadLost, ActAnswered, ActFails
<1>3. ASSUME UNCHANGED past, \A c \in deskCalls' : c.what = "act" => c.to \in DeskState, Bounded(deskCalls', MaxCalls)
      PROVE  DecisionKinds'
  BY <1>1, <1>2, <1>3 DEF DecisionKinds
<1>4. ASSUME NEW s, NEW to \in DeskState, Move(s, to)
      PROVE  \A x \in Subjects : past'[x] \subseteq DeskState
  <2>1. past = [x \in Subjects |-> past[x]]
    BY DEF DecisionInv, DeskTypes
  <2>2. past' = [past EXCEPT ![s] = @ \cup {to}]
    BY <1>4 DEF Move
  <2> QED BY <1>1, <1>4, <2>1, <2>2
<1>5. CASE RequestApproval \/ Moderate \/ RefreshQueue \/ CancelRow \/ CancelJob
  <2>1. PICK what, of, to, by :
          deskCalls' = NewCall(deskCalls, what, of, to, by) /\ (what = "act" => to \in DeskState)
    BY <1>5 DEF RequestApproval, Moderate, RefreshQueue, CancelRow, CancelJob, LoadCall, DeskState, OfJobs,
       JobProgress, BlueprintState
  <2>2. Room /\ UNCHANGED past
    BY <1>5 DEF RequestApproval, Moderate, RefreshQueue, CancelRow, CancelJob
  <2>3. /\ \A c \in deskCalls' : c.what = "act" => c.to \in DeskState
        /\ Bounded(deskCalls', MaxCalls)
    BY <1>1, <2>1, <2>2, NewCallKinds DEF Room
  <2> QED BY <1>3, <2>2, <2>3
<1>6. CASE ServeLoad
  <2>1. PICK c \in deskCalls :
          c.what = "load" /\ deskCalls' = (deskCalls \ {c}) \cup {[c EXCEPT !.stage = "ok", !.got = {record}]}
    BY <1>6 DEF ServeLoad
  <2> DEFINE d == [c EXCEPT !.stage = "ok", !.got = {record}]
  <2>2. d.what = "load"
    BY <2>1 DEF DecisionInv, DeskCallOK, DeskCallFields
  <2>3. deskCalls' = (deskCalls \ {c}) \cup {d} /\ UNCHANGED past
    BY <1>6, <2>1 DEF ServeLoad
  <2> HIDE DEF d
  <2>4. Bounded(deskCalls', MaxCalls)
    BY <1>1, <2>3, BoundedOK
  <2> QED BY <1>1, <1>3, <2>2, <2>3, <2>4
<1>7. CASE CheckMove
  <2>1. PICK c \in deskCalls : \E stage : deskCalls' = Staged(c, stage)
    BY <1>7 DEF CheckMove
  <2> QED BY <1>3, <1>7, <2>1, StagedKinds DEF CheckMove
<1>8. CASE WriteMove
  <2>1. PICK c \in deskCalls : /\ c.stage = "checked"
                               /\ \E stage : deskCalls' = Staged(c, stage)
                               /\ UNCHANGED past \/ Move(c.of, c.to)
    BY <1>8 DEF WriteMove
  <2>2. c.what = "act"
    BY <2>1 DEF DecisionInv, DeskCallOK
  <2>3. (\A d \in deskCalls' : d.what = "act" => d.to \in DeskState) /\ Bounded(deskCalls', MaxCalls)
    BY <2>1, StagedKinds
  <2>4. \A x \in Subjects : past'[x] \subseteq DeskState
    BY <1>1, <1>4, <2>1, <2>2
  <2> QED BY <1>2, <2>3, <2>4 DEF DecisionKinds
<1>9. CASE Elsewhere
  <2>1. PICK s \in Subjects, m \in IF OfJobs THEN JobMoves ELSE Moves : Move(s, m[2]) /\ UNCHANGED deskCalls
    BY <1>9, DecisionAssumption DEF Elsewhere, Seen
  <2>2. m[2] \in DeskState
    BY DEF DeskState, JobMoves, Moves, JobProgress, BlueprintState
  <2>3. \A x \in Subjects : past'[x] \subseteq DeskState
    BY <1>4, <2>1, <2>2
  <2> QED BY <1>1, <1>2, <2>1, <2>3 DEF DecisionKinds
<1>10. CASE LoadAnswered \/ LoadLost \/ ActFails
  <2>1. PICK c \in deskCalls : deskCalls' = deskCalls \ {c} /\ UNCHANGED past
    BY <1>10 DEF LoadAnswered, LoadLost, ActFails
  <2>2. Bounded(deskCalls', MaxCalls)
    BY <1>1, <2>1, BoundedOK
  <2> QED BY <1>1, <1>3, <2>1, <2>2
<1>11. CASE ActAnswered
  <2>1. PICK c \in deskCalls : \/ deskCalls' = deskCalls \ {c}
                               \/ deskCalls' = NewCall(deskCalls \ {c}, "load", Focus, "none", c.by)
    BY <1>11 DEF ActAnswered, LoadCall
  <2>2. UNCHANGED past
    BY <1>11 DEF ActAnswered
  <2>3. Bounded(deskCalls \ {c}, MaxCalls) /\ Cardinality(deskCalls \ {c}) < MaxCalls
    <3>1. IsFiniteSet(deskCalls) /\ Cardinality(deskCalls) \in 0 .. MaxCalls
      BY <1>1 DEF Bounded
    <3>2. IsFiniteSet(deskCalls \ {c}) /\ Cardinality(deskCalls \ {c}) = Cardinality(deskCalls) - 1
      BY <3>1, FS_RemoveElement
    <3>3. Bounded(deskCalls \ {c}, MaxCalls)
      BY <1>1, BoundedOK
    <3> QED BY <1>1, <3>1, <3>2, <3>3
  <2>4. (\A d \in deskCalls' : d.what = "act" => d.to \in DeskState) /\ Bounded(deskCalls', MaxCalls)
    BY <1>1, <2>1, <2>3, NewCallKinds
  <2> QED BY <1>3, <2>2, <2>4
<1>12. CASE UNCHANGED deskVars
  BY <1>1, <1>3, <1>12 DEF deskVars
<1> QED BY <1>5, <1>6, <1>7, <1>8, <1>9, <1>10, <1>11, <1>12 DEF DecisionNext

\* A blueprint is in a state of blueprints and a job in one of jobs, at the server and on
\* the page.
THEOREM DecisionTypeOKAlways == DecisionSpec => []DecisionTypeOK
<1>1. DecisionInv /\ DecisionKinds => DecisionTypeOK
  <2> SUFFICES ASSUME DecisionInv, DecisionKinds PROVE DecisionTypeOK
    OBVIOUS
  <2>1. /\ record = [s \in Subjects |-> record[s]]
        /\ display = [s \in Subjects |-> display[s]]
    BY DEF DecisionInv, DeskTypes
  <2>2. \A s \in Subjects : record[s] \in DeskState /\ display[s] \in DeskState \cup {Unknown}
    BY DEF DecisionInv, DecisionKinds, ShownWasReal
  <2>3. Cardinality(deskCalls) <= MaxCalls
    BY DecisionAssumption DEF DecisionKinds, Bounded
  <2>4. DeskState \subseteq BlueprintState \cup JobProgress
    BY DEF DeskState
  <2>5. record \in [Subjects -> DeskState]
    BY <2>1, <2>2
  <2>6. display \in [Subjects -> BlueprintState \cup JobProgress \cup {Unknown}]
    BY <2>1, <2>2, <2>4
  <2> QED BY <2>3, <2>5, <2>6 DEF DecisionTypeOK, DeskState
<1>2. DecisionSpec => []DecisionKinds
  BY DecisionKindsInit, DecisionKindsNext, DecisionInvariant, PTL DEF DecisionSpec
<1> QED BY <1>1, <1>2, DecisionInvariant, PTL

(* The terminal of an experiment. *)

\* The lines there can be.
TerminalLine == {Snapshot(d)[i] : d \in Data, i \in {1, 2}}

Printout(lines, seen) ==
  /\ lines \in Seq(TerminalLine)
  /\ \A i, j \in 1 .. Len(lines) : lines[i] = lines[j] => i = j
  /\ \A i \in 1 .. Len(lines) : lines[i] \in seen

Unless(line, seen) == IF line \in seen THEN <<>> ELSE <<line>>

\* A line is printed that was not.
LEMMA UnlessSeen ==
  ASSUME NEW lines, NEW seen, Printout(lines, seen), NEW line \in TerminalLine, NEW before, before \subseteq seen,
         line \in seen => line \in before
  PROVE  Printout(lines \o Unless(line, before), seen \cup {line})
<1>1. CASE line \in before
  <2>1. lines \o Unless(line, before) = lines
    BY <1>1 DEF Unless, Printout
  <2> QED BY <1>1, <2>1 DEF Printout
<1>2. CASE line \notin before
  <2>1. lines \o Unless(line, before) = Append(lines, line)
    BY <1>2 DEF Unless, Printout
  <2> QED BY <1>2, <2>1 DEF Printout
<1> QED BY <1>1, <1>2

LEMMA SnapshotIs ==
  ASSUME NEW d \in Data
  PROVE  {Snapshot(d)[1], Snapshot(d)[2]} \subseteq TerminalLine /\ Snapshot(d)[1] # Snapshot(d)[2]
<1>1. {Snapshot(d)[1], Snapshot(d)[2]} \subseteq TerminalLine
  BY DEF TerminalLine
<1>2. Snapshot(d)[1][1] = "status" /\ Snapshot(d)[2][1] = "model"
  BY DEF Snapshot
<1> QED BY <1>1, <1>2

LEMMA KeptOK ==
  ASSUME NEW lines, NEW seen, Printout(lines, seen)
  PROVE  Printout(Kept(lines), seen) /\ Len(Kept(lines)) <= HistoryLimit
<1> DEFINE m == IF Len(lines) > HistoryLimit THEN Len(lines) - HistoryLimit + 1 ELSE 1
           n == Len(lines)
<1>1. lines \in Seq(TerminalLine) /\ n \in Nat /\ HistoryLimit \in Nat \ {0}
  BY ExperimentPageAssumption DEF Printout
<1>2. m \in 1 .. n + 1 /\ n - m + 1 <= HistoryLimit /\ n - m + 1 \in Nat
  BY <1>1
<1>3. Kept(lines) = SubSeq(lines, m, n)
  BY DEF Kept
<1> HIDE DEF m
<1>4. \A i \in m .. n : lines[i] \in TerminalLine
  BY <1>1, <1>2
<1>5. /\ Kept(lines) \in Seq(TerminalLine)
      /\ Len(Kept(lines)) = n - m + 1
      /\ \A i \in 1 .. n - m + 1 : Kept(lines)[i] = lines[m + i - 1]
  <2> HIDE DEF n
  <2>1. /\ SubSeq(lines, m, n) \in Seq(TerminalLine)
        /\ Len(SubSeq(lines, m, n)) = IF m <= n THEN n - m + 1 ELSE 0
        /\ \A i \in 1 .. n - m + 1 : SubSeq(lines, m, n)[i] = lines[m + i - 1]
    BY <1>1, <1>2, <1>4, SubSeqProperties
  <2> QED BY <1>1, <1>2, <1>3, <2>1
<1>6. \A i \in 1 .. n - m + 1 : m + i - 1 \in 1 .. n
  BY <1>1, <1>2
<1>7. \A i, j \in 1 .. n - m + 1 : m + i - 1 = m + j - 1 => i = j
  BY <1>1, <1>2
<1> DEFINE from(i) == m + i - 1
<1>8. /\ \A i \in 1 .. n - m + 1 : Kept(lines)[i] = lines[from(i)] /\ from(i) \in 1 .. n
      /\ \A i, j \in 1 .. n - m + 1 : from(i) = from(j) => i = j
  BY <1>5, <1>6, <1>7
<1>9. \A i, j \in 1 .. n : lines[i] = lines[j] => i = j
  BY DEF Printout
<1>10. \A i \in 1 .. n : lines[i] \in seen
  BY DEF Printout
<1> HIDE DEF from, n
<1>11. \A i, j \in 1 .. n - m + 1 : Kept(lines)[i] = Kept(lines)[j] => i = j
  BY ONLY <1>8, <1>9
<1>12. \A i \in 1 .. n - m + 1 : Kept(lines)[i] \in seen
  BY ONLY <1>8, <1>10
<1> QED BY <1>2, <1>5, <1>11, <1>12 DEF Printout

LEMMA Assoc ==
  ASSUME NEW S, NEW s \in Seq(S), NEW t \in Seq(S), NEW u \in Seq(S)
  PROVE  s \o (t \o u) = (s \o t) \o u
OBVIOUS

LEMMA LinesOfBoth ==
  ASSUME NEW S, NEW s \in Seq(S), NEW t \in Seq(S)
  PROVE  ToSet(s \o t) = ToSet(s) \cup ToSet(t)
<1>1. s \o t \in Seq(S)
  OBVIOUS
<1>2. \A u \in Seq(S) : ToSet(u) = Range(u)
  BY DEF ToSet, Range
<1>3. Range(s \o t) = Range(s) \cup Range(t)
  BY RangeConcatenation
<1> QED BY <1>1, <1>2, <1>3

\* What a load brings is printed once.
LEMMA PrintedOK ==
  ASSUME NEW t, NEW d \in Data, Printout(t.lines, t.seen), NEW p, p = Printed(d, t)
  PROVE  Printout(p.lines, p.seen) /\ Len(p.lines) <= HistoryLimit
<1> DEFINE a == Snapshot(d)[1]
           b == Snapshot(d)[2]
           A == Unless(a, t.seen)
           B == Unless(b, t.seen)
<1>1. a \in TerminalLine /\ b \in TerminalLine /\ a # b
  BY SnapshotIs
<1>2. Fresh(d, t.seen) = A \o B
  BY DEF Fresh, Unless
<1> HIDE DEF a, b
<1>3. Printout(t.lines \o A, t.seen \cup {a})
  BY <1>1, UnlessSeen
<1>4. Printout((t.lines \o A) \o B, (t.seen \cup {a}) \cup {b})
  BY <1>1, <1>3, UnlessSeen
<1>5. A \in Seq(TerminalLine) /\ B \in Seq(TerminalLine) /\ t.lines \in Seq(TerminalLine)
  BY <1>1 DEF Unless, Printout
<1>6. ToSet(A \o B) = ({a} \cup {b}) \ t.seen
  <2>1. ToSet(A) = {a} \ t.seen
    <3>1. CASE a \in t.seen
      BY <3>1 DEF ToSet, Unless
    <3>2. CASE a \notin t.seen
      <4>1. A = <<a>>
        BY <3>2 DEF Unless
      <4> HIDE DEF A
      <4>2. ToSet(A) = {a}
        BY <4>1 DEF ToSet
      <4> QED BY <3>2, <4>2
    <3> QED BY <3>1, <3>2
  <2>2. ToSet(B) = {b} \ t.seen
    <3>1. CASE b \in t.seen
      BY <3>1 DEF ToSet, Unless
    <3>2. CASE b \notin t.seen
      <4>1. B = <<b>>
        BY <3>2 DEF Unless
      <4> HIDE DEF B
      <4>2. ToSet(B) = {b}
        BY <4>1 DEF ToSet
      <4> QED BY <3>2, <4>2
    <3> QED BY <3>1, <3>2
  <2> HIDE DEF A, B
  <2>3. ToSet(A \o B) = ToSet(A) \cup ToSet(B)
    BY ONLY <1>5, LinesOfBoth
  <2> QED BY ONLY <2>1, <2>2, <2>3
<1> HIDE DEF A, B
<1>7. t.lines \o (A \o B) = (t.lines \o A) \o B
  <2> DEFINE L == t.lines
  <2>1. L \in Seq(TerminalLine) /\ A \in Seq(TerminalLine) /\ B \in Seq(TerminalLine)
    BY <1>5
  <2> HIDE DEF L, TerminalLine
  <2>2. L \o (A \o B) = (L \o A) \o B
    BY ONLY <2>1
  <2> QED BY <2>2 DEF L
<1>8. p = [lines |-> Kept(t.lines \o (A \o B)), seen |-> t.seen \cup ToSet(A \o B)]
  BY <1>2 DEF Printed
<1>9. t.seen \cup ToSet(A \o B) = (t.seen \cup {a}) \cup {b}
  BY <1>6
<1>10. Printout(t.lines \o (A \o B), t.seen \cup ToSet(A \o B))
  BY <1>4, <1>7, <1>9
<1> QED BY <1>8, <1>10, KeptOK

Statuses == Active \cup {"completed", "failed", "cancelled"}

LoadsFew ==
  /\ loads.unread \in Nat /\ IsFiniteSet(loads.replies)
  /\ loads.unread + Cardinality(loads.replies) <= MaxLoads

OneShown == shown = {} \/ \E d \in Data : shown = {d}

TerminalOK == Printout(terminal.lines, terminal.seen) /\ Len(terminal.lines) <= HistoryLimit

ResultsTypes ==
  /\ experiment.status \in Statuses
  /\ OneShown /\ loads.replies \subseteq Data
  /\ LoadsFew /\ TerminalOK

LEMMA ResultsTypesInit == ExperimentInit => ResultsTypes
<1> SUFFICES ASSUME ExperimentInit PROVE ResultsTypes
  OBVIOUS
<1>1. LoadsFew
  BY FS_EmptySet, ExperimentPageAssumption DEF ExperimentInit, LoadsFew
<1>2. TerminalOK
  BY ExperimentPageAssumption DEF ExperimentInit, TerminalOK, Printout
<1> QED BY <1>1, <1>2 DEF ExperimentInit, ResultsTypes, Statuses, Active, OneShown

\* A load that is started, read, answered or lost leaves no more than there may be.
LEMMA LoadsStayFew ==
  ASSUME LoadsFew, ModelsLoaded
  PROVE  /\ ReadExperiment => LoadsFew'
         /\ Load => LoadsFew' /\ loads'.replies = loads.replies
         /\ LoadFails => LoadsFew' /\ loads'.replies = loads.replies
         /\ LoadArrives => LoadsFew' /\ loads'.replies \subseteq loads.replies
<1> DEFINE n == Cardinality(loads.replies)
<1>1. /\ loads = [unread |-> loads.unread, replies |-> loads.replies]
      /\ loads.unread \in Nat /\ IsFiniteSet(loads.replies) /\ n \in Nat /\ loads.unread + n <= MaxLoads
      /\ MaxLoads \in Nat
  BY FS_CardinalityType, ExperimentPageAssumption DEF LoadsFew, ModelsLoaded
<1>2. ASSUME ReadExperiment PROVE LoadsFew'
  <2>1. PICK r : loads' = [unread |-> loads.unread - 1, replies |-> loads.replies \cup {r}] /\ loads.unread > 0
    BY <1>2 DEF ReadExperiment
  <2>2. IsFiniteSet(loads.replies \cup {r}) /\ Cardinality(loads.replies \cup {r}) \in {n, n + 1}
    BY <1>1, FS_AddElement
  <2>3. loads'.unread = loads.unread - 1 /\ loads'.replies = loads.replies \cup {r}
    BY <2>1
  <2> HIDE DEF n
  <2> QED BY <1>1, <2>1, <2>2, <2>3 DEF LoadsFew
<1>3. ASSUME Load PROVE LoadsFew' /\ loads'.replies = loads.replies
  <2>1. loads' = [unread |-> loads.unread + 1, replies |-> loads.replies] /\ loads.unread + n < MaxLoads
    BY <1>1, <1>3 DEF Load
  <2>2. loads'.unread = loads.unread + 1 /\ loads'.replies = loads.replies
    BY <2>1
  <2> QED BY <1>1, <2>1, <2>2 DEF LoadsFew
<1>4. ASSUME LoadFails PROVE LoadsFew' /\ loads'.replies = loads.replies
  <2>1. loads' = [unread |-> loads.unread - 1, replies |-> loads.replies] /\ loads.unread > 0
    BY <1>1, <1>4 DEF LoadFails
  <2>2. loads'.unread = loads.unread - 1 /\ loads'.replies = loads.replies
    BY <2>1
  <2> QED BY <1>1, <2>1, <2>2 DEF LoadsFew
<1>5. ASSUME LoadArrives PROVE LoadsFew' /\ loads'.replies \subseteq loads.replies
  <2>1. PICK r \in loads.replies : loads' = [unread |-> loads.unread, replies |-> loads.replies \ {r}]
    BY <1>1, <1>5 DEF LoadArrives
  <2>2. IsFiniteSet(loads.replies \ {r}) /\ Cardinality(loads.replies \ {r}) = n - 1
    BY <1>1, FS_RemoveElement
  <2>3. loads'.unread = loads.unread /\ loads'.replies = loads.replies \ {r}
    BY <2>1
  <2> HIDE DEF n
  <2> QED BY <1>1, <2>1, <2>2, <2>3 DEF LoadsFew
<1> QED BY <1>2, <1>3, <1>4, <1>5

LEMMA ResultsTypesNext == ResultsInv /\ ResultsTypes /\ [ExperimentNext]_experimentVars => ResultsTypes'
<1> SUFFICES ASSUME ResultsInv, ResultsTypes, [ExperimentNext]_experimentVars PROVE ResultsTypes'
  OBVIOUS
<1>1. /\ experiment = [status |-> experiment.status, models |-> experiment.models, retries |-> experiment.retries]
      /\ experiment.status \in Statuses /\ experiment.models \subseteq Model
  BY DEF ResultsInv, ModelsLoaded, ResultsTypes
<1>2. LoadsFew /\ ModelsLoaded /\ loads.replies \subseteq Data
  BY DEF ResultsInv, ResultsTypes
<1>3. ASSUME UNCHANGED <<shown, loads, terminal>>, experiment'.status \in Statuses PROVE ResultsTypes'
  BY <1>3 DEF ResultsTypes, LoadsFew, TerminalOK, OneShown
<1>4. ASSUME UNCHANGED <<experiment, shown, terminal>>, LoadsFew', loads'.replies \subseteq Data PROVE ResultsTypes'
  BY <1>4 DEF ResultsTypes, TerminalOK, OneShown
<1>5. CASE UNCHANGED <<experiment, shown, loads, terminal>>
  BY <1>1, <1>3, <1>5
<1>6. CASE Work
  <2>1. experiment'.status \in Statuses
    BY <1>1, <1>6 DEF Work, Statuses, Active
  <2> QED BY <1>3, <1>6, <2>1 DEF Work
<1>7. CASE ActionServed
  <2>1. experiment'.status \in Statuses
    BY <1>1, <1>7 DEF ActionServed, Statuses, Active
  <2> QED BY <1>3, <1>7, <2>1 DEF ActionServed
<1>8. CASE ReadExperiment
  <2>1. loads'.replies = loads.replies \cup {[status |-> experiment.status, models |-> experiment.models]}
    BY <1>8 DEF ReadExperiment
  <2>2. [status |-> experiment.status, models |-> experiment.models] \in Data
    BY <1>1 DEF Data, Statuses
  <2> QED BY <1>2, <1>4, <1>8, <2>1, <2>2, LoadsStayFew DEF ReadExperiment
<1>9. CASE Poll \/ ActionAnswered
  BY <1>2, <1>4, <1>9, LoadsStayFew DEF Poll, ActionAnswered
<1>10. CASE LoadFails
  BY <1>2, <1>4, <1>10, LoadsStayFew DEF LoadFails
<1>11. CASE LoadArrives
  <2>1. PICK r \in loads.replies :
          /\ shown' = {r}
          /\ terminal' = IF watched = "terminal" THEN Printed(r, terminal) ELSE terminal
    BY <1>11 DEF LoadArrives
  <2>2. r \in Data /\ loads'.replies \subseteq Data /\ LoadsFew' /\ UNCHANGED experiment
    BY <1>2, <1>11, LoadsStayFew DEF LoadArrives
  <2>3. OneShown'
    BY <2>1, <2>2 DEF OneShown
  <2>4. TerminalOK'
    BY <2>1, <2>2, PrintedOK DEF TerminalOK, ResultsTypes
  <2> QED BY <1>1, <2>2, <2>3, <2>4 DEF ResultsTypes
<1>12. CASE EditFilters \/ TurnPage \/ ViewModel \/ CloseModel \/ SelectChartPoint
  BY <1>5, <1>12 DEF EditFilters, TurnPage, ViewModel, CloseModel, SelectChartPoint
<1>13. CASE ClickCancel \/ ClickRetry \/ ClickDelete \/ ActionFails
  BY <1>5, <1>13 DEF ClickCancel, ClickRetry, ClickDelete, Click, ActionFails
<1>14. CASE TypeRoundModel \/ DownloadRoundLog \/ RoundLogAnswered
  BY <1>5, <1>14 DEF TypeRoundModel, DownloadRoundLog, RoundLogAnswered
<1>15. CASE UNCHANGED experimentVars
  BY <1>5, <1>15 DEF experimentVars
<1> QED BY <1>6, <1>7, <1>8, <1>9, <1>10, <1>11, <1>12, <1>13, <1>14, <1>15 DEF ExperimentNext

\* A sequence that repeats nothing has as many values as places.
LEMMA AsManyLines ==
  ASSUME NEW lines, NEW seen, Printout(lines, seen)
  PROVE  Len(lines) = Cardinality(ToSet(lines))
<1> DEFINE n == Len(lines)
           f == [i \in 1 .. n |-> lines[i]]
<1>1. lines \in Seq(TerminalLine) /\ n \in Nat /\ DOMAIN lines = 1 .. n
  BY DEF Printout
<1>2. ToSet(lines) = {lines[i] : i \in 1 .. n}
  BY <1>1 DEF ToSet
<1>3. \A i, j \in 1 .. n : lines[i] = lines[j] => i = j
  BY DEF Printout
<1> DEFINE values == ToSet(lines)
<1> HIDE DEF n, values
<1>4. f \in Bijection(1 .. n, values)
  <2>1. f \in [1 .. n -> values] /\ \A t \in values : \E i \in 1 .. n : f[i] = t
    BY <1>2 DEF values
  <2>2. \A i, j \in 1 .. n : f[i] = f[j] => i = j
    BY <1>3 DEF n
  <2> HIDE DEF f
  <2>3. f \in Surjection(1 .. n, values)
    BY <2>1 DEF Surjection
  <2>4. f \in Injection(1 .. n, values)
    BY <2>1, <2>2 DEF Injection, IsInjective
  <2> QED BY <2>3, <2>4 DEF Bijection
<1>5. IsFiniteSet(1 .. n) /\ Cardinality(1 .. n) = n
  BY <1>1, FS_Interval
<1>6. Cardinality(values) = Cardinality(1 .. n)
  <2> HIDE DEF f
  <2>1. ExistsBijection(1 .. n, values)
    BY <1>4 DEF ExistsBijection
  <2> QED BY <1>5, <2>1, FS_Bijection
<1>7. Cardinality(values) = n
  BY <1>5, <1>6
<1> QED BY <1>7 DEF n, values

\* No more loads are under way than there may be, and each brings a state of the
\* experiment; the terminal keeps no more lines than it may, each of them once,
\* however often a load brings what an earlier one brought
\* (ExperimentPage!ExperimentTypeOK).
THEOREM ExperimentTypeOKAlways == ResultsSpec => []ExperimentTypeOK
<1>1. ExperimentInit => ResultsTypes
  BY ResultsTypesInit
<1>2. ResultsInv /\ ResultsTypes => ExperimentTypeOK
  <2> SUFFICES ASSUME ResultsTypes PROVE ExperimentTypeOK
    OBVIOUS
  <2>1. shown \subseteq Data /\ Cardinality(shown) <= 1
    <3>1. CASE shown = {}
      BY <3>1, FS_EmptySet
    <3>2. CASE shown # {}
      <4>1. PICK d \in Data : shown = {d}
        BY <3>2 DEF ResultsTypes, OneShown
      <4>2. Cardinality({d}) = 1
        BY FS_Singleton
      <4> QED BY <4>1, <4>2
    <3> QED BY <3>1, <3>2
  <2>2. loads.unread \in 0 .. MaxLoads
    BY FS_CardinalityType, ExperimentPageAssumption DEF ResultsTypes, LoadsFew
  <2>3. Len(terminal.lines) <= HistoryLimit /\ Len(terminal.lines) = Cardinality(ToSet(terminal.lines))
    BY AsManyLines DEF ResultsTypes, TerminalOK
  <2> QED BY <2>1, <2>2, <2>3 DEF ResultsTypes, ExperimentTypeOK, Statuses
<1> QED BY <1>1, <1>2, ResultsInvariant, ResultsTypesNext, PTL DEF ResultsSpec

DocsState ==
  /\ docs = [q |-> docs.q, items |-> docs.items, doc |-> docs.doc, loading |-> docs.loading, error |-> docs.error]
  /\ docs.q \in DOMAIN Index

DocCallsFew == Bounded(docCalls, MaxDocCalls)

LinesFew == reading.lines \in Seq(Line) /\ Len(reading.lines) <= MaxLines

DocsTypes == DocsState /\ DocCallsFew /\ LinesFew

LEMMA DocsConstants == MaxLines \in Nat /\ MaxDocCalls \in Nat /\ MaxDocCalls > 0
<1>1. MaxLines \in Nat /\ MaxDocCalls \in Nat \ {0}
  BY DocumentationAssumption, Zenon
<1> QED BY <1>1

\* What the page opens with: its index is asked for, or a document is read.
LEMMA DocsOpen ==
  ASSUME DocsInit
  PROVE  /\ \E q \in DOMAIN Index : \E items, doc, loading, error :
              docs = [q |-> q, items |-> items, doc |-> doc, loading |-> loading, error |-> error]
         /\ docCalls = {} \/ \E d : docCalls = {d}
         /\ \/ reading = [lines |-> <<>>, index |-> 1, blocks |-> <<>>]
            \/ \E n \in 1 .. MaxLines : \E lines \in [1 .. n -> Line] :
                 reading = [lines |-> lines, index |-> 1, blocks |-> <<>>]
<1>1. \E q \in DOMAIN Index : \E items, doc, loading, error :
        docs = [q |-> q, items |-> items, doc |-> doc, loading |-> loading, error |-> error]
  BY DocumentationAssumption, Zenon DEF DocsInit
<1>2. docCalls = {} \/ \E kind, of, slug : docCalls = DocCall({}, kind, of, slug)
  BY Zenon DEF DocsInit
<1>3. \A kind, of, slug : \E d : DocCall({}, kind, of, slug) = {d}
  BY DEF DocCall
<1>4. docCalls = {} \/ \E d : docCalls = {d}
  BY <1>2, <1>3
<1>5. \/ reading = [lines |-> <<>>, index |-> 1, blocks |-> <<>>]
      \/ \E n \in 1 .. MaxLines : \E lines \in [1 .. n -> Line] :
           reading = [lines |-> lines, index |-> 1, blocks |-> <<>>]
  BY Zenon DEF DocsInit
<1> QED BY <1>1, <1>4, <1>5

LEMMA DocsTypesInit == DocsInit => DocsTypes
<1> SUFFICES ASSUME DocsInit PROVE DocsTypes
  OBVIOUS
<1>1. DocsState
  BY DocsOpen DEF DocsState
<1>2. DocCallsFew
  <2>1. docCalls = {} \/ \E d : docCalls = {d}
    BY DocsOpen
  <2>2. IsFiniteSet({}) /\ Cardinality({}) = 0
    BY FS_EmptySet
  <2>3. \A d : IsFiniteSet({d}) /\ Cardinality({d}) = 1
    BY FS_Singleton
  <2>4. IsFiniteSet(docCalls) /\ Cardinality(docCalls) \in {0, 1}
    BY ONLY <2>1, <2>2, <2>3
  <2> QED BY <2>4, DocsConstants DEF DocCallsFew, Bounded
<1>3. LinesFew
  <2>1. CASE reading = [lines |-> <<>>, index |-> 1, blocks |-> <<>>]
    BY <2>1, DocsConstants DEF LinesFew
  <2>2. ASSUME NEW n \in 1 .. MaxLines, NEW lines \in [1 .. n -> Line],
               reading = [lines |-> lines, index |-> 1, blocks |-> <<>>]
        PROVE  LinesFew
    <3>1. lines \in Seq(Line) /\ Len(lines) = n
      BY DocsConstants
    <3> QED BY <2>2, <3>1, DocsConstants DEF LinesFew
  <2> QED BY <2>1, <2>2, DocsOpen
<1> QED BY <1>1, <1>2, <1>3 DEF DocsTypes

\* A request that is sent, whatever becomes of those under way.
LEMMA DocCallFew ==
  ASSUME NEW calls, NEW kind, NEW of, NEW slug,
         \A d : Bounded(calls \cup {d}, MaxDocCalls)
  PROVE  Bounded(DocCall(calls, kind, of, slug), MaxDocCalls)
BY DEF DocCall

LEMMA DocsTypesNext == ReadingInv /\ DocsTypes /\ [DocsNext]_docsVars => DocsTypes'
<1> SUFFICES ASSUME ReadingInv, DocsTypes, [DocsNext]_docsVars PROVE DocsTypes'
  OBVIOUS
<1>1. /\ docs = [q |-> docs.q, items |-> docs.items, doc |-> docs.doc, loading |-> docs.loading, error |-> docs.error]
      /\ docs.q \in DOMAIN Index /\ DocCallsFew /\ LinesFew
  BY DEF DocsTypes, DocsState
<1>2. /\ Bounded(docCalls, MaxDocCalls) /\ MaxDocCalls \in Nat
      /\ \A some \in SUBSET docCalls : Bounded(some, MaxDocCalls)
      /\ \A c \in docCalls : \A d : Bounded((docCalls \ {c}) \cup {d}, MaxDocCalls)
      /\ Cardinality(docCalls) < MaxDocCalls => \A d : Bounded(docCalls \cup {d}, MaxDocCalls)
  BY <1>1, BoundedOK, DocsConstants DEF DocCallsFew
<1>3. ASSUME UNCHANGED reading, DocsState', DocCallsFew' PROVE DocsTypes'
  BY <1>1, <1>3 DEF DocsTypes, LinesFew
<1>4. CASE ReadBlock
  <2>1. UNCHANGED <<docs, docCalls>>
    BY <1>4 DEF ReadBlock
  <2>2. reading'.lines = reading.lines
    BY <1>4 DEF ReadBlock, ReadCode, ReadTable, ReadList, ReadLine, SkipBlank, Block, ReadingInv, IsReading
  <2> QED BY <1>1, <2>1, <2>2 DEF DocsTypes, DocsState, DocCallsFew, LinesFew
<1>5. CASE SearchDocs
  <2> DEFINE moved(c) == IF c.kind = "selected" THEN c ELSE [c EXCEPT !.live = FALSE]
             f == [c \in docCalls |-> moved(c)]
             others == {f[c] : c \in docCalls}
  <2>1. PICK q \in DOMAIN Index :
          /\ docs' = [docs EXCEPT !.q = q, !.loading = TRUE, !.error = FALSE]
          /\ docCalls' = DocCall({moved(c) : c \in docCalls}, "list", q, docs.doc)
          /\ Cardinality(docCalls) < MaxDocCalls
    BY <1>5 DEF SearchDocs
  <2>2. {moved(c) : c \in docCalls} = others /\ DOMAIN f = docCalls
    OBVIOUS
  <2> HIDE DEF f
  <2>3. Bounded(others, MaxDocCalls) /\ Cardinality(others) <= Cardinality(docCalls)
    BY <1>2, <2>2, BoundedChanged
  <2> HIDE DEF others, moved
  <2>4. Cardinality(others) \in Nat /\ Cardinality(docCalls) \in Nat
    BY <1>2, <2>3 DEF Bounded
  <2>5. Cardinality(others) < MaxDocCalls
    BY <1>2, <2>1, <2>3, <2>4
  <2>6. \A d : Bounded(others \cup {d}, MaxDocCalls)
    BY <1>2, <2>3, <2>5, BoundedOK
  <2>7. DocCallsFew'
    BY <2>1, <2>2, <2>6, DocCallFew DEF DocCallsFew
  <2>8. DocsState'
    BY <1>1, <2>1 DEF DocsState
  <2> QED BY <1>3, <1>5, <2>7, <2>8 DEF SearchDocs
<1>6. CASE IndexAnswered
  <2>1. PICK c \in docCalls :
          \/ docCalls' = docCalls \ {c}
          \/ \E slug : docCalls' = DocCall(docCalls \ {c}, "first", c.of, slug)
    BY <1>6 DEF IndexAnswered
  <2>2. DocCallsFew'
    <3>1. CASE docCalls' = docCalls \ {c}
      BY <1>2, <3>1 DEF DocCallsFew
    <3>2. ASSUME NEW slug, docCalls' = DocCall(docCalls \ {c}, "first", c.of, slug) PROVE DocCallsFew'
      <4>1. \A d : Bounded((docCalls \ {c}) \cup {d}, MaxDocCalls)
        BY <1>2
      <4>2. Bounded(DocCall(docCalls \ {c}, "first", c.of, slug), MaxDocCalls)
        BY <4>1, DocCallFew
      <4> QED BY <3>2, <4>2 DEF DocCallsFew
    <3> QED BY <2>1, <3>1, <3>2
  <2>3. DocsState'
    BY <1>1, <1>6 DEF IndexAnswered, DocsState
  <2> QED BY <1>3, <1>6, <2>2, <2>3 DEF IndexAnswered
<1>7. CASE SelectDoc
  <2>1. PICK slug : docCalls' = DocCall(docCalls, "selected", docs.q, slug) /\ Cardinality(docCalls) < MaxDocCalls
    BY <1>7 DEF SelectDoc
  <2>2. DocCallsFew'
    BY <1>2, <2>1, DocCallFew DEF DocCallsFew
  <2>3. DocsState'
    BY <1>1, <1>7 DEF SelectDoc, DocsState
  <2> QED BY <1>3, <1>7, <2>2, <2>3 DEF SelectDoc
<1>8. CASE DocAnswered \/ DocFails
  <2>1. PICK c \in docCalls : docCalls' = docCalls \ {c}
    BY <1>8 DEF DocAnswered, DocFails
  <2>2. DocCallsFew'
    BY <1>2, <2>1 DEF DocCallsFew
  <2>3. DocsState'
    BY <1>1, <1>8 DEF DocAnswered, DocFails, DocsState
  <2> QED BY <1>3, <1>8, <2>2, <2>3 DEF DocAnswered, DocFails
<1>9. CASE UNCHANGED docsVars
  BY <1>1, <1>3, <1>9 DEF docsVars, DocsState, DocCallsFew
<1> QED BY <1>4, <1>5, <1>6, <1>7, <1>8, <1>9 DEF DocsNext

\* The search of the documentation is one that has an index, and no more requests
\* are under way than there may be (Documentation!DocsTypeOK).
THEOREM DocsTypeOKAlways == DocsSpec => []DocsTypeOK
<1>1. DocsTypes => DocsTypeOK
  BY DocsConstants DEF DocsTypes, DocsState, DocCallsFew, LinesFew, Bounded, DocsTypeOK
<1> QED BY <1>1, DocsTypesInit, DocsTypesNext, ReadingInvariant, PTL DEF DocsSpec

\* The model under review has logs, metrics and parameters (ModelPage!ModelTypeOK).
THEOREM ModelTypeOKAlways == ModelSpec => []ModelTypeOK
<1>1. review \in Models => ModelTypeOK
  BY FiguresAssumption DEF ModelTypeOK, ModelAssumption
<1> QED BY <1>1, ReviewedIsModelAlways, PTL
=============================================================================
