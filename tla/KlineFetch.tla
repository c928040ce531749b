----------------------------- MODULE KlineFetch -----------------------------
(***************************************************************************)
(* A refresh of the candle cache, page by page                             *)
(* (app/infrastructure/binance/kline_client.py, refresh_btcusdt_1m in      *)
(* app/services/market_data_service.py, upsert_klines in                   *)
(* app/repositories/market_data_repository.py), by the catch-up's thread   *)
(* and by scripts, while the market trades.                                *)
(*                                                                         *)
(* Times are ticks; the candle m is of the time from m * Span up to the    *)
(* next.  It is there from its first trade on, changes until its minute is *)
(* over, and never comes to be if nothing was traded.  Of the prices it is *)
(* enough to know whether they are those of the whole minute.              *)
(***************************************************************************)
EXTENDS Naturals, FiniteSets, FiniteSetsExt

CONSTANTS
  Refreshers,   \* the thread and the scripts that refresh
  Span,         \* ticks in a minute
  Limit,        \* candles in a page
  MaxRetries,   \* attempts at one page
  MaxClock      \* a bound of the clock

ASSUME FetchAssumption ==
  /\ {Span, Limit, MaxRetries} \subseteq Nat \ {0}
  /\ MaxClock \in Nat

VARIABLES
  clock,
  offered,   \* the exchange: minutes that have a candle
  candles,   \* rows of the table, by minute
  refresh    \* what each refresh has fetched

fetchVars == <<clock, offered, candles, refresh>>

CandleMinutes == 0 .. MaxClock \div Span
Prices == {"provisional", "final"}
NoRow == "none"

Idle == [pc |-> "idle"]

\* "asked" is the time it began, of which properties speak and no step,
\* "fetched" the list's length, and "rows" are its candles by minute.
RefreshRecord ==
  [pc: {"page", "store"}, asked: 0 .. MaxClock, start: 0 .. MaxClock, end: 0 .. MaxClock,
   cursor: 0 .. MaxClock + 2 * Span, attempt: 1 .. MaxRetries, fetched: Nat, rows: [CandleMinutes -> Prices \cup {NoRow}]]

FetchTypeOK ==
  /\ clock \in 0 .. MaxClock
  /\ offered \in SUBSET CandleMinutes
  /\ candles \in [CandleMinutes -> Prices \cup {NoRow}]
  /\ refresh \in [Refreshers -> RefreshRecord \cup {Idle}]

FetchInit ==
  /\ clock = 0
  /\ offered = {}
  /\ candles = [m \in CandleMinutes |-> NoRow]
  /\ refresh = [f \in Refreshers |-> Idle]
-----------------------------------------------------------------------------
(* The exchange. *)

Tick ==
  /\ clock < MaxClock
  /\ clock' = clock + 1
  /\ UNCHANGED <<offered, candles, refresh>>

Trade ==
  /\ clock \div Span \notin offered
  /\ offered' = offered \cup {clock \div Span}
  /\ UNCHANGED <<clock, candles, refresh>>

Price(m) == IF (m + 1) * Span <= clock THEN "final" ELSE "provisional"

\* A page: the first candles, of those that open from one time to another.
Page(from, to) ==
  LET inRange == {m \in offered : from <= m * Span /\ m * Span <= to} IN
    {m \in inRange : Cardinality({k \in inRange : k < m}) < Limit}
-----------------------------------------------------------------------------
(* A refresh. *)

IsAt(f, pc) == refresh[f].pc = pc

Set(f, record) == refresh' = [refresh EXCEPT ![f] = record]

\* A range is refused unless its start is earlier than its end, which may be
\* in the future.
Ask(f) ==
  /\ IsAt(f, "idle")
  /\ \E start, end \in 0 .. MaxClock :
       /\ start < end
       /\ Set(f, [pc |-> "page", asked |-> clock, start |-> start, end |-> end, cursor |-> start, attempt |-> 1,
                  fetched |-> 0, rows |-> [m \in CandleMinutes |-> NoRow]])
  /\ UNCHANGED <<clock, offered, candles>>

\* As a bug would have it: a minute is left out.
NextCursorBeyond(page) == (Max(page) + 2) * Span

NextCursor(page) == (Max(page) + 1) * Span

\* The loop ends with an empty page, past the end, or where it does not move on.
IsLast(f, page) ==
  \/ page = {}
  \/ NextCursor(page) <= refresh[f].cursor
  \/ NextCursor(page) > refresh[f].end

FetchPage(f) ==
  /\ IsAt(f, "page")
  /\ LET page == Page(refresh[f].cursor, refresh[f].end) IN
       Set(f, [refresh[f] EXCEPT
         !.pc = IF IsLast(f, page) THEN "store" ELSE "page",
         !.cursor = IF page = {} THEN @ ELSE NextCursor(page),
         !.attempt = 1,
         !.fetched = @ + Cardinality(page),
         !.rows = [m \in CandleMinutes |-> IF m \in page THEN Price(m) ELSE @[m]]])
  /\ UNCHANGED <<clock, offered, candles>>

\* As bugs would have it: the attempts are one too many, they begin anew.
RetryOnceMore(f) ==
  /\ IsAt(f, "page")
  /\ refresh[f].attempt <= MaxRetries
  /\ Set(f, [refresh[f] EXCEPT !.attempt = @ + 1])
  /\ UNCHANGED <<clock, offered, candles>>

RetryAnew(f) ==
  /\ IsAt(f, "page")
  /\ Set(f, [refresh[f] EXCEPT !.attempt = IF @ < MaxRetries THEN @ + 1 ELSE 1])
  /\ UNCHANGED <<clock, offered, candles>>

\* A request that failed is made again, for the same page.
Retry(f) ==
  /\ IsAt(f, "page")
  /\ refresh[f].attempt < MaxRetries
  /\ Set(f, [refresh[f] EXCEPT !.attempt = @ + 1])
  /\ UNCHANGED <<clock, offered, candles>>

\* The last attempt fails, a row is malformed, or the database fails: no page
\* is kept.
FetchFails(f) ==
  /\ ~IsAt(f, "idle")
  /\ Set(f, Idle)
  /\ UNCHANGED <<clock, offered, candles>>

\* As a bug would have it: a row that is there is left as it is.
UpsertMissing(f) ==
  /\ IsAt(f, "store")
  /\ candles' = [m \in CandleMinutes |-> IF candles[m] # NoRow THEN candles[m] ELSE refresh[f].rows[m]]
  /\ Set(f, Idle)
  /\ UNCHANGED <<clock, offered>>

\* One transaction for all pages; a row that is there gets the new prices.
Upsert(f) ==
  /\ IsAt(f, "store")
  /\ candles' = [m \in CandleMinutes |-> IF refresh[f].rows[m] = NoRow THEN candles[m]
                                 ELSE refresh[f].rows[m]]
  /\ Set(f, Idle)
  /\ UNCHANGED <<clock, offered>>

\* The administrator clears the cache.
Clear ==
  /\ candles' = [m \in CandleMinutes |-> NoRow]
  /\ UNCHANGED <<clock, offered, refresh>>

Proceed(f) == FetchPage(f) \/ Retry(f) \/ FetchFails(f) \/ Upsert(f)

FetchNext == Tick \/ Trade \/ Clear \/ \E f \in Refreshers : Ask(f) \/ Proceed(f)

FetchSpec == FetchInit /\ [][FetchNext]_fetchVars

\* A refresh that was begun is carried on: its calls return or raise.
FairFetchSpec == FetchSpec /\ \A f \in Refreshers : WF_fetchVars(Proceed(f))
-----------------------------------------------------------------------------
\* Whatever the limit of a page, the minutes without a trade, and the bounds
\* of a range are, paging leaves out no candle and fetches none twice, at the
\* seam of two pages or because it changed meanwhile: when it ends, it has all
\* that the exchange then has in the range, those that came while it paged too,
\* and the number fetched that the refresh reports is that of its rows.
FetchedIsWhole ==
  [][\A f \in Refreshers : IsAt(f, "page") /\ IsAt(f, "store")' =>
       /\ \A m \in offered :
            refresh[f].start <= m * Span /\ m * Span <= refresh[f].end => refresh'[f].rows[m] # NoRow
       /\ refresh'[f].fetched =
            Cardinality({m \in CandleMinutes : refresh'[f].rows[m] # NoRow})]_fetchVars

\* Every refresh ends, whatever the exchange delivers, although its range may
\* reach into the future and candles arrive while it pages.
RefreshesEnd == \A f \in Refreshers : ~IsAt(f, "idle") ~> IsAt(f, "idle")

\* A refresh repairs what an earlier one stored of a minute that was not yet
\* over: it leaves the prices of the whole minute in every row of its range
\* whose minute was over when it began.
RefreshRepairs ==
  [][\A f \in Refreshers : Upsert(f) =>
       \A m \in offered :
         /\ refresh[f].start <= m * Span /\ m * Span <= refresh[f].end
         /\ (m + 1) * Span <= refresh[f].asked
         => candles'[m] = "final"]_fetchVars

\* A refresh writes no row outside the range it was asked for: what CatchUp says of
\* the batches of its thread and of the scripts.
StoresOnlyAsked ==
  [][\A m \in CandleMinutes : candles[m] = NoRow /\ candles'[m] # NoRow =>
       \E f \in Refreshers : Upsert(f) /\ m * Span \in refresh[f].start .. refresh[f].end]_fetchVars
=============================================================================
