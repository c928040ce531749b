------------------------------- MODULE CatchUp ------------------------------
(***************************************************************************)
(* The administrator's catch-up of the BTCUSDT candle cache                *)
(* (app/controllers/market_data_controller.py): one background thread, the *)
(* stop event, the status dictionary under its lock, and the requests that *)
(* start it, stop it and clear the cache.                                  *)
(*                                                                         *)
(* The thread makes three passes.  Each discovers the missing minutes by   *)
(* reading the cache chunk by chunk; the first two then refresh them batch *)
(* by batch, and the third decides what is reported.  A list of disjoint   *)
(* ranges in ascending order is the set of the minutes it covers: the next *)
(* range starts at the least of them and ends at the first one not in it.  *)
(***************************************************************************)
EXTENDS Naturals, FiniteSetsExt

CONSTANTS
  End,         \* the minutes to have are 0 .. End - 1: the requested end is exclusive
  ScanChunk,   \* minutes read by one query of a discovery
  Window       \* minutes refreshed by one batch

ASSUME CatchUpAssumption == {End, ScanChunk, Window} \subseteq Nat \ {0}

Minutes == 0 .. End - 1

VARIABLES
  cache,      \* minutes that have a candle row
  stop,       \* the event _catch_up_stop
  status,     \* _catch_up_status
  thread,     \* the catch-up thread: where it is and what it has found
  clearing    \* a clear request found no live thread and has not deleted yet

catchUpVars == <<cache, stop, status, thread, clearing>>

ThreadPC == {"none", "scan", "check", "refresh", "report",
             "stopped", "completed", "incomplete", "failed", "exiting"}

State == {"idle", "running", "stopping", "stopped", "completed", "error"}

NoThread == [pc |-> "none", pass |-> 1, cursor |-> 0, missing |-> {}]

ThreadRecord == [pc: ThreadPC, pass: 1..3, cursor: 0..End, missing: SUBSET Minutes]

StatusRecord == [state: State, hasMore: BOOLEAN]

TypeOK ==
  /\ cache \in SUBSET Minutes
  /\ stop \in BOOLEAN
  /\ status \in StatusRecord
  /\ thread \in ThreadRecord
  /\ clearing \in BOOLEAN

IdleStatus == [state |-> "idle", hasMore |-> FALSE]

Init ==
  /\ cache \in SUBSET Minutes
  /\ stop = FALSE
  /\ status = IdleStatus
  /\ thread = NoThread
  /\ clearing = FALSE

Alive == thread.pc # "none"

\* What a status request reports.
IsRunning == status.state \in {"running", "stopping"}
-----------------------------------------------------------------------------
(* Requests. *)

\* A start request that finds the thread alive only reports the status.
Start ==
  /\ ~Alive
  /\ stop' = FALSE
  /\ status' = [state |-> "running", hasMore |-> TRUE]
  /\ thread' = [NoThread EXCEPT !.pc = "scan"]
  /\ UNCHANGED <<cache, clearing>>

\* As a bug would have it: the request reports its outcome itself.
RequestStopEagerly ==
  /\ Alive
  /\ stop' = TRUE
  /\ status' = [status EXCEPT !.state = "stopped"]
  /\ UNCHANGED <<cache, thread, clearing>>

RequestStop ==
  /\ Alive
  /\ stop' = TRUE
  /\ status' = [status EXCEPT !.state = "stopping"]
  /\ UNCHANGED <<cache, thread, clearing>>

\* A clear request looks for a live thread under the lock and deletes after
\* it has released it.
ClearCheck ==
  /\ ~Alive
  /\ clearing' = TRUE
  /\ UNCHANGED <<cache, stop, status, thread>>

ClearDelete ==
  /\ clearing
  /\ cache' = {}
  /\ clearing' = FALSE
  /\ UNCHANGED <<stop, status, thread>>

ClearFail ==
  /\ clearing
  /\ clearing' = FALSE
  /\ UNCHANGED <<cache, stop, status, thread>>
-----------------------------------------------------------------------------
(* The thread: _run_catch_up_until_current. *)

At(pc) == thread.pc = pc

\* As a bug would have it: the last chunk is as long as the others.
ScanEndUnclamped == thread.cursor + ScanChunk

ScanEnd == IF thread.cursor + ScanChunk < End THEN thread.cursor + ScanChunk ELSE End

\* As a bug would have it: the last minute of a chunk is left to nobody.
ScanShort ==
  /\ At("scan")
  /\ thread' = [thread EXCEPT !.cursor = ScanEnd,
                              !.missing = @ \cup ((thread.cursor .. ScanEnd - 2) \ cache),
                              !.pc = IF ScanEnd < End THEN "scan" ELSE "check"]
  /\ UNCHANGED <<cache, stop, status, clearing>>

\* discover_missing_btcusdt_1m_ranges reads one chunk of timestamps.
Scan ==
  /\ At("scan")
  /\ thread' = [thread EXCEPT !.cursor = ScanEnd,
                              !.missing = @ \cup ((thread.cursor .. ScanEnd - 1) \ cache),
                              !.pc = IF ScanEnd < End THEN "scan" ELSE "check"]
  /\ UNCHANGED <<cache, stop, status, clearing>>

NextPass ==
  thread' = [thread EXCEPT !.pc = "scan", !.pass = @ + 1, !.cursor = 0, !.missing = {}]

\* As a bug would have it: only the first pass looks at the event.
CheckFirstPassOnly ==
  /\ At("check")
  /\ thread.pass < 3
  /\ \/ thread.missing = {} /\ NextPass
     \/ thread.missing # {} /\ thread' = [thread EXCEPT !.pc =
          IF stop /\ thread.pass = 1 THEN "stopped" ELSE "refresh"]
  /\ UNCHANGED <<cache, stop, status, clearing>>

\* process_ranges looks at the event before every batch; a pass that has
\* nothing left to refresh is over and does not look.
Check ==
  /\ At("check")
  /\ thread.pass < 3
  /\ \/ thread.missing = {} /\ NextPass
     \/ thread.missing # {} /\ thread' = [thread EXCEPT !.pc = IF stop THEN "stopped" ELSE "refresh"]
  /\ UNCHANGED <<cache, stop, status, clearing>>

\* The third discovery is only looked at.
Decide ==
  /\ At("check")
  /\ thread.pass = 3
  /\ thread' = [thread EXCEPT !.pc = IF thread.missing = {} THEN "completed" ELSE "incomplete"]
  /\ UNCHANGED <<cache, stop, status, clearing>>

BatchStart == Min(thread.missing)
RangeEnd   == Min({m \in BatchStart .. End : m \notin thread.missing})
BatchEnd   == IF BatchStart + Window < RangeEnd THEN BatchStart + Window ELSE RangeEnd

\* refresh_btcusdt_1m: the exchange answers for both ends of the batch, with
\* the candles it has; their upsert is one transaction.
Refresh ==
  /\ At("refresh")
  /\ \E fetched \in SUBSET ((BatchStart .. BatchEnd) \cap Minutes) : cache' = cache \cup fetched
  /\ thread' = [thread EXCEPT !.pc = "report"]
  /\ UNCHANGED <<stop, status, clearing>>

\* As a bug would have it: the loop variable is not advanced.
ReportInPlace ==
  /\ At("report")
  /\ status' = [state |-> "running", hasMore |-> BatchEnd < End]
  /\ thread' = [thread EXCEPT !.pc = "check"]
  /\ UNCHANGED <<cache, stop, clearing>>

\* The progress report says "running" whatever was requested meanwhile.
Report ==
  /\ At("report")
  /\ status' = [state |-> "running", hasMore |-> BatchEnd < End]
  /\ thread' = [thread EXCEPT !.pc = "check", !.missing = @ \ (BatchStart .. BatchEnd - 1)]
  /\ UNCHANGED <<cache, stop, clearing>>

\* The exchange or the database fails.
Fail ==
  /\ At("scan") \/ At("refresh")
  /\ thread' = [thread EXCEPT !.pc = "failed"]
  /\ UNCHANGED <<cache, stop, status, clearing>>

Outcome ==
  CASE At("stopped")    -> [state |-> "stopped", hasMore |-> TRUE]
    [] At("completed")  -> [state |-> "completed", hasMore |-> FALSE]
    [] At("incomplete") -> [state |-> "error", hasMore |-> TRUE]
    [] At("failed")     -> [status EXCEPT !.state = "error"]

Settle ==
  /\ thread.pc \in {"stopped", "completed", "incomplete", "failed"}
  /\ status' = Outcome
  /\ thread' = [thread EXCEPT !.pc = "exiting"]
  /\ UNCHANGED <<cache, stop, clearing>>

\* is_alive() turns false some time after the last statement.
Exit ==
  /\ At("exiting")
  /\ thread' = NoThread
  /\ UNCHANGED <<cache, stop, status, clearing>>
-----------------------------------------------------------------------------
(* Around it. *)

\* The refresh and ingest scripts write windows of candles from processes of
\* their own.
ScriptRefresh ==
  /\ \E fetched \in SUBSET Minutes : cache' = cache \cup fetched
  /\ UNCHANGED <<stop, status, thread, clearing>>

\* The backend process restarts: the daemon thread, its status and the
\* requests are gone, the cache is not.
Restart ==
  /\ stop' = FALSE
  /\ status' = IdleStatus
  /\ thread' = NoThread
  /\ clearing' = FALSE
  /\ UNCHANGED cache

ThreadStep == Scan \/ Check \/ Decide \/ Refresh \/ Report \/ Settle \/ Exit

Next ==
  \/ Start \/ RequestStop \/ ClearCheck \/ ClearDelete \/ ClearFail
  \/ ThreadStep \/ Fail
  \/ ScriptRefresh \/ Restart

Spec == Init /\ [][Next]_catchUpVars
=============================================================================
