-------------------------- MODULE CatchUpProperties -------------------------
(***************************************************************************)
(* What the catch-up promises its administrator.  The observers record     *)
(* what the properties need to know of the past; no action reads them.     *)
(***************************************************************************)
EXTENDS CatchUp

VARIABLES
  cleared,   \* the cache was cleared since the last start
  after      \* batches written since the current thread was asked to stop

vars == <<cache, stop, status, thread, clearing, cleared, after>>

Observe ==
  /\ cleared' = (~(cache \subseteq cache') \/ (cleared /\ (Alive \/ ~Alive')))
  /\ after' = IF ~Alive' \/ ~stop THEN 0
              ELSE IF At("refresh") /\ At("report")' THEN after + 1 ELSE after

ObservedInit == Init /\ cleared = FALSE /\ after = 0

ObservedSpec == ObservedInit /\ [][Next /\ Observe]_vars

(* The thread is scheduled; nobody has to ask for anything. *)
FairSpec == ObservedSpec /\ WF_vars(ThreadStep /\ Observe)

\* A pass of the thread, taken for a survey of the range that it has not told yet.
Pass == INSTANCE Survey WITH
  Opens <- Minutes,
  held <- cache,
  at <- thread.cursor,
  until <- End,
  lacking <- thread.missing,
  answer <- {}
-----------------------------------------------------------------------------
\* A stop request lets the batch under way finish and no other: the event is
\* seen before the next one, in the repair pass too, and a new start cannot
\* clear it while the thread lives.
StopBoundsBatches == after <= 1

\* "completed" is true when it is reported and stays true until the cache is
\* cleared: no minute of the requested range is without a candle, whatever
\* the chunks of the discovery, the batches and the exchange's gaps were.
CompletedIsWhole == status.state = "completed" /\ ~cleared => cache = Minutes

\* A thread with work to do is visible to administrators: as long as it has
\* not settled, the status says running or stopping.
WorkIsReported == thread.pc \in ThreadPC \ {"none", "exiting"} => IsRunning

\* Every catch-up comes to an end, whatever the exchange delivers.
CatchUpEnds == Alive ~> ~Alive

\* What the stop request's event says: "Catch-up will stop after the current
\* batch" -- "stopping" is a state the status leaves again.
StoppingEnds == status.state = "stopping" ~> status.state # "stopping"

\* What the refusal of a clear request says: "Stop BTCUSDT catch-up before
\* clearing cached data." -- no candle goes while the thread is alive.
ClearWaitsForThread == [][Alive => cache \subseteq cache']_vars

\* While a pass scans, the thread looks at a further piece of the range as a survey
\* does, or it fails or is gone with its process: CatchUp has of the discovery what
\* GapDiscovery has been shown to implement.
ScansAreSurveys ==
  [][At("scan") => \/ Pass!Look \/ UNCHANGED thread
                   \/ At("failed")' \/ thread' = NoThread]_vars
=============================================================================
