--------------------------- MODULE LookupProperties -------------------------
(***************************************************************************)
(* What the queue lookups of concurrent API requests get right: the        *)
(* observer records, for every lookup, which jobs it had no excuse to      *)
(* miss.  No action reads it.                                              *)
(***************************************************************************)
EXTENDS LifecycleProperties

VARIABLE watch   \* per lookup: the jobs of its experiment visible ever since it began

VisibleFor(e) == QueuedFor(e) \cup StartedFor(e)

LookupPC == {"map_get", "map_fetch", "scan_queued", "scan_started", "fetch", "reconcile"}

ObserveLookups ==
  watch' = [r \in Requests |->
              IF req'[r].pc \notin LookupPC THEN {}
              ELSE IF ReqAt(r, "idle") THEN VisibleFor(req[r].exp)'
              ELSE watch[r] \cap VisibleFor(req[r].exp)']

LookupSpec ==
  /\ Init /\ watch = [r \in Requests |-> {}]
  /\ [][Next /\ ObserveLookups]_<<job, mapping, stopping, row, worker, req, watch>>

\* A list request marks an experiment as failed for want of a job only if
\* there was a moment since it began to look at which no job of the
\* experiment was queued or started: the lookup cannot miss a job that moves
\* from its list to the started registry while it reads them.
ReconcileOnlyAfterGap ==
  \A r \in Requests : ReqAt(r, "reconcile") => watch[r] = {}

=============================================================================
