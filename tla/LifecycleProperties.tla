------------------------ MODULE LifecycleProperties -------------------------
(***************************************************************************)
(* What holds of the experiment lifecycle under every interleaving of its  *)
(* requests, workers, crashes and expiries, and what the repository's      *)
(* documents and tests say of it that does not.                            *)
(***************************************************************************)
EXTENDS ExperimentLifecycle

-----------------------------------------------------------------------------
(* Safety. *)

\* A worker gets past validation only with an experiment whose create
\* transaction was committed, although its job is visible before that.
RunsHaveCommittedRows ==
  \A w \in Workers : worker[w].pc \in {"mark", "check", "persist", "complete"}
    => row[ExpOf(w)].status \in RowStatus \cup {"deleted"}

\* No late worker, cancellation, retry or reconciliation brings back a row
\* that was deleted or never committed.
NoResurrection ==
  [][\A e \in Experiments : row[e].status \in {"deleted", "rolledback"}
       => row'[e].status = row[e].status]_sysVars

\* Each job is executed at most once, by one worker at a time, and never
\* after it was withdrawn: the queue and its workers implement
\* AtMostOnceExecution.
Executing == {<<worker[w].job, w>> : w \in {v \in Workers : worker[v].pc \notin {"idle", "begin"}}}

Execution == INSTANCE AtMostOnceExecution WITH
  waiting <- {j \in Jobs : job[j].status \in {"queued", "dequeued"}},
  running <- Executing,
  settled <- {j \in Jobs : /\ job[j].status \notin {"unused", "queued", "dequeued"}
                           /\ \A w \in Workers : <<j, w>> \notin Executing}

ExecutesAtMostOnce == Execution!Spec

-----------------------------------------------------------------------------
(* Why it holds: the inductive invariant of LifecycleProofs, in parts. *)

\* A job that was ever enqueued names an experiment whose row was inserted.
JobsNameExperiments ==
  \A j \in Jobs : job[j].status # "unused" =>
    job[j].exp \in Experiments /\ row[job[j].exp].status # "unused"

\* A busy worker holds the one job it took, which nobody else moves.
WorkersHoldTheirJobs ==
  /\ \A w \in Workers :
       \/ worker[w].pc = "idle"  /\ worker[w].job = NoJob
       \/ worker[w].pc = "begin" /\ worker[w].job \in Jobs
                                /\ job[worker[w].job].status = "dequeued"
       \/ worker[w].pc \notin {"idle", "begin"} /\ worker[w].job \in Jobs
                                              /\ job[worker[w].job].status = "started"
  /\ \A v, w \in Workers : worker[v].job = worker[w].job /\ worker[v].job # NoJob => v = w

\* A request works on an experiment that exists or existed, and acts on a job.
RequestsHaveTargets ==
  \A r \in Requests :
    /\ req[r].pc # "idle" =>
         req[r].exp \in Experiments /\ row[req[r].exp].status # "unused"
    /\ req[r].pc \in {"create_key", "create_commit", "retry_key", "retry_commit",
                      "map_fetch", "job_row", "job_check", "act", "unmap"} => req[r].job \in Jobs

\* An open create transaction is the only one that knows its row.
CreatesAreOpen ==
  /\ \A r \in Requests : req[r].pc \in {"create_key", "create_commit"} =>
       row[req[r].exp].status = "uncommitted"
  /\ \A q, r \in Requests :
       /\ {req[q].pc, req[r].pc} \subseteq {"create_key", "create_commit"}
       /\ req[q].exp = req[r].exp
       => q = r

\* Every step keeps all of this: a job belongs to at most one worker and one
\* inserted row, and only its creator can decide an uncommitted row.
LifecycleInv ==
  /\ TypeOK
  /\ JobsNameExperiments
  /\ WorkersHoldTheirJobs
  /\ RequestsHaveTargets
  /\ CreatesAreOpen
  /\ RunsHaveCommittedRows

-----------------------------------------------------------------------------
(* Liveness. *)

(* Fairness: the worker process keeps working (worker.work()), a request   *)
(* that was accepted is carried through, Redis expires the mapping key     *)
(* after its TTL, RQ cleans its registries, and the owner's detail view,   *)
(* which reloads every three seconds while the experiment is active, keeps *)
(* asking.  A crash, an exception, a stop command and every other user     *)
(* request may or may not happen.                                          *)
Fairness ==
  /\ \A w \in Workers : WF_sysVars(\E j \in Jobs : TakeJob(w, j))
  /\ \A w \in Workers : WF_sysVars(WorkerStep(w))
  /\ \A r \in Requests : WF_sysVars(RequestStep(r))
  /\ \A j \in Jobs : WF_sysVars(AbandonJob(j))
  /\ \A e \in Experiments :
       WF_sysVars(ExpireMapping(e) /\ UNCHANGED <<row, worker, req>>)
  /\ \A e \in Experiments : SF_sysVars(\E r \in Requests : ListRead(r, e))

FairSpec == Init /\ [][Next]_sysVars /\ Fairness

\* No experiment stays Queued or Running for ever: its run ends, or its job
\* is lost to every lookup and the next list request fails it.
EventuallySettled ==
  \A e \in Experiments :
    row[e].status \in ActiveStatus ~> row[e].status \notin ActiveStatus

-----------------------------------------------------------------------------
(* What the repository's documents and tests say, and the code does not.   *)

\* docs/experiment-workflow.md: "`Cancelled`: stopped by a user or system
\* action" -- a cancelled experiment that nobody retries stays stopped.
CancelledStaysStopped ==
  [][\A e \in Experiments :
       row[e].status = "Cancelled" => row'[e].status \notin {"Running", "Completed"}]_sysVars

\* tests/test_job_cancellation_strategy.py: after the job route cancelled a
\* queued job, the experiment's status is Cancelled.
JobCancelMarksRow ==
  [][\A r \in Requests :
       /\ ReqAt(r, "mark_cancelled") /\ req[r].op = "jobcancel"
       /\ ReqAt(r, "idle")' /\ row'[req[r].exp].status \in RowStatus
       => row'[req[r].exp].status = "Cancelled"]_sysVars

\* enqueue asks RQ for two retries of a failed attempt, and its test asserts
\* it: a scheduled job is tried again.
FailedAttemptIsRetried ==
  \A j \in Jobs : job[j].status = "scheduled" ~> job[j].status # "scheduled"
=============================================================================
