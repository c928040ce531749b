------------------------ MODULE ExperimentLifecycle -------------------------
(***************************************************************************)
(* One experiment's life: its row, the RQ jobs that execute it, the worker *)
(* processes, and the API requests that create, list, cancel, retry and    *)
(* delete it, all interleaved.                                             *)
(*                                                                         *)
(* A step is one UnitOfWork (a database transaction of READ COMMITTED with *)
(* no row locks) or one call to Redis.  A repository method that loads a   *)
(* row and writes one column of it takes effect when it writes (or, if the *)
(* column already has that value, when it loads), so a UnitOfWork that     *)
(* only calls mark_* is one step on Status.  A handler that reads the row  *)
(* in one UnitOfWork, or calls Redis inside one, is several steps, and     *)
(* keeps what it read in its request record.                               *)
(***************************************************************************)
EXTENDS JobQueue, Naturals

CONSTANTS
  Workers,    \* RQ worker processes; start_app.sh starts one
  Requests,   \* slots for API requests handled at the same time
  Endpoints,  \* the operations clients call, of those of RequestOp, and "delete"
  NPerms      \* parameter permutations of an experiment

ASSUME LifecycleAssumption == NPerms \in Nat \ {0}

Perms == 1..NPerms

VARIABLES
  row,      \* the Experiment row and the permutations that have log rows
  worker,   \* what each worker process executes, and where it is
  req       \* what each request has read, and where it is

sysVars == <<job, mapping, stopping, row, worker, req>>

-----------------------------------------------------------------------------
(* Types. *)

ActiveStatus    == {"Queued", "Running"}
RetryableStatus == {"Failed", "Cancelled"}
RowStatus       == ActiveStatus \cup RetryableStatus \cup {"Completed"}

\* Without a committed row an experiment id is unused, held by an open create
\* transaction, lost with a rolled back one, or deleted.
NoRowStatus == {"unused", "uncommitted", "rolledback", "deleted"}

WorkerPC == {"idle", "begin", "validate", "mark", "check", "persist",
             "complete", "result", "fail", "return", "raise"}

RequestPC == {"idle", "create_key", "create_commit",
              "retry_enqueue", "retry_key", "retry_commit",
              "map_get", "map_fetch", "scan_queued", "scan_started", "fetch",
              "reconcile", "job_row", "job_check", "act", "unmap", "mark_cancelled"}

RequestOp == {"none", "create", "retry", "refresh", "cancel", "jobcancel"}

IdleWorker == [pc |-> "idle", job |-> NoJob, perm |-> 1]

IdleRequest == [pc |-> "idle", op |-> "none", exp |-> NoExperiment, job |-> NoJob,
                state |-> "none", active |-> FALSE, seen |-> {}]

RowRecord == [status: RowStatus \cup NoRowStatus, logs: SUBSET Perms]

WorkerRecord == [pc: WorkerPC, job: Jobs \cup {NoJob}, perm: Perms]

RequestRecord == [pc: RequestPC, op: RequestOp, exp: Experiments \cup {NoExperiment},
                  job: Jobs \cup {NoJob}, state: JobState \cup {"none"},
                  active: BOOLEAN, seen: SUBSET Jobs]

TypeOK ==
  /\ QueueTypeOK
  /\ row \in [Experiments -> RowRecord]
  /\ worker \in [Workers -> WorkerRecord]
  /\ req \in [Requests -> RequestRecord]

Init ==
  /\ QueueInit
  /\ row = [e \in Experiments |-> [status |-> "unused", logs |-> {}]]
  /\ worker = [w \in Workers |-> IdleWorker]
  /\ req = [r \in Requests |-> IdleRequest]

-----------------------------------------------------------------------------
(* ExperimentRepository: every mark_* overwrites the status it finds and   *)
(* does nothing without a row.                                             *)

RowExists(e) == row[e].status \in RowStatus

\* As a bug would have it: the mark is an upsert.
MarkStatusUpsert(e, status) == row' = [row EXCEPT ![e].status = status]

MarkStatus(e, status) ==
  row' = IF RowExists(e) THEN [row EXCEPT ![e].status = status] ELSE row

-----------------------------------------------------------------------------
(* The worker: handle_experiment_job around DefaultExperimentExecutor.run. *)

ExpOf(w) == job[worker[w].job].exp

At(w, pc) == worker[w].pc = pc

Goto(w, pc) == worker' = [worker EXCEPT ![w].pc = pc]

\* The executor is left; its loop index is gone.
GotoEnd(w, pc) == worker' = [worker EXCEPT ![w].pc = pc, ![w].perm = 1]

\* RQ gives an idle worker a waiting job ...
TakeJob(w, j) ==
  /\ At(w, "idle")
  /\ Dequeue(j)
  /\ worker' = [worker EXCEPT ![w] = [pc |-> "begin", job |-> j, perm |-> 1]]
  /\ UNCHANGED <<row, req>>

\* ... and registers it as started before it calls the handler.
BeginJob(w) ==
  /\ At(w, "begin")
  /\ Register(worker[w].job)
  /\ Goto(w, "validate")
  /\ UNCHANGED <<row, req>>

\* As a bug would have it: the payload alone is validated, not the row.
ValidatePayloadOnly(w) ==
  /\ At(w, "validate")
  /\ Goto(w, "mark")
  /\ UNCHANGED <<job, mapping, stopping, row, req>>

\* _validate_experiment_payload: without a committed row the payload error
\* leaves the handler and nothing is marked.
ValidatePayload(w) ==
  /\ At(w, "validate")
  /\ Goto(w, IF RowExists(ExpOf(w)) THEN "mark" ELSE "raise")
  /\ UNCHANGED <<job, mapping, stopping, row, req>>

\* mark_running and the read that follows it, whatever the status was.
MarkRunning(w) ==
  /\ At(w, "mark")
  /\ MarkStatus(ExpOf(w), "Running")
  /\ Goto(w, IF RowExists(ExpOf(w)) THEN "check" ELSE "fail")
  /\ UNCHANGED <<job, mapping, stopping, req>>

\* As a bug would have it: the check is hoisted out of the loop.
CheckCancelledOnce(w) ==
  /\ At(w, "check")
  /\ IF row[ExpOf(w)].status = "Cancelled" /\ worker[w].perm = 1
     THEN GotoEnd(w, "return") ELSE Goto(w, "persist")
  /\ UNCHANGED <<job, mapping, stopping, row, req>>

\* check_cancelled at the top of a permutation; the first one also stands
\* for those of the preparation before it.  No row is not a cancellation.
CheckCancelled(w) ==
  /\ At(w, "check")
  /\ IF row[ExpOf(w)].status = "Cancelled" THEN GotoEnd(w, "return") ELSE Goto(w, "persist")
  /\ UNCHANGED <<job, mapping, stopping, row, req>>

AfterPermShort(w, k) ==
  worker' = [worker EXCEPT ![w] = IF k + 1 < NPerms THEN [@ EXCEPT !.pc = "check", !.perm = k + 1]
                                                    ELSE [@ EXCEPT !.pc = "complete"]]

\* The permutation loop goes on after permutation k, or is left.
AfterPerm(w, k) ==
  worker' = [worker EXCEPT ![w] = IF k < NPerms THEN [@ EXCEPT !.pc = "check", !.perm = k + 1]
                                                ELSE [@ EXCEPT !.pc = "complete"]]

\* Training, evaluation and backtest of a permutation end in persist_logs,
\* which returns silently when the experiment's models are gone.
PersistPermutation(w) ==
  LET e == ExpOf(w)
      k == worker[w].perm
  IN  /\ At(w, "persist")
      /\ row' = IF RowExists(e) THEN [row EXCEPT ![e].logs = @ \cup {k}] ELSE row
      /\ AfterPerm(w, k)
      /\ UNCHANGED <<job, mapping, stopping, req>>

\* The executor has returned; nothing reads the status again.  What follows the
\* commit, counting the rows of the result, is inside the handler's try.
MarkCompleted(w) ==
  /\ At(w, "complete")
  /\ MarkStatus(ExpOf(w), "Completed")
  /\ GotoEnd(w, "result")
  /\ UNCHANGED <<job, mapping, stopping, req>>

\* Any exception of mark_running, of the executor, of mark_completed or of what
\* follows it; RQ's job timeout is one that any statement may raise.
Raise(w) ==
  /\ worker[w].pc \in {"mark", "check", "persist", "complete", "result"}
  /\ GotoEnd(w, "fail")
  /\ UNCHANGED <<job, mapping, stopping, row, req>>

\* As a bug would have it: a failed attempt is reported as waiting again.
MarkFailedAsQueued(w) ==
  /\ At(w, "fail")
  /\ MarkStatus(ExpOf(w), "Queued")
  /\ Goto(w, "raise")
  /\ UNCHANGED <<job, mapping, stopping, req>>

\* An exception leaves the handler unmarked: it has no experiment_id yet, it is
\* marking the failure, it answers that it was cancelled, or it has returned and
\* RQ's timeout still runs.
RaiseUnmarked(w) ==
  /\ worker[w].pc \in {"validate", "fail", "result", "return"}
  /\ Goto(w, "raise")
  /\ UNCHANGED <<job, mapping, stopping, row, req>>

MarkFailed(w) ==
  /\ At(w, "fail")
  /\ MarkStatus(ExpOf(w), "Failed")
  /\ Goto(w, "raise")
  /\ UNCHANGED <<job, mapping, stopping, req>>

\* The handler returns, completed or cancelled: RQ files the job as finished.
ReturnResult(w) ==
  /\ worker[w].pc \in {"result", "return"}
  /\ Leave(worker[w].job, "finished")
  /\ worker' = [worker EXCEPT ![w] = IdleWorker]
  /\ UNCHANGED <<row, req>>

\* The handler raised and retries are left: RQ schedules the job.
ScheduleRetry(w) ==
  /\ At(w, "raise")
  /\ Leave(worker[w].job, "scheduled")
  /\ worker' = [worker EXCEPT ![w] = IdleWorker]
  /\ UNCHANGED <<row, req>>

\* The stop command arrives: RQ kills the process that executes the job.
StopJob(w) ==
  /\ ~At(w, "idle")
  /\ worker[w].job \in stopping
  /\ Leave(worker[w].job, "stopped")
  /\ worker' = [worker EXCEPT ![w] = IdleWorker]
  /\ UNCHANGED <<row, req>>

\* A worker process dies and is started again; its job stays registered
\* until RQ's registry clean-up finds no heartbeat for it.
CrashWorker(w) ==
  /\ ~At(w, "idle")
  /\ worker' = [worker EXCEPT ![w] = IdleWorker]
  /\ UNCHANGED <<job, mapping, stopping, row, req>>

AbandonJob(j) ==
  /\ job[j].status \in {"dequeued", "started"}
  /\ \A w \in Workers : worker[w].job # j
  /\ Leave(j, "scheduled")
  /\ UNCHANGED <<row, worker, req>>

-----------------------------------------------------------------------------
(* API requests. *)

ReqAt(r, pc) == req[r].pc = pc

Advance(r, pc) == req' = [req EXCEPT ![r].pc = pc]

Respond(r) == req' = [req EXCEPT ![r] = IdleRequest]

\* POST /experiments: the row is flushed, not committed, when the job is
\* enqueued.
CreateEnqueue(r, e, j) ==
  /\ ReqAt(r, "idle")
  /\ row[e].status = "unused"
  /\ row' = [row EXCEPT ![e].status = "uncommitted"]
  /\ Enqueue(j, e)
  /\ req' = [req EXCEPT ![r] = [IdleRequest EXCEPT
               !.pc = "create_key", !.op = "create", !.exp = e, !.job = j]]
  /\ UNCHANGED worker

CreateSetMapping(r) ==
  /\ ReqAt(r, "create_key")
  /\ SetMapping(req[r].exp, req[r].job)
  /\ Advance(r, "create_commit")
  /\ UNCHANGED <<row, worker>>

CreateCommit(r) ==
  /\ ReqAt(r, "create_commit")
  /\ row' = [row EXCEPT ![req[r].exp].status = "Queued"]
  /\ Respond(r)
  /\ UNCHANGED <<job, mapping, stopping, worker>>

\* Redis fails after the job is on its list, or the commit fails: the row is
\* rolled back and the job stays.
CreateRollback(r) ==
  /\ req[r].pc \in {"create_key", "create_commit"}
  /\ row' = [row EXCEPT ![req[r].exp].status = "rolledback"]
  /\ Respond(r)
  /\ UNCHANGED <<job, mapping, stopping, worker>>

\* POST /experiments/{id}/retry: one UnitOfWork reads the status, enqueues,
\* and only then resets the row.
RetryRead(r, e) ==
  /\ ReqAt(r, "idle")
  /\ row[e].status \in RetryableStatus
  /\ req' = [req EXCEPT ![r] = [IdleRequest EXCEPT
               !.pc = "retry_enqueue", !.op = "retry", !.exp = e]]
  /\ UNCHANGED <<job, mapping, stopping, row, worker>>

RetryEnqueue(r, j) ==
  /\ ReqAt(r, "retry_enqueue")
  /\ Enqueue(j, req[r].exp)
  /\ req' = [req EXCEPT ![r].pc = "retry_key", ![r].job = j]
  /\ UNCHANGED <<row, worker>>

RetrySetMapping(r) ==
  /\ ReqAt(r, "retry_key")
  /\ SetMapping(req[r].exp, req[r].job)
  /\ Advance(r, "retry_commit")
  /\ UNCHANGED <<row, worker>>

\* The experiment's logs are deleted and the row is Queued again, whatever
\* the job enqueued above has done meanwhile.
RetryCommit(r) ==
  LET e == req[r].exp
  IN  /\ ReqAt(r, "retry_commit")
      /\ row' = IF RowExists(e)
                THEN [row EXCEPT ![e] = [status |-> "Queued", logs |-> {}]]
                ELSE row
      /\ Respond(r)
      /\ UNCHANGED <<job, mapping, stopping, worker>>

\* Redis or the database fails: the row keeps what it had.  The first step
\* also covers an enqueue refused by max_concurrent_jobs.
RetryRollback(r) ==
  /\ req[r].pc \in {"retry_enqueue", "retry_key", "retry_commit"}
  /\ Respond(r)
  /\ UNCHANGED <<job, mapping, stopping, row, worker>>

\* As a bug would have it: only a row read as Running is checked.
ListReadRunning(r, e) ==
  /\ ReqAt(r, "idle")
  /\ row[e].status = "Running"
  /\ req' = [req EXCEPT ![r] = [IdleRequest EXCEPT
               !.pc = "map_get", !.op = "refresh", !.exp = e, !.active = TRUE]]
  /\ UNCHANGED <<job, mapping, stopping, row, worker>>

\* GET /experiments and GET /experiments/{id}: a row read as Queued or
\* Running is checked against the queue.
ListRead(r, e) ==
  /\ ReqAt(r, "idle")
  /\ row[e].status \in ActiveStatus
  /\ req' = [req EXCEPT ![r] = [IdleRequest EXCEPT
               !.pc = "map_get", !.op = "refresh", !.exp = e, !.active = TRUE]]
  /\ UNCHANGED <<job, mapping, stopping, row, worker>>

\* POST /experiments/{id}/cancel: the status is read before the queue is.
CancelRead(r, e) ==
  /\ ReqAt(r, "idle")
  /\ RowExists(e)
  /\ req' = [req EXCEPT ![r] = [IdleRequest EXCEPT
               !.pc = "map_get", !.op = "cancel", !.exp = e,
               !.active = row[e].status \in ActiveStatus]]
  /\ UNCHANGED <<job, mapping, stopping, row, worker>>

\* What is left of either route is one UnitOfWork on the row.
ProceedToMark(r) ==
  req' = [req EXCEPT ![r] = [@ EXCEPT !.pc = "mark_cancelled", !.job = NoJob,
                                      !.state = "none", !.active = FALSE, !.seen = {}]]

\* Nothing was cancelled: the experiment route falls back on the status it
\* read first, the job route answers 409.
NotCancelled(r) ==
  IF req[r].op = "cancel" /\ req[r].active THEN ProceedToMark(r) ELSE Respond(r)

\* _find_experiment_queue_job: the mapped job first ...
GetMapping(r) ==
  LET j == mapping[req[r].exp]
  IN  /\ ReqAt(r, "map_get")
      /\ req' = [req EXCEPT ![r].job = j,
                            ![r].pc = IF j = NoJob THEN "scan_queued" ELSE "map_fetch"]
      /\ UNCHANGED <<job, mapping, stopping, row, worker>>

\* A job was found.  A refresh is content with any; a cancellation acts on it.
Found(r, j) ==
  req' = [req EXCEPT ![r] =
            IF req[r].op = "refresh" THEN IdleRequest
            ELSE [@ EXCEPT !.pc = "act", !.job = j, !.seen = {},
                           !.state = NormalizeJobState(job[j].status)]]

\* No job was found.  A refresh marks the row failed; a cancellation falls
\* back on the status it read first.
NotFound(r) ==
  IF req[r].op = "refresh" THEN req' = [req EXCEPT ![r].pc = "reconcile", ![r].seen = {}]
                           ELSE NotCancelled(r)

FetchMapped(r) ==
  /\ ReqAt(r, "map_fetch")
  /\ IF Stored(req[r].job) THEN Found(r, req[r].job)
                           ELSE req' = [req EXCEPT ![r].pc = "scan_queued", ![r].job = NoJob]
  /\ UNCHANGED <<job, mapping, stopping, row, worker>>

\* ... then the queued jobs, then the started ones ...
ScanQueued(r) ==
  /\ ReqAt(r, "scan_queued")
  /\ req' = [req EXCEPT ![r].pc = "scan_started", ![r].seen = QueuedFor(req[r].exp)]
  /\ UNCHANGED <<job, mapping, stopping, row, worker>>

\* As a bug would have it: the second scan forgets what the first found.
ScanStartedOnly(r) ==
  /\ ReqAt(r, "scan_started")
  /\ req' = [req EXCEPT ![r].pc = "fetch", ![r].seen = StartedFor(req[r].exp)]
  /\ UNCHANGED <<job, mapping, stopping, row, worker>>

ScanStarted(r) ==
  /\ ReqAt(r, "scan_started")
  /\ req' = [req EXCEPT ![r].pc = "fetch", ![r].seen = @ \cup StartedFor(req[r].exp)]
  /\ UNCHANGED <<job, mapping, stopping, row, worker>>

\* ... and the first of them that can still be fetched (which one of several
\* comes first is left open).
FetchActive(r) ==
  LET fetchable == {j \in req[r].seen : Stored(j)}
  IN  /\ ReqAt(r, "fetch")
      /\ IF fetchable = {} THEN NotFound(r) ELSE \E j \in fetchable : Found(r, j)
      /\ UNCHANGED <<job, mapping, stopping, row, worker>>

\* _reconcile_experiment_state does not read the status again.
Reconcile(r) ==
  /\ ReqAt(r, "reconcile")
  /\ MarkStatus(req[r].exp, "Failed")
  /\ Respond(r)
  /\ UNCHANGED <<job, mapping, stopping, worker>>

\* POST /jobs/{job_id}/cancel reads the job's state ...
JobCancelRead(r, j) ==
  /\ ReqAt(r, "idle")
  /\ Stored(j)
  /\ NormalizeJobState(job[j].status) \in {"queued", "running"}
  /\ req' = [req EXCEPT ![r] = [IdleRequest EXCEPT
               !.pc = "job_row", !.op = "jobcancel", !.exp = job[j].exp, !.job = j,
               !.state = NormalizeJobState(job[j].status)]]
  /\ UNCHANGED <<job, mapping, stopping, row, worker>>

\* ... then whether the row exists: without one the answer is 404 ...
JobCancelFindRow(r) ==
  /\ ReqAt(r, "job_row")
  /\ IF RowExists(req[r].exp) THEN Advance(r, "job_check") ELSE Respond(r)
  /\ UNCHANGED <<job, mapping, stopping, row, worker>>

\* ... and, in a UnitOfWork of its own, whether it is cancelled already.
JobCancelCheckRow(r) ==
  /\ ReqAt(r, "job_check")
  /\ IF row[req[r].exp].status = "Cancelled" THEN Respond(r) ELSE Advance(r, "act")
  /\ UNCHANGED <<job, mapping, stopping, row, worker>>

\* The job was seen queued: take it off its list, if it still is there.
CancelQueued(r) ==
  LET j == req[r].job
  IN  /\ ReqAt(r, "act")
      /\ req[r].state = "queued"
      /\ \/ /\ RemoveQueued(j)
            /\ ProceedToMark(r)
         \/ /\ job[j].status # "queued"
            /\ NotCancelled(r)
            /\ UNCHANGED <<job, mapping, stopping>>
      /\ UNCHANGED <<row, worker>>

\* The job was seen running: stop it.  A job that no longer executes makes
\* send_stop_job_command raise, and the request ends in an error; a job that
\* is gone is reported as not cancelled.
CancelRunning(r) ==
  LET j == req[r].job
  IN  /\ ReqAt(r, "act")
      /\ req[r].state = "running"
      /\ \/ /\ SendStop(j)
            /\ Advance(r, "unmap")
         \/ /\ job[j].status # "started"
            /\ IF Stored(j) THEN Respond(r) ELSE NotCancelled(r)
            /\ UNCHANGED <<job, mapping, stopping>>
      /\ UNCHANGED <<row, worker>>

\* The job was seen finished or canceled: there is nothing to cancel.
CancelSettled(r) ==
  /\ ReqAt(r, "act")
  /\ req[r].state \in {"finished", "canceled"}
  /\ NotCancelled(r)
  /\ UNCHANGED <<job, mapping, stopping, row, worker>>

DeleteMapping(r) ==
  /\ ReqAt(r, "unmap")
  /\ DeleteMappingFor(req[r].job)
  /\ ProceedToMark(r)
  /\ UNCHANGED <<row, worker>>

MarkCancelled(r) ==
  /\ ReqAt(r, "mark_cancelled")
  /\ req[r].op = "cancel"
  /\ MarkStatus(req[r].exp, "Cancelled")
  /\ Respond(r)
  /\ UNCHANGED <<job, mapping, stopping, worker>>

\* The job route also adds a log row, with ModelID 0 and in the same
\* UnitOfWork.  ModelID is a foreign key of PostgreSQL's Model table, whose
\* serial keys start at 1: the flush fails and takes the status with it.
TimelineModel == 0

ModelKeys == Nat \ {0}

JobCancelMark(r) ==
  LET e == req[r].exp
  IN  /\ ReqAt(r, "mark_cancelled")
      /\ req[r].op = "jobcancel"
      /\ row' = IF RowExists(e) /\ TimelineModel \in ModelKeys
                THEN [row EXCEPT ![e].status = "Cancelled"] ELSE row
      /\ Respond(r)
      /\ UNCHANGED <<job, mapping, stopping, worker>>

\* DELETE /experiments/{id}: logs, models and row; the job is not touched.
Delete(e) ==
  /\ RowExists(e)
  /\ row' = [row EXCEPT ![e] = [status |-> "deleted", logs |-> {}]]
  /\ UNCHANGED <<job, mapping, stopping, worker, req>>

-----------------------------------------------------------------------------
(* The system. *)

WorkerStep(w) ==
  \/ BeginJob(w)
  \/ ValidatePayload(w)
  \/ MarkRunning(w)
  \/ CheckCancelled(w)
  \/ PersistPermutation(w)
  \/ MarkCompleted(w)
  \/ MarkFailed(w)
  \/ ReturnResult(w)
  \/ ScheduleRetry(w)

RequestStep(r) ==
  \/ CreateSetMapping(r)
  \/ CreateCommit(r)
  \/ CreateRollback(r)
  \/ \E j \in Jobs : RetryEnqueue(r, j)
  \/ RetrySetMapping(r)
  \/ RetryCommit(r)
  \/ RetryRollback(r)
  \/ GetMapping(r)
  \/ FetchMapped(r)
  \/ ScanQueued(r)
  \/ ScanStarted(r)
  \/ FetchActive(r)
  \/ Reconcile(r)
  \/ JobCancelFindRow(r)
  \/ JobCancelCheckRow(r)
  \/ CancelQueued(r)
  \/ CancelRunning(r)
  \/ CancelSettled(r)
  \/ DeleteMapping(r)
  \/ MarkCancelled(r)
  \/ JobCancelMark(r)

UserRequest(r) ==
  \/ \E e \in Experiments, j \in Jobs : CreateEnqueue(r, e, j)
  \/ "retry" \in Endpoints /\ \E e \in Experiments : RetryRead(r, e)
  \/ "refresh" \in Endpoints /\ \E e \in Experiments : ListRead(r, e)
  \/ "cancel" \in Endpoints /\ \E e \in Experiments : CancelRead(r, e)
  \/ "jobcancel" \in Endpoints /\ \E j \in Jobs : JobCancelRead(r, j)

Environment ==
  \/ \E w \in Workers : Raise(w) \/ RaiseUnmarked(w) \/ StopJob(w) \/ CrashWorker(w)
  \/ \E j \in Jobs : AbandonJob(j)
  \/ "delete" \in Endpoints /\ \E e \in Experiments : Delete(e)
  \/ \E e \in Experiments : ExpireMapping(e) /\ UNCHANGED <<row, worker, req>>
  \/ \E j \in Jobs : ExpireResult(j) /\ UNCHANGED <<row, worker, req>>

Next ==
  \/ \E w \in Workers, j \in Jobs : TakeJob(w, j)
  \/ \E w \in Workers : WorkerStep(w)
  \/ \E r \in Requests : RequestStep(r)
  \/ \E r \in Requests : UserRequest(r)
  \/ Environment

Spec == Init /\ [][Next]_sysVars
=============================================================================
