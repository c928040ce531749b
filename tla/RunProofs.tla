------------------------------ MODULE RunProofs ------------------------------
(***************************************************************************)
(* What RunProperties and LookupProperties state with observers holds for  *)
(* any number of jobs, experiments, workers, request slots and             *)
(* permutations, with every endpoint in use.  An observer follows the past *)
(* of one run, experiment or lookup; the invariants here tie what it saw   *)
(* to the place that the worker or the request has come to.                *)
(***************************************************************************)
EXTENDS LifecycleProofs, RunProperties, LookupProperties

-----------------------------------------------------------------------------
(* The inductive invariants, beside LifecycleInv. *)

\* A run that has persisted under a cancellation will meet it in its next
\* check, or has left the loop.
LateRunsStop ==
  \A w \in Workers :
    /\ late[w] \in {0, 1}
    /\ late[w] = 1 => /\ worker[w].pc \in {"check", "complete", "result", "fail", "return", "raise"}
                      /\ row[ExpOf(w)].status = "Cancelled"

\* The loop starts with the first permutation and has logged those before the
\* one it is at.
RunsLogInOrder ==
  \A w \in Workers :
    /\ worker[w].pc \in {"begin", "validate", "mark"} => worker[w].perm = 1
    /\ worker[w].pc \in {"check", "persist"} /\ ~wiped[w] /\ RowExists(ExpOf(w)) =>
         \A k \in Perms : k < worker[w].perm => k \in row[ExpOf(w)].logs
    /\ At(w, "complete") /\ ~wiped[w] /\ RowExists(ExpOf(w)) => Perms \subseteq row[ExpOf(w)].logs

\* The steps a request takes are those of its route.
Fits(x) ==
  /\ x.pc \in {"create_key", "create_commit"} => x.op = "create"
  /\ x.pc \in {"retry_enqueue", "retry_key", "retry_commit"} => x.op = "retry"
  /\ x.pc \in {"map_get", "map_fetch", "scan_queued", "scan_started", "fetch"} => x.op \in {"refresh", "cancel"}
  /\ x.pc = "reconcile" => x.op = "refresh"
  /\ x.pc \in {"job_row", "job_check", "act", "unmap", "mark_cancelled"} => x.op \in {"cancel", "jobcancel"}

RequestsFit == \A r \in Requests : Fits(req[r])

\* While an experiment is left alone it has one job, and its status says how
\* far the one run of that job has come.
CalmRequests(e) ==
  \A r \in Requests : req[r].exp = e => req[r].op \in {"create", "refresh"} /\ ~ReqAt(r, "reconcile")

JobsOf(e) == {j \in Jobs : job[j].status # "unused" /\ job[j].exp = e}

BeforeRun == {"uncommitted", "rolledback", "Queued"}

RunFitsStatus(w) ==
  LET status == row[ExpOf(w)].status IN
    /\ At(w, "validate") => status \in BeforeRun
    /\ At(w, "mark") => status = "Queued"
    /\ worker[w].pc \in {"check", "persist", "complete"} => status = "Running"
    /\ At(w, "result") => status = "Completed"
    /\ At(w, "fail") => status \in {"Queued", "Running", "Completed"}

CalmRunsFit ==
  \A e \in Experiments : calm[e] =>
    /\ row[e].status # "deleted"
    /\ CalmRequests(e)
    /\ \A i, j \in JobsOf(e) : i = j
    /\ \A j \in JobsOf(e) : job[j].status \in {"queued", "dequeued"} => row[e].status \in BeforeRun
    /\ \A w \in Workers : Busy(w) /\ ExpOf(w) = e => RunFitsStatus(w)

\* Nor is a log of it deleted, so one that is completed is whole.
CalmRunsAreWhole ==
  /\ \A w \in Workers : wiped[w] => Busy(w)
  /\ \A e \in Experiments : calm[e] =>
       /\ \A w \in Workers : Busy(w) /\ ExpOf(w) = e => ~wiped[w]
       /\ row[e].status = "Completed" => Perms \subseteq row[e].logs

\* A lookup that is still under way has seen, or will see, every job that was
\* visible all the time.
LookupsSeeAll ==
  \A r \in Requests :
    /\ watch[r] \subseteq IF req[r].pc \in LookupPC THEN VisibleFor(req[r].exp) ELSE {}
    /\ ReqAt(r, "scan_started") => watch[r] \subseteq req[r].seen \cup StartedFor(req[r].exp)
    /\ ReqAt(r, "fetch") => watch[r] \subseteq req[r].seen
    /\ ReqAt(r, "reconcile") => watch[r] = {}

-----------------------------------------------------------------------------
(* What a step can do to a run. *)

\* Only its own steps move a worker on; what stops it makes it idle.
RunMoves(w) ==
  \/ worker'[w] = worker[w]
  \/ ~Busy(w)'
  \/ \E j \in Jobs : TakeJob(w, j)
  \/ BeginJob(w) \/ ValidatePayload(w) \/ MarkRunning(w) \/ CheckCancelled(w)
  \/ PersistPermutation(w) \/ MarkCompleted(w) \/ MarkFailed(w)
  \/ Raise(w) \/ RaiseUnmarked(w)

LEMMA RunSteps ==
  ASSUME WorkerType, Next, NEW w \in Workers
  PROVE  RunMoves(w)
<1> USE DEF RunMoves, WorkerType
<1>1. ASSUME NEW v \in Workers, NEW j \in Jobs, TakeJob(v, j) PROVE RunMoves(w)
  BY <1>1 DEF TakeJob
<1>2. ASSUME NEW v \in Workers, WorkerStep(v) PROVE RunMoves(w)
  <2>1. CASE v = w
    <3>1. CASE ReturnResult(w) \/ ScheduleRetry(w)
      BY <3>1 DEF ReturnResult, ScheduleRetry, IdleWorker, Busy, At
    <3> QED
      BY <1>2, <2>1, <3>1 DEF WorkerStep
  <2>2. CASE v # w
    BY <1>2, <2>2
    DEF WorkerStep, BeginJob, ValidatePayload, MarkRunning, CheckCancelled, PersistPermutation,
        MarkCompleted, MarkFailed, ReturnResult, ScheduleRetry, Goto, GotoEnd, AfterPerm
  <2> QED
    BY <2>1, <2>2
<1>3. ASSUME NEW v \in Workers, Raise(v) \/ RaiseUnmarked(v) \/ StopJob(v) \/ CrashWorker(v)
      PROVE  RunMoves(w)
  <2>1. CASE v = w
    <3>1. CASE StopJob(w) \/ CrashWorker(w)
      BY <3>1 DEF StopJob, CrashWorker, IdleWorker, Busy, At
    <3> QED
      BY <1>3, <2>1, <3>1
  <2>2. CASE v # w
    BY <1>3, <2>2 DEF Raise, RaiseUnmarked, StopJob, CrashWorker, Goto, GotoEnd
  <2> QED
    BY <2>1, <2>2
<1>4. CASE UNCHANGED worker
  BY <1>4
<1> QED
  BY <1>1, <1>2, <1>3, <1>4, RequestKeepsWorkers DEF Next, Environment, AbandonJob, Delete

\* A worker that was and is busy is busy with the same job of the same experiment.
LEMMA BusyKeepsJob ==
  ASSUME LifecycleInv, Next, NEW w \in Workers, Busy(w), Busy(w)'
  PROVE  /\ worker'[w].job = worker[w].job /\ worker[w].job \in Jobs
         /\ ExpOf(w)' = ExpOf(w) /\ ExpOf(w) \in Experiments
         /\ job[worker[w].job].status # "unused"
<1>t. WorkerType /\ JobMoves
  BY JobSteps, TypeParts DEF LifecycleInv
<1>1. worker'[w].job = worker[w].job
  <2>1. RunMoves(w)
    BY <1>t, RunSteps
  <2>2. CASE \/ worker'[w] = worker[w]
             \/ \E j \in Jobs : TakeJob(w, j)
    BY <2>2 DEF TakeJob, Busy, At
  <2>3. CASE BeginJob(w) \/ ValidatePayload(w) \/ MarkRunning(w) \/ CheckCancelled(w)
    BY <1>t, <2>3
    DEF BeginJob, ValidatePayload, MarkRunning, CheckCancelled, Goto, GotoEnd, WorkerType, WorkerRecord
  <2>4. CASE PersistPermutation(w) \/ MarkCompleted(w) \/ MarkFailed(w) \/ Raise(w) \/ RaiseUnmarked(w)
    BY <1>t, <2>4
    DEF PersistPermutation, MarkCompleted, MarkFailed, Raise, RaiseUnmarked, Goto, GotoEnd, AfterPerm,
        WorkerType, WorkerRecord
  <2> QED
    BY <2>1, <2>2, <2>3, <2>4 DEF RunMoves
<1>2. worker[w].job \in Jobs /\ job[worker[w].job].status # "unused"
  BY DEF LifecycleInv, WorkersHoldTheirJobs, Busy, At
<1>3. ExpOf(w)' = ExpOf(w) /\ ExpOf(w) \in Experiments
  BY <1>t, <1>1, <1>2 DEF JobMoves, ExpOf, LifecycleInv, JobsNameExperiments
<1> QED
  BY <1>1, <1>2, <1>3
-----------------------------------------------------------------------------
(* A cancellation bounds the work of a run. *)

LEMMA LateStep ==
  ASSUME LifecycleInv, LateRunsStop, Next, ObserveRuns
  PROVE  LateRunsStop'
<1> SUFFICES ASSUME NEW w \in Workers
             PROVE  /\ late'[w] \in {0, 1}
                    /\ late'[w] = 1 =>
                         /\ worker'[w].pc \in {"check", "complete", "result", "fail", "return", "raise"}
                         /\ row'[ExpOf(w)'].status = "Cancelled"
  BY DEF LateRunsStop
<1>l. late'[w] = IF ~Busy(w)' \/ row'[ExpOf(w)'].status # "Cancelled" THEN 0
                 ELSE IF At(w, "persist") /\ worker'[w].pc \in {"check", "complete"}
                      THEN late[w] + 1 ELSE late[w]
  BY DEF ObserveRuns
<1>1. CASE ~Busy(w)' \/ row'[ExpOf(w)'].status # "Cancelled"
  BY <1>l, <1>1
<1>2. CASE Busy(w)' /\ row'[ExpOf(w)'].status = "Cancelled"
  <2>t. WorkerType /\ RowType
    BY TypeParts DEF LifecycleInv
  <2>i. /\ late[w] \in {0, 1}
        /\ late[w] = 1 => /\ worker[w].pc \in {"check", "complete", "result", "fail", "return", "raise"}
                          /\ row[ExpOf(w)].status = "Cancelled"
    BY DEF LateRunsStop
  <2>m. RunMoves(w)
    BY <2>t, RunSteps
  <2> USE <1>l, <1>2, <2>t, <2>i DEF At, WorkerType, WorkerRecord
  <2>1. CASE worker'[w] = worker[w]
    BY <2>1
  <2>2. CASE PersistPermutation(w)
    BY <2>2 DEF PersistPermutation, AfterPerm
  <2>3. CASE CheckCancelled(w)
    BY <2>3 DEF CheckCancelled, Goto, GotoEnd
  <2>4. CASE MarkCompleted(w)
    BY <2>4 DEF MarkCompleted, GotoEnd
  <2>5. CASE MarkFailed(w)
    BY <2>5 DEF MarkFailed, Goto
  <2>6. CASE Raise(w) \/ RaiseUnmarked(w)
    BY <2>6 DEF Raise, RaiseUnmarked, Goto, GotoEnd
  <2>7. CASE MarkRunning(w) \/ ValidatePayload(w) \/ BeginJob(w) \/ \E j \in Jobs : TakeJob(w, j)
    BY <2>7 DEF MarkRunning, ValidatePayload, BeginJob, TakeJob, Goto
  <2> QED
    BY <2>m, <2>1, <2>2, <2>3, <2>4, <2>5, <2>6, <2>7 DEF RunMoves
<1> QED
  BY <1>1, <1>2
-----------------------------------------------------------------------------
(* A run that nobody disturbs logs every permutation. *)

LEMMA FirstPermStep ==
  ASSUME LifecycleInv, RunsLogInOrder, Next, NEW w \in Workers,
         worker'[w].pc \in {"begin", "validate", "mark"}
  PROVE  worker'[w].perm = 1
<1>t. WorkerType
  BY TypeParts DEF LifecycleInv
<1>i. worker[w].pc \in {"begin", "validate", "mark"} => worker[w].perm = 1
  BY DEF RunsLogInOrder
<1>m. RunMoves(w)
  BY <1>t, RunSteps
<1> USE <1>t, <1>i DEF WorkerType, WorkerRecord, At
<1>1. CASE worker'[w] = worker[w] \/ ~Busy(w)'
  BY <1>1 DEF Busy
<1>2. CASE BeginJob(w) \/ ValidatePayload(w) \/ \E j \in Jobs : TakeJob(w, j)
  BY <1>2 DEF BeginJob, ValidatePayload, TakeJob, Goto
<1>3. CASE MarkRunning(w) \/ MarkCompleted(w) \/ MarkFailed(w) \/ Raise(w) \/ RaiseUnmarked(w)
  BY <1>3 DEF MarkRunning, MarkCompleted, MarkFailed, Raise, RaiseUnmarked, Goto, GotoEnd
<1>4. CASE CheckCancelled(w)
  BY <1>4 DEF CheckCancelled, Goto, GotoEnd
<1>5. CASE PersistPermutation(w)
  BY <1>5 DEF PersistPermutation, AfterPerm
<1> QED
  BY <1>m, <1>1, <1>2, <1>3, <1>4, <1>5 DEF RunMoves

\* A run that is not wiped of its logs, and whose row is there, was neither before.
LEMMA LogsKept ==
  ASSUME LifecycleInv, Next, ObserveRuns, NEW w \in Workers,
         worker'[w].pc \in {"check", "persist", "complete"}, ~wiped'[w], RowExists(ExpOf(w))'
  PROVE  /\ ExpOf(w)' = ExpOf(w) /\ ExpOf(w) \in Experiments
         /\ RowExists(ExpOf(w)) /\ ~wiped[w]
         /\ row[ExpOf(w)].logs \subseteq row'[ExpOf(w)].logs
<1>t. WorkerType /\ RowMoves
  BY TypeParts, RowSteps DEF LifecycleInv
<1>1. PastValidation(w)
  <2>1. WorkerMoves /\ RunMoves(w)
    BY <1>t, WorkerSteps, RunSteps
  <2>2. ASSUME At(w, "validate") PROVE FALSE
    BY <1>t, <2>1, <2>2
    DEF RunMoves, Busy, At, TakeJob, BeginJob, ValidatePayload, MarkRunning, CheckCancelled,
        PersistPermutation, MarkCompleted, MarkFailed, Raise, RaiseUnmarked, Goto, WorkerType, WorkerRecord
  <2> QED
    BY <2>1, <2>2 DEF WorkerMoves, PastValidation
<1>2. Busy(w) /\ Busy(w)'
  BY <1>1 DEF PastValidation, Busy, At
<1>3. ExpOf(w)' = ExpOf(w) /\ ExpOf(w) \in Experiments
  BY <1>2, BusyKeepsJob
<1>4. RowExists(ExpOf(w))
  <2>1. Committed(row[ExpOf(w)].status)
    BY <1>1 DEF LifecycleInv, RunsHaveCommittedRows, PastValidation, Committed
  <2>2. row'[ExpOf(w)].status # "deleted"
    BY <1>3 DEF RowExists, RowStatus, ActiveStatus, RetryableStatus
  <2> QED
    BY <1>t, <1>3, <2>1, <2>2 DEF RowMoves, Committed, RowExists
<1>5. ~wiped[w] /\ row[ExpOf(w)].logs \subseteq row'[ExpOf(w)].logs
  BY <1>2, <1>3 DEF ObserveRuns
<1> QED
  BY <1>3, <1>4, <1>5

LEMMA LogsStep ==
  ASSUME LifecycleInv, RunsLogInOrder, Next, ObserveRuns
  PROVE  RunsLogInOrder'
<1> SUFFICES ASSUME NEW w \in Workers, worker'[w].pc \in {"check", "persist", "complete"},
                    ~wiped'[w], RowExists(ExpOf(w))'
             PROVE  /\ worker'[w].pc \in {"check", "persist"} =>
                         \A k \in Perms : k < worker'[w].perm => k \in row'[ExpOf(w)'].logs
                    /\ worker'[w].pc = "complete" => Perms \subseteq row'[ExpOf(w)'].logs
  BY FirstPermStep DEF RunsLogInOrder, At
<1>t. WorkerType /\ RowType /\ worker[w].perm \in Perms
  BY TypeParts DEF LifecycleInv, WorkerType, WorkerRecord
<1>k. /\ ExpOf(w)' = ExpOf(w) /\ ExpOf(w) \in Experiments
      /\ RowExists(ExpOf(w)) /\ row[ExpOf(w)].logs \subseteq row'[ExpOf(w)].logs
      /\ ~wiped[w]
  BY LogsKept
<1>i. /\ worker[w].pc \in {"begin", "validate", "mark"} => worker[w].perm = 1
      /\ worker[w].pc \in {"check", "persist"} =>
           \A k \in Perms : k < worker[w].perm => k \in row[ExpOf(w)].logs
      /\ worker[w].pc = "complete" => Perms \subseteq row[ExpOf(w)].logs
  BY <1>k DEF RunsLogInOrder, At
<1>m. RunMoves(w)
  BY <1>t, RunSteps
<1> USE <1>t, <1>k, <1>i DEF WorkerType, WorkerRecord, At
<1>1. CASE worker'[w] = worker[w]
  BY <1>1
<1>2. CASE BeginJob(w) \/ ValidatePayload(w) \/ \E j \in Jobs : TakeJob(w, j)
  BY <1>2 DEF BeginJob, ValidatePayload, TakeJob, Goto
<1>3. CASE MarkRunning(w)
  BY <1>3, LifecycleAssumption DEF MarkRunning, Goto, Perms
<1>4. CASE CheckCancelled(w)
  BY <1>4 DEF CheckCancelled, Goto, GotoEnd
<1>5. CASE PersistPermutation(w)
  <2> DEFINE k == worker[w].perm
  <2>1. row'[ExpOf(w)].logs = row[ExpOf(w)].logs \cup {k}
    BY <1>5 DEF PersistPermutation, RowType, RowRecord
  <2>2. \A i \in Perms : i <= k => i \in row'[ExpOf(w)].logs
    <3>1. worker[w].pc = "persist"
      BY <1>5 DEF PersistPermutation
    <3> QED
      BY <2>1, <3>1 DEF Perms
  <2>3. CASE k < NPerms
    <3>1. worker'[w].pc = "check" /\ worker'[w].perm = k + 1
      BY <1>5, <2>3 DEF PersistPermutation, AfterPerm
    <3> QED
      BY <2>2, <3>1 DEF Perms
  <2>4. CASE ~(k < NPerms)
    <3>1. worker'[w].pc = "complete"
      BY <1>5, <2>4 DEF PersistPermutation, AfterPerm
    <3>2. \A i \in Perms : i <= k
      BY <2>4, LifecycleAssumption DEF Perms
    <3> QED
      BY <2>2, <3>1, <3>2
  <2> QED
    BY <2>3, <2>4
<1>6. CASE MarkCompleted(w) \/ MarkFailed(w) \/ Raise(w) \/ RaiseUnmarked(w)
  BY <1>6 DEF MarkCompleted, MarkFailed, Raise, RaiseUnmarked, Goto, GotoEnd
<1>7. CASE ~Busy(w)'
  BY <1>7 DEF Busy
<1> QED
  BY <1>m, <1>1, <1>2, <1>3, <1>4, <1>5, <1>6, <1>7 DEF RunMoves
-----------------------------------------------------------------------------
(* What a request does is of its route. *)

LEMMA FitsIdle == Fits(IdleRequest)
  BY DEF Fits, IdleRequest

LEMMA FitRequest ==
  ASSUME RequestType, RequestsFit, NEW r \in Requests, RequestStep(r)
  PROVE  RequestsFit'
<1> USE DEF RequestType, RequestRecord
<1>u. ASSUME NEW x, Fits(x), req' = [req EXCEPT ![r] = x] PROVE RequestsFit'
  BY <1>u DEF RequestsFit
<1>i. Fits(req[r])
  BY DEF RequestsFit
<1>1. Respond(r) => RequestsFit'
  BY <1>u, FitsIdle DEF Respond
<1>2. ASSUME NEW pc, Advance(r, pc), Fits([req[r] EXCEPT !.pc = pc]) PROVE RequestsFit'
  BY <1>2 DEF Advance, RequestsFit
<1>3. ProceedToMark(r) /\ req[r].op \in {"cancel", "jobcancel"} => RequestsFit'
  BY <1>i DEF ProceedToMark, RequestsFit, Fits
<1>4. NotCancelled(r) => RequestsFit'
  BY <1>1, <1>3 DEF NotCancelled
<1>5. ASSUME NEW j, Found(r, j), req[r].op \in {"refresh", "cancel"} PROVE RequestsFit'
  BY <1>5, <1>u, FitsIdle DEF Found, RequestsFit, Fits
<1>6. NotFound(r) => RequestsFit'
  BY <1>4 DEF NotFound, RequestsFit, Fits
<1>7. CASE \/ CreateCommit(r) \/ CreateRollback(r) \/ RetryCommit(r) \/ RetryRollback(r)
           \/ Reconcile(r) \/ MarkCancelled(r) \/ JobCancelMark(r)
  BY <1>7, <1>1
  DEF CreateCommit, CreateRollback, RetryCommit, RetryRollback, Reconcile, MarkCancelled, JobCancelMark
<1>8. CASE CreateSetMapping(r) \/ RetrySetMapping(r) \/ JobCancelFindRow(r) \/ JobCancelCheckRow(r)
  BY <1>8, <1>i, <1>1, <1>2
  DEF CreateSetMapping, RetrySetMapping, JobCancelFindRow, JobCancelCheckRow, ReqAt, Fits
<1>9. CASE \E j \in Jobs : RetryEnqueue(r, j)
  BY <1>9, <1>i DEF RetryEnqueue, ReqAt, RequestsFit, Fits
<1>10. CASE GetMapping(r) \/ ScanQueued(r) \/ ScanStarted(r)
  BY <1>10, <1>i DEF GetMapping, ScanQueued, ScanStarted, ReqAt, RequestsFit, Fits
<1>11. CASE FetchMapped(r)
  <2>1. req[r].op \in {"refresh", "cancel"}
    BY <1>11, <1>i DEF FetchMapped, ReqAt, Fits
  <2>2. CASE Stored(req[r].job)
    BY <1>11, <2>1, <2>2, <1>5 DEF FetchMapped
  <2>3. CASE ~Stored(req[r].job)
    BY <1>11, <2>1, <2>3, <1>i DEF FetchMapped, RequestsFit, Fits
  <2> QED
    BY <2>2, <2>3
<1>12. CASE FetchActive(r)
  <2>1. req[r].op \in {"refresh", "cancel"}
    BY <1>12, <1>i DEF FetchActive, ReqAt, Fits
  <2> QED
    BY <1>12, <2>1, <1>5, <1>6 DEF FetchActive
<1>13. CASE CancelQueued(r) \/ CancelRunning(r) \/ CancelSettled(r) \/ DeleteMapping(r)
  <2>1. req[r].op \in {"cancel", "jobcancel"}
    BY <1>13, <1>i DEF CancelQueued, CancelRunning, CancelSettled, DeleteMapping, ReqAt, Fits
  <2>2. Fits([req[r] EXCEPT !.pc = "unmap"])
    BY <2>1 DEF Fits
  <2> QED
    BY <1>13, <2>1, <2>2, <1>1, <1>2, <1>3, <1>4
    DEF CancelQueued, CancelRunning, CancelSettled, DeleteMapping
<1> QED
  BY <1>7, <1>8, <1>9, <1>10, <1>11, <1>12, <1>13 DEF RequestStep

LEMMA FitStep ==
  ASSUME RequestType, RequestsFit, Next
  PROVE  RequestsFit'
<1>1. UNCHANGED req => RequestsFit'
  BY DEF RequestsFit
<1>2. ASSUME NEW r \in Requests, UserRequest(r) PROVE RequestsFit'
  <2> USE DEF RequestsFit, RequestType, Fits, IdleRequest
  <2>1. ASSUME NEW e \in Experiments, NEW j \in Jobs, CreateEnqueue(r, e, j) PROVE RequestsFit'
    BY <2>1 DEF CreateEnqueue
  <2>2. ASSUME NEW e \in Experiments, RetryRead(r, e) PROVE RequestsFit'
    BY <2>2 DEF RetryRead
  <2>3. ASSUME NEW e \in Experiments, CancelRead(r, e) PROVE RequestsFit'
    <3> DEFINE x == [IdleRequest EXCEPT !.pc = "map_get", !.op = "cancel", !.exp = e,
                                        !.active = row[e].status \in ActiveStatus]
    <3>1. x.pc = "map_get" /\ x.op = "cancel"
      OBVIOUS
    <3>2. req' = [req EXCEPT ![r] = x]
      BY <2>3, Zenon DEF CancelRead
    <3> HIDE DEF x
    <3> QED
      BY <3>1, <3>2
  <2>4. ASSUME NEW j \in Jobs, JobCancelRead(r, j) PROVE RequestsFit'
    BY <2>4 DEF JobCancelRead
  <2>5. ASSUME NEW e \in Experiments, ListRead(r, e) PROVE RequestsFit'
    BY <2>5 DEF ListRead
  <2> QED
    BY <1>2, <2>1, <2>2, <2>3, <2>4, <2>5 DEF UserRequest
<1> QED
  BY <1>1, <1>2, FitRequest, SystemKeepsRequests DEF Next
-----------------------------------------------------------------------------
(* What changes the status of an experiment, and who gives it jobs. *)

\* The steps that write the status of e, each by who may take it.
Creates(e) == \E r \in Requests, j \in Jobs : CreateEnqueue(r, e, j)

Decides(e) == \E r \in Requests : req[r].exp = e /\ (CreateCommit(r) \/ CreateRollback(r))

Disturbs(e) ==
  \/ \E r \in Requests : req[r].exp = e /\ (RetryCommit(r) \/ Reconcile(r) \/ MarkCancelled(r) \/ JobCancelMark(r))
  \/ Delete(e)

Marks(w) == RowExists(ExpOf(w)) /\ (MarkRunning(w) \/ MarkCompleted(w) \/ MarkFailed(w))

StatusMoves ==
  \A e \in Experiments : row'[e].status # row[e].status =>
    \/ Creates(e) \/ Decides(e) \/ Disturbs(e)
    \/ \E w \in Workers : ExpOf(w) = e /\ Marks(w)

LEMMA StatusUnchanged == ASSUME UNCHANGED row PROVE StatusMoves
  BY DEF StatusMoves

LEMMA MarkStatusOnly ==
  ASSUME RowType, NEW d, NEW s, MarkStatus(d, s), NEW e \in Experiments, row'[e].status # row[e].status
  PROVE  e = d /\ RowExists(d)
  BY DEF MarkStatus, RowType, RowRecord

LEMMA StatusSteps ==
  ASSUME RowType, Next
  PROVE  StatusMoves
<1> USE DEF StatusMoves
<1>1. ASSUME NEW w \in Workers, WorkerStep(w) PROVE StatusMoves
  <2>1. CASE MarkRunning(w) \/ MarkCompleted(w) \/ MarkFailed(w)
    BY <2>1, MarkStatusOnly DEF MarkRunning, MarkCompleted, MarkFailed, Marks
  <2>2. CASE PersistPermutation(w)
    BY <2>2 DEF PersistPermutation, RowType, RowRecord
  <2>3. CASE UNCHANGED row
    BY <2>3, StatusUnchanged
  <2> QED
    BY <1>1, <2>1, <2>2, <2>3
    DEF WorkerStep, BeginJob, ValidatePayload, CheckCancelled, ReturnResult, ScheduleRetry
<1>2. ASSUME NEW r \in Requests, RequestStep(r) PROVE StatusMoves
  <2>1. CASE CreateCommit(r) \/ CreateRollback(r)
    BY <2>1 DEF CreateCommit, CreateRollback, RowType, RowRecord, Decides
  <2>2. CASE RetryCommit(r) \/ JobCancelMark(r)
    BY <2>2 DEF RetryCommit, JobCancelMark, RowType, RowRecord, Disturbs
  <2>3. CASE Reconcile(r) \/ MarkCancelled(r)
    BY <2>3, MarkStatusOnly DEF Reconcile, MarkCancelled, Disturbs
  <2>4. CASE UNCHANGED row
    BY <2>4, StatusUnchanged
  <2> QED
    BY <1>2, <2>1, <2>2, <2>3, <2>4
    DEF RequestStep, CreateSetMapping, RetryEnqueue, RetrySetMapping, RetryRollback, GetMapping,
        FetchMapped, ScanQueued, ScanStarted, FetchActive, JobCancelFindRow, JobCancelCheckRow, CancelQueued,
        CancelRunning, CancelSettled, DeleteMapping
<1>3. ASSUME NEW r \in Requests, UserRequest(r) PROVE StatusMoves
  <2>1. ASSUME NEW e \in Experiments, NEW j \in Jobs, CreateEnqueue(r, e, j) PROVE StatusMoves
    BY <2>1 DEF CreateEnqueue, RowType, RowRecord, Creates
  <2> QED
    BY <1>3, <2>1, StatusUnchanged DEF UserRequest, RetryRead, ListRead, CancelRead, JobCancelRead
<1>4. ASSUME NEW e \in Experiments, Delete(e) PROVE StatusMoves
  BY <1>4 DEF Delete, RowType, RowRecord, Disturbs
<1>5. CASE UNCHANGED row
  BY <1>5, StatusUnchanged
<1> QED
  BY <1>1, <1>2, <1>3, <1>4, <1>5
  DEF Next, TakeJob, Environment, Raise, RaiseUnmarked, StopJob, CrashWorker, AbandonJob

\* The jobs of e are those enqueued for it; one that waits has waited since, and
\* none goes back to waiting, or to its list, once it is started.
Retries(e) == \E r \in Requests : req[r].exp = e /\ req[r].op = "retry"

QueueMoves ==
  \A j \in Jobs :
    /\ job[j].status = "unused" /\ job'[j].status # "unused" =>
         \/ \E r \in Requests, e \in Experiments : CreateEnqueue(r, e, j) /\ job'[j].exp = e
         \/ Retries(job'[j].exp)
    /\ job[j].status # "unused" /\ job'[j].status \in {"queued", "dequeued"} =>
         job[j].status \in {"queued", "dequeued"}

LEMMA QueueUnchanged == ASSUME UNCHANGED job PROVE QueueMoves
  BY DEF QueueMoves

LEMMA LeaveQueues ==
  ASSUME QueueTypeOK, NEW j, NEW s \in {"finished", "scheduled", "stopped"},
         job[j].status # "unused", Leave(j, s)
  PROVE  QueueMoves
  BY DEF QueueMoves, QueueTypeOK, JobRecord, Leave

LEMMA QueueSteps ==
  ASSUME TypeOK, WorkersHoldTheirJobs, RequestsFit, Next
  PROVE  QueueMoves
<1>t. QueueTypeOK /\ RequestType
  BY TypeParts
<1> USE <1>t DEF QueueTypeOK, JobRecord
<1>1. ASSUME NEW w \in Workers, NEW j \in Jobs, TakeJob(w, j) PROVE QueueMoves
  BY <1>1 DEF TakeJob, Dequeue, QueueMoves
<1>2. ASSUME NEW w \in Workers, WorkerStep(w) PROVE QueueMoves
  <2>1. CASE BeginJob(w)
    BY <2>1 DEF BeginJob, Register, QueueMoves
  <2>2. CASE ReturnResult(w) \/ ScheduleRetry(w)
    BY <2>2, LeaveQueues DEF ReturnResult, ScheduleRetry, At, WorkersHoldTheirJobs
  <2> QED
    BY <1>2, <2>1, <2>2, QueueUnchanged
    DEF WorkerStep, ValidatePayload, MarkRunning, CheckCancelled, PersistPermutation, MarkCompleted,
        MarkFailed
<1>3. ASSUME NEW r \in Requests, RequestStep(r) PROVE QueueMoves
  <2>1. ASSUME NEW j \in Jobs, RetryEnqueue(r, j) PROVE QueueMoves
    <3>1. req[r].op = "retry"
      BY <2>1 DEF RetryEnqueue, ReqAt, RequestsFit, Fits
    <3>2. job'[j].exp = req[r].exp /\ \A i \in Jobs \ {j} : job'[i] = job[i]
      BY <2>1 DEF RetryEnqueue, Enqueue
    <3> QED
      BY <2>1, <3>1, <3>2 DEF RetryEnqueue, Enqueue, QueueMoves, Retries
  <2>2. CASE CancelQueued(r)
    BY <2>2 DEF CancelQueued, RemoveQueued, QueueMoves
  <2>3. CASE ~(CancelQueued(r) \/ \E j \in Jobs : RetryEnqueue(r, j))
    BY <1>3, <2>3, QueueUnchanged
    DEF RequestStep, CreateSetMapping, CreateCommit, CreateRollback, RetrySetMapping, RetryCommit,
        RetryRollback, SetMapping, GetMapping, FetchMapped, ScanQueued, ScanStarted, FetchActive,
        Reconcile, JobCancelFindRow, JobCancelCheckRow, CancelRunning, SendStop, CancelSettled, DeleteMapping,
        DeleteMappingFor, MarkCancelled, JobCancelMark
  <2> QED
    BY <2>1, <2>2, <2>3
<1>4. ASSUME NEW r \in Requests, UserRequest(r) PROVE QueueMoves
  <2>1. ASSUME NEW e \in Experiments, NEW j \in Jobs, CreateEnqueue(r, e, j) PROVE QueueMoves
    BY <2>1 DEF CreateEnqueue, Enqueue, QueueMoves
  <2> QED
    BY <1>4, <2>1, QueueUnchanged DEF UserRequest, RetryRead, ListRead, CancelRead, JobCancelRead
<1>5. CASE Environment
  <2>1. ASSUME NEW w \in Workers, StopJob(w) PROVE QueueMoves
    BY <2>1, LeaveQueues DEF StopJob, At, WorkersHoldTheirJobs
  <2>2. ASSUME NEW j \in Jobs, AbandonJob(j) PROVE QueueMoves
    BY <2>2, LeaveQueues DEF AbandonJob
  <2>3. ASSUME NEW j \in Jobs, ExpireResult(j) PROVE QueueMoves
    BY <2>3 DEF ExpireResult, QueueMoves
  <2> QED
    BY <1>5, <2>1, <2>2, <2>3, QueueUnchanged
    DEF Environment, Raise, RaiseUnmarked, CrashWorker, Delete, ExpireMapping
<1> QED
  BY <1>1, <1>2, <1>3, <1>4, <1>5 DEF Next
-----------------------------------------------------------------------------
(* An experiment that is left alone goes its way. *)

\* While nobody disturbs it, its status is changed by its creator and its run.
LEMMA CalmMoves ==
  ASSUME LifecycleInv, RequestsFit, CalmRunsFit, Next, ObserveCalm,
         NEW e \in Experiments, calm'[e], row'[e].status # row[e].status
  PROVE  \/ Creates(e)
         \/ Decides(e) /\ row[e].status = "uncommitted" /\ UNCHANGED worker
         \/ \E w \in Workers : ExpOf(w) = e /\ Marks(w)
<1>t. RowType /\ StatusMoves
  BY TypeParts, StatusSteps DEF LifecycleInv
<1>1. CalmRequests(e) /\ row'[e].status # "deleted"
  BY DEF ObserveCalm, CalmRunsFit
<1>2. ASSUME Disturbs(e) PROVE FALSE
  <2>1. CASE Delete(e)
    BY <1>1, <1>t, <2>1 DEF Delete, RowType
  <2>2. ASSUME NEW r \in Requests, req[r].exp = e,
               RetryCommit(r) \/ Reconcile(r) \/ MarkCancelled(r) \/ JobCancelMark(r)
        PROVE  FALSE
    BY <1>1, <2>2
    DEF CalmRequests, RetryCommit, Reconcile, MarkCancelled, JobCancelMark, ReqAt, RequestsFit, Fits
  <2> QED
    BY <1>2, <2>1, <2>2 DEF Disturbs
<1>3. Decides(e) => row[e].status = "uncommitted" /\ UNCHANGED worker
  BY DEF Decides, CreateCommit, CreateRollback, ReqAt, LifecycleInv, CreatesAreOpen
<1> QED
  BY <1>t, <1>2, <1>3 DEF StatusMoves

\* It gets no second job.
LEMMA CalmJobs ==
  ASSUME LifecycleInv, RequestsFit, CalmRunsFit, Next, ObserveCalm, NEW e \in Experiments, calm'[e]
  PROVE  \A i, j \in JobsOf(e)' : i = j
<1>t. JobMoves /\ QueueMoves /\ QueueTypeOK /\ RowType
  BY JobSteps, QueueSteps, TypeParts DEF LifecycleInv
<1>1. CalmRequests(e) /\ \A i, j \in JobsOf(e) : i = j
  BY DEF ObserveCalm, CalmRunsFit
<1>2. ~Retries(e)
  BY <1>1 DEF Retries, CalmRequests
<1>3. ASSUME NEW r \in Requests, NEW j \in Jobs, CreateEnqueue(r, e, j)
      PROVE  JobsOf(e)' \subseteq {j}
  BY <1>3, <1>t DEF CreateEnqueue, Enqueue, JobsOf, LifecycleInv, JobsNameExperiments, QueueTypeOK, JobRecord
<1>4. ASSUME ~Creates(e) PROVE JobsOf(e)' \subseteq JobsOf(e)
  <2> SUFFICES ASSUME NEW j \in Jobs, job'[j].status # "unused", job'[j].exp = e
               PROVE  job[j].status # "unused" /\ job[j].exp = e
    BY DEF JobsOf
  <2>1. job[j].status # "unused"
    BY <1>t, <1>2, <1>4 DEF QueueMoves, Creates
  <2> QED
    BY <1>t, <2>1 DEF JobMoves
<1> QED
  BY <1>1, <1>3, <1>4 DEF Creates

\* The jobs of busy workers that work on e are jobs of e, and are started or taken.
LEMMA BusyJobs ==
  ASSUME LifecycleInv, NEW w \in Workers, Busy(w)
  PROVE  /\ worker[w].job \in JobsOf(ExpOf(w))
         /\ ~At(w, "begin") => job[worker[w].job].status = "started"
         /\ At(w, "begin") => job[worker[w].job].status = "dequeued"
  BY DEF LifecycleInv, WorkersHoldTheirJobs, Busy, At, JobsOf, ExpOf

LEMMA CalmOneRunner ==
  ASSUME LifecycleInv, CalmRunsFit, NEW e \in Experiments, calm[e],
         NEW v \in Workers, NEW w \in Workers, Busy(v), Busy(w), ExpOf(v) = e, ExpOf(w) = e
  PROVE  v = w
<1>1. worker[v].job = worker[w].job
  BY BusyJobs DEF CalmRunsFit
<1>2. worker[v].job # NoJob
  BY BusyJobs, JobQueueAssumption DEF JobsOf
<1> QED
  BY <1>1, <1>2 DEF LifecycleInv, WorkersHoldTheirJobs

\* A job of it that waits does so before the run.
LEMMA CalmWaits ==
  ASSUME LifecycleInv, RequestsFit, CalmRunsFit, Next, ObserveCalm, NEW e \in Experiments, calm'[e],
         NEW j \in Jobs, j \in JobsOf(e)', job'[j].status \in {"queued", "dequeued"}
  PROVE  row'[e].status \in BeforeRun
<1>t. JobMoves /\ QueueMoves /\ RowType
  BY JobSteps, QueueSteps, TypeParts DEF LifecycleInv
<1>c. calm[e]
  BY DEF ObserveCalm
<1>1. CASE Creates(e)
  BY <1>1, <1>t DEF Creates, CreateEnqueue, RowType, BeforeRun
<1>2. CASE ~Creates(e)
  <2>1. job[j].status # "unused"
    BY <1>c, <1>t, <1>2 DEF JobsOf, QueueMoves, Creates, Retries, CalmRunsFit, CalmRequests
  <2>2. j \in JobsOf(e) /\ job[j].status \in {"queued", "dequeued"}
    BY <1>t, <2>1 DEF JobMoves, QueueMoves, JobsOf
  <2>3. row[e].status \in BeforeRun
    BY <1>c, <2>2 DEF CalmRunsFit
  <2>4. CASE Decides(e)
    BY <2>3, <2>4, <1>t DEF Decides, CreateCommit, CreateRollback, RowType, RowRecord, BeforeRun
  <2>5. ASSUME NEW w \in Workers, ExpOf(w) = e, Marks(w) PROVE FALSE
    <3>1. Busy(w) /\ ~At(w, "begin")
      BY <2>5 DEF Marks, MarkRunning, MarkCompleted, MarkFailed, Busy, At
    <3>2. worker[w].job = j
      BY <1>c, <2>2, <2>5, <3>1, BusyJobs DEF CalmRunsFit
    <3> QED
      BY <2>2, <3>1, <3>2, BusyJobs
  <2> QED
    BY <1>2, <2>3, <2>4, <2>5, CalmMoves
<1> QED
  BY <1>1, <1>2

\* Its run is where its status says.
LEMMA CalmRuns ==
  ASSUME LifecycleInv, RequestsFit, CalmRunsFit, Next, ObserveCalm, NEW e \in Experiments, calm'[e],
         NEW w \in Workers, Busy(w)', ExpOf(w)' = e
  PROVE  RunFitsStatus(w)'
<1>t. WorkerType /\ RowType
  BY TypeParts DEF LifecycleInv
<1>c. calm[e]
  BY DEF ObserveCalm
<1>m. RunMoves(w)
  BY <1>t, RunSteps
<1> USE DEF RunFitsStatus, At
<1>1. CASE ~Busy(w)
  <2>1. \E j \in Jobs : TakeJob(w, j)
    BY <1>1, <1>m, <1>t
    DEF RunMoves, Busy, BeginJob, ValidatePayload, MarkRunning, CheckCancelled, PersistPermutation,
        MarkCompleted, MarkFailed, Raise, RaiseUnmarked
  <2> QED
    BY <2>1, <1>t DEF TakeJob, WorkerType
<1>2. CASE Busy(w)
  <2>k. ExpOf(w) = e
    BY <1>2, BusyKeepsJob
  <2>i. RunFitsStatus(w)
    BY <1>2, <1>c, <2>k DEF CalmRunsFit
  <2>u. worker[w].job \in JobsOf(e)
    BY <1>2, <2>k, BusyJobs
  <2>s. \/ row'[e].status = row[e].status
        \/ row[e].status = "uncommitted" /\ row'[e].status \in BeforeRun /\ UNCHANGED worker
        \/ Marks(w)
    <3>1. ~Creates(e)
      BY <2>u DEF Creates, CreateEnqueue, JobsOf, LifecycleInv, JobsNameExperiments
    <3>2. Decides(e) => row'[e].status \in BeforeRun
      BY <1>t DEF Decides, CreateCommit, CreateRollback, RowType, RowRecord, BeforeRun
    <3>3. ASSUME NEW v \in Workers, ExpOf(v) = e, Marks(v) PROVE Marks(w)
      <4>1. Busy(v)
        BY <3>3 DEF Marks, MarkRunning, MarkCompleted, MarkFailed, Busy
      <4> QED
        BY <1>2, <1>c, <2>k, <3>3, <4>1, CalmOneRunner
    <3> QED
      BY <3>1, <3>2, <3>3, CalmMoves
  <2> USE <2>k, <2>i, <1>t, <2>s DEF WorkerType, WorkerRecord
  <2>1. CASE Marks(w)
    <3>1. CASE MarkRunning(w)
      <4>1. worker'[w].pc = "check" /\ row'[e].status = "Running"
        BY <2>1, <3>1 DEF Marks, MarkRunning, MarkStatus, Goto, RowType, RowRecord
      <4> QED
        BY <4>1
    <3>2. CASE MarkCompleted(w)
      <4>1. worker'[w].pc = "result" /\ row'[e].status = "Completed"
        BY <2>1, <3>2 DEF Marks, MarkCompleted, MarkStatus, GotoEnd, RowType, RowRecord
      <4> QED
        BY <4>1
    <3>3. CASE MarkFailed(w)
      BY <3>3 DEF MarkFailed, Goto
    <3> QED
      BY <2>1, <3>1, <3>2, <3>3 DEF Marks
  <2>2. CASE worker'[w] = worker[w]
    BY <2>1, <2>2 DEF BeforeRun
  <2>3. CASE ~Marks(w) /\ worker'[w] # worker[w]
    <3>s. row'[e].status = row[e].status
      BY <2>3
    <3>1. CASE BeginJob(w)
      <4>1. row[e].status \in BeforeRun
        BY <1>2, <1>c, <2>u, <3>1, BusyJobs DEF CalmRunsFit, BeginJob
      <4> QED
        BY <3>1, <3>s, <4>1 DEF BeginJob, Goto
    <3>2. CASE ValidatePayload(w)
      BY <3>2, <3>s DEF ValidatePayload, Goto, RowExists, BeforeRun, RowStatus, ActiveStatus, RetryableStatus
    <3>3. CASE CheckCancelled(w)
      BY <3>3, <3>s DEF CheckCancelled, Goto, GotoEnd
    <3>4. CASE PersistPermutation(w)
      BY <3>4, <3>s DEF PersistPermutation, AfterPerm
    <3>5. CASE Raise(w) \/ RaiseUnmarked(w)
      BY <3>5, <3>s DEF Raise, RaiseUnmarked, Goto, GotoEnd
    <3>6. CASE MarkRunning(w) \/ MarkCompleted(w) \/ MarkFailed(w)
      <4>1. ~RowExists(e)
        BY <2>3, <3>6 DEF Marks
      <4>2. ~MarkRunning(w) /\ ~MarkCompleted(w)
        BY <4>1 DEF MarkRunning, MarkCompleted, RowExists, RowStatus, ActiveStatus
      <4> QED
        BY <3>6, <4>2 DEF MarkFailed, Goto
    <3>7. CASE \E j \in Jobs : TakeJob(w, j)
      BY <1>2, <3>7 DEF TakeJob, Busy
    <3> QED
      BY <1>m, <2>3, <3>1, <3>2, <3>3, <3>4, <3>5, <3>6, <3>7 DEF RunMoves
  <2> QED
    BY <2>1, <2>2, <2>3
<1> QED
  BY <1>1, <1>2

\* Nothing deletes its logs.
LEMMA CalmLogs ==
  ASSUME LifecycleInv, RequestsFit, CalmRunsFit, Next, ObserveCalm, NEW e \in Experiments, calm'[e]
  PROVE  row[e].logs \subseteq row'[e].logs
<1>t. RowType /\ CalmRequests(e) /\ row'[e].status # "deleted"
  BY TypeParts DEF LifecycleInv, ObserveCalm, CalmRunsFit
<1> USE <1>t DEF RowType, RowRecord
<1>1. ASSUME NEW d, NEW s, MarkStatus(d, s) PROVE row[e].logs \subseteq row'[e].logs
  BY <1>1 DEF MarkStatus
<1>2. ASSUME NEW w \in Workers, WorkerStep(w) PROVE row[e].logs \subseteq row'[e].logs
  BY <1>1, <1>2
  DEF WorkerStep, BeginJob, ValidatePayload, MarkRunning, CheckCancelled, PersistPermutation,
      MarkCompleted, MarkFailed, ReturnResult, ScheduleRetry
<1>3. ASSUME NEW r \in Requests, RequestStep(r) PROVE row[e].logs \subseteq row'[e].logs
  <2>1. CASE CreateCommit(r) \/ CreateRollback(r) \/ JobCancelMark(r)
    BY <2>1 DEF CreateCommit, CreateRollback, JobCancelMark
  <2>2. CASE RetryCommit(r)
    <3>1. req[r].exp # e
      BY <2>2 DEF RetryCommit, ReqAt, RequestsFit, Fits, CalmRequests
    <3> QED
      BY <2>2, <3>1 DEF RetryCommit
  <2>3. CASE Reconcile(r) \/ MarkCancelled(r)
    BY <2>3, <1>1 DEF Reconcile, MarkCancelled
  <2>4. CASE UNCHANGED row
    BY <2>4
  <2> QED
    BY <1>3, <2>1, <2>2, <2>3, <2>4
    DEF RequestStep, CreateSetMapping, RetryEnqueue, RetrySetMapping, RetryRollback, GetMapping,
        FetchMapped, ScanQueued, ScanStarted, FetchActive, JobCancelFindRow, JobCancelCheckRow, CancelQueued,
        CancelRunning, CancelSettled, DeleteMapping
<1>4. ASSUME NEW r \in Requests, UserRequest(r) PROVE row[e].logs \subseteq row'[e].logs
  <2>1. ASSUME NEW d \in Experiments, NEW j \in Jobs, CreateEnqueue(r, d, j)
        PROVE  row[e].logs \subseteq row'[e].logs
    BY <2>1 DEF CreateEnqueue
  <2> QED
    BY <1>4, <2>1 DEF UserRequest, RetryRead, ListRead, CancelRead, JobCancelRead
<1>5. ASSUME NEW d \in Experiments, Delete(d) PROVE row[e].logs \subseteq row'[e].logs
  BY <1>5 DEF Delete
<1>6. CASE UNCHANGED row
  BY <1>6
<1> QED
  BY <1>2, <1>3, <1>4, <1>5, <1>6
  DEF Next, TakeJob, Environment, Raise, RaiseUnmarked, StopJob, CrashWorker, AbandonJob

LEMMA WholeStep ==
  ASSUME LifecycleInv, RunsLogInOrder, RequestsFit, CalmRunsFit, CalmRunsAreWhole,
         Next, ObserveRuns, ObserveCalm
  PROVE  CalmRunsAreWhole'
<1>t. RowType /\ WorkerType
  BY TypeParts DEF LifecycleInv
<1>1. \A w \in Workers : wiped'[w] => Busy(w)'
  BY DEF ObserveRuns
<1>2. ASSUME NEW e \in Experiments, calm'[e], NEW w \in Workers, Busy(w)', ExpOf(w)' = e
      PROVE  ~wiped'[w]
  <2>1. row[e].logs \subseteq row'[e].logs /\ calm[e]
    BY <1>2, CalmLogs DEF ObserveCalm
  <2>2. ~wiped[w]
    <3>1. CASE Busy(w)
      BY <1>2, <2>1, <3>1, BusyKeepsJob DEF CalmRunsAreWhole
    <3>2. CASE ~Busy(w)
      BY <3>2 DEF CalmRunsAreWhole
    <3> QED
      BY <3>1, <3>2
  <2> QED
    BY <1>2, <2>1, <2>2 DEF ObserveRuns
<1>3. ASSUME NEW e \in Experiments, calm'[e], row'[e].status = "Completed"
      PROVE  Perms \subseteq row'[e].logs
  <2>1. row[e].logs \subseteq row'[e].logs /\ calm[e]
    BY <1>3, CalmLogs DEF ObserveCalm
  <2>2. CASE row[e].status = "Completed"
    BY <2>1, <2>2 DEF CalmRunsAreWhole
  <2>3. CASE row[e].status # "Completed"
    <3>1. PICK w \in Workers : ExpOf(w) = e /\ Marks(w)
      <4>1. ~Creates(e)
        BY <1>3, <1>t DEF Creates, CreateEnqueue, RowType, RowRecord
      <4>2. ASSUME NEW r \in Requests, CreateCommit(r) \/ CreateRollback(r), req[r].exp = e PROVE FALSE
        BY <1>3, <1>t, <4>2 DEF CreateCommit, CreateRollback, RowType, RowRecord
      <4> QED
        BY <1>3, <2>3, <4>1, <4>2, CalmMoves DEF Decides
    <3>2. At(w, "complete") /\ RowExists(e)
      BY <1>3, <1>t, <3>1
      DEF Marks, MarkRunning, MarkCompleted, MarkFailed, MarkStatus, RowType, RowRecord
    <3>3. ~wiped[w]
      BY <2>1, <3>1, <3>2 DEF CalmRunsAreWhole, Busy, At
    <3> QED
      BY <2>1, <3>1, <3>2, <3>3 DEF RunsLogInOrder
  <2> QED
    BY <2>2, <2>3
<1> QED
  BY <1>1, <1>2, <1>3 DEF CalmRunsAreWhole

LEMMA CalmStep ==
  ASSUME LifecycleInv, RequestsFit, CalmRunsFit, Next, ObserveCalm
  PROVE  CalmRunsFit'
<1> SUFFICES ASSUME NEW e \in Experiments, calm'[e]
             PROVE  /\ row'[e].status # "deleted"
                    /\ CalmRequests(e)'
                    /\ \A i, j \in JobsOf(e)' : i = j
                    /\ \A j \in JobsOf(e)' : job'[j].status \in {"queued", "dequeued"} => row'[e].status \in BeforeRun
                    /\ \A w \in Workers : Busy(w)' /\ ExpOf(w)' = e => RunFitsStatus(w)'
  BY DEF CalmRunsFit
<1>1. row'[e].status # "deleted" /\ CalmRequests(e)'
  BY DEF ObserveCalm, CalmRequests, ReqAt
<1>2. \A j \in JobsOf(e)' : job'[j].status \in {"queued", "dequeued"} => row'[e].status \in BeforeRun
  BY CalmWaits DEF JobsOf
<1> QED
  BY <1>1, <1>2, CalmJobs, CalmRuns
-----------------------------------------------------------------------------
(* The properties of runs. *)

RunInv ==
  /\ LifecycleInv
  /\ LateRunsStop
  /\ RunsLogInOrder
  /\ RequestsFit
  /\ CalmRunsFit
  /\ CalmRunsAreWhole

LEMMA RunInvInit == Init /\ ObserveInit => RunInv
<1> SUFFICES ASSUME Init, ObserveInit PROVE RunInv
  OBVIOUS
<1>1. LateRunsStop /\ RunsLogInOrder
  BY DEF Init, ObserveInit, LateRunsStop, RunsLogInOrder, IdleWorker, At
<1>2. RequestsFit
  BY FitsIdle DEF Init, RequestsFit
<1>3. CalmRunsFit
  BY JobQueueAssumption
  DEF Init, QueueInit, CalmRunsFit, CalmRequests, JobsOf, Busy, At, IdleWorker, IdleRequest
<1>4. CalmRunsAreWhole
  BY DEF Init, ObserveInit, CalmRunsAreWhole, Busy, At, IdleWorker
<1> QED
  BY <1>1, <1>2, <1>3, <1>4, LifecycleInvInit DEF RunInv

LEMMA RunInvNext == RunInv /\ [Next /\ ObserveRuns /\ ObserveCalm]_vars => RunInv'
<1> SUFFICES ASSUME RunInv, [Next /\ ObserveRuns /\ ObserveCalm]_vars PROVE RunInv'
  OBVIOUS
<1> USE DEF RunInv
<1>1. LifecycleInv'
  BY LifecycleInvNext DEF vars, sysVars
<1>2. CASE Next /\ ObserveRuns /\ ObserveCalm
  <2>1. RequestType
    BY TypeParts DEF LifecycleInv
  <2> QED
    BY <1>1, <1>2, <2>1, LateStep, LogsStep, FitStep, CalmStep, WholeStep
<1>3. CASE UNCHANGED vars
  <2>1. LateRunsStop' /\ RunsLogInOrder' /\ RequestsFit'
    BY <1>3 DEF vars, LateRunsStop, RunsLogInOrder, RequestsFit, ExpOf, At, RowExists
  <2>2. CalmRunsFit'
    BY <1>3 DEF vars, CalmRunsFit, CalmRequests, JobsOf, RunFitsStatus, Busy, ExpOf, At, ReqAt
  <2>3. CalmRunsAreWhole'
    BY <1>3 DEF vars, CalmRunsAreWhole, Busy, ExpOf, At
  <2> QED
    BY <1>1, <2>1, <2>2, <2>3
<1> QED
  BY <1>2, <1>3

\* The invariant holds for any number of everything and all endpoints.
THEOREM RunInvariant == RunSpec => []RunInv
BY RunInvInit, RunInvNext, PTL DEF RunSpec

\* However a cancellation falls between the steps of a run, of other runs and of
\* retries, at most the permutation under way is persisted after it.
THEOREM CancelBoundsWorkAlways == RunSpec => []CancelBoundsWork
<1>1. RunInv => CancelBoundsWork
  BY DEF RunInv, LateRunsStop, CancelBoundsWork
<1> QED
  BY <1>1, RunInvariant, PTL

\* A run that comes to mark_completed has logged every permutation, unless its
\* logs were deleted under it.
THEOREM UndisturbedRunIsWholeAlways == RunSpec => []UndisturbedRunIsWhole
<1>1. RunInv => UndisturbedRunIsWhole
  <2> SUFFICES ASSUME RunInv, NEW w \in Workers, At(w, "complete"), ~wiped[w], RowExists(ExpOf(w))
               PROVE  row[ExpOf(w)].logs = Perms
    BY DEF UndisturbedRunIsWhole
  <2>1. Perms \subseteq row[ExpOf(w)].logs
    BY DEF RunInv, RunsLogInOrder
  <2>2. ExpOf(w) \in Experiments /\ RowType
    BY TypeParts DEF RunInv, LifecycleInv, WorkersHoldTheirJobs, JobsNameExperiments, At, ExpOf
  <2> QED
    BY <2>1, <2>2 DEF RowType, RowRecord
<1> QED
  BY <1>1, RunInvariant, PTL

\* The changes of status the property allows.
CalmChange(e) ==
  \/ <<row[e].status, row'[e].status>> \in
       {<<"unused", "uncommitted">>, <<"uncommitted", "rolledback">>,
        <<"uncommitted", "Queued">>, <<"Queued", "Running">>,
        <<"Queued", "Failed">>, <<"Running", "Completed">>,
        <<"Running", "Failed">>}
  \/ /\ <<row[e].status, row'[e].status>> = <<"Completed", "Failed">>
     /\ row[e].logs = Perms
     /\ \E w \in Workers : At(w, "fail") /\ ExpOf(w) = e

LEMMA CalmPath ==
  ASSUME RunInv, Next, ObserveCalm, NEW e \in Experiments, calm'[e], row'[e].status # row[e].status
  PROVE  CalmChange(e)
<1>t. RowType /\ calm[e]
  BY TypeParts DEF RunInv, LifecycleInv, ObserveCalm
<1>1. CASE Creates(e)
  BY <1>1, <1>t DEF Creates, CreateEnqueue, RowType, RowRecord, CalmChange
<1>2. CASE Decides(e) /\ row[e].status = "uncommitted"
  BY <1>2, <1>t DEF Decides, CreateCommit, CreateRollback, RowType, RowRecord, CalmChange
<1>3. ASSUME NEW w \in Workers, ExpOf(w) = e, Marks(w)
      PROVE  CalmChange(e)
  <2>1. Busy(w)
    BY <1>3 DEF Marks, MarkRunning, MarkCompleted, MarkFailed, Busy, At
  <2>2. RunFitsStatus(w)
    BY <1>t, <1>3, <2>1 DEF RunInv, CalmRunsFit
  <2>3. CASE MarkRunning(w)
    BY <1>3, <2>2, <2>3, <1>t DEF RunFitsStatus, MarkRunning, MarkStatus, Marks, At, RowType, RowRecord, CalmChange
  <2>4. CASE MarkCompleted(w)
    BY <1>3, <2>2, <2>4, <1>t DEF RunFitsStatus, MarkCompleted, MarkStatus, Marks, At, RowType, RowRecord, CalmChange
  <2>5. CASE MarkFailed(w)
    <3>1. At(w, "fail") /\ row'[e].status = "Failed" /\ row[e].status \in {"Queued", "Running", "Completed"}
      BY <1>3, <2>2, <2>5, <1>t DEF RunFitsStatus, MarkFailed, MarkStatus, Marks, At, RowType, RowRecord
    <3>2. row[e].status = "Completed" => row[e].logs = Perms
      BY <1>t DEF RunInv, CalmRunsAreWhole, RowType, RowRecord
    <3> QED
      BY <1>3, <3>1, <3>2 DEF CalmChange
  <2> QED
    BY <1>3, <2>3, <2>4, <2>5 DEF Marks
<1> QED
  BY <1>1, <1>2, <1>3, CalmMoves DEF RunInv

\* Left alone by its owner and by reconciliation, an experiment goes from Queued
\* to Running to Completed or Failed, whatever crashes and expires; a Completed
\* one fails yet if its own run raises after the commit, and is whole then.
THEOREM UndisturbedPathAlways == RunSpec => UndisturbedPath
<1>1. RunInv /\ [Next /\ ObserveRuns /\ ObserveCalm]_vars =>
        [\A e \in Experiments :
           calm'[e] /\ row'[e].status # row[e].status
             => \/ <<row[e].status, row'[e].status>> \in
                  {<<"unused", "uncommitted">>, <<"uncommitted", "rolledback">>,
                   <<"uncommitted", "Queued">>, <<"Queued", "Running">>,
                   <<"Queued", "Failed">>, <<"Running", "Completed">>,
                   <<"Running", "Failed">>}
                \/ /\ <<row[e].status, row'[e].status>> = <<"Completed", "Failed">>
                   /\ row[e].logs = Perms
                   /\ \E w \in Workers : At(w, "fail") /\ ExpOf(w) = e]_vars
  BY CalmPath DEF CalmChange
<1> QED
  BY <1>1, RunInvariant, PTL DEF RunSpec, UndisturbedPath
-----------------------------------------------------------------------------
(* A lookup misses no job that was visible all the time. *)

\* A request comes to its scans, and to what follows them, by these steps.
ScanMoves(r) ==
  \/ req'[r] = req[r]
  \/ req'[r].pc \notin {"scan_started", "fetch", "reconcile"}
  \/ ScanQueued(r) \/ ScanStarted(r)
  \/ FetchActive(r) /\ {j \in req[r].seen : Stored(j)} = {} /\ req'[r].pc = "reconcile"

LEMMA ScanSteps ==
  ASSUME RequestType, Next, NEW r \in Requests
  PROVE  ScanMoves(r)
<1> USE DEF ScanMoves, RequestType, RequestRecord
<1>1. ASSUME NEW q \in Requests, RequestStep(q) PROVE ScanMoves(r)
  <2>o. ASSUME NEW x, req' = [req EXCEPT ![q] = x], x.pc \notin {"scan_started", "fetch", "reconcile"}
        PROVE  ScanMoves(r)
    BY <2>o
  <2>1. Respond(q) => ScanMoves(r)
    BY <2>o DEF Respond, IdleRequest
  <2>2. ASSUME NEW pc \in {"create_commit", "retry_commit", "job_check", "act", "unmap"}, Advance(q, pc)
        PROVE  ScanMoves(r)
    BY <2>2 DEF Advance
  <2>3. ProceedToMark(q) => ScanMoves(r)
    BY DEF ProceedToMark
  <2>4. NotCancelled(q) => ScanMoves(r)
    BY <2>1, <2>3 DEF NotCancelled
  <2>5. ASSUME NEW j, Found(q, j) PROVE ScanMoves(r)
    BY <2>5 DEF Found, IdleRequest
  <2>6. CASE \/ CreateCommit(q) \/ CreateRollback(q) \/ RetryCommit(q) \/ RetryRollback(q)
             \/ Reconcile(q) \/ MarkCancelled(q) \/ JobCancelMark(q)
    BY <2>6, <2>1
    DEF CreateCommit, CreateRollback, RetryCommit, RetryRollback, Reconcile, MarkCancelled, JobCancelMark
  <2>7. CASE CreateSetMapping(q) \/ RetrySetMapping(q) \/ JobCancelFindRow(q) \/ JobCancelCheckRow(q)
    BY <2>7, <2>1, <2>2 DEF CreateSetMapping, RetrySetMapping, JobCancelFindRow, JobCancelCheckRow
  <2>8. CASE (\E j \in Jobs : RetryEnqueue(q, j)) \/ GetMapping(q)
    BY <2>8 DEF RetryEnqueue, GetMapping
  <2>9. CASE FetchMapped(q)
    BY <2>9, <2>5 DEF FetchMapped
  <2>10. CASE ScanQueued(q) \/ ScanStarted(q)
    <3>1. CASE q = r
      BY <2>10, <3>1
    <3>2. CASE q # r
      BY <2>10, <3>2 DEF ScanQueued, ScanStarted
    <3> QED
      BY <3>1, <3>2
  <2>11. CASE FetchActive(q)
    <3> DEFINE fetchable == {j \in req[q].seen : Stored(j)}
    <3>1. ASSUME fetchable # {} PROVE ScanMoves(r)
      BY <2>11, <3>1, <2>5 DEF FetchActive
    <3>2. CASE fetchable = {} /\ req[q].op # "refresh"
      BY <2>11, <3>2, <2>4 DEF FetchActive, NotFound
    <3>3. CASE fetchable = {} /\ req[q].op = "refresh"
      BY <2>11, <3>3 DEF FetchActive, NotFound
    <3> QED
      BY <3>1, <3>2, <3>3
  <2>12. CASE CancelQueued(q) \/ CancelRunning(q) \/ CancelSettled(q) \/ DeleteMapping(q)
    BY <2>12, <2>1, <2>2, <2>3, <2>4 DEF CancelQueued, CancelRunning, CancelSettled, DeleteMapping
  <2> QED
    BY <1>1, <2>6, <2>7, <2>8, <2>9, <2>10, <2>11, <2>12 DEF RequestStep
<1>2. ASSUME NEW q \in Requests, UserRequest(q) PROVE ScanMoves(r)
  <2> USE DEF IdleRequest
  <2>1. ASSUME NEW e \in Experiments, NEW j \in Jobs, CreateEnqueue(q, e, j) PROVE ScanMoves(r)
    BY <2>1 DEF CreateEnqueue
  <2>2. ASSUME NEW e \in Experiments, RetryRead(q, e) PROVE ScanMoves(r)
    BY <2>2 DEF RetryRead
  <2>3. ASSUME NEW e \in Experiments, ListRead(q, e) PROVE ScanMoves(r)
    BY <2>3 DEF ListRead
  <2>4. ASSUME NEW e \in Experiments, CancelRead(q, e) PROVE ScanMoves(r)
    <3> DEFINE x == [IdleRequest EXCEPT !.pc = "map_get", !.op = "cancel", !.exp = e,
                                        !.active = row[e].status \in ActiveStatus]
    <3>1. x.pc = "map_get"
      OBVIOUS
    <3>2. req' = [req EXCEPT ![q] = x]
      BY <2>4, Zenon DEF CancelRead
    <3> HIDE DEF x
    <3> QED
      BY <3>1, <3>2
  <2>5. ASSUME NEW j \in Jobs, JobCancelRead(q, j) PROVE ScanMoves(r)
    BY <2>5 DEF JobCancelRead
  <2> QED
    BY <1>2, <2>1, <2>2, <2>3, <2>4, <2>5 DEF UserRequest
<1>3. CASE UNCHANGED req
  BY <1>3
<1> QED
  BY <1>1, <1>2, <1>3, SystemKeepsRequests DEF Next

\* What a lookup watches was visible before and is now, and started if it was.
LEMMA WatchedStays ==
  ASSUME LifecycleInv, RequestsFit, LookupsSeeAll, Next, ObserveLookups, NEW r \in Requests,
         ~ReqAt(r, "idle"), req'[r].exp = req[r].exp, NEW j \in watch'[r]
  PROVE  /\ j \in watch[r] /\ j \in VisibleFor(req[r].exp)'
         /\ j \in StartedFor(req[r].exp) => j \in StartedFor(req[r].exp)'
<1>t. JobMoves /\ QueueMoves
  BY JobSteps, QueueSteps DEF LifecycleInv
<1>1. j \in watch[r] /\ j \in VisibleFor(req[r].exp)'
  BY DEF ObserveLookups, ReqAt
<1>2. ASSUME j \in StartedFor(req[r].exp) PROVE j \in StartedFor(req[r].exp)'
  <2>1. j \in Jobs /\ job'[j].status # "queued"
    BY <1>t, <1>2 DEF StartedFor, QueueMoves
  <2> QED
    BY <1>1, <2>1 DEF VisibleFor, QueuedFor, StartedFor
<1> QED
  BY <1>1, <1>2

LEMMA LookupStep ==
  ASSUME LifecycleInv, RequestsFit, LookupsSeeAll, Next, ObserveLookups
  PROVE  LookupsSeeAll'
<1> SUFFICES ASSUME NEW r \in Requests
             PROVE  /\ watch'[r] \subseteq IF req'[r].pc \in LookupPC THEN VisibleFor(req[r].exp)' ELSE {}
                    /\ req'[r].pc = "scan_started" => watch'[r] \subseteq req'[r].seen \cup StartedFor(req[r].exp)'
                    /\ req'[r].pc = "fetch" => watch'[r] \subseteq req'[r].seen
                    /\ req'[r].pc = "reconcile" => watch'[r] = {}
  BY DEF LookupsSeeAll, ReqAt
<1>t. RequestType
  BY TypeParts DEF LifecycleInv
<1>m. ScanMoves(r)
  BY <1>t, ScanSteps
<1>i. /\ ReqAt(r, "scan_started") => watch[r] \subseteq req[r].seen \cup StartedFor(req[r].exp)
      /\ ReqAt(r, "fetch") => watch[r] \subseteq req[r].seen
      /\ ReqAt(r, "reconcile") => watch[r] = {}
  BY DEF LookupsSeeAll
<1>v. watch'[r] \subseteq IF req'[r].pc \in LookupPC THEN VisibleFor(req[r].exp)' ELSE {}
  BY DEF ObserveLookups
<1> USE <1>i, <1>v
<1>1. CASE req'[r] = req[r]
  <2>1. CASE req[r].pc \in {"scan_started", "fetch", "reconcile"}
    <3>1. \A j \in watch'[r] : /\ j \in watch[r]
                               /\ j \in StartedFor(req[r].exp) => j \in StartedFor(req[r].exp)'
      BY <1>1, <2>1, WatchedStays DEF ReqAt
    <3> QED
      BY <1>1, <2>1, <3>1 DEF ReqAt
  <2>2. CASE req[r].pc \notin {"scan_started", "fetch", "reconcile"}
    BY <1>1, <2>2
  <2> QED
    BY <2>1, <2>2
<1>2. CASE req'[r].pc \notin {"scan_started", "fetch", "reconcile"}
  BY <1>2
<1>3. CASE ScanQueued(r)
  <2>1. /\ req'[r].pc = "scan_started" /\ req'[r].exp = req[r].exp
        /\ req'[r].seen = QueuedFor(req[r].exp) /\ UNCHANGED job
    BY <1>3, <1>t DEF ScanQueued, RequestType, RequestRecord
  <2>2. VisibleFor(req[r].exp)' \subseteq QueuedFor(req[r].exp) \cup StartedFor(req[r].exp)'
    BY <2>1 DEF VisibleFor, QueuedFor, StartedFor
  <2> QED
    BY <2>1, <2>2 DEF LookupPC
<1>4. CASE ScanStarted(r)
  <2>1. /\ req'[r].pc = "fetch" /\ req'[r].exp = req[r].exp /\ ReqAt(r, "scan_started")
        /\ req'[r].seen = req[r].seen \cup StartedFor(req[r].exp)
    BY <1>4, <1>t DEF ScanStarted, RequestType, RequestRecord
  <2>2. watch'[r] \subseteq watch[r]
    BY <2>1, WatchedStays DEF ReqAt
  <2> QED
    BY <2>1, <2>2
<1>5. CASE FetchActive(r) /\ {j \in req[r].seen : Stored(j)} = {} /\ req'[r].pc = "reconcile"
  <2>1. ReqAt(r, "fetch") /\ UNCHANGED job
    BY <1>5 DEF FetchActive
  <2>2. ASSUME NEW j \in watch'[r] PROVE FALSE
    <3>1. j \in watch[r] /\ j \in VisibleFor(req[r].exp)'
      BY <1>5, <2>1 DEF ObserveLookups, ReqAt, LookupPC
    <3>2. Stored(j)
      BY <2>1, <3>1 DEF VisibleFor, QueuedFor, StartedFor, Stored
    <3> QED
      BY <1>5, <2>1, <3>1, <3>2
  <2> QED
    BY <1>5, <2>2
<1> QED
  BY <1>m, <1>1, <1>2, <1>3, <1>4, <1>5 DEF ScanMoves

LookupInv == LifecycleInv /\ RequestsFit /\ LookupsSeeAll

LEMMA LookupInvInit == Init /\ watch = [r \in Requests |-> {}] => LookupInv
<1> SUFFICES ASSUME Init, watch = [r \in Requests |-> {}] PROVE LookupInv
  OBVIOUS
<1>1. RequestsFit
  BY FitsIdle DEF Init, RequestsFit
<1>2. LookupsSeeAll
  BY DEF Init, LookupsSeeAll, IdleRequest, ReqAt
<1> QED
  BY <1>1, <1>2, LifecycleInvInit DEF LookupInv

LEMMA LookupInvNext ==
  LookupInv /\ [Next /\ ObserveLookups]_<<job, mapping, stopping, row, worker, req, watch>> => LookupInv'
<1> SUFFICES ASSUME LookupInv, [Next /\ ObserveLookups]_<<job, mapping, stopping, row, worker, req, watch>>
             PROVE  LookupInv'
  OBVIOUS
<1> USE DEF LookupInv
<1>1. LifecycleInv'
  BY LifecycleInvNext DEF sysVars
<1>2. CASE Next /\ ObserveLookups
  <2>1. RequestType
    BY TypeParts DEF LifecycleInv
  <2> QED
    BY <1>1, <1>2, <2>1, FitStep, LookupStep
<1>3. CASE UNCHANGED <<job, mapping, stopping, row, worker, req, watch>>
  BY <1>1, <1>3 DEF RequestsFit, LookupsSeeAll, VisibleFor, QueuedFor, StartedFor, ReqAt
<1> QED
  BY <1>2, <1>3

\* However jobs move between their list and the registry while it scans them, a
\* list request fails an experiment for want of a job only if at some moment
\* since it began none was to be seen.
THEOREM ReconcileOnlyAfterGapAlways == LookupSpec => []ReconcileOnlyAfterGap
<1>1. LookupInv => ReconcileOnlyAfterGap
  BY DEF LookupInv, LookupsSeeAll, ReconcileOnlyAfterGap
<1> QED
  BY <1>1, LookupInvInit, LookupInvNext, PTL DEF LookupSpec
=============================================================================
