-------------------------- MODULE LifecycleProofs ---------------------------
(***************************************************************************)
(* The safety properties of LifecycleProperties hold for any number of     *)
(* jobs, experiments, workers, request slots and permutations, with every  *)
(* endpoint in use.                                                        *)
(***************************************************************************)
EXTENDS LifecycleProperties, TLAPS

-----------------------------------------------------------------------------
(* Types of the helpers. *)

WorkerType == worker \in [Workers -> WorkerRecord]
RowType    == row \in [Experiments -> RowRecord]
RequestType == req \in [Requests -> RequestRecord]

LEMMA GotoType ==
  ASSUME NEW w \in Workers, NEW pc \in WorkerPC, WorkerType, Goto(w, pc)
  PROVE  WorkerType'
  BY DEF WorkerType, Goto, WorkerRecord

LEMMA GotoEndType ==
  ASSUME NEW w \in Workers, NEW pc \in WorkerPC, WorkerType, GotoEnd(w, pc)
  PROVE  WorkerType'
<1>1. 1 \in Perms
  BY LifecycleAssumption DEF Perms
<1> QED
  BY <1>1 DEF WorkerType, GotoEnd, WorkerRecord

LEMMA IdleType == IdleWorker \in WorkerRecord
  BY LifecycleAssumption DEF IdleWorker, WorkerRecord, WorkerPC, Perms

LEMMA AfterPermType ==
  ASSUME NEW w \in Workers, WorkerType, AfterPerm(w, worker[w].perm)
  PROVE  WorkerType'
<1> DEFINE k == worker[w].perm
<1>1. k \in Perms /\ (k < NPerms => k + 1 \in Perms)
  BY LifecycleAssumption DEF WorkerType, WorkerRecord, Perms
<1>2. {"check", "complete"} \subseteq WorkerPC
  BY DEF WorkerPC
<1>3. worker[w] \in WorkerRecord
  BY DEF WorkerType
<1>4. [worker[w] EXCEPT !.pc = "complete"] \in WorkerRecord
  BY <1>2, <1>3 DEF WorkerRecord
<1>5. CASE k < NPerms
  <2>1. [worker[w] EXCEPT !.pc = "check", !.perm = k + 1] \in WorkerRecord
    BY <1>1, <1>2, <1>3, <1>5 DEF WorkerRecord
  <2> QED
    BY <2>1, <1>5 DEF WorkerType, AfterPerm
<1>6. CASE ~(k < NPerms)
  BY <1>4, <1>6 DEF WorkerType, AfterPerm
<1> QED
  BY <1>5, <1>6

LEMMA MarkStatusType ==
  ASSUME NEW e, NEW s \in RowStatus, RowType, MarkStatus(e, s)
  PROVE  RowType'
<1>1. CASE RowExists(e)
  <2>1. row' = [row EXCEPT ![e].status = s]
    BY <1>1 DEF MarkStatus
  <2> QED
    BY <2>1 DEF RowType, RowRecord
<1>2. CASE ~RowExists(e)
  BY <1>2 DEF MarkStatus, RowType
<1> QED
  BY <1>1, <1>2

LEMMA LeaveType ==
  ASSUME NEW j, NEW s \in JobStatus, QueueTypeOK, Leave(j, s)
  PROVE  QueueTypeOK'
  BY DEF QueueTypeOK, Leave, JobRecord

\* Every status word of RQ is reported as one of the four job states.
LEMMA NormalizeType == ASSUME NEW s PROVE NormalizeJobState(s) \in JobState
  BY DEF NormalizeJobState, JobState

LEMMA RespondType ==
  ASSUME NEW r \in Requests, RequestType, Respond(r)
  PROVE  RequestType'
  BY DEF RequestType, Respond, IdleRequest, RequestRecord, RequestPC, RequestOp

LEMMA AdvanceType ==
  ASSUME NEW r \in Requests, NEW pc \in RequestPC, RequestType, Advance(r, pc)
  PROVE  RequestType'
  BY DEF RequestType, Advance, RequestRecord

LEMMA ProceedType ==
  ASSUME NEW r \in Requests, RequestType, ProceedToMark(r)
  PROVE  RequestType'
<1> DEFINE x == [req[r] EXCEPT !.pc = "mark_cancelled", !.job = NoJob,
                               !.state = "none", !.active = FALSE, !.seen = {}]
<1>1. req[r] \in RequestRecord
  BY DEF RequestType
<1>2. x \in RequestRecord
  BY <1>1 DEF RequestRecord, RequestPC
<1> QED
  BY <1>2 DEF ProceedToMark, RequestType

LEMMA NotCancelledType ==
  ASSUME NEW r \in Requests, RequestType, NotCancelled(r)
  PROVE  RequestType'
  BY ProceedType, RespondType DEF NotCancelled

LEMMA FoundType ==
  ASSUME NEW r \in Requests, NEW j \in Jobs, RequestType, Found(r, j)
  PROVE  RequestType'
<1>1. CASE req[r].op = "refresh"
  BY <1>1, RespondType DEF Found, Respond
<1>2. CASE req[r].op # "refresh"
  <2> DEFINE x == [req[r] EXCEPT !.pc = "act", !.job = j, !.seen = {},
                                 !.state = NormalizeJobState(job[j].status)]
  <2>1. req[r] \in RequestRecord
    BY DEF RequestType
  <2>2. x \in RequestRecord
    BY <2>1, NormalizeType DEF RequestRecord, RequestPC
  <2> QED
    BY <2>2, <1>2 DEF Found, RequestType
<1> QED
  BY <1>1, <1>2

LEMMA NotFoundType ==
  ASSUME NEW r \in Requests, RequestType, NotFound(r)
  PROVE  RequestType'
<1>1. CASE req[r].op = "refresh"
  BY <1>1 DEF NotFound, RequestType, RequestRecord, RequestPC
<1>2. CASE req[r].op # "refresh"
  BY <1>2, NotCancelledType DEF NotFound
<1> QED
  BY <1>1, <1>2

-----------------------------------------------------------------------------
(* Every action keeps the types. *)

LEMMA TypeInit == Init => TypeOK
  BY LifecycleAssumption
  DEF Init, QueueInit, TypeOK, QueueTypeOK, IdleWorker, IdleRequest, WorkerPC, RequestPC,
      RequestOp, JobStatus, NoRowStatus, Perms, JobRecord, RowRecord, WorkerRecord, RequestRecord

\* Request steps leave the workers alone.
LEMMA RequestKeepsWorkers ==
  ASSUME NEW r \in Requests, RequestStep(r) \/ UserRequest(r)
  PROVE  UNCHANGED worker
<1>1. CASE RequestStep(r)
  BY <1>1
  DEF RequestStep, CreateSetMapping, CreateCommit, CreateRollback, RetryEnqueue, RetrySetMapping,
      RetryCommit, RetryRollback, GetMapping, FetchMapped, ScanQueued, ScanStarted, FetchActive,
      Reconcile, JobCancelFindRow, JobCancelCheckRow, CancelQueued, CancelRunning, CancelSettled, DeleteMapping,
      MarkCancelled, JobCancelMark
<1>2. CASE UserRequest(r)
  BY <1>2 DEF UserRequest, CreateEnqueue, RetryRead, ListRead, CancelRead, JobCancelRead
<1> QED
  BY <1>1, <1>2

\* TypeOK in terms of the parts above.
LEMMA TypeParts == TypeOK <=> QueueTypeOK /\ RowType /\ WorkerType /\ RequestType
  BY DEF TypeOK, RowType, WorkerType, RequestType

LEMMA TypeTake ==
  ASSUME TypeOK, NEW w \in Workers, NEW j \in Jobs, TakeJob(w, j)
  PROVE  TypeOK'
<1> USE DEF TakeJob
<1>1. QueueTypeOK'
  BY DEF TypeOK, QueueTypeOK, Dequeue, JobRecord, JobStatus
<1>2. WorkerType'
  BY LifecycleAssumption DEF TypeOK, WorkerType, WorkerRecord, WorkerPC, Perms
<1> QED
  BY <1>1, <1>2 DEF TypeOK, WorkerType

LEMMA TypeWorker ==
  ASSUME TypeOK, NEW w \in Workers, WorkerStep(w)
  PROVE  TypeOK'
<1>p. /\ QueueTypeOK /\ RowType /\ WorkerType /\ RequestType
      /\ {"validate", "mark", "raise", "check", "fail", "result", "return", "persist"} \subseteq WorkerPC
      /\ {"Running", "Completed", "Failed"} \subseteq RowStatus
      /\ {"finished", "scheduled"} \subseteq JobStatus
  BY TypeParts DEF WorkerPC, RowStatus, ActiveStatus, RetryableStatus, JobStatus
<1>i. ASSUME worker' = [worker EXCEPT ![w] = IdleWorker] PROVE WorkerType'
  BY <1>p, <1>i, IdleType DEF WorkerType
<1>s. /\ UNCHANGED req => RequestType'
      /\ UNCHANGED row => RowType'
      /\ UNCHANGED <<job, mapping, stopping>> => QueueTypeOK'
  BY <1>p DEF RequestType, RowType, QueueTypeOK
<1>t. QueueTypeOK' /\ RowType' /\ WorkerType' /\ RequestType' => TypeOK'
  BY DEF TypeOK, RowType, WorkerType, RequestType
<1>1. CASE BeginJob(w)
  <2>1. QueueTypeOK'
    BY <1>1, <1>p DEF BeginJob, Register, QueueTypeOK, JobRecord, JobStatus
  <2> QED
    BY <1>1, <2>1, <1>p, <1>s, <1>t, GotoType DEF BeginJob
<1>2. CASE ValidatePayload(w)
  BY <1>2, <1>p, <1>s, <1>t, GotoType DEF ValidatePayload
<1>3. CASE MarkRunning(w)
  BY <1>3, <1>p, <1>s, <1>t, GotoType, MarkStatusType DEF MarkRunning
<1>4. CASE CheckCancelled(w)
  BY <1>4, <1>p, <1>s, <1>t, GotoType, GotoEndType DEF CheckCancelled
<1>5. CASE PersistPermutation(w)
  <2>1. RowType'
    <3>1. worker[w].perm \in Perms
      BY <1>p DEF WorkerType, WorkerRecord
    <3> QED
      BY <1>5, <1>p, <3>1 DEF PersistPermutation, RowType, RowRecord
  <2> QED
    BY <1>5, <2>1, <1>p, <1>s, <1>t, AfterPermType DEF PersistPermutation
<1>6. CASE MarkCompleted(w)
  BY <1>6, <1>p, <1>s, <1>t, GotoEndType, MarkStatusType DEF MarkCompleted
<1>7. CASE MarkFailed(w)
  BY <1>7, <1>p, <1>s, <1>t, GotoType, MarkStatusType DEF MarkFailed
<1>8. CASE ReturnResult(w)
  BY <1>8, <1>p, <1>s, <1>t, <1>i, LeaveType DEF ReturnResult
<1>9. CASE ScheduleRetry(w)
  BY <1>9, <1>p, <1>s, <1>t, <1>i, LeaveType DEF ScheduleRetry
<1> QED
  BY <1>1, <1>2, <1>3, <1>4, <1>5, <1>6, <1>7, <1>8, <1>9 DEF WorkerStep

LEMMA TypeRequest ==
  ASSUME TypeOK, RequestsHaveTargets, NEW r \in Requests, RequestStep(r)
  PROVE  TypeOK'
<1>p. /\ QueueTypeOK /\ RowType /\ RequestType
      /\ req[r] \in RequestRecord
      /\ RequestPC = RequestPC \cup {"create_commit", "retry_commit", "job_check", "act", "unmap"}
      /\ {"Queued", "Failed", "Cancelled"} \subseteq RowStatus
  BY TypeParts DEF RequestType, RequestPC, RowStatus, ActiveStatus, RetryableStatus
<1>w. worker' = worker
  BY RequestKeepsWorkers
<1>s. /\ UNCHANGED row => RowType'
      /\ UNCHANGED <<job, mapping, stopping>> => QueueTypeOK'
  BY <1>p DEF RowType, QueueTypeOK
<1>t. QueueTypeOK' /\ RowType' /\ RequestType' => TypeOK'
  BY <1>w DEF TypeOK, RowType, RequestType
<1>m. SetMapping(req[r].exp, req[r].job) => QueueTypeOK'
  BY <1>p DEF SetMapping, QueueTypeOK, RequestRecord
<1>1. CASE CreateSetMapping(r)
  BY <1>1, <1>p, <1>s, <1>t, <1>m, AdvanceType DEF CreateSetMapping
<1>2. CASE CreateCommit(r)
  <2>1. RowType'
    BY <1>2, <1>p DEF CreateCommit, RowType, RowRecord
  <2> QED
    BY <1>2, <2>1, <1>p, <1>s, <1>t, RespondType DEF CreateCommit
<1>3. CASE CreateRollback(r)
  <2>1. RowType'
    BY <1>3, <1>p DEF CreateRollback, RowType, RowRecord, NoRowStatus
  <2> QED
    BY <1>3, <2>1, <1>p, <1>s, <1>t, RespondType DEF CreateRollback
<1>4. ASSUME NEW j \in Jobs, RetryEnqueue(r, j) PROVE TypeOK'
  <2>1. QueueTypeOK'
    BY <1>4, <1>p DEF RetryEnqueue, Enqueue, QueueTypeOK, JobRecord, JobStatus, RequestRecord
  <2>2. RequestType'
    BY <1>4, <1>p DEF RetryEnqueue, RequestType, RequestRecord, RequestPC
  <2> QED
    BY <1>4, <2>1, <2>2, <1>s, <1>t DEF RetryEnqueue
<1>5. CASE RetrySetMapping(r)
  BY <1>5, <1>p, <1>s, <1>t, <1>m, AdvanceType DEF RetrySetMapping
<1>6. CASE RetryCommit(r)
  <2>1. RowType'
    BY <1>6, <1>p DEF RetryCommit, RowType, RowRecord
  <2> QED
    BY <1>6, <2>1, <1>p, <1>s, <1>t, RespondType DEF RetryCommit
<1>7. CASE RetryRollback(r)
  BY <1>7, <1>p, <1>s, <1>t, RespondType DEF RetryRollback
<1>8. CASE GetMapping(r)
  <2>1. mapping[req[r].exp] \in Jobs \cup {NoJob}
    BY <1>8, <1>p DEF GetMapping, ReqAt, RequestsHaveTargets, QueueTypeOK
  <2>2. RequestType'
    BY <1>8, <1>p, <2>1 DEF GetMapping, RequestType, RequestRecord, RequestPC
  <2> QED
    BY <1>8, <2>2, <1>s, <1>t DEF GetMapping
<1>9. CASE FetchMapped(r)
  <2>1. req[r].job \in Jobs
    BY <1>9 DEF FetchMapped, ReqAt, RequestsHaveTargets
  <2>2. CASE Stored(req[r].job)
    BY <1>9, <2>1, <2>2, <1>p, <1>s, <1>t, FoundType DEF FetchMapped
  <2>3. CASE ~Stored(req[r].job)
    <3>1. RequestType'
      BY <1>9, <2>3, <1>p DEF FetchMapped, RequestType, RequestRecord, RequestPC
    <3> QED
      BY <1>9, <3>1, <1>s, <1>t DEF FetchMapped
  <2> QED
    BY <2>2, <2>3
<1>10. CASE ScanQueued(r)
  <2>1. RequestType'
    BY <1>10, <1>p DEF ScanQueued, QueuedFor, RequestType, RequestRecord, RequestPC
  <2> QED
    BY <1>10, <2>1, <1>s, <1>t DEF ScanQueued
<1>11. CASE ScanStarted(r)
  <2>1. RequestType'
    BY <1>11, <1>p DEF ScanStarted, StartedFor, RequestType, RequestRecord, RequestPC
  <2> QED
    BY <1>11, <2>1, <1>s, <1>t DEF ScanStarted
<1>12. CASE FetchActive(r)
  <2>1. req[r].seen \subseteq Jobs
    BY <1>p DEF RequestRecord
  <2>2. RequestType'
    BY <1>12, <1>p, <2>1, FoundType, NotFoundType DEF FetchActive
  <2> QED
    BY <1>12, <2>2, <1>s, <1>t DEF FetchActive
<1>13. CASE Reconcile(r)
  BY <1>13, <1>p, <1>s, <1>t, MarkStatusType, RespondType DEF Reconcile
<1>14. CASE JobCancelFindRow(r) \/ JobCancelCheckRow(r)
  BY <1>14, <1>p, <1>s, <1>t, AdvanceType, RespondType DEF JobCancelFindRow, JobCancelCheckRow
<1>15. CASE CancelQueued(r)
  <2>1. QueueTypeOK'
    BY <1>15, <1>p, <1>s DEF CancelQueued, RemoveQueued, QueueTypeOK, JobRecord, JobStatus
  <2>2. RequestType'
    BY <1>15, <1>p, ProceedType, NotCancelledType DEF CancelQueued
  <2> QED
    BY <1>15, <2>1, <2>2, <1>s, <1>t DEF CancelQueued
<1>16. CASE CancelRunning(r)
  <2>1. QueueTypeOK'
    BY <1>16, <1>p, <1>s DEF CancelRunning, SendStop, QueueTypeOK, ReqAt, RequestsHaveTargets
  <2>2. RequestType'
    BY <1>16, <1>p, AdvanceType, RespondType, NotCancelledType DEF CancelRunning
  <2> QED
    BY <1>16, <2>1, <2>2, <1>s, <1>t DEF CancelRunning
<1>17. CASE CancelSettled(r)
  BY <1>17, <1>p, <1>s, <1>t, NotCancelledType DEF CancelSettled
<1>18. CASE DeleteMapping(r)
  <2>1. QueueTypeOK'
    BY <1>18, <1>p DEF DeleteMapping, DeleteMappingFor, QueueTypeOK
  <2> QED
    BY <1>18, <2>1, <1>p, <1>s, <1>t, ProceedType DEF DeleteMapping
<1>19. CASE MarkCancelled(r)
  BY <1>19, <1>p, <1>s, <1>t, MarkStatusType, RespondType DEF MarkCancelled
<1>20. CASE JobCancelMark(r)
  <2>1. RowType'
    BY <1>20, <1>p DEF JobCancelMark, RowType, RowRecord
  <2> QED
    BY <1>20, <2>1, <1>p, <1>s, <1>t, RespondType DEF JobCancelMark
<1> QED
  BY <1>1, <1>2, <1>3, <1>4, <1>5, <1>6, <1>7, <1>8, <1>9, <1>10, <1>11, <1>12, <1>13,
     <1>14, <1>15, <1>16, <1>17, <1>18, <1>19, <1>20 DEF RequestStep

LEMMA TypeUser ==
  ASSUME TypeOK, JobsNameExperiments, NEW r \in Requests, UserRequest(r)
  PROVE  TypeOK'
<1>p. /\ QueueTypeOK /\ RowType /\ RequestType
      /\ IdleRequest \in RequestRecord
  BY TypeParts DEF IdleRequest, RequestRecord, RequestPC, RequestOp
<1>s. /\ UNCHANGED row => RowType'
      /\ UNCHANGED <<job, mapping, stopping>> => QueueTypeOK'
  BY <1>p DEF RowType, QueueTypeOK
<1>t. worker' = worker /\ QueueTypeOK' /\ RowType' /\ RequestType' => TypeOK'
  BY DEF TypeOK, RowType, RequestType
<1>1. ASSUME NEW e \in Experiments, NEW j \in Jobs, CreateEnqueue(r, e, j) PROVE TypeOK'
  <2>1. QueueTypeOK'
    BY <1>1, <1>p DEF CreateEnqueue, Enqueue, QueueTypeOK, JobRecord, JobStatus
  <2>2. RowType'
    BY <1>1, <1>p DEF CreateEnqueue, RowType, RowRecord, NoRowStatus
  <2>3. RequestType'
    BY <1>1, <1>p DEF CreateEnqueue, RequestType, RequestRecord, RequestPC, RequestOp
  <2> QED
    BY <1>1, <2>1, <2>2, <2>3, <1>t DEF CreateEnqueue
<1>2. ASSUME NEW e \in Experiments, RetryRead(r, e) PROVE TypeOK'
  <2>1. RequestType'
    BY <1>2, <1>p DEF RetryRead, RequestType, RequestRecord, RequestPC, RequestOp
  <2> QED
    BY <1>2, <2>1, <1>s, <1>t DEF RetryRead
<1>3. ASSUME NEW e \in Experiments, ListRead(r, e) PROVE TypeOK'
  <2>1. RequestType'
    BY <1>3, <1>p DEF ListRead, RequestType, RequestRecord, RequestPC, RequestOp
  <2> QED
    BY <1>3, <2>1, <1>s, <1>t DEF ListRead
<1>4. ASSUME NEW e \in Experiments, CancelRead(r, e) PROVE TypeOK'
  <2> DEFINE a == row[e].status \in ActiveStatus
             x == [IdleRequest EXCEPT !.pc = "map_get", !.op = "cancel", !.exp = e, !.active = a]
  <2>0. a \in BOOLEAN
    OBVIOUS
  <2>x. x \in RequestRecord
    <3> HIDE DEF a
    <3> QED
      BY <2>0, <1>p DEF RequestRecord, RequestPC, RequestOp
  <2>r. req' = [req EXCEPT ![r] = x]
    BY <1>4, Zenon DEF CancelRead
  <2>1. RequestType'
    <3> HIDE DEF x
    <3> QED
      BY <2>x, <2>r, <1>p DEF RequestType
  <2> QED
    BY <1>4, <2>1, <1>s, <1>t DEF CancelRead
<1>5. ASSUME NEW j \in Jobs, JobCancelRead(r, j) PROVE TypeOK'
  <2>1. job[j].exp \in Experiments
    BY <1>5 DEF JobCancelRead, Stored, JobsNameExperiments
  <2>2. RequestType'
    BY <1>5, <2>1, <1>p, NormalizeType
    DEF JobCancelRead, RequestType, RequestRecord, RequestPC, RequestOp
  <2> QED
    BY <1>5, <2>2, <1>s, <1>t DEF JobCancelRead
<1> QED
  BY <1>1, <1>2, <1>3, <1>4, <1>5 DEF UserRequest

LEMMA TypeEnvironment ==
  ASSUME TypeOK, Environment
  PROVE  TypeOK'
<1>p. /\ QueueTypeOK /\ RowType /\ WorkerType /\ RequestType
      /\ {"fail", "raise"} \subseteq WorkerPC
      /\ {"stopped", "scheduled"} \subseteq JobStatus
  BY TypeParts DEF WorkerPC, JobStatus
<1>i. ASSUME NEW w \in Workers, worker' = [worker EXCEPT ![w] = IdleWorker] PROVE WorkerType'
  BY <1>p, <1>i, IdleType DEF WorkerType
<1>s. /\ UNCHANGED row => RowType'
      /\ UNCHANGED worker => WorkerType'
      /\ UNCHANGED <<job, mapping, stopping>> => QueueTypeOK'
  BY <1>p DEF RowType, WorkerType, QueueTypeOK
<1>t. req' = req /\ QueueTypeOK' /\ RowType' /\ WorkerType' => TypeOK'
  BY DEF TypeOK, RowType, WorkerType
<1>1. ASSUME NEW w \in Workers, Raise(w) \/ RaiseUnmarked(w) PROVE TypeOK'
  BY <1>1, <1>p, <1>s, <1>t, GotoType, GotoEndType DEF Raise, RaiseUnmarked
<1>2. ASSUME NEW w \in Workers, StopJob(w) PROVE TypeOK'
  BY <1>2, <1>p, <1>s, <1>t, <1>i, LeaveType DEF StopJob
<1>3. ASSUME NEW w \in Workers, CrashWorker(w) PROVE TypeOK'
  BY <1>3, <1>s, <1>t, <1>i DEF CrashWorker
<1>4. ASSUME NEW j \in Jobs, AbandonJob(j) PROVE TypeOK'
  BY <1>4, <1>p, <1>s, <1>t, LeaveType DEF AbandonJob
<1>5. ASSUME NEW e \in Experiments, Delete(e) PROVE TypeOK'
  <2>1. RowType'
    BY <1>5, <1>p DEF Delete, RowType, RowRecord, NoRowStatus
  <2> QED
    BY <1>5, <2>1, <1>s, <1>t DEF Delete
<1>6. ASSUME NEW e \in Experiments, ExpireMapping(e), UNCHANGED <<row, worker, req>>
      PROVE  TypeOK'
  <2>1. QueueTypeOK'
    BY <1>6, <1>p DEF ExpireMapping, QueueTypeOK
  <2> QED
    BY <1>6, <2>1, <1>s, <1>t
<1>7. ASSUME NEW j \in Jobs, ExpireResult(j), UNCHANGED <<row, worker, req>> PROVE TypeOK'
  <2>1. QueueTypeOK'
    BY <1>7, <1>p DEF ExpireResult, QueueTypeOK, JobRecord, JobStatus
  <2> QED
    BY <1>7, <2>1, <1>s, <1>t
<1> QED
  BY <1>1, <1>2, <1>3, <1>4, <1>5, <1>6, <1>7 DEF Environment

-----------------------------------------------------------------------------
(* What a step can do to a row. *)

Creating(r) == req[r].pc \in {"create_key", "create_commit"}

Committed(s) == s \in RowStatus \cup {"deleted"}

\* A row once inserted stays known, a committed one stays committed or is
\* deleted, nothing changes a row that was deleted or rolled back, and only
\* its creator, by its last step, changes an uncommitted one.
RowMoves ==
  \A e \in Experiments :
    /\ row[e].status # "unused" => row'[e].status # "unused"
    /\ Committed(row[e].status) => Committed(row'[e].status)
    /\ row[e].status \in {"deleted", "rolledback"} => row'[e].status = row[e].status
    /\ row[e].status = "uncommitted" =>
         \/ row'[e].status = "uncommitted"
         \/ \E r \in Requests : Creating(r) /\ req[r].exp = e /\ Respond(r)

LEMMA RowUnchanged == ASSUME UNCHANGED row PROVE RowMoves
  BY DEF RowMoves

LEMMA MarkStatusMoves ==
  ASSUME RowType, NEW e, NEW s \in RowStatus, MarkStatus(e, s)
  PROVE  RowMoves
<1>1. CASE RowExists(e)
  <2>1. row' = [row EXCEPT ![e].status = s]
    BY <1>1 DEF MarkStatus
  <2>2. row[e].status \notin {"deleted", "rolledback", "uncommitted"} /\ s # "unused"
    BY <1>1 DEF RowExists, RowStatus, ActiveStatus, RetryableStatus
  <2> QED
    BY <2>1, <2>2 DEF RowMoves, RowType, RowRecord, Committed
<1>2. CASE ~RowExists(e)
  BY <1>2, RowUnchanged DEF MarkStatus
<1> QED
  BY <1>1, <1>2

LEMMA RowSteps ==
  ASSUME TypeOK, CreatesAreOpen, Next
  PROVE  RowMoves
<1>t. RowType
  BY TypeParts
<1>s. /\ {"Queued", "Running", "Completed", "Failed", "Cancelled"} \subseteq RowStatus
      /\ RowStatus \cap {"unused", "deleted", "rolledback", "uncommitted"} = {}
  BY DEF RowStatus, ActiveStatus, RetryableStatus
<1>1. ASSUME NEW w \in Workers, NEW j \in Jobs, TakeJob(w, j) PROVE RowMoves
  BY <1>1, RowUnchanged DEF TakeJob
<1>2. ASSUME NEW w \in Workers, WorkerStep(w) PROVE RowMoves
  <2>1. CASE MarkRunning(w)
    BY <2>1, <1>t, <1>s, MarkStatusMoves DEF MarkRunning
  <2>2. CASE PersistPermutation(w)
    BY <2>2, <1>t DEF PersistPermutation, RowMoves, RowType, RowRecord
  <2>3. CASE MarkCompleted(w)
    BY <2>3, <1>t, <1>s, MarkStatusMoves DEF MarkCompleted
  <2>4. CASE MarkFailed(w)
    BY <2>4, <1>t, <1>s, MarkStatusMoves DEF MarkFailed
  <2>5. CASE ~(MarkRunning(w) \/ PersistPermutation(w) \/ MarkCompleted(w) \/ MarkFailed(w))
    BY <1>2, <2>5, RowUnchanged
    DEF WorkerStep, BeginJob, ValidatePayload, CheckCancelled, ReturnResult, ScheduleRetry
  <2> QED
    BY <2>1, <2>2, <2>3, <2>4, <2>5
<1>3. ASSUME NEW r \in Requests, RequestStep(r) PROVE RowMoves
  <2>1. CASE CreateCommit(r)
    <3>1. row[req[r].exp].status = "uncommitted"
      BY <2>1 DEF CreateCommit, ReqAt, CreatesAreOpen
    <3> QED
      BY <2>1, <3>1, <1>t, <1>s DEF CreateCommit, ReqAt, Creating, RowMoves, RowType, RowRecord, Committed
  <2>2. CASE CreateRollback(r)
    <3>1. row[req[r].exp].status = "uncommitted"
      BY <2>2 DEF CreateRollback, CreatesAreOpen
    <3> QED
      BY <2>2, <3>1, <1>t, <1>s DEF CreateRollback, Creating, RowMoves, RowType, RowRecord, Committed
  <2>3. CASE RetryCommit(r)
    BY <2>3, <1>t, <1>s DEF RetryCommit, RowExists, RowMoves, RowType, RowRecord, Committed
  <2>4. CASE Reconcile(r)
    BY <2>4, <1>t, <1>s, MarkStatusMoves DEF Reconcile
  <2>5. CASE MarkCancelled(r)
    BY <2>5, <1>t, <1>s, MarkStatusMoves DEF MarkCancelled
  <2>6. CASE JobCancelMark(r)
    BY <2>6, <1>t, <1>s DEF JobCancelMark, RowExists, RowMoves, RowType, RowRecord, Committed
  <2>7. CASE ~(\/ CreateCommit(r) \/ CreateRollback(r) \/ RetryCommit(r)
              \/ Reconcile(r) \/ MarkCancelled(r) \/ JobCancelMark(r))
    BY <1>3, <2>7, RowUnchanged
    DEF RequestStep, CreateSetMapping, RetryEnqueue, RetrySetMapping, RetryRollback, GetMapping,
        FetchMapped, ScanQueued, ScanStarted, FetchActive, JobCancelFindRow, JobCancelCheckRow, CancelQueued,
        CancelRunning, CancelSettled, DeleteMapping
  <2> QED
    BY <2>1, <2>2, <2>3, <2>4, <2>5, <2>6, <2>7
<1>4. ASSUME NEW r \in Requests, UserRequest(r) PROVE RowMoves
  <2>1. ASSUME NEW e \in Experiments, NEW j \in Jobs, CreateEnqueue(r, e, j) PROVE RowMoves
    BY <2>1, <1>t, <1>s DEF CreateEnqueue, RowMoves, RowType, RowRecord, Committed
  <2>2. CASE ~\E e \in Experiments, j \in Jobs : CreateEnqueue(r, e, j)
    BY <1>4, <2>2, RowUnchanged DEF UserRequest, RetryRead, ListRead, CancelRead, JobCancelRead
  <2> QED
    BY <2>1, <2>2
<1>5. CASE Environment
  <2>1. ASSUME NEW e \in Experiments, Delete(e) PROVE RowMoves
    BY <2>1, <1>t, <1>s DEF Delete, RowExists, RowMoves, RowType, RowRecord, Committed
  <2>2. CASE ~\E e \in Experiments : Delete(e)
    BY <1>5, <2>2, RowUnchanged DEF Environment, Raise, RaiseUnmarked, StopJob, CrashWorker, AbandonJob
  <2> QED
    BY <2>1, <2>2
<1> QED
  BY <1>1, <1>2, <1>3, <1>4, <1>5 DEF Next

-----------------------------------------------------------------------------
(* What a step can do to a job, a worker and a request. *)

\* A job keeps its experiment; a new one gets an experiment with a row.
JobMoves ==
  \A j \in Jobs :
    /\ job[j].status # "unused" => job'[j].status # "unused" /\ job'[j].exp = job[j].exp
    /\ job[j].status = "unused" /\ job'[j].status # "unused" =>
         job'[j].exp \in Experiments /\ row'[job'[j].exp].status # "unused"

LEMMA JobUnchanged == ASSUME UNCHANGED job PROVE JobMoves
  BY DEF JobMoves

LEMMA LeaveMoves ==
  ASSUME QueueTypeOK, NEW j, NEW s \in JobStatus \ {"unused"}, job[j].status # "unused", Leave(j, s)
  PROVE  JobMoves
  BY DEF QueueTypeOK, Leave, JobMoves, JobRecord

LEMMA JobSteps ==
  ASSUME TypeOK, WorkersHoldTheirJobs, RequestsHaveTargets, Next
  PROVE  JobMoves
<1>t. /\ QueueTypeOK /\ RowType
      /\ {"finished", "scheduled", "stopped"} \subseteq JobStatus \ {"unused"}
  BY TypeParts DEF JobStatus
<1>1. ASSUME NEW w \in Workers, NEW j \in Jobs, TakeJob(w, j) PROVE JobMoves
  BY <1>1, <1>t DEF TakeJob, Dequeue, QueueTypeOK, JobRecord, JobMoves
<1>2. ASSUME NEW w \in Workers, WorkerStep(w) PROVE JobMoves
  <2>1. CASE BeginJob(w)
    BY <2>1, <1>t DEF BeginJob, Register, QueueTypeOK, JobRecord, JobMoves
  <2>2. CASE ReturnResult(w)
    BY <2>2, <1>t, LeaveMoves DEF ReturnResult, At, WorkersHoldTheirJobs
  <2>3. CASE ScheduleRetry(w)
    BY <2>3, <1>t, LeaveMoves DEF ScheduleRetry, At, WorkersHoldTheirJobs
  <2>4. CASE ~(BeginJob(w) \/ ReturnResult(w) \/ ScheduleRetry(w))
    BY <1>2, <2>4, JobUnchanged
    DEF WorkerStep, ValidatePayload, MarkRunning, CheckCancelled, PersistPermutation,
        MarkCompleted, MarkFailed
  <2> QED
    BY <2>1, <2>2, <2>3, <2>4
<1>3. ASSUME NEW r \in Requests, RequestStep(r) PROVE JobMoves
  <2>1. ASSUME NEW j \in Jobs, RetryEnqueue(r, j) PROVE JobMoves
    BY <2>1, <1>t
    DEF RetryEnqueue, ReqAt, Enqueue, RequestsHaveTargets, QueueTypeOK, JobRecord, JobMoves
  <2>2. CASE CancelQueued(r)
    BY <2>2, <1>t DEF CancelQueued, RemoveQueued, QueueTypeOK, JobRecord, JobMoves
  <2>3. CASE ~(CancelQueued(r) \/ \E j \in Jobs : RetryEnqueue(r, j))
    BY <1>3, <2>3, JobUnchanged
    DEF RequestStep, CreateSetMapping, CreateCommit, CreateRollback, RetrySetMapping, RetryCommit,
        RetryRollback, SetMapping, GetMapping, FetchMapped, ScanQueued, ScanStarted, FetchActive,
        Reconcile, JobCancelFindRow, JobCancelCheckRow, CancelRunning, SendStop, CancelSettled, DeleteMapping,
        DeleteMappingFor, MarkCancelled, JobCancelMark
  <2> QED
    BY <2>1, <2>2, <2>3
<1>4. ASSUME NEW r \in Requests, UserRequest(r) PROVE JobMoves
  <2>1. ASSUME NEW e \in Experiments, NEW j \in Jobs, CreateEnqueue(r, e, j) PROVE JobMoves
    BY <2>1, <1>t DEF CreateEnqueue, Enqueue, RowType, RowRecord, QueueTypeOK, JobRecord, JobMoves
  <2>2. CASE ~\E e \in Experiments, j \in Jobs : CreateEnqueue(r, e, j)
    BY <1>4, <2>2, JobUnchanged DEF UserRequest, RetryRead, ListRead, CancelRead, JobCancelRead
  <2> QED
    BY <2>1, <2>2
<1>5. CASE Environment
  <2>1. ASSUME NEW w \in Workers, StopJob(w) PROVE JobMoves
    BY <2>1, <1>t, LeaveMoves DEF StopJob, At, WorkersHoldTheirJobs
  <2>2. ASSUME NEW j \in Jobs, AbandonJob(j) PROVE JobMoves
    BY <2>2, <1>t, LeaveMoves DEF AbandonJob
  <2>3. ASSUME NEW j \in Jobs, ExpireResult(j) PROVE JobMoves
    BY <2>3, <1>t DEF ExpireResult, QueueTypeOK, JobRecord, JobMoves
  <2>4. CASE ~(\/ \E w \in Workers : StopJob(w)
              \/ \E j \in Jobs : AbandonJob(j) \/ ExpireResult(j))
    BY <1>5, <2>4, JobUnchanged DEF Environment, Raise, RaiseUnmarked, CrashWorker, Delete, ExpireMapping
  <2> QED
    BY <2>1, <2>2, <2>3, <2>4
<1> QED
  BY <1>1, <1>2, <1>3, <1>4, <1>5 DEF Next

\* A worker is past validation with the job it had, and got there with a row.
PastValidation(w) == worker[w].pc \in {"mark", "check", "persist", "complete"}

WorkerMoves ==
  \A w \in Workers : PastValidation(w)' =>
    /\ worker'[w].job = worker[w].job
    /\ PastValidation(w) \/ (At(w, "validate") /\ RowExists(ExpOf(w)))

LEMMA WorkerSteps ==
  ASSUME WorkerType, Next
  PROVE  WorkerMoves
<1> USE DEF WorkerMoves, PastValidation, WorkerType, WorkerRecord
<1>1. ASSUME NEW w \in Workers, NEW j \in Jobs, TakeJob(w, j) PROVE WorkerMoves
  BY <1>1 DEF TakeJob
<1>2. ASSUME NEW w \in Workers, WorkerStep(w) PROVE WorkerMoves
  <2> USE DEF At
  <2>1. CASE BeginJob(w)
    BY <2>1 DEF BeginJob, Goto
  <2>2. CASE ValidatePayload(w)
    BY <2>2 DEF ValidatePayload, Goto
  <2>3. CASE MarkRunning(w)
    BY <2>3 DEF MarkRunning, Goto
  <2>4. CASE CheckCancelled(w)
    BY <2>4 DEF CheckCancelled, Goto, GotoEnd
  <2>5. CASE PersistPermutation(w)
    BY <2>5 DEF PersistPermutation, AfterPerm
  <2>6. CASE MarkCompleted(w)
    BY <2>6 DEF MarkCompleted, GotoEnd
  <2>7. CASE MarkFailed(w)
    BY <2>7 DEF MarkFailed, Goto
  <2>8. CASE ReturnResult(w) \/ ScheduleRetry(w)
    BY <2>8 DEF ReturnResult, ScheduleRetry, IdleWorker
  <2> QED
    BY <1>2, <2>1, <2>2, <2>3, <2>4, <2>5, <2>6, <2>7, <2>8 DEF WorkerStep
<1>3. ASSUME NEW w \in Workers, Raise(w) \/ RaiseUnmarked(w) \/ StopJob(w) \/ CrashWorker(w)
      PROVE  WorkerMoves
  BY <1>3 DEF Raise, RaiseUnmarked, Goto, GotoEnd, StopJob, CrashWorker, IdleWorker
<1>4. UNCHANGED worker => WorkerMoves
  OBVIOUS
<1> QED
  BY <1>1, <1>2, <1>3, <1>4, RequestKeepsWorkers DEF Next, Environment, AbandonJob, Delete

-----------------------------------------------------------------------------
(* The parts of LifecycleInv. *)

LEMMA JobsNameExperimentsStep ==
  ASSUME TypeOK, JobsNameExperiments, JobMoves, RowMoves
  PROVE  JobsNameExperiments'
  BY DEF JobsNameExperiments, JobMoves, RowMoves

LEMMA RunsHaveCommittedRowsStep ==
  ASSUME TypeOK, JobsNameExperiments, WorkersHoldTheirJobs, RunsHaveCommittedRows,
         JobMoves, RowMoves, WorkerMoves
  PROVE  RunsHaveCommittedRows'
<1> SUFFICES ASSUME NEW w \in Workers, PastValidation(w)'
             PROVE  Committed(row'[ExpOf(w)'].status)
  BY DEF RunsHaveCommittedRows, PastValidation, Committed
<1>1. /\ worker'[w].job = worker[w].job
      /\ PastValidation(w) \/ (At(w, "validate") /\ RowExists(ExpOf(w)))
  BY DEF WorkerMoves
<1>2. worker[w].job \in Jobs /\ job[worker[w].job].status = "started"
  BY <1>1 DEF WorkersHoldTheirJobs, PastValidation, At
<1>3. ExpOf(w)' = ExpOf(w) /\ ExpOf(w) \in Experiments
  BY <1>1, <1>2 DEF JobMoves, JobsNameExperiments, ExpOf
<1>4. Committed(row[ExpOf(w)].status)
  BY <1>1 DEF RunsHaveCommittedRows, PastValidation, RowExists, Committed
<1> QED
  BY <1>3, <1>4 DEF RowMoves

\* Nobody but the worker that holds a job moves it, and it takes no other.
LEMMA WorkersHoldTheirJobsStep ==
  ASSUME TypeOK, WorkersHoldTheirJobs, Next
  PROVE  WorkersHoldTheirJobs'
<1>t. QueueTypeOK /\ WorkerType
  BY TypeParts
<1> USE JobQueueAssumption DEF WorkersHoldTheirJobs, QueueTypeOK, JobRecord, WorkerType, WorkerRecord
<1>k. ASSUME NEW w \in Workers, UNCHANGED job,
             worker[w].pc \notin {"idle", "begin"}, worker'[w].pc \notin {"idle", "begin"},
             worker'[w].job = worker[w].job, \A v \in Workers \ {w} : worker'[v] = worker[v]
      PROVE  WorkersHoldTheirJobs'
  <2>1. \A v \in Workers : worker'[v].job = worker[v].job
    BY <1>k
  <2>2. \A v \in Workers : worker'[v].pc = worker[v].pc \/ {worker[v].pc, worker'[v].pc} \cap {"idle", "begin"} = {}
    BY <1>k
  <2> QED
    BY <1>k, <2>1, <2>2
<1>l. ASSUME NEW w \in Workers, worker' = [worker EXCEPT ![w] = IdleWorker],
             \A j \in Jobs : j # worker[w].job => job'[j] = job[j]
      PROVE  WorkersHoldTheirJobs'
  <2>1. worker'[w] = IdleWorker /\ \A v \in Workers \ {w} : worker'[v] = worker[v]
    BY <1>l, <1>t
  <2>2. IdleWorker.pc = "idle" /\ IdleWorker.job = NoJob
    BY DEF IdleWorker
  <2>3. ASSUME NEW v \in Workers \ {w}, worker[v].pc # "idle"
        PROVE  job'[worker[v].job] = job[worker[v].job]
    BY <2>3, <1>l
  <2> QED
    BY <2>1, <2>2, <2>3
<1>1. ASSUME NEW w \in Workers, NEW j \in Jobs, TakeJob(w, j) PROVE WorkersHoldTheirJobs'
  BY <1>1, <1>t DEF TakeJob, Dequeue
<1>2. ASSUME NEW w \in Workers, WorkerStep(w) PROVE WorkersHoldTheirJobs'
  <2> USE <1>t DEF At
  <2>1. CASE BeginJob(w)
    BY <2>1 DEF BeginJob, Register, Goto
  <2>2. CASE ValidatePayload(w)
    BY <2>2 DEF ValidatePayload, Goto
  <2>3. CASE MarkRunning(w)
    BY <2>3 DEF MarkRunning, Goto
  <2>4. CASE CheckCancelled(w)
    BY <2>4, <1>k DEF CheckCancelled, Goto, GotoEnd
  <2>5. CASE PersistPermutation(w)
    BY <2>5, <1>k DEF PersistPermutation, AfterPerm
  <2>6. CASE MarkCompleted(w)
    BY <2>6, <1>k DEF MarkCompleted, GotoEnd
  <2>7. CASE MarkFailed(w)
    BY <2>7, <1>k DEF MarkFailed, Goto
  <2>8. CASE ReturnResult(w) \/ ScheduleRetry(w)
    BY <2>8, <1>l DEF ReturnResult, ScheduleRetry, Leave
  <2> QED
    BY <1>2, <2>1, <2>2, <2>3, <2>4, <2>5, <2>6, <2>7, <2>8 DEF WorkerStep
<1>3. ASSUME NEW w \in Workers, Raise(w) \/ RaiseUnmarked(w) \/ StopJob(w) \/ CrashWorker(w)
      PROVE  WorkersHoldTheirJobs'
  <2>1. CASE Raise(w) \/ RaiseUnmarked(w)
    BY <2>1, <1>t, <1>k DEF Raise, RaiseUnmarked, Goto, GotoEnd
  <2>2. CASE StopJob(w)
    BY <2>2, <1>t, <1>l DEF StopJob, Leave
  <2>3. CASE CrashWorker(w)
    BY <2>3, <1>l DEF CrashWorker
  <2> QED
    BY <1>3, <2>1, <2>2, <2>3
<1>4. ASSUME NEW j \in Jobs, AbandonJob(j) PROVE WorkersHoldTheirJobs'
  BY <1>4, <1>t DEF AbandonJob, Leave
<1>5. ASSUME UNCHANGED worker,
             \A j \in Jobs : job[j].status \in {"dequeued", "started"} => job'[j] = job[j]
      PROVE  WorkersHoldTheirJobs'
  BY <1>5
<1>6. ASSUME NEW r \in Requests, RequestStep(r) PROVE WorkersHoldTheirJobs'
  <2>1. ASSUME NEW j \in Jobs, RetryEnqueue(r, j) PROVE WorkersHoldTheirJobs'
    BY <2>1, <1>5, <1>t DEF RetryEnqueue, Enqueue
  <2>2. CASE CancelQueued(r)
    BY <2>2, <1>5, <1>t DEF CancelQueued, RemoveQueued
  <2>3. CASE ~(CancelQueued(r) \/ \E j \in Jobs : RetryEnqueue(r, j))
    <3>1. UNCHANGED job
      BY <1>6, <2>3
      DEF RequestStep, CreateSetMapping, CreateCommit, CreateRollback, RetrySetMapping,
          RetryCommit, RetryRollback, SetMapping, GetMapping, FetchMapped, ScanQueued, ScanStarted,
          FetchActive, Reconcile, JobCancelFindRow, JobCancelCheckRow, CancelRunning, SendStop, CancelSettled,
          DeleteMapping, DeleteMappingFor, MarkCancelled, JobCancelMark
    <3> QED
      BY <1>5, <1>6, <3>1, RequestKeepsWorkers
  <2> QED
    BY <2>1, <2>2, <2>3
<1>7. ASSUME NEW r \in Requests, UserRequest(r) PROVE WorkersHoldTheirJobs'
  <2>1. ASSUME NEW e \in Experiments, NEW j \in Jobs, CreateEnqueue(r, e, j)
        PROVE  WorkersHoldTheirJobs'
    BY <2>1, <1>5, <1>t DEF CreateEnqueue, Enqueue
  <2>2. CASE ~\E e \in Experiments, j \in Jobs : CreateEnqueue(r, e, j)
    BY <1>5, <1>7, <2>2 DEF UserRequest, RetryRead, ListRead, CancelRead, JobCancelRead
  <2> QED
    BY <2>1, <2>2
<1>8. ASSUME NEW e \in Experiments,
             Delete(e) \/ (ExpireMapping(e) /\ UNCHANGED <<row, worker, req>>)
      PROVE  WorkersHoldTheirJobs'
  BY <1>5, <1>8 DEF Delete, ExpireMapping
<1>9. ASSUME NEW j \in Jobs, ExpireResult(j) /\ UNCHANGED <<row, worker, req>>
      PROVE  WorkersHoldTheirJobs'
  BY <1>5, <1>9, <1>t DEF ExpireResult
<1> QED
  BY <1>1, <1>2, <1>3, <1>4, <1>6, <1>7, <1>8, <1>9 DEF Next, Environment

\* No request step but the first of a create makes a request a creator.
CreatorMoves ==
  \A r \in Requests : Creating(r)' => Creating(r) /\ req'[r].exp = req[r].exp

LEMMA CreatorSteps ==
  ASSUME RequestType, NEW r \in Requests,
         \/ RequestStep(r)
         \/ UserRequest(r) /\ ~\E e \in Experiments, j \in Jobs : CreateEnqueue(r, e, j)
  PROVE  CreatorMoves
<1> USE DEF CreatorMoves, Creating, RequestType, RequestRecord
<1>1. CASE RequestStep(r)
  <2>1. CASE CreateSetMapping(r)
    BY <2>1 DEF CreateSetMapping, Advance, ReqAt
  <2>2. Respond(r) => CreatorMoves
    BY DEF Respond, IdleRequest
  <2>3. ASSUME NEW pc \in {"retry_commit", "job_check", "act", "unmap"}, Advance(r, pc) PROVE CreatorMoves
    BY <2>3 DEF Advance
  <2>4. ProceedToMark(r) => CreatorMoves
    BY DEF ProceedToMark
  <2>5. NotCancelled(r) => CreatorMoves
    BY <2>2, <2>4 DEF NotCancelled
  <2>6. ASSUME NEW j \in Jobs \cup {NoJob}, Found(r, j) PROVE CreatorMoves
    BY <2>6 DEF Found, IdleRequest
  <2>7. NotFound(r) => CreatorMoves
    BY <2>5 DEF NotFound
  <2>8. ASSUME NEW j \in Jobs, RetryEnqueue(r, j) PROVE CreatorMoves
    BY <2>8 DEF RetryEnqueue
  <2>9. CASE GetMapping(r)
    BY <2>9 DEF GetMapping
  <2>10. CASE FetchMapped(r)
    BY <2>10, <2>6 DEF FetchMapped
  <2>11. CASE ScanQueued(r) \/ ScanStarted(r)
    BY <2>11 DEF ScanQueued, ScanStarted
  <2>12. CASE FetchActive(r)
    BY <2>12, <2>6, <2>7 DEF FetchActive
  <2>13. CASE CancelQueued(r) \/ CancelRunning(r) \/ CancelSettled(r)
    BY <2>13, <2>2, <2>3, <2>4, <2>5 DEF CancelQueued, CancelRunning, CancelSettled
  <2>14. CASE \/ CreateCommit(r) \/ CreateRollback(r) \/ RetryCommit(r) \/ RetryRollback(r)
              \/ Reconcile(r) \/ MarkCancelled(r) \/ JobCancelMark(r)
    BY <2>14, <2>2
    DEF CreateCommit, CreateRollback, RetryCommit, RetryRollback, Reconcile, MarkCancelled,
        JobCancelMark
  <2>15. CASE \/ RetrySetMapping(r) \/ DeleteMapping(r)
              \/ JobCancelFindRow(r) \/ JobCancelCheckRow(r)
    BY <2>15, <2>2, <2>3, <2>4 DEF RetrySetMapping, JobCancelFindRow, JobCancelCheckRow, DeleteMapping
  <2> QED
    BY <1>1, <2>1, <2>8, <2>9, <2>10, <2>11, <2>12, <2>13, <2>14, <2>15 DEF RequestStep
<1>2. CASE UserRequest(r) /\ ~\E e \in Experiments, j \in Jobs : CreateEnqueue(r, e, j)
  <2>1. ASSUME NEW x, x.pc \notin {"create_key", "create_commit"}, req' = [req EXCEPT ![r] = x]
        PROVE  CreatorMoves
    BY <2>1
  <2>2. ASSUME NEW e \in Experiments, RetryRead(r, e) PROVE CreatorMoves
    BY <2>2 DEF RetryRead, IdleRequest
  <2>3. ASSUME NEW e \in Experiments, ListRead(r, e) PROVE CreatorMoves
    BY <2>3 DEF ListRead, IdleRequest
  <2>4. ASSUME NEW e \in Experiments, CancelRead(r, e) PROVE CreatorMoves
    <3> DEFINE x == [IdleRequest EXCEPT !.pc = "map_get", !.op = "cancel", !.exp = e,
                                        !.active = row[e].status \in ActiveStatus]
    <3>1. x.pc = "map_get"
      BY DEF IdleRequest
    <3>2. req' = [req EXCEPT ![r] = x]
      BY <2>4, Zenon DEF CancelRead
    <3> HIDE DEF x
    <3> QED
      BY <2>1, <3>1, <3>2
  <2>5. ASSUME NEW j \in Jobs, JobCancelRead(r, j) PROVE CreatorMoves
    BY <2>5 DEF JobCancelRead, IdleRequest
  <2> QED
    BY <1>2, <2>2, <2>3, <2>4, <2>5 DEF UserRequest
<1> QED
  BY <1>1, <1>2

\* Worker and environment steps leave the requests alone.
LEMMA SystemKeepsRequests ==
  ASSUME \/ \E w \in Workers, j \in Jobs : TakeJob(w, j)
         \/ \E w \in Workers : WorkerStep(w)
         \/ Environment
  PROVE  UNCHANGED req
  BY DEF TakeJob, WorkerStep, BeginJob, ValidatePayload, MarkRunning, CheckCancelled,
         PersistPermutation, MarkCompleted, MarkFailed, ReturnResult, ScheduleRetry, Environment,
         Raise, RaiseUnmarked, StopJob, CrashWorker, AbandonJob, Delete

LEMMA CreatesAreOpenStep ==
  ASSUME TypeOK, RequestsHaveTargets, CreatesAreOpen, RowMoves, Next
  PROVE  CreatesAreOpen'
<1>t. RequestType /\ RowType
  BY TypeParts
<1>1. ASSUME CreatorMoves PROVE CreatesAreOpen'
  <2>1. ASSUME NEW r \in Requests, Creating(r)' PROVE row'[req'[r].exp].status = "uncommitted"
    <3>1. /\ Creating(r) /\ req'[r].exp = req[r].exp
          /\ req[r].exp \in Experiments /\ row[req[r].exp].status = "uncommitted"
      BY <1>1, <2>1 DEF CreatorMoves, CreatesAreOpen, RequestsHaveTargets, Creating
    <3>2. ASSUME NEW q \in Requests, Creating(q), req[q].exp = req[r].exp, Respond(q)
          PROVE  FALSE
      <4>1. q = r
        BY <3>1, <3>2 DEF CreatesAreOpen, Creating
      <4>2. req'[r] = IdleRequest
        BY <4>1, <3>2, <1>t DEF Respond, RequestType
      <4> QED
        BY <4>2, <2>1 DEF Creating, IdleRequest
    <3> QED
      BY <3>1, <3>2 DEF RowMoves
  <2>2. ASSUME NEW q \in Requests, NEW r \in Requests, Creating(q)', Creating(r)',
               req'[q].exp = req'[r].exp
        PROVE  q = r
    BY <1>1, <2>2 DEF CreatorMoves, CreatesAreOpen, Creating
  <2> QED
    BY <2>1, <2>2 DEF CreatesAreOpen, Creating
<1>2. UNCHANGED req => CreatorMoves
  BY DEF CreatorMoves, Creating
<1>3. ASSUME NEW r \in Requests, NEW e \in Experiments, NEW j \in Jobs, CreateEnqueue(r, e, j)
      PROVE  CreatesAreOpen'
  <2>1. /\ row'[e].status = "uncommitted" /\ row[e].status = "unused"
        /\ \A d \in Experiments \ {e} : row'[d] = row[d]
        /\ req'[r].exp = e
        /\ \A q \in Requests \ {r} : req'[q] = req[q]
    BY <1>3, <1>t DEF CreateEnqueue, RowType, RowRecord, RequestType, RequestRecord, IdleRequest
  <2>2. \A q \in Requests \ {r} : Creating(q) => req[q].exp \in Experiments \ {e}
    BY <2>1 DEF Creating, RequestsHaveTargets, CreatesAreOpen
  <2> QED
    BY <2>1, <2>2 DEF Creating, CreatesAreOpen
<1>4. ASSUME NEW r \in Requests, UserRequest(r) PROVE CreatesAreOpen'
  BY <1>1, <1>3, <1>4, <1>t, CreatorSteps
<1>5. ASSUME NEW r \in Requests, RequestStep(r) PROVE CreatesAreOpen'
  BY <1>1, <1>5, <1>t, CreatorSteps
<1> QED
  BY <1>1, <1>2, <1>4, <1>5, SystemKeepsRequests DEF Next

\* A request that has a target keeps it, and the row is still known.
LEMMA RequestsHaveTargetsStep ==
  ASSUME TypeOK, JobsNameExperiments, RequestsHaveTargets, JobMoves, RowMoves, Next
  PROVE  RequestsHaveTargets'
<1> DEFINE Known(e)  == e \in Experiments /\ row'[e].status # "unused"
           Acts(pc)  == pc \in {"create_key", "create_commit", "retry_key", "retry_commit",
                                "map_fetch", "job_row", "job_check", "act", "unmap"}
           Target(x) == /\ x.pc # "idle" => Known(x.exp)
                        /\ Acts(x.pc) => x.job \in Jobs
<1>t. RequestType /\ RowType /\ QueueTypeOK
  BY TypeParts
<1>0. ASSUME NEW r \in Requests PROVE Target(req[r])
  BY DEF RequestsHaveTargets, RowMoves
<1>1. ASSUME NEW r \in Requests, NEW x, Target(x), req' = [req EXCEPT ![r] = x]
      PROVE  RequestsHaveTargets'
  <2>1. req'[r] = x /\ \A q \in Requests \ {r} : req'[q] = req[q]
    BY <1>1, <1>t DEF RequestType
  <2>2. \A q \in Requests : Target(req'[q])
    BY <1>0, <1>1, <2>1
  <2> QED
    BY <2>2 DEF RequestsHaveTargets
<1>2. UNCHANGED req => RequestsHaveTargets'
  BY <1>0 DEF RequestsHaveTargets
<1>3. ASSUME NEW r \in Requests, Respond(r) PROVE RequestsHaveTargets'
  BY <1>1, <1>3 DEF Respond, IdleRequest
<1>4. ASSUME NEW r \in Requests, NEW x, req' = [req EXCEPT ![r] = x],
             ~ReqAt(r, "idle"), x.exp = req[r].exp, Acts(x.pc) => x.job \in Jobs
      PROVE  RequestsHaveTargets'
  BY <1>0, <1>1, <1>4 DEF ReqAt
<1>5. ASSUME NEW r \in Requests, NEW pc, Advance(r, pc), Acts(req[r].pc)
      PROVE  RequestsHaveTargets'
  <2> DEFINE x == [req[r] EXCEPT !.pc = pc]
  <2>1. x.exp = req[r].exp /\ x.job = req[r].job
    BY <1>t DEF RequestType, RequestRecord
  <2>2. req' = [req EXCEPT ![r] = x]
    BY <1>5, <1>t DEF Advance, RequestType
  <2> HIDE DEF x
  <2> QED
    BY <1>0, <1>4, <1>5, <2>1, <2>2 DEF ReqAt
<1>6. ASSUME NEW r \in Requests, ProceedToMark(r), ~ReqAt(r, "idle")
      PROVE  RequestsHaveTargets'
  BY <1>4, <1>6, <1>t DEF ProceedToMark, RequestType, RequestRecord
<1>7. ASSUME NEW r \in Requests, NotCancelled(r), ~ReqAt(r, "idle")
      PROVE  RequestsHaveTargets'
  BY <1>3, <1>6, <1>7 DEF NotCancelled
<1>8. ASSUME NEW r \in Requests, NEW j \in Jobs, Found(r, j), ~ReqAt(r, "idle")
      PROVE  RequestsHaveTargets'
  <2>1. CASE req[r].op = "refresh"
    BY <1>3, <1>8, <2>1 DEF Found, Respond
  <2>2. CASE req[r].op # "refresh"
    BY <1>4, <1>8, <2>2, <1>t DEF Found, RequestType, RequestRecord
  <2> QED
    BY <2>1, <2>2
<1>9. ASSUME NEW r \in Requests, RequestStep(r) PROVE RequestsHaveTargets'
  <2> USE <1>t DEF ReqAt
  <2>1. CASE \/ CreateCommit(r) \/ CreateRollback(r) \/ RetryCommit(r) \/ RetryRollback(r)
             \/ Reconcile(r) \/ MarkCancelled(r) \/ JobCancelMark(r)
    BY <1>3, <2>1
    DEF CreateCommit, CreateRollback, RetryCommit, RetryRollback, Reconcile, MarkCancelled,
        JobCancelMark
  <2>2. CASE CreateSetMapping(r) \/ RetrySetMapping(r)
    BY <1>5, <2>2 DEF CreateSetMapping, RetrySetMapping
  <2>3. CASE JobCancelFindRow(r) \/ JobCancelCheckRow(r)
    BY <1>3, <1>5, <2>3 DEF JobCancelFindRow, JobCancelCheckRow
  <2>4. ASSUME NEW j \in Jobs, RetryEnqueue(r, j) PROVE RequestsHaveTargets'
    <3> DEFINE x == [req[r] EXCEPT !.pc = "retry_key", !.job = j]
    <3>1. req' = [req EXCEPT ![r] = x] /\ x.exp = req[r].exp /\ x.job = j
      BY <2>4 DEF RetryEnqueue, RequestType, RequestRecord
    <3>2. ~ReqAt(r, "idle")
      BY <2>4 DEF RetryEnqueue
    <3> HIDE DEF x
    <3> QED
      BY <1>4, <3>1, <3>2
  <2>5. CASE GetMapping(r)
    <3> DEFINE m == mapping[req[r].exp]
               x == [req[r] EXCEPT !.job = m,
                                   !.pc = IF m = NoJob THEN "scan_queued" ELSE "map_fetch"]
    <3>1. m \in Jobs \cup {NoJob}
      BY <1>0, <2>5 DEF GetMapping, QueueTypeOK
    <3>2. x.exp = req[r].exp /\ x.job = m /\ x.pc \in {"scan_queued", "map_fetch"}
          /\ (x.pc = "map_fetch" => m # NoJob)
      BY DEF RequestType, RequestRecord
    <3>3. req' = [req EXCEPT ![r] = x] /\ ~ReqAt(r, "idle")
      BY <2>5 DEF GetMapping, RequestType, RequestRecord
    <3> HIDE DEF x, m
    <3> QED
      BY <1>4, <3>1, <3>2, <3>3
  <2>6. CASE FetchMapped(r)
    <3>1. CASE Stored(req[r].job)
      BY <1>0, <1>8, <2>6, <3>1 DEF FetchMapped
    <3>2. CASE ~Stored(req[r].job)
      <4> DEFINE x == [req[r] EXCEPT !.pc = "scan_queued", !.job = NoJob]
      <4>1. x.exp = req[r].exp /\ x.pc = "scan_queued" /\ req' = [req EXCEPT ![r] = x]
        <5>1. req[r] \in RequestRecord
          BY DEF RequestType
        <5>2. x.exp = req[r].exp /\ x.pc = "scan_queued"
          BY <5>1 DEF RequestRecord
        <5>3. req' = [req EXCEPT ![r] = x]
          BY <2>6, <3>2 DEF FetchMapped, RequestType
        <5> QED BY <5>2, <5>3
      <4>2. ~ReqAt(r, "idle")
        BY <2>6 DEF FetchMapped
      <4> HIDE DEF x
      <4> QED
        BY <1>4, <4>1, <4>2
    <3> QED
      BY <3>1, <3>2
  <2>s. ASSUME NEW S, NEW pc \in {"scan_started", "fetch", "reconcile"}, ~ReqAt(r, "idle"),
               req' = [req EXCEPT ![r].pc = pc, ![r].seen = S]
        PROVE  RequestsHaveTargets'
    <3> DEFINE x == [req[r] EXCEPT !.pc = pc, !.seen = S]
    <3>1. req' = [req EXCEPT ![r] = x]
      BY <2>s DEF RequestType, RequestRecord
    <3>2. x.exp = req[r].exp /\ x.pc = pc
      BY DEF RequestType, RequestRecord
    <3> HIDE DEF x
    <3> QED
      BY <1>4, <2>s, <3>1, <3>2
  <2>7. CASE ScanQueued(r) \/ ScanStarted(r)
    BY <2>7, <2>s DEF ScanQueued, ScanStarted
  <2>8. CASE FetchActive(r)
    <3>1. req[r].seen \subseteq Jobs /\ ~ReqAt(r, "idle")
      BY <2>8 DEF FetchActive, RequestType, RequestRecord
    <3>2. CASE NotFound(r) /\ req[r].op = "refresh"
      BY <2>s, <3>1, <3>2 DEF NotFound
    <3>3. CASE NotFound(r) /\ req[r].op # "refresh"
      BY <1>7, <3>1, <3>3 DEF NotFound
    <3> QED
      BY <1>8, <2>8, <3>1, <3>2, <3>3 DEF FetchActive
  <2>9. CASE CancelQueued(r) \/ CancelRunning(r) \/ CancelSettled(r) \/ DeleteMapping(r)
    BY <1>3, <1>5, <1>6, <1>7, <2>9 DEF CancelQueued, CancelRunning, CancelSettled, DeleteMapping
  <2> QED
    BY <1>9, <2>1, <2>2, <2>3, <2>4, <2>5, <2>6, <2>7, <2>8, <2>9 DEF RequestStep
<1>10. ASSUME NEW r \in Requests, UserRequest(r) PROVE RequestsHaveTargets'
  <2> USE <1>t
  <2>e. ASSUME NEW e \in Experiments, row[e].status # "unused" PROVE Known(e)
    BY <2>e DEF RowMoves
  <2>1. ASSUME NEW e \in Experiments, NEW j \in Jobs, CreateEnqueue(r, e, j)
        PROVE  RequestsHaveTargets'
    <3>1. Known(e)
      BY <2>1 DEF CreateEnqueue, RowType, RowRecord
    <3> QED
      BY <1>1, <2>1, <3>1 DEF CreateEnqueue, IdleRequest
  <2>2. ASSUME NEW e \in Experiments, RetryRead(r, e) PROVE RequestsHaveTargets'
    BY <1>1, <2>2, <2>e DEF RetryRead, IdleRequest, RetryableStatus
  <2>3. ASSUME NEW e \in Experiments, ListRead(r, e) PROVE RequestsHaveTargets'
    BY <1>1, <2>3, <2>e DEF ListRead, IdleRequest, ActiveStatus
  <2>4. ASSUME NEW e \in Experiments, CancelRead(r, e) PROVE RequestsHaveTargets'
    <3> DEFINE x == [IdleRequest EXCEPT !.pc = "map_get", !.op = "cancel", !.exp = e,
                                        !.active = row[e].status \in ActiveStatus]
    <3>1. x.pc = "map_get" /\ x.exp = e
      BY DEF IdleRequest
    <3>2. req' = [req EXCEPT ![r] = x]
      BY <2>4, Zenon DEF CancelRead
    <3>3. Known(e)
      BY <2>4, <2>e DEF CancelRead, RowExists, RowStatus, ActiveStatus, RetryableStatus
    <3> HIDE DEF x
    <3> QED
      BY <1>1, <3>1, <3>2, <3>3
  <2>5. ASSUME NEW j \in Jobs, JobCancelRead(r, j) PROVE RequestsHaveTargets'
    <3>1. Known(job[j].exp)
      BY <2>5, <2>e DEF JobCancelRead, Stored, JobsNameExperiments
    <3> QED
      BY <1>1, <2>5, <3>1 DEF JobCancelRead, IdleRequest
  <2> QED
    BY <1>10, <2>1, <2>2, <2>3, <2>4, <2>5 DEF UserRequest
<1> QED
  BY <1>2, <1>9, <1>10, SystemKeepsRequests DEF Next

-----------------------------------------------------------------------------
(* The invariant. *)

LEMMA LifecycleInvInit == Init => LifecycleInv
<1> SUFFICES ASSUME Init PROVE LifecycleInv
  OBVIOUS
<1>1. TypeOK
  BY TypeInit
<1>2. JobsNameExperiments /\ RequestsHaveTargets /\ CreatesAreOpen
  BY DEF Init, QueueInit, IdleRequest, JobsNameExperiments, RequestsHaveTargets, CreatesAreOpen
<1>3. WorkersHoldTheirJobs /\ RunsHaveCommittedRows
  BY DEF Init, IdleWorker, WorkersHoldTheirJobs, RunsHaveCommittedRows
<1> QED
  BY <1>1, <1>2, <1>3 DEF LifecycleInv

LEMMA LifecycleInvNext == LifecycleInv /\ [Next]_sysVars => LifecycleInv'
<1> SUFFICES ASSUME LifecycleInv, [Next]_sysVars PROVE LifecycleInv'
  OBVIOUS
<1> USE DEF LifecycleInv
<1>1. CASE Next
  <2>1. TypeOK'
    BY <1>1, TypeTake, TypeWorker, TypeRequest, TypeUser, TypeEnvironment DEF Next
  <2>2. RowMoves /\ JobMoves /\ WorkerMoves
    BY <1>1, TypeParts, RowSteps, JobSteps, WorkerSteps
  <2>3. JobsNameExperiments' /\ RunsHaveCommittedRows'
    BY <2>2, JobsNameExperimentsStep, RunsHaveCommittedRowsStep
  <2>4. WorkersHoldTheirJobs' /\ RequestsHaveTargets' /\ CreatesAreOpen'
    BY <1>1, <2>2, WorkersHoldTheirJobsStep, RequestsHaveTargetsStep, CreatesAreOpenStep
  <2> QED
    BY <2>1, <2>3, <2>4
<1>2. CASE UNCHANGED sysVars
  BY <1>2
  DEF sysVars, TypeOK, QueueTypeOK, JobsNameExperiments, WorkersHoldTheirJobs, RequestsHaveTargets,
      CreatesAreOpen, RunsHaveCommittedRows, ExpOf
<1> QED
  BY <1>1, <1>2

\* The inductive invariant: a job belongs to at most one worker and one
\* inserted row, and only its creator decides an uncommitted row.
THEOREM LifecycleInvariant == Spec => []LifecycleInv
  BY LifecycleInvInit, LifecycleInvNext, PTL DEF Spec

\* No reachable state leaves the types: in particular the worker's loop over
\* the permutations never runs past the last one.
THEOREM TypeCorrect == Spec => []TypeOK
  BY LifecycleInvariant, PTL DEF LifecycleInv

\* However a create transaction, its job and a worker interleave, a run works
\* on a row that was committed (_validate_experiment_payload).
THEOREM RunsOnCommittedRows == Spec => []RunsHaveCommittedRows
  BY LifecycleInvariant, PTL DEF LifecycleInv

\* A deleted or rolled back experiment stays that way, whatever the worker,
\* a cancellation, a retry or a reconciliation that read it before writes.
THEOREM DeletedStaysDeleted == Spec => NoResurrection
<1>1. LifecycleInv /\ [Next]_sysVars =>
        [\A e \in Experiments : row[e].status \in {"deleted", "rolledback"}
           => row'[e].status = row[e].status]_sysVars
  <2> SUFFICES ASSUME LifecycleInv, Next, NEW e \in Experiments,
                      row[e].status \in {"deleted", "rolledback"}
               PROVE  row'[e].status = row[e].status
    OBVIOUS
  <2> QED
    BY RowSteps DEF LifecycleInv, RowMoves
<1> QED
  BY <1>1, LifecycleInvariant, PTL DEF Spec, NoResurrection

-----------------------------------------------------------------------------
(* The queue and its workers implement AtMostOnceExecution: each step is a *)
(* step of the abstract specification or changes nothing it can see.       *)

Waits(j) == job[j].status \in {"queued", "dequeued"}
Fresh(j) == job[j].status = "unused"
Runs(w)  == worker[w].pc \notin {"idle", "begin"}

\* What the abstract specification sees of a job and of a worker is unchanged.
SameJob(j)    == (Waits(j)' <=> Waits(j)) /\ (Fresh(j)' <=> Fresh(j))
SameWorker(w) == (Runs(w)' <=> Runs(w)) /\ (Runs(w) => worker'[w].job = worker[w].job)

LEMMA SameExecuting ==
  ASSUME \A w \in Workers : SameWorker(w)
  PROVE  Executing' = Executing
  BY DEF Executing, SameWorker, Runs

LEMMA StutterStep ==
  ASSUME \A j \in Jobs : SameJob(j), \A w \in Workers : SameWorker(w)
  PROVE  UNCHANGED Execution!vars
  BY SameExecuting DEF Execution!vars, SameJob, Waits, Fresh

LEMMA SubmitStep ==
  ASSUME WorkersHoldTheirJobs, NEW j \in Jobs, Fresh(j), Waits(j)',
         \A i \in Jobs \ {j} : SameJob(i), \A w \in Workers : SameWorker(w)
  PROVE  Execution!Submit(j)
<1>1. \A w \in Workers : <<j, w>> \notin Executing
  BY DEF WorkersHoldTheirJobs, Executing, Fresh
<1>2. Executing' = Executing
  BY SameExecuting
<1>3. \A i \in Jobs : Waits(i)' <=> Waits(i) \/ i = j
  BY DEF SameJob
<1>4. \A i \in Jobs : ~Waits(i)' /\ ~Fresh(i)' <=> ~Waits(i) /\ ~Fresh(i)
  BY DEF SameJob, Waits, Fresh
<1> QED
  BY <1>1, <1>2, <1>3, <1>4 DEF Execution!Submit, Waits, Fresh

LEMMA WithdrawStep ==
  ASSUME WorkersHoldTheirJobs, NEW j \in Jobs, Waits(j), ~Waits(j)', ~Fresh(j)',
         \A i \in Jobs \ {j} : SameJob(i), \A w \in Workers : SameWorker(w)
  PROVE  Execution!Withdraw(j)
<1>1. \A w \in Workers : <<j, w>> \notin Executing
  BY DEF WorkersHoldTheirJobs, Executing, Waits
<1>2. Executing' = Executing
  BY SameExecuting
<1>3. \A i \in Jobs : Waits(i)' <=> Waits(i) /\ i # j
  BY DEF SameJob
<1>4. \A i \in Jobs : ~Waits(i)' /\ ~Fresh(i)' <=> (~Waits(i) /\ ~Fresh(i)) \/ i = j
  BY DEF SameJob
<1> DEFINE waitingBar == {i \in Jobs : Waits(i)}
           settledBar == {i \in Jobs : ~Waits(i) /\ ~Fresh(i)
                                       /\ \A w \in Workers : <<i, w>> \notin Executing}
<1>5. waitingBar' = waitingBar \ {j} /\ j \in waitingBar
  BY <1>3
<1>6. settledBar' = settledBar \cup {j}
  BY <1>1, <1>2, <1>4
<1> QED
  BY <1>2, <1>5, <1>6 DEF Execution!Withdraw, Waits, Fresh

LEMMA ExecuteStep ==
  ASSUME WorkersHoldTheirJobs, NEW w \in Workers, NEW j \in Jobs,
         Waits(j), ~Waits(j)', ~Fresh(j)', ~Runs(w), Runs(w)', worker'[w].job = j,
         \A i \in Jobs \ {j} : SameJob(i), \A v \in Workers \ {w} : SameWorker(v)
  PROVE  Execution!Execute(j, w)
<1>1. Executing' = Executing \cup {<<j, w>>}
  BY DEF Executing, SameWorker, Runs
<1>2. \A i \in Jobs : <<i, w>> \notin Executing
  BY DEF Executing, Runs
<1> QED
  BY <1>1, <1>2 DEF Execution!Execute, Execution!Idle, SameJob, Waits, Fresh

LEMMA SettleStep ==
  ASSUME WorkersHoldTheirJobs, NEW w \in Workers, NEW j \in Jobs,
         Runs(w), worker[w].job = j, ~Runs(w)', ~Waits(j)', ~Fresh(j)',
         \A i \in Jobs \ {j} : SameJob(i), \A v \in Workers \ {w} : SameWorker(v)
  PROVE  Execution!Settle(j, w)
<1> DEFINE Busy == {v \in Workers : Runs(v)}
<1>a. Executing = {<<worker[v].job, v>> : v \in Busy} /\ <<j, w>> \in Executing
  BY DEF Executing, Runs
<1>b. Executing' = {<<worker[v].job, v>> : v \in Busy \ {w}}
  <2>1. Executing' = {<<worker'[v].job, v>> : v \in Busy'}
    BY DEF Executing, Runs
  <2>2. Busy' = Busy \ {w}
    BY DEF SameWorker
  <2>3. \A v \in Busy \ {w} : worker'[v].job = worker[v].job
    BY DEF SameWorker
  <2> HIDE DEF Busy
  <2> QED
    BY <2>1, <2>2, <2>3
<1>1. Executing' = Executing \ {<<j, w>>} /\ <<j, w>> \in Executing
  <2>1. \A v \in Busy : <<worker[v].job, v>> = <<j, w>> <=> v = w
    OBVIOUS
  <2> HIDE DEF Busy
  <2>2. \A p : p \in Executing' <=> p \in Executing /\ p # <<j, w>>
    BY <1>a, <1>b, <2>1
  <2> QED
    BY <1>a, <2>2
<1>2. \A v \in Workers : <<j, v>> \notin Executing'
  BY <1>1, JobQueueAssumption DEF WorkersHoldTheirJobs, Executing
<1>3. ~Waits(j)
  BY DEF WorkersHoldTheirJobs, Waits, Runs
<1> QED
  BY <1>1, <1>2, <1>3 DEF Execution!Settle, SameJob, Waits, Fresh

LEMMA ExecutionInit == Init => Execution!Init
  BY DEF Init, QueueInit, IdleWorker, Execution!Init, Executing

\* Steps of a worker process, RQ's kill and a crash included.
LEMMA ExecutionWorker ==
  ASSUME TypeOK, WorkersHoldTheirJobs, NEW w \in Workers,
         \/ \E j \in Jobs : TakeJob(w, j)
         \/ WorkerStep(w)
         \/ Raise(w) \/ RaiseUnmarked(w) \/ StopJob(w) \/ CrashWorker(w)
  PROVE  [Execution!Next]_(Execution!vars)
<1>t. QueueTypeOK /\ WorkerType
  BY TypeParts
<1> USE <1>t DEF QueueTypeOK, JobRecord, WorkerType, WorkerRecord, At
<1>s. ASSUME UNCHANGED job, Runs(w), Runs(w)', worker'[w].job = worker[w].job,
             \A v \in Workers \ {w} : worker'[v] = worker[v]
      PROVE  UNCHANGED Execution!vars
  BY <1>s, StutterStep DEF SameJob, SameWorker, Waits, Fresh, Runs
\* The worker becomes idle, and its job, if it moves, moves to status s.
<1>e. ASSUME NEW s \in {"finished", "scheduled", "stopped", "started"}, Runs(w),
             worker' = [worker EXCEPT ![w] = IdleWorker],
             job' = [job EXCEPT ![worker[w].job].status = s]
      PROVE  \E j \in Jobs : Execution!Settle(j, w)
  <2>1. PICK j \in Jobs : j = worker[w].job
    BY <1>e DEF WorkersHoldTheirJobs, Runs
  <2>2. ~Runs(w)' /\ \A v \in Workers \ {w} : SameWorker(v)
    BY <1>e DEF IdleWorker, Runs, SameWorker
  <2>3. ~Waits(j)' /\ ~Fresh(j)' /\ \A i \in Jobs \ {j} : SameJob(i)
    BY <1>e, <2>1 DEF Waits, Fresh, SameJob
  <2> QED
    BY <1>e, <2>1, <2>2, <2>3, SettleStep
<1>1. ASSUME NEW j \in Jobs, TakeJob(w, j) PROVE UNCHANGED Execution!vars
  BY <1>1, StutterStep DEF TakeJob, Dequeue, SameJob, SameWorker, Waits, Fresh, Runs
<1>2. CASE BeginJob(w)
  <2>1. PICK j \in Jobs : j = worker[w].job /\ job[j].status = "dequeued"
    BY <1>2 DEF BeginJob, WorkersHoldTheirJobs
  <2>2. /\ ~Runs(w) /\ Runs(w)' /\ worker'[w].job = j
        /\ \A v \in Workers \ {w} : SameWorker(v)
    BY <1>2, <2>1 DEF BeginJob, Goto, Runs, SameWorker
  <2>3. /\ Waits(j) /\ ~Waits(j)' /\ ~Fresh(j)'
        /\ \A i \in Jobs \ {j} : SameJob(i)
    BY <1>2, <2>1 DEF BeginJob, Register, Waits, Fresh, SameJob
  <2>4. Execution!Execute(j, w)
    BY <2>1, <2>2, <2>3, ExecuteStep
  <2> QED
    BY <2>1, <2>4 DEF Execution!Next
<1>3. CASE ValidatePayload(w) \/ MarkRunning(w) \/ MarkFailed(w)
  BY <1>3, <1>s DEF ValidatePayload, MarkRunning, MarkFailed, Goto, Runs
<1>4. CASE CheckCancelled(w)
  BY <1>4, <1>s DEF CheckCancelled, Goto, GotoEnd, Runs
<1>5. CASE PersistPermutation(w)
  BY <1>5, <1>s DEF PersistPermutation, AfterPerm, Runs
<1>6. CASE MarkCompleted(w) \/ Raise(w) \/ RaiseUnmarked(w)
  BY <1>6, <1>s DEF MarkCompleted, Raise, RaiseUnmarked, Goto, GotoEnd, Runs
<1>7. CASE ReturnResult(w) \/ ScheduleRetry(w)
  BY <1>7, <1>e DEF ReturnResult, ScheduleRetry, Leave, Runs, Execution!Next
<1>8. CASE StopJob(w)
  <2>1. CASE Runs(w)
    BY <1>8, <1>e, <2>1 DEF StopJob, Leave, Execution!Next
  <2>2. CASE ~Runs(w)
    <3>1. PICK j \in Jobs : j = worker[w].job /\ job[j].status = "dequeued"
      BY <1>8, <2>2 DEF StopJob, Runs, WorkersHoldTheirJobs
    <3>2. Execution!Withdraw(j)
      <4>1. /\ Waits(j) /\ ~Waits(j)' /\ ~Fresh(j)'
            /\ \A i \in Jobs \ {j} : SameJob(i)
        BY <1>8, <3>1 DEF StopJob, Leave, Waits, Fresh, SameJob
      <4>2. \A v \in Workers : SameWorker(v)
        BY <1>8, <2>2 DEF StopJob, IdleWorker, Runs, SameWorker
      <4> QED
        BY <3>1, <4>1, <4>2, WithdrawStep
    <3> QED
      BY <3>1, <3>2 DEF Execution!Next
  <2> QED
    BY <2>1, <2>2
<1>9. CASE CrashWorker(w)
  <2>1. CASE Runs(w)
    <3>1. job[worker[w].job].status = "started" /\ worker[w].job \in Jobs
      BY <2>1 DEF Runs, WorkersHoldTheirJobs
    <3>2. job' = [job EXCEPT ![worker[w].job].status = "started"]
      BY <1>9, <3>1 DEF CrashWorker
    <3> QED
      BY <1>9, <1>e, <2>1, <3>2 DEF CrashWorker, Execution!Next
  <2>2. CASE ~Runs(w)
    BY <1>9, <2>2, StutterStep
    DEF CrashWorker, IdleWorker, SameJob, SameWorker, Waits, Fresh, Runs
  <2> QED
    BY <2>1, <2>2
<1> QED
  BY <1>1, <1>2, <1>3, <1>4, <1>5, <1>6, <1>7, <1>8, <1>9 DEF WorkerStep

\* Steps of the API and of RQ: they submit a job, withdraw one that waits, or
\* do nothing the abstract specification sees.
LEMMA ExecutionOther ==
  ASSUME TypeOK, WorkersHoldTheirJobs,
         \/ \E r \in Requests : RequestStep(r) \/ UserRequest(r)
         \/ \E j \in Jobs : AbandonJob(j)
         \/ \E e \in Experiments : Delete(e)
         \/ \E e \in Experiments : ExpireMapping(e) /\ UNCHANGED <<row, worker, req>>
         \/ \E j \in Jobs : ExpireResult(j) /\ UNCHANGED <<row, worker, req>>
  PROVE  [Execution!Next]_(Execution!vars)
<1>t. QueueTypeOK
  BY TypeParts
<1> USE <1>t DEF QueueTypeOK, JobRecord
<1>w. UNCHANGED worker /\ \A w \in Workers : SameWorker(w)
  <2>1. UNCHANGED worker
    BY RequestKeepsWorkers DEF AbandonJob, Delete
  <2> QED
    BY <2>1 DEF SameWorker, Runs
<1>s. UNCHANGED job => UNCHANGED Execution!vars
  BY <1>w, StutterStep DEF SameJob, Waits, Fresh
<1>e. ASSUME NEW j \in Jobs, NEW e, Enqueue(j, e) PROVE Execution!Next
  <2>1. Fresh(j) /\ Waits(j)' /\ \A i \in Jobs \ {j} : SameJob(i)
    BY <1>e DEF Enqueue, Fresh, Waits, SameJob
  <2> QED
    BY <1>w, <2>1, SubmitStep DEF Execution!Next
<1>m. ASSUME NEW j \in Jobs, Waits(j), NEW s \in {"gone", "scheduled"},
             job' = [job EXCEPT ![j].status = s]
      PROVE  Execution!Next
  <2>1. ~Waits(j)' /\ ~Fresh(j)' /\ \A i \in Jobs \ {j} : SameJob(i)
    BY <1>m DEF Waits, Fresh, SameJob
  <2> QED
    BY <1>m, <1>w, <2>1, WithdrawStep DEF Execution!Next
<1>1. ASSUME NEW r \in Requests, RequestStep(r) PROVE [Execution!Next]_(Execution!vars)
  <2>1. ASSUME NEW j \in Jobs, RetryEnqueue(r, j) PROVE Execution!Next
    BY <1>e, <2>1 DEF RetryEnqueue
  <2>2. CASE CancelQueued(r)
    <3>1. CASE RemoveQueued(req[r].job) /\ req[r].job \in Jobs
      BY <1>m, <3>1 DEF RemoveQueued, Waits
    <3>2. CASE ~RemoveQueued(req[r].job) \/ req[r].job \notin Jobs
      BY <1>s, <2>2, <3>2 DEF CancelQueued, RemoveQueued
    <3> QED
      BY <3>1, <3>2
  <2>3. CASE ~(CancelQueued(r) \/ \E j \in Jobs : RetryEnqueue(r, j))
    <3>1. UNCHANGED job
      BY <1>1, <2>3
      DEF RequestStep, CreateSetMapping, CreateCommit, CreateRollback, RetrySetMapping,
          RetryCommit, RetryRollback, SetMapping, GetMapping, FetchMapped, ScanQueued, ScanStarted,
          FetchActive, Reconcile, JobCancelFindRow, JobCancelCheckRow, CancelRunning, SendStop, CancelSettled,
          DeleteMapping, DeleteMappingFor, MarkCancelled, JobCancelMark
    <3> QED
      BY <1>s, <3>1
  <2> QED
    BY <2>1, <2>2, <2>3
<1>2. ASSUME NEW r \in Requests, UserRequest(r) PROVE [Execution!Next]_(Execution!vars)
  <2>1. ASSUME NEW e \in Experiments, NEW j \in Jobs, CreateEnqueue(r, e, j)
        PROVE  Execution!Next
    BY <1>e, <2>1 DEF CreateEnqueue
  <2>2. CASE ~\E e \in Experiments, j \in Jobs : CreateEnqueue(r, e, j)
    BY <1>2, <1>s, <2>2 DEF UserRequest, RetryRead, ListRead, CancelRead, JobCancelRead
  <2> QED
    BY <2>1, <2>2
<1>3. ASSUME NEW j \in Jobs, AbandonJob(j) PROVE [Execution!Next]_(Execution!vars)
  <2>1. CASE job[j].status = "dequeued"
    BY <1>3, <1>m, <2>1 DEF AbandonJob, Leave, Waits
  <2>2. CASE job[j].status = "started"
    BY <1>3, <1>w, <2>2, StutterStep DEF AbandonJob, Leave, SameJob, Waits, Fresh
  <2> QED
    BY <1>3, <2>1, <2>2 DEF AbandonJob
<1>4. ASSUME NEW j \in Jobs, ExpireResult(j) PROVE UNCHANGED Execution!vars
  BY <1>4, <1>w, StutterStep DEF ExpireResult, SameJob, Waits, Fresh
<1>5. ASSUME NEW e \in Experiments, Delete(e) \/ ExpireMapping(e) PROVE UNCHANGED Execution!vars
  BY <1>5, <1>s DEF Delete, ExpireMapping
<1> QED
  BY <1>1, <1>2, <1>3, <1>4, <1>5

\* Whatever is crashed, stopped, retried, withdrawn or expired meanwhile, a
\* job is executed at most once and by one worker, and never once withdrawn.
THEOREM ImplementsAtMostOnce == Spec => ExecutesAtMostOnce
<1>1. Init => Execution!Init
  BY ExecutionInit
<1>2. LifecycleInv /\ [Next]_sysVars => [Execution!Next]_(Execution!vars)
  <2> SUFFICES ASSUME LifecycleInv, [Next]_sysVars PROVE [Execution!Next]_(Execution!vars)
    OBVIOUS
  <2>1. CASE Next
    BY <2>1, ExecutionWorker, ExecutionOther DEF LifecycleInv, Next, Environment
  <2>2. CASE UNCHANGED sysVars
    BY <2>2, StutterStep DEF sysVars, SameJob, SameWorker, Waits, Fresh, Runs
  <2> QED
    BY <2>1, <2>2
<1> QED
  BY <1>1, <1>2, LifecycleInvariant, PTL DEF Spec, ExecutesAtMostOnce, Execution!Spec
=============================================================================
