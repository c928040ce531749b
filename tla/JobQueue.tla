------------------------------ MODULE JobQueue ------------------------------
(***************************************************************************)
(* The experiment queue: RedisJobQueue and the RQ records it reads and     *)
(* writes (app/infrastructure/redis/job_queue.py).                         *)
(*                                                                         *)
(* The three priority lists are one set of queued jobs: nothing stated     *)
(* here depends on which waiting job a worker takes first.  What RQ itself *)
(* does to a job between the calls of this repository is external and      *)
(* modelled from those calls: a job is taken off its list, then registered *)
(* as started, and ends as finished, stopped or scheduled for a retry.     *)
(* enqueue passes Retry(max=2, interval=[30, 120]), so an attempt that     *)
(* raises is scheduled; run_worker calls worker.work() without a scheduler *)
(* and nothing else in the repository starts one, so a scheduled job is    *)
(* never queued again.                                                     *)
(***************************************************************************)
EXTENDS FiniteSets

CONSTANTS
  Jobs,          \* RQ job identifiers
  Experiments,   \* experiment primary keys
  NoJob,         \* no identifier stored under experiment_job:<id>
  NoExperiment

ASSUME JobQueueAssumption ==
  /\ NoJob \notin Jobs
  /\ NoExperiment \notin Experiments

VARIABLES
  job,       \* the RQ record of each job: its status and its payload
  mapping,   \* the Redis keys experiment_job:<experiment_id>
  stopping   \* jobs a stop command has been published for

queueVars == <<job, mapping, stopping>>

JobStatus == {"unused", "queued", "dequeued", "started",
              "finished", "scheduled", "stopped", "gone"}

JobState == {"queued", "running", "finished", "canceled"}

JobRecord == [status: JobStatus, exp: Experiments \cup {NoExperiment}]

QueueTypeOK ==
  /\ job \in [Jobs -> JobRecord]
  /\ mapping \in [Experiments -> Jobs \cup {NoJob}]
  /\ stopping \in SUBSET Jobs

QueueInit ==
  /\ job = [j \in Jobs |-> [status |-> "unused", exp |-> NoExperiment]]
  /\ mapping = [e \in Experiments |-> NoJob]
  /\ stopping = {}
-----------------------------------------------------------------------------
(* Reads. *)

\* Job.fetch finds the hash of the job.
Stored(j) == job[j].status \notin {"unused", "gone"}

\* The jobs of an experiment on a priority list, and in a StartedJobRegistry.
QueuedFor(e)  == {j \in Jobs : job[j].exp = e /\ job[j].status = "queued"}
StartedFor(e) == {j \in Jobs : job[j].exp = e /\ job[j].status = "started"}

\* RQ's status word as the API reports it.  A job off its list but not yet
\* registered still carries "queued"; a scheduled retry is reported "queued".
NormalizeJobState(status) ==
  CASE status \in {"queued", "dequeued", "scheduled"} -> "queued"
    [] status = "started"  -> "running"
    [] status = "finished" -> "finished"
    [] OTHER               -> "canceled"
-----------------------------------------------------------------------------
(* What the API does to the queue. *)

\* As a bug would have it: the job id is not fresh (one per experiment, say).
EnqueueReusingId(j, e) ==
  /\ job[j].status # "queued"
  /\ job' = [job EXCEPT ![j] = [status |-> "queued", exp |-> e]]
  /\ UNCHANGED <<mapping, stopping>>

\* queue.enqueue: from here on a worker can take the job.
Enqueue(j, e) ==
  /\ job[j].status = "unused"
  /\ job' = [job EXCEPT ![j] = [status |-> "queued", exp |-> e]]
  /\ UNCHANGED <<mapping, stopping>>

\* The key that maps the experiment to its job is set after the enqueue.
SetMapping(e, j) ==
  /\ mapping' = [mapping EXCEPT ![e] = j]
  /\ UNCHANGED <<job, stopping>>

\* queue.remove(job_id, delete_job=True) on a job that is on its list.  The
\* hash is gone when the mapping is looked up for deletion, so the key stays.
RemoveQueued(j) ==
  /\ job[j].status = "queued"
  /\ job' = [job EXCEPT ![j].status = "gone"]
  /\ UNCHANGED <<mapping, stopping>>

\* send_stop_job_command publishes to the worker that executes the job; it
\* raises when the job is not executing.
SendStop(j) ==
  /\ job[j].status = "started"
  /\ stopping' = stopping \cup {j}
  /\ UNCHANGED <<job, mapping>>

\* The second half of cancel_running_job: the key of the job's experiment is
\* deleted whichever job it names by now.
DeleteMappingFor(j) ==
  /\ mapping' = [e \in Experiments |->
                   IF Stored(j) /\ job[j].exp = e THEN NoJob ELSE mapping[e]]
  /\ UNCHANGED <<job, stopping>>
-----------------------------------------------------------------------------
(* What RQ and Redis do. *)

Dequeue(j) ==
  /\ job[j].status = "queued"
  /\ job' = [job EXCEPT ![j].status = "dequeued"]
  /\ UNCHANGED <<mapping, stopping>>

Register(j) ==
  /\ job[j].status = "dequeued"
  /\ job' = [job EXCEPT ![j].status = "started"]
  /\ UNCHANGED <<mapping, stopping>>

\* The attempt is over; a stop command that has not arrived is void.
Leave(j, status) ==
  /\ job' = [job EXCEPT ![j].status = status]
  /\ stopping' = stopping \ {j}
  /\ UNCHANGED mapping

\* The mapping key and a finished job's hash live for result_ttl seconds.
ExpireMapping(e) ==
  /\ mapping[e] # NoJob
  /\ mapping' = [mapping EXCEPT ![e] = NoJob]
  /\ UNCHANGED <<job, stopping>>

ExpireResult(j) ==
  /\ job[j].status = "finished"
  /\ job' = [job EXCEPT ![j].status = "gone"]
  /\ UNCHANGED <<mapping, stopping>>
=============================================================================
