---------------------------- MODULE DecisionPages ----------------------------
(***************************************************************************)
(* The pages from which a user changes the state of something that others  *)
(* change as well: a blueprint and the moderation queue                    *)
(* (views/BlueprintDetailView, BlueprintModerationView), the job queue and  *)
(* one job (views/JobListView, JobDetailView).  The request is checked and *)
(* written by the server; the page shows the outcome that it asked for or   *)
(* reads again.                                                            *)
(***************************************************************************)
EXTENDS Naturals, FiniteSets

CONSTANTS
  Subjects,   \* blueprints or jobs
  Focus,      \* the one that a detail page is about
  MaxCalls,   \* requests under way, at most
  Unknown     \* not shown

VARIABLES
  desk,      \* [page, viewer]: the page, and what its viewer is to the blueprint
  record,    \* subject -> its state on the server
  past,      \* subject -> the states that it has had
  display,   \* subject -> the state on the page, or Unknown
  notice,    \* [loading, error, canceling]
  deskCalls  \* requests: [id, what, of, to, by, stage, got]

deskVars == <<desk, record, past, display, notice, deskCalls>>

BlueprintState == {"Draft", "Pending", "Approved", "Rejected", "Disapproved"}

JobProgress == {"queued", "running", "finished", "gone"}

ASSUME DecisionAssumption ==
  /\ Focus \in Subjects /\ MaxCalls \in Nat \ {0}
  /\ Unknown \notin BlueprintState \cup JobProgress

OfJobs == desk.page \in {"jobs", "job"}

Cancellable == {"queued", "running"}

\* The moves that the approval endpoints accept.
Moves == {<<"Draft", "Pending">>, <<"Pending", "Approved">>, <<"Pending", "Rejected">>,
          <<"Approved", "Disapproved">>}

\* The moves that a job makes.
JobMoves == {<<"queued", "running">>, <<"queued", "gone">>, <<"running", "finished">>,
             <<"running", "gone">>, <<"finished", "gone">>}

JobRank == [queued |-> 0, running |-> 1, finished |-> 2, gone |-> 3]

NewCall(calls, what, of, to, by) ==
  calls \cup {[what |-> what, of |-> of, to |-> to, by |-> by, stage |-> "sent", got |-> {},
               id |-> CHOOSE i \in 1 .. MaxCalls : \A c \in calls : c.id # i]}

LoadCall(calls, by) == NewCall(calls, "load", Focus, "none", by)

\* What the page is about; the rest is left as it is.
Seen == IF desk.page \in {"moderation", "jobs"} THEN Subjects ELSE {Focus}

Room == Cardinality(deskCalls) < MaxCalls

DecisionInit ==
  /\ desk \in [page : {"blueprint"}, viewer : {"owner", "staff"}]
              \cup [page : {"moderation", "jobs", "job"}, viewer : {"staff"}]
  /\ record = [s \in Subjects |-> IF OfJobs THEN "queued" ELSE "Draft"]
  /\ past = [s \in Subjects |-> {record[s]}]
  /\ display = [s \in Subjects |-> Unknown]
  /\ notice = [loading |-> desk.page \in {"blueprint", "job"}, error |-> FALSE, canceling |-> FALSE]
  /\ deskCalls = LoadCall({}, "open")
-----------------------------------------------------------------------------
(* The user. *)

\* onRequestApproval.
RequestApproval ==
  /\ desk.page = "blueprint" /\ desk.viewer = "owner"
  /\ display[Focus] = "Draft"
  /\ Room
  /\ deskCalls' = NewCall(deskCalls, "act", Focus, "Pending", "request")
  /\ UNCHANGED <<desk, record, past, display, notice>>

\* moderate, and the buttons of the moderation queue: offered in any state, to
\* be refused by the server.
Moderate ==
  /\ desk.page \in {"blueprint", "moderation"} /\ desk.viewer = "staff"
  /\ Room
  /\ \E s \in {s \in Subjects : display[s] # Unknown}, to \in {"Approved", "Rejected", "Disapproved"} :
       deskCalls' = NewCall(deskCalls, "act", s, to, "moderate")
  /\ UNCHANGED <<desk, record, past, display, notice>>

\* Refresh Queue.
RefreshQueue ==
  /\ desk.page = "moderation"
  /\ Room
  /\ deskCalls' = LoadCall(deskCalls, "refresh")
  /\ UNCHANGED <<desk, record, past, display, notice>>

\* The Cancel button of a queued row.
CancelRow ==
  /\ desk.page = "jobs"
  /\ Room
  /\ \E s \in {s \in Subjects : display[s] = "queued"} :
       deskCalls' = NewCall(deskCalls, "act", s, "gone", "cancel")
  /\ UNCHANGED <<desk, record, past, display, notice>>

\* handleCancel.
CancelJob ==
  /\ desk.page = "job"
  /\ display[Focus] \in Cancellable
  /\ ~notice.canceling
  /\ Room
  /\ deskCalls' = NewCall(deskCalls, "act", Focus, "gone", "cancel")
  /\ notice' = [notice EXCEPT !.canceling = TRUE, !.error = FALSE]
  /\ UNCHANGED <<desk, record, past, display>>
-----------------------------------------------------------------------------
(* The server. *)

Move(s, to) ==
  /\ record' = [record EXCEPT ![s] = to]
  /\ past' = [past EXCEPT ![s] = @ \cup {to}]

Staged(c, stage) == (deskCalls \ {c}) \cup {[c EXCEPT !.stage = stage]}

ServeLoad ==
  /\ \E c \in deskCalls : /\ c.what = "load" /\ c.stage = "sent"
                          /\ deskCalls' = (deskCalls \ {c}) \cup {[c EXCEPT !.stage = "ok", !.got = {record}]}
  /\ UNCHANGED <<desk, record, past, display, notice>>

\* The state is read and checked, and written later without another look.
CheckMove ==
  /\ \E c \in deskCalls :
       /\ c.what = "act" /\ c.stage = "sent"
       /\ LET from == record[c.of]
              may  == IF OfJobs THEN from \in Cancellable ELSE <<from, c.to>> \in Moves
          IN deskCalls' = Staged(c, IF may THEN "checked" ELSE "refused")
  /\ UNCHANGED <<desk, record, past, display, notice>>

\* A job that is executing by now is sent a stop command; one that is over
\* cannot be cancelled any more.
WriteMove ==
  /\ \E c \in deskCalls :
       /\ c.stage = "checked"
       /\ IF OfJobs /\ record[c.of] # "queued"
          THEN /\ deskCalls' = Staged(c, IF record[c.of] = "running" THEN "ok" ELSE "refused")
               /\ UNCHANGED <<record, past>>
          ELSE Move(c.of, c.to) /\ deskCalls' = Staged(c, "ok")
  /\ UNCHANGED <<desk, display, notice>>

\* Another user's decision, or the worker's progress.
Elsewhere ==
  /\ \E s \in Seen : \E m \in IF OfJobs THEN JobMoves ELSE Moves : record[s] = m[1] /\ Move(s, m[2])
  /\ UNCHANGED <<desk, display, notice, deskCalls>>
-----------------------------------------------------------------------------
(* Answers.  A call that fails was refused, or never arrived, or its answer *)
(* is lost after it was served.                                            *)

Failing(c) == c.stage # "checked"

\* What each page keeps of a list that it reads.
KeptToPage(got) ==
  [s \in Subjects |->
     CASE desk.page = "moderation"           -> IF got[s] = "Pending" THEN "Pending" ELSE Unknown
       [] desk.page = "jobs"                 -> IF got[s] \in Cancellable THEN got[s] ELSE Unknown
       [] desk.page \in {"blueprint", "job"} -> IF s = Focus /\ got[s] # "gone" THEN got[s] ELSE Unknown]

\* A job that is gone is answered with 404, which clears the page.
LoadAnswered ==
  /\ \E c \in deskCalls : \E got \in c.got :
       /\ deskCalls' = deskCalls \ {c}
       /\ display' = KeptToPage(got)
       /\ notice' = [loading   |-> FALSE,
                     error     |-> notice.error \/ (desk.page = "job" /\ got[Focus] = "gone"),
                     canceling |-> notice.canceling /\ c.by # "cancel"]
  /\ UNCHANGED <<desk, record, past>>

\* The detail of a blueprint and the moderation queue catch no failed load.
LoadLost ==
  /\ \E c \in deskCalls :
       /\ Failing(c) /\ c.what = "load"
       /\ deskCalls' = deskCalls \ {c}
       /\ display' = IF desk.page = "jobs" THEN [s \in Subjects |-> Unknown] ELSE display
       /\ notice' = IF OfJobs
                    THEN [loading |-> FALSE, error |-> TRUE, canceling |-> notice.canceling /\ c.by # "cancel"]
                    ELSE notice
  /\ UNCHANGED <<desk, record, past>>

\* A blueprint's page shows the state it asked for; the others load again.
ActAnswered ==
  /\ \E c \in deskCalls :
       /\ c.what = "act" /\ c.stage = "ok"
       /\ IF desk.page = "blueprint"
          THEN /\ display' = [display EXCEPT ![c.of] = c.to]
               /\ deskCalls' = deskCalls \ {c}
               /\ UNCHANGED notice
          ELSE /\ deskCalls' = LoadCall(deskCalls \ {c}, c.by)
               /\ notice' = [notice EXCEPT !.error = @ /\ ~OfJobs, !.loading = @ \/ desk.page = "job"]
               /\ UNCHANGED display
  /\ UNCHANGED <<desk, record, past>>

\* As a bug would have it: a decision is shown before, and in spite of, the answer.
ActRefusedShown ==
  /\ \E c \in deskCalls :
       /\ Failing(c) /\ c.what = "act"
       /\ deskCalls' = deskCalls \ {c}
       /\ notice' = IF desk.page = "job" THEN [notice EXCEPT !.error = TRUE, !.canceling = FALSE] ELSE notice
       /\ display' = IF desk.page = "blueprint" THEN [display EXCEPT ![c.of] = c.to] ELSE display
  /\ UNCHANGED <<desk, record, past>>

\* The page keeps what it shows; only a job's page tells of the failure.
ActFails ==
  /\ \E c \in deskCalls :
       /\ Failing(c) /\ c.what = "act"
       /\ deskCalls' = deskCalls \ {c}
       /\ notice' = IF desk.page = "job" THEN [notice EXCEPT !.error = TRUE, !.canceling = FALSE] ELSE notice
  /\ UNCHANGED <<desk, record, past, display>>

DecisionNext ==
  \/ RequestApproval \/ Moderate \/ RefreshQueue \/ CancelRow \/ CancelJob
  \/ ServeLoad \/ CheckMove \/ WriteMove \/ Elsewhere
  \/ LoadAnswered \/ LoadLost \/ ActAnswered \/ ActFails
-----------------------------------------------------------------------------
(* What the pages show. *)

DeskView ==
  CASE desk.page = "blueprint" ->
         IF notice.loading THEN {"loading"}
         ELSE IF display[Focus] = Unknown THEN {"not found"}
         ELSE {display[Focus]} \cup (IF desk.viewer = "staff" THEN {"approve", "reject", "disapprove"}
                                     ELSE IF display[Focus] = "Draft" THEN {"request approval"} ELSE {})
    [] desk.page = "job" ->
         {display[Focus]} \cup (IF notice.error THEN {"error"} ELSE {})
                          \cup (IF display[Focus] \in Cancellable /\ ~notice.canceling THEN {"cancel"} ELSE {})
    [] desk.page \in {"moderation", "jobs"} ->
         (IF notice.error THEN {"error"} ELSE {}) \cup
         ({display[s] : s \in Subjects} \ {Unknown}) \cup
         (IF \A s \in Subjects : display[s] = Unknown THEN {"empty"} ELSE {})
-----------------------------------------------------------------------------
DecisionTypeOK ==
  /\ record \in [Subjects -> IF OfJobs THEN JobProgress ELSE BlueprintState]
  /\ display \in [Subjects -> BlueprintState \cup JobProgress \cup {Unknown}]
  /\ Cardinality(deskCalls) <= MaxCalls

\* Whatever other users, workers and lost answers do meanwhile, a state that a
\* page shows is one that the blueprint or the job has had.
ShownWasReal == \A s \in Subjects : display[s] # Unknown => display[s] \in past[s]

\* The page of a job goes from the state it shows to that one or a later one.
JobGoesForward ==
  desk.page = "job" /\ Unknown \notin {display[Focus], display'[Focus]}
    => JobRank[display[Focus]] <= JobRank[display'[Focus]]
=============================================================================
