----------------------------- MODULE RunProperties --------------------------
(***************************************************************************)
(* What a run of an experiment guarantees.  The observers record what a    *)
(* property needs to know of the past; no action reads them.               *)
(***************************************************************************)
EXTENDS LifecycleProperties

VARIABLES
  late,    \* per run: permutations persisted since the row became Cancelled
  wiped,   \* per run: its experiment's logs were deleted since it began
  calm     \* per experiment: nobody cancelled, retried, deleted or reconciled it

vars == <<job, mapping, stopping, row, worker, req, late, wiped, calm>>

Busy(w) == ~At(w, "idle")

ObserveInit ==
  /\ late = [w \in Workers |-> 0]
  /\ wiped = [w \in Workers |-> FALSE]
  /\ calm = [e \in Experiments |-> TRUE]

ObserveRuns ==
  /\ late' = [w \in Workers |->
                IF ~Busy(w)' \/ row'[ExpOf(w)'].status # "Cancelled" THEN 0
                ELSE IF At(w, "persist") /\ worker'[w].pc \in {"check", "complete"}
                     THEN late[w] + 1 ELSE late[w]]
  /\ wiped' = [w \in Workers |->
                 /\ Busy(w)'
                 /\ wiped[w] \/ ~(row[ExpOf(w)'].logs \subseteq row'[ExpOf(w)'].logs)]

ObserveCalm ==
  calm' = [e \in Experiments |->
             /\ calm[e]
             /\ row'[e].status # "deleted"
             /\ \A r \in Requests : req'[r].exp = e =>
                  req'[r].op \in {"create", "refresh"} /\ req'[r].pc # "reconcile"]

RunSpec == Init /\ ObserveInit /\ [][Next /\ ObserveRuns /\ ObserveCalm]_vars

-----------------------------------------------------------------------------
\* Cancelling an experiment costs at most the permutation that is already
\* under way: no run persists two permutations while the row stays Cancelled
\* (check_cancelled at the top of the executor's permutation loop).
CancelBoundsWork == \A w \in Workers : late[w] <= 1

\* A run that reaches mark_completed has log rows for every permutation of
\* its experiment, unless a retry or a deletion removed logs under it.
UndisturbedRunIsWhole ==
  \A w \in Workers :
    At(w, "complete") /\ ~wiped[w] /\ RowExists(ExpOf(w)) => row[ExpOf(w)].logs = Perms

\* Left alone by its owner and by reconciliation, an experiment only moves
\* Queued -> Running -> Completed or Failed, each at most once, crashes and
\* RQ's bookkeeping of failed attempts included.  Completed is not the end: an
\* exception between the commit and the handler's return, such as RQ's timeout,
\* is taken for a failure of the run, and then of that run alone.
UndisturbedPath ==
  [][\A e \in Experiments :
       calm'[e] /\ row'[e].status # row[e].status
         => \/ <<row[e].status, row'[e].status>> \in
                 {<<"unused", "uncommitted">>, <<"uncommitted", "rolledback">>,
                  <<"uncommitted", "Queued">>, <<"Queued", "Running">>,
                  <<"Queued", "Failed">>, <<"Running", "Completed">>,
                  <<"Running", "Failed">>}
            \/ /\ <<row[e].status, row'[e].status>> = <<"Completed", "Failed">>
               /\ row[e].logs = Perms
               /\ \E w \in Workers : At(w, "fail") /\ ExpOf(w) = e]_vars
=============================================================================
