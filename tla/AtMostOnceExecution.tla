------------------------ MODULE AtMostOnceExecution -------------------------
(***************************************************************************)
(* What the queue and the worker together promise about a job: it waits,   *)
(* one worker executes it at most once, and then it is settled for good.   *)
(* A waiting job may be withdrawn, and a withdrawn job is never executed.  *)
(***************************************************************************)
CONSTANTS Jobs, Workers

VARIABLES
  waiting,   \* submitted, not yet taken by a worker
  running,   \* pairs <<job, worker>>: the worker executes the job
  settled    \* executed, abandoned or withdrawn

vars == <<waiting, running, settled>>

Init ==
  /\ waiting = {}
  /\ running = {}
  /\ settled = {}

Idle(w) == \A j \in Jobs : <<j, w>> \notin running

Submit(j) ==
  /\ j \notin waiting \cup settled
  /\ \A w \in Workers : <<j, w>> \notin running
  /\ waiting' = waiting \cup {j}
  /\ UNCHANGED <<running, settled>>

Withdraw(j) ==
  /\ j \in waiting
  /\ waiting' = waiting \ {j}
  /\ settled' = settled \cup {j}
  /\ UNCHANGED running

Execute(j, w) ==
  /\ j \in waiting
  /\ Idle(w)
  /\ waiting' = waiting \ {j}
  /\ running' = running \cup {<<j, w>>}
  /\ UNCHANGED settled

Settle(j, w) ==
  /\ <<j, w>> \in running
  /\ running' = running \ {<<j, w>>}
  /\ settled' = settled \cup {j}
  /\ UNCHANGED waiting

Next ==
  \/ \E j \in Jobs : Submit(j) \/ Withdraw(j)
  \/ \E j \in Jobs, w \in Workers : Execute(j, w) \/ Settle(j, w)

Spec == Init /\ [][Next]_vars
=============================================================================
