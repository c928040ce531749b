------------------------------- MODULE Survey -------------------------------
(***************************************************************************)
(* What a discovery of missing candles promises: it looks at the time asked *)
(* for from its beginning to its end, piece after piece, notes the minutes  *)
(* that lack a candle when their piece is looked at, and then tells them,   *)
(* all of them and no other.  Between two looks what is held may change.    *)
(***************************************************************************)
EXTENDS Naturals

CONSTANT Opens   \* the times at which minutes open

VARIABLES
  held,      \* minutes that have a candle
  at,        \* what lies before it has been looked at
  until,     \* the end of what is asked for
  lacking,   \* minutes that had no candle when they were looked at
  answer     \* {}, then {what was told}

surveyVars == <<held, at, until, lacking, answer>>

Init ==
  /\ held \in SUBSET Opens
  /\ at \in Nat /\ until \in Nat /\ at < until
  /\ lacking = {}
  /\ answer = {}

Look ==
  /\ answer = {}
  /\ \E to \in at + 1 .. until :
       /\ at' = to
       /\ lacking' = lacking \cup ({t \in Opens : at <= t /\ t < to} \ held)
  /\ UNCHANGED <<held, until, answer>>

Tell ==
  /\ answer = {}
  /\ at = until
  /\ answer' = {lacking}
  /\ UNCHANGED <<held, at, until, lacking>>

Change ==
  /\ held' \in SUBSET Opens
  /\ UNCHANGED <<at, until, lacking, answer>>

Next == Look \/ Tell \/ Change

Spec == Init /\ [][Next]_surveyVars
=============================================================================
