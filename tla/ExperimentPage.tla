--------------------------- MODULE ExperimentPage ---------------------------
(***************************************************************************)
(* The page of one experiment (frontend/views/ExperimentDetailView.tsx): it *)
(* loads the experiment every three seconds while what it shows is active,  *)
(* and after each of the user's actions.  A load is read by the server at   *)
(* some time and answered at a later one; nothing orders the answers.       *)
(***************************************************************************)
EXTENDS Integers, Sequences, FiniteSets, SequencesExt

CONSTANTS
  Executed,      \* the models of the experiment, in the order they are found
  Ranking,       \* a sort order -> the models, in the order the page gives them
  Positive,      \* models with a positive return
  Zero,          \* models whose return is exactly zero, such as those without a trade
  LeaderboardSize, \* models the server sends for the leaderboard, at most; 20 in the code
  Cluster,       \* model -> its point of the risk chart
  PageSize,      \* rows of a page of the leaderboard; 20 in the code
  HistoryLimit,  \* lines the terminal keeps; 300 in the code
  MaxLoads,      \* loads under way, at most
  MaxRetries,    \* part of the page -> retries, at most, while it is followed
  NoModel, NoPoint

Model == ToSet(Executed)

\* The parts share only what is loaded: a behaviour follows one of them.
Parts == {"board", "risk", "terminal", "round"}

PlaceIn(order, m) == CHOOSE i \in 1 .. Len(order) : order[i] = m

ReturnPlace(m) == PlaceIn(Ranking["total_return_net_pct"], m)

ASSUME ExperimentPageAssumption ==
  /\ {PageSize, HistoryLimit, MaxLoads, LeaderboardSize} \subseteq Nat \ {0} /\ MaxRetries \in [Parts -> Nat]
  /\ Executed \in Seq(Model)
  /\ "total_return_net_pct" \in DOMAIN Ranking
  /\ \A key \in DOMAIN Ranking : Ranking[key] \in Seq(Model) /\ ToSet(Ranking[key]) = Model
  /\ Positive \subseteq Model /\ Zero \subseteq Model \ Positive
  /\ \A m \in Positive, o \in Model \ Positive : ReturnPlace(m) < ReturnPlace(o)
  /\ NoModel \notin Model

VARIABLES
  experiment,  \* at the server: [status, models, retries]
  shown,       \* data, {} before the first answer: {[status, models]}
  loads,       \* [unread, replies]: loads the server has not read, answers on the way
  action,      \* the user's action under way
  terminal,    \* [lines, seen]
  board,       \* [page, sort, positiveOnly, selected, open]
  risk,        \* [key, active]: the point selected in the risk chart and its row
  round,       \* [typed, error, fetching]: the model whose round log is asked for
  watched      \* the part of the page that is followed in this behaviour

experimentVars == <<experiment, shown, loads, action, terminal, board, risk, round, watched>>

Active == {"queued", "running"}

Data == [status : Active \cup {"completed", "failed", "cancelled"}, models : SUBSET Model]

ExperimentInit ==
  /\ experiment = [status |-> "queued", models |-> {}, retries |-> 0]
  /\ shown = {}
  /\ loads = [unread |-> 1, replies |-> {}]
  /\ action = "none"
  /\ terminal = [lines |-> <<>>, seen |-> {}]
  /\ board = [page |-> 1, sort |-> "total_return_net_pct", positiveOnly |-> FALSE,
              selected |-> NoModel, open |-> FALSE]
  /\ risk = [key |-> NoPoint, active |-> NoModel]
  /\ round = [typed |-> NoModel, error |-> FALSE, fetching |-> NoModel]
  /\ watched \in Parts
-----------------------------------------------------------------------------
(* What is computed from the answer shown. *)

Rows(data) == UNION {d.models : d \in data}

Status(data) == IF data = {} THEN "unknown" ELSE (CHOOSE d \in data : TRUE).status

\* Sorted by return, best first, at the server: a return of zero is falsy there,
\* counts as missing and comes last.
ServedBefore(o, m) ==
  IF o \in Zero <=> m \in Zero THEN ReturnPlace(o) < ReturnPlace(m) ELSE m \in Zero

\* The leaderboard has the first of them only, the charts of it too; what is
\* counted and named best is not so limited.
Leaderboard(data) ==
  {m \in Rows(data) : Cardinality({o \in Rows(data) : ServedBefore(o, m)}) < LeaderboardSize}

\* Some models, best first: the i-th has i of them, itself included, up to its place.
Ranked(models, sort) ==
  LET upTo(m) == {o \in models : PlaceIn(Ranking[sort], o) <= PlaceIn(Ranking[sort], m)}
  IN [i \in 1 .. Cardinality(models) |-> CHOOSE m \in models : Cardinality(upTo(m)) = i]

Filtered(data, b) ==
  Ranked({m \in Leaderboard(data) : b.positiveOnly => m \in Positive}, b.sort)

\* The card that names the model of the best return.
BestReturn(data) ==
  IF Rows(data) = {} THEN NoModel
  ELSE CHOOSE m \in Rows(data) : \A o \in Rows(data) : ReturnPlace(m) <= ReturnPlace(o)

\* The counts of the overview: all models, and those with a positive return.
Overview(data) == <<Cardinality(Rows(data)), Cardinality(Rows(data) \cap Positive)>>

PageCount(data, b) ==
  LET n == (Len(Filtered(data, b)) + PageSize - 1) \div PageSize IN IF n < 1 THEN 1 ELSE n

PagedLeaderboard(data, b) ==
  LET rows == Filtered(data, b)
      last == IF b.page * PageSize < Len(rows) THEN b.page * PageSize ELSE Len(rows)
  IN SubSeq(rows, (b.page - 1) * PageSize + 1, last)

\* The row chosen, if it is there, else the first.
SelectedModel(data, b) ==
  LET rows == Filtered(data, b)
      first == IF rows = <<>> THEN NoModel ELSE rows[1]
  IN IF b.selected \in Leaderboard(data) THEN b.selected ELSE first

CanCancel == Status(shown) \in Active

CanRetry == Status(shown) \in {"failed", "cancelled"}

CanExport == Status(shown) = "completed"

\* The effect on the number of pages.
Clamped(data, b) ==
  LET n == PageCount(data, b) IN IF b.page > n THEN [b EXCEPT !.page = n] ELSE b

\* The rank curve and the risk charts have the whole leaderboard, unfiltered.
RankCurve(data) == Ranked(Leaderboard(data), "total_return_net_pct")

\* The row that the risk chart takes for selected.
ChartRow(data, b) ==
  LET rows == RankCurve(data)
      m == SelectedModel(data, b)
  IN IF rows = <<>> \/ m # NoModel THEN m ELSE rows[1]

\* The effect that fills an empty selection of the risk chart.
RiskFilled(data, b, r) ==
  LET m == ChartRow(data, b)
  IN IF m = NoModel THEN r
     ELSE [key |-> IF r.key = NoPoint THEN Cluster[m] ELSE r.key,
           active |-> IF r.active = NoModel THEN m ELSE r.active]

\* The rows listed beside the chart: those of the point, or the row it had.
RiskRows ==
  LET there == {m \in Leaderboard(shown) : Cluster[m] = risk.key}
  IN IF there # {} THEN there ELSE {risk.active} \ {NoModel}

\* The lines that say what a load brought.
Snapshot(d) == <<<<"status", d.status>>, <<"model", ToString(Cardinality(d.models))>>>>

Kept(lines) ==
  SubSeq(lines, IF Len(lines) > HistoryLimit THEN Len(lines) - HistoryLimit + 1 ELSE 1, Len(lines))

\* Those of them that have not been printed.
Fresh(d, seen) ==
  LET unless(line) == IF line \in seen THEN <<>> ELSE <<line>>
  IN unless(Snapshot(d)[1]) \o unless(Snapshot(d)[2])

\* The effect that prints them, and its limit.
Printed(d, t) ==
  [lines |-> Kept(t.lines \o Fresh(d, t.seen)), seen |-> t.seen \cup ToSet(Fresh(d, t.seen))]
-----------------------------------------------------------------------------
(* The server. *)

Work ==
  /\ \/ experiment.status = "queued" /\ experiment' = [experiment EXCEPT !.status = "running", !.models = {}]
     \/ /\ experiment.status = "running"
        /\ Cardinality(experiment.models) < Len(Executed)
        /\ experiment' = [experiment EXCEPT !.models = @ \cup {Executed[Cardinality(@) + 1]}]
     \/ /\ experiment.status = "running"
        /\ \E s \in {"completed", "failed"} : experiment' = [experiment EXCEPT !.status = s]
  /\ UNCHANGED <<shown, loads, action, terminal, board, risk, round, watched>>

ReadExperiment ==
  /\ loads.unread > 0
  /\ loads' = [unread |-> loads.unread - 1,
               replies |-> loads.replies \cup {[status |-> experiment.status, models |-> experiment.models]}]
  /\ UNCHANGED <<experiment, shown, action, terminal, board, risk, round, watched>>
-----------------------------------------------------------------------------
Load ==
  /\ loads.unread + Cardinality(loads.replies) < MaxLoads
  /\ loads' = [loads EXCEPT !.unread = @ + 1]

Poll ==
  /\ Status(shown) \in Active
  /\ Load
  /\ UNCHANGED <<experiment, shown, action, terminal, board, risk, round, watched>>

LoadArrives ==
  /\ \E reply \in loads.replies :
       /\ loads' = [loads EXCEPT !.replies = @ \ {reply}]
       /\ shown' = {reply}
       /\ board' = Clamped(shown', board)
       /\ risk' = IF watched = "risk" THEN RiskFilled(shown', board', risk) ELSE risk
       /\ terminal' = IF watched = "terminal" THEN Printed(reply, terminal) ELSE terminal
  /\ UNCHANGED <<experiment, action, round, watched>>

\* Nothing catches a failure: what is shown stays, and polling with it.
LoadFails ==
  /\ loads.unread > 0
  /\ loads' = [loads EXCEPT !.unread = @ - 1]
  /\ UNCHANGED <<experiment, shown, action, terminal, board, risk, round, watched>>
-----------------------------------------------------------------------------
Click(name) ==
  /\ action = "none"
  /\ action' = name
  /\ UNCHANGED <<experiment, shown, loads, terminal, board, risk, round, watched>>

ClickCancel == watched = "round" /\ CanCancel /\ Click("cancel")

ClickRetry == CanRetry /\ experiment.retries < MaxRetries[watched] /\ Click("retry")

ClickDelete == watched = "round" /\ shown # {} /\ Click("delete")

\* The server's part of an action.  A cancellation that comes too late is still
\* answered; the other actions are refused when they no longer apply.
ActionServed ==
  /\ \/ /\ action = "cancel"
        /\ experiment' = IF experiment.status \in Active THEN [experiment EXCEPT !.status = "cancelled"]
                         ELSE experiment
        /\ action' = "answered"
     \/ /\ action = "retry" /\ experiment.status \in {"failed", "cancelled"}
        /\ experiment' = [status |-> "queued", models |-> {}, retries |-> experiment.retries + 1]
        /\ action' = "answered"
     \/ /\ action = "delete" /\ experiment.status \notin Active
        /\ action' = "deleted" /\ UNCHANGED experiment
  /\ UNCHANGED <<shown, loads, terminal, board, risk, round, watched>>

\* Its answer, after which the page loads again; a deletion leaves the page.
ActionAnswered ==
  /\ action = "answered"
  /\ action' = "none"
  /\ Load
  /\ UNCHANGED <<experiment, shown, terminal, board, risk, round, watched>>

\* A refused or lost action rejects and nothing more happens.
ActionFails ==
  /\ action \in {"cancel", "retry", "delete"}
  /\ action' = "none"
  /\ UNCHANGED <<experiment, shown, loads, terminal, board, risk, round, watched>>
-----------------------------------------------------------------------------
EditFilters ==
  /\ watched \in {"board", "risk"}
  /\ \E sort \in DOMAIN Ranking, positiveOnly \in BOOLEAN :
       /\ <<sort, positiveOnly>> # <<board.sort, board.positiveOnly>>
       /\ board' = [board EXCEPT !.page = 1, !.sort = sort, !.positiveOnly = positiveOnly]
  /\ UNCHANGED <<experiment, shown, loads, action, terminal, risk, round, watched>>

TurnPage ==
  /\ watched = "board"
  /\ \E p \in {board.page - 1, board.page + 1} \cap (1 .. PageCount(shown, board)) :
       board' = [board EXCEPT !.page = p]
  /\ UNCHANGED <<experiment, shown, loads, action, terminal, risk, round, watched>>

ViewModel ==
  /\ watched = "board"
  /\ \E m \in ToSet(PagedLeaderboard(shown, board)) : board' = [board EXCEPT !.selected = m, !.open = TRUE]
  /\ UNCHANGED <<experiment, shown, loads, action, terminal, risk, round, watched>>

CloseModel ==
  /\ board.open
  /\ board' = [board EXCEPT !.open = FALSE]
  /\ UNCHANGED <<experiment, shown, loads, action, terminal, risk, round, watched>>

\* A click on a point of the chart: its first row becomes the active one.
SelectChartPoint ==
  /\ watched = "risk"
  /\ \E m \in Leaderboard(shown) :
       risk' = [key |-> Cluster[m],
                active |-> Ranked({o \in Leaderboard(shown) : Cluster[o] = Cluster[m]}, "total_return_net_pct")[1]]
  /\ UNCHANGED <<experiment, shown, loads, action, terminal, board, round, watched>>
-----------------------------------------------------------------------------
(* The log of one model, which the server makes by training it again. *)

TypeRoundModel ==
  /\ watched = "round" /\ CanExport
  /\ \E m \in Model \cup {NoModel} : round' = [round EXCEPT !.typed = m, !.error = FALSE]
  /\ UNCHANGED <<experiment, shown, loads, action, terminal, board, risk, watched>>

DownloadRoundLog ==
  /\ watched = "round" /\ CanExport
  /\ round.fetching = NoModel
  /\ round' = IF round.typed = NoModel THEN [round EXCEPT !.error = TRUE]
              ELSE [round EXCEPT !.error = FALSE, !.fetching = round.typed]
  /\ UNCHANGED <<experiment, shown, loads, action, terminal, board, risk, watched>>

RoundLogAnswered ==
  /\ round.fetching # NoModel
  /\ \E failed \in BOOLEAN : round' = [round EXCEPT !.fetching = NoModel, !.error = @ \/ failed]
  /\ UNCHANGED <<experiment, shown, loads, action, terminal, board, risk, watched>>

ExperimentNext ==
  /\ action # "deleted"
  /\ \/ Work \/ ReadExperiment
     \/ Poll \/ LoadArrives \/ LoadFails
     \/ ClickCancel \/ ClickRetry \/ ClickDelete \/ ActionServed \/ ActionAnswered \/ ActionFails
     \/ EditFilters \/ TurnPage \/ ViewModel \/ CloseModel \/ SelectChartPoint
     \/ TypeRoundModel \/ DownloadRoundLog \/ RoundLogAnswered
-----------------------------------------------------------------------------
ExperimentTypeOK ==
  /\ experiment.status \in Active \cup {"completed", "failed", "cancelled"}
  /\ shown \subseteq Data /\ Cardinality(shown) <= 1
  /\ loads.unread \in 0 .. MaxLoads /\ loads.replies \subseteq Data
  \* A terminal line says when something was seen first: each is printed once.
  /\ Len(terminal.lines) <= HistoryLimit
  /\ Len(terminal.lines) = Cardinality(ToSet(terminal.lines))

\* Answers may come late and take rows away again: still the page of the
\* leaderboard shows rows whenever the filters leave any; with or without the
\* positive-return filter it has as many as the overview counts, as far as it
\* reaches; sorted by return and unfiltered it begins with the model the card
\* names best, unless that one's return is zero and it did not get in; and the
\* list beside the risk chart names a model.
ResultsStayInView ==
  /\ Filtered(shown, board) # <<>> => PagedLeaderboard(shown, board) # <<>>
  /\ LET counted == Overview(shown)[IF board.positiveOnly THEN 2 ELSE 1]
     IN Len(Filtered(shown, board)) = IF counted < LeaderboardSize THEN counted ELSE LeaderboardSize
  /\ /\ ~board.positiveOnly /\ board.page = 1 /\ board.sort = "total_return_net_pct"
     /\ Rows(shown) # {}
     /\ BestReturn(shown) \notin Zero \/ Cardinality(Rows(shown)) <= LeaderboardSize
     => PagedLeaderboard(shown, board)[1] = BestReturn(shown)
  /\ watched = "risk" /\ Rows(shown) # {} => RiskRows # {}
=============================================================================
