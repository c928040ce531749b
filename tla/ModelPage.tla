------------------------------ MODULE ModelPage ------------------------------
(***************************************************************************)
(* The review of a model (views/ModelDetailView.tsx): the figures its logs  *)
(* and its metrics hold, those the page works out when they hold none, and  *)
(* the verdicts on them.  Values are in hundredths: 100 is 1 or one per     *)
(* cent, 10000 a hundred per cent.  Loading and the star of the page are in *)
(* PageLists and Favourites.                                                *)
(***************************************************************************)
EXTENDS Integers, Sequences, SequencesExt, FiniteSets

CONSTANTS
  Models,   \* the models that may be opened: [logs, metrics, parameters]
  Null      \* a value that is not there

CountKeys ==
  {"tp_count", "true_positive_count", "true_positives", "fp_count", "false_positive_count", "false_positives",
   "tn_count", "true_negative_count", "true_negatives", "fn_count", "false_negative_count", "false_negatives"}

\* A figure of one source, which may lack it.
At(source, key) == IF key \in DOMAIN source THEN source[key] ELSE Null

\* What is kept of a model: counts, percentages of nothing to a hundred, and
\* fractions of 0 to 1, any of which may be missing.
CountOrNull == Nat \cup {Null}
PercentageOrNull == (0 .. 10000) \cup {Null}
FractionOrNull == (0 .. 100) \cup {Null}

FiguresOK(source) ==
  /\ \A k \in CountKeys : At(source, k) \in CountOrNull
  /\ \A k \in {"precision_pct", "recall_pct"} : At(source, k) \in PercentageOrNull
  /\ \A k \in {"precision", "recall"} : At(source, k) \in FractionOrNull

\* The worker writes percentages to the logs, and fractions with the model alone.
ModelAssumption ==
  \A m \in Models :
    /\ DOMAIN m = {"logs", "metrics", "parameters"}
    /\ DOMAIN m.logs = 1 .. Len(m.logs) /\ Len(m.logs) \in Nat
    /\ FiguresOK(m.metrics)
    /\ \A i \in DOMAIN m.logs : FiguresOK(m.logs[i]) /\ {"precision", "recall"} \cap DOMAIN m.logs[i] = {}

ASSUME FiguresAssumption == Null \notin Int /\ ModelAssumption

VARIABLE review   \* the model under review

modelVars == <<review>>

\* A model that has run, or one without logs: the figures are functions from
\* some of the keys.
ModelInit == review \in Models

\* Another model's page is opened.
OpenModel == review' \in Models \ {review}

ModelNext == OpenModel
-----------------------------------------------------------------------------
(* Looking figures up. *)

BacktestKeys ==
  <<"total_return_net_pct", "trade_win_rate_pct", "max_drawdown_pct", "trade_expectancy_pct",
    "trades_count", "trade_return_mean_win_pct", "trade_return_mean_loss_pct",
    "bars_in_market_pct", "sharpe_per_bar", "sharpe_annualized">>

ClassificationKeys ==
  <<"accuracy_pct", "precision_pct", "recall_pct", "f1_score_pct", "pred_pos_rate_pct",
    "actual_pos_rate_pct", "false_positive_rate", "tp_count", "fp_count", "tn_count", "fn_count">>

\* firstValue: the sources one after the other, each with all the keys.
FirstValue(sources, keys) ==
  LET held == {p \in (DOMAIN sources) \X (DOMAIN keys) : At(sources[p[1]], keys[p[2]]) # Null}
      first == CHOOSE p \in held : \A r \in held : p[1] < r[1] \/ (p[1] = r[1] /\ p[2] <= r[2])
  IN IF held = {} THEN Null ELSE At(sources[first[1]], keys[first[2]])

\* n of what firstValue answers: nothing is 0, for Number(null) is.
Num(value) == IF value = Null THEN 0 ELSE value

\* The last log with any of the keys, or one with nothing in it.
LatestLog(logs, keys) ==
  LET with == {i \in DOMAIN logs : Range(keys) \cap DOMAIN logs[i] # {}}
  IN IF with = {} THEN <<>> ELSE logs[CHOOSE i \in with : \A j \in with : j <= i]

Sources(model) ==
  <<LatestLog(model.logs, ClassificationKeys), LatestLog(model.logs, BacktestKeys), model.metrics>>

Figure(keys) == FirstValue(Sources(review), keys)
-----------------------------------------------------------------------------
(* Working figures out. *)

Precision == Figure(<<"precision_pct", "precision">>)
Recall == Figure(<<"recall_pct", "recall">>)

Confusion ==
  [tp |-> Num(Figure(<<"tp_count", "true_positive_count", "true_positives">>)),
   fp |-> Num(Figure(<<"fp_count", "false_positive_count", "false_positives">>)),
   tn |-> Num(Figure(<<"tn_count", "true_negative_count", "true_negatives">>)),
   fn |-> Num(Figure(<<"fn_count", "false_negative_count", "false_negatives">>))]

\* The fractions and percentages that are kept are told apart by their size.
Ratio(value) == IF value \in -100 .. 100 THEN 100 * value ELSE value

F1 ==
  LET kept == Figure(<<"f1_score_pct", "f1_pct", "f1">>)
      p == Ratio(Num(Precision))
      r == Ratio(Num(Recall))
  IN IF kept # Null THEN kept ELSE IF p + r > 0 THEN (2 * p * r) \div (p + r) ELSE Null

Accuracy ==
  LET kept == Figure(<<"accuracy_pct", "accuracy">>)
      total == Confusion.tp + Confusion.fp + Confusion.tn + Confusion.fn
  IN IF kept # Null THEN kept
     ELSE IF total # 0 THEN (10000 * (Confusion.tp + Confusion.tn)) \div total ELSE Null

\* Rounded up: only limits from above are set on it, and 0 is no false alarm.
FalsePositiveRate ==
  LET kept == Figure(<<"false_positive_rate">>)
      negatives == Confusion.fp + Confusion.tn
  IN IF kept # Null THEN kept
     ELSE IF negatives > 0 THEN (10000 * Confusion.fp + negatives - 1) \div negatives ELSE Null

\* Rates that are not there are 0, and so is their difference.
Bias ==
  LET predicted == Num(Figure(<<"pred_pos_rate_pct", "predicted_positive_rate">>))
      actual == Num(Figure(<<"actual_pos_rate_pct", "actual_positive_rate">>))
  IN IF predicted >= actual THEN predicted - actual ELSE actual - predicted
-----------------------------------------------------------------------------
(* What is drawn. *)

Clamp(value, low, high) == IF value < low THEN low ELSE IF value > high THEN high ELSE value

PercentBar(value) ==
  LET pct == Clamp(Num(value), 0, 10000)
  IN [length |-> pct, tone |-> IF pct >= 6000 THEN "green" ELSE IF pct >= 4000 THEN "yellow" ELSE "red"]

ClassificationBars == [Precision |-> PercentBar(Precision), Recall |-> PercentBar(Recall), Accuracy |-> PercentBar(Accuracy)]

DistributionBars ==
  [Actual |-> PercentBar(Figure(<<"actual_pos_rate_pct", "actual_positive_rate">>)),
   Predicted |-> PercentBar(Figure(<<"pred_pos_rate_pct", "predicted_positive_rate">>))]

\* How strongly each cell is filled, as a share of the fullest.
Heatmap ==
  LET fullest == CHOOSE v \in {Confusion[c] : c \in DOMAIN Confusion} :
                   \A c \in DOMAIN Confusion : Confusion[c] <= v
  IN [c \in DOMAIN Confusion |-> IF fullest = 0 THEN 0 ELSE (10000 * Confusion[c]) \div fullest]

\* The bars of the trades, to the right of 0 or to its left.
TradeOutcome ==
  LET side(keys) == IF Num(Figure(keys)) >= 0 THEN "right" ELSE "left"
  IN [win |-> side(<<"trade_return_mean_win_pct">>), loss |-> side(<<"trade_return_mean_loss_pct">>),
      expectancy |-> side(<<"trade_expectancy_pct", "expectancy">>)]

\* Where the model stands between return and drawdown.
Quadrant ==
  [return |-> Clamp(Num(Figure(<<"total_return_net_pct">>)), -2500, 15000),
   drawdown |-> Clamp(Num(Figure(<<"max_drawdown_pct", "maxDrawdown">>)), 0, 6000)]

Tone(good, warn) == IF good THEN "green" ELSE IF warn THEN "yellow" ELSE "red"

\* A figure of which more is better, and one of which less is.
AtLeast(value, good, warn) == Tone(Num(value) >= good, Num(value) >= warn)
AtMost(value, good, warn) == Tone(Num(value) <= good, Num(value) <= warn)

Health ==
  [Return |-> AtLeast(Figure(<<"total_return_net_pct">>), 1, -499),
   Sharpe |-> AtLeast(Figure(<<"sharpe_annualized", "sharpe">>), 100, 50),
   Drawdown |-> AtMost(Figure(<<"max_drawdown_pct", "maxDrawdown">>), 1500, 3500),
   Precision |-> AtLeast(Precision, 5500, 4000),
   Recall |-> AtLeast(Recall, 6000, 4000),
   FalsePositives |-> AtMost(FalsePositiveRate, 2000, 4500),
   Bias |-> AtMost(Bias, 1000, 3000)]

\* The sections of the log summary, each with its keys: the others are of any log.
LogSummary ==
  LET named == Range(BacktestKeys) \cup Range(ClassificationKeys) \cup {"type"}
  IN [backtest |-> SelectSeq(BacktestKeys, LAMBDA k : k \in DOMAIN LatestLog(review.logs, BacktestKeys)),
      classification |-> SelectSeq(ClassificationKeys, LAMBDA k : k \in DOMAIN LatestLog(review.logs, ClassificationKeys)),
      other |-> UNION {DOMAIN review.logs[i] : i \in DOMAIN review.logs} \ named]

\* The groups of the parameters, and what is in none.
ParameterSections ==
  LET grouped == <<"architecture", "indicators", "split", "target">>
  IN [groups |-> SelectSeq(grouped, LAMBDA k : k \in DOMAIN review.parameters),
      remaining |-> DOMAIN review.parameters \ Range(grouped)]

\* The indicators with their settings: a selection, or all that are named.
IndicatorEntries ==
  LET indicators == IF "indicators" \in DOMAIN review.parameters THEN review.parameters.indicators
                    ELSE [selected |-> <<>>, parameters |-> <<>>]
  IN [i \in DOMAIN indicators.selected |->
        [name |-> indicators.selected[i], details |-> At(indicators.parameters, indicators.selected[i])]]
-----------------------------------------------------------------------------
ModelTypeOK == DOMAIN review = {"logs", "metrics", "parameters"}

\* The figures the page works out fit the ones they are worked out from, in
\* whichever unit each is kept and from whichever source it comes: F1 lies
\* between precision and recall, and is there unless both are nothing; full
\* accuracy has no false counts, and no false alarm is a rate of 0.  Precision
\* and recall of one per cent and less are not told from fractions, so
\* FiguresFit is about a model that keeps none such.
FiguresFit ==
  LET has(key) == Figure(<<key>>) # Null
      given == {Figure(<<k>>) : k \in {"precision_pct", "recall_pct"}} \ {Null, 0}
      percent(pct, fraction) == IF has(pct) THEN Figure(<<pct>>) ELSE 100 * Num(Figure(<<fraction>>))
      p == percent("precision_pct", "precision")
      r == percent("recall_pct", "recall")
  IN /\ ~has("f1_score_pct") /\ ~has("f1_pct") /\ ~has("f1") /\ (\A v \in given : v > 100) =>
           IF p + r = 0 THEN F1 = Null
           ELSE F1 >= (IF p < r THEN p ELSE r) /\ F1 <= (IF p < r THEN r ELSE p)
     /\ ~has("accuracy_pct") /\ ~has("accuracy") /\ Accuracy = 10000 =>
           Confusion.fp = 0 /\ Confusion.fn = 0
     /\ ~has("false_positive_rate") /\ FalsePositiveRate = 0 => Confusion.fp = 0
=============================================================================
