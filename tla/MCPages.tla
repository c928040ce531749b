------------------------------ MODULE MCPages ------------------------------
(* Pages on small instances of each page. *)
EXTENDS Pages

NoParams == [x \in {} |-> {}]

Period == <<"rsi", "period">>

MCConfigs ==
  ("b1" :> [arch |-> "C" :> {"1", "2"} @@ "grid" :> Nested, ind |-> Period :> {"1"},
            scalers |-> "rsi" :> ("out" :> "none"), allowed |-> "C" :> {"1", "2"}])
  @@ ("b2" :> [arch |-> "C" :> {"2"}, ind |-> NoMap,
            scalers |-> "rsi" :> ("out" :> "normalization"), allowed |-> "C" :> {"2"}])

MCBuiltin == "forward_return" :> ("lookahead" :> {"1"}) @@ "roc" :> ("period" :> {"1"})

MCMetadata ==
  "forward_return" :> [defaults |-> "lookahead" :> {"1"}, allowed |-> "lookahead" :> {"1"}]

MCReuse == [blueprint |-> "b1", arch |-> "C" :> {"2"} @@ "grid" :> {"1"}, ind |-> NoMap,
            target |-> "lookahead" :> {"1"}]

MCMarket == [earliest |-> 1, latest |-> 2]

\* Numbers in eighths of a percent, of which those from 16% on are even: a small
\* floating point.  A boundary at 81 of them puts the next at 160, not 161.
MCPercent == {-40, 81, 320, 680, 760, 840}

MCNearest ==
  [x \in Exact |-> IF x <= 128 \/ x % 2 = 0 THEN x ELSE IF x % 4 = 1 THEN x - 1 ELSE x + 1]

\* Two orders, of which one has two pages.
MCListing == <<"", "latest">> :> <<{"b1"}, {"b3"}>> @@ <<"", "name">> :> <<{"b3"}>>

\* Both directions, none, one only, and no candles.
MCLabels == {<<>>, <<"up", "down", "none">>, <<"none", "none">>, <<"down", "down", "down">>}

MCFallback ==
  [arch |-> "lr" :> [params |-> "C" :> {"1"}, permitted |-> "C" :> {"1", "2"}],
   ind |-> "rsi" :> [params |-> "period" :> {"1"}, permitted |-> "period" :> {"1", "2"}, outputs |-> {"out"}]
           @@ "old" :> [params |-> NoParams, permitted |-> NoParams, outputs |-> {}]]

MCPublished ==
  [arch |-> "lr" :> [params |-> "C" :> {"2"}, permitted |-> "C" :> {"2"}]
            @@ "svc" :> [params |-> NoParams, permitted |-> NoParams],
   ind |-> "rsi" :> [params |-> "period" :> {"2"}, permitted |-> "period" :> {"2"}, outputs |-> {"out"}]]

\* The leaderboard has room for two: with the last model the first one, whose
\* return is zero, has to make way for the second, whose return is negative.
MCExecuted == <<"m2", "m3", "m1">>

MCRanking == [total_return_net_pct |-> <<"m1", "m2", "m3">>, max_drawdown_pct |-> <<"m2", "m3", "m1">>]

\* A retry is followed where its empty list meets a filter and a selection; rows
\* are taken away from the other parts by late answers.
MCRetries == [risk |-> 1, board |-> 0, terminal |-> 0, round |-> 0]

MCCluster == [m1 |-> "p", m2 |-> "q", m3 |-> "q"]

MCPagesOf == "all" :> 2 @@ "some" :> 1 @@ "none" :> 0

\* The real range of the session timeout starts at zero, where a blank input lands.
MCLowest == [session |-> 0, jobs |-> 1]
MCHighest == [session |-> 1, jobs |-> 1]
MCStandard == [session |-> 1, jobs |-> 1]
MCTyped == {<<>>, <<1>>}

\* Nothing typed, a form with faults, one that is in order, and one whose
\* username the page takes and the server does not.
MCDrafts ==
  {[name |-> FALSE, username |-> [length |-> 0, plain |-> TRUE], email |-> "",
    password |-> [length |-> 0, word |-> ""], confirm |-> [length |-> 0, word |-> ""]],
   [name |-> TRUE, username |-> [length |-> 40, plain |-> FALSE], email |-> "odd",
    password |-> [length |-> 8, word |-> "pass"], confirm |-> [length |-> 8, word |-> "word"]]}
  \cup {[name |-> TRUE, username |-> [length |-> n, plain |-> TRUE], email |-> "address",
         password |-> [length |-> 8, word |-> "pass"], confirm |-> [length |-> 8, word |-> "pass"]] : n \in {4, 8}}

\* Nothing tells the items of the favourites' pages apart.
ItemSymmetry == Permutations(Items)

MCRoleOf == "ann" :> "User" @@ "adm" :> "Admin"

\* 1 is a number, 2 a date; either is a text.
MCLegible == [text |-> {1, 2}, id |-> {1}, numeric |-> {1}, date |-> {2}]

MCColumnType == [sharpe |-> "numeric", owner |-> "text", model_id |-> "id", created_at |-> "date"]

MCIndex == "" :> <<"a", "b">> @@ "x" :> <<"b">> @@ "y" :> <<>>

\* A model with every figure, models with all their counts in a log, and models
\* of which the metrics alone are kept.
MCModels ==
  {[logs |-> <<>>, metrics |-> "f1_score_pct" :> 5000 @@ "accuracy_pct" :> 5000 @@ "false_positive_rate" :> 5000,
    parameters |-> NoParams]}
  \cup
  {[logs |-> <<"precision_pct" :> p @@ "recall_pct" :> r @@ "tp_count" :> c[1] @@ "fp_count" :> c[2]
                 @@ "tn_count" :> c[3] @@ "fn_count" :> c[4],
               "total_return_net_pct" :> 1200 @@ "max_drawdown_pct" :> 2000>>,
    metrics |-> NoParams,
    parameters |-> "indicators" :> [selected |-> <<"rsi">>, parameters |-> "rsi" :> {"1"}]] :
      p \in {0, 6000}, r \in {200, 6000}, c \in [1 .. 4 -> 0 .. 1]}
  \cup
  {[logs |-> logs, metrics |-> "precision" :> p @@ "recall" :> r, parameters |-> NoParams] :
      logs \in {<<>>, <<"precision_pct" :> 200>>}, p \in {0, 50, 100}, r \in {0, 50, 100}}
=============================================================================
