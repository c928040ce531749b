------------------------------ MODULE PageLists ------------------------------
(***************************************************************************)
(* The pages that show what the server finds for a filter: experiment runs, *)
(* the public hub, the blueprints library, the model rankings and the      *)
(* favourites (views/ExperimentListView, PublicHubView,                    *)
(* BlueprintsLibraryView, ModelsRankingsView, FavoritesLibraryView), and   *)
(* those that read once: a model, a profile, the dashboard's figures and   *)
(* the state of the backend (views/ModelDetailView, UserProfileView,       *)
(* DashboardView, components/status/BackendHealthStatus).  A filter may    *)
(* change while the list for another is on its way.                        *)
(***************************************************************************)
EXTENDS Naturals, FiniteSets

CONSTANTS
  PagesOf,        \* filter -> pages of results that the server has for it; 0 is none
  NoFilter,       \* the filter of empty inputs
  MaxListLoads    \* loads under way, at most

Filter == DOMAIN PagesOf

ASSUME PageListsAssumption == NoFilter \in Filter /\ MaxListLoads \in Nat \ {0}

VARIABLES
  listView,  \* the page
  inputs,    \* the filter in the inputs
  wanted,    \* [filter, order, page]: what the load effect depends on
  table,     \* [answer, pages, loading, failed]: answer is {} or the query answered
  listLoads, \* [query, live, id]: loads not answered; a load left behind is not live
  listCancel \* the query on the page when a cancellation was clicked, as a set

listVars == <<listView, inputs, wanted, table, listLoads, listCancel>>

ReadOnce == {"favorites", "highlights", "model", "profile", "dashboard", "health"}

ListViews == {"experiments", "hub", "library", "rankings"} \cup ReadOnce

Queries == [filter : Filter, order : {"asc", "desc"}, page : Nat \ {0}]

First(filter, order) == [filter |-> filter, order |-> order, page |-> 1]

\* Pages whose effect, when it runs again, disowns the load of the run before.
\* The experiment list hands its flag to load by value, so it never does.
Guarded == listView # "experiments"

Immediate == listView \in {"hub", "library"}

\* A failed load of the library is not caught.
Catches == listView # "library"

\* As a bug would have it: the loads of the effects that ran before stay live.
DisownedNever(loads) == loads

Disowned(loads) == IF Guarded THEN {[l EXCEPT !.live = FALSE] : l \in loads} ELSE loads

NewLoad(loads, query) ==
  loads \cup {[query |-> query, live |-> TRUE,
               id |-> CHOOSE i \in 1 .. MaxListLoads : \A l \in loads : l.id # i]}

\* A run of the load effect.
Reload(query) ==
  /\ Cardinality(listLoads) < MaxListLoads
  /\ listLoads' = NewLoad(Disowned(listLoads), query)
  /\ table' = [table EXCEPT !.loading = TRUE, !.failed = FALSE]

ListInit ==
  /\ listView \in ListViews
  /\ inputs = NoFilter
  /\ wanted = First(NoFilter, "desc")
  /\ table = [answer |-> {}, pages |-> 1, loading |-> TRUE, failed |-> FALSE]
  /\ listLoads = NewLoad({}, wanted)
  /\ listCancel = {}
-----------------------------------------------------------------------------
(* What the page shows. *)

HasRows == \E q \in table.answer : q.page <= PagesOf[q.filter]

Told == IF table.failed THEN {"error"} ELSE {}

\* The figures of the dashboard are there beside the message, zero for those
\* that failed.
DashboardShown == IF table.loading THEN {"loading"} ELSE Told \cup {"rows"}

\* Pages and cards that show one thing at a time.
OneAtATime == {"rankings", "favorites", "highlights", "health"}

\* A model that cannot be read is a model that is not there.
ListShown ==
  LET found == IF HasRows THEN {"rows"} ELSE {"empty"}
      busy  == IF table.loading THEN {"loading"} ELSE {}
  IN CASE listView \in OneAtATime ->
            IF table.failed THEN Told ELSE IF table.loading THEN busy ELSE found
       [] listView \in {"library", "model"} -> IF table.loading THEN busy ELSE found
       [] listView = "experiments" -> IF table.loading THEN busy ELSE IF table.failed THEN Told ELSE found
       [] listView = "hub" -> busy \cup Told \cup (IF table.loading \/ table.failed THEN {} ELSE found)
       [] listView = "profile" -> busy \cup Told \cup (found \ {"empty"})
       [] listView = "dashboard" -> DashboardShown
-----------------------------------------------------------------------------
(* The user. *)

Want(query) ==
  /\ wanted' = query
  /\ IF query = wanted THEN UNCHANGED <<table, listLoads>> ELSE Reload(query)

\* Inputs of the hub and the library are the query; those of the rankings wait
\* for Apply, those of the experiment list for a pause.
TypeFilter ==
  /\ listView \notin ReadOnce
  /\ \E f \in Filter \ {inputs} :
       /\ inputs' = f
       /\ IF Immediate THEN Want(First(f, wanted.order)) ELSE UNCHANGED <<wanted, table, listLoads>>
  /\ UNCHANGED <<listView, listCancel>>

\* The timer of the last change fires.
Debounce ==
  /\ listView = "experiments"
  /\ inputs # wanted.filter
  /\ Want(First(inputs, wanted.order))
  /\ UNCHANGED <<listView, inputs, listCancel>>

ApplyFilters ==
  /\ listView = "rankings"
  /\ Want(First(inputs, wanted.order))
  /\ UNCHANGED <<listView, inputs, listCancel>>

\* Clear makes new rules even of none, so that the list is always asked for.
ClearFilters ==
  /\ listView = "rankings"
  /\ inputs' = NoFilter
  /\ wanted' = First(NoFilter, wanted.order)
  /\ Reload(wanted')
  /\ UNCHANGED <<listView, listCancel>>

\* Headings and the paging buttons are there with the rows only.
SortBy ==
  /\ listView = "rankings" /\ "rows" \in ListShown
  /\ \E order \in {"asc", "desc"} \ {wanted.order} : Want(First(wanted.filter, order))
  /\ UNCHANGED <<listView, inputs, listCancel>>

TurnListPage ==
  /\ listView = "rankings" /\ "rows" \in ListShown
  /\ \/ wanted.page > 1 /\ Want([wanted EXCEPT !.page = @ - 1])
     \/ wanted.page < table.pages /\ Want([wanted EXCEPT !.page = @ + 1])
  /\ UNCHANGED <<listView, inputs, listCancel>>

\* Cancelling a queued run: when the server has answered, the page loads again
\* with the query that it had at the click.
CancelListed ==
  /\ listView = "experiments" /\ "rows" \in ListShown
  /\ listCancel = {}
  /\ listCancel' = {wanted}
  /\ UNCHANGED <<listView, inputs, wanted, table, listLoads>>

CancelListedAnswered ==
  /\ \E q \in listCancel : Reload(q) \/ UNCHANGED <<table, listLoads>>
  /\ listCancel' = {}
  /\ UNCHANGED <<listView, inputs, wanted>>
-----------------------------------------------------------------------------
(* Answers, in any order. *)

ListAnswered ==
  /\ \E l \in listLoads :
       /\ listLoads' = listLoads \ {l}
       /\ table' = IF ~l.live THEN table
                   ELSE [answer |-> {l.query}, pages |-> PagesOf[l.query.filter],
                         loading |-> FALSE, failed |-> table.failed]
  /\ UNCHANGED <<listView, inputs, wanted, listCancel>>

\* As a bug would have it: a failure is told, and the page goes on loading.
FailsStillLoading ==
  /\ \E l \in listLoads :
       /\ listLoads' = listLoads \ {l}
       /\ table' = IF ~l.live THEN table ELSE [table EXCEPT !.failed = TRUE]
  /\ UNCHANGED <<listView, inputs, wanted, listCancel>>

\* The hub and the favourites keep the rows they had under the message.
LoadingFails ==
  /\ \E l \in listLoads :
       /\ listLoads' = listLoads \ {l}
       /\ table' = IF ~l.live \/ ~Catches THEN table
                   ELSE [table EXCEPT !.failed = TRUE, !.loading = FALSE,
                           !.answer = IF listView \in {"experiments", "rankings", "highlights"} THEN {} ELSE @]
  /\ UNCHANGED <<listView, inputs, wanted, listCancel>>

ListNext ==
  \/ TypeFilter \/ Debounce \/ ApplyFilters \/ ClearFilters \/ SortBy \/ TurnListPage
  \/ CancelListed \/ CancelListedAnswered
  \/ ListAnswered \/ LoadingFails
-----------------------------------------------------------------------------
ListTypeOK ==
  /\ inputs \in Filter
  /\ wanted \in Queries
  /\ table.answer \subseteq Queries /\ Cardinality(table.answer) <= 1
  /\ \A l \in listLoads : l.query \in Queries
  /\ listCancel \subseteq Queries

\* Whatever order the answers come in, rows that a page shows are those of the
\* filter, the order and the page that it was last asked for.  The experiment
\* list is left out: its effect hands its flag to load by value, so that the answer
\* to an earlier filter may be the last to come, and stay.
RowsAreOfQuery ==
  Guarded /\ ~table.failed /\ ListShown \cap {"rows", "empty"} # {} => table.answer = {wanted}

\* A page that says it is loading has a load under way that will end it; the
\* library, which catches no failure, may say so for ever.
LoadingEnds ==
  table.loading /\ Catches => \E l \in listLoads : l.live
=============================================================================
