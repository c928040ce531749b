------------------------------ MODULE Favourites ------------------------------
(***************************************************************************)
(* Favourite buttons: a blueprint's page, a model's page, the blueprints    *)
(* library with its tab of favourites, and the favourites above the model   *)
(* rankings (views/BlueprintDetailView, ModelDetailView,                   *)
(* BlueprintsLibraryView, ModelsRankingsView).  A click changes the page at *)
(* once; a failed request takes the change back.                           *)
(***************************************************************************)
EXTENDS Naturals, FiniteSets

CONSTANTS
  Items,      \* blueprints or models
  MaxClicks   \* requests under way, at most

ASSUME FavouritesAssumption == MaxClicks \in Nat

VARIABLES
  shelf,     \* the page
  starred,   \* the user's favourites on the server
  rows,      \* the items that the page lists
  stars,     \* those it shows as favourites
  toggles,   \* requests: [id, of, was, before, shelf, crossed, stage]
  listRead,   \* the library's list on its way: {} or its [stage, got]
  muddled    \* history: items that the page may show wrongly

favVars == <<shelf, starred, rows, stars, toggles, listRead, muddled>>

Tabs == {"library", "favorited"}

Shelves == {"blueprint", "model", "rankings"} \cup Tabs

\* Pages that list favourites only.
OnlyFavourites == shelf \in {"favorited", "rankings"}

FavInit ==
  /\ shelf \in Shelves
  /\ starred \in SUBSET Items
  /\ rows \in IF OnlyFavourites THEN {starred}
              ELSE IF shelf = "library" THEN {Items} ELSE {{i} : i \in Items}
  /\ stars = rows \cap starred
  /\ toggles = {} /\ listRead = {} /\ muddled = {}
-----------------------------------------------------------------------------
(* Clicks. *)

Flip(s, i) == IF i \in s THEN s \ {i} ELSE s \cup {i}

\* The list that the rankings keep is of the moment of a click: what is clicked
\* while the request is under way is noted with it.
Noted(items) == IF shelf = "rankings" THEN items ELSE {}

NewToggle(i) ==
  [of |-> i, was |-> i \in stars, before |-> stars, shelf |-> shelf,
   crossed |-> Noted({t.of : t \in toggles}), stage |-> "sent",
   id |-> CHOOSE n \in 1 .. MaxClicks : \A t \in toggles : t.id # n]

\* toggleFavorite, removeFavorite.  The library shows no button while it loads.
ToggleFavorite ==
  /\ Cardinality(toggles) < MaxClicks /\ listRead = {}
  /\ \E i \in rows :
       /\ toggles' = {[t EXCEPT !.crossed = @ \cup Noted({i})] : t \in toggles} \cup {NewToggle(i)}
       /\ stars' = Flip(stars, i)
       /\ rows' = IF shelf = "rankings" THEN rows \ {i} ELSE rows
       /\ muddled' = IF \E t \in toggles : t.of = i THEN muddled \cup {i} ELSE muddled
  /\ UNCHANGED <<shelf, starred, listRead>>

\* POST and DELETE of a favourite, which no state of it refuses.
ServeToggle ==
  /\ \E t \in toggles :
       /\ t.stage = "sent"
       /\ starred' = IF t.was THEN starred \ {t.of} ELSE starred \cup {t.of}
       /\ toggles' = (toggles \ {t}) \cup {[t EXCEPT !.stage = "served"]}
  /\ UNCHANGED <<shelf, rows, stars, listRead, muddled>>

\* A click in the tab of favourites drops what is not one any more, from the
\* list of whichever tab there is by then.
ToggleAnswered ==
  /\ \E t \in toggles :
       /\ t.stage = "served"
       /\ toggles' = toggles \ {t}
       /\ IF t.shelf = "favorited" /\ t.was
          THEN rows' = rows \ {t.of} /\ stars' = stars \ {t.of}
          ELSE UNCHANGED <<rows, stars>>
  /\ UNCHANGED <<shelf, starred, listRead, muddled>>

\* As a bug would have it: every page puts back what it showed at the click.
RolledBackToBefore(t) == stars' = t.before /\ rows' = rows \cup t.before

\* The state of the item before the click; the rankings put back their list.
RolledBack(t) ==
  IF shelf = "rankings"
  THEN rows' = t.before /\ stars' = t.before
  ELSE /\ stars' = IF t.was THEN stars \cup ({t.of} \cap rows) ELSE stars \ {t.of}
       /\ UNCHANGED rows

\* Items of other clicks that the rankings' old list moves with the failed one.
Dragged(t) == {i \in t.crossed : shelf = "rankings" /\ (i \in t.before <=> i \notin rows)}

ToggleFails ==
  /\ \E t \in toggles :
       /\ toggles' = toggles \ {t}
       /\ muddled' = muddled \cup Dragged(t) \cup {i \in {t.of} : t.stage = "served"}
       /\ RolledBack(t)
  /\ UNCHANGED <<shelf, starred, listRead>>
-----------------------------------------------------------------------------
(* The library reads its list again for a tab or a filter; a list on its way *)
(* for another is disowned.                                                 *)

ReadLibrary ==
  /\ shelf \in Tabs
  /\ shelf' \in Tabs
  /\ listRead' = {[stage |-> "sent", got |-> {}]}
  /\ UNCHANGED <<starred, rows, stars, toggles, muddled>>

\* A request not yet served is not in the list that is read.
ServeLibrary ==
  /\ \E r \in listRead : r.stage = "sent"
  /\ listRead' = {[stage |-> "served", got |-> starred]}
  /\ muddled' = muddled \cup {t.of : t \in {u \in toggles : u.stage = "sent"}}
  /\ UNCHANGED <<shelf, starred, rows, stars, toggles>>

LibraryAnswered ==
  /\ \E r \in listRead :
       /\ r.stage = "served"
       /\ rows' = IF shelf = "library" THEN Items ELSE r.got
       /\ stars' = r.got
  /\ listRead' = {}
  /\ UNCHANGED <<shelf, starred, toggles, muddled>>

FavNext ==
  \/ ToggleFavorite \/ ServeToggle \/ ToggleAnswered \/ ToggleFails
  \/ ReadLibrary \/ ServeLibrary \/ LibraryAnswered
-----------------------------------------------------------------------------
FavTypeOK ==
  /\ starred \subseteq Items /\ rows \subseteq Items
  /\ stars \subseteq rows
  /\ muddled \subseteq Items

\* With clicks on several items answered, refused and served in any order, an
\* item whose own request is over is shown as the server has it.  The page
\* cannot know, and is not held to it, when an item is clicked again before the
\* answer, when an answer is lost after the server acted, and when the library
\* reads its list between a click and the server's act.  One more case is a flaw
\* of the rankings: a failed click puts back the list of its moment, and with it
\* an item that was clicked meanwhile, or takes away one that failed meanwhile.
\* Only items whose requests were under way with the failed one can be so moved.
StarsAreServers ==
  listRead = {} =>
    \A i \in Items \ muddled :
      (i \in rows \/ OnlyFavourites) /\ (\A t \in toggles : t.of # i)
        => (i \in stars <=> i \in starred)
=============================================================================
