--------------------------- MODULE BlueprintPicker ---------------------------
(***************************************************************************)
(* The blueprint step of the experiment wizard                             *)
(* (frontend/views/ExperimentWizardView.tsx): a list asked for again with   *)
(* each change of the search, the order or the page; a preview dialog; and *)
(* the choice, which the model of ?modelId= may make too.  The effect that *)
(* asks forgets its request when it runs again: the answer then comes with *)
(* "live" FALSE.                                                            *)
(***************************************************************************)
EXTENDS Integers, Sequences, FiniteSets

CONSTANTS
  Listing,      \* <<search, order>> -> the pages of the answer, sets of blueprints
  Reused,       \* the blueprint of the reused model
  MaxInFlight,  \* requests of a kind without an answer, at most
  NoOption

Option == UNION {UNION {Listing[q][i] : i \in DOMAIN Listing[q]} : q \in DOMAIN Listing}

\* The blueprint of a model that is reused is listed like any other.
PickerAssumption ==
  /\ \A q \in DOMAIN Listing : Len(Listing[q]) > 0
  /\ Reused \in Option \cup {NoOption}

ASSUME PickerAssumption

VARIABLES
  query,    \* [terms, page]: what the list is asked for
  list,     \* [options, total, loading]
  preview,  \* [id, blueprint, loading]: the dialog
  choice,   \* [blueprint, option]: the draft's blueprint, the option kept of the choice
  asked     \* requests under way: [kind, of, live]

pickerVars == <<query, list, preview, choice, asked>>

\* The pages asked for may not be there: the total was that of another search.
Page(q) == IF q.page \in DOMAIN Listing[q.terms] THEN Listing[q.terms][q.page] ELSE {}

\* The effect's cleanup, and its next request.
Forgotten(kind) == {IF r.kind = kind THEN [r EXCEPT !.live = FALSE] ELSE r : r \in asked}

Ask(kind, of) ==
  /\ Cardinality({r \in asked : r.kind = kind}) < MaxInFlight
  /\ asked' = Forgotten(kind) \cup {[kind |-> kind, of |-> of, live |-> TRUE]}

PickerInit ==
  /\ query \in [terms : DOMAIN Listing, page : {1}]
  /\ list = [options |-> {}, total |-> 1, loading |-> TRUE]
  /\ preview = [id |-> NoOption, blueprint |-> NoOption, loading |-> FALSE]
  /\ choice = [blueprint |-> NoOption, option |-> NoOption]
  /\ asked = {[kind |-> "list", of |-> query, live |-> TRUE], [kind |-> "model", of |-> Reused, live |-> TRUE]}
-----------------------------------------------------------------------------
Requery(q) ==
  /\ q # query
  /\ query' = q
  /\ list' = [list EXCEPT !.loading = TRUE]
  /\ Ask("list", q)
  /\ UNCHANGED <<preview, choice>>

EditTerms == \E terms \in DOMAIN Listing : Requery([terms |-> terms, page |-> 1])

PreviousPage == query.page > 1 /\ Requery([query EXCEPT !.page = @ - 1])

NextPage == query.page < list.total /\ Requery([query EXCEPT !.page = @ + 1])

\* As a bug would have it: a list that was left behind is shown all the same.
ListArrivesAnyway(r) ==
  /\ asked' = asked \ {r}
  /\ list' = [options |-> Page(r.of), total |-> Len(Listing[r.of.terms]), loading |-> FALSE]
  /\ UNCHANGED <<query, preview, choice>>

ListArrives(r) ==
  /\ asked' = asked \ {r}
  /\ list' = IF r.live
             THEN [options |-> Page(r.of), total |-> Len(Listing[r.of.terms]), loading |-> FALSE]
             ELSE list
  /\ UNCHANGED <<query, preview, choice>>

\* Nothing catches a failure: the list stays hidden behind its message.
ListFails(r) ==
  /\ asked' = asked \ {r}
  /\ UNCHANGED <<query, list, preview, choice>>

Shown == IF list.loading THEN {} ELSE list.options

Choose ==
  /\ \E b \in Shown : choice' = [blueprint |-> b, option |-> b]
  /\ UNCHANGED <<query, list, preview, asked>>

\* The reused model's blueprint replaces the draft's; the option kept of an
\* earlier choice stays.
ModelArrives(r) ==
  /\ asked' = asked \ {r}
  /\ choice' = [blueprint |-> r.of, option |-> IF choice.option = NoOption THEN r.of ELSE choice.option]
  /\ UNCHANGED <<query, list, preview>>

\* The blueprint that the step and the review name.
Named == IF choice.blueprint \in list.options THEN choice.blueprint ELSE choice.option
-----------------------------------------------------------------------------
\* The page behind the dialog can still be reached with the keyboard.
OpenPreview ==
  /\ \E b \in Shown \ {preview.id} :
       /\ preview' = [preview EXCEPT !.id = b, !.loading = TRUE]
       /\ Ask("preview", b)
  /\ UNCHANGED <<query, list, choice>>

ClosePreview ==
  /\ preview.id # NoOption
  /\ preview' = [preview EXCEPT !.id = NoOption, !.blueprint = NoOption]
  /\ asked' = Forgotten("preview")
  /\ UNCHANGED <<query, list, choice>>

\* The blueprint, or nothing when it is refused or not found.
PreviewArrives(r) ==
  /\ asked' = asked \ {r}
  /\ \/ r.live /\ \E b \in {r.of, NoOption} : preview' = [preview EXCEPT !.blueprint = b, !.loading = FALSE]
     \/ ~r.live /\ UNCHANGED preview
  /\ UNCHANGED <<query, list, choice>>

\* What the dialog shows below its title.
Dialog ==
  IF preview.id = NoOption THEN "closed"
  ELSE IF preview.loading THEN "loading"
  ELSE IF preview.blueprint = NoOption THEN "unavailable"
  ELSE "details"
-----------------------------------------------------------------------------
Answer ==
  \E r \in asked :
    \/ r.kind = "list" /\ (ListArrives(r) \/ ListFails(r))
    \/ r.kind = "preview" /\ PreviewArrives(r)
    \/ r.kind = "model" /\ ModelArrives(r)

PickerNext ==
  \/ EditTerms \/ PreviousPage \/ NextPage \/ Choose
  \/ OpenPreview \/ ClosePreview
  \/ Answer
-----------------------------------------------------------------------------
PickerTypeOK ==
  /\ query.page \in Nat \ {0}
  /\ list.options \subseteq Option
  /\ {preview.id, preview.blueprint, choice.blueprint, choice.option} \subseteq Option \cup {NoOption}
  /\ \A kind \in {"list", "preview"} : Cardinality({r \in asked : r.kind = kind /\ r.live}) <= 1

\* However the answers of earlier searches, orders and pages are delayed, the
\* list that can be chosen from is the answer to what the step now asks for, the
\* dialog shows the details of the blueprint it was last opened on, and the
\* blueprint that is named is the one that is submitted, unless the reused
\* model's came after the user's own choice.
PickerShowsWhatWasAsked ==
  /\ Shown \subseteq Page(query)
  /\ Dialog = "details" => preview.blueprint = preview.id
  /\ choice.option # NoOption =>
       \/ Named = choice.blueprint
       \/ choice.blueprint = Reused /\ {r \in asked : r.kind = "model"} = {}
=============================================================================
