-------------------------- MODULE ExperimentWizard --------------------------
(***************************************************************************)
(* The new-experiment wizard (frontend/views/ExperimentWizardView.tsx):    *)
(* nine steps over one draft, which the user edits on the step shown and   *)
(* which late answers of the server edit too, whatever step is shown.      *)
(*                                                                         *)
(* The text of a parameter field is the set of its comma-separated tokens, *)
(* {} when blank; a map of fields is a function on the fields it has.  An  *)
(* effect of the component runs in the action that changes what it depends *)
(* on, after the assignments of that action.                               *)
(***************************************************************************)
EXTENDS Integers, FiniteSets, Sequences, Functions, Maps

CONSTANTS
  Configs,    \* blueprint -> [arch, ind, scalers, allowed], as its detail request returns it
  Builtin,    \* strategy -> its fields' defaults, as the page has them
  Metadata,   \* strategy -> [defaults, allowed], as the blueprint metadata have them
  Reuse,      \* the model of ?modelId: [blueprint, arch, ind, target], or NoReuse
  Token,      \* tokens the user enters
  Count,      \* permutation counts the user enters; 0 is blank or below 1
  AdminCap,   \* the administrator's cap
  Market,     \* [earliest, latest] of the cached candles
  Week,       \* the length of the default range
  Unit,       \* the numbers of the split bar are in fractions of a percent, Unit in each
  Nearest,    \* exact result -> the floating-point number that it is rounded to
  Rounding,   \* the largest error of that, in the same units
  Tolerance,  \* how far from 100% the total of a split may be
  Percent,    \* positions a boundary of the split bar is dragged to
  MaxSubmits, \* experiments created from this draft, after which it is not followed
  NoBlueprint, NoReuse, Nested

Blueprint == DOMAIN Configs

Strategy == DOMAIN Builtin

\* Datetimes in order; 0 is an empty input.
Instant == 0 .. Market.latest + 1

\* Results of the split bar's arithmetic before they are rounded.
Exact == 0 .. 110 * Unit

ASSUME WizardAssumption ==
  /\ NoBlueprint \notin Blueprint /\ "forward_return" \in Strategy
  /\ Market.earliest \in 1 .. Market.latest
  /\ Unit \in Nat \ {0} /\ Percent \subseteq Int
  /\ {AdminCap, MaxSubmits, Market.latest} \subseteq Nat /\ Week \in Nat \ {0}
  /\ Reuse # NoReuse => Reuse.blueprint \in Blueprint

\* Whole percents are numbers, and no rounding goes past one.
ASSUME FloatAssumption ==
  /\ Rounding \in Nat /\ Tolerance \in Nat /\ 4 * Rounding < Tolerance /\ Tolerance <= Unit
  /\ Nearest \in [Exact -> Exact]
  /\ \A x \in Exact : Nearest[x] \in x - Rounding .. x + Rounding
  /\ \A x \in Exact, n \in 0 .. 110 :
       (x <= n * Unit => Nearest[x] <= n * Unit) /\ (x >= n * Unit => Nearest[x] >= n * Unit)

VARIABLES
  step,      \* currentStepIndex + 1
  draft,     \* the draft, the answers it is computed from, and its refs
  errors,    \* fields that show a message
  pending,   \* requests without an answer yet
  drag,      \* the boundary of the split bar being dragged
  sent,      \* the payload being submitted
  created,   \* experiments the server has created
  editing    \* the group of fields that the user edits in this behaviour

wizardVars == <<step, draft, errors, pending, drag, sent, created, editing>>

Steps == <<"basics", "dataset-range", "split-config", "blueprint-selection", "target-selection",
           "parameter-overrides", "deterministic-seed", "review", "submit">>

On(s) == Steps[step] = s

Groups == {"dataset", "split", "blueprint", "target", "run"}

NoMap == [x \in {} |-> {}]

PayloadFields == {"blueprint", "arch", "ind", "scalers", "target", "params", "start", "end", "count", "splits"}

Unsent == [blueprint |-> NoBlueprint]
-----------------------------------------------------------------------------
(* Parameters. *)

BackendOwned == {"column", "source_column", "input", "inputs", "output", "outputs"}

\* The configuration of the selected blueprint; empty until it is loaded.
Config(d) ==
  IF d.blueprint \in d.details THEN Configs[d.blueprint]
  ELSE [arch |-> NoMap, ind |-> NoMap, scalers |-> NoMap, allowed |-> NoMap]

\* indicatorScalerDefaults: each selected indicator that has outputs, with the
\* scaling of each.
ScalerDefaults(d) == Config(d).scalers

\* Only scalar parameters are shown: lists and objects are left out, and so
\* are the columns the backend sets.
ArchEntries(d) ==
  LET arch == Config(d).arch
  IN RestrictDomain(arch, LAMBDA f : arch[f] # Nested /\ f \notin BackendOwned)

\* Parameters of indicators are keyed <<indicator, field>>.
IndEntries(d) ==
  LET ind == Config(d).ind
  IN RestrictDomain(ind, LAMBDA k : ind[k] # Nested /\ k[2] \notin BackendOwned)

Described(d) == "metadata" \in d.arrived /\ d.strategy \in DOMAIN Metadata

TargetDefaults(d) ==
  IF Described(d) THEN Metadata[d.strategy].defaults ELSE Builtin[d.strategy]

\* The strategies the server describes; the page's own while it has described none.
TargetOptions(d) ==
  IF "metadata" \in d.arrived /\ DOMAIN Metadata # {} THEN DOMAIN Metadata ELSE Strategy

TargetConstraints(d) == IF Described(d) THEN Metadata[d.strategy].allowed ELSE NoMap

\* validateParamToken for every token of a field.
Permits(allowed, f, text) == f \in DOMAIN allowed => text \subseteq allowed[f]

Or(text, default) == IF text # {} THEN text ELSE default

ValueOf(values, f) == IF f \in DOMAIN values THEN values[f] ELSE {}

\* compactParsedValues: blank fields are not sent.
Compact(values) == RestrictValues(values, LAMBDA text : text # {})

Overlay(defaults, values) == [f \in DOMAIN defaults |-> Or(ValueOf(values, f), defaults[f])]

OptionCount(text) == IF text = {} THEN 1 ELSE Cardinality(text)

Options(values) ==
  FoldFunction(LAMBDA text, n : n * OptionCount(text), 1, values)

MaxPermutations(d) ==
  Options(Overlay(ArchEntries(d), d.arch)) *
  Options(Overlay(IndEntries(d), d.ind)) *
  Options(Overlay(d.params, d.overrides))

\* Until the settings arrive, and when they do not, the cap is 500.
Cap(d) == IF "settings" \in d.arrived THEN AdminCap ELSE 500

Limit(d) == LET m == MaxPermutations(d) IN IF m < Cap(d) THEN m ELSE Cap(d)
-----------------------------------------------------------------------------
(* Effects on the draft. *)

\* As a bug would have it: fields of the blueprint selected before stay.
HydrateKeeping(values, entries) ==
  IF DOMAIN entries = {} THEN values ELSE Over(Overlay(entries, values), values)

\* The fields become those of the blueprint; one that has a value keeps it.
Hydrate(values, entries) ==
  IF DOMAIN entries = {} THEN values ELSE Overlay(entries, values)

\* The effects that depend on the blueprint and its configuration.
HydrateBlueprint(d) ==
  [d EXCEPT !.arch = Hydrate(@, ArchEntries(d)),
            !.ind = Hydrate(@, IndEntries(d)),
            !.scalers = IF d.hydrated = d.blueprint THEN @ ELSE Over(@, ScalerDefaults(d)),
            !.hydrated = IF DOMAIN ScalerDefaults(d) = {} THEN @ ELSE d.blueprint]

\* The effect that depends on the strategy and its metadata.
HydrateTarget(d) == [d EXCEPT !.overrides = Hydrate(@, TargetDefaults(d))]

CountError(d) == IF d.count \in 1 .. Limit(d) THEN {} ELSE {"count"}

\* Once the count has been edited its message follows the count and the limit.
FollowCount(d, errs) == IF d.touched THEN (errs \ {"count"}) \cup CountError(d) ELSE errs
-----------------------------------------------------------------------------
(* Validation. *)

OutOfMarket(d, t) ==
  /\ t # 0
  /\ "range" \in d.arrived
  /\ t \notin Market.earliest .. Market.latest

DatasetErrors(d) ==
  (IF d.mode = "datetime-range" /\ (d.start = 0 \/ OutOfMarket(d, d.start)) THEN {"startDateTime"} ELSE {})
  \cup (IF d.end = 0 \/ OutOfMarket(d, d.end) THEN {"endDateTime"} ELSE {})
  \cup (IF d.mode = "datetime-range" /\ d.start # 0 /\ d.end # 0 /\ d.start >= d.end
        THEN {"dateRange"} ELSE {})

\* splitTotal.
Total(d) == Nearest[Nearest[d.train + d.val] + d.test]

SplitErrors(d) ==
  (IF d.train < 0 THEN {"trainSplit"} ELSE {})
  \cup (IF d.val < 10 * Unit THEN {"valSplit"} ELSE {})
  \cup (IF d.test < 10 * Unit THEN {"testSplit"} ELSE {})
  \cup (IF Total(d) - 100 * Unit \in -Tolerance + 1 .. Tolerance - 1 THEN {} ELSE {"splitTotal"})

\* validateParameterOverrides: indicator fields are not looked at.
OverrideErrors(d) ==
  LET target == TargetConstraints(d)
  IN IF \/ \E f \in DOMAIN d.arch : ~Permits(Config(d).allowed, f, d.arch[f])
        \/ \E f \in DOMAIN d.params : d.params[f] = {} \/ ~Permits(target, f, d.params[f])
        \/ \E f \in DOMAIN d.overrides : ~Permits(target, f, d.overrides[f])
     THEN {"parameterOverrides"} ELSE {}

RunErrors(d) == CountError(d) \cup (IF d.threshold THEN {} ELSE {"threshold"})

\* What keeps the user on a step, and the messages that leaving it clears.
StepErrors(s, d) ==
  CASE s = "basics"              -> IF d.name THEN {} ELSE {"name"}
    [] s = "dataset-range"       -> DatasetErrors(d)
    [] s = "split-config"        -> SplitErrors(d)
    [] s = "blueprint-selection" -> IF d.blueprint = NoBlueprint THEN {"blueprintId"} ELSE {}
    [] s = "target-selection"    -> OverrideErrors(d)
    [] s = "parameter-overrides" -> OverrideErrors(d)
    [] s = "deterministic-seed"  -> RunErrors(d)
    [] OTHER                     -> {}

Cleared(s) ==
  CASE s = "basics"              -> {"name"}
    [] s = "dataset-range"       -> {"startDateTime", "endDateTime", "dateRange"}
    [] s = "split-config"        -> {"trainSplit", "valSplit", "testSplit", "splitTotal"}
    [] s = "blueprint-selection" -> {"blueprintId"}
    [] s = "target-selection"    -> {"targetStrategy"}
    [] s = "parameter-overrides" -> {"parameterOverrides"}
    [] s = "deterministic-seed"  -> {"count", "threshold"}
    [] OTHER                     -> {}
-----------------------------------------------------------------------------
(* What the review step shows and what the submit button sends. *)

Review(d) ==
  [blueprint |-> d.blueprint,
   arch      |-> Overlay(ArchEntries(d), d.arch),
   ind       |-> Overlay(IndEntries(d), d.ind),
   scalers   |-> Restrict(d.scalers, {i \in DOMAIN d.scalers :
                             \E k \in DOMAIN IndEntries(d) : k[1] = i}),
   target    |-> Over(Compact(d.overrides), d.params),
   start     |-> IF d.mode = "datetime-range" THEN d.start ELSE 0,
   end       |-> d.end,
   count     |-> d.count]

Payload(d) ==
  [blueprint |-> d.blueprint,
   arch      |-> Compact(d.arch),
   ind       |-> Compact(d.ind),
   scalers   |-> d.scalers,
   target    |-> Compact(d.overrides),
   params    |-> Compact(d.params),
   start     |-> IF d.mode = "datetime-range" THEN d.start ELSE 0,
   end       |-> d.end,
   count     |-> d.count,
   splits    |-> <<d.train, d.val, d.test>>]
-----------------------------------------------------------------------------
DefaultStart ==
  IF Market.latest - Week < Market.earliest THEN Market.earliest ELSE Market.latest - Week

InitialDraft ==
  [name |-> FALSE, mode |-> "datetime-range", start |-> 0, end |-> 0,
   train |-> 80 * Unit, val |-> 10 * Unit, test |-> 10 * Unit,
   blueprint |-> NoBlueprint, arch |-> NoMap, ind |-> NoMap, scalers |-> NoMap,
   hydrated |-> NoBlueprint,
   strategy |-> "forward_return", params |-> Builtin["forward_return"],
   overrides |-> Builtin["forward_return"],
   count |-> 1, touched |-> FALSE, threshold |-> TRUE,
   details |-> {}, arrived |-> {}]

\* The page opens with four requests.  Those that say nothing of the fields the
\* user edits in this behaviour are taken to be answered before the first edit.
Opening == {"metadata", "range", "settings"} \cup (IF Reuse = NoReuse THEN {} ELSE {"reuse"})

Awaited(group) ==
  CASE group = "dataset"   -> {"range"}
    [] group = "split"     -> {}
    [] group = "blueprint" -> {"reuse"}
    [] group = "target"    -> {"metadata"}
    [] group = "run"       -> {"settings"}

WizardInit ==
  /\ step = 1
  /\ errors = {}
  /\ drag = "none"
  /\ sent = Unsent
  /\ created = 0
  /\ editing \in Groups
  /\ pending = Opening \cap Awaited(editing)
  /\ LET arrived == {"metadata", "range", "settings"} \ pending
     IN draft = HydrateTarget([InitialDraft EXCEPT
                  !.arrived = arrived,
                  !.start = IF "range" \in arrived THEN DefaultStart ELSE 0,
                  !.end = IF "range" \in arrived THEN Market.latest ELSE 0])

Edits(group, s) == editing = group /\ On(s)
-----------------------------------------------------------------------------
(* Navigation. *)

NextStep ==
  /\ step < Len(Steps)
  /\ LET found == StepErrors(Steps[step], draft)
     IN IF found = {}
        THEN step' = step + 1 /\ errors' = errors \ Cleared(Steps[step])
        ELSE step' = step /\ errors' = (IF On("deterministic-seed") THEN errors \ Cleared(Steps[step])
                                        ELSE errors) \cup found
  /\ UNCHANGED <<draft, pending, drag, sent, created, editing>>

Back ==
  /\ step > 1
  /\ step' = step - 1
  /\ UNCHANGED <<draft, errors, pending, drag, sent, created, editing>>
-----------------------------------------------------------------------------
(* Edits of the step shown. *)

EditName ==
  /\ On("basics")
  /\ draft.name => editing = "split"
  /\ draft' = [draft EXCEPT !.name = ~@]
  /\ errors' = errors \ {"name"}
  /\ UNCHANGED <<step, pending, drag, sent, created, editing>>

EditMode ==
  /\ Edits("dataset", "dataset-range")
  /\ \E mode \in {"datetime-range", "candlestick-count"} : draft' = [draft EXCEPT !.mode = mode]
  /\ UNCHANGED <<step, errors, pending, drag, sent, created, editing>>

\* The start is an input of the range mode only.
EditDates ==
  /\ Edits("dataset", "dataset-range")
  /\ \E t \in Instant :
       \/ /\ draft.mode = "datetime-range"
          /\ draft' = [draft EXCEPT !.start = t]
          /\ errors' = errors \ {"startDateTime", "dateRange"}
       \/ /\ draft' = [draft EXCEPT !.end = t]
          /\ errors' = errors \ {"endDateTime", "dateRange"}
  /\ UNCHANGED <<step, pending, drag, sent, created, editing>>

UseDefaults ==
  /\ Edits("dataset", "dataset-range")
  /\ pending' = pending \cup {"defaults"}
  /\ UNCHANGED <<step, draft, errors, drag, sent, created, editing>>

\* Train is what lies before the first boundary, test what lies after the second.
ApplyBoundaries(d, first, second) ==
  LET train == IF first < 0 THEN 0 ELSE IF first > 80 * Unit THEN 80 * Unit ELSE first
      least == Nearest[train + 10 * Unit]
      until == IF second > 90 * Unit THEN 90 * Unit ELSE second
      test == IF until < least THEN least ELSE until
  IN [d EXCEPT !.train = train, !.val = Nearest[test - train], !.test = Nearest[100 * Unit - test]]

Drag(kind) ==
  /\ \E p \in Percent :
       draft' = IF kind = "train" THEN ApplyBoundaries(draft, p, Nearest[draft.train + draft.val])
                ELSE ApplyBoundaries(draft, draft.train, p)
  /\ drag' = kind
  /\ errors' = errors \ {"trainSplit", "valSplit", "testSplit", "splitTotal"}
  /\ UNCHANGED <<step, pending, sent, created, editing>>

StartDrag == Edits("split", "split-config") /\ \E kind \in {"train", "test"} : Drag(kind)

MoveDrag == Edits("split", "split-config") /\ drag # "none" /\ Drag(drag)

StopDrag ==
  /\ drag # "none"
  /\ drag' = "none"
  /\ UNCHANGED <<step, draft, errors, pending, sent, created, editing>>

\* The detail request of a blueprint left behind is ignored when it is
\* answered; a configuration that is there is not requested again.
RequestDetail(d) ==
  (pending \ {"detail"}) \cup (IF d.blueprint \in d.details THEN {} ELSE {"detail"})

\* The blueprint of a user whose edits are elsewhere.
Usual == CHOOSE b \in Blueprint : TRUE

SelectBlueprint ==
  /\ On("blueprint-selection")
  /\ \E b \in IF editing = "blueprint" THEN Blueprint ELSE Blueprint \cap {Usual} :
       LET d == [draft EXCEPT !.blueprint = b]
           changed == b # draft.blueprint
       IN /\ draft' = IF changed THEN HydrateBlueprint(d) ELSE d
          /\ errors' = FollowCount(draft', errors \ {"blueprintId"})
          /\ pending' = IF changed THEN RequestDetail(d) ELSE pending
  /\ UNCHANGED <<step, drag, sent, created, editing>>

PickTarget ==
  /\ Edits("target", "target-selection")
  /\ \E s \in TargetOptions(draft) :
       LET chosen == [draft EXCEPT !.strategy = s]
           d == [chosen EXCEPT !.params = TargetDefaults(chosen),
                               !.overrides = TargetDefaults(chosen)]
       IN draft' = d /\ errors' = FollowCount(d, errors)
  /\ UNCHANGED <<step, pending, drag, sent, created, editing>>

EditParam ==
  /\ Edits("target", "target-selection")
  /\ \E f \in DOMAIN draft.params, text \in {{}} \cup {{t} : t \in Token} :
       LET d == [draft EXCEPT !.params[f] = text, !.overrides = Put(@, f, text)]
       IN draft' = d /\ errors' = FollowCount(d, errors)
  /\ UNCHANGED <<step, pending, drag, sent, created, editing>>

\* A token is added when it is valid, and a click on one takes it away.
Retokened(text, permitted) ==
  {text \cup {t} : t \in permitted \ text} \cup {text \ {t} : t \in text}

Permitted(allowed, f) == IF f \in DOMAIN allowed THEN Token \cap allowed[f] ELSE Token

EditOverride ==
  /\ On("parameter-overrides")
  /\ \E d \in
       (IF editing \notin {"blueprint", "run"} THEN {}
        ELSE UNION {{[draft EXCEPT !.arch[f] = text] :
                       text \in Retokened(draft.arch[f], Permitted(Config(draft).allowed, f))} :
                    f \in DOMAIN ArchEntries(draft)})
       \cup
       (IF editing # "blueprint" THEN {}
        ELSE UNION {{[draft EXCEPT !.ind[k] = text] : text \in Retokened(draft.ind[k], Token)} :
                    k \in DOMAIN IndEntries(draft)})
       \cup
       (IF editing # "target" THEN {}
        ELSE UNION {{[draft EXCEPT !.overrides = Put(@, f, text)] :
                       text \in Retokened(ValueOf(draft.overrides, f),
                                          Permitted(TargetConstraints(draft), f))} :
                    f \in DOMAIN draft.params}) :
       /\ draft' = d
       /\ errors' = FollowCount(d, errors)
  /\ UNCHANGED <<step, pending, drag, sent, created, editing>>

EditScaler ==
  /\ Edits("blueprint", "parameter-overrides")
  /\ \E i \in DOMAIN ScalerDefaults(draft) :
       /\ \E k \in DOMAIN IndEntries(draft) : k[1] = i
       /\ \E output \in DOMAIN ScalerDefaults(draft)[i], scaler \in {"none", "normalization"} :
            draft' = [draft EXCEPT !.scalers = Put(@, i, Put(@[i], output, scaler))]
  /\ UNCHANGED <<step, errors, pending, drag, sent, created, editing>>

EditRun ==
  /\ Edits("run", "deterministic-seed")
  /\ \/ \E n \in Count :
          LET d == [draft EXCEPT !.count = n, !.touched = TRUE]
          IN draft' = d /\ errors' = FollowCount(d, errors)
     \/ draft' = [draft EXCEPT !.threshold = ~@] /\ UNCHANGED errors
  /\ UNCHANGED <<step, pending, drag, sent, created, editing>>
-----------------------------------------------------------------------------
(* Answers, whatever step is shown. *)

Answered(kind) == kind \in pending /\ pending' = pending \ {kind}

MetadataArrives ==
  /\ Answered("metadata")
  /\ draft' = HydrateTarget([draft EXCEPT !.arrived = @ \cup {"metadata"}])
  /\ errors' = FollowCount(draft', errors)
  /\ UNCHANGED <<step, drag, sent, created, editing>>

SettingsArrive ==
  /\ Answered("settings")
  /\ draft' = [draft EXCEPT !.arrived = @ \cup {"settings"}]
  /\ errors' = FollowCount(draft', errors)
  /\ UNCHANGED <<step, drag, sent, created, editing>>

\* The range of the market fills the dates that are empty.
RangeArrives ==
  /\ Answered("range")
  /\ draft' = [draft EXCEPT !.arrived = @ \cup {"range"},
                            !.start = IF @ = 0 THEN DefaultStart ELSE @,
                            !.end = IF @ = 0 THEN Market.latest ELSE @]
  /\ UNCHANGED <<step, errors, drag, sent, created, editing>>

\* The answer to "Use defaults" replaces them.
DefaultsArrive ==
  /\ Answered("defaults")
  /\ draft' = [draft EXCEPT !.arrived = @ \cup {"range"}, !.start = DefaultStart, !.end = Market.latest]
  /\ errors' = errors \ {"startDateTime", "endDateTime", "dateRange"}
  /\ UNCHANGED <<step, drag, sent, created, editing>>

DetailArrives ==
  /\ Answered("detail")
  /\ draft' = HydrateBlueprint([draft EXCEPT !.details = @ \cup {draft.blueprint}])
  /\ errors' = FollowCount(draft', errors)
  /\ UNCHANGED <<step, drag, sent, created, editing>>

\* The reused model sets its parameters and its blueprint over the draft's.
ReuseArrives ==
  /\ "reuse" \in pending
  /\ LET d == [draft EXCEPT !.name = TRUE, !.blueprint = Reuse.blueprint,
                            !.arch = Over(Reuse.arch, @), !.ind = Over(Reuse.ind, @),
                            !.overrides = Over(Reuse.target, @), !.params = Over(Reuse.target, @)]
         changed == d.blueprint # draft.blueprint
     IN /\ draft' = IF changed THEN HydrateBlueprint(d) ELSE d
        /\ errors' = FollowCount(draft', errors)
        /\ pending' = (IF changed THEN RequestDetail(d) ELSE pending) \ {"reuse"}
  /\ UNCHANGED <<step, drag, sent, created, editing>>

\* A failed request leaves the page as it is, and nothing asks again: but for the
\* detail, which is asked for when the blueprint is selected again, a request that
\* fails is one whose answer does not come.
RequestFails ==
  /\ \E kind \in {"metadata", "settings", "detail"} :
       Answered(kind) /\ (kind = "detail" => editing = "blueprint")
  /\ UNCHANGED <<step, draft, errors, drag, sent, created, editing>>
-----------------------------------------------------------------------------
(* Submission. *)

Submit ==
  /\ On("submit")
  /\ "submit" \notin pending
  /\ \/ /\ RunErrors(draft) # {}
        /\ errors' = (errors \ {"count", "threshold"}) \cup RunErrors(draft)
        /\ UNCHANGED <<sent, pending>>
     \/ /\ RunErrors(draft) = {}
        /\ sent' = Payload(draft)
        /\ pending' = pending \cup {"submit"}
        /\ UNCHANGED errors
  /\ UNCHANGED <<step, draft, drag, created, editing>>

\* The server creates the experiment, which the page then opens, or refuses a
\* field, or the request fails before or after the experiment was created.
SubmitAnswered ==
  /\ Answered("submit")
  /\ \/ created' \in {created, created + 1} /\ UNCHANGED errors
     \/ errors' = errors \cup {"blueprintId"} /\ UNCHANGED created
  /\ sent' = Unsent
  /\ UNCHANGED <<step, draft, drag, editing>>
-----------------------------------------------------------------------------
\* A submission carries what it was sent with: edits are followed again when it
\* has been answered.
WizardNext ==
  /\ created < MaxSubmits
  /\ \/ /\ "submit" \notin pending
        /\ \/ NextStep \/ Back
           \/ EditName \/ EditMode \/ EditDates \/ UseDefaults
           \/ StartDrag \/ MoveDrag \/ StopDrag
           \/ SelectBlueprint \/ PickTarget \/ EditParam \/ EditOverride \/ EditScaler \/ EditRun
     \/ MetadataArrives \/ SettingsArrive \/ RangeArrives \/ DefaultsArrive
     \/ DetailArrives \/ ReuseArrives \/ RequestFails
     \/ Submit \/ SubmitAnswered
-----------------------------------------------------------------------------
(* Properties. *)

WizardTypeOK ==
  /\ step \in 1 .. Len(Steps)
  /\ draft.start \in Instant /\ draft.end \in Instant
  /\ draft.blueprint \in Blueprint \cup {NoBlueprint}
  /\ draft.strategy \in Strategy \cup DOMAIN Metadata
  /\ draft.details \subseteq Blueprint
  /\ pending \subseteq {"metadata", "range", "settings", "reuse", "detail", "defaults", "submit"}
  /\ sent = Unsent \/ DOMAIN sent = PayloadFields
  /\ created \in 0 .. MaxSubmits

\* However the boundaries are dragged, past each other or off the bar, the split
\* is one that the page and the server accept, but for one error of rounding: with
\* the boundaries as near as they go the validation share may be computed a trace
\* below 10%, is shown as 10 and refused on the step, and so never sent.
SplitsStayLegal ==
  /\ SplitErrors(draft) \subseteq {"valSplit"}
  /\ draft.val >= 10 * Unit - 2 * Rounding
  /\ On("submit") => SplitErrors(draft) = {}

\* No way to the submit button goes round a check: whatever the user went back
\* to, and whatever answers came meanwhile, what is submitted has a name, dates
\* in order, a blueprint, and a count and a threshold valid when it is sent.
SubmissionIsChecked ==
  [][("submit" \in pending' \ pending) =>
       /\ draft.name
       /\ draft.end # 0
       /\ draft.mode = "datetime-range" => draft.start \in 1 .. draft.end - 1
       /\ draft.blueprint # NoBlueprint
       /\ draft.threshold
       /\ draft.count \in 1 .. Limit(draft)]_wizardVars

\* Parameters that the reused model brings, to whatever blueprint.
Borrowed(group) == IF Reuse = NoReuse THEN {} ELSE DOMAIN Reuse[group]

\* A loaded blueprint that shows fields is sent with parameters of its own only,
\* and each that the review shows is sent with the value shown, or not sent and
\* shown with its default.  A flaw of the page: with a blueprint that shows none
\* the effects return early, and the parameters of one selected before are sent
\* with it, unseen; they are then of one blueprint, besides the reused model's.
LoadedParametersAreItsOwn ==
  \A group \in {"arch", "ind"} :
    LET entries == IF group = "arch" THEN ArchEntries(draft) ELSE IndEntries(draft)
        shown == Review(draft)[group]
        paid == Payload(draft)[group]
    IN IF DOMAIN entries # {}
       THEN /\ DOMAIN paid \subseteq DOMAIN Config(draft)[group]
            /\ \A f \in DOMAIN shown : shown[f] = Or(ValueOf(paid, f), entries[f])
       ELSE LET kept == DOMAIN paid \ Borrowed(group)
            IN kept = {} \/ \E b \in draft.details : kept \subseteq DOMAIN Configs[b][group]
=============================================================================
