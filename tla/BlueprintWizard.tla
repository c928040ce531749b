--------------------------- MODULE BlueprintWizard ---------------------------
(***************************************************************************)
(* The new-blueprint wizard (frontend/views/BlueprintWizardView.tsx): four *)
(* steps over a configuration that is checked step by step against a       *)
(* catalogue, which the server's replaces at any time.  The text of a field *)
(* is the set of its tokens, {} when blank.                                 *)
(***************************************************************************)
EXTENDS Integers, FiniteSets, Functions, Maps

CONSTANTS
  Fallback,       \* the page's catalogue: [arch, ind], of [params, permitted, outputs] by name
  Published,      \* the server's
  TypedToken,     \* tokens the user enters
  SourceId,       \* the blueprint of ?blueprintId=, or NoArchitecture
  MaxBlueprints,  \* blueprints the server creates for this page, at most
  NoArchitecture

ASSUME BlueprintWizardAssumption ==
  /\ MaxBlueprints \in Nat
  /\ NoArchitecture \notin DOMAIN Fallback.arch \cup DOMAIN Published.arch

VARIABLES
  blueprintStep,  \* currentStep
  config,         \* [name, arch, params, ind, scalers]
  flagged,        \* fieldErrors: fields with a message
  catalogue,      \* Fallback or Published
  creating        \* [submitting, count, metadata]

blueprintVars == <<blueprintStep, config, flagged, catalogue, creating>>

\* The page has lists of its own, for when those of the server cannot be had.
Catalogues == {Fallback, Published}

None == [x \in {} |-> {}]

BlueprintInit ==
  /\ blueprintStep = 1
  /\ config = [name |-> FALSE, arch |-> SourceId, params |-> None, ind |-> None, scalers |-> None]
  /\ flagged = {}
  /\ catalogue = Fallback
  /\ creating = [submitting |-> FALSE, count |-> 0, metadata |-> TRUE]

\* The constraint of a field; a name the catalogue does not have has none.
Allows(items, name, field, text) ==
  (name \in DOMAIN items /\ field \in DOMAIN items[name].permitted)
    => text \subseteq items[name].permitted[field]

\* TokenizedParameterInput: a token is added when it is valid, and taken away.
Edited(items, name, field, text) ==
  {text \cup {t} : t \in {u \in TypedToken \ text : Allows(items, name, field, {u})}}
  \cup {text \ {t} : t \in text}
-----------------------------------------------------------------------------
(* validateStep. *)

Faults(items, name, values) ==
  {<<name, f>> : f \in {g \in DOMAIN values : values[g] = {} \/ ~Allows(items, name, g, values[g])}}

\* As a bug would have it: only the architecture's fields are checked.
StepFaultsOfArchitecture(s) ==
  CASE s = 1 -> IF config.name THEN {} ELSE {<<"metadata", "name">>}
    [] s = 2 -> (IF config.arch = NoArchitecture THEN {<<"architecture", "reference">>} ELSE {})
                \cup Faults(catalogue.arch, config.arch, config.params)
    [] OTHER -> {}

StepFaults(s) ==
  CASE s = 1 -> IF config.name THEN {} ELSE {<<"metadata", "name">>}
    [] s = 2 -> (IF config.arch = NoArchitecture THEN {<<"architecture", "reference">>} ELSE {})
                \cup Faults(catalogue.arch, config.arch, config.params)
    [] s = 3 -> UNION {Faults(catalogue.ind, i, config.ind[i]) : i \in DOMAIN config.ind}
    [] OTHER -> {}

BlueprintStepNext ==
  /\ blueprintStep < 4
  /\ flagged' = StepFaults(blueprintStep)
  /\ blueprintStep' = IF flagged' = {} THEN blueprintStep + 1 ELSE blueprintStep
  /\ UNCHANGED <<config, catalogue, creating>>

BlueprintStepBack ==
  /\ blueprintStep > 1 /\ ~creating.submitting
  /\ blueprintStep' = blueprintStep - 1
  /\ UNCHANGED <<config, flagged, catalogue, creating>>
-----------------------------------------------------------------------------
ClearFieldError(key) == flagged' = flagged \ {key}

NameBlueprint ==
  /\ blueprintStep = 1
  /\ config' = [config EXCEPT !.name = ~@]
  /\ ClearFieldError(<<"metadata", "name">>)
  /\ UNCHANGED <<blueprintStep, catalogue, creating>>

\* selectReferenceModel's update: the parameters start at the defaults.
Selected(a) == [config EXCEPT !.arch = a, !.params = catalogue.arch[a].params]

SelectReferenceModel ==
  /\ blueprintStep = 2
  /\ \E a \in DOMAIN catalogue.arch : config' = Selected(a)
  /\ ClearFieldError(<<"architecture", "reference">>)
  /\ UNCHANGED <<blueprintStep, catalogue, creating>>

\* The fields are shown for an architecture that the catalogue has.
UpdateModelParam ==
  /\ blueprintStep = 2
  /\ config.arch \in DOMAIN catalogue.arch
  /\ \E f \in DOMAIN config.params :
       /\ \E text \in Edited(catalogue.arch, config.arch, f, config.params[f]) :
            config' = [config EXCEPT !.params[f] = text]
       /\ ClearFieldError(<<config.arch, f>>)
  /\ UNCHANGED <<blueprintStep, catalogue, creating>>

\* toggleIndicator's update of the configuration.
Toggled(i) ==
  LET item == catalogue.ind[i]
  IN IF i \in DOMAIN config.ind
     THEN [config EXCEPT !.ind = Restrict(@, DOMAIN @ \ {i}),
                         !.scalers = Restrict(@, DOMAIN @ \ {i})]
     ELSE [config EXCEPT !.ind = Put(@, i, item.params),
                         !.scalers = Put(@, i, [o \in item.outputs |-> "none"])]

\* The third step lists what the catalogue has, from TA-Lib and custom.
AvailableIndicators == DOMAIN catalogue.ind

\* An indicator that the catalogue no longer has cannot be unselected.
ToggleIndicator ==
  /\ blueprintStep = 3
  /\ \E i \in AvailableIndicators : config' = Toggled(i)
  /\ ClearFieldError(<<"indicators", "selected">>)
  /\ UNCHANGED <<blueprintStep, catalogue, creating>>

UpdateIndicatorParam ==
  /\ blueprintStep = 3
  /\ \E i \in DOMAIN config.ind \cap AvailableIndicators : \E f \in DOMAIN catalogue.ind[i].params :
       LET text == IF f \in DOMAIN config.ind[i] THEN config.ind[i][f] ELSE {}
       IN /\ \E new \in Edited(catalogue.ind, i, f, text) :
               config' = [config EXCEPT !.ind[i] = Put(@, f, new)]
          /\ ClearFieldError(<<i, f>>)
  /\ UNCHANGED <<blueprintStep, catalogue, creating>>

UpdateIndicatorOutputScaler ==
  /\ blueprintStep = 3
  /\ \E i \in DOMAIN config.ind \cap AvailableIndicators :
       \E o \in catalogue.ind[i].outputs, scaler \in {"none", "standardization"} :
         config' = [config EXCEPT !.scalers = Put(@, i, Put(@[i], o, scaler))]
  /\ UNCHANGED <<blueprintStep, flagged, catalogue, creating>>

CatalogueArrives ==
  /\ creating.metadata
  /\ catalogue' \in Catalogues
  /\ creating' = [creating EXCEPT !.metadata = FALSE]
  /\ UNCHANGED <<blueprintStep, config, flagged>>
-----------------------------------------------------------------------------
OptionCountOf(values) == FoldFunction(LAMBDA text, n : n * (IF text = {} THEN 1 ELSE Cardinality(text)), 1, values)

PermutationCount ==
  OptionCountOf(config.params) *
  FoldFunction(LAMBDA values, n : n * OptionCountOf(values), 1, config.ind)

\* The fourth step, which repeats the configuration.
Summary ==
  [architecture |-> config.arch, params |-> config.params, selected |-> config.ind,
   scalers |-> config.scalers, permutations |-> PermutationCount]

\* Each selected indicator with what the catalogue says of it, if it has it.
Definitions ==
  [i \in DOMAIN config.ind |->
     [outputs |-> IF i \in DOMAIN catalogue.ind THEN catalogue.ind[i].outputs ELSE {},
      parameters |-> config.ind[i],
      outputScalers |-> config.scalers[i]]]

Create ==
  /\ blueprintStep = 4 /\ ~creating.submitting /\ creating.count < MaxBlueprints
  /\ creating' = [creating EXCEPT !.submitting = TRUE]
  /\ flagged' = {}
  /\ UNCHANGED <<blueprintStep, config, catalogue>>

\* The blueprint is created, and its page opened; or fields are refused; or the
\* request fails, before or after the blueprint was created.
CreateAnswered ==
  /\ creating.submitting
  /\ \/ /\ \E n \in {0, 1} : creating' = [creating EXCEPT !.submitting = FALSE, !.count = @ + n]
        /\ UNCHANGED flagged
     \/ /\ creating' = [creating EXCEPT !.submitting = FALSE]
        /\ flagged' \in SUBSET {<<"metadata", "name">>, <<"architecture", "reference">>} \ {{}}
  /\ UNCHANGED <<blueprintStep, config, catalogue>>

BlueprintNext ==
  \/ BlueprintStepNext \/ BlueprintStepBack
  \/ NameBlueprint \/ SelectReferenceModel \/ UpdateModelParam
  \/ ToggleIndicator \/ UpdateIndicatorParam \/ UpdateIndicatorOutputScaler
  \/ CatalogueArrives \/ Create \/ CreateAnswered
-----------------------------------------------------------------------------
BlueprintTypeOK ==
  /\ blueprintStep \in 1 .. 4
  /\ catalogue \in Catalogues
  /\ creating.count \in 0 .. MaxBlueprints
  \* Selected indicators have parameters and scaling, in two maps.
  /\ DOMAIN config.ind = DOMAIN config.scalers

\* Whatever the user goes back to after a step was checked, and whether or not
\* the catalogue was replaced meanwhile, what is submitted has a name, an
\* architecture, and in each field a value that one of the catalogues permits.
CreatedWasChecked ==
  [][creating'.submitting /\ ~creating.submitting =>
       LET ok(kind, name, values) ==
             \A f \in DOMAIN values :
               /\ values[f] # {}
               /\ \/ Allows(Fallback[kind], name, f, values[f])
                  \/ Allows(Published[kind], name, f, values[f])
       IN /\ config.name
          /\ config.arch # NoArchitecture
          /\ ok("arch", config.arch, config.params)
          /\ \A i \in DOMAIN config.ind : ok("ind", i, config.ind[i])]_blueprintVars
=============================================================================
