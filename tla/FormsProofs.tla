---------------------------- MODULE FormsProofs -----------------------------
(***************************************************************************)
(* Pages that send what was put together over several steps: the two        *)
(* wizards with their lists and dialogs, the filters of the rankings and    *)
(* the settings.  What is sent was checked, and is what the page shows, for *)
(* any blueprints, strategies, tokens, catalogues, columns and settings.    *)
(***************************************************************************)
EXTENDS ExperimentWizard, BlueprintPicker, TargetPreview, BlueprintWizard, RankingFilters, SystemPage,
        SequenceTheorems, FiniteSetTheorems, FunctionTheorems, TLAPS

(* The experiment wizard. *)

WizardSpec == WizardInit /\ [][WizardNext]_wizardVars

\* The cache holds more than one candle.
MarketSpans == Market.earliest < Market.latest

\* The reused model has only parameters of its blueprint.
ReuseIsOfBlueprint ==
  Reuse # NoReuse => /\ DOMAIN Reuse.arch \subseteq DOMAIN Configs[Reuse.blueprint].arch
                     /\ DOMAIN Reuse.ind \subseteq DOMAIN Configs[Reuse.blueprint].ind

DraftFields ==
  {"name", "mode", "start", "end", "train", "val", "test", "blueprint", "arch", "ind", "scalers", "hydrated",
   "strategy", "params", "overrides", "count", "touched", "threshold", "details", "arrived"}

IsDraft(d) == d = [x \in DraftFields |-> d[x]]

\* Dates with which an experiment may be submitted.
DatesOK(d) == d.end # 0 /\ (d.mode = "datetime-range" => d.start # 0 /\ d.start < d.end)

\* The parts of a split, with what may be lost by rounding.
SplitOK(d) ==
  /\ d.train \in Nat /\ d.val \in Nat /\ d.test \in Nat
  /\ d.val >= 10 * Unit - 2 * Rounding /\ d.test >= 10 * Unit
  /\ d.train + d.val + d.test >= 100 * Unit - 2 * Rounding
  /\ d.train + d.val + d.test <= 100 * Unit + 2 * Rounding

\* With the configuration of the blueprint there, the fields are its own.
OwnFields(d) ==
  /\ DOMAIN ArchEntries(d) # {} => DOMAIN d.arch \subseteq DOMAIN Config(d).arch
  /\ DOMAIN IndEntries(d) # {} => DOMAIN d.ind \subseteq DOMAIN Config(d).ind

\* The fields in the draft are of one loaded blueprint, or were borrowed.
OfOne(named, group, details) ==
  LET kept == named \ Borrowed(group)
  IN kept = {} \/ \E b \in details : kept \subseteq DOMAIN Configs[b][group]

Lent(d) == OfOne(DOMAIN d.arch, "arch", d.details) /\ OfOne(DOMAIN d.ind, "ind", d.details)

WizardInv ==
  /\ step \in 1 .. 9
  /\ IsDraft(draft) /\ draft.start \in Nat /\ draft.end \in Nat
  /\ SplitOK(draft)
  /\ step > 1 => draft.name
  /\ MarketSpans /\ step > 2 => DatesOK(draft)
  /\ step > 3 => draft.val >= 10 * Unit
  /\ step > 4 => draft.blueprint # NoBlueprint
  /\ Lent(draft)
  /\ "reuse" \in pending => Reuse # NoReuse
  /\ ReuseIsOfBlueprint => OwnFields(draft)
-----------------------------------------------------------------------------
LEMMA MarketTimes ==
  /\ DefaultStart \in Nat \ {0} /\ Market.latest \in Nat \ {0}
  /\ MarketSpans => DefaultStart < Market.latest
BY WizardAssumption DEF DefaultStart, MarketSpans

LEMMA StepsAre ==
  ASSUME NEW k \in 1 .. 9
  PROVE  /\ Steps[k] = "basics" <=> k = 1
         /\ Steps[k] = "dataset-range" <=> k = 2
         /\ Steps[k] = "split-config" <=> k = 3
         /\ Steps[k] = "blueprint-selection" <=> k = 4
         /\ Steps[k] = "submit" <=> k = 9
         /\ Len(Steps) = 9
BY DEF Steps

\* What the check of a step lets through.
LEMMA StepsCheck ==
  ASSUME NEW d, d.start \in Nat, d.end \in Nat, NEW k \in 1 .. 8, StepErrors(Steps[k], d) = {}
  PROVE  /\ k = 1 => d.name
         /\ k = 2 => DatesOK(d)
         /\ k = 3 => ~(d.val < 10 * Unit)
         /\ k = 4 => d.blueprint # NoBlueprint
<1>1. CASE k = 1
  <2>1. StepErrors("basics", d) = {}
    BY <1>1 DEF Steps
  <2> QED BY <1>1, <2>1 DEF StepErrors
<1>2. CASE k = 2
  <2>1. StepErrors("dataset-range", d) = {}
    BY <1>2 DEF Steps
  <2>2. DatasetErrors(d) = {}
    BY <2>1 DEF StepErrors
  <2> QED BY <1>2, <2>2 DEF DatasetErrors, DatesOK
<1>3. CASE k = 4
  <2>1. StepErrors("blueprint-selection", d) = {}
    BY <1>3 DEF Steps
  <2> QED BY <1>3, <2>1 DEF StepErrors
<1>4. CASE k = 3
  <2>1. StepErrors("split-config", d) = {}
    BY <1>4 DEF Steps
  <2>2. SplitErrors(d) = {}
    BY <2>1 DEF StepErrors
  <2> QED BY <1>4, <2>2 DEF SplitErrors
<1> QED BY <1>1, <1>2, <1>3, <1>4

\* The configuration is that of the blueprint, if it is there.
LEMMA SameConfig ==
  ASSUME NEW d, NEW e, e.blueprint = d.blueprint, e.details = d.details
  PROVE  Config(e) = Config(d) /\ ArchEntries(e) = ArchEntries(d) /\ IndEntries(e) = IndEntries(d)
BY DEF Config, ArchEntries, IndEntries

LEMMA EntriesOK ==
  ASSUME NEW d
  PROVE  DOMAIN ArchEntries(d) \subseteq DOMAIN Config(d).arch /\ DOMAIN IndEntries(d) \subseteq DOMAIN Config(d).ind
BY DEF ArchEntries, IndEntries, RestrictDomain, Restrict

LEMMA HydratedFields ==
  ASSUME NEW values, NEW entries
  PROVE  DOMAIN entries # {} => DOMAIN Hydrate(values, entries) = DOMAIN entries
BY DEF Hydrate, Overlay

\* A blueprint with fields puts its own; one without leaves those there were.
LEMMA HydratedLent ==
  ASSUME NEW d, Lent(d)
  PROVE  /\ OfOne(DOMAIN Hydrate(d.arch, ArchEntries(d)), "arch", d.details)
         /\ OfOne(DOMAIN Hydrate(d.ind, IndEntries(d)), "ind", d.details)
<1>1. DOMAIN ArchEntries(d) # {} \/ DOMAIN IndEntries(d) # {} =>
        d.blueprint \in d.details /\ Config(d) = Configs[d.blueprint]
  BY DEF ArchEntries, IndEntries, Config, NoMap, RestrictDomain, Restrict
<1>2. OfOne(DOMAIN Hydrate(d.arch, ArchEntries(d)), "arch", d.details)
  <2>1. CASE DOMAIN ArchEntries(d) = {}
    BY <2>1 DEF Hydrate, Lent
  <2>2. CASE DOMAIN ArchEntries(d) # {}
    <3>1. DOMAIN Hydrate(d.arch, ArchEntries(d)) \subseteq DOMAIN Configs[d.blueprint]["arch"]
      BY <1>1, <2>2, EntriesOK, HydratedFields
    <3> QED BY <1>1, <2>2, <3>1 DEF OfOne
  <2> QED BY <2>1, <2>2
<1>3. OfOne(DOMAIN Hydrate(d.ind, IndEntries(d)), "ind", d.details)
  <2>1. CASE DOMAIN IndEntries(d) = {}
    BY <2>1 DEF Hydrate, Lent
  <2>2. CASE DOMAIN IndEntries(d) # {}
    <3>1. DOMAIN Hydrate(d.ind, IndEntries(d)) \subseteq DOMAIN Configs[d.blueprint]["ind"]
      BY <1>1, <2>2, EntriesOK, HydratedFields
    <3> QED BY <1>1, <2>2, <3>1 DEF OfOne
  <2> QED BY <2>1, <2>2
<1> QED BY <1>2, <1>3

\* The draft e differs from d in none of the fields that are checked.
SameChecked(d, e) ==
  /\ IsDraft(e)
  /\ e.name = d.name /\ e.mode = d.mode /\ e.start = d.start /\ e.end = d.end
  /\ e.train = d.train /\ e.val = d.val /\ e.test = d.test

LEMMA HydrateBlueprintOK ==
  ASSUME NEW d, IsDraft(d), Lent(d)
  PROVE  LET e == HydrateBlueprint(d)
         IN  SameChecked(d, e) /\ e.blueprint = d.blueprint /\ e.details = d.details /\ OwnFields(e) /\ Lent(e)
<1> DEFINE e == HydrateBlueprint(d)
<1>1. /\ IsDraft(e) /\ SameChecked(d, e) /\ e.blueprint = d.blueprint /\ e.details = d.details
      /\ e.arch = Hydrate(d.arch, ArchEntries(d)) /\ e.ind = Hydrate(d.ind, IndEntries(d))
  BY DEF HydrateBlueprint, IsDraft, DraftFields, SameChecked
<1> HIDE DEF e
<1>2. OwnFields(e)
  BY <1>1, SameConfig, EntriesOK, HydratedFields DEF OwnFields
<1>3. Lent(e)
  BY <1>1, HydratedLent DEF Lent
<1> QED BY <1>1, <1>2, <1>3 DEF e

LEMMA HydrateTargetOK ==
  ASSUME NEW d, IsDraft(d)
  PROVE  LET e == HydrateTarget(d)
         IN  /\ SameChecked(d, e) /\ e.blueprint = d.blueprint /\ e.details = d.details
             /\ e.arch = d.arch /\ e.ind = d.ind
BY DEF HydrateTarget, IsDraft, DraftFields, SameChecked

\* The fields of the blueprint do not become more.
SameBlueprint(d, e) ==
  /\ e.blueprint = d.blueprint /\ e.details = d.details
  /\ DOMAIN e.arch = DOMAIN d.arch /\ DOMAIN e.ind = DOMAIN d.ind

LEMMA StillOwn == ASSUME NEW d, NEW e, SameBlueprint(d, e) PROVE (OwnFields(d) => OwnFields(e)) /\ (Lent(d) => Lent(e))
BY SameConfig DEF SameBlueprint, OwnFields, Lent

\* Another draft in which what is checked, and the blueprint, is the same.
LEMMA UncheckedOK ==
  ASSUME WizardInv, UNCHANGED step, pending' \subseteq pending \cup {"defaults", "detail", "submit"},
         SameChecked(draft, draft'), SameBlueprint(draft, draft')
  PROVE  WizardInv'
<1>1. (OwnFields(draft) => OwnFields(draft')) /\ (Lent(draft) => Lent(draft'))
  BY StillOwn
<1> QED BY <1>1 DEF WizardInv, SameChecked, SameBlueprint, SplitOK, DatesOK

\* Another blueprint is chosen.
LEMMA BlueprintOK ==
  ASSUME WizardInv, UNCHANGED step, pending' \subseteq pending \cup {"detail"},
         SameChecked(draft, draft'), step > 4 => draft'.blueprint # NoBlueprint, OwnFields(draft'), Lent(draft')
  PROVE  WizardInv'
BY DEF WizardInv, SameChecked, SplitOK, DatesOK

LEMMA WizardInitOK == WizardInit => WizardInv
<1> SUFFICES ASSUME WizardInit PROVE WizardInv
  OBVIOUS
<1> DEFINE arrived == {"metadata", "range", "settings"} \ pending
           start == IF "range" \in arrived THEN DefaultStart ELSE 0
           end == IF "range" \in arrived THEN Market.latest ELSE 0
           blank == InitialDraft
           first == [blank EXCEPT !.arrived = arrived, !.start = start, !.end = end]
<1>1. draft = HydrateTarget(first) /\ step = 1 /\ pending \subseteq Opening
  BY DEF WizardInit
<1>a. start \in Nat /\ end \in Nat
  BY MarketTimes
<1>b. /\ IsDraft(blank) /\ blank.train = 80 * Unit /\ blank.val = 10 * Unit /\ blank.test = 10 * Unit
      /\ blank.blueprint = NoBlueprint /\ blank.details = {} /\ blank.arch = NoMap /\ blank.ind = NoMap
  BY DEF InitialDraft, IsDraft, DraftFields
<1> HIDE DEF blank, start, end, arrived
<1>2. /\ IsDraft(first) /\ first.start \in Nat /\ first.end \in Nat
      /\ first.train = 80 * Unit /\ first.val = 10 * Unit /\ first.test = 10 * Unit
      /\ first.blueprint = NoBlueprint /\ first.details = {} /\ first.arch = NoMap /\ first.ind = NoMap
  BY <1>a, <1>b DEF IsDraft, DraftFields
<1> HIDE DEF first
<1>3. /\ SameChecked(first, draft) /\ draft.blueprint = NoBlueprint /\ draft.details = {}
      /\ draft.arch = NoMap /\ draft.ind = NoMap
  BY <1>1, <1>2, HydrateTargetOK
<1>4. DOMAIN ArchEntries(draft) = {} /\ DOMAIN IndEntries(draft) = {}
  BY <1>3 DEF ArchEntries, IndEntries, Config, NoMap, RestrictDomain, Restrict
<1>5. OwnFields(draft)
  BY <1>4 DEF OwnFields
<1>6. Lent(draft)
  BY <1>3 DEF Lent, OfOne, NoMap
<1>7. SplitOK(draft)
  <2>1. Unit \in Nat /\ Rounding \in Nat
    BY WizardAssumption, FloatAssumption
  <2>2. draft.train = 80 * Unit /\ draft.val = 10 * Unit /\ draft.test = 10 * Unit
    BY <1>2, <1>3 DEF SameChecked
  <2> QED BY <2>1, <2>2 DEF SplitOK
<1> QED BY <1>1, <1>2, <1>3, <1>5, <1>6, <1>7 DEF WizardInv, SameChecked, Opening

\* The user goes on when the step is in order, and back at any time.
LEMMA StepsTakenOK == WizardInv /\ (NextStep \/ Back) => WizardInv'
<1> SUFFICES ASSUME WizardInv, NextStep \/ Back PROVE WizardInv'
  OBVIOUS
<1> USE DEF WizardInv
<1>1. UNCHANGED <<draft, pending>>
  BY DEF NextStep, Back
<1>2. CASE NextStep
  <2> DEFINE found == StepErrors(Steps[step], draft)
  <2>0. step < Len(Steps) /\ (found = {} => step' = step + 1) /\ (found # {} => step' = step)
    BY <1>2 DEF NextStep
  <2>1. step \in 1 .. 8 /\ step' \in {step, step + 1}
    <3>1. Len(Steps) = 9
      BY DEF Steps
    <3> QED BY <2>0, <3>1
  <2>3. found # {} => step' = step
    BY <2>0
  <2>4. step' # step => StepErrors(Steps[step], draft) = {}
    BY <2>3
  <2> HIDE DEF found
  <2>2. step' # step => /\ step = 1 => draft.name
                        /\ step = 2 => DatesOK(draft)
                        /\ step = 3 => draft.val >= 10 * Unit
                        /\ step = 4 => draft.blueprint # NoBlueprint
    <3>1. draft.val \in Nat /\ 10 * Unit \in Nat
      BY WizardAssumption DEF SplitOK
    <3>2. ~(draft.val < 10 * Unit) => draft.val >= 10 * Unit
      BY <3>1
    <3> QED BY <2>1, <2>4, <3>2, StepsCheck
  <2> QED BY <1>1, <2>1, <2>2
<1>3. CASE Back
  BY <1>1, <1>3 DEF Back
<1> QED BY <1>2, <1>3

\* Edits of what is checked are made on the step that checks it.
LEMMA BasicEditsOK == WizardInv /\ (EditName \/ EditMode \/ EditDates \/ UseDefaults) => WizardInv'
<1> SUFFICES ASSUME WizardInv, EditName \/ EditMode \/ EditDates \/ UseDefaults PROVE WizardInv'
  OBVIOUS
<1> USE DEF WizardInv
<1>1. CASE EditName
  <2>1. step = 1 /\ draft' = [draft EXCEPT !.name = ~@] /\ UNCHANGED <<step, pending>>
    BY <1>1, StepsAre DEF EditName, On
  <2> DEFINE e == [draft EXCEPT !.name = ~@]
  <2>2. /\ IsDraft(e) /\ e.start = draft.start /\ e.end = draft.end /\ e.train = draft.train /\ e.val = draft.val
        /\ e.test = draft.test /\ SameBlueprint(draft, e)
    BY DEF IsDraft, DraftFields, SameBlueprint
  <2>3. draft' = e
    BY <2>1
  <2> HIDE DEF e
  <2>4. (OwnFields(draft) => OwnFields(draft')) /\ (Lent(draft) => Lent(draft'))
    BY <2>2, <2>3, StillOwn
  <2> QED BY <2>1, <2>2, <2>3, <2>4 DEF SplitOK
<1>2. CASE EditMode
  <2>1. step = 2 /\ UNCHANGED <<step, pending>>
    BY <1>2, StepsAre DEF EditMode, Edits, On
  <2>2. PICK mode \in {"datetime-range", "candlestick-count"} : draft' = [draft EXCEPT !.mode = mode]
    BY <1>2 DEF EditMode
  <2>3. /\ IsDraft(draft') /\ draft'.name = draft.name /\ draft'.start = draft.start /\ draft'.end = draft.end
        /\ draft'.train = draft.train /\ draft'.val = draft.val
        /\ draft'.test = draft.test /\ SameBlueprint(draft, draft')
    BY <2>2 DEF IsDraft, DraftFields, SameBlueprint
  <2>4. (OwnFields(draft) => OwnFields(draft')) /\ (Lent(draft) => Lent(draft'))
    BY <2>3, StillOwn
  <2> QED BY <2>1, <2>3, <2>4 DEF SplitOK
<1>3. CASE EditDates
  <2>1. step = 2 /\ UNCHANGED <<step, pending>>
    BY <1>3, StepsAre DEF EditDates, Edits, On
  <2>2. PICK t \in Instant : draft' = [draft EXCEPT !.start = t] \/ draft' = [draft EXCEPT !.end = t]
    BY <1>3 DEF EditDates
  <2>3. t \in Nat
    BY MarketTimes DEF Instant
  <2>4. /\ IsDraft(draft') /\ draft'.name = draft.name /\ draft'.start \in Nat /\ draft'.end \in Nat
        /\ draft'.train = draft.train /\ draft'.val = draft.val
        /\ draft'.test = draft.test /\ SameBlueprint(draft, draft')
    BY <2>2, <2>3 DEF IsDraft, DraftFields, SameBlueprint
  <2>5. (OwnFields(draft) => OwnFields(draft')) /\ (Lent(draft) => Lent(draft'))
    BY <2>4, StillOwn
  <2> QED BY <2>1, <2>4, <2>5 DEF SplitOK
<1>4. CASE UseDefaults
  BY <1>4 DEF UseDefaults
<1> QED BY <1>1, <1>2, <1>3, <1>4

\* What the split bar computes is within the rounding of what it should be.
LEMMA NearestIs ==
  ASSUME NEW x \in Exact
  PROVE  Nearest[x] \in Nat /\ Nearest[x] >= x - Rounding /\ Nearest[x] <= x + Rounding
<1>1. Nearest[x] \in Exact /\ Nearest[x] \in x - Rounding .. x + Rounding
  BY FloatAssumption
<1>2. x \in Int /\ Rounding \in Int /\ \A y \in Exact : y \in Nat
  BY WizardAssumption, FloatAssumption DEF Exact
<1> DEFINE y == Nearest[x]
<1> HIDE DEF y
<1>3. y \in Nat /\ y \in x - Rounding .. x + Rounding
  BY <1>1, <1>2 DEF y
<1>4. y >= x - Rounding /\ y <= x + Rounding
  BY <1>2, <1>3
<1> QED BY <1>3, <1>4 DEF y

LEMMA WholePercent ==
  ASSUME NEW x \in Exact
  PROVE  /\ x <= 90 * Unit => Nearest[x] <= 90 * Unit
         /\ x >= 10 * Unit => Nearest[x] >= 10 * Unit
<1>1. \A n \in 0 .. 110 : (x <= n * Unit => Nearest[x] <= n * Unit) /\ (x >= n * Unit => Nearest[x] >= n * Unit)
  BY FloatAssumption
<1> QED BY <1>1

LEMMA ExactAre ==
  ASSUME NEW x \in Int
  PROVE  x \in Exact <=> 0 <= x /\ x <= 110 * Unit
BY WizardAssumption DEF Exact

LEMMA Errors ==
  /\ Unit \in Nat /\ Rounding \in Nat /\ Tolerance \in Nat
  /\ 4 * Rounding < Tolerance /\ Tolerance <= Unit
BY WizardAssumption, FloatAssumption

\* However the boundaries are dragged, the parts keep their least size.
LEMMA BoundariesOK ==
  ASSUME NEW d, IsDraft(d), SplitOK(d), NEW first \in Int, NEW second \in Int
  PROVE  LET e == ApplyBoundaries(d, first, second)
         IN  /\ IsDraft(e) /\ SplitOK(e) /\ SameBlueprint(d, e)
             /\ e.name = d.name /\ e.mode = d.mode /\ e.start = d.start /\ e.end = d.end
<1> DEFINE train == IF first < 0 THEN 0 ELSE IF first > 80 * Unit THEN 80 * Unit ELSE first
           least == Nearest[train + 10 * Unit]
           until == IF second > 90 * Unit THEN 90 * Unit ELSE second
           test == IF until < least THEN least ELSE until
           val == Nearest[test - train]
           rest == Nearest[100 * Unit - test]
           e == [d EXCEPT !.train = train, !.val = val, !.test = rest]
<1>1. train \in Nat /\ train <= 80 * Unit
  BY Errors
<1>2. ApplyBoundaries(d, first, second) = e
  BY DEF ApplyBoundaries
<1>3. until \in Int /\ until <= 90 * Unit
  BY Errors
<1> HIDE DEF train, until
<1>4. train + 10 * Unit \in Exact /\ train + 10 * Unit <= 90 * Unit
  BY <1>1, Errors, ExactAre
<1>5. least \in Nat /\ least >= train + 10 * Unit - Rounding /\ least <= 90 * Unit
  <2> DEFINE x == train + 10 * Unit
  <2> HIDE DEF x
  <2>1. x \in Exact /\ x <= 90 * Unit
    BY <1>4 DEF x
  <2>2. Nearest[x] \in Nat /\ Nearest[x] >= x - Rounding /\ Nearest[x] <= 90 * Unit
    BY <2>1, NearestIs, WholePercent
  <2>3. least = Nearest[x] /\ x = train + 10 * Unit
    BY DEF x
  <2> HIDE DEF least
  <2>4. least \in Nat /\ least >= x - Rounding /\ least <= 90 * Unit
    BY <2>2, <2>3, Zenon
  <2> QED BY <1>1, <2>3, <2>4, Errors
<1> HIDE DEF least
<1>6. test \in Nat /\ test >= least /\ test <= 90 * Unit
  BY <1>3, <1>5, Errors
<1> HIDE DEF test
<1>7. /\ test - train \in Exact /\ test - train >= 10 * Unit - Rounding
      /\ 100 * Unit - test \in Exact /\ 100 * Unit - test >= 10 * Unit
  BY <1>1, <1>5, <1>6, Errors, ExactAre
<1>8. /\ val \in Nat /\ val >= test - train - Rounding /\ val <= test - train + Rounding
      /\ rest \in Nat /\ rest >= 100 * Unit - test - Rounding /\ rest <= 100 * Unit - test + Rounding
      /\ rest >= 10 * Unit
  BY <1>7, NearestIs, WholePercent
<1> HIDE DEF val, rest
<1>9. /\ IsDraft(e) /\ e.train = train /\ e.val = val /\ e.test = rest /\ SameBlueprint(d, e)
      /\ e.name = d.name /\ e.mode = d.mode /\ e.start = d.start /\ e.end = d.end
  BY DEF IsDraft, DraftFields, SameBlueprint
<1> HIDE DEF e
<1>10. /\ val >= 10 * Unit - 2 * Rounding
       /\ train + val + rest >= 100 * Unit - 2 * Rounding
       /\ train + val + rest <= 100 * Unit + 2 * Rounding
  BY <1>1, <1>6, <1>7, <1>8, Errors
<1>11. SplitOK(e)
  BY <1>1, <1>8, <1>9, <1>10 DEF SplitOK
<1> QED BY <1>2, <1>9, <1>11

\* Sums of a split are numbers, and its total is as good as 100%.
LEMMA SplitSums ==
  ASSUME NEW d, SplitOK(d)
  PROVE  /\ d.train \in Int /\ Nearest[d.train + d.val] \in Int
         /\ Total(d) - 100 * Unit \in -Tolerance + 1 .. Tolerance - 1
<1> DEFINE first == d.train + d.val
           sum == Nearest[first]
           total == Nearest[sum + d.test]
<1>1. /\ d.train \in Nat /\ d.val \in Nat /\ d.test \in Nat /\ first \in Nat
      /\ d.test >= 10 * Unit
      /\ first + d.test >= 100 * Unit - 2 * Rounding /\ first + d.test <= 100 * Unit + 2 * Rounding
  BY DEF SplitOK
<1> HIDE DEF first
<1>2. first \in Exact
  BY <1>1, Errors, ExactAre
<1>3. sum \in Nat /\ sum >= first - Rounding /\ sum <= first + Rounding
  BY <1>2, NearestIs
<1> HIDE DEF sum
<1>4. sum + d.test \in Exact
  BY <1>1, <1>3, Errors, ExactAre
<1>5. total \in Nat /\ total >= sum + d.test - Rounding /\ total <= sum + d.test + Rounding
  <2> DEFINE x == sum + d.test
  <2> HIDE DEF x
  <2>1. Nearest[x] \in Nat /\ Nearest[x] >= x - Rounding /\ Nearest[x] <= x + Rounding
    BY <1>4, NearestIs DEF x
  <2>2. total = Nearest[x] /\ x = sum + d.test
    BY DEF x
  <2> HIDE DEF total
  <2>3. total \in Nat /\ total >= x - Rounding /\ total <= x + Rounding
    BY <2>1, <2>2, Zenon
  <2> QED BY <1>1, <1>3, <2>2, <2>3, Errors
<1>6. Total(d) = total
  BY DEF Total, sum, first
<1> HIDE DEF total
<1>7. total - 100 * Unit >= -4 * Rounding /\ total - 100 * Unit <= 4 * Rounding
  BY <1>1, <1>3, <1>5, Errors
<1>8. total - 100 * Unit \in -Tolerance + 1 .. Tolerance - 1
  BY <1>5, <1>7, Errors
<1>9. d.train \in Int /\ Nearest[d.train + d.val] \in Int
  BY <1>1, <1>3 DEF sum, first
<1> QED BY <1>6, <1>8, <1>9

LEMMA DragsOK == WizardInv /\ (StartDrag \/ MoveDrag \/ StopDrag) => WizardInv'
<1> SUFFICES ASSUME WizardInv, StartDrag \/ MoveDrag \/ StopDrag PROVE WizardInv'
  OBVIOUS
<1> USE DEF WizardInv
<1>1. CASE StopDrag
  BY <1>1 DEF StopDrag
<1>2. CASE StartDrag \/ MoveDrag
  <2>1. PICK kind : Drag(kind)
    BY <1>2 DEF StartDrag, MoveDrag
  <2>2. PICK p \in Percent : draft' = IF kind = "train" THEN ApplyBoundaries(draft, p, Nearest[draft.train + draft.val])
                                     ELSE ApplyBoundaries(draft, draft.train, p)
    BY <2>1 DEF Drag
  <2>3. p \in Int /\ draft.train \in Int /\ Nearest[draft.train + draft.val] \in Int
    BY WizardAssumption, SplitSums
  <2>0. step = 3
    BY <1>2, StepsAre DEF StartDrag, MoveDrag, Edits, On
  <2>4. /\ IsDraft(draft') /\ SplitOK(draft') /\ SameBlueprint(draft, draft')
        /\ draft'.name = draft.name /\ draft'.mode = draft.mode
        /\ draft'.start = draft.start /\ draft'.end = draft.end
    BY <2>2, <2>3, BoundariesOK
  <2>5. (OwnFields(draft) => OwnFields(draft')) /\ (Lent(draft) => Lent(draft'))
    BY <2>4, StillOwn
  <2> QED BY <2>0, <2>1, <2>4, <2>5 DEF Drag, SameBlueprint, DatesOK
<1> QED BY <1>1, <1>2

LEMMA SelectBlueprintOK == WizardInv /\ SelectBlueprint => WizardInv'
<1> SUFFICES ASSUME WizardInv, SelectBlueprint PROVE WizardInv'
  OBVIOUS
<1>1. PICK b \in Blueprint :
        LET d == [draft EXCEPT !.blueprint = b]
            changed == b # draft.blueprint
        IN /\ draft' = IF changed THEN HydrateBlueprint(d) ELSE d
           /\ pending' = IF changed THEN RequestDetail(d) ELSE pending
  BY DEF SelectBlueprint
<1> DEFINE d == [draft EXCEPT !.blueprint = b]
<1>2. SameChecked(draft, d) /\ d.blueprint = b /\ d.arch = draft.arch /\ d.ind = draft.ind /\ d.details = draft.details
  BY DEF WizardInv, SameChecked, IsDraft, DraftFields
<1>3. UNCHANGED step /\ b # NoBlueprint /\ pending' \subseteq pending \cup {"detail"}
  BY <1>1, WizardAssumption DEF SelectBlueprint, RequestDetail
<1>4. CASE b = draft.blueprint
  <2>1. draft' = d
    BY <1>1, <1>4
  <2> HIDE DEF d
  <2>2. SameChecked(draft, draft') /\ SameBlueprint(draft, draft')
    BY <2>1, <1>2, <1>4 DEF SameBlueprint
  <2> QED BY <2>2, <1>3, UncheckedOK
<1>5. CASE b # draft.blueprint
  <2>1. draft' = HydrateBlueprint(d)
    BY <1>1, <1>5
  <2> HIDE DEF d
  <2>2. IsDraft(d) /\ Lent(d)
    BY <1>2 DEF SameChecked, WizardInv, Lent
  <2>3. SameChecked(d, draft') /\ draft'.blueprint = b /\ OwnFields(draft') /\ Lent(draft')
    BY <2>1, <2>2, <1>2, HydrateBlueprintOK
  <2>4. SameChecked(draft, draft')
    BY <2>3, <1>2 DEF SameChecked
  <2> QED BY <2>3, <2>4, <1>3, BlueprintOK
<1> QED BY <1>4, <1>5

\* Edits of parameters, of scaling and of the run touch nothing that an earlier
\* step checked, and give the blueprint's maps no field they did not have.
LEMMA UncheckedEditsOK ==
  WizardInv /\ (PickTarget \/ EditParam \/ EditOverride \/ EditScaler \/ EditRun) => WizardInv'
<1> SUFFICES ASSUME WizardInv, PickTarget \/ EditParam \/ EditOverride \/ EditScaler \/ EditRun PROVE WizardInv'
  OBVIOUS
<1>1. UNCHANGED <<step, pending>>
  BY DEF PickTarget, EditParam, EditOverride, EditScaler, EditRun
<1>2. IsDraft(draft)
  BY DEF WizardInv
<1> SUFFICES SameChecked(draft, draft') /\ SameBlueprint(draft, draft')
  BY <1>1, UncheckedOK
<1> USE DEF SameChecked, SameBlueprint, IsDraft, DraftFields
<1>3. CASE PickTarget
  <2>1. PICK s : LET chosen == [draft EXCEPT !.strategy = s]
                 IN draft' = [chosen EXCEPT !.params = TargetDefaults(chosen), !.overrides = TargetDefaults(chosen)]
    BY <1>3 DEF PickTarget
  <2> QED BY <1>2, <2>1
<1>4. CASE EditParam
  <2>1. PICK f, text : draft' = [draft EXCEPT !.params[f] = text, !.overrides = Put(@, f, text)]
    BY <1>4 DEF EditParam
  <2> QED BY <1>2, <2>1
<1>5. CASE EditOverride
  <2>1. (\E f, text : draft' = [draft EXCEPT !.arch[f] = text])
        \/ (\E k, text : draft' = [draft EXCEPT !.ind[k] = text])
        \/ (\E f, text : draft' = [draft EXCEPT !.overrides = Put(@, f, text)])
    BY <1>5 DEF EditOverride
  <2>2. ASSUME NEW f, NEW text, draft' = [draft EXCEPT !.arch[f] = text]
        PROVE  SameChecked(draft, draft') /\ SameBlueprint(draft, draft')
    BY <1>2, <2>2
  <2>3. ASSUME NEW k, NEW text, draft' = [draft EXCEPT !.ind[k] = text]
        PROVE  SameChecked(draft, draft') /\ SameBlueprint(draft, draft')
    BY <1>2, <2>3
  <2>4. ASSUME NEW f, NEW text, draft' = [draft EXCEPT !.overrides = Put(@, f, text)]
        PROVE  SameChecked(draft, draft') /\ SameBlueprint(draft, draft')
    BY <1>2, <2>4
  <2> QED BY <2>1, <2>2, <2>3, <2>4
<1>6. CASE EditScaler
  <2>1. PICK i, output, scaler : draft' = [draft EXCEPT !.scalers = Put(@, i, Put(@[i], output, scaler))]
    BY <1>6 DEF EditScaler
  <2> QED BY <1>2, <2>1
<1>7. CASE EditRun
  <2>1. (\E n : draft' = [draft EXCEPT !.count = n, !.touched = TRUE])
        \/ draft' = [draft EXCEPT !.threshold = ~@]
    BY <1>7 DEF EditRun
  <2>2. ASSUME NEW n, draft' = [draft EXCEPT !.count = n, !.touched = TRUE]
        PROVE  SameChecked(draft, draft') /\ SameBlueprint(draft, draft')
    BY <1>2, <2>2
  <2>3. ASSUME draft' = [draft EXCEPT !.threshold = ~@]
        PROVE  SameChecked(draft, draft') /\ SameBlueprint(draft, draft')
    BY <1>2, <2>3
  <2> QED BY <2>1, <2>2, <2>3
<1> QED BY <1>3, <1>4, <1>5, <1>6, <1>7

LEMMA LateAnswersOK ==
  WizardInv /\ (MetadataArrives \/ SettingsArrive \/ DetailArrives \/ RequestFails) => WizardInv'
<1> SUFFICES ASSUME WizardInv, MetadataArrives \/ SettingsArrive \/ DetailArrives \/ RequestFails PROVE WizardInv'
  OBVIOUS
<1>1. UNCHANGED step /\ pending' \subseteq pending
  BY DEF MetadataArrives, SettingsArrive, DetailArrives, RequestFails, Answered
<1>2. IsDraft(draft)
  BY DEF WizardInv
<1>3. CASE MetadataArrives
  <2> DEFINE d == [draft EXCEPT !.arrived = @ \cup {"metadata"}]
  <2>1. SameChecked(draft, d) /\ IsDraft(d) /\ SameBlueprint(draft, d)
    BY <1>2 DEF SameChecked, SameBlueprint, IsDraft, DraftFields
  <2>2. draft' = HydrateTarget(d)
    BY <1>3 DEF MetadataArrives
  <2> HIDE DEF d
  <2>3. /\ SameChecked(d, draft') /\ draft'.blueprint = d.blueprint /\ draft'.details = d.details
        /\ draft'.arch = d.arch /\ draft'.ind = d.ind
    BY <2>1, <2>2, HydrateTargetOK
  <2>4. SameChecked(draft, draft') /\ SameBlueprint(draft, draft')
    BY <2>1, <2>3 DEF SameChecked, SameBlueprint
  <2> QED BY <2>4, <1>1, UncheckedOK
<1>4. CASE SettingsArrive
  <2>1. draft' = [draft EXCEPT !.arrived = @ \cup {"settings"}]
    BY <1>4 DEF SettingsArrive
  <2>2. SameChecked(draft, draft') /\ SameBlueprint(draft, draft')
    BY <1>2, <2>1 DEF SameChecked, SameBlueprint, IsDraft, DraftFields
  <2> QED BY <2>2, <1>1, UncheckedOK
<1>5. CASE DetailArrives
  <2> DEFINE d == [draft EXCEPT !.details = @ \cup {draft.blueprint}]
  <2>1. /\ SameChecked(draft, d) /\ IsDraft(d) /\ d.blueprint = draft.blueprint
        /\ d.arch = draft.arch /\ d.ind = draft.ind /\ draft.details \subseteq d.details
    BY <1>2 DEF SameChecked, IsDraft, DraftFields
  <2>2. draft' = HydrateBlueprint(d)
    BY <1>5 DEF DetailArrives
  <2> HIDE DEF d
  <2>6. Lent(d)
    BY <2>1 DEF WizardInv, Lent, OfOne
  <2>3. SameChecked(d, draft') /\ draft'.blueprint = d.blueprint /\ OwnFields(draft') /\ Lent(draft')
    BY <2>1, <2>2, <2>6, HydrateBlueprintOK
  <2>4. SameChecked(draft, draft')
    BY <2>1, <2>3 DEF SameChecked
  <2>5. step > 4 => draft'.blueprint # NoBlueprint
    BY <2>1, <2>3 DEF WizardInv
  <2> QED BY <2>3, <2>4, <2>5, <1>1, BlueprintOK
<1>6. CASE RequestFails
  BY <1>6, <1>1 DEF RequestFails, WizardInv
<1> QED BY <1>3, <1>4, <1>5, <1>6

\* The range of the market, asked for by the page or by "Use defaults": dates
\* that were in order stay so, or are the first and the last of the range.
LEMMA RangeOK == WizardInv /\ (RangeArrives \/ DefaultsArrive) => WizardInv'
<1> SUFFICES ASSUME WizardInv, RangeArrives \/ DefaultsArrive PROVE WizardInv'
  OBVIOUS
<1>1. UNCHANGED step /\ pending' \subseteq pending
  BY DEF RangeArrives, DefaultsArrive, Answered
<1>2. IsDraft(draft) /\ draft.start \in Nat /\ draft.end \in Nat
  BY DEF WizardInv
<1>3. /\ IsDraft(draft') /\ SameBlueprint(draft, draft') /\ draft'.name = draft.name /\ draft'.mode = draft.mode
      /\ draft'.train = draft.train /\ draft'.val = draft.val /\ draft'.test = draft.test
      /\ \/ /\ draft'.start = IF draft.start = 0 THEN DefaultStart ELSE draft.start
            /\ draft'.end = IF draft.end = 0 THEN Market.latest ELSE draft.end
         \/ draft'.start = DefaultStart /\ draft'.end = Market.latest
  <2>1. CASE RangeArrives
    <3>1. draft' = [draft EXCEPT !.arrived = @ \cup {"range"},
                                 !.start = IF @ = 0 THEN DefaultStart ELSE @,
                                 !.end = IF @ = 0 THEN Market.latest ELSE @]
      BY <2>1 DEF RangeArrives
    <3> QED BY <3>1, <1>2 DEF IsDraft, DraftFields, SameBlueprint
  <2>2. CASE DefaultsArrive
    <3>1. draft' = [draft EXCEPT !.arrived = @ \cup {"range"}, !.start = DefaultStart, !.end = Market.latest]
      BY <2>2 DEF DefaultsArrive
    <3> QED BY <3>1, <1>2 DEF IsDraft, DraftFields, SameBlueprint
  <2> QED BY <2>1, <2>2
<1>4. draft'.start \in Nat /\ draft'.end \in Nat
  BY <1>2, <1>3, MarketTimes
<1>5. MarketSpans /\ DatesOK(draft) => DatesOK(draft')
  BY <1>2, <1>3, MarketTimes DEF DatesOK
<1>6. (OwnFields(draft) => OwnFields(draft')) /\ (Lent(draft) => Lent(draft'))
  BY <1>3, StillOwn
<1> QED BY <1>1, <1>3, <1>4, <1>5, <1>6 DEF WizardInv, SplitOK, SameBlueprint

LEMMA ReuseOK == WizardInv /\ ReuseArrives => WizardInv'
<1> SUFFICES ASSUME WizardInv, ReuseArrives PROVE WizardInv'
  OBVIOUS
<1> DEFINE d == [draft EXCEPT !.name = TRUE, !.blueprint = Reuse.blueprint,
                              !.arch = Over(Reuse.arch, @), !.ind = Over(Reuse.ind, @),
                              !.overrides = Over(Reuse.target, @), !.params = Over(Reuse.target, @)]
           changed == d.blueprint # draft.blueprint
<1>1. /\ draft' = IF changed THEN HydrateBlueprint(d) ELSE d
      /\ pending' = (IF changed THEN RequestDetail(d) ELSE pending) \ {"reuse"}
      /\ UNCHANGED step /\ "reuse" \in pending
  BY DEF ReuseArrives
<1>2. IsDraft(draft) /\ Reuse # NoReuse /\ Reuse.blueprint # NoBlueprint
  BY <1>1, WizardAssumption DEF WizardInv
<1>3. /\ IsDraft(d) /\ d.blueprint = Reuse.blueprint /\ d.details = draft.details
      /\ d.start = draft.start /\ d.end = draft.end /\ d.mode = draft.mode
      /\ d.train = draft.train /\ d.val = draft.val /\ d.test = draft.test
      /\ d.arch = Over(Reuse.arch, draft.arch) /\ d.ind = Over(Reuse.ind, draft.ind)
  BY <1>2 DEF IsDraft, DraftFields
<1>n. d.name
  BY <1>2 DEF IsDraft, DraftFields
<1> HIDE DEF d
<1>4. pending' \subseteq (pending \cup {"detail"}) \ {"reuse"}
  BY <1>1 DEF RequestDetail
<1>l. Lent(d)
  <2>1. /\ DOMAIN d.arch \ Borrowed("arch") \subseteq DOMAIN draft.arch \ Borrowed("arch")
        /\ DOMAIN d.ind \ Borrowed("ind") \subseteq DOMAIN draft.ind \ Borrowed("ind")
    BY <1>2, <1>3 DEF Over, Borrowed
  <2> QED BY <1>3, <2>1 DEF WizardInv, Lent, OfOne
<1>5. /\ IsDraft(draft') /\ draft'.blueprint = d.blueprint /\ draft'.name = d.name /\ Lent(draft')
      /\ draft'.start = d.start /\ draft'.end = d.end /\ draft'.mode = d.mode
      /\ draft'.train = d.train /\ draft'.val = d.val /\ draft'.test = d.test
      /\ changed => OwnFields(draft')
      /\ ~changed => draft' = d
  BY <1>1, <1>3, <1>l, HydrateBlueprintOK DEF SameChecked
<1>6. ReuseIsOfBlueprint => OwnFields(draft')
  <2> SUFFICES ASSUME ReuseIsOfBlueprint, ~changed PROVE OwnFields(draft')
    BY <1>5
  <2>1. draft' = d /\ d.blueprint = draft.blueprint
    BY <1>5
  <2>2. Config(d) = Config(draft) /\ ArchEntries(d) = ArchEntries(draft) /\ IndEntries(d) = IndEntries(draft)
    BY <2>1, <1>3, SameConfig
  <2>3. OwnFields(draft)
    BY DEF WizardInv
  <2>4. DOMAIN d.arch = DOMAIN Reuse.arch \cup DOMAIN draft.arch
        /\ DOMAIN d.ind = DOMAIN Reuse.ind \cup DOMAIN draft.ind
    BY <1>3 DEF Over
  <2>5. d.blueprint \in d.details => /\ DOMAIN Reuse.arch \subseteq DOMAIN Config(d).arch
                                     /\ DOMAIN Reuse.ind \subseteq DOMAIN Config(d).ind
    BY <1>2, <1>3 DEF ReuseIsOfBlueprint, Config
  <2>6. d.blueprint \notin d.details => DOMAIN ArchEntries(d) = {} /\ DOMAIN IndEntries(d) = {}
    BY DEF ArchEntries, IndEntries, Config, NoMap, RestrictDomain, Restrict
  <2> QED BY <2>1, <2>2, <2>3, <2>4, <2>5, <2>6 DEF OwnFields
<1>7. draft'.name
  BY <1>n, <1>5
<1>8. DatesOK(draft) => DatesOK(draft')
  BY <1>3, <1>5 DEF DatesOK
<1>9. IsDraft(draft') /\ draft'.start \in Nat /\ draft'.end \in Nat /\ SplitOK(draft') /\ draft'.blueprint # NoBlueprint
  BY <1>2, <1>3, <1>5 DEF WizardInv, SplitOK
<1>10. draft'.val = draft.val /\ Lent(draft')
  BY <1>3, <1>5
<1> QED BY <1>1, <1>2, <1>4, <1>6, <1>7, <1>8, <1>9, <1>10 DEF WizardInv

\* What is being submitted is not the draft.
LEMMA SubmitsOK == WizardInv /\ (Submit \/ SubmitAnswered) => WizardInv'
<1> SUFFICES ASSUME WizardInv, Submit \/ SubmitAnswered PROVE WizardInv'
  OBVIOUS
<1>1. UNCHANGED <<step, draft>> /\ pending' \subseteq pending \cup {"submit"}
  BY DEF Submit, SubmitAnswered, Answered
<1> QED BY <1>1 DEF WizardInv

LEMMA WizardStepOK == WizardInv /\ [WizardNext]_wizardVars => WizardInv'
<1>1. ASSUME WizardInv, UNCHANGED wizardVars PROVE WizardInv'
  BY <1>1 DEF wizardVars, WizardInv
<1> QED BY <1>1, StepsTakenOK, BasicEditsOK, DragsOK, SelectBlueprintOK, UncheckedEditsOK, LateAnswersOK, RangeOK,
           ReuseOK, SubmitsOK DEF WizardNext

\* The inductive invariant of the wizard: a user who is past a step has what it
\* checks, whatever was edited before coming back and whatever answers came late.
THEOREM WizardInvariant == WizardSpec => []WizardInv
<1> QED BY WizardInitOK, WizardStepOK, PTL DEF WizardSpec

\* However the boundaries of the split bar are dragged, off the bar and past each
\* other, the split is one that the page and the server accept, but for the rounding
\* of a least validation share, which the page does not let through
\* (ExperimentWizard!SplitsStayLegal): for any arithmetic that rounds within the
\* tolerance and not across a whole percent.
THEOREM SplitsStayLegalAlways == WizardSpec => []SplitsStayLegal
<1>1. ASSUME WizardInv PROVE SplitsStayLegal
  <2>1. SplitOK(draft) /\ (step > 3 => draft.val >= 10 * Unit) /\ step \in 1 .. 9
    BY <1>1 DEF WizardInv
  <2>2. /\ draft.train \in Nat /\ draft.val \in Nat /\ draft.test \in Nat
        /\ draft.val >= 10 * Unit - 2 * Rounding /\ draft.test >= 10 * Unit
    BY <2>1 DEF SplitOK
  <2>3. Total(draft) - 100 * Unit \in -Tolerance + 1 .. Tolerance - 1
    BY <2>1, SplitSums
  <2>4. ~(draft.train < 0) /\ ~(draft.test < 10 * Unit)
    BY <2>2, Errors
  <2>5. SplitErrors(draft) \subseteq {"valSplit"}
    BY <2>3, <2>4 DEF SplitErrors
  <2>6. On("submit") => SplitErrors(draft) = {}
    <3>1. On("submit") => ~(draft.val < 10 * Unit)
      BY <2>1, <2>2, StepsAre, Errors DEF On
    <3> QED BY <2>3, <2>4, <3>1 DEF SplitErrors
  <2> QED BY <2>2, <2>5, <2>6 DEF SplitsStayLegal
<1> QED BY <1>1, WizardInvariant, PTL

\* What a step does to the submission: only the submit button makes one.
LEMMA OnlySubmitSubmits ==
  ASSUME WizardNext, "submit" \in pending' \ pending
  PROVE  Submit /\ RunErrors(draft) = {}
<1> USE DEF Answered
<1>1. CASE NextStep \/ Back \/ EditName \/ EditMode \/ EditDates \/ UseDefaults \/ StartDrag \/ MoveDrag \/ StopDrag
  BY <1>1 DEF NextStep, Back, EditName, EditMode, EditDates, UseDefaults, StartDrag, MoveDrag, StopDrag, Drag
<1>2. CASE SelectBlueprint
  <2>1. pending' \subseteq pending \cup {"detail"}
    BY <1>2 DEF SelectBlueprint, RequestDetail
  <2> QED BY <2>1
<1>3. CASE PickTarget \/ EditParam \/ EditOverride \/ EditScaler \/ EditRun
  BY <1>3 DEF PickTarget, EditParam, EditOverride, EditScaler, EditRun
<1>4. CASE MetadataArrives \/ SettingsArrive \/ RangeArrives \/ DefaultsArrive \/ DetailArrives \/ RequestFails
  BY <1>4 DEF MetadataArrives, SettingsArrive, RangeArrives, DefaultsArrive, DetailArrives, RequestFails
<1>5. CASE ReuseArrives
  <2>1. pending' \subseteq pending \cup {"detail"}
    BY <1>5 DEF ReuseArrives, RequestDetail
  <2> QED BY <2>1
<1>6. CASE Submit \/ SubmitAnswered
  BY <1>6 DEF Submit, SubmitAnswered
<1> QED BY <1>1, <1>2, <1>3, <1>4, <1>5, <1>6 DEF WizardNext

\* No way to the submit button goes round a check (ExperimentWizard!SubmissionIsChecked):
\* of a market with more than one candle, what is submitted has a name, dates in
\* order, a blueprint, and a count and a threshold valid when it is sent.
THEOREM SubmissionIsCheckedAlways == MarketSpans => (WizardSpec => SubmissionIsChecked)
<1> SUFFICES ASSUME MarketSpans PROVE WizardSpec => SubmissionIsChecked
  OBVIOUS
<1> DEFINE Checked == ("submit" \in pending' \ pending) =>
                        /\ draft.name
                        /\ draft.end # 0
                        /\ draft.mode = "datetime-range" => draft.start \in 1 .. draft.end - 1
                        /\ draft.blueprint # NoBlueprint
                        /\ draft.threshold
                        /\ draft.count \in 1 .. Limit(draft)
<1>1. ASSUME WizardInv, WizardNext, "submit" \in pending' \ pending
      PROVE  /\ draft.name
             /\ draft.end # 0
             /\ draft.mode = "datetime-range" => draft.start \in 1 .. draft.end - 1
             /\ draft.blueprint # NoBlueprint
             /\ draft.threshold
             /\ draft.count \in 1 .. Limit(draft)
  <2>1. Submit /\ RunErrors(draft) = {}
    BY <1>1, OnlySubmitSubmits
  <2>2. step = 9
    BY <1>1, <2>1, StepsAre DEF Submit, On, WizardInv
  <2>3. draft.name /\ draft.blueprint # NoBlueprint /\ DatesOK(draft)
    BY <1>1, <2>2 DEF WizardInv
  <2>4. draft.end # 0 /\ (draft.mode = "datetime-range" => draft.start \in 1 .. draft.end - 1)
    BY <1>1, <2>3 DEF WizardInv, DatesOK
  <2>5. draft.threshold
    BY <2>1 DEF RunErrors
  <2>6. draft.count \in 1 .. Limit(draft)
    BY <2>1 DEF RunErrors, CountError
  <2> QED BY <2>3, <2>4, <2>5, <2>6
<1>2. WizardInv /\ [WizardNext]_wizardVars => [Checked]_wizardVars
  BY <1>1
<1> QED BY <1>2, WizardInvariant, PTL DEF WizardSpec, SubmissionIsChecked

\* A blank field is not sent, and the review reads it as its default.
LEMMA CompactSays ==
  ASSUME NEW values, NEW f
  PROVE  ValueOf(Compact(values), f) = ValueOf(values, f) /\ DOMAIN Compact(values) \subseteq DOMAIN values
BY DEF ValueOf, Compact, RestrictValues, Restrict

LEMMA ShownIsSent ==
  ASSUME NEW values, NEW entries, NEW own, DOMAIN entries # {} => DOMAIN values \subseteq own, DOMAIN entries # {}
  PROVE  /\ DOMAIN Compact(values) \subseteq own
         /\ \A f \in DOMAIN Overlay(entries, values) :
              Overlay(entries, values)[f] = Or(ValueOf(Compact(values), f), entries[f])
BY CompactSays DEF Overlay

\* A loaded blueprint that shows fields is sent with its own only, as the review
\* shows them; with one that shows none, those kept from before are of one blueprint,
\* besides the borrowed (ExperimentWizard!LoadedParametersAreItsOwn), provided that
\* the model whose setup is reused has parameters of its own blueprint only.
THEOREM LoadedParametersAreItsOwnAlways == ReuseIsOfBlueprint => (WizardSpec => []LoadedParametersAreItsOwn)
<1> SUFFICES ASSUME ReuseIsOfBlueprint PROVE WizardSpec => []LoadedParametersAreItsOwn
  OBVIOUS
<1>1. ASSUME WizardInv PROVE LoadedParametersAreItsOwn
  <2>1. OwnFields(draft)
    BY <1>1 DEF WizardInv
  <2>2. /\ Review(draft)["arch"] = Overlay(ArchEntries(draft), draft.arch)
        /\ Review(draft)["ind"] = Overlay(IndEntries(draft), draft.ind)
        /\ Payload(draft)["arch"] = Compact(draft.arch)
        /\ Payload(draft)["ind"] = Compact(draft.ind)
    BY DEF Review, Payload
  <2>3. ASSUME DOMAIN ArchEntries(draft) # {}
        PROVE  /\ DOMAIN Payload(draft)["arch"] \subseteq DOMAIN Config(draft)["arch"]
               /\ \A f \in DOMAIN Review(draft)["arch"] :
                    Review(draft)["arch"][f] = Or(ValueOf(Payload(draft)["arch"], f), ArchEntries(draft)[f])
    BY <2>1, <2>2, <2>3, ShownIsSent DEF OwnFields
  <2>4. ASSUME DOMAIN IndEntries(draft) # {}
        PROVE  /\ DOMAIN Payload(draft)["ind"] \subseteq DOMAIN Config(draft)["ind"]
               /\ \A f \in DOMAIN Review(draft)["ind"] :
                    Review(draft)["ind"][f] = Or(ValueOf(Payload(draft)["ind"], f), IndEntries(draft)[f])
    <3> DEFINE own == DOMAIN Config(draft)["ind"]
               entries == IndEntries(draft)
               values == draft.ind
    <3>1. DOMAIN values \subseteq own /\ DOMAIN entries # {}
      BY <2>1, <2>4 DEF OwnFields
    <3> HIDE DEF own, entries, values
    <3>2. /\ DOMAIN Compact(values) \subseteq own
          /\ \A f \in DOMAIN Overlay(entries, values) :
               Overlay(entries, values)[f] = Or(ValueOf(Compact(values), f), entries[f])
      BY <3>1, ShownIsSent
    <3> QED BY <2>2, <3>2 DEF own, entries, values
  <2>5. /\ OfOne(DOMAIN Payload(draft)["arch"], "arch", draft.details)
        /\ OfOne(DOMAIN Payload(draft)["ind"], "ind", draft.details)
    <3>1. DOMAIN Compact(draft.arch) \subseteq DOMAIN draft.arch /\ DOMAIN Compact(draft.ind) \subseteq DOMAIN draft.ind
      BY CompactSays
    <3> QED BY <1>1, <2>2, <3>1 DEF WizardInv, Lent, OfOne
  <2> QED BY <2>3, <2>4, <2>5 DEF LoadedParametersAreItsOwn, OfOne
<1> QED BY <1>1, WizardInvariant, PTL

-----------------------------------------------------------------------------
(* The filters of the rankings. *)

FiltersSpec == FiltersInit /\ [][FiltersNext]_draftRules

Ops == {"contains", "equals", "min", "max", "between"}

\* Rules whose operator is one that the column has.
Rule ==
  {r \in [column : DOMAIN ColumnType, op : Ops, value : RuleInputs, min : RuleInputs, max : RuleInputs] :
     Contains(Operators(r.column), r.op)}

FiltersInv == draftRules \in Seq(Rule)

LEMMA OperatorsAre ==
  ASSUME NEW column \in DOMAIN ColumnType, NEW op
  PROVE  /\ ColumnType[column] \in {"text", "id", "numeric", "date"}
         /\ Contains(Operators(column), op) <=>
              CASE ColumnType[column] = "text" -> op \in {"contains", "equals"}
                [] ColumnType[column] = "id" -> op = "equals"
                [] OTHER -> op \in {"min", "max", "between", "equals"}
         /\ Operators(column) # <<>> /\ Contains(Operators(column), Head(Operators(column)))
         /\ ToSet(Operators(column)) \subseteq Ops
         /\ op \in ToSet(Operators(column)) => Contains(Operators(column), op)
<1>1. ColumnType[column] \in {"text", "id", "numeric", "date"}
  BY RankingFiltersAssumption DEF OperatorsOf
<1>2. Operators(column) = CASE ColumnType[column] = "text" -> <<"contains", "equals">>
                            [] ColumnType[column] = "id" -> <<"equals">>
                            [] OTHER -> <<"min", "max", "between", "equals">>
  BY <1>1 DEF Operators, OperatorsOf
<1>3. CASE ColumnType[column] = "text"
  <2>1. Operators(column) = <<"contains", "equals">>
    BY <1>2, <1>3
  <2> QED BY <1>3, <2>1 DEF Contains, ToSet, Ops
<1>4. CASE ColumnType[column] = "id"
  <2>1. Operators(column) = <<"equals">>
    BY <1>2, <1>4
  <2> QED BY <1>4, <2>1 DEF Contains, ToSet, Ops
<1>5. CASE ColumnType[column] \in {"numeric", "date"}
  <2>1. Operators(column) = <<"min", "max", "between", "equals">>
    BY <1>2, <1>5
  <2> QED BY <1>5, <2>1 DEF Contains, ToSet, Ops
<1> QED BY <1>1, <1>3, <1>4, <1>5

LEMMA BlankRuleOK ==
  ASSUME NEW column \in DOMAIN ColumnType, NEW op \in Ops, Contains(Operators(column), op)
  PROVE  BlankRule(column, op) \in Rule
BY DEF BlankRule, Rule, RuleInputs

\* A column has the operators of its type only, whatever the rule had before.
LEMMA WithColumnOK ==
  ASSUME NEW r \in Rule, NEW column \in DOMAIN ColumnType
  PROVE  WithColumn(r, column) \in Rule
<1>1. CASE Contains(Operators(column), r.op)
  BY <1>1, BlankRuleOK DEF WithColumn, Rule
<1>2. CASE ~Contains(Operators(column), r.op)
  <2>1. Contains(Operators(column), Head(Operators(column))) /\ Head(Operators(column)) \in Ops
    BY OperatorsAre DEF Contains, ToSet, Ops
  <2> QED BY <1>2, <2>1, BlankRuleOK DEF WithColumn
<1> QED BY <1>1, <1>2

LEMMA FiltersStepOK == FiltersInv /\ [FiltersNext]_draftRules => FiltersInv'
<1> SUFFICES ASSUME FiltersInv, [FiltersNext]_draftRules PROVE FiltersInv'
  OBVIOUS
<1>0. DOMAIN draftRules = 1 .. Len(draftRules) /\ \A i \in DOMAIN draftRules : draftRules[i] \in Rule
  BY DEF FiltersInv
\* A rule takes the place of another.
<1>a. ASSUME NEW i \in DOMAIN draftRules, NEW r \in Rule, draftRules' = [draftRules EXCEPT ![i] = r]
      PROVE  FiltersInv'
  BY <1>0, <1>a, ExceptSeq DEF FiltersInv
<1>1. CASE AddRule
  <2>1. BlankRule(FirstColumn, "between") \in Rule
    BY OperatorsAre, BlankRuleOK, RankingFiltersAssumption DEF Ops
  <2> QED BY <1>1, <2>1, AppendProperties DEF AddRule, FiltersInv
<1>2. CASE RemoveRule
  <2>1. PICK i \in DOMAIN draftRules : draftRules' = SubSeq(draftRules, 1, i-1) \o SubSeq(draftRules, i+1, Len(draftRules))
    BY <1>2 DEF RemoveRule, RemoveAt
  <2>2. SubSeq(draftRules, 1, i-1) \in Seq(Rule) /\ SubSeq(draftRules, i+1, Len(draftRules)) \in Seq(Rule)
    BY <1>0, SubSeqProperties, LenProperties DEF FiltersInv
  <2> QED BY <2>1, <2>2, ConcatProperties DEF FiltersInv
<1>3. CASE UpdateRuleColumn
  <2>1. PICK i \in DOMAIN draftRules, column \in DOMAIN ColumnType :
          draftRules' = [draftRules EXCEPT ![i] = WithColumn(@, column)]
    BY <1>3 DEF UpdateRuleColumn
  <2>2. WithColumn(draftRules[i], column) \in Rule
    BY <1>0, WithColumnOK
  <2> QED BY <2>1, <2>2, <1>a
<1>4. CASE UpdateRuleOperator
  <2>1. PICK i \in DOMAIN draftRules : \E op \in ToSet(Operators(draftRules[i].column)) :
          draftRules' = [draftRules EXCEPT ![i].op = op]
    BY <1>4 DEF UpdateRuleOperator
  <2>2. PICK op \in ToSet(Operators(draftRules[i].column)) : draftRules' = [draftRules EXCEPT ![i].op = op]
    BY <2>1
  <2> DEFINE r == [draftRules[i] EXCEPT !.op = op]
  <2>3. op \in Ops /\ Contains(Operators(draftRules[i].column), op)
    <3>1. draftRules[i].column \in DOMAIN ColumnType
      BY <1>0 DEF Rule
    <3> QED BY <3>1, OperatorsAre
  <2>4. r \in Rule
    BY <1>0, <2>3 DEF Rule
  <2> QED BY <2>2, <2>4, <1>a
<1>5. CASE TypeOperand
  <2>1. PICK i \in DOMAIN draftRules, x \in RuleInputs :
          \/ draftRules' = [draftRules EXCEPT ![i].min = x]
          \/ draftRules' = [draftRules EXCEPT ![i].max = x]
          \/ draftRules' = [draftRules EXCEPT ![i].value = x]
    BY <1>5 DEF TypeOperand
  <2>2. /\ [draftRules[i] EXCEPT !.min = x] \in Rule
        /\ [draftRules[i] EXCEPT !.max = x] \in Rule
        /\ [draftRules[i] EXCEPT !.value = x] \in Rule
    BY <1>0 DEF Rule
  <2> QED BY <2>1, <2>2, <1>a
<1>6. CASE ClearRules
  BY <1>6, EmptySeq DEF ClearRules, FiltersInv
<1> QED BY <1>1, <1>2, <1>3, <1>4, <1>5, <1>6 DEF FiltersNext, FiltersInv

\* The inductive invariant of the filters: a rule has an operator of its column.
THEOREM FiltersInvariant == FiltersSpec => []FiltersInv
<1>1. FiltersInit => FiltersInv
  BY EmptySeq DEF FiltersInit, FiltersInv
<1> QED BY <1>1, FiltersStepOK, PTL DEF FiltersSpec

\* Those of the comparisons shown that the server makes.
Made(r, shown) == {c \in shown : ValueRead(r, c.with) = c.with /\ c.test # OtherBound(r)}

LEMMA ComparisonMade ==
  ASSUME NEW r, NEW test, NEW x, test # OtherBound(r)
  PROVE  Compare(test, ValueRead(r, x)) = Made(r, Compare(test, x))
<1>1. ValueRead(r, x) = x \/ ValueRead(r, x) = NoOperand
  BY DEF ValueRead
<1> DEFINE c == [test |-> test, with |-> x]
<1>2. c.test = test /\ c.with = x
  OBVIOUS
<1>3. CASE Given(x)
  <2>1. Compare(test, x) = {c}
    BY <1>3 DEF Compare
  <2>2. CASE ValueRead(r, x) = x
    <3>1. Compare(test, ValueRead(r, x)) = {c}
      BY <2>1, <2>2
    <3> HIDE DEF c
    <3> QED BY <1>2, <2>1, <2>2, <3>1 DEF Made
  <2>3. CASE ValueRead(r, x) # x
    <3>1. Compare(test, ValueRead(r, x)) = {}
      BY <1>1, <2>3 DEF Compare, Given
    <3> HIDE DEF c
    <3> QED BY <1>2, <2>1, <2>3, <3>1 DEF Made
  <2> QED BY <2>2, <2>3
<1>4. CASE ~Given(x)
  BY <1>1, <1>4 DEF Compare, Given, Made
<1> QED BY <1>3, <1>4

\* The input of the other bound is for nothing.
LEMMA OtherIsNot ==
  ASSUME NEW r, NEW x
  PROVE  Made(r, Compare(OtherBound(r), x)) = {}
BY DEF Made, Compare

LEMMA MadeOfBoth ==
  ASSUME NEW r, NEW A, NEW B
  PROVE  Made(r, A \cup B) = Made(r, A) \cup Made(r, B)
BY DEF Made

\* The server reads a rule as its inputs show it, but for an operand that an
\* "equals" left behind.
LEMMA ReadAsShown ==
  ASSUME NEW r \in Rule, ~(r.op \in {"min", "max"} /\ Given(r.value))
  PROVE  Conditions(r) = Made(r, AsShown(r))
<1>1. /\ r.column \in DOMAIN ColumnType /\ Contains(Operators(r.column), r.op)
  BY DEF Rule
<1>2. CASE ColumnType[r.column] = "text"
  <2>1. r.op \in {"contains", "equals"}
    BY <1>1, <1>2, OperatorsAre
  <2>2. OtherBound(r) = "none" /\ "is" # OtherBound(r) /\ "has" # OtherBound(r)
    BY <2>1 DEF OtherBound
  <2>3. CASE r.op = "equals"
    BY <1>2, <2>2, <2>3, ComparisonMade DEF Conditions, AsShown, IsRange
  <2>4. CASE r.op = "contains"
    BY <1>2, <2>2, <2>4, ComparisonMade DEF Conditions, AsShown, IsRange
  <2> QED BY <2>1, <2>3, <2>4
<1>3. CASE ColumnType[r.column] # "text"
  <2> DEFINE least == Compare("at least", r.min)
             most == Compare("at most", r.max)
  <2>1. r.op \in {"min", "max", "between", "equals"}
    BY <1>1, <1>3, OperatorsAre
  <2>2. AsShown(r) = least \cup most \/ ~IsRange(r)
    BY DEF AsShown
  <2>7. Made(r, least \cup most) = Made(r, least) \cup Made(r, most)
    <3> HIDE DEF least, most
    <3> QED BY MadeOfBoth
  <2>3. CASE r.op = "between"
    <3>1. "at least" # OtherBound(r) /\ "at most" # OtherBound(r) /\ IsRange(r)
      BY <2>3 DEF OtherBound, IsRange
    <3>2. Conditions(r) = Compare("at least", ValueRead(r, r.min)) \cup Compare("at most", ValueRead(r, r.max))
      BY <1>3, <2>3 DEF Conditions
    <3>3. Conditions(r) = Made(r, least) \cup Made(r, most)
      BY <3>1, <3>2, ComparisonMade
    <3> HIDE DEF least, most
    <3>4. Made(r, AsShown(r)) = Made(r, least) \cup Made(r, most)
      BY <2>2, <2>7, <3>1, Zenon
    <3> QED BY <3>3, <3>4
  <2>4. CASE r.op = "equals"
    <3>1. "is" # OtherBound(r)
      BY <2>4 DEF OtherBound
    <3> QED BY <1>3, <2>4, <3>1, ComparisonMade DEF Conditions, AsShown, IsRange
  <2>5. CASE r.op = "max"
    <3>1. OtherBound(r) = "at least" /\ "at most" # OtherBound(r) /\ IsRange(r)
      BY <2>5 DEF OtherBound, IsRange
    <3>2. Conditions(r) = Compare("at most", ValueRead(r, r.max))
      BY <1>3, <2>5 DEF Conditions, Either
    <3>3. Conditions(r) = Made(r, most) /\ Made(r, least) = {}
      <4>1. Compare("at most", ValueRead(r, r.max)) = Made(r, most)
        BY <3>1, ComparisonMade
      <4>2. Made(r, least) = {}
        BY <3>1, OtherIsNot
      <4> QED BY <3>2, <4>1, <4>2
    <3> HIDE DEF least, most
    <3>4. Made(r, AsShown(r)) = Made(r, least) \cup Made(r, most)
      BY <2>2, <2>7, <3>1, Zenon
    <3> QED BY <3>3, <3>4
  <2>6. CASE r.op = "min"
    <3>1. OtherBound(r) = "at most" /\ "at least" # OtherBound(r) /\ IsRange(r)
      BY <2>6 DEF OtherBound, IsRange
    <3>2. Conditions(r) = Compare("at least", ValueRead(r, r.min))
      BY <1>3, <2>6 DEF Conditions, Either
    <3>3. Conditions(r) = Made(r, least) /\ Made(r, most) = {}
      <4>1. Compare("at least", ValueRead(r, r.min)) = Made(r, least)
        BY <3>1, ComparisonMade
      <4>2. Made(r, most) = {}
        BY <3>1, OtherIsNot
      <4> QED BY <3>2, <4>1, <4>2
    <3> HIDE DEF least, most
    <3>4. Made(r, AsShown(r)) = Made(r, least) \cup Made(r, most)
      BY <2>2, <2>7, <3>1, Zenon
    <3> QED BY <3>3, <3>4
  <2> QED BY <2>1, <2>3, <2>4, <2>5, <2>6
<1> QED BY <1>2, <1>3

\* However a rule came to be, the server filters by what its inputs show, as far as
\* it can read them and looks at them (RankingFilters!FiltersAreAsShown).
THEOREM FiltersAreAsShownAlways == FiltersSpec => []FiltersAreAsShown
<1>1. FiltersInv => FiltersAreAsShown
  BY ReadAsShown DEF FiltersInv, FiltersAreAsShown, Made
<1> QED BY <1>1, FiltersInvariant, PTL

-----------------------------------------------------------------------------
(* The blueprint wizard. *)

BlueprintSpec == BlueprintInit /\ [][BlueprintNext]_blueprintVars

\* Each field has a value that one of the catalogues permits.
FieldsOK(kind, name, values) ==
  \A f \in DOMAIN values :
    /\ values[f] # {}
    /\ Allows(Fallback[kind], name, f, values[f]) \/ Allows(Published[kind], name, f, values[f])

ArchitectureOK == config.arch # NoArchitecture /\ FieldsOK("arch", config.arch, config.params)

IndicatorsOK == \A i \in DOMAIN config.ind : FieldsOK("ind", i, config.ind[i])

ConfigFields == {"name", "arch", "params", "ind", "scalers"}

BlueprintInv ==
  /\ blueprintStep \in 1 .. 4 /\ catalogue \in Catalogues
  /\ config = [x \in ConfigFields |-> config[x]] /\ "submitting" \in DOMAIN creating
  /\ blueprintStep > 1 => config.name
  /\ blueprintStep > 2 => ArchitectureOK
  /\ blueprintStep > 3 => IndicatorsOK

\* What the check of a field lets through.
LEMMA FaultsFound ==
  ASSUME NEW items, NEW name, NEW values, Faults(items, name, values) = {}
  PROVE  \A f \in DOMAIN values : values[f] # {} /\ Allows(items, name, f, values[f])
BY DEF Faults

LEMMA FaultsNone ==
  ASSUME catalogue \in Catalogues, NEW kind \in {"arch", "ind"}, NEW name, NEW values,
         Faults(catalogue[kind], name, values) = {}
  PROVE  FieldsOK(kind, name, values)
<1>1. \A f \in DOMAIN values : values[f] # {} /\ Allows(catalogue[kind], name, f, values[f])
  BY FaultsFound
<1>2. catalogue = Fallback \/ catalogue = Published
  BY DEF Catalogues
<1> QED BY <1>1, <1>2 DEF FieldsOK

\* A step is left forwards when its check finds nothing.
LEMMA ForwardOK == BlueprintInv /\ BlueprintStepNext => BlueprintInv'
<1> SUFFICES ASSUME BlueprintInv, BlueprintStepNext PROVE BlueprintInv'
  OBVIOUS
<1>1. UNCHANGED <<config, catalogue, creating>> /\ (ArchitectureOK' <=> ArchitectureOK) /\ (IndicatorsOK' <=> IndicatorsOK)
  BY DEF BlueprintStepNext, ArchitectureOK, IndicatorsOK
<1>2. /\ blueprintStep \in 1 .. 3 /\ blueprintStep' \in {blueprintStep, blueprintStep + 1}
      /\ blueprintStep' # blueprintStep => StepFaults(blueprintStep) = {}
  BY DEF BlueprintStepNext, BlueprintInv
<1>3. blueprintStep = 1 /\ StepFaults(blueprintStep) = {} => config.name
  <2>1. StepFaults(1) = IF config.name THEN {} ELSE {<<"metadata", "name">>}
    BY DEF StepFaults
  <2> QED BY <2>1
<1>4. blueprintStep = 2 /\ StepFaults(blueprintStep) = {} => ArchitectureOK
  <2> SUFFICES ASSUME blueprintStep = 2, StepFaults(2) = {} PROVE ArchitectureOK
    OBVIOUS
  <2>1. config.arch # NoArchitecture /\ Faults(catalogue["arch"], config.arch, config.params) = {}
    <3> DEFINE none == IF config.arch = NoArchitecture THEN {<<"architecture", "reference">>} ELSE {}
               found == Faults(catalogue.arch, config.arch, config.params)
    <3>1. StepFaults(2) = none \cup found
      BY DEF StepFaults
    <3> HIDE DEF found
    <3>2. none = {} /\ found = {}
      BY <3>1
    <3> QED BY <3>2 DEF found
  <2> QED BY <2>1, FaultsNone DEF BlueprintInv, ArchitectureOK
<1>5. blueprintStep = 3 /\ StepFaults(blueprintStep) = {} => IndicatorsOK
  <2> SUFFICES ASSUME blueprintStep = 3, StepFaults(3) = {}, NEW i \in DOMAIN config.ind
               PROVE  FieldsOK("ind", i, config.ind[i])
    BY DEF IndicatorsOK
  <2>1. UNION {Faults(catalogue.ind, j, config.ind[j]) : j \in DOMAIN config.ind} = {}
    BY DEF StepFaults
  <2>2. Faults(catalogue["ind"], i, config.ind[i]) = {}
    BY <2>1
  <2> QED BY <2>2, FaultsNone DEF BlueprintInv
<1> QED BY <1>1, <1>2, <1>3, <1>4, <1>5 DEF BlueprintInv

\* Fields are edited on the step that checks them, and on none after it.
LEMMA EditsOK ==
  ASSUME BlueprintInv,
         \/ NameBlueprint \/ SelectReferenceModel \/ UpdateModelParam
         \/ ToggleIndicator \/ UpdateIndicatorParam \/ UpdateIndicatorOutputScaler
  PROVE  BlueprintInv'
<1> USE DEF ConfigFields
<1>1. CASE NameBlueprint
  <2>1. blueprintStep = 1 /\ UNCHANGED <<blueprintStep, catalogue, creating>> /\ config' = [config EXCEPT !.name = ~@]
    BY <1>1 DEF NameBlueprint
  <2> QED BY <2>1 DEF BlueprintInv
<1>2. CASE SelectReferenceModel \/ UpdateModelParam
  <2>1. blueprintStep = 2 /\ UNCHANGED <<blueprintStep, catalogue, creating>>
    BY <1>2 DEF SelectReferenceModel, UpdateModelParam
  <2>2. (\E a, p : config' = [config EXCEPT !.arch = a, !.params = p])
        \/ (\E f, text : config' = [config EXCEPT !.params[f] = text])
    BY <1>2 DEF SelectReferenceModel, UpdateModelParam, Selected
  <2>3. config' = [x \in ConfigFields |-> config'[x]] /\ config'.name = config.name
    BY <2>2 DEF BlueprintInv
  <2> QED BY <2>1, <2>3 DEF BlueprintInv
<1>3. CASE ToggleIndicator \/ UpdateIndicatorParam \/ UpdateIndicatorOutputScaler
  <2>1. blueprintStep = 3 /\ UNCHANGED <<blueprintStep, catalogue, creating>>
    BY <1>3 DEF ToggleIndicator, UpdateIndicatorParam, UpdateIndicatorOutputScaler
  <2>2. (\E m, n : config' = [config EXCEPT !.ind = m, !.scalers = n])
        \/ (\E i, m : config' = [config EXCEPT !.ind[i] = m])
        \/ (\E n : config' = [config EXCEPT !.scalers = n])
    <3>1. CASE ToggleIndicator
      <4>1. PICK i : config' = Toggled(i)
        BY <3>1 DEF ToggleIndicator
      <4> QED BY <4>1 DEF Toggled
    <3>2. CASE UpdateIndicatorParam
      BY <3>2 DEF UpdateIndicatorParam
    <3>3. CASE UpdateIndicatorOutputScaler
      BY <3>3 DEF UpdateIndicatorOutputScaler
    <3> QED BY <1>3, <3>1, <3>2, <3>3
  <2>3. /\ config' = [x \in ConfigFields |-> config'[x]] /\ config'.name = config.name
        /\ config'.arch = config.arch /\ config'.params = config.params
    BY <2>2 DEF BlueprintInv
  <2> QED BY <2>1, <2>3 DEF BlueprintInv, ArchitectureOK
<1> QED BY <1>1, <1>2, <1>3

LEMMA BlueprintStepOK == BlueprintInv /\ [BlueprintNext]_blueprintVars => BlueprintInv'
<1> SUFFICES ASSUME BlueprintInv, [BlueprintNext]_blueprintVars PROVE BlueprintInv'
  OBVIOUS
<1>1. CASE BlueprintStepBack
  BY <1>1 DEF BlueprintStepBack, BlueprintInv, ArchitectureOK, IndicatorsOK
<1>2. CASE CatalogueArrives \/ Create \/ CreateAnswered \/ UNCHANGED blueprintVars
  <2>1. UNCHANGED <<blueprintStep, config>> /\ catalogue' \in Catalogues /\ DOMAIN creating' = DOMAIN creating
    BY <1>2 DEF CatalogueArrives, Create, CreateAnswered, blueprintVars, BlueprintInv
  <2> QED BY <2>1 DEF BlueprintInv, ArchitectureOK, IndicatorsOK
<1> QED BY <1>1, <1>2, ForwardOK, EditsOK DEF BlueprintNext

\* The inductive invariant of the blueprint wizard: on a step, what the steps before
\* it check is as one of the catalogues has it, also when the other has come since.
THEOREM BlueprintInvariant == BlueprintSpec => []BlueprintInv
<1>1. BlueprintInit => BlueprintInv
  BY DEF BlueprintInit, BlueprintInv, Catalogues, ConfigFields
<1> QED BY <1>1, BlueprintStepOK, PTL DEF BlueprintSpec

\* What is submitted has a name, an architecture, and in each field a value that one
\* of the catalogues permits (BlueprintWizard!CreatedWasChecked).
THEOREM CreatedWasCheckedAlways == BlueprintSpec => CreatedWasChecked
<1>1. ASSUME BlueprintInv, BlueprintNext, creating'.submitting /\ ~creating.submitting
      PROVE  config.name /\ ArchitectureOK /\ IndicatorsOK
  <2>1. ~CreateAnswered
    BY <1>1 DEF CreateAnswered
  <2>2. ~CatalogueArrives
    BY <1>1 DEF CatalogueArrives, BlueprintInv
  <2>3. Create
    BY <1>1, <2>1, <2>2 DEF BlueprintNext, BlueprintStepNext, BlueprintStepBack, NameBlueprint, SelectReferenceModel,
       UpdateModelParam, ToggleIndicator, UpdateIndicatorParam, UpdateIndicatorOutputScaler
  <2> QED BY <1>1, <2>3 DEF Create, BlueprintInv
<1> DEFINE Checked == creating'.submitting /\ ~creating.submitting =>
              LET ok(kind, name, values) ==
                    \A f \in DOMAIN values :
                      /\ values[f] # {}
                      /\ \/ Allows(Fallback[kind], name, f, values[f])
                         \/ Allows(Published[kind], name, f, values[f])
              IN /\ config.name
                 /\ config.arch # NoArchitecture
                 /\ ok("arch", config.arch, config.params)
                 /\ \A i \in DOMAIN config.ind : ok("ind", i, config.ind[i])
<1>2. ASSUME config.name, ArchitectureOK, IndicatorsOK PROVE Checked
  BY <1>2 DEF ArchitectureOK, IndicatorsOK, FieldsOK
<1>3. BlueprintInv /\ [BlueprintNext]_blueprintVars => [Checked]_blueprintVars
  <2> HIDE DEF Checked
  <2>1. ~(creating'.submitting /\ ~creating.submitting) => Checked
    BY DEF Checked
  <2> QED BY <1>1, <1>2, <2>1
<1> QED BY <1>3, BlueprintInvariant, PTL DEF BlueprintSpec, CreatedWasChecked
-----------------------------------------------------------------------------
(* The settings. *)

SysSpec == SysInit /\ [][SysNext]_sysVars

\* Settings change only to what the inputs showed together at one click on Save
\* (SystemPage!SavesAreWhole).
THEOREM SavesAreWholeAlways == SysSpec => SavesAreWhole
<1>1. ASSUME SysNext, stored' # stored PROVE \E c \in sysCalls : c.kind = "save" /\ c.sent = stored'
  <2>1. ServeSave
    BY <1>1 DEF SysNext, TypeSetting, SaveSettings, RefreshTick, PollCatchUp, RunCatchUp, ClearData, ServeSnapshot,
       ServeCatchUp, ThreadEnds, RecordEvent, SnapshotAnswered, SaveAnswered, CatchUpAnswered, SysCallFails
  <2>2. PICK c \in sysCalls : c.kind = "save" /\ (stored' = Updated(c.sent) \/ UNCHANGED stored)
    BY <2>1 DEF ServeSave
  <2> QED BY <1>1, <2>2 DEF Updated
<1>2. [SysNext]_sysVars => [stored' # stored => \E c \in sysCalls : c.kind = "save" /\ c.sent = stored']_sysVars
  BY <1>1
<1> QED BY <1>2, PTL DEF SysSpec, SavesAreWhole

\* What the server has of the settings is in range whatever is sent to it.
SettingsLegal == \A k \in Setting : stored[k] \in Legal(k)

\* No click, no order of answers and no failure leaves a setting out of its range.
THEOREM SettingsStayLegal == SysSpec => []SettingsLegal
<1>1. SysInit => SettingsLegal
  BY DEF SysInit, SettingsLegal
<1>2. SettingsLegal /\ [SysNext]_sysVars => SettingsLegal'
  <2> SUFFICES ASSUME SettingsLegal, [SysNext]_sysVars, stored' # stored PROVE SettingsLegal'
    BY DEF SettingsLegal, Legal
  <2>1. ServeSave
    BY DEF SysNext, TypeSetting, SaveSettings, RefreshTick, PollCatchUp, RunCatchUp, ClearData, ServeSnapshot,
       ServeCatchUp, ThreadEnds, RecordEvent, SnapshotAnswered, SaveAnswered, CatchUpAnswered, SysCallFails, sysVars
  <2>2. PICK c \in sysCalls : c.kind = "save" /\ (stored' = Updated(c.sent) \/ UNCHANGED stored)
    BY <2>1 DEF ServeSave
  <2> QED BY <2>2 DEF Updated, SettingsLegal, Legal
<1> QED BY <1>1, <1>2, PTL DEF SysSpec
-----------------------------------------------------------------------------
(* The step that picks a blueprint, and its dialog. *)

PickerSpec == PickerInit /\ [][PickerNext]_pickerVars

IsRequest(r) == r = [kind |-> r.kind, of |-> r.of, live |-> r.live]

\* A request that is not forgotten is for what is shown now.
PickRequestOK(r) ==
  /\ IsRequest(r)
  /\ r.live /\ r.kind = "list" => r.of = query
  /\ r.live /\ r.kind = "preview" => r.of = preview.id
  /\ r.kind = "model" => r.of = Reused /\ r.live = TRUE

IsList == list = [options |-> list.options, total |-> list.total, loading |-> list.loading]

IsPreview == preview = [id |-> preview.id, blueprint |-> preview.blueprint, loading |-> preview.loading]

NoModelRequest == \A r \in asked : r.kind # "model"

ChoiceOK ==
  choice.option # NoOption =>
    choice.option = choice.blueprint \/ (choice.blueprint = Reused /\ NoModelRequest)

PickerInv ==
  /\ IsList /\ IsPreview
  /\ \A r \in asked : PickRequestOK(r)
  /\ list.loading = FALSE => list.options = Page(query)
  /\ preview.loading = FALSE /\ preview.blueprint # NoOption => preview.blueprint = preview.id
  /\ ChoiceOK

\* A request of a kind that is asked for anew is forgotten, the others stay.
LEMMA ForgottenAre ==
  ASSUME \A r \in asked : IsRequest(r), NEW kind, NEW r \in Forgotten(kind)
  PROVE  IsRequest(r) /\ (r.kind = kind => r.live = FALSE) /\ (r.kind # kind => r \in asked)
BY DEF Forgotten, IsRequest

LEMMA PickerInitOK == PickerInit => PickerInv
BY DEF PickerInit, PickerInv, IsList, IsPreview, PickRequestOK, IsRequest, ChoiceOK

LEMMA RequeryOK == ASSUME PickerInv, NEW q, Requery(q) PROVE PickerInv'
<1>1. /\ query' = q /\ list' = [list EXCEPT !.loading = TRUE] /\ UNCHANGED <<preview, choice>>
      /\ asked' = Forgotten("list") \cup {[kind |-> "list", of |-> q, live |-> TRUE]}
  BY DEF Requery, Ask
<1>2. IsList' /\ IsPreview' /\ list'.loading = TRUE
  BY <1>1 DEF PickerInv, IsList, IsPreview
<1>3. \A r \in Forgotten("list") :
        IsRequest(r) /\ (r.kind = "list" => r.live = FALSE) /\ (r.kind # "list" => r \in asked)
  BY ForgottenAre DEF PickerInv, PickRequestOK
<1>4. ASSUME NEW r \in asked' PROVE PickRequestOK(r)' /\ (r.kind = "model" => r \in asked)
  BY <1>1, <1>3 DEF PickerInv, PickRequestOK, IsRequest
<1>5. ChoiceOK'
  BY <1>1, <1>4 DEF PickerInv, ChoiceOK, NoModelRequest
<1> QED BY <1>1, <1>2, <1>4, <1>5 DEF PickerInv

LEMMA PickDialogOK == PickerInv /\ (OpenPreview \/ ClosePreview) => PickerInv'
<1> SUFFICES ASSUME PickerInv, OpenPreview \/ ClosePreview PROVE PickerInv'
  OBVIOUS
<1>1. UNCHANGED <<query, list, choice>>
  BY DEF OpenPreview, ClosePreview
<1>2. /\ IsPreview'
      /\ preview'.loading = FALSE /\ preview'.blueprint # NoOption => preview'.blueprint = preview'.id
      /\ \/ asked' = Forgotten("preview") \cup {[kind |-> "preview", of |-> preview'.id, live |-> TRUE]}
         \/ asked' = Forgotten("preview")
  <2>1. CASE OpenPreview
    <3>1. PICK b : preview' = [preview EXCEPT !.id = b, !.loading = TRUE] /\ Ask("preview", b)
      BY <2>1 DEF OpenPreview
    <3> QED BY <3>1 DEF PickerInv, IsPreview, Ask
  <2>2. CASE ClosePreview
    BY <2>2 DEF ClosePreview, PickerInv, IsPreview
  <2> QED BY <2>1, <2>2
<1>3. \A r \in Forgotten("preview") :
        IsRequest(r) /\ (r.kind = "preview" => r.live = FALSE) /\ (r.kind # "preview" => r \in asked)
  BY ForgottenAre DEF PickerInv, PickRequestOK
<1>4. ASSUME NEW r \in asked' PROVE PickRequestOK(r)' /\ (r.kind = "model" => r \in asked)
  BY <1>1, <1>2, <1>3 DEF PickerInv, PickRequestOK, IsRequest
<1>5. ChoiceOK'
  BY <1>1, <1>4 DEF PickerInv, ChoiceOK, NoModelRequest
<1> QED BY <1>1, <1>2, <1>4, <1>5 DEF PickerInv, IsList, Page

LEMMA PickerAnswersOK == PickerInv /\ Answer => PickerInv'
<1> SUFFICES ASSUME PickerInv, NEW r \in asked,
                    \/ r.kind = "list" /\ (ListArrives(r) \/ ListFails(r))
                    \/ r.kind = "preview" /\ PreviewArrives(r)
                    \/ r.kind = "model" /\ ModelArrives(r)
             PROVE  PickerInv'
  BY DEF Answer
<1>1. asked' = asked \ {r} /\ UNCHANGED query /\ PickRequestOK(r)
  BY DEF ListArrives, ListFails, PreviewArrives, ModelArrives, PickerInv
<1>2. CASE r.kind = "list"
  <2>1. UNCHANGED <<preview, choice>>
    BY <1>2 DEF ListArrives, ListFails
  <2>2. list' = list \/ (r.live /\ list' = [options |-> Page(r.of), total |-> Len(Listing[r.of.terms]), loading |-> FALSE])
    BY <1>2 DEF ListArrives, ListFails
  <2>3. IsList' /\ (list'.loading = FALSE => list'.options = Page(query))
    BY <1>1, <1>2, <2>2 DEF PickerInv, IsList, PickRequestOK
  <2> QED BY <1>1, <2>1, <2>3 DEF PickerInv, IsPreview, PickRequestOK, ChoiceOK, NoModelRequest, Page
<1>3. CASE r.kind = "preview"
  <2>1. UNCHANGED <<list, choice>>
    BY <1>3 DEF PreviewArrives
  <2>2. preview' = preview
        \/ (r.live /\ \E b \in {r.of, NoOption} : preview' = [preview EXCEPT !.blueprint = b, !.loading = FALSE])
    BY <1>3 DEF PreviewArrives
  <2>3. /\ IsPreview' /\ preview'.id = preview.id
        /\ preview'.loading = FALSE /\ preview'.blueprint # NoOption => preview'.blueprint = preview'.id
    BY <1>1, <1>3, <2>2 DEF PickerInv, IsPreview, PickRequestOK
  <2> QED BY <1>1, <2>1, <2>3 DEF PickerInv, IsList, PickRequestOK, ChoiceOK, NoModelRequest, Page
<1>4. CASE r.kind = "model"
  <2>1. /\ choice' = [blueprint |-> r.of, option |-> IF choice.option = NoOption THEN r.of ELSE choice.option]
        /\ UNCHANGED <<list, preview>>
    BY <1>4 DEF ModelArrives
  <2>2. NoModelRequest'
    BY <1>1, <1>4 DEF PickerInv, PickRequestOK, IsRequest, NoModelRequest
  <2>3. ChoiceOK'
    BY <1>1, <1>4, <2>1, <2>2 DEF ChoiceOK, PickRequestOK
  <2> QED BY <1>1, <2>1, <2>3 DEF PickerInv, IsList, IsPreview, PickRequestOK, Page
<1> QED BY <1>2, <1>3, <1>4

LEMMA PickerStepOK == PickerInv /\ [PickerNext]_pickerVars => PickerInv'
<1> SUFFICES ASSUME PickerInv, [PickerNext]_pickerVars PROVE PickerInv'
  OBVIOUS
<1>1. CASE EditTerms \/ PreviousPage \/ NextPage
  BY <1>1, RequeryOK DEF EditTerms, PreviousPage, NextPage
<1>2. CASE Choose
  <2>1. UNCHANGED <<query, list, preview, asked>> /\ choice'.option = choice'.blueprint
    BY <1>2 DEF Choose
  <2> QED BY <2>1 DEF PickerInv, IsList, IsPreview, PickRequestOK, ChoiceOK, Page
<1>3. CASE UNCHANGED pickerVars
  BY <1>3 DEF pickerVars, PickerInv, IsList, IsPreview, PickRequestOK, ChoiceOK, NoModelRequest, Page
<1> QED BY <1>1, <1>2, <1>3, PickDialogOK, PickerAnswersOK DEF PickerNext

\* The inductive invariant of the picker: only requests for what is asked for now
\* are not forgotten, so that an answer that is taken is of the search shown.
THEOREM PickerInvariant == PickerSpec => []PickerInv
BY PickerInitOK, PickerStepOK, PTL DEF PickerSpec

\* Whatever answers of earlier searches come late, the list, the dialog and the
\* name of the choice are of what was asked for last
\* (BlueprintPicker!PickerShowsWhatWasAsked).
THEOREM PickerShowsWhatWasAskedAlways == PickerSpec => []PickerShowsWhatWasAsked
<1>1. ASSUME PickerInv PROVE PickerShowsWhatWasAsked
  <2>1. Shown \subseteq Page(query)
    BY <1>1 DEF PickerInv, Shown
  <2>2. Dialog = "details" => preview.blueprint = preview.id
    BY <1>1 DEF PickerInv, Dialog
  <2>3. choice.option # NoOption =>
          \/ Named = choice.blueprint
          \/ choice.blueprint = Reused /\ {r \in asked : r.kind = "model"} = {}
    BY <1>1 DEF PickerInv, ChoiceOK, NoModelRequest, Named
  <2> QED BY <2>1, <2>2, <2>3 DEF PickerShowsWhatWasAsked
<1> QED BY <1>1, PickerInvariant, PTL

-----------------------------------------------------------------------------
(* The target dialog. *)

PreviewSpec == PreviewInit /\ [][PreviewNext]_previewVars

FormTexts == {"none", "valid", "zero", "invalid", "blank"}

Modes == {"true_label", "mock_prediction"}

IsTarget ==
  /\ target = [strategy |-> target.strategy, open |-> target.open, asked |-> target.asked]
  /\ target.strategy \in Target /\ target.asked \in Nat

IsForm ==
  /\ form = [typed |-> form.typed, flagged |-> form.flagged, mode |-> form.mode]
  /\ form.typed \in FormTexts /\ form.mode \in Modes

\* An open dialog that waits for nothing has a preview or an error.
PreviewInv ==
  /\ IsTarget /\ IsForm
  /\ previews \subseteq PreviewRequest
  /\ result = [preview |-> result.preview, failed |-> result.failed, loading |-> result.loading]
  /\ target.open /\ previews = {} => /\ result.loading = FALSE
                                     /\ result.failed = TRUE \/ result.preview # NoPreview

LEMMA LoadPreviewOK ==
  ASSUME PreviewInv, NEW typed \in {"default", "valid", "zero"}, LoadPreview(target.strategy, typed, form.mode)
  PROVE  /\ previews' \subseteq PreviewRequest /\ previews' # {}
         /\ result' = [preview |-> result'.preview, failed |-> result'.failed, loading |-> result'.loading]
<1>1. PreviewPayload(target.strategy, typed, form.mode) \in PreviewRequest
  BY DEF PreviewInv, IsTarget, IsForm, PreviewPayload, PreviewRequest, Modes
<1> QED BY <1>1 DEF LoadPreview, PreviewInv

LEMMA TargetFields ==
  ASSUME IsTarget, NEW open,
         \/ target' = [target EXCEPT !.open = open, !.asked = @ + 1]
         \/ target' = [target EXCEPT !.asked = @ + 1]
  PROVE  IsTarget'
<1>1. CASE target' = [target EXCEPT !.open = open, !.asked = @ + 1]
  <2>1. target' = [strategy |-> target.strategy, open |-> open, asked |-> target.asked + 1]
    BY <1>1 DEF IsTarget
  <2> QED BY <2>1 DEF IsTarget
<1>2. CASE target' = [target EXCEPT !.asked = @ + 1]
  BY <1>2 DEF IsTarget
<1> QED BY <1>1, <1>2

LEMMA FormFields ==
  ASSUME IsForm, NEW flag,
         \/ form' = [form EXCEPT !.typed = "none", !.flagged = flag]
         \/ form' = [form EXCEPT !.flagged = flag]
  PROVE  IsForm'
BY DEF IsForm, FormTexts

LEMMA PreviewStepOK == PreviewInv /\ [PreviewNext]_previewVars => PreviewInv'
<1> SUFFICES ASSUME PreviewInv, [PreviewNext]_previewVars PROVE PreviewInv'
  OBVIOUS
<1>1. CASE ChooseTarget
  BY <1>1 DEF ChooseTarget, PreviewInv, IsTarget, IsForm
<1>2. CASE OpenInfo
  <2>1. /\ LoadPreview(target.strategy, "default", form.mode)
        /\ target' = [target EXCEPT !.open = TRUE, !.asked = @ + 1]
        /\ form' = [form EXCEPT !.typed = "none", !.flagged = FALSE]
    BY <1>2 DEF OpenInfo, DefaultParam
  <2>2. IsTarget'
    BY <2>1, TargetFields DEF PreviewInv
  <2>3. IsForm'
    BY <2>1, FormFields DEF PreviewInv
  <2> QED BY <2>1, <2>2, <2>3, LoadPreviewOK DEF PreviewInv
<1>3. CASE CloseInfo
  BY <1>3 DEF CloseInfo, PreviewInv, IsTarget, IsForm, Blank, Nothing, FormTexts, Modes
<1>4. CASE ContextArrives
  <2>1. /\ LoadPreview(target.strategy, "default", form.mode)
        /\ target' = [target EXCEPT !.asked = @ + 1]
        /\ UNCHANGED form
    BY <1>4 DEF ContextArrives, DefaultParam
  <2>2. IsTarget'
    BY <2>1, TargetFields DEF PreviewInv
  <2>3. IsForm'
    BY <2>1 DEF PreviewInv, IsForm
  <2> QED BY <2>1, <2>2, <2>3, LoadPreviewOK DEF PreviewInv
<1>5. CASE TypeParam \/ SetMode
  BY <1>5 DEF TypeParam, SetMode, PreviewInv, IsTarget, IsForm, FormTexts, Modes
<1>6. CASE Apply
  <2>1. CASE Valid(ActiveParam)
    <3>1. ActiveParam \in {"default", "valid", "zero"}
      BY <2>1 DEF Valid, PreviewConstraint
    <3>2. /\ LoadPreview(target.strategy, ActiveParam, form.mode)
          /\ target' = [target EXCEPT !.asked = @ + 1]
          /\ form' = [form EXCEPT !.flagged = FALSE]
      BY <1>6, <2>1 DEF Apply
    <3>3. /\ IsTarget'
          /\ IsForm'
      BY <3>2, TargetFields, FormFields DEF PreviewInv
    <3> QED BY <3>1, <3>2, <3>3, LoadPreviewOK DEF PreviewInv
  <2>2. CASE ~Valid(ActiveParam)
    <3>1. form' = [form EXCEPT !.flagged = TRUE] /\ UNCHANGED <<target, result, previews>>
      BY <1>6, <2>2 DEF Apply
    <3>2. IsForm'
      BY <3>1, FormFields DEF PreviewInv
    <3> QED BY <3>1, <3>2 DEF PreviewInv, IsTarget
  <2> QED BY <2>1, <2>2
<1>7. CASE PreviewAnswered
  <2>1. PICK r \in previews, labels \in Labels :
          /\ previews' = previews \ {r}
          /\ result' = [result EXCEPT !.preview = [of |-> r, labels |-> labels], !.loading = FALSE]
    BY <1>7 DEF PreviewAnswered
  <2>2. [of |-> r, labels |-> labels] \in [of : PreviewRequest, labels : Labels]
    BY DEF PreviewInv
  <2>3. [of |-> r, labels |-> labels] # NoPreview
    BY <2>2, PreviewAssumption
  <2> QED BY <1>7, <2>1, <2>3 DEF PreviewAnswered, PreviewInv, IsTarget, IsForm
<1>8. CASE PreviewFails
  BY <1>8 DEF PreviewFails, PreviewInv, IsTarget, IsForm
<1>9. CASE UNCHANGED previewVars
  BY <1>9 DEF previewVars, PreviewInv, IsTarget, IsForm
<1> QED BY <1>1, <1>2, <1>3, <1>4, <1>5, <1>6, <1>7, <1>8, <1>9 DEF PreviewNext

\* The inductive invariant of the target dialog.
THEOREM PreviewInvariant == PreviewSpec => []PreviewInv
<1>1. PreviewInit => PreviewInv
  <2> SUFFICES ASSUME PreviewInit PROVE PreviewInv
    OBVIOUS
  <2>1. PICK s \in Target : target = [strategy |-> s, open |-> FALSE, asked |-> 0]
    BY DEF PreviewInit
  <2>2. IsForm
    BY DEF PreviewInit, IsForm, Blank, FormTexts, Modes
  <2> QED BY <2>1, <2>2 DEF PreviewInit, PreviewInv, IsTarget, Nothing
<1> QED BY <1>1, PreviewStepOK, PTL DEF PreviewSpec

\* Whatever requests of earlier openings are answered, and in which order, an open
\* dialog that has all its answers shows a preview or an error
\* (TargetPreview!QuietDialogShowsResult).
THEOREM QuietDialogShowsResultAlways == PreviewSpec => []QuietDialogShowsResult
<1>1. PreviewInv => QuietDialogShowsResult
  <2> SUFFICES ASSUME PreviewInv, target.open, previews = {} PROVE Info.view \in {"preview", "error"}
    BY DEF QuietDialogShowsResult
  <2>1. result.loading = FALSE /\ (result.failed = TRUE \/ result.preview # NoPreview)
    BY DEF PreviewInv
  <2>2. InfoView \in {"preview", "error"}
    BY <2>1 DEF InfoView
  <2>3. Info.view = InfoView
    BY DEF Info
  <2> QED BY <2>2, <2>3
<1> QED BY <1>1, PreviewInvariant, PTL

-----------------------------------------------------------------------------
(***************************************************************************)
(* What the forms keep to.  Every state of a form is one its data could be: *)
(* a step changes what it changes within the same bounds, whatever the      *)
(* constants, and no more is asked than the page may ask.                   *)
(***************************************************************************)

\* No more requests than there may be.
NoMore(calls, n) == IsFiniteSet(calls) /\ Cardinality(calls) \in 0 .. n

LEMMA NoMoreOK ==
  ASSUME NEW n \in Nat, NEW calls, NoMore(calls, n)
  PROVE  /\ \A c \in calls : NoMore(calls \ {c}, n)
         /\ \A c \in calls : \A d : NoMore((calls \ {c}) \cup {d}, n)
         /\ Cardinality(calls) < n => \A d : NoMore(calls \cup {d}, n)
<1>1. IsFiniteSet(calls) /\ Cardinality(calls) \in Nat /\ Cardinality(calls) <= n
  BY DEF NoMore
<1>2. ASSUME NEW c \in calls PROVE NoMore(calls \ {c}, n)
  <2>1. IsFiniteSet(calls \ {c}) /\ Cardinality(calls \ {c}) = Cardinality(calls) - 1
    BY <1>1, FS_RemoveElement
  <2>2. Cardinality(calls \ {c}) \in Nat
    BY <2>1, FS_CardinalityType
  <2> QED BY <1>1, <2>1, <2>2 DEF NoMore
<1>3. ASSUME NEW c \in calls, NEW d PROVE NoMore((calls \ {c}) \cup {d}, n)
  <2>1. IsFiniteSet(calls \ {c}) /\ Cardinality(calls \ {c}) = Cardinality(calls) - 1
    BY <1>1, FS_RemoveElement
  <2>2. Cardinality(calls \ {c}) \in Nat
    BY <2>1, FS_CardinalityType
  <2>3. /\ IsFiniteSet((calls \ {c}) \cup {d})
        /\ Cardinality((calls \ {c}) \cup {d}) \in {Cardinality(calls \ {c}), Cardinality(calls \ {c}) + 1}
    BY <2>1, FS_AddElement
  <2> QED BY <1>1, <2>1, <2>2, <2>3 DEF NoMore
<1>4. ASSUME Cardinality(calls) < n, NEW d PROVE NoMore(calls \cup {d}, n)
  <2>1. /\ IsFiniteSet(calls \cup {d})
        /\ Cardinality(calls \cup {d}) \in {Cardinality(calls), Cardinality(calls) + 1}
    BY <1>1, FS_AddElement
  <2> QED BY <1>1, <1>4, <2>1 DEF NoMore
<1> QED BY <1>2, <1>3, <1>4

LEMMA NoneIsNoMore == ASSUME NEW n \in Nat PROVE NoMore({}, n)
BY FS_EmptySet DEF NoMore

(* The events of the system and its requests. *)

SettingsOK(s) == DOMAIN s = Setting /\ \A k \in Setting : s[k] \in Legal(k)

\* The newest events at some time.
Past(events, log) == \E n \in 0 .. Len(log) : events = NewestEvents(SubSeq(log, n + 1, Len(log)))

LEMMA SystemConstants ==
  /\ MaxSysCalls \in Nat /\ MaxSysCalls > 0 /\ FetchLimit \in Nat /\ FetchLimit > 0 /\ Codes \subseteq 0 .. 599
  /\ <<>> \in Typed /\ SettingsOK(Standard)
BY SystemAssumption DEF SettingsOK, Setting

LEMMA RestOfLog ==
  ASSUME NEW log \in Seq(Codes), NEW n \in 0 .. Len(log)
  PROVE  /\ SubSeq(log, n + 1, Len(log)) \in Seq(Codes)
         /\ Len(SubSeq(log, n + 1, Len(log))) = Len(log) - n
         /\ \A i \in 1 .. Len(log) - n : SubSeq(log, n + 1, Len(log))[i] = log[n + i]
<1> DEFINE m == Len(log)
<1>1. m \in Nat /\ n \in Nat /\ n <= m
  OBVIOUS
<1>2. \A i \in n + 1 .. m : log[i] \in Codes
  BY <1>1
<1> HIDE DEF m
<1>3. /\ SubSeq(log, n + 1, m) \in Seq(Codes)
      /\ Len(SubSeq(log, n + 1, m)) = IF n + 1 <= m THEN m - (n + 1) + 1 ELSE 0
      /\ \A i \in 1 .. m - (n + 1) + 1 : SubSeq(log, n + 1, m)[i] = log[n + 1 + i - 1]
  BY <1>1, <1>2, SubSeqProperties
<1>4. m - (n + 1) + 1 = m - n /\ (~(n + 1 <= m) => m - n = 0) /\ \A i \in Int : n + 1 + i - 1 = n + i
  BY <1>1
<1>5. /\ Len(SubSeq(log, n + 1, m)) = m - n
      /\ \A i \in 1 .. m - n : SubSeq(log, n + 1, m)[i] = log[n + i]
  BY <1>3, <1>4
<1> QED BY <1>3, <1>5 DEF m

\* What was the newest stays what was the newest when one more is recorded.
LEMMA PastStays ==
  ASSUME NEW log \in Seq(Codes), NEW code \in Codes, NEW events, Past(events, log)
  PROVE  Past(events, <<code>> \o log)
<1> DEFINE more == <<code>> \o log
<1>1. /\ more \in Seq(Codes) /\ Len(more) = Len(log) + 1 /\ Len(log) \in Nat
      /\ \A i \in 1 .. Len(log) : more[1 + i] = log[i]
  OBVIOUS
<1>2. PICK n \in 0 .. Len(log) : events = NewestEvents(SubSeq(log, n + 1, Len(log)))
  BY DEF Past
<1> DEFINE old == SubSeq(log, n + 1, Len(log))
           new == SubSeq(more, (n + 1) + 1, Len(more))
<1> HIDE DEF more
<1>3. n + 1 \in 0 .. Len(more) /\ Len(more) - (n + 1) = Len(log) - n
  BY <1>1
<1>4. /\ old \in Seq(Codes) /\ Len(old) = Len(log) - n
      /\ \A i \in 1 .. Len(log) - n : old[i] = log[n + i]
  BY RestOfLog
<1>5. /\ new \in Seq(Codes) /\ Len(new) = Len(more) - (n + 1)
      /\ \A i \in 1 .. Len(more) - (n + 1) : new[i] = more[(n + 1) + i]
  BY <1>1, <1>3, RestOfLog
<1> HIDE DEF old, new
<1>6. \A i \in 1 .. Len(log) - n : new[i] = old[i]
  <2> TAKE i \in 1 .. Len(log) - n
  <2>1. n + i \in 1 .. Len(log) /\ (n + 1) + i = 1 + (n + i)
    BY <1>1
  <2>2. new[i] = more[1 + (n + i)] /\ old[i] = log[n + i]
    BY <1>3, <1>4, <1>5, <2>1
  <2> QED BY <1>1, <2>1, <2>2
<1>7. new = old
  BY <1>3, <1>4, <1>5, <1>6, SeqEqual
<1>8. events = NewestEvents(new)
  BY <1>2, <1>7 DEF old
<1> QED BY <1>3, <1>8 DEF Past, new, more

\* The newest events now.
LEMMA NewestIsPast == ASSUME NEW log \in Seq(Codes) PROVE Past(NewestEvents(log), log)
<1> DEFINE all == SubSeq(log, 0 + 1, Len(log))
<1>1. 0 \in 0 .. Len(log) /\ Len(log) - 0 = Len(log) /\ \A i \in 1 .. Len(log) : 0 + i = i
  OBVIOUS
<1>2. all \in Seq(Codes) /\ Len(all) = Len(log) /\ \A i \in 1 .. Len(log) : all[i] = log[i]
  BY <1>1, RestOfLog
<1> HIDE DEF all
<1>3. all = log
  BY <1>2, SeqEqual
<1> QED BY <1>1, <1>3 DEF Past, all

LEMMA NewestAreCodes ==
  ASSUME NEW log \in Seq(Codes)
  PROVE  NewestEvents(log) \in Seq(Codes) /\ DOMAIN NewestEvents(log) \subseteq DOMAIN log
<1> DEFINE m == IF Len(log) < FetchLimit THEN Len(log) ELSE FetchLimit
<1>1. m \in Nat /\ m <= Len(log) /\ DOMAIN log = 1 .. Len(log) /\ Len(log) \in Nat
  BY SystemConstants
<1>2. \A i \in 1 .. m : log[i] \in Codes
  BY <1>1
<1>3. NewestEvents(log) = SubSeq(log, 1, m)
  BY DEF NewestEvents
<1> HIDE DEF m
<1>4. SubSeq(log, 1, m) \in Seq(Codes) /\ Len(SubSeq(log, 1, m)) = IF 1 <= m THEN m - 1 + 1 ELSE 0
  BY <1>1, <1>2, SubSeqProperties
<1>5. Len(SubSeq(log, 1, m)) = m
  BY <1>1, <1>4
<1>6. DOMAIN SubSeq(log, 1, m) = 1 .. m
  BY <1>4, <1>5
<1> QED BY <1>1, <1>3, <1>4, <1>6

LEMMA PastAreCodes ==
  ASSUME NEW log \in Seq(Codes), NEW events, Past(events, log) PROVE events \in Seq(Codes)
BY RestOfLog, NewestAreCodes DEF Past

ToldStates == ThreadState \cup {"none", "cleared", "unavailable", "failed"}

SysFields == {"kind", "sent", "stage", "settings", "status", "events", "id"}

\* What a request brings: settings in their ranges, a state of the catch-up, and
\* the newest events at some time.
SysCallOK(c, log) ==
  /\ DOMAIN c = SysFields
  /\ c.kind = "save" => DOMAIN c.sent = Setting
  /\ \A s \in c.settings : SettingsOK(s)
  /\ c.status \subseteq ThreadState
  /\ \A e \in c.events : Past(e, log)

SysCallsOK(calls, log) == NoMore(calls, MaxSysCalls) /\ \A c \in calls : SysCallOK(c, log)

InputsOK(f) == \A k \in Setting : f[k] \in Typed \cup {<<n>> : n \in Legal(k)}

FieldsShown == DOMAIN fields = Setting /\ InputsOK(fields)

ToldOK ==
  /\ told = [saved |-> told.saved, catching |-> told.catching, action |-> told.action]
  /\ told.action \in ToldStates

TraceOK ==
  /\ trace = [log |-> trace.log, shown |-> trace.shown]
  /\ trace.log \in Seq(Codes) /\ Past(trace.shown, trace.log)

SysInv ==
  /\ SettingsOK(stored) /\ thread \in ThreadState /\ touched \subseteq Setting
  /\ FieldsShown /\ ToldOK /\ TraceOK
  /\ SysCallsOK(sysCalls, trace.log)

\* A request that is sent, or not followed.
LEMMA SysCallSent ==
  ASSUME NEW log, NEW calls, SysCallsOK(calls, log), NEW kind, NEW body, kind = "save" => DOMAIN body = Setting
  PROVE  SysCallsOK(Call(calls, kind, body), log)
<1>1. NoMore(calls, MaxSysCalls) /\ MaxSysCalls \in Nat /\ Cardinality(calls) \in Nat
  BY SystemConstants DEF SysCallsOK, NoMore
<1>2. CASE Cardinality(calls) >= MaxSysCalls
  BY <1>2 DEF Call
<1>3. CASE ~(Cardinality(calls) >= MaxSysCalls)
  <2>1. PICK i : Call(calls, kind, body)
                   = calls \cup {[kind |-> kind, sent |-> body, stage |-> "sent", settings |-> {}, status |-> {},
                                  events |-> {}, id |-> i]}
    BY <1>3 DEF Call
  <2> DEFINE d == [kind |-> kind, sent |-> body, stage |-> "sent", settings |-> {}, status |-> {}, events |-> {},
                   id |-> i]
  <2>2. SysCallOK(d, log)
    <3>1. /\ DOMAIN d = SysFields
          /\ d.kind = kind /\ d.sent = body /\ d.settings = {} /\ d.status = {} /\ d.events = {}
      BY DEF SysFields
    <3> HIDE DEF d
    <3>2. d.kind = "save" => DOMAIN d.sent = Setting
      BY <3>1
    <3>3. /\ \A s \in d.settings : SettingsOK(s)
          /\ d.status \subseteq ThreadState /\ \A e \in d.events : Past(e, log)
      BY <3>1
    <3> QED BY <3>1, <3>2, <3>3 DEF SysCallOK
  <2> HIDE DEF d
  <2>3. Cardinality(calls) < MaxSysCalls
    BY <1>1, <1>3
  <2>4. NoMore(calls \cup {d}, MaxSysCalls)
    BY <1>1, <2>3, NoMoreOK
  <2>5. \A c \in calls \cup {d} : SysCallOK(c, log)
    BY <2>2 DEF SysCallsOK
  <2> QED BY <2>1, <2>4, <2>5 DEF SysCallsOK, d
<1> QED BY <1>2, <1>3

\* A request that is answered is no longer under way.
LEMMA SysCallGone ==
  ASSUME NEW log, NEW calls, SysCallsOK(calls, log), NEW c \in calls
  PROVE  SysCallsOK(calls \ {c}, log)
BY NoMoreOK, SystemConstants DEF SysCallsOK

LEMMA SysCallServed ==
  ASSUME NEW log, SysCallsOK(sysCalls, log), NEW c \in sysCalls, NEW settings, NEW status, NEW events,
         Served(c, settings, status, events),
         \A s \in settings : SettingsOK(s), status \subseteq ThreadState, \A e \in events : Past(e, log)
  PROVE  SysCallsOK(sysCalls', log)
<1> DEFINE d == [c EXCEPT !.stage = "served", !.settings = settings, !.status = status, !.events = events]
<1>1. SysCallOK(c, log) /\ NoMore(sysCalls, MaxSysCalls)
  BY DEF SysCallsOK
<1>2. sysCalls' = (sysCalls \ {c}) \cup {d}
  BY DEF Served
<1>3. SysCallOK(d, log)
  <2>1. DOMAIN c = SysFields /\ (c.kind = "save" => DOMAIN c.sent = Setting)
    BY <1>1 DEF SysCallOK
  <2>2. /\ DOMAIN d = SysFields
        /\ d.kind = c.kind /\ d.sent = c.sent /\ d.settings = settings /\ d.status = status /\ d.events = events
    BY <2>1 DEF SysFields
  <2> HIDE DEF d
  <2> QED BY <2>1, <2>2 DEF SysCallOK
<1> HIDE DEF d
<1>4. NoMore((sysCalls \ {c}) \cup {d}, MaxSysCalls)
  BY <1>1, NoMoreOK, SystemConstants
<1> QED BY <1>2, <1>3, <1>4 DEF SysCallsOK

\* One more event is recorded.
LEMMA SysCallsKept ==
  ASSUME NEW log \in Seq(Codes), NEW code \in Codes, NEW calls, SysCallsOK(calls, log)
  PROVE  SysCallsOK(calls, <<code>> \o log)
<1>1. \A e : Past(e, log) => Past(e, <<code>> \o log)
  BY PastStays
<1> DEFINE more == <<code>> \o log
<1> HIDE DEF more
<1> QED BY <1>1 DEF SysCallsOK, SysCallOK, more

LEMMA SysInvInit == SysInit => SysInv
<1> SUFFICES ASSUME SysInit PROVE SysInv
  OBVIOUS
<1>1. SettingsOK(stored)
  BY SystemConstants DEF SysInit, SettingsOK
<1>2. thread \in ThreadState /\ touched \subseteq Setting
  BY DEF SysInit, ThreadState
<1>3. FieldsShown
  BY SystemConstants DEF SysInit, FieldsShown, InputsOK
<1>4. ToldOK
  BY DEF SysInit, ToldOK, ToldStates
<1>5. TraceOK
  <2>1. <<>> \in Seq(Codes)
    OBVIOUS
  <2>2. NewestEvents(<<>>) = <<>>
    <3>1. NewestEvents(<<>>) = SubSeq(<<>>, 1, IF Len(<<>>) < FetchLimit THEN Len(<<>>) ELSE FetchLimit)
      BY DEF NewestEvents
    <3>2. Len(<<>>) = 0 /\ 0 < FetchLimit
      BY SystemConstants
    <3>3. SubSeq(<<>>, 1, 0) = <<>>
      OBVIOUS
    <3> QED BY <3>1, <3>2, <3>3
  <2>3. Past(<<>>, <<>>)
    BY <2>1, <2>2, NewestIsPast
  <2> QED BY <2>1, <2>3 DEF SysInit, TraceOK
<1>6. SysCallsOK({}, trace.log)
  BY NoneIsNoMore, SystemConstants DEF SysCallsOK
<1>7. SysCallsOK(sysCalls, trace.log)
  BY <1>6, SysCallSent DEF SysInit
<1> QED BY <1>1, <1>2, <1>3, <1>4, <1>5, <1>7 DEF SysInv

\* The administrator sends a request, or types.
LEMMA SysAsks ==
  ASSUME SysInv, TypeSetting \/ SaveSettings \/ RefreshTick \/ PollCatchUp \/ RunCatchUp \/ ClearData
  PROVE  SysInv'
<1>1. UNCHANGED <<stored, thread, trace>>
  BY DEF TypeSetting, SaveSettings, RefreshTick, PollCatchUp, RunCatchUp, ClearData
<1>2. SysCallsOK(sysCalls, trace.log) /\ TraceOK /\ SettingsOK(stored) /\ thread \in ThreadState
  BY DEF SysInv
<1>3. SysCallsOK(sysCalls', trace.log)
  <2>1. CASE TypeSetting
    BY <1>2, <2>1 DEF TypeSetting
  <2>2. CASE SaveSettings
    <3> DEFINE figures == [k \in Setting |-> NumberOf(fields[k])]
    <3>1. DOMAIN figures = Setting /\ sysCalls' = Call(sysCalls, "save", figures)
      BY <2>2 DEF SaveSettings
    <3> HIDE DEF figures
    <3> QED BY <1>2, <3>1, SysCallSent
  <2>3. CASE RefreshTick \/ PollCatchUp \/ RunCatchUp \/ ClearData
    <3>1. PICK kind \in {"snapshot", "poll", "stop", "start", "clear"} : sysCalls' = Call(sysCalls, kind, Nobody)
      BY <2>3 DEF RefreshTick, PollCatchUp, RunCatchUp, ClearData
    <3>2. kind # "save"
      OBVIOUS
    <3> QED BY <1>2, <3>1, <3>2, SysCallSent
  <2> QED BY <2>1, <2>2, <2>3
<1>4. touched' \subseteq Setting /\ FieldsShown'
  <2>1. CASE TypeSetting
    <3>1. PICK k \in Setting, text \in Typed :
            fields' = [fields EXCEPT ![k] = text] /\ touched' = touched \cup {k}
      BY <2>1 DEF TypeSetting
    <3>2. touched' \subseteq Setting
      BY <3>1 DEF SysInv
    <3>3. FieldsShown'
      BY <3>1 DEF SysInv, FieldsShown, InputsOK, Legal
    <3> QED BY <3>2, <3>3
  <2>2. CASE ~TypeSetting
    <3>1. UNCHANGED fields /\ (UNCHANGED touched \/ touched' = {})
      BY <2>2 DEF SaveSettings, RefreshTick, PollCatchUp, RunCatchUp, ClearData
    <3> QED BY <3>1 DEF SysInv, FieldsShown, InputsOK, Legal
  <2> QED BY <2>1, <2>2
<1>5. ToldOK'
  <2>1. ToldOK
    BY DEF SysInv
  <2>2. \/ UNCHANGED told
        \/ told' = [saved |-> FALSE, catching |-> told.catching, action |-> told.action]
        \/ told' = [saved |-> told.saved, catching |-> told.catching, action |-> "none"]
    BY <2>1 DEF ToldOK, TypeSetting, SaveSettings, RefreshTick, PollCatchUp, RunCatchUp, ClearData
  <2> QED BY <2>1, <2>2 DEF ToldOK, ToldStates
<1> QED BY <1>1, <1>2, <1>3, <1>4, <1>5 DEF SysInv, TraceOK, SettingsOK, Legal

\* The server answers, goes on by itself or records an event.
LEMMA SysServes ==
  ASSUME SysInv, ServeSnapshot \/ ServeSave \/ ServeCatchUp \/ ThreadEnds \/ RecordEvent
  PROVE  SysInv'
<1>1. UNCHANGED <<fields, touched, told>>
  BY DEF ServeSnapshot, ServeSave, ServeCatchUp, ThreadEnds, RecordEvent
<1>2. /\ SysCallsOK(sysCalls, trace.log) /\ TraceOK /\ SettingsOK(stored) /\ thread \in ThreadState
      /\ FieldsShown /\ ToldOK /\ touched \subseteq Setting
  BY DEF SysInv
<1>3. FieldsShown' /\ ToldOK' /\ touched' \subseteq Setting
  BY <1>1, <1>2 DEF FieldsShown, InputsOK, ToldOK, Legal
<1>4. ASSUME UNCHANGED trace, SettingsOK(stored'), thread' \in ThreadState, SysCallsOK(sysCalls', trace.log)
      PROVE  SysInv'
  BY <1>2, <1>3, <1>4 DEF SysInv, TraceOK
<1>5. CASE ServeSnapshot
  <2>1. UNCHANGED <<stored, thread, trace>>
    BY <1>5 DEF ServeSnapshot
  <2>2. PICK c, settings, status, events :
          /\ c \in sysCalls /\ Served(c, settings, status, events)
          /\ settings \subseteq {stored, Standard} /\ status \subseteq {thread}
          /\ events \subseteq {NewestEvents(trace.log)}
    <3>1. \A s \in Readable : {s} \subseteq {stored, Standard}
      BY DEF Readable
    <3> QED BY <1>5, <3>1 DEF ServeSnapshot
  <2>3. \A s \in settings : SettingsOK(s)
    BY <1>2, <2>2, SystemConstants
  <2>4. \A e \in events : Past(e, trace.log)
    BY <1>2, <2>2, NewestIsPast DEF TraceOK
  <2>5. SysCallsOK(sysCalls', trace.log)
    BY <1>2, <2>2, <2>3, <2>4, SysCallServed
  <2> QED BY <1>2, <1>4, <2>1, <2>5
<1>6. CASE ServeSave
  <2>1. PICK c \in sysCalls :
          /\ c.kind = "save"
          /\ \/ /\ stored' = Updated(c.sent)
                /\ Served(c, IF \A k \in Setting : c.sent[k] \in Legal(k) THEN {stored'} ELSE {}, {}, {})
             \/ Served(c, {Standard}, {}, {}) /\ UNCHANGED stored
    BY <1>6 DEF ServeSave
  <2>2. DOMAIN c.sent = Setting
    BY <1>2, <2>1 DEF SysCallsOK, SysCallOK
  <2>3. SettingsOK(stored')
    <3>1. SettingsOK(Updated(c.sent))
      BY <1>2, <2>2 DEF Updated, SettingsOK
    <3>2. UNCHANGED stored => SettingsOK(stored')
      BY <1>2
    <3> QED BY <2>1, <3>1, <3>2
  <2>4. PICK settings : Served(c, settings, {}, {}) /\ settings \subseteq {stored', Standard}
    BY <2>1
  <2>5. \A s \in settings : SettingsOK(s)
    BY <2>3, <2>4, SystemConstants
  <2>6. SysCallsOK(sysCalls', trace.log)
    BY <1>2, <2>4, <2>5, SysCallServed
  <2> QED BY <1>2, <1>4, <1>6, <2>3, <2>6 DEF ServeSave
<1>7. CASE ServeCatchUp
  <2>1. UNCHANGED <<stored, trace>>
    BY <1>7 DEF ServeCatchUp
  <2>2. PICK c, status :
          c \in sysCalls /\ Served(c, {}, status, {}) /\ status \subseteq {thread'} /\ thread' \in {"running", "stopping", thread}
    BY <1>7 DEF ServeCatchUp
  <2>3. thread' \in ThreadState
    BY <1>2, <2>2 DEF ThreadState
  <2>4. SysCallsOK(sysCalls', trace.log)
    <3>1. status \subseteq ThreadState /\ (\A s \in {} : SettingsOK(s)) /\ (\A e \in {} : Past(e, trace.log))
      BY <2>2, <2>3
    <3>2. c \in sysCalls /\ Served(c, {}, status, {}) /\ SysCallsOK(sysCalls, trace.log)
      BY <1>2, <2>2
    <3> QED BY ONLY <3>1, <3>2, SysCallServed
  <2> QED BY <1>2, <1>4, <2>1, <2>3, <2>4
<1>8. CASE ThreadEnds
  <2>1. thread' \in ThreadState
    BY <1>8 DEF ThreadEnds, ThreadState
  <2> QED BY <1>2, <1>4, <1>8, <2>1 DEF ThreadEnds
<1>9. CASE RecordEvent
  <2>1. PICK code \in Codes : trace' = [log |-> <<code>> \o trace.log, shown |-> trace.shown]
    BY <1>2, <1>9 DEF RecordEvent, TraceOK
  <2>2. trace.log \in Seq(Codes) /\ <<code>> \o trace.log \in Seq(Codes)
    BY <1>2 DEF TraceOK
  <2>3. Past(trace.shown, <<code>> \o trace.log)
    BY <1>2, <2>2, PastStays DEF TraceOK
  <2>4. SysCallsOK(sysCalls, <<code>> \o trace.log)
    BY <1>2, <2>2, SysCallsKept
  <2> DEFINE more == <<code>> \o trace.log
  <2> HIDE DEF more
  <2>5. TraceOK' /\ SysCallsOK(sysCalls, trace'.log)
    BY <2>1, <2>2, <2>3, <2>4 DEF TraceOK, more
  <2>6. UNCHANGED <<stored, thread, sysCalls>>
    BY <1>9 DEF RecordEvent
  <2> QED BY <1>2, <1>3, <2>5, <2>6 DEF SysInv
<1> QED BY <1>5, <1>6, <1>7, <1>8, <1>9

LEMMA TellOK ==
  ASSUME ToldOK, NEW s \in ThreadState, NEW t, t = Tell(told, s)
  PROVE  t = [saved |-> t.saved, catching |-> t.catching, action |-> t.action] /\ t.action \in ToldStates
<1>1. t = [saved |-> told.saved, catching |-> IsRunning(s), action |-> IF s = "idle" THEN told.action ELSE s]
  BY DEF Tell, ToldOK
<1>2. told.action \in ToldStates /\ s \in ToldStates
  BY DEF ToldOK, ToldStates
<1> QED BY <1>1, <1>2

LEMMA TextsOK == ASSUME NEW s, SettingsOK(s) PROVE DOMAIN AsText(s) = Setting /\ InputsOK(AsText(s))
BY DEF AsText, InputsOK, SettingsOK

\* A request is answered or fails.
LEMMA SysAnswers ==
  ASSUME SysInv, SnapshotAnswered \/ SaveAnswered \/ CatchUpAnswered \/ SysCallFails
  PROVE  SysInv'
<1>1. UNCHANGED <<stored, thread, touched>>
  BY DEF SnapshotAnswered, SaveAnswered, CatchUpAnswered, SysCallFails
<1>2. /\ SysCallsOK(sysCalls, trace.log) /\ TraceOK /\ SettingsOK(stored) /\ thread \in ThreadState
      /\ FieldsShown /\ ToldOK /\ touched \subseteq Setting
  BY DEF SysInv
<1>3. ASSUME FieldsShown', ToldOK', TraceOK', SysCallsOK(sysCalls', trace'.log) PROVE SysInv'
  BY <1>1, <1>2, <1>3 DEF SysInv
<1>4. UNCHANGED fields => FieldsShown'
  BY <1>2 DEF FieldsShown, InputsOK, Legal
<1>5. \A c \in sysCalls : SysCallOK(c, trace.log) /\ SysCallsOK(sysCalls \ {c}, trace.log)
  BY <1>2, SysCallGone DEF SysCallsOK
<1>6. CASE SnapshotAnswered
  <2>1. PICK c \in sysCalls :
          /\ sysCalls' = sysCalls \ {c}
          /\ fields' = IF c.settings = {} THEN fields ELSE AsText(CHOOSE s \in c.settings : TRUE)
          /\ told' = IF c.status = {} THEN told ELSE Tell(told, CHOOSE s \in c.status : TRUE)
          /\ trace' = IF c.events = {} THEN trace ELSE [trace EXCEPT !.shown = CHOOSE e \in c.events : TRUE]
    BY <1>6 DEF SnapshotAnswered
  <2>2. /\ \A s \in c.settings : SettingsOK(s)
        /\ c.status \subseteq ThreadState /\ \A e \in c.events : Past(e, trace.log)
    BY <1>5 DEF SysCallOK
  <2>3. FieldsShown'
    <3>1. CASE c.settings = {}
      BY <1>4, <2>1, <3>1
    <3>2. CASE c.settings # {}
      <4> DEFINE s == CHOOSE s \in c.settings : TRUE
      <4>1. s \in c.settings
        BY <3>2
      <4>2. fields' = AsText(s)
        BY <2>1, <3>2
      <4> HIDE DEF s
      <4>3. DOMAIN fields' = Setting /\ InputsOK(fields')
        BY <2>2, <4>1, <4>2, TextsOK
      <4> QED BY <4>3 DEF FieldsShown, InputsOK, Legal
    <3> QED BY <3>1, <3>2
  <2>4. ToldOK'
    <3>1. CASE c.status = {}
      BY <1>2, <2>1, <3>1 DEF ToldOK
    <3>2. CASE c.status # {}
      <4> DEFINE s == CHOOSE s \in c.status : TRUE
      <4>1. s \in ThreadState
        BY <2>2, <3>2
      <4>2. told' = Tell(told, s)
        BY <2>1, <3>2
      <4> HIDE DEF s
      <4> QED BY <1>2, <4>1, <4>2, TellOK DEF ToldOK
    <3> QED BY <3>1, <3>2
  <2>5. TraceOK' /\ trace'.log = trace.log
    <3>1. CASE c.events = {}
      BY <1>2, <2>1, <3>1 DEF TraceOK
    <3>2. CASE c.events # {}
      <4> DEFINE e == CHOOSE e \in c.events : TRUE
      <4>1. Past(e, trace.log)
        BY <2>2, <3>2
      <4>2. trace' = [log |-> trace.log, shown |-> e]
        BY <1>2, <2>1, <3>2 DEF TraceOK
      <4> HIDE DEF e
      <4> QED BY <1>2, <4>1, <4>2 DEF TraceOK
    <3> QED BY <3>1, <3>2
  <2> QED BY <1>3, <1>5, <2>1, <2>3, <2>4, <2>5
<1>7. CASE SaveAnswered
  <2>1. PICK c, s :
          /\ c \in sysCalls /\ s \in c.settings
          /\ sysCalls' = sysCalls \ {c} /\ fields' = AsText(s) /\ told' = [told EXCEPT !.saved = TRUE]
    BY <1>7 DEF SaveAnswered
  <2>2. SettingsOK(s)
    BY <1>5, <2>1 DEF SysCallOK
  <2>3. FieldsShown'
    <3>1. DOMAIN fields' = Setting /\ InputsOK(fields')
      BY <2>1, <2>2, TextsOK
    <3> QED BY <3>1 DEF FieldsShown, InputsOK, Legal
  <2>4. ToldOK'
    <3>1. told' = [saved |-> TRUE, catching |-> told.catching, action |-> told.action] /\ told.action \in ToldStates
      BY <1>2, <2>1 DEF ToldOK
    <3> QED BY <3>1 DEF ToldOK
  <2>5. UNCHANGED trace
    BY <1>7 DEF SaveAnswered
  <2> QED BY <1>2, <1>3, <1>5, <2>1, <2>3, <2>4, <2>5 DEF TraceOK
<1>8. CASE CatchUpAnswered
  <2>1. PICK c, s :
          /\ c \in sysCalls /\ s \in c.status
          /\ sysCalls' = IF c.kind = "stop" THEN sysCalls \ {c} ELSE Call(sysCalls \ {c}, "snapshot", Nobody)
          /\ told' = IF c.kind = "clear" THEN [told EXCEPT !.action = "cleared"] ELSE Tell(told, s)
    BY <1>8 DEF CatchUpAnswered
  <2>2. UNCHANGED <<fields, trace>>
    BY <1>8 DEF CatchUpAnswered
  <2>3. s \in ThreadState
    BY <1>5, <2>1 DEF SysCallOK
  <2>4. ToldOK'
    <3>1. CASE c.kind = "clear"
      <4>1. told' = [saved |-> told.saved, catching |-> told.catching, action |-> "cleared"]
        BY <1>2, <2>1, <3>1 DEF ToldOK
      <4> QED BY <4>1 DEF ToldOK, ToldStates
    <3>2. CASE c.kind # "clear"
      <4>1. told' = Tell(told, s)
        BY <2>1, <3>2
      <4> QED BY <1>2, <2>3, <4>1, TellOK DEF ToldOK
    <3> QED BY <3>1, <3>2
  <2>5. SysCallsOK(sysCalls', trace.log)
    <3>1. SysCallsOK(sysCalls \ {c}, trace.log) /\ "snapshot" # "save"
      BY <1>5, <2>1
    <3>2. SysCallsOK(Call(sysCalls \ {c}, "snapshot", Nobody), trace.log)
      BY <3>1, SysCallSent
    <3> QED BY <2>1, <3>1, <3>2
  <2> QED BY <1>2, <1>3, <1>4, <2>2, <2>4, <2>5 DEF TraceOK
<1>9. CASE SysCallFails
  <2>1. PICK c \in sysCalls : sysCalls' = sysCalls \ {c}
    BY <1>9 DEF SysCallFails
  <2>2. UNCHANGED <<fields, trace>>
    BY <1>9 DEF SysCallFails
  <2>3. ToldOK'
    <3>1. PICK action, catching :
            action \in ToldStates /\ told' = [saved |-> told.saved, catching |-> catching, action |-> action]
      <4>1. \/ UNCHANGED told
            \/ told' = [told EXCEPT !.catching = FALSE, !.action = "unavailable"]
            \/ told' = [told EXCEPT !.action = "failed"]
        BY <1>9 DEF SysCallFails
      <4>2. {"unavailable", "failed"} \subseteq ToldStates
        BY DEF ToldStates
      <4>3. told = [saved |-> told.saved, catching |-> told.catching, action |-> told.action]
            /\ told.action \in ToldStates
        BY <1>2 DEF ToldOK
      <4> QED BY <4>1, <4>2, <4>3
    <3> QED BY <3>1 DEF ToldOK
  <2> QED BY <1>2, <1>3, <1>4, <1>5, <2>1, <2>2, <2>3 DEF TraceOK
<1> QED BY <1>6, <1>7, <1>8, <1>9

LEMMA SysInvNext == SysInv /\ [SysNext]_sysVars => SysInv'
<1> SUFFICES ASSUME SysInv, [SysNext]_sysVars PROVE SysInv'
  OBVIOUS
<1>1. CASE UNCHANGED sysVars
  BY <1>1 DEF sysVars, SysInv, SettingsOK, Legal, FieldsShown, InputsOK, ToldOK, TraceOK
<1> QED BY <1>1, SysAsks, SysServes, SysAnswers DEF SysNext

\* Whatever is typed, sent, answered late or lost: the server's settings are in
\* their ranges, the page tells of states there are, and its terminal shows the
\* newest events as they were at one time, none left out, the server's own errors
\* in red (SystemPage!SysTypeOK).
THEOREM SysTypeOKAlways == SysSpec => []SysTypeOK
<1>1. SysInv => SysTypeOK
  <2> SUFFICES ASSUME SysInv PROVE SysTypeOK
    OBVIOUS
  <2>1. /\ DOMAIN stored = Setting /\ \A k \in Setting : stored[k] \in Legal(k)
        /\ thread \in ThreadState /\ touched \subseteq Setting /\ told.action \in ToldStates
    BY DEF SysInv, SettingsOK, ToldOK
  <2>2. \A k \in Setting : fields[k] \in Typed \cup {<<n>> : n \in Legal(k)}
    BY DEF SysInv, FieldsShown, InputsOK
  <2>3. Cardinality(sysCalls) <= MaxSysCalls
    BY SystemConstants DEF SysInv, SysCallsOK, NoMore
  <2>4. \E n \in 0 .. Len(trace.log) : trace.shown = NewestEvents(SubSeq(trace.log, n + 1, Len(trace.log)))
    BY DEF SysInv, TraceOK, Past
  <2>5. ASSUME NEW i \in DOMAIN TerminalRows PROVE TerminalRows[i].badge = "red" <=> trace.shown[i] \in 500 .. 599
    <3>1. trace.shown \in Seq(Codes)
      BY PastAreCodes DEF SysInv, TraceOK
    <3>2. DOMAIN NewestEvents(trace.shown) \subseteq DOMAIN trace.shown
      BY <3>1, NewestAreCodes
    <3>3. i \in DOMAIN NewestEvents(trace.shown) /\ TerminalRows[i].badge = Badge(trace.shown[i])
      BY DEF TerminalRows
    <3>4. trace.shown[i] \in Codes
      BY <3>1, <3>2, <3>3
    <3>5. trace.shown[i] \in 0 .. 599
      BY <3>4, SystemConstants
    <3> QED BY <3>3, <3>5, SMTT(20) DEF Badge
  <2> QED BY <2>1, <2>2, <2>3, <2>4, <2>5 DEF SysTypeOK, ToldStates
<1> QED BY <1>1, SysInvInit, SysInvNext, PTL DEF SysSpec

(* The rules of a filter and the drafts of a blueprint. *)

\* Whatever column and operator a rule is given in whatever order, it has an
\* operator of its column (RankingFilters!FiltersTypeOK).
THEOREM FiltersTypeOKAlways == FiltersSpec => []FiltersTypeOK
<1>1. FiltersInv => FiltersTypeOK
  <2> SUFFICES ASSUME FiltersInv, NEW i \in DOMAIN draftRules
               PROVE  /\ draftRules[i].column \in DOMAIN ColumnType
                      /\ Contains(Operators(draftRules[i].column), draftRules[i].op)
                      /\ {draftRules[i].value, draftRules[i].min, draftRules[i].max} \subseteq RuleInputs
    BY DEF FiltersTypeOK
  <2>1. draftRules[i] \in Rule
    BY DEF FiltersInv
  <2> QED BY <2>1 DEF Rule
<1> QED BY <1>1, FiltersInvariant, PTL

CreatingOK ==
  /\ creating = [submitting |-> creating.submitting, count |-> creating.count, metadata |-> creating.metadata]
  /\ creating.submitting \in BOOLEAN
  /\ creating.count \in 0 .. MaxBlueprints
  /\ creating.submitting => creating.count < MaxBlueprints

TwoMaps == DOMAIN config.ind = DOMAIN config.scalers

BlueprintTypes == CreatingOK /\ TwoMaps

LEMMA BlueprintTypesInit == BlueprintInit => BlueprintTypes
BY BlueprintWizardAssumption DEF BlueprintInit, BlueprintTypes, CreatingOK, TwoMaps

LEMMA CreatingStaysOK == CreatingOK /\ [BlueprintNext]_blueprintVars => CreatingOK'
<1> SUFFICES ASSUME CreatingOK, [BlueprintNext]_blueprintVars PROVE CreatingOK'
  OBVIOUS
<1>1. MaxBlueprints \in Nat
  BY BlueprintWizardAssumption
<1>2. CASE UNCHANGED creating
  BY <1>2 DEF CreatingOK
<1>3. CASE CatalogueArrives
  <2>1. creating' = [submitting |-> creating.submitting, count |-> creating.count, metadata |-> FALSE]
    BY <1>3 DEF CatalogueArrives, CreatingOK
  <2> QED BY <2>1 DEF CreatingOK
<1>4. CASE Create
  <2>1. creating' = [submitting |-> TRUE, count |-> creating.count, metadata |-> creating.metadata]
        /\ creating.count < MaxBlueprints
    BY <1>4 DEF Create, CreatingOK
  <2> QED BY <2>1 DEF CreatingOK
<1>5. CASE CreateAnswered
  <2>1. PICK n \in {0, 1} :
          creating' = [submitting |-> FALSE, count |-> creating.count + n, metadata |-> creating.metadata]
    <3>1. PICK n \in {0, 1} : \/ creating' = [creating EXCEPT !.submitting = FALSE, !.count = @ + n]
                              \/ creating' = [creating EXCEPT !.submitting = FALSE]
      BY <1>5 DEF CreateAnswered
    <3>2. creating.count + 0 = creating.count
      BY DEF CreatingOK
    <3> QED BY <3>1, <3>2 DEF CreatingOK
  <2>2. creating.count < MaxBlueprints
    BY <1>5 DEF CreateAnswered, CreatingOK
  <2>3. creating.count + n \in 0 .. MaxBlueprints
    BY <1>1, <2>2 DEF CreatingOK
  <2> QED BY <2>1, <2>3 DEF CreatingOK
<1>6. \/ UNCHANGED creating \/ CatalogueArrives \/ Create \/ CreateAnswered
  BY DEF BlueprintNext, BlueprintStepNext, BlueprintStepBack, NameBlueprint, SelectReferenceModel, UpdateModelParam,
         ToggleIndicator, UpdateIndicatorParam, UpdateIndicatorOutputScaler, blueprintVars
<1> QED BY <1>2, <1>3, <1>4, <1>5, <1>6

LEMMA TwoMapsStay == BlueprintInv /\ TwoMaps /\ [BlueprintNext]_blueprintVars => TwoMaps'
<1> SUFFICES ASSUME BlueprintInv, TwoMaps, [BlueprintNext]_blueprintVars PROVE TwoMaps'
  OBVIOUS
<1>1. DOMAIN config = ConfigFields
  BY DEF BlueprintInv
<1>2. CASE UNCHANGED <<config.ind, config.scalers>>
  BY <1>2 DEF TwoMaps
<1>3. CASE NameBlueprint \/ SelectReferenceModel \/ UpdateModelParam
  <2>1. UNCHANGED <<config.ind, config.scalers>>
    BY <1>1, <1>3 DEF NameBlueprint, SelectReferenceModel, Selected, UpdateModelParam, ConfigFields
  <2> QED BY <1>2, <2>1
<1>4. CASE ToggleIndicator
  <2>1. PICK i : config' = Toggled(i)
    BY <1>4 DEF ToggleIndicator
  <2>2. CASE i \in DOMAIN config.ind
    <3>1. /\ config'.ind = Restrict(config.ind, DOMAIN config.ind \ {i})
          /\ config'.scalers = Restrict(config.scalers, DOMAIN config.scalers \ {i})
      BY <1>1, <2>1, <2>2 DEF Toggled, ConfigFields
    <3> QED BY <3>1 DEF TwoMaps, Restrict
  <2>3. CASE i \notin DOMAIN config.ind
    <3>1. PICK x, y : config'.ind = Put(config.ind, i, x) /\ config'.scalers = Put(config.scalers, i, y)
      BY <1>1, <2>1, <2>3 DEF Toggled, ConfigFields
    <3> QED BY <3>1 DEF TwoMaps, Put
  <2> QED BY <2>2, <2>3
<1>5. CASE UpdateIndicatorParam
  <2>1. PICK i, x : config' = [config EXCEPT !.ind[i] = x]
    BY <1>5 DEF UpdateIndicatorParam
  <2>2. DOMAIN config'.ind = DOMAIN config.ind /\ config'.scalers = config.scalers
    BY <1>1, <2>1 DEF ConfigFields
  <2> QED BY <2>2 DEF TwoMaps
<1>6. CASE UpdateIndicatorOutputScaler
  <2>1. PICK i, x : i \in DOMAIN config.ind /\ config' = [config EXCEPT !.scalers = Put(@, i, x)]
    BY <1>6 DEF UpdateIndicatorOutputScaler
  <2>2. config'.ind = config.ind /\ config'.scalers = Put(config.scalers, i, x)
    BY <1>1, <2>1 DEF ConfigFields
  <2> QED BY <2>1, <2>2 DEF TwoMaps, Put
<1>7. \/ UNCHANGED config
      \/ NameBlueprint \/ SelectReferenceModel \/ UpdateModelParam
      \/ ToggleIndicator \/ UpdateIndicatorParam \/ UpdateIndicatorOutputScaler
  BY DEF BlueprintNext, BlueprintStepNext, BlueprintStepBack, CatalogueArrives, Create, CreateAnswered, blueprintVars
<1> QED BY <1>2, <1>3, <1>4, <1>5, <1>6, <1>7

\* No more blueprints are created than requests allow, and each selected indicator
\* has its parameters and its scaling, in two maps
\* (BlueprintWizard!BlueprintTypeOK).
THEOREM BlueprintTypeOKAlways == BlueprintSpec => []BlueprintTypeOK
<1>1. BlueprintInv /\ BlueprintTypes => BlueprintTypeOK
  BY DEF BlueprintInv, BlueprintTypes, CreatingOK, TwoMaps, BlueprintTypeOK
<1>2. BlueprintSpec => []BlueprintTypes
  <2>1. BlueprintInv /\ BlueprintTypes /\ [BlueprintNext]_blueprintVars => BlueprintTypes'
    BY CreatingStaysOK, TwoMapsStay DEF BlueprintTypes
  <2> QED BY <2>1, BlueprintTypesInit, BlueprintInvariant, PTL DEF BlueprintSpec
<1> QED BY <1>1, <1>2, BlueprintInvariant, PTL

(* The picker's list, dialog and choice are of blueprints there are. *)

Listed(b) == b \in Option \cup {NoOption}

QueryOK(q) == q = [terms |-> q.terms, page |-> q.page] /\ q.terms \in DOMAIN Listing /\ q.page \in Nat \ {0}

OneLive(requests, kind) ==
  \A r, s \in requests : r.kind = kind /\ r.live = TRUE /\ s.kind = kind /\ s.live = TRUE => r = s

PickTypes ==
  /\ QueryOK(query)
  /\ list.options \subseteq Option
  /\ Listed(preview.id) /\ Listed(preview.blueprint)
  /\ Listed(choice.blueprint) /\ Listed(choice.option)
  /\ OneLive(asked, "list") /\ OneLive(asked, "preview")

LEMMA PagesAreOptions == ASSUME NEW q, QueryOK(q) PROVE Page(q) \subseteq Option
BY DEF Page, QueryOK, Option

LEMMA PickTypesInit == PickerInit => PickTypes
<1> SUFFICES ASSUME PickerInit PROVE PickTypes
  OBVIOUS
<1>1. QueryOK(query)
  BY DEF PickerInit, QueryOK
<1>2. OneLive(asked, "list") /\ OneLive(asked, "preview")
  BY DEF PickerInit, OneLive
<1> QED BY <1>1, <1>2 DEF PickerInit, PickTypes, Listed

\* Of a kind that is asked for anew, one request is live; another kind keeps its own.
LEMMA AskedOneLive ==
  ASSUME \A r \in asked : IsRequest(r), NEW kind, NEW of,
         OneLive(asked, "list"), OneLive(asked, "preview"),
         \/ asked' = Forgotten(kind) \cup {[kind |-> kind, of |-> of, live |-> TRUE]}
         \/ asked' = Forgotten(kind)
  PROVE  OneLive(asked', "list") /\ OneLive(asked', "preview")
<1> DEFINE new == [kind |-> kind, of |-> of, live |-> TRUE]
<1>1. \A r \in Forgotten(kind) : (r.kind = kind => r.live = FALSE) /\ (r.kind # kind => r \in asked)
  BY ForgottenAre
<1>2. new.kind = kind
  OBVIOUS
<1>3. \A r \in asked' : r = new \/ r \in Forgotten(kind)
  OBVIOUS
<1> HIDE DEF new
<1>4. ASSUME NEW k, OneLive(asked, k) PROVE OneLive(asked', k)
  <2> SUFFICES ASSUME NEW r \in asked', NEW s \in asked', r.kind = k, r.live = TRUE, s.kind = k, s.live = TRUE
               PROVE  r = s
    BY DEF OneLive
  <2>1. CASE k = kind
    BY <1>1, <1>3, <2>1
  <2>2. CASE k # kind
    <3>1. r \in asked /\ s \in asked
      BY <1>1, <1>2, <1>3, <2>2
    <3> QED BY <1>4, <3>1 DEF OneLive
  <2> QED BY <2>1, <2>2
<1> QED BY <1>4

LEMMA PickTypesNext == PickerInv /\ PickTypes /\ [PickerNext]_pickerVars => PickTypes'
<1> SUFFICES ASSUME PickerInv, PickTypes, [PickerNext]_pickerVars PROVE PickTypes'
  OBVIOUS
<1>1. /\ \A r \in asked : IsRequest(r) /\ PickRequestOK(r)
      /\ IsList /\ IsPreview /\ QueryOK(query)
      /\ OneLive(asked, "list") /\ OneLive(asked, "preview")
  BY DEF PickerInv, PickRequestOK, PickTypes
<1>2. ASSUME NEW q, QueryOK(q), Requery(q) PROVE PickTypes'
  <2>1. /\ query' = q /\ list' = [list EXCEPT !.loading = TRUE] /\ UNCHANGED <<preview, choice>>
        /\ asked' = Forgotten("list") \cup {[kind |-> "list", of |-> q, live |-> TRUE]}
    BY <1>2 DEF Requery, Ask
  <2>2. OneLive(asked', "list") /\ OneLive(asked', "preview")
    BY <1>1, <2>1, AskedOneLive
  <2>3. list'.options = list.options
    BY <1>1, <2>1 DEF IsList
  <2> QED BY <1>2, <2>1, <2>2, <2>3 DEF PickTypes
<1>3. CASE EditTerms
  <2>1. PICK terms \in DOMAIN Listing : Requery([terms |-> terms, page |-> 1])
    BY <1>3 DEF EditTerms
  <2>2. QueryOK([terms |-> terms, page |-> 1])
    BY DEF QueryOK
  <2> QED BY <1>2, <2>1, <2>2
<1>4. CASE PreviousPage \/ NextPage
  <2>1. PICK p : Requery([query EXCEPT !.page = p])
                 /\ ((p = query.page - 1 /\ query.page > 1) \/ p = query.page + 1)
    BY <1>4 DEF PreviousPage, NextPage
  <2>2. p \in Nat \ {0}
    BY <1>1, <2>1 DEF QueryOK
  <2>3. [query EXCEPT !.page = p] = [terms |-> query.terms, page |-> p]
    BY <1>1 DEF QueryOK
  <2>4. QueryOK([query EXCEPT !.page = p])
    BY <1>1, <2>2, <2>3 DEF QueryOK
  <2> QED BY <1>2, <2>1, <2>4
<1>5. CASE Choose
  <2>1. PICK b \in Shown : choice' = [blueprint |-> b, option |-> b]
    BY <1>5 DEF Choose
  <2>2. b \in Option
    BY DEF Shown, PickTypes
  <2> QED BY <1>5, <2>1, <2>2 DEF Choose, PickTypes, Listed
<1>6. CASE OpenPreview
  <2>1. PICK b \in Shown : preview' = [preview EXCEPT !.id = b, !.loading = TRUE] /\ Ask("preview", b)
    BY <1>6 DEF OpenPreview
  <2>2. b \in Option
    BY DEF Shown, PickTypes
  <2>3. preview'.id = b /\ preview'.blueprint = preview.blueprint
    BY <1>1, <2>1 DEF IsPreview
  <2>4. OneLive(asked', "list") /\ OneLive(asked', "preview")
    BY <1>1, <2>1, AskedOneLive DEF Ask
  <2> QED BY <1>6, <2>2, <2>3, <2>4 DEF OpenPreview, PickTypes, Listed
<1>7. CASE ClosePreview
  <2>1. preview'.id = NoOption /\ preview'.blueprint = NoOption
    BY <1>1, <1>7 DEF ClosePreview, IsPreview
  <2>2. OneLive(asked', "list") /\ OneLive(asked', "preview")
    BY <1>1, <1>7, AskedOneLive DEF ClosePreview
  <2> QED BY <1>7, <2>1, <2>2 DEF ClosePreview, PickTypes, Listed
<1>8. CASE Answer
  <2>1. PICK r \in asked : \/ r.kind = "list" /\ (ListArrives(r) \/ ListFails(r))
                           \/ r.kind = "preview" /\ PreviewArrives(r)
                           \/ r.kind = "model" /\ ModelArrives(r)
    BY <1>8 DEF Answer
  <2>2. asked' = asked \ {r} /\ UNCHANGED query
    BY <2>1 DEF ListArrives, ListFails, PreviewArrives, ModelArrives
  <2>3. OneLive(asked', "list") /\ OneLive(asked', "preview")
    BY <1>1, <2>2 DEF OneLive
  <2>4. CASE r.kind = "list" /\ (ListArrives(r) \/ ListFails(r))
    <3>1. UNCHANGED <<preview, choice>>
      BY <2>4 DEF ListArrives, ListFails
    <3>2. list' = list \/ (r.live /\ list' = [options |-> Page(r.of), total |-> Len(Listing[r.of.terms]), loading |-> FALSE])
      BY <2>4 DEF ListArrives, ListFails
    <3>3. r.live => QueryOK(r.of)
      BY <1>1, <2>4 DEF PickRequestOK
    <3>4. list'.options \subseteq Option
      BY <3>2, <3>3, PagesAreOptions DEF PickTypes
    <3> QED BY <2>2, <2>3, <3>1, <3>4 DEF PickTypes
  <2>5. CASE r.kind = "preview" /\ PreviewArrives(r)
    <3>1. UNCHANGED <<list, choice>>
      BY <2>5 DEF PreviewArrives
    <3>2. UNCHANGED preview
          \/ \E b \in {r.of, NoOption} : r.live /\ preview' = [preview EXCEPT !.blueprint = b, !.loading = FALSE]
      BY <2>5, Zenon DEF PreviewArrives
    <3>3. r.live => r.of = preview.id
      BY <1>1, <2>5 DEF PickRequestOK
    <3>4. preview'.id = preview.id /\ preview'.blueprint \in {preview.blueprint, preview.id, NoOption}
      <4>1. CASE UNCHANGED preview
        BY <4>1
      <4>2. ASSUME NEW b \in {r.of, NoOption}, r.live, preview' = [preview EXCEPT !.blueprint = b, !.loading = FALSE]
            PROVE  preview'.id = preview.id /\ preview'.blueprint \in {preview.blueprint, preview.id, NoOption}
        BY <1>1, <3>3, <4>2 DEF IsPreview
      <4> QED BY <3>2, <4>1, <4>2
    <3>5. Listed(preview.id) /\ Listed(preview.blueprint) /\ Listed(NoOption)
      BY DEF PickTypes, Listed
    <3>6. Listed(preview'.id) /\ Listed(preview'.blueprint)
      BY <3>4, <3>5
    <3> QED BY <2>2, <2>3, <3>1, <3>6 DEF PickTypes
  <2>6. CASE r.kind = "model" /\ ModelArrives(r)
    <3>1. UNCHANGED <<list, preview>> /\ choice'.blueprint = r.of /\ choice'.option \in {r.of, choice.option}
      BY <2>6 DEF ModelArrives
    <3>2. Listed(r.of)
      <4>1. r.of = Reused
        BY <1>1, <2>6 DEF PickRequestOK
      <4>2. Listed(Reused)
        BY PickerAssumption DEF PickerAssumption, Listed
      <4> QED BY <4>1, <4>2
    <3>3. Listed(choice'.blueprint) /\ Listed(choice'.option)
      BY <3>1, <3>2 DEF PickTypes
    <3> QED BY <2>2, <2>3, <3>1, <3>3 DEF PickTypes
  <2> QED BY <2>1, <2>4, <2>5, <2>6
<1>9. CASE UNCHANGED pickerVars
  BY <1>9 DEF pickerVars, PickTypes
<1> QED BY <1>3, <1>4, <1>5, <1>6, <1>7, <1>8, <1>9 DEF PickerNext

\* The pages turned to are there to be turned to, the list, the dialog and the
\* choice are of blueprints that are listed, and the step waits for the answer to
\* one list and one preview at most (BlueprintPicker!PickerTypeOK).
THEOREM PickerTypeOKAlways == PickerSpec => []PickerTypeOK
<1>1. ASSUME PickTypes PROVE PickerTypeOK
  <2>1. ASSUME NEW kind \in {"list", "preview"} PROVE Cardinality({r \in asked : r.kind = kind /\ r.live}) <= 1
    <3> DEFINE some == {r \in asked : r.kind = kind /\ r.live}
    <3>1. OneLive(asked, kind)
      BY <1>1 DEF PickTypes
    <3>2. \A r, s \in some : r = s
      BY <3>1 DEF OneLive
    <3> HIDE DEF some
    <3>3. some = {} \/ \E r : some = {r}
      BY <3>2
    <3>4. Cardinality(some) \in {0, 1}
      BY ONLY <3>3, FS_EmptySet, FS_Singleton
    <3> QED BY <3>4 DEF some
  <2>2. /\ query.page \in Nat \ {0} /\ list.options \subseteq Option
        /\ {preview.id, preview.blueprint, choice.blueprint, choice.option} \subseteq Option \cup {NoOption}
    BY <1>1 DEF PickTypes, QueryOK, Listed
  <2> QED BY <2>1, <2>2 DEF PickerTypeOK
<1> QED BY <1>1, PickTypesInit, PickTypesNext, PickerInvariant, PTL DEF PickerSpec

(* No more previews are under way than were asked for. *)

PreviewsCounted == target.asked <= MaxPreviews /\ NoMore(previews, target.asked)

LEMMA PreviewAsked ==
  ASSUME PreviewInv, PreviewsCounted, NEW typed, LoadPreview(target.strategy, typed, form.mode),
         target'.asked = target.asked + 1
  PROVE  PreviewsCounted'
<1> DEFINE r == PreviewPayload(target.strategy, typed, form.mode)
           n == Cardinality(previews)
<1>1. /\ target.asked \in Nat /\ target.asked < MaxPreviews /\ MaxPreviews \in Nat
      /\ IsFiniteSet(previews) /\ n \in Nat /\ n <= target.asked
  BY PreviewAssumption DEF PreviewInv, IsTarget, LoadPreview, PreviewsCounted, NoMore
<1>2. previews' = previews \cup {r}
  BY DEF LoadPreview
<1> HIDE DEF r
<1>3. IsFiniteSet(previews \cup {r}) /\ Cardinality(previews \cup {r}) \in {n, n + 1}
  BY <1>1, FS_AddElement
<1> HIDE DEF n
<1>4. IsFiniteSet(previews') /\ Cardinality(previews') \in 0 .. target'.asked
  BY <1>1, <1>2, <1>3
<1>5. target'.asked <= MaxPreviews
  BY <1>1
<1> QED BY <1>4, <1>5 DEF PreviewsCounted, NoMore

LEMMA PreviewsCountedNext == PreviewInv /\ PreviewsCounted /\ [PreviewNext]_previewVars => PreviewsCounted'
<1> SUFFICES ASSUME PreviewInv, PreviewsCounted, [PreviewNext]_previewVars PROVE PreviewsCounted'
  OBVIOUS
<1>1. /\ target = [strategy |-> target.strategy, open |-> target.open, asked |-> target.asked]
      /\ target.asked \in Nat
  BY DEF PreviewInv, IsTarget
<1>2. ASSUME target'.asked = target.asked, UNCHANGED previews PROVE PreviewsCounted'
  BY <1>2 DEF PreviewsCounted
<1>3. CASE OpenInfo
  <2>1. LoadPreview(target.strategy, "default", form.mode)
    BY <1>3 DEF OpenInfo, DefaultParam
  <2>2. target'.asked = target.asked + 1
    BY <1>1, <1>3 DEF OpenInfo
  <2> QED BY <2>1, <2>2, PreviewAsked
<1>4. CASE ContextArrives
  <2>1. LoadPreview(target.strategy, "default", form.mode)
    BY <1>4 DEF ContextArrives, DefaultParam
  <2>2. target'.asked = target.asked + 1
    BY <1>1, <1>4 DEF ContextArrives
  <2> QED BY <2>1, <2>2, PreviewAsked
<1>5. CASE Apply
  <2>1. CASE Valid(ActiveParam)
    <3>1. LoadPreview(target.strategy, ActiveParam, form.mode)
      BY <1>5, <2>1 DEF Apply
    <3>2. target'.asked = target.asked + 1
      BY <1>1, <1>5, <2>1 DEF Apply
    <3> QED BY <3>1, <3>2, PreviewAsked
  <2>2. CASE ~Valid(ActiveParam)
    BY <1>2, <1>5, <2>2 DEF Apply
  <2> QED BY <2>1, <2>2
<1>6. CASE ChooseTarget
  BY <1>1, <1>2, <1>6 DEF ChooseTarget
<1>7. CASE CloseInfo
  BY <1>1, <1>2, <1>7 DEF CloseInfo
<1>8. CASE TypeParam \/ SetMode \/ UNCHANGED previewVars
  BY <1>2, <1>8 DEF TypeParam, SetMode, previewVars
<1>9. CASE PreviewAnswered \/ PreviewFails
  <2>1. PICK r \in previews : previews' = previews \ {r}
    BY <1>9 DEF PreviewAnswered, PreviewFails
  <2>2. UNCHANGED target
    BY <1>9 DEF PreviewAnswered, PreviewFails
  <2>3. NoMore(previews \ {r}, target.asked)
    BY <1>1, NoMoreOK DEF PreviewsCounted
  <2> QED BY <2>1, <2>2, <2>3 DEF PreviewsCounted
<1> QED BY <1>3, <1>4, <1>5, <1>6, <1>7, <1>8, <1>9 DEF PreviewNext

\* However often the dialog is closed over its requests and opened again, the form
\* holds what can be typed, and no more previews are under way than were asked for
\* (TargetPreview!PreviewTypeOK).
THEOREM PreviewTypeOKAlways == PreviewSpec => []PreviewTypeOK
<1>1. PreviewInit => PreviewsCounted
  <2> SUFFICES ASSUME PreviewInit PROVE PreviewsCounted
    OBVIOUS
  <2>1. target.asked = 0 /\ previews = {}
    BY DEF PreviewInit
  <2> QED BY <2>1, NoneIsNoMore, PreviewAssumption DEF PreviewsCounted
<1>2. PreviewInv /\ PreviewsCounted => PreviewTypeOK
  <2> SUFFICES ASSUME PreviewInv, PreviewsCounted PROVE PreviewTypeOK
    OBVIOUS
  <2>1. target.asked \in 0 .. MaxPreviews /\ Cardinality(previews) <= MaxPreviews
    BY PreviewAssumption DEF PreviewInv, IsTarget, PreviewsCounted, NoMore
  <2> QED BY <2>1 DEF PreviewInv, IsTarget, IsForm, FormTexts, PreviewTypeOK
<1> QED BY <1>1, <1>2, PreviewsCountedNext, PreviewInvariant, PTL DEF PreviewSpec

(* The ranges of the experiment wizard's draft. *)

WizardAsking == {"metadata", "range", "settings", "reuse", "detail", "defaults", "submit"}

DraftInRange(d) ==
  /\ d.start \in Instant /\ d.end \in Instant
  /\ d.blueprint \in Blueprint \cup {NoBlueprint} /\ d.details \subseteq Blueprint
  /\ d.strategy \in Strategy \cup DOMAIN Metadata

\* The detail that is awaited is of a blueprint there is.
WizardTypes ==
  /\ DraftInRange(draft)
  /\ pending \subseteq WizardAsking
  /\ "detail" \in pending => draft.blueprint \in Blueprint
  /\ sent = Unsent \/ DOMAIN sent = PayloadFields
  /\ created \in 0 .. MaxSubmits

SameRanges(d, e) ==
  /\ e.start = d.start /\ e.end = d.end
  /\ e.blueprint = d.blueprint /\ e.details = d.details /\ e.strategy = d.strategy

LEMMA SameRangesOK == ASSUME NEW d, NEW e, SameRanges(d, e) PROVE DraftInRange(d) => DraftInRange(e)
BY DEF SameRanges, DraftInRange

LEMMA MarketInstants == /\ DefaultStart \in Instant /\ Market.latest \in Instant /\ 0 \in Instant
                        /\ MaxSubmits \in Nat /\ "forward_return" \in Strategy
BY WizardAssumption DEF DefaultStart, Instant

LEMMA HydrateTargetRanges == ASSUME NEW d, IsDraft(d) PROVE SameRanges(d, HydrateTarget(d))
BY DEF HydrateTarget, IsDraft, DraftFields, SameRanges

LEMMA HydrateBlueprintRanges == ASSUME NEW d, IsDraft(d) PROVE SameRanges(d, HydrateBlueprint(d))
BY DEF HydrateBlueprint, IsDraft, DraftFields, SameRanges

LEMMA WizardTypesInit == WizardInit => WizardTypes
<1> SUFFICES ASSUME WizardInit PROVE WizardTypes
  OBVIOUS
<1> DEFINE arrived == {"metadata", "range", "settings"} \ pending
           start == IF "range" \in arrived THEN DefaultStart ELSE 0
           end == IF "range" \in arrived THEN Market.latest ELSE 0
           blank == InitialDraft
           first == [blank EXCEPT !.arrived = arrived, !.start = start, !.end = end]
<1>1. draft = HydrateTarget(first) /\ pending \subseteq Opening /\ sent = Unsent /\ created = 0
  BY DEF WizardInit
<1>2. start \in Instant /\ end \in Instant
  BY MarketInstants
<1>3. /\ IsDraft(blank) /\ blank.blueprint = NoBlueprint /\ blank.details = {}
      /\ blank.strategy = "forward_return"
  BY DEF InitialDraft, IsDraft, DraftFields
<1> HIDE DEF blank, start, end, arrived
<1>4. /\ IsDraft(first) /\ first.start = start /\ first.end = end /\ first.blueprint = NoBlueprint
      /\ first.details = {} /\ first.strategy = "forward_return"
  BY <1>3 DEF IsDraft, DraftFields
<1> HIDE DEF first
<1>5. DraftInRange(first)
  BY <1>2, <1>4, MarketInstants DEF DraftInRange
<1>6. DraftInRange(draft)
  BY <1>1, <1>4, <1>5, HydrateTargetRanges, SameRangesOK
<1>7. pending \subseteq WizardAsking /\ "detail" \notin pending
  BY <1>1 DEF Opening, WizardAsking
<1> QED BY <1>1, <1>6, <1>7, MarketInstants DEF WizardTypes

\* Steps that leave the ranges as they are, and ask for no detail.
LEMMA WizardRangesKept ==
  ASSUME WizardTypes, SameRanges(draft, draft'), pending' \subseteq pending \cup {"defaults", "submit"},
         UNCHANGED <<sent, created>>
  PROVE  WizardTypes'
<1>1. DraftInRange(draft')
  BY SameRangesOK DEF WizardTypes
<1>2. pending' \subseteq WizardAsking
  BY DEF WizardTypes, WizardAsking
<1>3. "detail" \in pending' => draft'.blueprint \in Blueprint
  BY DEF WizardTypes, SameRanges
<1> QED BY <1>1, <1>2, <1>3 DEF WizardTypes

LEMMA WizardTypesEdit ==
  ASSUME WizardInv, WizardTypes,
         \/ NextStep \/ Back \/ EditName \/ EditMode \/ UseDefaults \/ StartDrag \/ MoveDrag \/ StopDrag
         \/ EditParam \/ EditOverride \/ EditScaler \/ EditRun \/ SettingsArrive \/ RequestFails
  PROVE  WizardTypes'
<1>1. UNCHANGED <<sent, created>> /\ pending' \subseteq pending \cup {"defaults"}
  BY DEF NextStep, Back, EditName, EditMode, UseDefaults, StartDrag, MoveDrag, StopDrag, Drag,
         EditParam, EditOverride, EditScaler, EditRun, SettingsArrive, RequestFails, Answered
<1>2. IsDraft(draft)
  BY DEF WizardInv
<1> SUFFICES SameRanges(draft, draft')
  BY <1>1, WizardRangesKept
<1> USE DEF SameRanges, IsDraft, DraftFields
<1>3. CASE NextStep \/ Back \/ UseDefaults \/ StopDrag \/ RequestFails
  BY <1>3 DEF NextStep, Back, UseDefaults, StopDrag, RequestFails
<1>4. CASE EditName \/ EditMode
  <2>1. \E name, mode : draft' = [draft EXCEPT !.name = name] \/ draft' = [draft EXCEPT !.mode = mode]
    BY <1>4 DEF EditName, EditMode
  <2> QED BY <1>2, <2>1
<1>5. CASE StartDrag \/ MoveDrag
  <2>1. PICK kind : Drag(kind)
    BY <1>5 DEF StartDrag, MoveDrag
  <2>2. PICK first, second : draft' = ApplyBoundaries(draft, first, second)
    BY <2>1 DEF Drag
  <2> QED BY <1>2, <2>2 DEF ApplyBoundaries
<1>6. CASE EditParam
  <2>1. PICK f, text : draft' = [draft EXCEPT !.params[f] = text, !.overrides = Put(@, f, text)]
    BY <1>6 DEF EditParam
  <2> QED BY <1>2, <2>1
<1>7. CASE EditOverride
  <2>1. (\E f, text : draft' = [draft EXCEPT !.arch[f] = text])
        \/ (\E k, text : draft' = [draft EXCEPT !.ind[k] = text])
        \/ (\E f, text : draft' = [draft EXCEPT !.overrides = Put(@, f, text)])
    BY <1>7 DEF EditOverride
  <2>2. ASSUME NEW f, NEW text, draft' = [draft EXCEPT !.arch[f] = text] PROVE SameRanges(draft, draft')
    BY <1>2, <2>2
  <2>3. ASSUME NEW k, NEW text, draft' = [draft EXCEPT !.ind[k] = text] PROVE SameRanges(draft, draft')
    BY <1>2, <2>3
  <2>4. ASSUME NEW f, NEW text, draft' = [draft EXCEPT !.overrides = Put(@, f, text)]
        PROVE  SameRanges(draft, draft')
    BY <1>2, <2>4
  <2> QED BY <2>1, <2>2, <2>3, <2>4
<1>8. CASE EditScaler
  <2>1. PICK i, output, scaler : draft' = [draft EXCEPT !.scalers = Put(@, i, Put(@[i], output, scaler))]
    BY <1>8 DEF EditScaler
  <2> QED BY <1>2, <2>1
<1>9. CASE EditRun
  <2>1. (\E n : draft' = [draft EXCEPT !.count = n, !.touched = TRUE])
        \/ draft' = [draft EXCEPT !.threshold = ~@]
    BY <1>9 DEF EditRun
  <2>2. ASSUME NEW n, draft' = [draft EXCEPT !.count = n, !.touched = TRUE] PROVE SameRanges(draft, draft')
    BY <1>2, <2>2
  <2>3. ASSUME draft' = [draft EXCEPT !.threshold = ~@] PROVE SameRanges(draft, draft')
    BY <1>2, <2>3
  <2> QED BY <2>1, <2>2, <2>3
<1>10. CASE SettingsArrive
  <2>1. draft' = [draft EXCEPT !.arrived = @ \cup {"settings"}]
    BY <1>10 DEF SettingsArrive
  <2> QED BY <1>2, <2>1
<1> QED BY <1>3, <1>4, <1>5, <1>6, <1>7, <1>8, <1>9, <1>10

\* The dates are instants of the calendar, or the market's.
LEMMA WizardTypesDates ==
  ASSUME WizardInv, WizardTypes, EditDates \/ RangeArrives \/ DefaultsArrive
  PROVE  WizardTypes'
<1>1. UNCHANGED <<sent, created>> /\ pending' \subseteq pending
  BY DEF EditDates, RangeArrives, DefaultsArrive, Answered
<1>2. IsDraft(draft) /\ DraftInRange(draft)
  BY DEF WizardInv, WizardTypes
<1>3. /\ draft'.start \in Instant /\ draft'.end \in Instant
      /\ draft'.blueprint = draft.blueprint /\ draft'.details = draft.details /\ draft'.strategy = draft.strategy
  <2> USE DEF IsDraft, DraftFields
  <2>0. draft.start \in Instant /\ draft.end \in Instant
    BY <1>2 DEF DraftInRange
  <2>1. CASE EditDates
    <3>1. PICK t \in Instant : draft' = [draft EXCEPT !.start = t] \/ draft' = [draft EXCEPT !.end = t]
      BY <2>1 DEF EditDates
    <3> QED BY <1>2, <2>0, <3>1
  <2>2. CASE RangeArrives \/ DefaultsArrive
    <3> DEFINE Set(x, s, e) == draft' = [draft EXCEPT !.arrived = x, !.start = s, !.end = e]
    <3>0. \/ Set(draft.arrived \cup {"range"}, IF draft.start = 0 THEN DefaultStart ELSE draft.start,
                 IF draft.end = 0 THEN Market.latest ELSE draft.end)
          \/ Set(draft.arrived \cup {"range"}, DefaultStart, Market.latest)
      BY <2>2 DEF RangeArrives, DefaultsArrive
    <3>1. PICK x, s, e : Set(x, s, e) /\ s \in {DefaultStart, draft.start} /\ e \in {Market.latest, draft.end}
      <4> HIDE DEF Set
      <4> QED BY <3>0
    <3>2. s \in Instant /\ e \in Instant
      BY <2>0, <3>1, MarketInstants
    <3> QED BY <1>2, <3>1, <3>2
  <2> QED BY <2>1, <2>2
<1>4. DraftInRange(draft')
  BY <1>2, <1>3 DEF DraftInRange
<1>5. pending' \subseteq WizardAsking /\ ("detail" \in pending' => draft'.blueprint \in Blueprint)
  BY <1>1, <1>3 DEF WizardTypes
<1> QED BY <1>1, <1>4, <1>5 DEF WizardTypes

\* A strategy that is chosen is one the page or the server describes.
LEMMA WizardTypesTarget ==
  ASSUME WizardInv, WizardTypes, PickTarget \/ MetadataArrives
  PROVE  WizardTypes'
<1>1. UNCHANGED <<sent, created>> /\ pending' \subseteq pending
  BY DEF PickTarget, MetadataArrives, Answered
<1>2. IsDraft(draft) /\ DraftInRange(draft)
  BY DEF WizardInv, WizardTypes
<1>3. CASE PickTarget
  <2>1. PICK s \in TargetOptions(draft) :
          LET chosen == [draft EXCEPT !.strategy = s]
          IN draft' = [chosen EXCEPT !.params = TargetDefaults(chosen), !.overrides = TargetDefaults(chosen)]
    BY <1>3 DEF PickTarget
  <2>2. s \in Strategy \cup DOMAIN Metadata
    BY DEF TargetOptions
  <2>3. /\ draft'.start = draft.start /\ draft'.end = draft.end /\ draft'.blueprint = draft.blueprint
        /\ draft'.details = draft.details /\ draft'.strategy = s
    BY <1>2, <2>1 DEF IsDraft, DraftFields
  <2>4. DraftInRange(draft')
    BY <1>2, <2>2, <2>3 DEF DraftInRange
  <2>5. pending' \subseteq WizardAsking /\ ("detail" \in pending' => draft'.blueprint \in Blueprint)
    BY <1>1, <2>3 DEF WizardTypes
  <2> QED BY <1>1, <2>4, <2>5 DEF WizardTypes
<1>4. CASE MetadataArrives
  <2> DEFINE d == [draft EXCEPT !.arrived = @ \cup {"metadata"}]
  <2>1. IsDraft(d) /\ SameRanges(draft, d)
    BY <1>2 DEF IsDraft, DraftFields, SameRanges
  <2>2. draft' = HydrateTarget(d)
    BY <1>4 DEF MetadataArrives
  <2> HIDE DEF d
  <2>3. SameRanges(draft, draft')
    BY <2>1, <2>2, HydrateTargetRanges DEF SameRanges
  <2> QED BY <1>1, <2>3, WizardRangesKept
<1> QED BY <1>3, <1>4

\* The blueprint of the draft is one there is, from its selection on.
LEMMA WizardTypesBlueprint ==
  ASSUME WizardInv, WizardTypes, SelectBlueprint \/ DetailArrives \/ ReuseArrives
  PROVE  WizardTypes'
<1>1. UNCHANGED <<sent, created>>
  BY DEF SelectBlueprint, DetailArrives, ReuseArrives
<1>2. IsDraft(draft) /\ DraftInRange(draft) /\ pending \subseteq WizardAsking
  BY DEF WizardInv, WizardTypes
<1>3. ASSUME NEW d, IsDraft(d), DraftInRange(d), d.blueprint \in Blueprint, draft' = HydrateBlueprint(d) \/ draft' = d,
             pending' \subseteq WizardAsking
      PROVE  WizardTypes'
  <2>1. SameRanges(d, draft')
    BY <1>3, HydrateBlueprintRanges DEF SameRanges
  <2>2. DraftInRange(draft') /\ draft'.blueprint \in Blueprint
    BY <1>3, <2>1, SameRangesOK DEF SameRanges
  <2> QED BY <1>1, <1>3, <2>2 DEF WizardTypes
<1>4. CASE SelectBlueprint
  <2>1. PICK b \in Blueprint :
          LET d == [draft EXCEPT !.blueprint = b]
          IN (draft' = HydrateBlueprint(d) \/ draft' = d) /\ pending' \subseteq pending \cup {"detail"}
    BY <1>4 DEF SelectBlueprint, RequestDetail
  <2> DEFINE d == [draft EXCEPT !.blueprint = b]
  <2>2. /\ IsDraft(d) /\ d.blueprint = b /\ d.start = draft.start /\ d.end = draft.end
        /\ d.details = draft.details /\ d.strategy = draft.strategy
    BY <1>2 DEF IsDraft, DraftFields
  <2>3. draft' = HydrateBlueprint(d) \/ draft' = d
    BY <2>1
  <2> HIDE DEF d
  <2>4. DraftInRange(d) /\ d.blueprint \in Blueprint
    BY <1>2, <2>2 DEF DraftInRange
  <2>5. pending' \subseteq WizardAsking
    BY <1>2, <2>1 DEF WizardAsking
  <2> QED BY <1>3, <2>2, <2>3, <2>4, <2>5
<1>5. CASE DetailArrives
  <2> DEFINE d == [draft EXCEPT !.details = @ \cup {draft.blueprint}]
  <2>1. /\ IsDraft(d) /\ d.blueprint = draft.blueprint /\ d.start = draft.start /\ d.end = draft.end
        /\ d.details = draft.details \cup {draft.blueprint} /\ d.strategy = draft.strategy
    BY <1>2 DEF IsDraft, DraftFields
  <2>2. draft' = HydrateBlueprint(d)
    BY <1>5 DEF DetailArrives
  <2> HIDE DEF d
  <2>3. draft.blueprint \in Blueprint
    BY <1>5 DEF DetailArrives, Answered, WizardTypes
  <2>4. DraftInRange(d) /\ d.blueprint \in Blueprint
    BY <1>2, <2>1, <2>3 DEF DraftInRange
  <2>5. pending' \subseteq WizardAsking
    BY <1>2, <1>5 DEF DetailArrives, Answered
  <2> QED BY <1>3, <2>1, <2>2, <2>4, <2>5
<1>6. CASE ReuseArrives
  <2> DEFINE d == [draft EXCEPT !.name = TRUE, !.blueprint = Reuse.blueprint,
                                !.arch = Over(Reuse.arch, @), !.ind = Over(Reuse.ind, @),
                                !.overrides = Over(Reuse.target, @), !.params = Over(Reuse.target, @)]
             changed == d.blueprint # draft.blueprint
  <2>1. /\ draft' = IF changed THEN HydrateBlueprint(d) ELSE d
        /\ pending' = (IF changed THEN RequestDetail(d) ELSE pending) \ {"reuse"}
    BY <1>6 DEF ReuseArrives
  <2>2. /\ IsDraft(d) /\ d.blueprint = Reuse.blueprint /\ d.start = draft.start /\ d.end = draft.end
        /\ d.details = draft.details /\ d.strategy = draft.strategy
    BY <1>2 DEF IsDraft, DraftFields
  <2> HIDE DEF d
  <2>3. Reuse.blueprint \in Blueprint
    BY <1>6, WizardAssumption DEF ReuseArrives, WizardInv
  <2>4. DraftInRange(d) /\ d.blueprint \in Blueprint
    BY <1>2, <2>2, <2>3 DEF DraftInRange
  <2>5. pending' \subseteq WizardAsking
    BY <1>2, <2>1 DEF RequestDetail, WizardAsking
  <2>6. draft' = HydrateBlueprint(d) \/ draft' = d
    BY <2>1
  <2> QED BY <1>3, <2>2, <2>4, <2>5, <2>6
<1> QED BY <1>4, <1>5, <1>6

\* What is submitted has the fields of a payload, and is submitted so often.
LEMMA WizardTypesSubmit ==
  ASSUME WizardTypes, created < MaxSubmits, Submit \/ SubmitAnswered
  PROVE  WizardTypes'
<1>1. UNCHANGED draft /\ pending' \subseteq pending \cup {"submit"}
  BY DEF Submit, SubmitAnswered, Answered
<1>2. sent' \in {sent, Unsent, Payload(draft)}
  BY DEF Submit, SubmitAnswered
<1>3. DOMAIN Payload(draft) = PayloadFields
  BY DEF Payload, PayloadFields
<1>4. created' \in 0 .. MaxSubmits
  BY MarketInstants DEF Submit, SubmitAnswered, WizardTypes
<1>5. sent' = Unsent \/ DOMAIN sent' = PayloadFields
  BY <1>2, <1>3 DEF WizardTypes
<1>6. pending' \subseteq WizardAsking /\ ("detail" \in pending' => draft'.blueprint \in Blueprint)
  BY <1>1 DEF WizardTypes, WizardAsking
<1> QED BY <1>1, <1>4, <1>5, <1>6 DEF WizardTypes

LEMMA WizardTypesNext == WizardInv /\ WizardTypes /\ [WizardNext]_wizardVars => WizardTypes'
<1> SUFFICES ASSUME WizardInv, WizardTypes, [WizardNext]_wizardVars PROVE WizardTypes'
  OBVIOUS
<1>1. CASE UNCHANGED wizardVars
  BY <1>1 DEF wizardVars, WizardTypes
<1>2. CASE WizardNext
  BY <1>2, WizardTypesEdit, WizardTypesDates, WizardTypesTarget, WizardTypesBlueprint, WizardTypesSubmit
  DEF WizardNext
<1> QED BY <1>1, <1>2

\* Whatever is edited, answered late or submitted, the wizard is at one of its
\* steps, and its dates, blueprint, strategy and payload are ones there are
\* (ExperimentWizard!WizardTypeOK).
THEOREM WizardTypeOKAlways == WizardSpec => []WizardTypeOK
<1>1. WizardInv /\ WizardTypes => WizardTypeOK
  <2> SUFFICES ASSUME WizardInv, WizardTypes PROVE WizardTypeOK
    OBVIOUS
  <2>1. step \in 1 .. Len(Steps)
    BY StepsAre DEF WizardInv
  <2> QED BY <2>1 DEF WizardTypes, DraftInRange, WizardAsking, WizardTypeOK
<1>2. WizardSpec => []WizardTypes
  BY WizardTypesInit, WizardTypesNext, WizardInvariant, PTL DEF WizardSpec
<1> QED BY <1>1, <1>2, WizardInvariant, PTL
=============================================================================
