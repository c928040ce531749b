------------------------------- MODULE Pages -------------------------------
(***************************************************************************)
(* The browser's side: the pages, of which a tab shows one.  A page starts  *)
(* afresh when it is opened and keeps nothing when it is left, so nothing   *)
(* passes from one to another but what the server keeps: a behaviour is the *)
(* life of one page, with every answer that reaches it.                     *)
(***************************************************************************)
EXTENDS ExperimentWizard, BlueprintPicker, TargetPreview, BlueprintWizard, ExperimentPage,
        PageLists, RankingFilters, DecisionPages, Favourites, PriceChart, SystemPage, UsersPage, Registration,
        Session, Documentation, ModelPage

CONSTANT Views   \* the pages that may be open

AllViews ==
  {"wizard", "picker", "target", "blueprint", "experiment", "lists", "filters", "decisions", "favourites",
   "chart", "system", "users", "registration", "session", "documentation", "model"}

ASSUME PagesAssumption == Views \subseteq AllViews

VARIABLE view   \* the page that is open

pagesVars ==
  <<view, wizardVars, pickerVars, previewVars, blueprintVars, experimentVars, listVars, draftRules, deskVars,
    favVars, chartVars, sysVars, usersVars, registrationVars, sessionVars, docsVars, modelVars>>

\* The page that is open starts in any of its initial states, the others are in one.
PagesInit ==
  /\ view \in Views
  /\ WizardInit /\ (view # "wizard" => editing = "split")
  /\ PickerInit /\ (view # "picker" => query.terms = <<"", "latest">>)
  /\ PreviewInit /\ (view # "target" => target.strategy = CHOOSE s \in Target : TRUE)
  /\ BlueprintInit
  /\ ExperimentInit /\ (view # "experiment" => watched = "terminal")
  /\ ListInit /\ (view # "lists" => listView = "hub")
  /\ FiltersInit
  /\ DecisionInit /\ (view # "decisions" => desk.page = "jobs")
  /\ FavInit /\ (view # "favourites" => shelf = "library" /\ starred = {})
  /\ ChartInit /\ (view # "chart" => cached.last = 0)
  /\ SysInit /\ (view # "system" => card = "market" /\ thread = "idle")
  /\ UsersInit /\ (view # "users" => duty = "rows" /\ \A u \in People : accounts[u].role = "Admin")
  /\ RegistrationInit
  /\ SessionInit /\ (view # "session" => session = NoUser /\ here.page = "home")
  /\ ModelInit /\ (view # "model" => review = CHOOSE m \in Models : DOMAIN m.metrics = {"f1_score_pct", "accuracy_pct", "false_positive_rate"})
  /\ DocsInit /\ (view # "documentation" => docs.loading)

\* Nothing changes but the page v.
OnlyChanges(v) ==
  /\ UNCHANGED view
  /\ v # "wizard" => UNCHANGED wizardVars
  /\ v # "picker" => UNCHANGED pickerVars
  /\ v # "target" => UNCHANGED previewVars
  /\ v # "blueprint" => UNCHANGED blueprintVars
  /\ v # "experiment" => UNCHANGED experimentVars
  /\ v # "lists" => UNCHANGED listVars
  /\ v # "filters" => UNCHANGED draftRules
  /\ v # "decisions" => UNCHANGED deskVars
  /\ v # "favourites" => UNCHANGED favVars
  /\ v # "chart" => UNCHANGED chartVars
  /\ v # "system" => UNCHANGED sysVars
  /\ v # "users" => UNCHANGED usersVars
  /\ v # "registration" => UNCHANGED registrationVars
  /\ v # "session" => UNCHANGED sessionVars
  /\ v # "documentation" => UNCHANGED docsVars
  /\ v # "model" => UNCHANGED modelVars

PagesNext ==
  \/ view = "wizard" /\ WizardNext /\ OnlyChanges(view)
  \/ view = "picker" /\ PickerNext /\ OnlyChanges(view)
  \/ view = "target" /\ PreviewNext /\ OnlyChanges(view)
  \/ view = "blueprint" /\ BlueprintNext /\ OnlyChanges(view)
  \/ view = "experiment" /\ ExperimentNext /\ OnlyChanges(view)
  \/ view = "lists" /\ ListNext /\ OnlyChanges(view)
  \/ view = "filters" /\ FiltersNext /\ OnlyChanges(view)
  \/ view = "decisions" /\ DecisionNext /\ OnlyChanges(view)
  \/ view = "favourites" /\ FavNext /\ OnlyChanges(view)
  \/ view = "chart" /\ ChartNext /\ OnlyChanges(view)
  \/ view = "system" /\ SysNext /\ OnlyChanges(view)
  \/ view = "users" /\ UsersNext /\ OnlyChanges(view)
  \/ view = "registration" /\ RegistrationNext /\ OnlyChanges(view)
  \/ view = "session" /\ SessionNext /\ OnlyChanges(view)
  \/ view = "documentation" /\ DocsNext /\ OnlyChanges(view)
  \/ view = "model" /\ ModelNext /\ OnlyChanges(view)

PagesSpec == PagesInit /\ [][PagesNext]_pagesVars
-----------------------------------------------------------------------------
\* The state of the open page is of its kind.
PagesTypeOK ==
  CASE view = "wizard" -> WizardTypeOK
    [] view = "picker" -> PickerTypeOK
    [] view = "target" -> PreviewTypeOK
    [] view = "blueprint" -> BlueprintTypeOK
    [] view = "experiment" -> ExperimentTypeOK
    [] view = "lists" -> ListTypeOK
    [] view = "filters" -> FiltersTypeOK
    [] view = "decisions" -> DecisionTypeOK
    [] view = "favourites" -> FavTypeOK
    [] view = "chart" -> ChartTypeOK
    [] view = "system" -> SysTypeOK
    [] view = "users" -> UsersTypeOK
    [] view = "registration" -> RegistrationTypeOK
    [] view = "session" -> SessionTypeOK
    [] view = "documentation" -> DocsTypeOK
    [] view = "model" -> ModelTypeOK

\* A list, or a chart, that says it is loading has a request under way that will
\* end it: no failure, and no change of what is asked for, leaves it loading.
EveryLoadingEnds == LoadingEnds /\ ChartLoadingEnds

\* Where one view puts several answers together, each late in its own way, it
\* shows what was asked for last: in the step that picks a blueprint, in the
\* dialog of the target, and beside the results of an experiment.
AnswersFitTogether == PickerShowsWhatWasAsked /\ QuietDialogShowsResult /\ ResultsStayInView

\* What the server is sent is what the page shows, and nothing that was shown
\* before: the split, the parameters and the filters.
SentIsShown == SplitsStayLegal /\ LoadedParametersAreItsOwn /\ FiltersAreAsShown

\* No order of edits, steps back and late answers gets round a check: an
\* experiment, a blueprint and the settings are taken whole and checked, or not.
ChangesWereChecked == SubmissionIsChecked /\ CreatedWasChecked /\ SavesAreWhole

\* A step of a user, a worker or a late answer leaves on the page only states that
\* the blueprint or the job has had; and the page of a job, which loads when it
\* opens and after every cancellation, never goes back to an earlier state.
StatesShownWereReal == [][ShownWasReal' /\ JobGoesForward]_deskVars

\* What is read is there: each line of a document, and figures that agree.
ReadingIsFaithful == NoLineIsLost /\ FiguresFit
=============================================================================
