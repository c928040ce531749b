----------------------------- MODULE PagesProofs -----------------------------
(***************************************************************************)
(* What is proved of a page by itself holds of the site: whichever page is  *)
(* open, a step of the site is a step of that page or leaves it alone.      *)
(***************************************************************************)
EXTENDS Pages, UsersProofs, AnswersProofs, FormsProofs

LEMMA PagesStartAsUsers == PagesInit => UsersInit
BY DEF PagesInit

LEMMA PagesStepUsers == [PagesNext]_pagesVars => [UsersNext]_usersVars
<1>1. UNCHANGED pagesVars => UNCHANGED usersVars
  BY DEF pagesVars
<1>2. PagesNext => [UsersNext]_usersVars
  BY DEF PagesNext, OnlyChanges
<1> QED BY <1>1, <1>2

LEMMA PagesStartAsLists == PagesInit => ListInit
BY DEF PagesInit

LEMMA PagesStepLists == [PagesNext]_pagesVars => [ListNext]_listVars
<1>1. UNCHANGED pagesVars => UNCHANGED listVars
  BY DEF pagesVars
<1>2. PagesNext => [ListNext]_listVars
  BY DEF PagesNext, OnlyChanges
<1> QED BY <1>1, <1>2

LEMMA PagesStartAsChart == PagesInit => ChartInit
BY DEF PagesInit

LEMMA PagesStepChart == [PagesNext]_pagesVars => [ChartNext]_chartVars
<1>1. UNCHANGED pagesVars => UNCHANGED chartVars
  BY DEF pagesVars
<1>2. PagesNext => [ChartNext]_chartVars
  BY DEF PagesNext, OnlyChanges
<1> QED BY <1>1, <1>2

LEMMA PagesStartAsFavourites == PagesInit => FavInit
BY DEF PagesInit

LEMMA PagesStepFavourites == [PagesNext]_pagesVars => [FavNext]_favVars
<1>1. UNCHANGED pagesVars => UNCHANGED favVars
  BY DEF pagesVars
<1>2. PagesNext => [FavNext]_favVars
  BY DEF PagesNext, OnlyChanges
<1> QED BY <1>1, <1>2

LEMMA PagesStartAsDecisions == PagesInit => DecisionInit
BY DEF PagesInit

LEMMA PagesStepDecisions == [PagesNext]_pagesVars => [DecisionNext]_deskVars
<1>1. UNCHANGED pagesVars => UNCHANGED deskVars
  BY DEF pagesVars
<1>2. PagesNext => [DecisionNext]_deskVars
  BY DEF PagesNext, OnlyChanges
<1> QED BY <1>1, <1>2

LEMMA PagesStartAsSession == PagesInit => SessionInit
BY DEF PagesInit

LEMMA PagesStepSession == [PagesNext]_pagesVars => [SessionNext]_sessionVars
<1>1. UNCHANGED pagesVars => UNCHANGED sessionVars
  BY DEF pagesVars
<1>2. PagesNext => [SessionNext]_sessionVars
  BY DEF PagesNext, OnlyChanges
<1> QED BY <1>1, <1>2

LEMMA PagesStartAsWizard == PagesInit => WizardInit
BY DEF PagesInit

LEMMA PagesStepWizard == [PagesNext]_pagesVars => [WizardNext]_wizardVars
<1>1. UNCHANGED pagesVars => UNCHANGED wizardVars
  BY DEF pagesVars
<1>2. PagesNext => [WizardNext]_wizardVars
  BY DEF PagesNext, OnlyChanges
<1> QED BY <1>1, <1>2

LEMMA PagesStartAsFilters == PagesInit => FiltersInit
BY DEF PagesInit

LEMMA PagesStepFilters == [PagesNext]_pagesVars => [FiltersNext]_draftRules
<1>1. UNCHANGED pagesVars => UNCHANGED draftRules
  BY DEF pagesVars
<1>2. PagesNext => [FiltersNext]_draftRules
  BY DEF PagesNext, OnlyChanges
<1> QED BY <1>1, <1>2

LEMMA PagesStartAsBlueprint == PagesInit => BlueprintInit
BY DEF PagesInit

LEMMA PagesStepBlueprint == [PagesNext]_pagesVars => [BlueprintNext]_blueprintVars
<1>1. UNCHANGED pagesVars => UNCHANGED blueprintVars
  BY DEF pagesVars
<1>2. PagesNext => [BlueprintNext]_blueprintVars
  BY DEF PagesNext, OnlyChanges
<1> QED BY <1>1, <1>2

LEMMA PagesStartAsSystem == PagesInit => SysInit
BY DEF PagesInit

LEMMA PagesStepSystem == [PagesNext]_pagesVars => [SysNext]_sysVars
<1>1. UNCHANGED pagesVars => UNCHANGED sysVars
  BY DEF pagesVars
<1>2. PagesNext => [SysNext]_sysVars
  BY DEF PagesNext, OnlyChanges
<1> QED BY <1>1, <1>2

LEMMA PagesStartAsPicker == PagesInit => PickerInit
BY DEF PagesInit

LEMMA PagesStepPicker == [PagesNext]_pagesVars => [PickerNext]_pickerVars
<1>1. UNCHANGED pagesVars => UNCHANGED pickerVars
  BY DEF pagesVars
<1>2. PagesNext => [PickerNext]_pickerVars
  BY DEF PagesNext, OnlyChanges
<1> QED BY <1>1, <1>2

LEMMA PagesStartAsPreview == PagesInit => PreviewInit
BY DEF PagesInit

LEMMA PagesStepPreview == [PagesNext]_pagesVars => [PreviewNext]_previewVars
<1>1. UNCHANGED pagesVars => UNCHANGED previewVars
  BY DEF pagesVars
<1>2. PagesNext => [PreviewNext]_previewVars
  BY DEF PagesNext, OnlyChanges
<1> QED BY <1>1, <1>2

LEMMA PagesStartAsResults == PagesInit => ExperimentInit
BY DEF PagesInit

LEMMA PagesStepResults == [PagesNext]_pagesVars => [ExperimentNext]_experimentVars
<1>1. UNCHANGED pagesVars => UNCHANGED experimentVars
  BY DEF pagesVars
<1>2. PagesNext => [ExperimentNext]_experimentVars
  BY DEF PagesNext, OnlyChanges
<1> QED BY <1>1, <1>2

LEMMA PagesStartAsRegistration == PagesInit => RegistrationInit
BY DEF PagesInit

LEMMA PagesStepRegistration == [PagesNext]_pagesVars => [RegistrationNext]_registrationVars
<1>1. UNCHANGED pagesVars => UNCHANGED registrationVars
  BY DEF pagesVars
<1>2. PagesNext => [RegistrationNext]_registrationVars
  BY DEF PagesNext, OnlyChanges
<1> QED BY <1>1, <1>2

LEMMA PagesStartAsDocs == PagesInit => DocsInit
BY DEF PagesInit

LEMMA PagesStepDocs == [PagesNext]_pagesVars => [DocsNext]_docsVars
<1>1. UNCHANGED pagesVars => UNCHANGED docsVars
  BY DEF pagesVars
<1>2. PagesNext => [DocsNext]_docsVars
  BY DEF PagesNext, OnlyChanges
<1> QED BY <1>1, <1>2

LEMMA PagesStartAsModel == PagesInit => ModelInit
BY DEF PagesInit

LEMMA PagesStepModel == [PagesNext]_pagesVars => [ModelNext]_modelVars
<1>1. UNCHANGED pagesVars => UNCHANGED modelVars
  BY DEF pagesVars
<1>2. PagesNext => [ModelNext]_modelVars
  BY DEF PagesNext, OnlyChanges
<1> QED BY <1>1, <1>2
-----------------------------------------------------------------------------
\* The site behaves as user management does, as far as that page is concerned.
THEOREM PagesImplementUsers == PagesSpec => UsersSpec
BY PagesStartAsUsers, PagesStepUsers, PTL DEF PagesSpec, UsersSpec

\* And as each of the lists does.
THEOREM PagesImplementLists == PagesSpec => ListsSpec
BY PagesStartAsLists, PagesStepLists, PTL DEF PagesSpec, ListsSpec

\* And as the price chart does.
THEOREM PagesImplementChart == PagesSpec => ChartSpec
BY PagesStartAsChart, PagesStepChart, PTL DEF PagesSpec, ChartSpec

\* And as the pages with stars do.
THEOREM PagesImplementFavourites == PagesSpec => FavSpec
BY PagesStartAsFavourites, PagesStepFavourites, PTL DEF PagesSpec, FavSpec

\* And as the pages on which blueprints and jobs are decided about do.
THEOREM PagesImplementDecisions == PagesSpec => DecisionSpec
BY PagesStartAsDecisions, PagesStepDecisions, PTL DEF PagesSpec, DecisionSpec

\* And as the provider of the session does.
THEOREM PagesImplementSession == PagesSpec => SessionSpec
BY PagesStartAsSession, PagesStepSession, PTL DEF PagesSpec, SessionSpec

\* And as the experiment wizard does.
THEOREM PagesImplementWizard == PagesSpec => WizardSpec
BY PagesStartAsWizard, PagesStepWizard, PTL DEF PagesSpec, WizardSpec

\* And as the filters of the rankings do.
THEOREM PagesImplementFilters == PagesSpec => FiltersSpec
BY PagesStartAsFilters, PagesStepFilters, PTL DEF PagesSpec, FiltersSpec

\* And as the blueprint wizard does.
THEOREM PagesImplementBlueprint == PagesSpec => BlueprintSpec
BY PagesStartAsBlueprint, PagesStepBlueprint, PTL DEF PagesSpec, BlueprintSpec

\* And as system management does.
THEOREM PagesImplementSystem == PagesSpec => SysSpec
BY PagesStartAsSystem, PagesStepSystem, PTL DEF PagesSpec, SysSpec

\* And as the step that picks a blueprint does.
THEOREM PagesImplementPicker == PagesSpec => PickerSpec
BY PagesStartAsPicker, PagesStepPicker, PTL DEF PagesSpec, PickerSpec

\* And as the dialog of the target does.
THEOREM PagesImplementPreview == PagesSpec => PreviewSpec
BY PagesStartAsPreview, PagesStepPreview, PTL DEF PagesSpec, PreviewSpec

\* And as the page of an experiment does.
THEOREM PagesImplementResults == PagesSpec => ResultsSpec
BY PagesStartAsResults, PagesStepResults, PTL DEF PagesSpec, ResultsSpec

\* And as the registration form does.
THEOREM PagesImplementRegistration == PagesSpec => RegistrationSpec
BY PagesStartAsRegistration, PagesStepRegistration, PTL DEF PagesSpec, RegistrationSpec

\* And as the documentation does.
THEOREM PagesImplementDocs == PagesSpec => DocsSpec
BY PagesStartAsDocs, PagesStepDocs, PTL DEF PagesSpec, DocsSpec

\* And as the review of a model does.
THEOREM PagesImplementModel == PagesSpec => ModelSpec
BY PagesStartAsModel, PagesStepModel, PTL DEF PagesSpec, ModelSpec

\* On the site, a list or a chart that says it is loading has a request under way
\* that will end it, whatever fails and whatever is asked for meanwhile.
THEOREM EveryLoadingEndsAlways == PagesSpec => []EveryLoadingEnds
<1>1. LoadingEnds /\ ChartLoadingEnds => EveryLoadingEnds
  BY DEF EveryLoadingEnds
<1>2. ChartInv => ChartLoadingEnds
  BY ChartPromises
<1>3. ListsInv => LoadingEnds
  BY DEF ListsInv
<1> QED BY <1>1, <1>2, <1>3, PagesImplementLists, PagesImplementChart, ListsInvariant, ChartInvariant, PTL

\* On the site, rows that a page shows are those it was last asked for.
THEOREM PagesShowRowsOfQuery == PagesSpec => []RowsAreOfQuery
BY PagesImplementLists, RowsAreOfQueryAlways, PTL

\* On the site, a change that user management made was allowed when it was made.
THEOREM PagesDeedsWereAllowed == PagesSpec => []DeedsWereAllowed
BY PagesImplementUsers, DeedsWereAllowedAlways, PTL

\* On the site, an item whose own request is over is shown as the server has it.
THEOREM PagesShowServersStars == PagesSpec => []StarsAreServers
BY PagesImplementFavourites, StarsAreServersAlways, PTL

\* On the site, a visitor who is shown as signed in, with no question open, is
\* signed in under that account.
THEOREM PagesShowRealUser == PagesSpec => []SignedInIsReal
BY PagesImplementSession, SignedInIsRealAlways, PTL

\* On the site, a page is shown only to those whose requests it would have answered,
\* except the moderation page, and no link of the navigation leads to a page that
\* turns its visitor away.
THEOREM PagesNavigationFits == PagesSpec => []NavigationFits
BY PagesImplementSession, NavigationFitsAlways, PTL

\* On the site, each step leaves shown only states that the blueprint or the job
\* has had, and the page of a job never goes back.
THEOREM PagesStatesShownWereReal == PagesSpec => StatesShownWereReal
<1>1. PagesSpec => [][ShownWasReal' /\ JobGoesForward]_deskVars
  BY PagesImplementDecisions, DecisionsShownWereReal, PTL
<1> QED BY <1>1 DEF StatesShownWereReal

\* On the site, what the server is sent is what the page shows, of the split, the
\* parameters and the filters, if the model whose setup is reused has parameters of
\* its own blueprint only.
THEOREM PagesSendWhatIsShown == ReuseIsOfBlueprint => (PagesSpec => []SentIsShown)
<1> SUFFICES ASSUME ReuseIsOfBlueprint PROVE PagesSpec => []SentIsShown
  OBVIOUS
<1>1. WizardSpec => []SplitsStayLegal
  BY SplitsStayLegalAlways
<1>2. WizardSpec => []LoadedParametersAreItsOwn
  BY LoadedParametersAreItsOwnAlways
<1>3. FiltersSpec => []FiltersAreAsShown
  BY FiltersAreAsShownAlways
<1>4. SplitsStayLegal /\ LoadedParametersAreItsOwn /\ FiltersAreAsShown => SentIsShown
  BY DEF SentIsShown
<1> QED BY <1>1, <1>2, <1>3, <1>4, PagesImplementWizard, PagesImplementFilters, PTL

\* On the site, no order of edits, steps back and late answers gets round a check:
\* an experiment of a market with more than one candle, a blueprint and the settings
\* are taken whole and checked, or not.
THEOREM PagesChangesWereChecked == MarketSpans => (PagesSpec => ChangesWereChecked)
<1> SUFFICES ASSUME MarketSpans PROVE PagesSpec => ChangesWereChecked
  OBVIOUS
<1>1. WizardSpec => SubmissionIsChecked
  BY SubmissionIsCheckedAlways
<1> QED BY <1>1, CreatedWasCheckedAlways, SavesAreWholeAlways, PagesImplementWizard, PagesImplementBlueprint,
           PagesImplementSystem, PTL DEF ChangesWereChecked

\* On the site, the step that picks a blueprint, the dialog of the target and the
\* results of an experiment each show what was asked for last, however late and in
\* whichever order the answers they put together come.
THEOREM PagesShowLatestAnswers == PagesSpec => []AnswersFitTogether
<1>1. PickerShowsWhatWasAsked /\ QuietDialogShowsResult /\ ResultsStayInView => AnswersFitTogether
  BY DEF AnswersFitTogether
<1> QED BY <1>1, PagesImplementPicker, PickerShowsWhatWasAskedAlways, PagesImplementPreview,
           QuietDialogShowsResultAlways, PagesImplementResults, ResultsStayInViewAlways, PTL

\* On the site, what is read is there: no line of a document is lost or shown
\* twice, and the figures of a model fit together.
THEOREM PagesReadFaithfully == PagesSpec => []ReadingIsFaithful
<1>1. NoLineIsLost /\ FiguresFit => ReadingIsFaithful
  BY DEF ReadingIsFaithful
<1> QED BY <1>1, PagesImplementDocs, NoLineIsLostAlways, PagesImplementModel, FiguresFitAlways, PTL
-----------------------------------------------------------------------------
\* The page that is open stays open, and is one of those the site has.
LEMMA ViewStays == PagesSpec => [](view \in AllViews)
<1>1. PagesInit => view \in AllViews
  BY PagesAssumption DEF PagesInit
<1>2. view \in AllViews /\ [PagesNext]_pagesVars => (view \in AllViews)'
  <2>1. [PagesNext]_pagesVars => UNCHANGED view
    BY DEF PagesNext, OnlyChanges, pagesVars
  <2> QED BY <2>1
<1> QED BY <1>1, <1>2, PTL DEF PagesSpec

\* Pages that keep to their kind, each by itself.
EachTypeOK ==
  /\ WizardTypeOK /\ PickerTypeOK /\ PreviewTypeOK /\ BlueprintTypeOK
  /\ ExperimentTypeOK /\ ListTypeOK /\ FiltersTypeOK /\ DecisionTypeOK
  /\ FavTypeOK /\ ChartTypeOK /\ SysTypeOK /\ UsersTypeOK
  /\ RegistrationTypeOK /\ SessionTypeOK /\ DocsTypeOK /\ ModelTypeOK

LEMMA OpenPageTypeOK == view \in AllViews /\ EachTypeOK => PagesTypeOK
BY DEF AllViews, EachTypeOK, PagesTypeOK

LEMMA FormsTypeOK ==
  PagesSpec => [](WizardTypeOK /\ PickerTypeOK /\ PreviewTypeOK /\ BlueprintTypeOK /\ FiltersTypeOK /\ SysTypeOK)
BY PagesImplementWizard, WizardTypeOKAlways, PagesImplementPicker, PickerTypeOKAlways,
   PagesImplementPreview, PreviewTypeOKAlways, PagesImplementBlueprint, BlueprintTypeOKAlways,
   PagesImplementFilters, FiltersTypeOKAlways, PagesImplementSystem, SysTypeOKAlways, PTL

LEMMA AnswersTypeOK ==
  PagesSpec => [](ExperimentTypeOK /\ ListTypeOK /\ DecisionTypeOK /\ FavTypeOK /\ ChartTypeOK
                  /\ DocsTypeOK /\ ModelTypeOK)
BY PagesImplementResults, ExperimentTypeOKAlways, PagesImplementLists, ListTypeOKAlways,
   PagesImplementDecisions, DecisionTypeOKAlways, PagesImplementFavourites, FavTypeOKAlways,
   PagesImplementChart, ChartTypeOKAlways, PagesImplementDocs, DocsTypeOKAlways,
   PagesImplementModel, ModelTypeOKAlways, PTL

LEMMA AccountsTypeOK == PagesSpec => [](UsersTypeOK /\ RegistrationTypeOK /\ SessionTypeOK)
BY PagesImplementUsers, UsersTypeOKAlways, PagesImplementRegistration, RegistrationTypeOKAlways,
   PagesImplementSession, SessionTypeOKAlways, PTL

\* On the site, the page that is open keeps to its kind, whichever it is and
\* whatever is typed, answered late or lost (Pages!PagesTypeOK).
THEOREM PagesTypeOKAlways == PagesSpec => []PagesTypeOK
<1>1. (WizardTypeOK /\ PickerTypeOK /\ PreviewTypeOK /\ BlueprintTypeOK /\ FiltersTypeOK /\ SysTypeOK)
      /\ (ExperimentTypeOK /\ ListTypeOK /\ DecisionTypeOK /\ FavTypeOK /\ ChartTypeOK
          /\ DocsTypeOK /\ ModelTypeOK)
      /\ (UsersTypeOK /\ RegistrationTypeOK /\ SessionTypeOK) => EachTypeOK
  BY DEF EachTypeOK
<1> QED BY <1>1, ViewStays, OpenPageTypeOK, FormsTypeOK, AnswersTypeOK, AccountsTypeOK, PTL
=============================================================================
