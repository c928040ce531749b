---------------------------- MODULE TargetPreview ----------------------------
(***************************************************************************)
(* The target dialog of the experiment wizard                              *)
(* (frontend/views/ExperimentWizardView.tsx): it asks for a preview when it *)
(* opens, when what the preview is computed from changes, and when the user *)
(* applies other parameters.  Nothing tells an older answer from a newer.  *)
(***************************************************************************)
EXTENDS Integers, Sequences, FiniteSets

CONSTANTS
  Target,       \* strategies
  Labels,       \* the target columns an answer may carry: sequences over {"up", "down", "none"}
  MaxPreviews,  \* previews asked for, at most
  NoPreview

\* What a preview is asked for: how many were before, and what it is computed from.
PreviewRequest ==
  [n : Nat, strategy : Target, typed : {"default", "valid", "zero"}, mode : {"true_label", "mock_prediction"}]

ASSUME PreviewAssumption ==
  MaxPreviews \in Nat /\ NoPreview \notin [of : PreviewRequest, labels : Labels]

VARIABLES
  target,    \* [strategy, open]: the draft's strategy, the dialog
  form,      \* [typed, flagged, mode]: the dialog's parameter and controls
  result,    \* [preview, failed, loading]
  previews   \* requests under way: [n, strategy, typed, mode]

previewVars == <<target, form, result, previews>>

Blank == [typed |-> "none", flagged |-> FALSE, mode |-> "true_label"]

Nothing == [preview |-> NoPreview, failed |-> FALSE, loading |-> FALSE]

PreviewInit ==
  /\ target \in [strategy : Target, open : {FALSE}, asked : {0}]
  /\ form = Blank
  /\ result = Nothing
  /\ previews = {}

\* What the parameter is without the dialog: the draft's value, or the metadata's.
DefaultParam == "default"

\* What is typed comes first, a blank too.
ActiveParam == IF form.typed = "none" THEN DefaultParam ELSE form.typed

\* The values a preview may be asked for: a lookahead of zero is one of them,
\* though the experiment may not be submitted with it.
PreviewConstraint == {"default", "valid", "zero"}

\* buildTargetPreviewPayloadWithControls: the draft's range and interval go with it.
PreviewPayload(strategy, typed, mode) ==
  [n |-> target.asked, strategy |-> strategy, typed |-> typed, mode |-> mode]

\* loadTargetPreview: what is sent is fixed here, the answer comes later.
LoadPreview(strategy, typed, mode) ==
  /\ target.asked < MaxPreviews
  /\ previews' = previews \cup {PreviewPayload(strategy, typed, mode)}
  /\ result' = [result EXCEPT !.loading = TRUE, !.failed = FALSE]

ChooseTarget ==
  /\ ~target.open
  /\ \E s \in Target \ {target.strategy} : target' = [target EXCEPT !.strategy = s]
  /\ UNCHANGED <<form, result, previews>>

OpenInfo ==
  /\ ~target.open
  /\ LoadPreview(target.strategy, DefaultParam, form.mode)
  /\ target' = [target EXCEPT !.open = TRUE, !.asked = @ + 1]
  /\ form' = [form EXCEPT !.typed = "none", !.flagged = FALSE]

CloseInfo ==
  /\ target.open
  /\ target' = [target EXCEPT !.open = FALSE]
  /\ form' = Blank
  /\ result' = Nothing
  /\ UNCHANGED previews

\* The range of the market or the metadata arrive behind the open dialog: the
\* preview is asked for again with the defaults, the parameter typed stays.
ContextArrives ==
  /\ target.open
  /\ LoadPreview(target.strategy, DefaultParam, form.mode)
  /\ target' = [target EXCEPT !.asked = @ + 1]
  /\ UNCHANGED form

\* The controls are there only while a result is.
Controls == target.open /\ ~result.loading /\ ~result.failed

TypeParam ==
  /\ Controls
  /\ \E text \in {"valid", "zero", "invalid", "blank"} : form' = [form EXCEPT !.typed = text, !.flagged = FALSE]
  /\ UNCHANGED <<target, result, previews>>

SetMode ==
  /\ Controls
  /\ \E mode \in {"true_label", "mock_prediction"} : form' = [form EXCEPT !.mode = mode]
  /\ UNCHANGED <<target, result, previews>>

\* The parameter of the form has a value, and one that is permitted.
Valid(text) == text # "blank" /\ text \in PreviewConstraint

Apply ==
  /\ Controls
  /\ IF Valid(ActiveParam)
     THEN /\ LoadPreview(target.strategy, ActiveParam, form.mode)
          /\ target' = [target EXCEPT !.asked = @ + 1]
          /\ form' = [form EXCEPT !.flagged = FALSE]
     ELSE form' = [form EXCEPT !.flagged = TRUE] /\ UNCHANGED <<target, result, previews>>

\* Whichever request is answered, and whether the dialog is open or not.
PreviewAnswered ==
  /\ \E r \in previews, labels \in Labels :
       /\ previews' = previews \ {r}
       /\ result' = [result EXCEPT !.preview = [of |-> r, labels |-> labels], !.loading = FALSE]
  /\ UNCHANGED <<target, form>>

PreviewFails ==
  /\ \E r \in previews : previews' = previews \ {r}
  /\ result' = [preview |-> NoPreview, failed |-> TRUE, loading |-> FALSE]
  /\ UNCHANGED <<target, form>>
-----------------------------------------------------------------------------
(* What the open dialog shows. *)

\* The bars the curve starts at: the positive labels, without any the labelled.
Signals(labels) ==
  LET positive == {i \in DOMAIN labels : labels[i] = "up"}
  IN IF positive # {} THEN positive ELSE {i \in DOMAIN labels : labels[i] # "none"}

Horizon(labels) ==
  LET n == IF Len(labels) - 1 < 20 THEN Len(labels) - 1 ELSE 20 IN IF n < 2 THEN 2 ELSE n

\* The steps of the curve: those that some signal has a bar for.
Curve(labels) == {k \in 1 .. Horizon(labels) : \E i \in Signals(labels) : i + k \in DOMAIN labels}

Bars(labels) ==
  [positive |-> Cardinality({i \in DOMAIN labels : labels[i] = "up"}),
   negative |-> Cardinality({i \in DOMAIN labels : labels[i] = "down"}),
   unlabeled |-> Cardinality({i \in DOMAIN labels : labels[i] = "none"})]

\* The table has a row for each horizon when there are candles.
EconomicTable == result.preview.labels # <<>>

\* The bridge card has figures for simulated predictions only, and of some candles.
BridgeCard == result.preview.of.mode = "mock_prediction" /\ result.preview.labels # <<>>

InfoView ==
  IF ~target.open THEN "closed"
  ELSE IF result.loading THEN "loading"
  ELSE IF result.failed THEN "error"
  ELSE IF result.preview = NoPreview THEN "empty"
  ELSE "preview"

Info ==
  IF InfoView # "preview" THEN [view |-> InfoView]
  ELSE [view   |-> "preview",
        mode   |-> result.preview.of.mode,
        bars   |-> Bars(result.preview.labels),
        curve  |-> Curve(result.preview.labels),
        table  |-> EconomicTable,
        bridge |-> BridgeCard]

PreviewNext ==
  \/ ChooseTarget \/ OpenInfo \/ CloseInfo \/ ContextArrives
  \/ TypeParam \/ SetMode \/ Apply
  \/ PreviewAnswered \/ PreviewFails
-----------------------------------------------------------------------------
PreviewTypeOK ==
  /\ target.strategy \in Target /\ target.asked \in 0 .. MaxPreviews
  /\ form.typed \in {"none", "valid", "zero", "invalid", "blank"}
  /\ Cardinality(previews) <= MaxPreviews

\* Requests that overlap across closings of the dialog end its loading in any
\* order, yet with all of them answered an open dialog shows a preview or an
\* error, never its loading message or a form with no result.
QuietDialogShowsResult == target.open /\ previews = {} => Info.view \in {"preview", "error"}
=============================================================================
