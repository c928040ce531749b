---------------------------- MODULE RankingFilters ----------------------------
(***************************************************************************)
(* The filter builder of the model rankings (views/ModelsRankingsView.tsx)  *)
(* and what the server makes of the rules that it sends                     *)
(* (app/repositories/model_repository.py).  The list that follows a click   *)
(* on Apply is PageLists.                                                  *)
(***************************************************************************)
EXTENDS Naturals, SequencesExt

CONSTANTS
  ColumnType,   \* COLUMN_TYPES: column -> "text", "id", "numeric" or "date"
  FirstColumn,  \* the column of a new rule
  Operands,     \* what is typed into an input
  NoOperand,    \* nothing
  Legible,     \* type -> operands that the server can make a value of it from
  MaxRules      \* rules at once, at most

\* OPERATORS, in the order of the menu.
OperatorsOf ==
  [text |-> <<"contains", "equals">>, id |-> <<"equals">>,
   numeric |-> <<"min", "max", "between", "equals">>, date |-> <<"min", "max", "between", "equals">>]

Operators(column) == OperatorsOf[ColumnType[column]]

ASSUME RankingFiltersAssumption ==
  /\ \A column \in DOMAIN ColumnType : ColumnType[column] \in DOMAIN OperatorsOf
  /\ FirstColumn \in DOMAIN ColumnType /\ ColumnType[FirstColumn] = "numeric"
  /\ NoOperand \notin Operands /\ MaxRules \in Nat
  /\ Legible \in [DOMAIN OperatorsOf -> SUBSET Operands]

VARIABLE draftRules   \* sequence of [column, op, value, min, max]

RuleInputs == Operands \cup {NoOperand}

\* A rule of which nothing is typed in.
BlankRule(column, op) ==
  [column |-> column, op |-> op, value |-> NoOperand, min |-> NoOperand, max |-> NoOperand]

FiltersInit == draftRules = <<>>

AddRule ==
  /\ Len(draftRules) < MaxRules
  /\ draftRules' = Append(draftRules, BlankRule(FirstColumn, "between"))

RemoveRule == \E i \in DOMAIN draftRules : draftRules' = RemoveAt(draftRules, i)

\* updateRuleColumn: the operator stays if the column has it, the inputs never.
WithColumn(rule, column) ==
  BlankRule(column, IF Contains(Operators(column), rule.op) THEN rule.op ELSE Head(Operators(column)))

UpdateRuleColumn ==
  \E i \in DOMAIN draftRules, column \in DOMAIN ColumnType :
    draftRules' = [draftRules EXCEPT ![i] = WithColumn(@, column)]

\* What was typed stays when the operator changes, shown or not.
UpdateRuleOperator ==
  \E i \in DOMAIN draftRules : \E op \in ToSet(Operators(draftRules[i].column)) :
    draftRules' = [draftRules EXCEPT ![i].op = op]

\* isRange: two inputs instead of one.
IsRange(rule) == rule.op \in {"min", "max", "between"}

TypeOperand ==
  \E i \in DOMAIN draftRules : \E x \in RuleInputs :
    \/ IsRange(draftRules[i]) /\ draftRules' = [draftRules EXCEPT ![i].min = x]
    \/ IsRange(draftRules[i]) /\ draftRules' = [draftRules EXCEPT ![i].max = x]
    \/ ~IsRange(draftRules[i]) /\ draftRules' = [draftRules EXCEPT ![i].value = x]

ClearRules == draftRules' = <<>>

FiltersNext ==
  AddRule \/ RemoveRule \/ UpdateRuleColumn \/ UpdateRuleOperator \/ TypeOperand \/ ClearRules
-----------------------------------------------------------------------------
Given(x) == x # NoOperand

\* activeRules: a rule without what it compares with is not sent.
ActiveRule(rule) == IF IsRange(rule) THEN Given(rule.min) \/ Given(rule.max) ELSE Given(rule.value)

Compare(test, x) == IF Given(x) THEN {[test |-> test, with |-> x]} ELSE {}

\* `a or b`.
Either(a, b) == IF Given(a) THEN a ELSE b

\* decimal_value, date_value and strip: nothing is made of what cannot be read.
ValueRead(rule, x) == IF x \in Legible[ColumnType[rule.column]] THEN x ELSE NoOperand

\* _ranking_filter_conditions, for one rule.
Conditions(rule) ==
  LET Read(x) == ValueRead(rule, x) IN
  IF ColumnType[rule.column] = "text"
  THEN Compare(IF rule.op = "equals" THEN "is" ELSE "has", Read(rule.value))
  ELSE CASE rule.op = "between" -> Compare("at least", Read(rule.min)) \cup Compare("at most", Read(rule.max))
         [] rule.op = "max"     -> Compare("at most", Read(Either(rule.value, rule.max)))
         [] rule.op = "equals"  -> Compare("is", Read(rule.value))
         [] OTHER               -> Compare("at least", Read(Either(rule.value, rule.min)))

\* What the inputs of a rule say to whoever reads them; those of a rule with one
\* bound are labelled Min and Max as well.
AsShown(rule) ==
  IF IsRange(rule) THEN Compare("at least", rule.min) \cup Compare("at most", rule.max)
  ELSE Compare(IF rule.op = "contains" THEN "has" ELSE "is", rule.value)

\* The input that a rule with one bound shows, and the server does not look at.
OtherBound(rule) == IF rule.op = "min" THEN "at most" ELSE IF rule.op = "max" THEN "at least" ELSE "none"
-----------------------------------------------------------------------------
FiltersTypeOK ==
  \A i \in DOMAIN draftRules :
    LET r == draftRules[i] IN
    /\ r.column \in DOMAIN ColumnType /\ Contains(Operators(r.column), r.op)
    /\ {r.value, r.min, r.max} \subseteq RuleInputs

\* However a rule came to be - columns, operators and inputs changed in any
\* order - the server filters by exactly what its inputs show, but for what it
\* says nothing of: an operand that it cannot read, and the other bound's input in
\* a rule with one bound.  A rule with one bound that was an "equals" before is
\* left out: the server prefers the operand typed then, which the page has kept
\* and no longer shows.
FiltersAreAsShown ==
  \A i \in DOMAIN draftRules :
    LET r == draftRules[i] IN
    ActiveRule(r) /\ ~(r.op \in {"min", "max"} /\ Given(r.value)) =>
      Conditions(r) = {c \in AsShown(r) : ValueRead(r, c.with) = c.with /\ c.test # OtherBound(r)}
=============================================================================
