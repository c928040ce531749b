-------------------------- MODULE BlueprintVersions -------------------------
(***************************************************************************)
(* The blueprints of one owner: their versions, and their way through      *)
(* moderation (app/services/versioning_service.py, app/controllers/        *)
(* blueprint_controller.py and blueprint_approval_controller.py).          *)
(*                                                                         *)
(* A handler checks the row it has read and writes in the same             *)
(* transaction, which locks nothing until it writes: what others commit in *)
(* between is overwritten, column by column.  The session holds rows by    *)
(* weak references, so that update() may find the row that was checked or  *)
(* read it once more (Reread); of the columns it is given, it writes those *)
(* that differ from the row it found.                                      *)
(***************************************************************************)
EXTENDS Naturals

CONSTANTS
  Ids,        \* the identities that the table can hand out
  Names,
  Contents,   \* description, indicators, features and architecture
  Requests,   \* requests that may be under way at a time
  NoParent

ASSUME NoParentAssumption == NoParent \notin Ids

VARIABLES
  row,   \* the rows of the table Blueprint
  req    \* what each request has read

blueprintVars == <<row, req>>

Decisions == {"Approved", "Rejected", "Disapproved"}
ApprovalState == {"Draft", "Pending"} \cup Decisions

BlueprintRow == [name: Names, content: Contents, state: ApprovalState, submitted: BOOLEAN,
                 version: Nat \ {0}, parent: Ids \cup {NoParent}]

NoRow == [state |-> "none"]

\* An operation is an edit, or the state that the request asks for.
RequestRecord == [op: {"edit", "Pending"} \cup Decisions, id: Ids, name: Names, content: Contents,
                  seen: BlueprintRow, base: BlueprintRow]

Idle == [op |-> "none"]

TypeOK ==
  /\ row \in [Ids -> BlueprintRow \cup {NoRow}]
  /\ req \in [Requests -> RequestRecord \cup {Idle}]

Init ==
  /\ row = [i \in Ids |-> NoRow]
  /\ req = [r \in Requests |-> Idle]

Stored == {i \in Ids : row[i] # NoRow}

\* uq_Blueprint_UserID_Name_Version, for a row other than "self".
KeyFree(self, name, version) ==
  \A i \in Stored \ {self} : ~(row[i].name = name /\ row[i].version = version)

NewDraft(name, content, version, parent) ==
  [name |-> name, content |-> content, state |-> "Draft", submitted |-> FALSE,
   version |-> version, parent |-> parent]

\* The wizard's creation: a statement of its own, refused by the key or done.
Create ==
  \E i \in Ids \ Stored, n \in Names, c \in Contents :
    /\ KeyFree(i, n, 1)
    /\ row' = [row EXCEPT ![i] = NewDraft(n, c, 1, NoParent)]
    /\ UNCHANGED req
-----------------------------------------------------------------------------
(* Requests, from the row that was read to the end of the transaction. *)

Begin(r, op, i, n, c) ==
  /\ req[r] = Idle
  /\ i \in Stored
  /\ req' = [req EXCEPT ![r] = [op |-> op, id |-> i, name |-> n, content |-> c,
                                seen |-> row[i], base |-> row[i]]]
  /\ UNCHANGED row

BeginEdit(r) == \E i \in Ids, n \in Names, c \in Contents : Begin(r, "edit", i, n, c)

\* The owner submits a draft; a moderator decides on what is pending, and
\* takes an approval back.
Movable(i, target) ==
  \/ target = "Pending" /\ row[i].state = "Draft"
  \/ target \in {"Approved", "Rejected"} /\ row[i].state = "Pending"
  \/ target = "Disapproved" /\ row[i].state = "Approved"

BeginMove(r) ==
  \E i \in Stored, target \in {"Pending"} \cup Decisions :
    /\ Movable(i, target)
    /\ Begin(r, target, i, row[i].name, row[i].content)

\* update() gets the row once more: it was dropped from the identity map.
Reread(r) ==
  /\ req[r] # Idle
  /\ req' = [req EXCEPT ![r].base = row[req[r].id]]
  /\ UNCHANGED row

\* What the flush leaves in a column that update() has set to "value".
Flushed(q, column, value) ==
  IF q.base[column] # value THEN value ELSE row[q.id][column]

Finished(r) == req' = [req EXCEPT ![r] = Idle]

\* As a bug would have it: no edit is made in place.
InPlaceNever(q) == FALSE

InPlace(q) == q.seen.state = "Draft" /\ ~q.seen.submitted

\* As a bug would have it: the row goes back as it was read.
EditInPlaceWholeRow(r) ==
  LET q == req[r] IN
    /\ q.op = "edit"
    /\ InPlace(q)
    /\ KeyFree(q.id, q.name, row[q.id].version)
    /\ row' = [row EXCEPT ![q.id] = [q.base EXCEPT !.name = q.name, !.content = q.content]]
    /\ Finished(r)

\* save_blueprint_edit of a draft that was never submitted.
EditInPlace(r) ==
  LET q == req[r]
      name == Flushed(q, "name", q.name) IN
    /\ q.op = "edit"
    /\ InPlace(q)
    /\ KeyFree(q.id, name, row[q.id].version)
    /\ row' = [row EXCEPT ![q.id].name = name,
                          ![q.id].content = Flushed(q, "content", q.content)]
    /\ Finished(r)

NextVersion(q) == q.seen.version + 1

\* save_blueprint_edit of any other blueprint: the next version, a draft.
EditAsCopy(r) ==
  LET q == req[r] IN
    /\ q.op = "edit"
    /\ ~InPlace(q)
    /\ \E i \in Ids \ Stored :
         /\ KeyFree(i, q.name, NextVersion(q))
         /\ row' = [row EXCEPT ![i] = NewDraft(q.name, q.content, NextVersion(q), q.id)]
    /\ Finished(r)

\* As a bug would have it: a submission does not date itself.
SubmittedNever(q) == row[q.id].submitted

SubmittedAfter(q) == q.op = "Pending" \/ row[q.id].submitted

\* A submission, an approval or a rejection.
Move(r) ==
  LET q == req[r] IN
    /\ q.op \in {"Pending", "Approved", "Rejected"}
    /\ row' = [row EXCEPT ![q.id].state = Flushed(q, "state", q.op),
                          ![q.id].submitted = SubmittedAfter(q)]
    /\ Finished(r)

\* As a bug would have it: a draft that cannot be added is done without.
DisapproveAnyway(r) ==
  LET q == req[r] IN
    /\ q.op = "Disapproved"
    /\ row' = [row EXCEPT ![q.id].state = Flushed(q, "state", "Disapproved")]
    /\ Finished(r)

\* A disapproval leaves the owner the next version to work on.
Disapprove(r) ==
  LET q == req[r] IN
    /\ q.op = "Disapproved"
    /\ \E i \in Ids \ Stored :
         /\ KeyFree(i, q.seen.name, NextVersion(q))
         /\ row' = [row EXCEPT ![q.id].state = Flushed(q, "state", "Disapproved"),
                               ![i] = NewDraft(q.seen.name, q.seen.content, NextVersion(q), q.id)]
    /\ Finished(r)

\* The key refuses the row, or the connection is lost: all is rolled back.
RollBack(r) ==
  /\ req[r] # Idle
  /\ Finished(r)
  /\ UNCHANGED row

Serve(r) == \/ BeginEdit(r) \/ BeginMove(r) \/ Reread(r)
            \/ EditInPlace(r) \/ EditAsCopy(r) \/ Move(r) \/ Disapprove(r) \/ RollBack(r)

Next == Create \/ \E r \in Requests : Serve(r)

Spec == Init /\ [][Next]_blueprintVars
-----------------------------------------------------------------------------
(* What holds however requests overlap. *)

\* A blueprint is a draft exactly as long as it was never submitted, so that
\* the two conditions of an edit in place never disagree, whichever requests
\* have written the two columns.
SubmittedUnlessDraft == \A i \in Stored : row[i].submitted <=> row[i].state # "Draft"

\* The versions of a lineage count up from 1 without a gap, and each was made
\* from one that had been submitted, however an edit, a submission and a
\* decision overlapped.
LineageIsComplete ==
  \A i \in Stored :
    IF row[i].parent = NoParent THEN row[i].version = 1
    ELSE LET p == row[i].parent IN
           p \in Stored /\ row[p].version + 1 = row[i].version /\ row[p].state # "Draft"

\* Whoever's blueprint was disapproved has a next version to work on, even
\* when another moderator decided at the same time.
DisapprovedHasDraft ==
  \A i \in Stored : row[i].state = "Disapproved" => \E j \in Stored : row[j].parent = i

\* A submission is never undone: an edit that had read the draft before does
\* not bring it back.
NeverDraftAgain ==
  [][\A i \in Stored : row[i].state # "Draft" => row'[i].state # "Draft"]_blueprintVars
-----------------------------------------------------------------------------
(* What overlapping requests may break. *)

\* The moves that the handlers allow of a blueprint as they read it.
LegalMoves == {<<"Draft", "Pending">>, <<"Pending", "Approved">>, <<"Pending", "Rejected">>,
               <<"Approved", "Disapproved">>}

\* What the test of moderation asserts, with status 200 and a draft's id:
\* an approved blueprint can be disapproved.
DisapprovalGoesThrough ==
  \A r \in Requests : req[r].op = "Disapproved" =>
    KeyFree(NoParent, req[r].seen.name, req[r].seen.version + 1)
=============================================================================
