---------------------------- MODULE VersionsProofs --------------------------
(***************************************************************************)
(* The safety properties of BlueprintVersions hold for any number of       *)
(* blueprints, names, contents and overlapping requests; the two that      *)
(* overlapping requests break are broken only by a request that another    *)
(* one overtook between its check and its write.                           *)
(***************************************************************************)
EXTENDS BlueprintVersions, TLAPS

\* Stored rows are rows, and a request under way is a request.
LEMMA Typed ==
  ASSUME TypeOK
  PROVE  /\ \A i \in Ids : row[i] \in BlueprintRow \/ row[i] = NoRow
         /\ \A i \in Stored : row[i] \in BlueprintRow
         /\ \A r \in Requests : req[r] # Idle => req[r] \in RequestRecord
BY DEF TypeOK, Stored

\* A draft is a row, whatever row it is made from.
LEMMA DraftIsRow ==
  ASSUME NEW n \in Names, NEW c \in Contents, NEW v \in Nat \ {0}, NEW p \in Ids \cup {NoParent}
  PROVE  NewDraft(n, c, v, p) \in BlueprintRow
BY DEF NewDraft, BlueprintRow, ApprovalState

LEMMA NoRowIsNoRow == NoRow \notin BlueprintRow
<1>1. \A b \in BlueprintRow : b.state \in ApprovalState
  BY DEF BlueprintRow
<1>2. NoRow.state = "none" /\ "none" \notin ApprovalState
  BY DEF NoRow, ApprovalState, Decisions
<1> QED
  BY <1>1, <1>2

LEMMA IdleIsIdle == Idle \notin RequestRecord
<1>1. \A q \in RequestRecord : q.op \in {"edit", "Pending"} \cup Decisions
  BY DEF RequestRecord
<1>2. Idle.op = "none"
  BY DEF Idle
<1> QED
  BY <1>1, <1>2 DEF Decisions
-----------------------------------------------------------------------------
(* How a step changes the table. *)

\* The row of id is changed in its name, content, state or date.
Changed(i, b) ==
  /\ i \in Stored
  /\ b \in BlueprintRow
  /\ b.version = row[i].version
  /\ b.parent = row[i].parent

\* The ways in which the table changes: nothing, a row changed, a row added,
\* or both, of two rows.
Added(i, b) == i \in Ids \ Stored /\ b \in BlueprintRow /\ b.state = "Draft" /\ ~b.submitted

LEMMA StoredAfterChange ==
  ASSUME TypeOK, NEW i, NEW b, Changed(i, b), row' = [row EXCEPT ![i] = b]
  PROVE  /\ row' \in [Ids -> BlueprintRow \cup {NoRow}]
         /\ Stored' = Stored
         /\ row'[i] = b
         /\ \A j \in Stored \ {i} : row'[j] = row[j]
BY NoRowIsNoRow DEF TypeOK, Changed, Stored

LEMMA StoredAfterAdding ==
  ASSUME TypeOK, NEW i, NEW b, Added(i, b), row' = [row EXCEPT ![i] = b]
  PROVE  /\ row' \in [Ids -> BlueprintRow \cup {NoRow}]
         /\ Stored' = Stored \cup {i}
         /\ row'[i] = b
         /\ \A j \in Stored : row'[j] = row[j]
BY NoRowIsNoRow DEF TypeOK, Added, Stored

ChangeAndAdd(i, b, k, d) ==
  Changed(i, b) /\ Added(k, d) /\ row' = [row EXCEPT ![i] = b, ![k] = d]

LEMMA StoredAfterBoth ==
  ASSUME TypeOK, NEW i, NEW b, NEW k, NEW d, ChangeAndAdd(i, b, k, d)
  PROVE  /\ row' \in [Ids -> BlueprintRow \cup {NoRow}]
         /\ Stored' = Stored \cup {k}
         /\ row'[i] = b
         /\ row'[k] = d
         /\ \A j \in Stored \ {i} : row'[j] = row[j]
BY NoRowIsNoRow DEF TypeOK, ChangeAndAdd, Changed, Added, Stored
-----------------------------------------------------------------------------
(* The inductive invariant. *)

TableInv == SubmittedUnlessDraft /\ LineageIsComplete /\ DisapprovedHasDraft

\* What a request has read of a row, at whichever of its two reads, is old but
\* never ahead: the version is the row's, and a blueprint that was seen
\* submitted still is.
Behind(s, i) ==
  /\ s.version = row[i].version
  /\ s.submitted <=> s.state # "Draft"
  /\ s.state # "Draft" => row[i].state # "Draft"

ReadIsBehind(q) ==
  /\ q.id \in Stored
  /\ Behind(q.seen, q.id)
  /\ Behind(q.base, q.id)
  /\ q.op \in Decisions => q.seen.state # "Draft"

RequestsAreBehind == \A r \in Requests : req[r] # Idle => ReadIsBehind(req[r])

VersionsInv == TypeOK /\ TableInv /\ RequestsAreBehind

\* What every step does to the rows that are there.
Progress ==
  /\ Stored \subseteq Stored'
  /\ \A i \in Stored : /\ row'[i].version = row[i].version
                       /\ row[i].state # "Draft" => row'[i].state # "Draft"

\* A changed row that stays consistent and is not newly disapproved.
LEMMA ChangeKeeps ==
  ASSUME TypeOK, TableInv, NEW i, NEW b, Changed(i, b), row' = [row EXCEPT ![i] = b],
         b.submitted <=> b.state # "Draft",
         row[i].state # "Draft" => b.state # "Draft",
         b.state = "Disapproved" => row[i].state = "Disapproved"
  PROVE  TableInv' /\ Progress
<1>1. /\ Stored' = Stored
      /\ row'[i] = b
      /\ \A j \in Stored \ {i} : row'[j] = row[j]
  BY StoredAfterChange
<1>2. i \in Stored /\ b.version = row[i].version /\ b.parent = row[i].parent
  BY DEF Changed
<1>3. \A j \in Stored : /\ row'[j].parent = row[j].parent
                        /\ row'[j].version = row[j].version
                        /\ row[j].state # "Draft" => row'[j].state # "Draft"
                        /\ row'[j].state = "Disapproved" => row[j].state = "Disapproved"
                        /\ row'[j].submitted <=> row'[j].state # "Draft"
  BY <1>1, <1>2 DEF TableInv, SubmittedUnlessDraft
<1>4. SubmittedUnlessDraft'
  BY <1>1, <1>3 DEF SubmittedUnlessDraft
<1>5. LineageIsComplete'
  BY <1>1, <1>3 DEF TableInv, LineageIsComplete
<1>6. DisapprovedHasDraft'
  BY <1>1, <1>3 DEF TableInv, DisapprovedHasDraft
<1> QED
  BY <1>1, <1>3, <1>4, <1>5, <1>6 DEF TableInv, Progress

\* A draft that begins a lineage, or continues it after one submitted.
Fits(d) ==
  \/ d.parent = NoParent /\ d.version = 1
  \/ d.parent \in Stored /\ d.version = row[d.parent].version + 1 /\ row[d.parent].state # "Draft"

LEMMA AddingKeeps ==
  ASSUME TypeOK, TableInv, NEW k, NEW d, Added(k, d), row' = [row EXCEPT ![k] = d], Fits(d)
  PROVE  TableInv' /\ Progress
<1>1. /\ Stored' = Stored \cup {k}
      /\ row'[k] = d
      /\ \A j \in Stored : row'[j] = row[j]
  BY StoredAfterAdding
<1>2. k \notin Stored /\ d.state = "Draft" /\ ~d.submitted /\ NoParent \notin Stored
  BY NoParentAssumption DEF Added, Stored
<1>3. SubmittedUnlessDraft'
  BY <1>1, <1>2 DEF TableInv, SubmittedUnlessDraft
<1>4. LineageIsComplete'
  <2>1. ASSUME NEW j \in Stored
        PROVE  IF row'[j].parent = NoParent THEN row'[j].version = 1
               ELSE LET p == row'[j].parent IN
                      p \in Stored' /\ row'[p].version + 1 = row'[j].version /\ row'[p].state # "Draft"
    BY <2>1, <1>1 DEF TableInv, LineageIsComplete
  <2>2. IF d.parent = NoParent THEN d.version = 1
        ELSE LET p == d.parent IN
               p \in Stored' /\ row'[p].version + 1 = d.version /\ row'[p].state # "Draft"
    BY <1>1, <1>2 DEF Fits
  <2> QED
    BY <1>1, <2>1, <2>2 DEF LineageIsComplete
<1>5. DisapprovedHasDraft'
  BY <1>1, <1>2 DEF TableInv, DisapprovedHasDraft
<1> QED
  BY <1>1, <1>3, <1>4, <1>5 DEF TableInv, Progress

\* A row submitted before that is disapproved together with its next version.
LEMMA BothKeep ==
  ASSUME TypeOK, TableInv, NEW i, NEW b, NEW k, NEW d, ChangeAndAdd(i, b, k, d),
         b.submitted, b.state # "Draft",
         d.parent = i, d.version = row[i].version + 1
  PROVE  TableInv' /\ Progress
<1>1. /\ Stored' = Stored \cup {k}
      /\ row'[i] = b
      /\ row'[k] = d
      /\ \A j \in Stored \ {i} : row'[j] = row[j]
  BY StoredAfterBoth
<1>2. /\ k \notin Stored /\ i \in Stored /\ d.state = "Draft" /\ ~d.submitted
      /\ i # NoParent
      /\ b.version = row[i].version /\ b.parent = row[i].parent
  BY NoParentAssumption DEF ChangeAndAdd, Added, Changed, Stored
<1>3. \A j \in Stored : /\ row'[j].parent = row[j].parent
                        /\ row'[j].version = row[j].version
                        /\ row[j].state # "Draft" => row'[j].state # "Draft"
                        /\ j = i \/ row'[j] = row[j]
  BY <1>1, <1>2
<1>4. SubmittedUnlessDraft'
  <2>1. ASSUME NEW j \in Stored' PROVE row'[j].submitted <=> row'[j].state # "Draft"
    <3>1. CASE j = i
      BY <3>1, <1>1
    <3>2. CASE j = k
      BY <3>2, <1>1, <1>2
    <3>3. CASE j \in Stored \ {i}
      BY <3>3, <1>1 DEF TableInv, SubmittedUnlessDraft
    <3> QED
      BY <3>1, <3>2, <3>3, <1>1
  <2> QED
    BY <2>1 DEF SubmittedUnlessDraft
<1>5. LineageIsComplete'
  <2>1. ASSUME NEW j \in Stored
        PROVE  IF row'[j].parent = NoParent THEN row'[j].version = 1
               ELSE LET p == row'[j].parent IN
                      p \in Stored' /\ row'[p].version + 1 = row'[j].version /\ row'[p].state # "Draft"
    <3>1. row'[j].parent = row[j].parent /\ row'[j].version = row[j].version
      BY <1>3
    <3>2. CASE row[j].parent = NoParent
      BY <3>1, <3>2 DEF TableInv, LineageIsComplete
    <3>3. CASE row[j].parent # NoParent
      <4>1. /\ row[j].parent \in Stored
            /\ row[row[j].parent].version + 1 = row[j].version
            /\ row[row[j].parent].state # "Draft"
        BY <3>3 DEF TableInv, LineageIsComplete
      <4> QED
        BY <4>1, <3>1, <3>3, <1>1, <1>3
    <3> QED
      BY <3>2, <3>3
  <2>2. i \in Stored' /\ row'[i].version + 1 = d.version /\ row'[i].state # "Draft"
    BY <1>1, <1>2
  <2> QED
    BY <1>1, <1>2, <2>1, <2>2 DEF LineageIsComplete
<1>6. DisapprovedHasDraft'
  <2>1. ASSUME NEW j \in Stored', row'[j].state = "Disapproved"
        PROVE  \E l \in Stored' : row'[l].parent = j
    <3>1. CASE j = i
      BY <3>1, <1>1, <1>2
    <3>2. CASE j # i
      <4>1. j \in Stored /\ row[j].state = "Disapproved"
        BY <2>1, <3>2, <1>1, <1>2, <1>3
      <4> QED
        BY <4>1, <1>1, <1>3 DEF TableInv, DisapprovedHasDraft
    <3> QED
      BY <3>1, <3>2
  <2> QED
    BY <2>1 DEF DisapprovedHasDraft
<1> QED
  BY <1>1, <1>3, <1>4, <1>5, <1>6 DEF TableInv, Progress
-----------------------------------------------------------------------------
(* The steps. *)

\* What a step has to keep of the table.
TableStep == row' \in [Ids -> BlueprintRow \cup {NoRow}] /\ TableInv' /\ Progress

LEMMA RequestTyped ==
  ASSUME VersionsInv, NEW r \in Requests, req[r] # Idle
  PROVE  /\ req[r] \in RequestRecord
         /\ ReadIsBehind(req[r])
         /\ req[r].id \in Stored
         /\ row[req[r].id] \in BlueprintRow
         /\ req[r].seen \in BlueprintRow
         /\ req[r].base \in BlueprintRow
         /\ req[r].name \in Names
         /\ req[r].content \in Contents
BY Typed DEF VersionsInv, RequestsAreBehind, ReadIsBehind, RequestRecord

\* A creation begins a lineage.
LEMMA CreateStep ==
  ASSUME VersionsInv, Create
  PROVE  TableStep
<1>1. PICK i \in Ids \ Stored, n \in Names, c \in Contents :
        row' = [row EXCEPT ![i] = NewDraft(n, c, 1, NoParent)]
  BY DEF Create
<1> DEFINE d == NewDraft(n, c, 1, NoParent)
<1>2. d \in BlueprintRow
  BY DraftIsRow
<1>3. d.state = "Draft" /\ ~d.submitted /\ d.parent = NoParent /\ d.version = 1
  BY DEF NewDraft
<1> HIDE DEF d
<1>4. Added(i, d) /\ Fits(d) /\ row' = [row EXCEPT ![i] = d]
  BY <1>1, <1>2, <1>3 DEF Added, Fits, d
<1> QED
  BY <1>4, StoredAfterAdding, AddingKeeps DEF TableStep, VersionsInv

\* An edit in place writes what it was given into the row as it is by now,
\* and neither its state nor its date.
LEMMA EditInPlaceStep ==
  ASSUME VersionsInv, NEW r \in Requests, EditInPlace(r), req[r] # Idle
  PROVE  TableStep
<1> DEFINE q == req[r]
<1> DEFINE name == Flushed(q, "name", q.name)
<1> DEFINE content == Flushed(q, "content", q.content)
<1> DEFINE b == [row[q.id] EXCEPT !.name = name, !.content = content]
<1>1. row[q.id] \in BlueprintRow /\ q.id \in Stored /\ q.id \in Ids
  BY RequestTyped DEF Stored
<1>2. name \in Names /\ content \in Contents
  BY RequestTyped, <1>1 DEF Flushed, BlueprintRow
<1>3. b \in BlueprintRow
  BY <1>1, <1>2 DEF BlueprintRow
<1>4. /\ b.version = row[q.id].version
      /\ b.parent = row[q.id].parent
      /\ b.state = row[q.id].state
      /\ b.submitted = row[q.id].submitted
  BY <1>1 DEF BlueprintRow
<1>5. row' = [row EXCEPT ![q.id] = b]
  BY <1>1 DEF EditInPlace, VersionsInv, TypeOK
<1>6. b.submitted <=> b.state # "Draft"
  BY <1>1, <1>4 DEF VersionsInv, TableInv, SubmittedUnlessDraft
<1> HIDE DEF b, q
<1>7. Changed(q.id, b)
  BY <1>1, <1>3, <1>4 DEF Changed
<1> QED
  BY <1>4, <1>5, <1>6, <1>7, StoredAfterChange, ChangeKeeps DEF TableStep, VersionsInv

\* The next version of what was seen submitted continues its lineage: it has
\* stayed submitted.
LEMMA EditAsCopyStep ==
  ASSUME VersionsInv, NEW r \in Requests, EditAsCopy(r), req[r] # Idle
  PROVE  TableStep
<1> DEFINE q == req[r]
<1>1. PICK i \in Ids \ Stored :
        row' = [row EXCEPT ![i] = NewDraft(q.name, q.content, NextVersion(q), q.id)]
  BY DEF EditAsCopy
<1> DEFINE d == NewDraft(q.name, q.content, NextVersion(q), q.id)
<1>2. q.id \in Stored /\ q.id \in Ids /\ q.name \in Names /\ q.content \in Contents
  BY RequestTyped DEF Stored
<1>3. /\ q.seen.version \in Nat \ {0}
      /\ q.seen.version = row[q.id].version
      /\ q.seen.submitted <=> q.seen.state # "Draft"
      /\ q.seen.state # "Draft" => row[q.id].state # "Draft"
  BY RequestTyped DEF BlueprintRow, ReadIsBehind, Behind
<1>4. NextVersion(q) \in Nat \ {0} /\ NextVersion(q) = row[q.id].version + 1
  BY <1>3 DEF NextVersion
<1>5. row[q.id].state # "Draft"
  BY <1>3 DEF EditAsCopy, InPlace
<1>6. d \in BlueprintRow
  BY <1>2, <1>4, DraftIsRow
<1>7. d.state = "Draft" /\ ~d.submitted /\ d.parent = q.id /\ d.version = NextVersion(q)
  BY DEF NewDraft
<1> HIDE DEF d, q
<1>8. Added(i, d) /\ Fits(d) /\ row' = [row EXCEPT ![i] = d]
  BY <1>1, <1>2, <1>4, <1>5, <1>6, <1>7 DEF Added, Fits, d
<1> QED
  BY <1>8, StoredAfterAdding, AddingKeeps DEF TableStep, VersionsInv

\* What a flush leaves in the state: what was asked for, or what another
\* request has made of a row that was already there.
LEMMA FlushedState ==
  ASSUME VersionsInv, NEW r \in Requests, req[r] # Idle, NEW value \in ApprovalState \ {"Draft"}
  PROVE  LET after == Flushed(req[r], "state", value) IN
           /\ after \in ApprovalState \ {"Draft"}
           /\ after = value \/ after = row[req[r].id].state
<1>1. row[req[r].id].state \in ApprovalState
  BY RequestTyped DEF BlueprintRow
<1>2. req[r].base.state = value => row[req[r].id].state # "Draft"
  BY RequestTyped DEF ReadIsBehind, Behind
<1> QED
  BY <1>1, <1>2 DEF Flushed

LEMMA MoveStep ==
  ASSUME VersionsInv, NEW r \in Requests, Move(r), req[r] # Idle
  PROVE  TableStep
<1> DEFINE q == req[r]
<1> DEFINE state == Flushed(q, "state", q.op)
<1> DEFINE b == [row[q.id] EXCEPT !.state = state, !.submitted = SubmittedAfter(q)]
<1>1. row[q.id] \in BlueprintRow /\ q.id \in Stored /\ q.id \in Ids
  BY RequestTyped DEF Stored
<1>2. q.op \in {"Pending", "Approved", "Rejected"}
  BY DEF Move
<1>3. state \in ApprovalState \ {"Draft"} /\ (state = q.op \/ state = row[q.id].state)
  BY <1>2, FlushedState DEF ApprovalState, Decisions
<1>4. SubmittedAfter(q) = TRUE
  <2>1. CASE q.op = "Pending"
    BY <2>1 DEF SubmittedAfter
  <2>2. CASE q.op # "Pending"
    <3>1. row[q.id].state # "Draft"
      BY <1>2, <2>2, RequestTyped DEF ReadIsBehind, Behind, Decisions
    <3>2. row[q.id].submitted
      BY <1>1, <3>1 DEF VersionsInv, TableInv, SubmittedUnlessDraft
    <3> QED
      BY <3>2 DEF SubmittedAfter
  <2> QED
    BY <2>1, <2>2
<1>5. b \in BlueprintRow
  BY <1>1, <1>3, <1>4 DEF BlueprintRow
<1>6. /\ b.version = row[q.id].version
      /\ b.parent = row[q.id].parent
      /\ b.state = state
      /\ b.submitted = TRUE
  BY <1>1, <1>4 DEF BlueprintRow
<1>7. row' = [row EXCEPT ![q.id] = b]
  BY <1>1 DEF Move, VersionsInv, TypeOK
<1>8. b.state = "Disapproved" => row[q.id].state = "Disapproved"
  BY <1>2, <1>3, <1>6
<1>9. b.state # "Draft"
  BY <1>3, <1>6
<1> HIDE DEF b, q
<1>10. Changed(q.id, b)
  BY <1>1, <1>5, <1>6 DEF Changed
<1> QED
  BY <1>6, <1>7, <1>8, <1>9, <1>10, StoredAfterChange, ChangeKeeps DEF TableStep, VersionsInv

LEMMA DisapproveStep ==
  ASSUME VersionsInv, NEW r \in Requests, Disapprove(r), req[r] # Idle
  PROVE  TableStep
<1> DEFINE q == req[r]
<1> DEFINE state == Flushed(q, "state", "Disapproved")
<1> DEFINE b == [row[q.id] EXCEPT !.state = state]
<1>1. PICK i \in Ids \ Stored :
        row' = [row EXCEPT ![q.id].state = state,
                           ![i] = NewDraft(q.seen.name, q.seen.content, NextVersion(q), q.id)]
  BY DEF Disapprove
<1> DEFINE d == NewDraft(q.seen.name, q.seen.content, NextVersion(q), q.id)
<1>2. /\ row[q.id] \in BlueprintRow /\ q.id \in Stored /\ q.id \in Ids
      /\ q.seen.name \in Names /\ q.seen.content \in Contents
  BY RequestTyped DEF Stored, BlueprintRow
<1>3. state \in ApprovalState \ {"Draft"}
  BY FlushedState DEF ApprovalState, Decisions
<1>4. /\ q.seen.version \in Nat \ {0}
      /\ q.seen.version = row[q.id].version
      /\ row[q.id].state # "Draft"
  BY RequestTyped DEF BlueprintRow, ReadIsBehind, Behind, Disapprove, Decisions
<1>5. NextVersion(q) \in Nat \ {0} /\ NextVersion(q) = row[q.id].version + 1
  BY <1>4 DEF NextVersion
<1>6. row[q.id].submitted
  BY <1>2, <1>4 DEF VersionsInv, TableInv, SubmittedUnlessDraft
<1>7. b \in BlueprintRow
  BY <1>2, <1>3 DEF BlueprintRow
<1>8. /\ b.version = row[q.id].version
      /\ b.parent = row[q.id].parent
      /\ b.state = state
      /\ b.submitted
  BY <1>2, <1>6 DEF BlueprintRow
<1>9. d \in BlueprintRow
  BY <1>2, <1>5, DraftIsRow
<1>10. d.state = "Draft" /\ ~d.submitted /\ d.parent = q.id /\ d.version = row[q.id].version + 1
  BY <1>5 DEF NewDraft
<1>11. row' = [row EXCEPT ![q.id] = b, ![i] = d]
  BY <1>1, <1>2 DEF VersionsInv, TypeOK
<1>12. b.state # "Draft"
  BY <1>3, <1>8
<1> HIDE DEF b, d, q
<1>13. ChangeAndAdd(q.id, b, i, d)
  BY <1>2, <1>7, <1>8, <1>9, <1>10, <1>11 DEF ChangeAndAdd, Changed, Added
<1> QED
  BY <1>8, <1>10, <1>12, <1>13, StoredAfterBoth, BothKeep DEF TableStep, VersionsInv

\* Any step of a request that writes to the table.
Write(r) == EditInPlace(r) \/ EditAsCopy(r) \/ Move(r) \/ Disapprove(r)

LEMMA WriteStep ==
  ASSUME VersionsInv, NEW r \in Requests, Write(r)
  PROVE  TableStep /\ Finished(r)
<1>1. req[r] # Idle
  BY DEF Write, EditInPlace, EditAsCopy, Move, Disapprove, Idle
<1>2. Finished(r)
  BY DEF Write, EditInPlace, EditAsCopy, Move, Disapprove
<1> QED
  BY <1>1, <1>2, EditInPlaceStep, EditAsCopyStep, MoveStep, DisapproveStep DEF Write

LEMMA UnchangedTable ==
  ASSUME VersionsInv, UNCHANGED row
  PROVE  TableStep
BY DEF VersionsInv, TypeOK, TableStep, TableInv, SubmittedUnlessDraft, LineageIsComplete,
       DisapprovedHasDraft, Progress, Stored

LEMMA TableSteps ==
  ASSUME VersionsInv, Next
  PROVE  TableStep
<1>1. CASE Create
  BY <1>1, CreateStep
<1>2. ASSUME NEW r \in Requests, Serve(r) PROVE TableStep
  <2>1. CASE Write(r)
    BY <2>1, WriteStep
  <2>2. CASE BeginEdit(r) \/ BeginMove(r) \/ Reread(r) \/ RollBack(r)
    BY <2>2, UnchangedTable DEF BeginEdit, BeginMove, Begin, Reread, RollBack
  <2> QED
    BY <1>2, <2>1, <2>2 DEF Serve, Write
<1> QED
  BY <1>1, <1>2 DEF Next

\* Reads stay behind a table that progresses.
LEMMA BehindStays ==
  ASSUME Progress, NEW q, ReadIsBehind(q)
  PROVE  ReadIsBehind(q)'
BY DEF Progress, ReadIsBehind, Behind

\* A row that is read is not ahead of itself.
LEMMA FreshIsBehind ==
  ASSUME VersionsInv, NEW i \in Stored
  PROVE  Behind(row[i], i)
BY DEF VersionsInv, TableInv, SubmittedUnlessDraft, Behind

\* A request is new, has read its row again, is over, or is what it was.
LEMMA RequestSteps ==
  ASSUME VersionsInv, Next
  PROVE  /\ req' \in [Requests -> RequestRecord \cup {Idle}]
         /\ RequestsAreBehind'
<1>1. req \in [Requests -> RequestRecord \cup {Idle}] /\ RequestsAreBehind
  BY DEF VersionsInv, TypeOK
<1>2. Progress
  BY TableSteps DEF TableStep
<1>3. CASE UNCHANGED req
  <2>1. \A s \in Requests : req[s] # Idle => ReadIsBehind(req[s])'
    BY <1>1, <1>2, BehindStays, <1>3 DEF RequestsAreBehind
  <2> QED
    BY <1>1, <1>3, <2>1 DEF RequestsAreBehind
<1>4. ASSUME NEW r \in Requests, NEW q, req' = [req EXCEPT ![r] = q],
             q = Idle \/ (q \in RequestRecord /\ ReadIsBehind(q))
      PROVE  /\ req' \in [Requests -> RequestRecord \cup {Idle}]
             /\ RequestsAreBehind'
  <2>1. req' \in [Requests -> RequestRecord \cup {Idle}]
    BY <1>1, <1>4
  <2>2. ASSUME NEW s \in Requests, req'[s] # Idle
        PROVE  ReadIsBehind(req[s])'
    <3>0. req'[s] = IF s = r THEN q ELSE req[s]
      BY <1>1, <1>4
    <3>1. req'[s] # Idle /\ ReadIsBehind(req'[s])
      BY <3>0, <2>2, <1>1, <1>4 DEF RequestsAreBehind
    <3>2. \A w : ReadIsBehind(w) =>
            /\ w.id \in Stored'
            /\ w.seen.version = row'[w.id].version
            /\ w.base.version = row'[w.id].version
            /\ w.seen.state # "Draft" => row'[w.id].state # "Draft"
            /\ w.base.state # "Draft" => row'[w.id].state # "Draft"
            /\ w.seen.submitted <=> w.seen.state # "Draft"
            /\ w.base.submitted <=> w.base.state # "Draft"
            /\ w.op \in Decisions => w.seen.state # "Draft"
      BY <1>2 DEF Progress, ReadIsBehind, Behind
    <3> QED
      BY <3>1, <3>2 DEF ReadIsBehind, Behind
  <2> QED
    BY <2>1, <2>2 DEF RequestsAreBehind
<1>5. CASE Create
  BY <1>3, <1>5 DEF Create
<1>6. ASSUME NEW r \in Requests, BeginEdit(r) \/ BeginMove(r)
      PROVE  \E q : req' = [req EXCEPT ![r] = q] /\ q \in RequestRecord /\ ReadIsBehind(q)
  <2>1. CASE BeginEdit(r)
    <3>1. PICK i \in Ids, n \in Names, c \in Contents : Begin(r, "edit", i, n, c)
      BY <2>1 DEF BeginEdit
    <3> DEFINE q == [op |-> "edit", id |-> i, name |-> n, content |-> c,
                     seen |-> row[i], base |-> row[i]]
    <3>2. i \in Stored /\ row[i] \in BlueprintRow /\ req' = [req EXCEPT ![r] = q]
      BY <3>1, Typed DEF Begin, VersionsInv
    <3>3. q \in RequestRecord
      BY <3>2 DEF RequestRecord
    <3>4. ReadIsBehind(q)
      BY <3>2, FreshIsBehind DEF ReadIsBehind, Decisions
    <3> QED
      BY <3>2, <3>3, <3>4
  <2>2. CASE BeginMove(r)
    <3>1. PICK i \in Stored, target \in {"Pending"} \cup Decisions :
            Movable(i, target) /\ Begin(r, target, i, row[i].name, row[i].content)
      BY <2>2 DEF BeginMove
    <3> DEFINE q == [op |-> target, id |-> i, name |-> row[i].name, content |-> row[i].content,
                     seen |-> row[i], base |-> row[i]]
    <3>2. i \in Ids /\ row[i] \in BlueprintRow /\ req' = [req EXCEPT ![r] = q]
      BY <3>1, Typed DEF Begin, VersionsInv, Stored
    <3>3. q \in RequestRecord
      BY <3>2 DEF RequestRecord, BlueprintRow
    <3>4. target \in Decisions => row[i].state # "Draft"
      BY <3>1 DEF Movable, Decisions
    <3>5. ReadIsBehind(q)
      BY <3>1, <3>4, FreshIsBehind DEF ReadIsBehind
    <3> QED
      BY <3>2, <3>3, <3>5
  <2> QED
    BY <1>6, <2>1, <2>2
<1>7. ASSUME NEW r \in Requests, Reread(r)
      PROVE  \E q : req' = [req EXCEPT ![r] = q] /\ q \in RequestRecord /\ ReadIsBehind(q)
  <2> DEFINE q == [req[r] EXCEPT !.base = row[req[r].id]]
  <2>1. req[r] # Idle /\ req' = [req EXCEPT ![r] = q]
    BY <1>1, <1>7 DEF Reread
  <2>2. req[r] \in RequestRecord /\ ReadIsBehind(req[r]) /\ row[req[r].id] \in BlueprintRow
    BY <2>1, RequestTyped
  <2>3. q \in RequestRecord
    BY <2>2 DEF RequestRecord
  <2>4. q.id = req[r].id /\ q.seen = req[r].seen /\ q.op = req[r].op /\ q.base = row[req[r].id]
    BY <2>2 DEF RequestRecord
  <2>5. ReadIsBehind(q)
    BY <2>2, <2>4, FreshIsBehind DEF ReadIsBehind
  <2> QED
    BY <2>1, <2>3, <2>5
<1>8. ASSUME NEW r \in Requests, Serve(r)
      PROVE  /\ req' \in [Requests -> RequestRecord \cup {Idle}]
             /\ RequestsAreBehind'
  <2>1. CASE BeginEdit(r) \/ BeginMove(r) \/ Reread(r)
    <3>1. PICK q : req' = [req EXCEPT ![r] = q] /\ q \in RequestRecord /\ ReadIsBehind(q)
      BY <2>1, <1>6, <1>7
    <3> QED
      BY <3>1, <1>4
  <2>2. CASE Write(r) \/ RollBack(r)
    <3>1. Finished(r)
      BY <2>2, WriteStep DEF RollBack
    <3>2. PICK q : q = Idle /\ req' = [req EXCEPT ![r] = q]
      BY <3>1 DEF Finished
    <3> QED
      BY <3>2, <1>4
  <2> QED
    BY <1>8, <2>1, <2>2 DEF Serve, Write
<1> QED
  BY <1>5, <1>8 DEF Next

LEMMA VersionsInvInit == Init => VersionsInv
<1> SUFFICES ASSUME Init PROVE VersionsInv
  OBVIOUS
<1>1. TypeOK
  BY DEF Init, TypeOK
<1>2. Stored = {}
  BY DEF Init, Stored
<1>3. TableInv
  BY <1>2 DEF TableInv, SubmittedUnlessDraft, LineageIsComplete, DisapprovedHasDraft
<1>4. RequestsAreBehind
  BY DEF Init, RequestsAreBehind
<1> QED
  BY <1>1, <1>3, <1>4 DEF VersionsInv

LEMMA VersionsInvStep == VersionsInv /\ [Next]_blueprintVars => VersionsInv'
<1> SUFFICES ASSUME VersionsInv, [Next]_blueprintVars PROVE VersionsInv'
  OBVIOUS
<1>1. CASE Next
  BY <1>1, TableSteps, RequestSteps DEF VersionsInv, TypeOK, TableStep
<1>2. CASE UNCHANGED blueprintVars
  BY <1>2 DEF blueprintVars, VersionsInv, TypeOK, TableInv, SubmittedUnlessDraft, Stored,
       LineageIsComplete, DisapprovedHasDraft, RequestsAreBehind, ReadIsBehind, Behind
<1> QED
  BY <1>1, <1>2
-----------------------------------------------------------------------------
(* Results. *)

\* The table and what the requests have read of it are consistent, for any
\* number of blueprints and of requests that overlap.
THEOREM VersionsInvariant == Spec => []VersionsInv
<1> QED
  BY VersionsInvInit, VersionsInvStep, PTL DEF Spec

\* A blueprint is a draft exactly as long as it was never submitted.
THEOREM SubmittedUnlessDraftAlways == Spec => []SubmittedUnlessDraft
<1>1. VersionsInv => SubmittedUnlessDraft
  BY DEF VersionsInv, TableInv
<1> QED
  BY <1>1, VersionsInvariant, PTL

\* Versions count up from 1 and continue what was submitted.
THEOREM LineageIsCompleteAlways == Spec => []LineageIsComplete
<1>1. VersionsInv => LineageIsComplete
  BY DEF VersionsInv, TableInv
<1> QED
  BY <1>1, VersionsInvariant, PTL

\* A disapproval leaves a next version.
THEOREM DisapprovedHasDraftAlways == Spec => []DisapprovedHasDraft
<1>1. VersionsInv => DisapprovedHasDraft
  BY DEF VersionsInv, TableInv
<1> QED
  BY <1>1, VersionsInvariant, PTL

\* No step of any request brings a submitted blueprint back to a draft.
THEOREM NeverDraftAgainAlways == Spec => NeverDraftAgain
<1>1. VersionsInv /\ [Next]_blueprintVars =>
        [\A i \in Stored : row[i].state # "Draft" => row'[i].state # "Draft"]_blueprintVars
  BY TableSteps DEF TableStep, Progress
<1> QED
  BY <1>1, VersionsInvariant, PTL DEF Spec, NeverDraftAgain
-----------------------------------------------------------------------------
(* What the time between the check and the write makes possible, and no more. *)

\* The request that this step ends had checked the blueprint in a state that
\* others have moved it out of since.
Overtaken(r, i) ==
  req[r] # Idle /\ req[r].id = i /\ req[r].seen.state # row[i].state /\ req'[r] = Idle

\* A step that the handlers refuse is taken only by a move that was overtaken.
MovesAreLegalUnlessOvertaken ==
  [][\A i \in Stored : row'[i].state # row[i].state =>
       \/ <<row[i].state, row'[i].state>> \in LegalMoves
       \/ \E r \in Requests : Overtaken(r, i) /\ req[r].op # "edit"]_blueprintVars

\* What was submitted is changed only by an edit that had read it as a draft.
SubmittedIsImmutableUnlessOvertaken ==
  [][\A i \in Stored : row[i].submitted =>
       \/ row'[i].name = row[i].name /\ row'[i].content = row[i].content
       \/ \E r \in Requests : Overtaken(r, i) /\ req[r].op = "edit" /\ req[r].seen.state = "Draft"]_blueprintVars

\* A request to move a blueprint has seen it in a state that allows the move.
MovesWereChecked ==
  \A r \in Requests : req[r] # Idle /\ req[r].op # "edit" => <<req[r].seen.state, req[r].op>> \in LegalMoves

LEMMA MovesWereCheckedStep ==
  ASSUME VersionsInv, MovesWereChecked, [Next]_blueprintVars
  PROVE  MovesWereChecked'
<1>1. req \in [Requests -> RequestRecord \cup {Idle}]
  BY DEF VersionsInv, TypeOK
<1>2. CASE Create
  BY <1>2 DEF Create, MovesWereChecked
<1>3. ASSUME NEW r \in Requests, Serve(r) PROVE MovesWereChecked'
  <2>1. CASE BeginEdit(r)
    <3>1. PICK i \in Ids, n \in Names, c \in Contents : Begin(r, "edit", i, n, c)
      BY <2>1 DEF BeginEdit
    <3>2. req'[r].op = "edit" /\ \A s \in Requests \ {r} : req'[s] = req[s]
      BY <3>1, <1>1 DEF Begin
    <3> QED
      BY <3>2 DEF MovesWereChecked
  <2>2. CASE BeginMove(r)
    <3>1. PICK i \in Stored, target \in {"Pending"} \cup Decisions :
            Movable(i, target) /\ Begin(r, target, i, row[i].name, row[i].content)
      BY <2>2 DEF BeginMove
    <3>2. req'[r].op = target /\ req'[r].seen = row[i] /\ \A s \in Requests \ {r} : req'[s] = req[s]
      BY <3>1, <1>1 DEF Begin
    <3>3. <<row[i].state, target>> \in LegalMoves
      BY <3>1 DEF Movable, LegalMoves
    <3> QED
      BY <3>2, <3>3 DEF MovesWereChecked
  <2>3. CASE Reread(r)
    <3>1. /\ req[r] # Idle
          /\ req'[r] = [req[r] EXCEPT !.base = row[req[r].id]]
          /\ \A s \in Requests \ {r} : req'[s] = req[s]
      BY <2>3, <1>1 DEF Reread
    <3>2. req[r] \in RequestRecord
      BY <3>1, RequestTyped
    <3>3. req'[r].op = req[r].op /\ req'[r].seen = req[r].seen
      BY <3>1, <3>2 DEF RequestRecord
    <3> QED
      BY <3>1, <3>3 DEF MovesWereChecked
  <2>4. CASE Write(r) \/ RollBack(r)
    <3>1. Finished(r)
      BY <2>4, WriteStep DEF RollBack
    <3>2. req'[r] = Idle /\ \A s \in Requests \ {r} : req'[s] = req[s]
      BY <3>1, <1>1 DEF Finished
    <3> QED
      BY <3>2 DEF MovesWereChecked
  <2> QED
    BY <1>3, <2>1, <2>2, <2>3, <2>4 DEF Serve, Write
<1>4. CASE UNCHANGED blueprintVars
  BY <1>4 DEF blueprintVars, MovesWereChecked
<1> QED
  BY <1>2, <1>3, <1>4 DEF Next

LEMMA MovesWereCheckedAlways == Spec => [](VersionsInv /\ MovesWereChecked)
<1>1. Init => MovesWereChecked
  BY DEF Init, MovesWereChecked
<1>2. VersionsInv /\ MovesWereChecked /\ [Next]_blueprintVars => MovesWereChecked'
  BY MovesWereCheckedStep
<1> QED
  BY <1>1, <1>2, VersionsInvariant, PTL DEF Spec

\* What the step of a request does to a row that it found as it had checked it: a
\* legal move, which keeps the contents, or an edit of a row not submitted.
Lawful(i) ==
  /\ \/ row'[i].state = row[i].state
     \/ <<row[i].state, row'[i].state>> \in LegalMoves
     \/ \E r \in Requests : Overtaken(r, i) /\ req[r].op # "edit"
  /\ \/ ~row[i].submitted
     \/ row'[i].name = row[i].name /\ row'[i].content = row[i].content
     \/ \E r \in Requests : Overtaken(r, i) /\ req[r].op = "edit" /\ req[r].seen.state = "Draft"

LEMMA StepsAreLawful ==
  ASSUME VersionsInv, MovesWereChecked, Next, NEW i \in Stored
  PROVE  Lawful(i)
<1>1. row \in [Ids -> BlueprintRow \cup {NoRow}] /\ i \in Ids
  BY DEF VersionsInv, TypeOK, Stored
<1>2. row[i] \in BlueprintRow /\ req \in [Requests -> RequestRecord \cup {Idle}]
  BY Typed DEF VersionsInv, TypeOK
<1>3. CASE UNCHANGED row
  BY <1>3 DEF Lawful
<1>4. CASE Create
  BY <1>4, <1>1 DEF Create, Lawful
<1>5. ASSUME NEW r \in Requests, Write(r) PROVE Lawful(i)
  <2> DEFINE q == req[r]
  <2>1. q # Idle
    BY <1>5 DEF Write, EditInPlace, EditAsCopy, Move, Disapprove, Idle
  <2>2. q.id \in Stored /\ req'[r] = Idle
    <3>1. Finished(r)
      BY <1>5, <2>1, WriteStep
    <3> QED
      BY <3>1, <1>2, <2>1, RequestTyped DEF Finished
  <2>3. q.op # "edit" => <<q.seen.state, q.op>> \in LegalMoves
    BY <2>1 DEF MovesWereChecked
  <2>8. i = q.id => q.seen.state = row[i].state \/ Overtaken(r, i)
    BY <2>1, <2>2 DEF Overtaken
  <2>4. CASE EditInPlace(r)
    <3>1. CASE i = q.id
      <4>1. q.op = "edit" /\ q.seen.state = "Draft"
        BY <2>4 DEF EditInPlace, InPlace
      <4>2. row'[i].state = row[i].state
        BY <2>4, <3>1, <1>1, <1>2 DEF EditInPlace, BlueprintRow
      <4>3. row[i].submitted => row[i].state # "Draft"
        BY DEF VersionsInv, TableInv, SubmittedUnlessDraft
      <4> QED
        BY <4>1, <4>2, <4>3, <2>8, <3>1 DEF Lawful
    <3>2. CASE i # q.id
      BY <2>4, <3>2, <1>1 DEF EditInPlace, Lawful
    <3> QED
      BY <3>1, <3>2
  <2>5. CASE EditAsCopy(r)
    BY <2>5, <1>1 DEF EditAsCopy, Lawful
  <2>6. CASE Move(r)
    <3>0. q.op # "edit"
      BY <2>6 DEF Move
    <3>1. CASE i = q.id
      <4>1. row'[i].state \in {row[i].state, q.op}
        BY <2>6, <3>1, <1>1, <1>2 DEF Move, Flushed, BlueprintRow
      <4>2. row'[i].name = row[i].name /\ row'[i].content = row[i].content
        BY <2>6, <3>1, <1>1, <1>2 DEF Move, BlueprintRow
      <4> QED
        BY <4>1, <4>2, <2>3, <2>8, <3>0, <3>1 DEF Lawful
    <3>2. CASE i # q.id
      BY <2>6, <3>2, <1>1 DEF Move, Lawful
    <3> QED
      BY <3>1, <3>2
  <2>7. CASE Disapprove(r)
    <3>0. q.op = "Disapproved"
      BY <2>7 DEF Disapprove
    <3>1. PICK k \in Ids \ Stored :
            row' = [row EXCEPT ![q.id].state = Flushed(q, "state", "Disapproved"),
                               ![k] = NewDraft(q.seen.name, q.seen.content, NextVersion(q), q.id)]
      BY <2>7 DEF Disapprove
    <3>2. CASE i = q.id
      <4>1. row'[i] = [row[i] EXCEPT !.state = Flushed(q, "state", "Disapproved")]
        BY <3>1, <3>2, <1>1
      <4>2. row'[i].state \in {row[i].state, q.op}
        BY <4>1, <3>0, <3>2, <1>2 DEF Flushed, BlueprintRow
      <4>3. row'[i].name = row[i].name /\ row'[i].content = row[i].content
        BY <4>1, <1>2 DEF BlueprintRow
      <4> QED
        BY <4>2, <4>3, <2>3, <2>8, <3>0, <3>2 DEF Lawful
    <3>3. CASE i # q.id
      <4>1. row'[i] = row[i]
        BY <3>1, <3>3, <1>1
      <4> QED
        BY <4>1 DEF Lawful
    <3> QED
      BY <3>2, <3>3
  <2> QED
    BY <1>5, <2>4, <2>5, <2>6, <2>7 DEF Write
<1>6. ASSUME NEW r \in Requests, BeginEdit(r) \/ BeginMove(r) \/ Reread(r) \/ RollBack(r)
      PROVE  UNCHANGED row
  BY <1>6 DEF BeginEdit, BeginMove, Begin, Reread, RollBack
<1> QED
  BY <1>3, <1>4, <1>5, <1>6 DEF Next, Serve, Write

\* However requests overlap, every move is one that the handlers allow, but for
\* that of a request which others overtook between its check and its write: two
\* decisions that both saw the blueprint pending (blueprint_approval_controller).
THEOREM MovesAreLegalUnlessOvertakenAlways == Spec => MovesAreLegalUnlessOvertaken
<1>1. (VersionsInv /\ MovesWereChecked) /\ [Next]_blueprintVars =>
        [\A i \in Stored : row'[i].state # row[i].state =>
           \/ <<row[i].state, row'[i].state>> \in LegalMoves
           \/ \E r \in Requests : Overtaken(r, i) /\ req[r].op # "edit"]_blueprintVars
  BY StepsAreLawful DEF Lawful
<1> QED
  BY <1>1, MovesWereCheckedAlways, PTL DEF Spec, MovesAreLegalUnlessOvertaken

\* However requests overlap, what was submitted is changed by nothing but an edit
\* that read the blueprint as a draft before it was submitted (versioning_service).
THEOREM SubmittedIsImmutableUnlessOvertakenAlways == Spec => SubmittedIsImmutableUnlessOvertaken
<1>1. (VersionsInv /\ MovesWereChecked) /\ [Next]_blueprintVars =>
        [\A i \in Stored : row[i].submitted =>
           \/ row'[i].name = row[i].name /\ row'[i].content = row[i].content
           \/ \E r \in Requests : Overtaken(r, i) /\ req[r].op = "edit" /\ req[r].seen.state = "Draft"]_blueprintVars
  BY StepsAreLawful DEF Lawful
<1> QED
  BY <1>1, MovesWereCheckedAlways, PTL DEF Spec, SubmittedIsImmutableUnlessOvertaken
=============================================================================
