-------------------------- MODULE MarketDataProofs --------------------------
(*****************************************************************************)
(* What is proved of the market data, for every length of the requested      *)
(* range, of a chunk and of a batch, every content of the cache and every    *)
(* change that others make to it: a discovery finds exactly the missing      *)
(* minutes, a refresh of a gap fetches all of it that is over, and a catch-up *)
(* that says it is complete has left nothing out.                            *)
(*****************************************************************************)
EXTENDS GapProperties, KlineFetch, CatchUpProperties, FiniteSetTheorems, WellFoundedInduction, TLAPS

(* The loops of a discovery. *)

\* The ranges of a list lie between two times and are not empty.
Legal(ranges, from, to) ==
  \A i \in DOMAIN ranges :
    from <= ranges[i].start /\ ranges[i].start < ranges[i].end /\ ranges[i].end <= to

\* They are in ascending order, with time between them.
Apart(ranges) == \A i, j \in DOMAIN ranges : i < j => ranges[i].end < ranges[j].start

Holds(range, t) == range.start <= t /\ t < range.end

\* A list with one range more covers what that range holds besides.
LEMMA AppendCovers ==
  ASSUME NEW s \in Seq(RangeRecord), NEW r \in RangeRecord, NEW t
  PROVE  Covers(Append(s, r), t) <=> Covers(s, t) \/ Holds(r, t)
<1> DEFINE a == Append(s, r)
<1>1. a \in Seq(RangeRecord) /\ Len(a) = Len(s) + 1 /\ a[Len(s) + 1] = r
      /\ \A i \in 1 .. Len(s) : a[i] = s[i]
  OBVIOUS
<1>2. DOMAIN a = 1 .. Len(s) + 1 /\ DOMAIN s = 1 .. Len(s) /\ Len(s) \in Nat
  BY <1>1
<1>3. (\E i \in DOMAIN a : Holds(a[i], t)) <=> (\E i \in DOMAIN s : Holds(s[i], t)) \/ Holds(r, t)
  <2> HIDE DEF a
  <2> QED BY <1>1, <1>2
<1> QED BY <1>3 DEF Covers, Holds

\* A list covers what its head holds and what its tail covers.
LEMMA TailCovers ==
  ASSUME NEW s \in Seq(RangeRecord), s # <<>>, NEW t
  PROVE  Covers(s, t) <=> Holds(Head(s), t) \/ Covers(Tail(s), t)
<1> DEFINE a == Tail(s)
<1>1. a \in Seq(RangeRecord) /\ Len(a) = Len(s) - 1 /\ Head(s) = s[1] /\ Len(s) \in Nat \ {0}
      /\ \A i \in 1 .. Len(a) : a[i] = s[i + 1]
  OBVIOUS
<1>2. DOMAIN a = 1 .. Len(s) - 1 /\ DOMAIN s = 1 .. Len(s)
  BY <1>1
<1>3. (\E i \in DOMAIN s : Holds(s[i], t)) <=> (\E i \in DOMAIN a : Holds(a[i], t)) \/ Holds(s[1], t)
  <2> HIDE DEF a
  <2>1. ASSUME NEW i \in DOMAIN s, Holds(s[i], t) PROVE (\E j \in DOMAIN a : Holds(a[j], t)) \/ Holds(s[1], t)
    <3>1. CASE i = 1 BY <2>1, <3>1
    <3>2. CASE i # 1
      <4>1. i - 1 \in 1 .. Len(a) /\ a[i - 1] = s[i]
        BY <1>1, <1>2, <3>2
      <4> QED BY <1>1, <1>2, <2>1, <4>1
    <3> QED BY <3>1, <3>2
  <2>2. ASSUME NEW i \in DOMAIN a, Holds(a[i], t) PROVE \E j \in DOMAIN s : Holds(s[j], t)
    <3>1. i + 1 \in DOMAIN s /\ s[i + 1] = a[i]
      BY <1>1, <1>2
    <3> QED BY <2>2, <3>1
  <2>3. 1 \in DOMAIN s
    BY <1>1, <1>2
  <2> QED BY <2>1, <2>2, <2>3
<1> QED BY <1>1, <1>3 DEF Covers, Holds

\* A range after all others leaves a list legal and in order.
LEMMA AppendLegal ==
  ASSUME NEW s \in Seq(RangeRecord), NEW r \in RangeRecord, NEW from \in Int, NEW to \in Int,
         Legal(s, from, to), Apart(s),
         from <= r.start, r.start < r.end, r.end <= to,
         \A i \in DOMAIN s : s[i].end < r.start
  PROVE  Append(s, r) \in Seq(RangeRecord) /\ Legal(Append(s, r), from, to) /\ Apart(Append(s, r))
<1> DEFINE a == Append(s, r)
<1>1. a \in Seq(RangeRecord) /\ Len(a) = Len(s) + 1 /\ a[Len(s) + 1] = r
      /\ \A i \in 1 .. Len(s) : a[i] = s[i]
  OBVIOUS
<1>2. DOMAIN a = 1 .. Len(s) + 1 /\ DOMAIN s = 1 .. Len(s) /\ Len(s) \in Nat
  BY <1>1
<1> HIDE DEF a
<1>3. Legal(a, from, to)
  BY <1>1, <1>2 DEF Legal
<1>4. Apart(a)
  <2> SUFFICES ASSUME NEW i \in DOMAIN a, NEW j \in DOMAIN a, i < j PROVE a[i].end < a[j].start
    BY DEF Apart
  <2>1. i \in DOMAIN s /\ a[i] = s[i]
    BY <1>1, <1>2
  <2>2. CASE j = Len(s) + 1
    BY <1>1, <2>1, <2>2
  <2>3. CASE j # Len(s) + 1
    BY <1>1, <1>2, <2>1, <2>3 DEF Apart
  <2> QED BY <2>2, <2>3
<1> QED BY <1>1, <1>3, <1>4 DEF a

\* So does leaving out the first.
LEMMA TailLegal ==
  ASSUME NEW s \in Seq(RangeRecord), s # <<>>, NEW from \in Int, NEW to \in Int,
         Legal(s, from, to), Apart(s)
  PROVE  /\ Tail(s) \in Seq(RangeRecord) /\ Legal(Tail(s), from, to) /\ Apart(Tail(s))
         /\ Head(s) \in RangeRecord
         /\ from <= Head(s).start /\ Head(s).start < Head(s).end /\ Head(s).end <= to
         /\ \A i \in DOMAIN Tail(s) : Tail(s)[i] = s[i + 1] /\ i + 1 \in DOMAIN s
                                      /\ Head(s).end < Tail(s)[i].start
<1> DEFINE a == Tail(s)
<1>1. a \in Seq(RangeRecord) /\ Len(a) = Len(s) - 1 /\ Head(s) = s[1] /\ Len(s) \in Nat \ {0}
      /\ Head(s) \in RangeRecord /\ \A i \in 1 .. Len(a) : a[i] = s[i + 1]
  OBVIOUS
<1>2. DOMAIN a = 1 .. Len(s) - 1 /\ DOMAIN s = 1 .. Len(s)
  BY <1>1
<1> HIDE DEF a
<1>3. \A i \in DOMAIN a : a[i] = s[i + 1] /\ i + 1 \in DOMAIN s
  BY <1>1, <1>2
<1>4. 1 \in DOMAIN s
  BY <1>1, <1>2
<1>5. Legal(a, from, to)
  BY <1>3 DEF Legal
<1>6. Apart(a)
  <2> SUFFICES ASSUME NEW i \in DOMAIN a, NEW j \in DOMAIN a, i < j PROVE a[i].end < a[j].start
    BY DEF Apart
  <2>1. i + 1 \in DOMAIN s /\ j + 1 \in DOMAIN s /\ i + 1 < j + 1
    BY <1>1, <1>2, <1>3
  <2> QED BY <1>3, <2>1 DEF Apart
<1>7. \A i \in DOMAIN a : Head(s).end < a[i].start
  <2> SUFFICES ASSUME NEW i \in DOMAIN a PROVE s[1].end < a[i].start
    BY <1>1
  <2>1. i + 1 \in DOMAIN s /\ 1 < i + 1
    BY <1>1, <1>2, <1>3
  <2> QED BY <1>3, <1>4, <2>1 DEF Apart
<1>8. from <= s[1].start /\ s[1].start < s[1].end /\ s[1].end <= to
  BY <1>4 DEF Legal
<1> QED BY <1>1, <1>3, <1>5, <1>6, <1>7, <1>8 DEF a
-----------------------------------------------------------------------------
(* The inductive invariant. *)

\* Before the merge: minutes up to next are settled, those after it that were
\* read either await their turn or had no candle.
Scanned ==
  /\ start <= cursor /\ cursor <= end /\ start <= next /\ start < end
  /\ \A t \in todo : t < cursor /\ next <= t /\ t \notin absent
  /\ \A t \in absent : start <= t /\ t < cursor
  /\ \A t \in Opens : cursor <= t => next <= t
  /\ \A t \in Opens : next <= t /\ t < cursor /\ t \notin todo => t \in absent
  /\ \A t \in Opens : t < next => (Covers(found, t) <=> t \in absent)
  /\ \A i \in DOMAIN found : found[i].end < next
  /\ Legal(found, start, end)
  /\ Apart(found)
  /\ merged = <<>>

\* During the merge: the two lists cover what they should between them.
Merging ==
  /\ start < end
  /\ \A t \in Opens : Covers(merged, t) \/ Covers(found, t) <=> t \in absent
  /\ Legal(merged, start, end) /\ Apart(merged)
  /\ Legal(found, start, end) /\ Apart(found)
  /\ \A i \in DOMAIN merged, j \in DOMAIN found : merged[i].end < found[j].start

Merged ==
  /\ \A t \in Opens : Covers(merged, t) <=> t \in absent
  /\ Legal(merged, start, end) /\ Apart(merged)

Asked(until) == {t \in Opens : start <= t /\ t < until}

\* The count, and that the scan ends at the end.
Counted ==
  /\ total = Cardinality(Asked(cursor) \ absent)
  /\ pc # "scan" => cursor = end

GapInv ==
  /\ GapTypeOK
  /\ absent \in SUBSET Opens
  /\ pc = "scan" => Scanned
  /\ pc = "merge" => Merging
  /\ pc = "done" => Merged
  /\ Counted

\* The times are numbers.
LEMMA Numbers ==
  /\ MaxTime \in Nat /\ Minute \in Nat \ {0} /\ Chunk \in Nat \ {0}
  /\ Opens \subseteq Time /\ Time \subseteq Nat
  /\ \A s, t \in Opens : s < t => s + Minute <= t
BY GapAssumption DEF Time

LEMMA OpensAreFinite == ASSUME NEW S \in SUBSET Opens PROVE IsFiniteSet(S) /\ Cardinality(S) \in Nat
<1>1. IsFiniteSet(Time)
  BY Numbers, FS_Interval DEF Time
<1>2. S \in SUBSET Time
  BY Numbers
<1> QED BY <1>1, <1>2, FS_Subset, FS_CardinalityType

LEMMA EmptyCovers == ASSUME NEW t PROVE ~Covers(<<>>, t)
BY DEF Covers

LEMMA TimesAreTyped ==
  ASSUME GapTypeOK
  PROVE  /\ start \in Time /\ end \in Time /\ cursor \in Time
         /\ start \in Nat /\ end \in Nat /\ cursor \in Nat /\ next \in Nat
<1>1. start \in Time /\ end \in Time /\ cursor \in Time
  BY DEF GapTypeOK
<1>2. next \in Nat
  BY Numbers DEF GapTypeOK
<1> QED BY <1>1, <1>2, Numbers

LEMMA GapInvInit == ObservedGapInit => GapInv
<1> SUFFICES ASSUME ObservedGapInit PROVE GapInv
  OBVIOUS
<1> USE DEF ObservedGapInit, GapInit
<1>1. GapTypeOK
  BY Numbers DEF GapTypeOK, Time
<1>2. Scanned
  <2>1. found = <<>> /\ merged = <<>> /\ todo = {} /\ absent = {}
    OBVIOUS
  <2>2. start \in Nat /\ end \in Nat /\ cursor = start /\ next = start
    BY Numbers
  <2>3. \A t \in Opens : t \in Nat
    BY Numbers
  <2> QED
    BY <2>1, <2>2, <2>3, EmptyCovers DEF Scanned, Legal, Apart
<1>3. Counted
  <2>1. Asked(cursor) = {}
    <3>1. start \in Nat /\ cursor = start /\ \A t \in Opens : t \in Nat
      BY Numbers
    <3>2. \A t \in Opens : ~(start <= t /\ t < cursor)
      BY <3>1
    <3> QED BY <3>2 DEF Asked
  <2> QED BY <2>1, FS_EmptySet DEF Counted
<1> QED BY <1>1, <1>2, <1>3 DEF GapInv
-----------------------------------------------------------------------------
(* Steps. *)

\* A chunk that is read is settled for the observer, and adds its rows to the count.
LEMMA ReadChunkStep == ASSUME GapInv, ReadChunk, ObserveAbsence PROVE GapInv'
<1> USE DEF ReadChunk
<1>1. /\ stored \in SUBSET Opens /\ start \in Nat /\ end \in Nat /\ cursor \in Nat /\ cursor < end
      /\ Scanned /\ todo = {} /\ total \in Nat /\ end \in Time
  BY TimesAreTyped DEF GapInv, GapTypeOK
<1>2. ChunkEnd \in Time /\ cursor < ChunkEnd /\ ChunkEnd <= end /\ ChunkEnd \in Nat
  BY <1>1, Numbers DEF ChunkEnd, Time
<1>3. todo' = {t \in stored : cursor <= t /\ t < cursor'}
  BY DEF Read
<1>4. absent' = absent \cup ({t \in Opens : cursor <= t /\ t < cursor'} \ stored)
  BY <1>1, <1>2 DEF ObserveAbsence
<1>5. \A t \in Opens : t \in Nat
  BY Numbers
<1>6. GapTypeOK'
  <2>1. todo' \in SUBSET Opens
    BY <1>1, <1>3
  <2>2. total' \in Nat
    BY <1>1, <2>1, OpensAreFinite
  <2> QED BY <1>2, <2>1, <2>2 DEF GapInv, GapTypeOK
<1>7. absent' \in SUBSET Opens
  BY <1>1, <1>4 DEF GapInv
<1>8. Scanned'
  <2>1. start' <= cursor' /\ cursor' <= end' /\ start' <= next' /\ start' < end'
    BY <1>1, <1>2 DEF Scanned
  <2>2. \A t \in todo' : t < cursor' /\ next' <= t /\ t \notin absent'
    BY <1>1, <1>3, <1>4, <1>5 DEF Scanned
  <2>3. \A t \in absent' : start' <= t /\ t < cursor'
    BY <1>1, <1>2, <1>4, <1>5 DEF Scanned, GapInv
  <2>4. \A t \in Opens : cursor' <= t => next' <= t
    BY <1>1, <1>2, <1>5 DEF Scanned
  <2>5. \A t \in Opens : next' <= t /\ t < cursor' /\ t \notin todo' => t \in absent'
    BY <1>1, <1>3, <1>4, <1>5 DEF Scanned
  <2>6. \A t \in Opens : t < next' => (Covers(found', t) <=> t \in absent')
    <3> SUFFICES ASSUME NEW t \in Opens, t < next PROVE Covers(found, t) <=> t \in absent'
      OBVIOUS
    <3>1. ~(cursor <= t)
      <4>1. next \in Nat
        BY Numbers DEF GapInv, GapTypeOK
      <4> QED BY <1>1, <1>5, <4>1 DEF Scanned
    <3>2. t \in absent' <=> t \in absent
      BY <1>4, <3>1
    <3> QED BY <1>1, <3>2 DEF Scanned
  <2>7. (\A i \in DOMAIN found : found[i].end < next)' /\ Legal(found, start, end)'
        /\ Apart(found)' /\ (merged = <<>>)'
    BY <1>1 DEF Scanned, Legal, Apart
  <2> QED BY <2>1, <2>2, <2>3, <2>4, <2>5, <2>6, <2>7 DEF Scanned
<1>9. Counted'
  <2> DEFINE before == Asked(cursor) \ absent
  <2>1. Asked(cursor)' \ absent' = before \cup todo'
    BY <1>1, <1>2, <1>3, <1>4, <1>5 DEF Asked, Scanned
  <2>2. before \cap todo' = {}
    BY <1>1, <1>3, <1>5 DEF Asked
  <2>3. before \in SUBSET Opens /\ todo' \in SUBSET Opens
    BY <1>1, <1>3 DEF Asked
  <2>4. IsFiniteSet(before) /\ IsFiniteSet(todo')
        /\ Cardinality(before) \in Nat /\ Cardinality(todo') \in Nat
    BY <2>3, OpensAreFinite
  <2>5. Cardinality(before \cup todo') = Cardinality(before) + Cardinality(todo') - Cardinality({})
    BY <2>2, <2>4, FS_Union
  <2>6. total' = Cardinality(before) + Cardinality(todo')
    BY DEF GapInv, Counted
  <2>7. total' = Cardinality(before \cup todo')
    BY <2>4, <2>5, <2>6, FS_EmptySet
  <2> QED BY <2>1, <2>7 DEF Counted
<1> QED BY <1>6, <1>7, <1>8, <1>9 DEF GapInv

\* The least row that is left ends the gap before it, if there is one.
LEMMA ScanRowStep == ASSUME GapInv, ScanRow, ObserveAbsence PROVE GapInv'
<1>a. UNCHANGED <<stored, pc, start, end, cursor, merged, total>> /\ pc = "scan"
  BY DEF ScanRow
<1>1. /\ start \in Nat /\ end \in Nat /\ cursor \in Nat /\ next \in Nat /\ start \in Time /\ end \in Time
      /\ Scanned /\ todo \in SUBSET Opens /\ found \in Seq(RangeRecord)
  BY <1>a, TimesAreTyped DEF GapInv, GapTypeOK
<1>2. PICK t \in todo :
                       /\ \A s \in todo : t <= s
                       /\ todo' = todo \ {t}
                       /\ found' = IF t > next THEN Append(found, Gap(next, t)) ELSE found
                       /\ next' = IF t < next THEN next ELSE t + Minute
  BY DEF ScanRow
<1>3. absent' = absent
  BY <1>a DEF ObserveAbsence
<1>4. \A s \in Opens : s \in Nat
  BY Numbers
<1>5. t \in Opens /\ t \in Nat /\ next <= t /\ t < cursor /\ t < end /\ t \in Time
  <2>1. t \in Opens /\ t \in Nat /\ t \in Time
    BY <1>1, <1>4, Numbers
  <2>2. next <= t /\ t < cursor /\ cursor <= end
    BY <1>1 DEF Scanned
  <2> QED BY <1>1, <2>1, <2>2
<1>6. next' = t + Minute /\ next' \in Nat /\ t < next'
  BY <1>1, <1>2, <1>5, Numbers
<1>7. /\ Gap(next, t) \in RangeRecord
      /\ Gap(next, t).start = next /\ Gap(next, t).end = t
  <2>1. next \in Time
    BY <1>1, <1>5, Numbers DEF Time
  <2> QED BY <1>5, <2>1 DEF Gap, RangeRecord
<1>8. found' \in Seq(RangeRecord) /\ Legal(found', start, end) /\ Apart(found')
  <2>1. CASE t > next
    <3> DEFINE r == Gap(next, t)
    <3>1. start <= r.start /\ r.start < r.end /\ r.end <= end
      BY <1>1, <1>5, <1>7, <2>1 DEF Scanned
    <3>2. Legal(found, start, end) /\ Apart(found) /\ \A i \in DOMAIN found : found[i].end < r.start
      BY <1>1, <1>7, <2>1 DEF Scanned
    <3>3. r \in RangeRecord /\ start \in Int /\ end \in Int
      BY <1>1, <1>7, <2>1
    <3>4. found' = Append(found, r)
      BY <1>2, <2>1
    <3> HIDE DEF r
    <3> QED BY <1>1, <3>1, <3>2, <3>3, <3>4, AppendLegal
  <2>2. CASE ~(t > next)
    BY <1>1, <1>2, <2>2 DEF Scanned
  <2> QED BY <2>1, <2>2
<1>9. \A s \in Opens : Covers(found', s) <=> Covers(found, s) \/ (next <= s /\ s < t)
  <2> SUFFICES ASSUME NEW s \in Opens PROVE Covers(found', s) <=> Covers(found, s) \/ (next <= s /\ s < t)
    OBVIOUS
  <2>1. CASE t > next
    BY <1>1, <1>2, <1>7, <2>1, AppendCovers DEF Holds
  <2>2. CASE ~(t > next)
    <3>1. ~(next <= s /\ s < t)
      BY <1>1, <1>4, <1>5, <2>2
    <3> QED BY <1>2, <2>2, <3>1
  <2> QED BY <2>1, <2>2
<1>10. \A s \in Opens : s < next' => s <= t
  BY <1>4, <1>5, <1>6, Numbers
<1>11. GapTypeOK'
  <2>1. todo' \in SUBSET Opens /\ next' \in 0 .. MaxTime + Minute
    BY <1>1, <1>2, <1>5, <1>6, Numbers DEF Time
  <2> QED BY <1>a, <1>8, <2>1 DEF GapInv, GapTypeOK
<1>12. Scanned'
  <2>1. start' <= cursor' /\ cursor' <= end' /\ start' <= next' /\ start' < end'
    BY <1>a, <1>1, <1>5, <1>6 DEF Scanned
  <2>2. \A s \in todo' : s < cursor' /\ next' <= s /\ s \notin absent'
    <3>1. \A s \in todo' : s \in todo /\ s \in Opens /\ t < s
      BY <1>1, <1>2, <1>4, <1>5
    <3> QED BY <1>a, <1>1, <1>3, <1>5, <1>6, <3>1, Numbers DEF Scanned
  <2>3. \A s \in absent' : start' <= s /\ s < cursor'
    BY <1>a, <1>1, <1>3 DEF Scanned
  <2>4. \A s \in Opens : cursor' <= s => next' <= s
    BY <1>a, <1>1, <1>4, <1>5, <1>6, Numbers
  <2>5. \A s \in Opens : next' <= s /\ s < cursor' /\ s \notin todo' => s \in absent'
    BY <1>a, <1>1, <1>2, <1>3, <1>4, <1>5, <1>6 DEF Scanned
  <2>6. \A s \in Opens : s < next' => (Covers(found', s) <=> s \in absent')
    <3> SUFFICES ASSUME NEW s \in Opens, s < next' PROVE Covers(found', s) <=> s \in absent
      BY <1>3
    <3>1. s \in Nat /\ s <= t
      BY <1>4, <1>10
    <3>2. CASE s < next
      <4>1. ~(next <= s)
        BY <1>1, <3>1, <3>2
      <4> QED BY <1>1, <1>9, <3>2, <4>1 DEF Scanned
    <3>3. CASE next <= s /\ s < t
      <4>1. s \notin todo
        BY <1>2, <1>5, <3>1, <3>3
      <4>2. s \in absent
        BY <1>1, <1>5, <3>1, <3>3, <4>1 DEF Scanned
      <4> QED BY <1>9, <3>3, <4>2
    <3>4. CASE s = t
      <4>1. s \notin absent
        BY <1>1, <3>4 DEF Scanned
      <4>2. ~Covers(found, s)
        <5> SUFFICES ASSUME NEW i \in DOMAIN found, s < found[i].end PROVE FALSE
          BY DEF Covers
        <5>1. found[i].end < next
          BY <1>1 DEF Scanned
        <5>2. found[i].end \in Nat
          <6>1. found[i] \in RangeRecord
            BY <1>1
          <6> QED BY <6>1, Numbers DEF RangeRecord
        <5> QED BY <1>1, <1>5, <3>4, <5>1, <5>2
      <4>3. ~(next <= s /\ s < t)
        BY <1>5, <3>4
      <4> QED BY <1>9, <4>1, <4>2, <4>3
    <3> QED BY <1>1, <1>5, <3>1, <3>2, <3>3, <3>4
  <2>7. \A i \in DOMAIN found' : found'[i].end < next'
    <3> SUFFICES ASSUME NEW i \in DOMAIN found' PROVE found'[i].end < next'
      OBVIOUS
    <3>1. \A j \in DOMAIN found : found[j].end < next /\ found[j].end \in Nat
      <4>1. \A j \in DOMAIN found : found[j] \in RangeRecord
        BY <1>1
      <4> QED BY <1>1, <4>1, Numbers DEF Scanned, RangeRecord
    <3>2. CASE t > next
      <4> DEFINE r == Gap(next, t)
      <4>1. found' = Append(found, r) /\ r.end = t
        BY <1>2, <1>7, <3>2
      <4> HIDE DEF r
      <4>2. DOMAIN found' = 1 .. Len(found) + 1 /\ DOMAIN found = 1 .. Len(found) /\ Len(found) \in Nat
            /\ found'[Len(found) + 1] = r /\ \A j \in 1 .. Len(found) : found'[j] = found[j]
        BY <1>1, <4>1
      <4>3. CASE i = Len(found) + 1
        BY <1>6, <4>1, <4>2, <4>3
      <4>4. CASE i # Len(found) + 1
        <5>1. i \in DOMAIN found /\ found'[i] = found[i]
          BY <4>2, <4>4
        <5> QED BY <1>1, <1>5, <1>6, <3>1, <5>1
      <4> QED BY <4>3, <4>4
    <3>3. CASE ~(t > next)
      BY <1>1, <1>2, <1>5, <1>6, <3>1, <3>3
    <3> QED BY <3>2, <3>3
  <2>8. Legal(found, start, end)' /\ Apart(found)' /\ merged' = <<>>
    BY <1>a, <1>1, <1>8 DEF Scanned, Legal, Apart
  <2> QED BY <2>1, <2>2, <2>3, <2>4, <2>5, <2>6, <2>7, <2>8 DEF Scanned
<1>13. Counted'
  BY <1>a, <1>3 DEF GapInv, Counted, Asked
<1> QED BY <1>a, <1>3, <1>11, <1>12, <1>13 DEF GapInv

\* What follows the last row is the last gap; the two lists are in order.
LEMMA ScanTailStep == ASSUME GapInv, ScanTail, ObserveAbsence PROVE GapInv'
<1>1. /\ UNCHANGED <<stored, start, end, cursor, todo, next, merged, total>>
      /\ pc = "scan" /\ pc' = "merge" /\ todo = {} /\ cursor >= end
      /\ found' = IF next < end THEN Append(found, Gap(next, end)) ELSE found
  BY DEF ScanTail
<1>2. /\ Scanned /\ found \in Seq(RangeRecord) /\ absent' = absent /\ absent \in SUBSET Opens
      /\ start \in Nat /\ end \in Nat /\ cursor \in Nat /\ next \in Nat /\ end \in Time
  BY <1>1, TimesAreTyped DEF GapInv, GapTypeOK, ObserveAbsence
<1>3. cursor = end
  BY <1>1, <1>2 DEF Scanned
<1>4. \A t \in Opens : t \in Nat
  BY Numbers
<1>5. next < end => /\ Gap(next, end) \in RangeRecord
                    /\ Gap(next, end).start = next /\ Gap(next, end).end = end
  <2> SUFFICES ASSUME next < end PROVE next \in Time
    BY <1>2 DEF Gap, RangeRecord
  <2> QED BY <1>2, Numbers DEF Time
<1>6. found' \in Seq(RangeRecord) /\ Legal(found', start, end) /\ Apart(found')
  <2>1. CASE next < end
    <3> DEFINE r == Gap(next, end)
    <3>1. start <= r.start /\ r.start < r.end /\ r.end <= end
      BY <1>2, <1>5, <2>1 DEF Scanned
    <3>2. Legal(found, start, end) /\ Apart(found) /\ \A i \in DOMAIN found : found[i].end < r.start
      BY <1>2, <1>5, <2>1 DEF Scanned
    <3>3. r \in RangeRecord /\ start \in Int /\ end \in Int /\ found' = Append(found, r)
      BY <1>1, <1>2, <1>5, <2>1
    <3> HIDE DEF r
    <3> QED BY <1>2, <3>1, <3>2, <3>3, AppendLegal
  <2>2. CASE ~(next < end)
    BY <1>1, <1>2, <2>2 DEF Scanned
  <2> QED BY <2>1, <2>2
<1>7. \A t \in Opens : Covers(found', t) <=> t \in absent
  <2> SUFFICES ASSUME NEW t \in Opens PROVE Covers(found', t) <=> t \in absent
    OBVIOUS
  <2>1. Covers(found', t) <=> Covers(found, t) \/ (next <= t /\ t < end)
    <3>1. CASE next < end
      BY <1>1, <1>2, <1>5, <3>1, AppendCovers DEF Holds
    <3>2. CASE ~(next < end)
      BY <1>1, <1>2, <1>4, <3>2
    <3> QED BY <3>1, <3>2
  <2>2. CASE t < next
    BY <1>2, <1>4, <2>1, <2>2 DEF Scanned
  <2>3. CASE next <= t /\ t < end
    BY <1>1, <1>2, <1>3, <2>1, <2>3 DEF Scanned
  <2>4. CASE next <= t /\ ~(t < end)
    <3>1. t \notin absent
      BY <1>2, <1>3, <2>4 DEF Scanned
    <3>2. ~Covers(found, t)
      <4> SUFFICES ASSUME NEW i \in DOMAIN found, t < found[i].end PROVE FALSE
        BY DEF Covers
      <4>1. found[i].end < next
        BY <1>2 DEF Scanned
      <4>2. found[i].end \in Nat
        <5>1. found[i] \in RangeRecord
          BY <1>2
        <5> QED BY <5>1, Numbers DEF RangeRecord
      <4> QED BY <1>2, <1>4, <2>4, <4>1, <4>2
    <3> QED BY <2>1, <2>4, <3>1, <3>2
  <2> QED BY <1>2, <1>4, <2>2, <2>3, <2>4
<1>8. Merging'
  <2>1. merged' = <<>>
    BY <1>1, <1>2 DEF Scanned
  <2>2. \A t \in Opens : Covers(merged', t) \/ Covers(found', t) <=> t \in absent'
    BY <1>2, <1>7, <2>1, EmptyCovers
  <2>3. Legal(merged, start, end)' /\ Apart(merged)'
        /\ \A i \in DOMAIN merged', j \in DOMAIN found' : merged'[i].end < found'[j].start
    BY <2>1 DEF Legal, Apart
  <2>4. Legal(found, start, end)' /\ Apart(found)' /\ start' < end'
    BY <1>1, <1>2, <1>6 DEF Legal, Apart, Scanned
  <2> QED BY <2>2, <2>3, <2>4 DEF Merging
<1>9. GapTypeOK'
  BY <1>1, <1>6 DEF GapInv, GapTypeOK
<1>10. Counted'
  BY <1>1, <1>2, <1>3 DEF GapInv, Counted, Asked
<1> QED BY <1>1, <1>2, <1>8, <1>9, <1>10 DEF GapInv

\* A range that is merged comes after those before it, which leaves it as it is.
LEMMA MergeStep == ASSUME GapInv, Merge, ObserveAbsence PROVE GapInv'
<1>1. /\ UNCHANGED <<stored, pc, start, end, cursor, todo, next, total>>
      /\ pc = "merge" /\ found # <<>> /\ found' = Tail(found) /\ merged' = MergedWith(Head(found))
  BY DEF Merge
<1>2. /\ Merging /\ found \in Seq(RangeRecord) /\ merged \in Seq(RangeRecord) /\ absent' = absent
      /\ start \in Nat /\ end \in Nat
  BY <1>1, TimesAreTyped DEF GapInv, GapTypeOK, ObserveAbsence
<1> DEFINE r == Head(found)
<1>3. /\ found' \in Seq(RangeRecord) /\ Legal(found', start, end) /\ Apart(found')
      /\ r \in RangeRecord /\ start <= r.start /\ r.start < r.end /\ r.end <= end
      /\ \A i \in DOMAIN found' : found'[i] = found[i + 1] /\ i + 1 \in DOMAIN found
                                 /\ r.end < found'[i].start
  <2>1. start \in Int /\ end \in Int /\ Legal(found, start, end) /\ Apart(found)
    BY <1>2 DEF Merging
  <2> QED BY <1>1, <1>2, <2>1, TailLegal
<1>4. \A i \in DOMAIN merged : merged[i].end < r.start
  <2>1. 1 \in DOMAIN found /\ r = found[1]
    BY <1>1, <1>2
  <2> QED BY <1>2, <2>1 DEF Merging
<1>5. r.start \in Nat /\ r.end \in Nat
  BY <1>3, Numbers DEF RangeRecord
<1>6. merged' = Append(merged, r)
  <2>1. ~(r.start >= r.end)
    BY <1>3, <1>5
  <2>2. merged = <<>> \/ r.start > Latest.end
    <3> SUFFICES ASSUME merged # <<>> PROVE r.start > merged[Len(merged)].end
      BY DEF Latest
    <3>1. Len(merged) \in DOMAIN merged
      BY <1>2
    <3>2. merged[Len(merged)] \in RangeRecord
      BY <1>2, <3>1
    <3>3. merged[Len(merged)].end \in Nat
      BY <3>2, Numbers DEF RangeRecord
    <3> QED BY <1>4, <1>5, <3>1, <3>3
  <2> QED BY <1>1, <2>1, <2>2 DEF MergedWith
<1> HIDE DEF r
<1>7. merged' \in Seq(RangeRecord) /\ Legal(merged', start, end) /\ Apart(merged')
  <2>1. start \in Int /\ end \in Int /\ Legal(merged, start, end) /\ Apart(merged)
    BY <1>2 DEF Merging
  <2> QED BY <1>2, <1>3, <1>4, <1>6, <2>1, AppendLegal
<1>8. Merging'
  <2>1. \A t \in Opens : Covers(merged', t) \/ Covers(found', t) <=> t \in absent'
    <3> SUFFICES ASSUME NEW t \in Opens
                 PROVE  Covers(merged', t) \/ Covers(found', t) <=> t \in absent
      BY <1>2
    <3>1. Covers(merged', t) <=> Covers(merged, t) \/ Holds(r, t)
      BY <1>2, <1>3, <1>6, AppendCovers
    <3>2. Covers(found, t) <=> Holds(r, t) \/ Covers(found', t)
      BY <1>1, <1>2, TailCovers DEF r
    <3> QED BY <1>2, <3>1, <3>2 DEF Merging
  <2>2. \A i \in DOMAIN merged', j \in DOMAIN found' : merged'[i].end < found'[j].start
    <3> SUFFICES ASSUME NEW i \in DOMAIN merged', NEW j \in DOMAIN found'
                 PROVE  merged'[i].end < found'[j].start
      OBVIOUS
    <3>1. DOMAIN merged' = 1 .. Len(merged) + 1 /\ DOMAIN merged = 1 .. Len(merged)
          /\ Len(merged) \in Nat /\ merged'[Len(merged) + 1] = r
          /\ \A k \in 1 .. Len(merged) : merged'[k] = merged[k]
      BY <1>2, <1>3, <1>6
    <3>2. CASE i = Len(merged) + 1
      BY <1>3, <3>1, <3>2
    <3>3. CASE i # Len(merged) + 1
      <4>1. i \in DOMAIN merged /\ merged'[i] = merged[i]
        BY <3>1, <3>3
      <4> QED BY <1>2, <1>3, <4>1 DEF Merging
    <3> QED BY <3>2, <3>3
  <2>3. start' < end'
    BY <1>1, <1>2 DEF Merging
  <2>4. Legal(merged, start, end)' /\ Apart(merged)' /\ Legal(found, start, end)' /\ Apart(found)'
    BY <1>1, <1>3, <1>7 DEF Legal, Apart
  <2> QED BY <2>1, <2>2, <2>3, <2>4 DEF Merging
<1>9. GapTypeOK'
  BY <1>1, <1>3, <1>7 DEF GapInv, GapTypeOK
<1>10. Counted'
  BY <1>1, <1>2 DEF GapInv, Counted, Asked
<1> QED BY <1>1, <1>2, <1>8, <1>9, <1>10 DEF GapInv

LEMMA ReturnStep == ASSUME GapInv, Return, ObserveAbsence PROVE GapInv'
<1>1. /\ UNCHANGED <<stored, start, end, cursor, todo, next, found, merged, total>>
      /\ pc = "merge" /\ pc' = "done" /\ found = <<>>
  BY DEF Return
<1>2. Merging /\ absent' = absent /\ absent \in SUBSET Opens
  BY <1>1 DEF GapInv, ObserveAbsence
<1>3. Merged'
  <2>1. \A t \in Opens : Covers(merged', t) <=> t \in absent'
    BY <1>1, <1>2, EmptyCovers DEF Merging
  <2> QED BY <1>1, <1>2, <2>1 DEF Merging, Merged, Legal, Apart
<1>4. GapTypeOK'
  BY <1>1 DEF GapInv, GapTypeOK
<1>5. Counted'
  BY <1>1, <1>2 DEF GapInv, Counted, Asked
<1> QED BY <1>1, <1>2, <1>3, <1>4, <1>5 DEF GapInv

\* What others do to the cache touches nothing that was read.
LEMMA CacheStep ==
  ASSUME GapInv, UNCHANGED <<pc, start, end, cursor, todo, next, found, merged, total, absent>>,
         stored' \in SUBSET Opens
  PROVE  GapInv'
<1>1. GapTypeOK'
  BY DEF GapInv, GapTypeOK
<1>2. Scanned' = Scanned /\ Merging' = Merging /\ Merged' = Merged
  BY DEF Scanned, Merging, Merged, Covers, Legal, Apart
<1>3. Counted'
  BY DEF GapInv, Counted, Asked
<1> QED BY <1>1, <1>2, <1>3 DEF GapInv

LEMMA GapInvStep == GapInv /\ [GapNext /\ ObserveAbsence]_observedGapVars => GapInv'
<1> SUFFICES ASSUME GapInv, [GapNext /\ ObserveAbsence]_observedGapVars PROVE GapInv'
  OBVIOUS
<1>1. CASE Discover /\ ObserveAbsence
  BY <1>1, ReadChunkStep, ScanRowStep, ScanTailStep, MergeStep, ReturnStep DEF Discover
<1>2. CASE CacheChanges /\ ObserveAbsence
  <2>1. UNCHANGED <<pc, start, end, cursor, todo, next, found, merged, total>>
    BY <1>2 DEF CacheChanges
  <2>2. absent' = absent
    BY <1>2, <2>1 DEF ObserveAbsence
  <2>3. stored' \in SUBSET Opens
    <3>1. stored \in SUBSET Opens
      BY DEF GapInv, GapTypeOK
    <3> QED BY <1>2, <3>1 DEF CacheChanges
  <2> QED BY <2>1, <2>2, <2>3, CacheStep
<1>3. CASE UNCHANGED observedGapVars
  <2>1. stored' \in SUBSET Opens
    BY <1>3 DEF observedGapVars, gapVars, GapInv, GapTypeOK
  <2> QED BY <1>3, <2>1, CacheStep DEF observedGapVars, gapVars
<1> QED BY <1>1, <1>2, <1>3 DEF GapNext
-----------------------------------------------------------------------------
(* Theorems. *)

\* Every reachable state satisfies the inductive invariant, whatever is asked
\* for and however the cache is changed meanwhile.
THEOREM GapInvariant == ObservedGapSpec => []GapInv
BY GapInvInit, GapInvStep, PTL DEF ObservedGapSpec

\* discover_missing_btcusdt_1m_ranges and _merge_ranges keep the types of
\* their locals.
THEOREM GapsTypeCorrect == ObservedGapSpec => []GapTypeOK
<1>1. GapInv => GapTypeOK
  BY DEF GapInv
<1> QED BY <1>1, GapInvariant, PTL

\* The ranges that discover_missing_btcusdt_1m_ranges returns hold exactly
\* the minutes without a candle.
THEOREM GapsAreExactAlways == ObservedGapSpec => []GapsAreExact
<1>1. GapInv => GapsAreExact
  BY DEF GapInv, Merged, GapsAreExact
<1> QED BY <1>1, GapInvariant, PTL

\* Its ranges are in order, apart, not empty, and within what was asked for.
THEOREM RangesAreApartAlways == ObservedGapSpec => []RangesAreApart
<1>1. GapInv => RangesAreApart
  BY DEF GapInv, Merged, Legal, Apart, RangesAreApart
<1> QED BY <1>1, GapInvariant, PTL

\* Its second result counts every cached minute once.
THEOREM TotalIsExactAlways == ObservedGapSpec => []TotalIsExact
<1>1. GapInv => TotalIsExact
  BY DEF GapInv, Counted, Asked, TotalIsExact
<1> QED BY <1>1, GapInvariant, PTL

LEMMA SurveyStart == ObservedGapInit => Discovery!Init
<1> SUFFICES ASSUME ObservedGapInit PROVE Discovery!Init
  OBVIOUS
<1>1. cursor \in Nat /\ end \in Nat /\ cursor < end /\ stored \in SUBSET Opens /\ pc = "scan" /\ absent = {}
  BY Numbers DEF ObservedGapInit, GapInit
<1> QED BY <1>1 DEF Discovery!Init

\* A chunk that is read is a piece that is looked at.
LEMMA ReadingLooks == ASSUME GapInv, ReadChunk, ObserveAbsence PROVE Discovery!Look
<1>1. /\ pc = "scan" /\ pc' = "scan" /\ cursor' = ChunkEnd /\ cursor < end
      /\ UNCHANGED <<stored, end>>
  BY DEF ReadChunk
<1>2. cursor \in Nat /\ end \in Nat /\ Chunk \in Nat \ {0}
  BY TimesAreTyped, Numbers DEF GapInv
<1>3. ChunkEnd \in cursor + 1 .. end
  BY <1>1, <1>2 DEF ChunkEnd
<1>4. absent' = absent \cup ({t \in Opens : cursor <= t /\ t < cursor'} \ stored)
  BY <1>1, <1>2, <1>3 DEF ObserveAbsence
<1> QED BY <1>1, <1>3, <1>4 DEF Discovery!Look

\* A turn of a loop shows nothing.
LEMMA LoopsAreSilent ==
  ASSUME pc # "done", pc' # "done", UNCHANGED <<stored, cursor, end, absent>>
  PROVE  UNCHANGED Discovery!surveyVars
BY DEF Discovery!surveyVars

\* What is returned is what was found to lack a candle.
LEMMA ReturnTells == ASSUME GapInv, GapInv', Return, ObserveAbsence PROVE Discovery!Tell
<1>1. pc = "merge" /\ pc' = "done" /\ UNCHANGED <<stored, cursor, end, merged>>
  BY DEF Return
<1>2. absent' = absent
  BY <1>1 DEF ObserveAbsence
<1>3. cursor = end
  BY <1>1 DEF GapInv, Counted
<1>4. absent \in SUBSET Opens
  BY DEF GapInv
<1>5. \A t \in Opens : Covers(merged', t) <=> t \in absent'
  BY <1>1 DEF GapInv, Merged
<1>6. {t \in Opens : Covers(merged', t)} = absent
  BY <1>2, <1>4, <1>5
<1> QED BY <1>1, <1>2, <1>3, <1>6 DEF Discovery!Tell

LEMMA OthersChange == ASSUME GapInv, GapInv', CacheChanges, ObserveAbsence PROVE Discovery!Change
<1>1. UNCHANGED <<pc, cursor, end, merged>> /\ absent' = absent
  BY DEF CacheChanges, ObserveAbsence
<1>2. stored' \in SUBSET Opens
  BY DEF GapInv, GapTypeOK
<1>3. {t \in Opens : Covers(merged', t)} = {t \in Opens : Covers(merged, t)}
  BY <1>1
<1> QED BY <1>1, <1>2, <1>3 DEF Discovery!Change

LEMMA SurveyStep ==
  GapInv /\ GapInv' /\ [GapNext /\ ObserveAbsence]_observedGapVars => [Discovery!Next]_(Discovery!surveyVars)
<1> SUFFICES ASSUME GapInv, GapInv', [GapNext /\ ObserveAbsence]_observedGapVars
             PROVE  [Discovery!Next]_(Discovery!surveyVars)
  OBVIOUS
<1>1. CASE ReadChunk /\ ObserveAbsence
  BY <1>1, ReadingLooks DEF Discovery!Next
<1>2. CASE (ScanRow \/ ScanTail \/ Merge) /\ ObserveAbsence
  <2>1. pc # "done" /\ pc' # "done" /\ UNCHANGED <<stored, cursor, end>>
    BY <1>2 DEF ScanRow, ScanTail, Merge
  <2>2. absent' = absent
    BY <1>2, <2>1 DEF ObserveAbsence
  <2> QED BY <2>1, <2>2, LoopsAreSilent
<1>3. CASE Return /\ ObserveAbsence
  BY <1>3, ReturnTells DEF Discovery!Next
<1>4. CASE CacheChanges /\ ObserveAbsence
  BY <1>4, OthersChange DEF Discovery!Next
<1>5. CASE UNCHANGED observedGapVars
  <2>1. UNCHANGED <<stored, cursor, end, absent, pc, merged>>
    BY <1>5 DEF observedGapVars, gapVars
  <2> QED BY <2>1 DEF Discovery!surveyVars, Covers
<1> QED BY <1>1, <1>2, <1>3, <1>4, <1>5 DEF GapNext, Discover

\* The loops of discover_missing_btcusdt_1m_ranges and _merge_ranges implement a
\* survey of the cache (GapProperties!SurveysTheCache), for every length of a minute
\* and of a chunk, and whatever others do to the cache between two queries.
THEOREM DiscoveryImplementsSurvey == ObservedGapSpec => SurveysTheCache
BY SurveyStart, SurveyStep, GapInvariant, PTL DEF ObservedGapSpec, SurveysTheCache, Discovery!Spec
-----------------------------------------------------------------------------
(* Pages of candles. *)

\* The minutes that a refresh has fetched a candle of.
Rows(r) == {m \in CandleMinutes : r.rows[m] # NoRow}

Asks(r, m) == r.start <= m * Span /\ m * Span <= r.end

\* Between its pages a refresh has all that is offered before its cursor, which
\* is where it began or follows a candle, and nothing of what comes after it.
Paged(r) ==
  /\ \A m \in offered : Asks(r, m) /\ m * Span < r.cursor => r.rows[m] # NoRow
  /\ r.cursor = r.start \/ \E k \in offered : r.cursor = (k + 1) * Span

\* Once it is to be stored, no candle is missing of a minute that was over when
\* the refresh began.
Fetched(r) == \A m \in offered : Asks(r, m) /\ (m + 1) * Span <= r.asked => r.rows[m] # NoRow

RefreshFits(r) ==
  /\ r.asked <= clock
  /\ r.fetched = Cardinality(Rows(r))
  /\ \A m \in Rows(r) : m * Span < r.cursor
  /\ \A m \in Rows(r) : (m + 1) * Span <= r.asked => r.rows[m] = "final"
  /\ r.pc = "page" => Paged(r)
  /\ r.pc = "store" => Fetched(r)

FetchInv ==
  /\ FetchTypeOK
  /\ \A k \in offered : k * Span <= clock
  /\ \A f \in Refreshers : refresh[f] # Idle => RefreshFits(refresh[f])
-----------------------------------------------------------------------------
(* Minutes and times. *)

LEMMA Spans == Span \in Nat /\ Span > 0 /\ MaxClock \in Nat /\ Limit \in Nat /\ Limit > 0
               /\ MaxRetries \in Nat /\ MaxRetries > 0
BY FetchAssumption

LEMMA MinuteTimes ==
  ASSUME NEW m \in Nat
  PROVE  m * Span \in Nat /\ (m + 1) * Span = m * Span + Span
BY Spans, SMT

LEMMA MinutesInOrder ==
  ASSUME NEW m \in Nat, NEW k \in Nat, m < k
  PROVE  (m + 1) * Span <= k * Span
BY Spans, SMT

\* The minute of a time.
LEMMA MinuteOf ==
  ASSUME NEW t \in Nat
  PROVE  t \div Span \in Nat /\ (t \div Span) * Span <= t /\ t < (t \div Span + 1) * Span
<1>1. t \div Span \in Nat /\ (t \div Span) * Span <= t
  BY Spans, SMT
<1>2. t < (t \div Span + 1) * Span
  BY Spans, SMT
<1> QED BY <1>1, <1>2

LEMMA MinutesOfClock ==
  /\ CandleMinutes \subseteq Nat
  /\ \A m \in CandleMinutes : m * Span <= MaxClock
  /\ \A m \in Nat : m * Span <= MaxClock => m \in CandleMinutes
<1>1. MaxClock \div Span \in Nat /\ (MaxClock \div Span) * Span <= MaxClock
      /\ MaxClock < (MaxClock \div Span + 1) * Span
  BY Spans, MinuteOf
<1>2. CandleMinutes \subseteq Nat
  BY <1>1 DEF CandleMinutes
<1>3. ASSUME NEW m \in CandleMinutes PROVE m * Span <= MaxClock
  <2> DEFINE q == MaxClock \div Span
  <2>1. m \in Nat /\ q \in Nat /\ (m = q \/ m < q)
    BY <1>1 DEF CandleMinutes
  <2> HIDE DEF q
  <2>2. m < q => (m + 1) * Span <= q * Span
    BY <2>1, MinutesInOrder
  <2>3. m * Span \in Nat /\ (m + 1) * Span = m * Span + Span /\ q * Span \in Nat
    BY <2>1, MinuteTimes
  <2>4. q * Span <= MaxClock
    BY <1>1 DEF q
  <2> QED BY <2>1, <2>2, <2>3, <2>4, Spans
<1>4. ASSUME NEW m \in Nat, m * Span <= MaxClock PROVE m \in CandleMinutes
  <2> DEFINE q == MaxClock \div Span
  <2>1. q \in Nat /\ MaxClock < (q + 1) * Span
    BY <1>1
  <2>2. q < m => (q + 1) * Span <= m * Span
    <3> HIDE DEF q
    <3> QED BY <2>1, MinutesInOrder
  <2>3. ~(q < m)
    <3> HIDE DEF q
    <3>1. (q + 1) * Span \in Nat /\ m * Span \in Nat
      BY <2>1, MinuteTimes, Spans
    <3> QED BY <1>4, <2>1, <2>2, <3>1, Spans
  <2> QED BY <2>1, <2>3 DEF CandleMinutes
<1> QED BY <1>2, <1>3, <1>4

LEMMA MinutesAreFinite ==
  ASSUME NEW S \in SUBSET CandleMinutes
  PROVE  IsFiniteSet(S) /\ Cardinality(S) \in Nat
<1>1. MaxClock \div Span \in Nat
  BY Spans, MinuteOf
<1>2. IsFiniteSet(CandleMinutes)
  BY <1>1, FS_Interval DEF CandleMinutes
<1>3. IsFiniteSet(S)
  BY <1>2, FS_Subset
<1> QED BY <1>3, FS_CardinalityType

\* Minutes have a first one, and a last.
LEMMA FirstMinute ==
  ASSUME NEW S \in SUBSET Nat, S # {}
  PROVE  \E m \in S : \A k \in S : m <= k
<1>1. PICK m \in S : \A k \in S : ~(<<k, m>> \in OpToRel(<, Nat))
  BY NatLessThanWellFounded, WFMin
<1>2. ASSUME NEW k \in S PROVE m <= k
  <2>1. k \in Nat /\ m \in Nat
    OBVIOUS
  <2>2. ~(k < m)
    BY <1>1, <2>1 DEF OpToRel
  <2> QED BY <2>1, <2>2
<1> QED BY <1>2

LEMMA LastMinute ==
  ASSUME NEW S \in SUBSET CandleMinutes, S # {}
  PROVE  Max(S) \in S /\ \A k \in S : k <= Max(S)
<1>1. CandleMinutes \subseteq Nat
  BY MinutesOfClock
<1>2. PICK last \in Nat : CandleMinutes = 0 .. last
  BY MinuteOf, Spans DEF CandleMinutes
<1> DEFINE Left == {n \in Nat : \E k \in S : n = last - k}
<1>3. Left \in SUBSET Nat /\ Left # {}
  <2>1. PICK k \in S : TRUE
    OBVIOUS
  <2>2. last - k \in Left
    BY <1>2, <2>1
  <2> QED BY <2>2
<1>4. PICK least \in Left : \A n \in Left : least <= n
  <2> HIDE DEF Left
  <2> QED BY <1>3, FirstMinute
<1>5. PICK m \in S : least = last - m
  OBVIOUS
<1>6. ASSUME NEW k \in S PROVE m >= k
  <2>1. last - k \in Left
    BY <1>2
  <2>2. least <= last - k /\ k \in Nat /\ m \in Nat
    BY <1>1, <1>4, <2>1
  <2> QED BY <1>2, <1>5, <2>2
<1>7. Max(S) \in S /\ \A k \in S : Max(S) >= k
  BY <1>6 DEF Max
<1> QED BY <1>1, <1>7
-----------------------------------------------------------------------------
(* A page. *)

LEMMA PageIsPrefix ==
  ASSUME FetchTypeOK, NEW from, NEW to
  PROVE  /\ Page(from, to) \subseteq {m \in offered : from <= m * Span /\ m * Span <= to}
         /\ Page(from, to) \subseteq CandleMinutes
         /\ \A m \in offered : from <= m * Span /\ m * Span <= to =>
              m \in Page(from, to) \/ (Page(from, to) # {} /\ \A k \in Page(from, to) : k < m)
<1> DEFINE range == {m \in offered : from <= m * Span /\ m * Span <= to}
           Before(m) == {k \in range : k < m}
<1>1. Page(from, to) = {m \in range : Cardinality(Before(m)) < Limit}
  BY DEF Page
<1>2. range \subseteq CandleMinutes /\ CandleMinutes \subseteq Nat
  BY MinutesOfClock DEF FetchTypeOK
<1> HIDE DEF range
<1>3. \A m \in range : IsFiniteSet(Before(m)) /\ Cardinality(Before(m)) \in Nat
  BY <1>2, MinutesAreFinite
<1>4. ASSUME NEW m \in range, m \notin Page(from, to), NEW k \in Page(from, to) PROVE k < m
  <2>1. k \in range /\ Cardinality(Before(k)) < Limit /\ ~(Cardinality(Before(m)) < Limit)
    BY <1>1, <1>4
  <2>2. ASSUME ~(k < m) PROVE FALSE
    <3>1. m \in Nat /\ k \in Nat /\ m <= k
      BY <1>2, <2>1, <2>2
    <3>2. \A j \in range : j < m => j < k
      BY <1>2, <3>1
    <3>3. Before(m) \subseteq Before(k)
      BY <3>2
    <3>4. Cardinality(Before(m)) <= Cardinality(Before(k))
      BY <1>3, <2>1, <3>3, FS_Subset
    <3> QED BY <1>3, <2>1, <3>4, Spans
  <2> QED BY <2>2
<1>5. ASSUME NEW m \in range PROVE Page(from, to) # {}
  <2>1. PICK first \in range : \A k \in range : first <= k
    BY <1>2, FirstMinute
  <2>2. \A k \in range : ~(k < first)
    BY <1>2, <2>1
  <2>3. Before(first) = {}
    BY <2>2
  <2>4. Cardinality(Before(first)) = 0
    BY <2>3, FS_EmptySet
  <2> QED BY <1>1, <2>4, Spans
<1> HIDE DEF Before
<1>6. Page(from, to) \subseteq range
  BY <1>1
<1> QED BY <1>2, <1>4, <1>5, <1>6 DEF range

LEMMA BusyIsTyped ==
  ASSUME FetchInv, NEW f \in Refreshers, refresh[f].pc # "idle"
  PROVE  refresh[f] \in RefreshRecord /\ RefreshFits(refresh[f]) /\ refresh[f] # Idle
BY DEF FetchInv, FetchTypeOK, Idle

\* What a page adds to a refresh.
LEMMA PageAdds ==
  ASSUME FetchInv, NEW r \in RefreshRecord, RefreshFits(r), r.pc = "page",
         NEW page, page = Page(r.cursor, r.end),
         NEW s \in RefreshRecord,
         s.asked = r.asked /\ s.start = r.start /\ s.end = r.end,
         s.cursor = IF page = {} THEN r.cursor ELSE NextCursor(page),
         s.fetched = r.fetched + Cardinality(page),
         s.rows = [m \in CandleMinutes |-> IF m \in page THEN Price(m) ELSE r.rows[m]]
  PROVE  /\ s.asked <= clock
         /\ s.fetched = Cardinality(Rows(s))
         /\ \A m \in Rows(s) : m * Span < s.cursor
         /\ \A m \in Rows(s) : (m + 1) * Span <= s.asked => s.rows[m] = "final"
         /\ Paged(s)
<1>0. FetchTypeOK /\ clock \in Nat /\ r.asked \in Nat /\ r.cursor \in Nat /\ r.end \in Nat
  BY Spans DEF FetchInv, FetchTypeOK, RefreshRecord
<1>1. /\ page \subseteq {m \in offered : r.cursor <= m * Span /\ m * Span <= r.end}
      /\ page \subseteq CandleMinutes
      /\ \A m \in offered : r.cursor <= m * Span /\ m * Span <= r.end =>
           m \in page \/ (page # {} /\ \A k \in page : k < m)
  BY <1>0, PageIsPrefix
<1>2. CandleMinutes \subseteq Nat /\ offered \subseteq CandleMinutes
  BY <1>0, MinutesOfClock DEF FetchTypeOK
<1>3. Rows(s) = Rows(r) \cup page
  BY <1>1 DEF Rows, Price, NoRow
<1>4. Rows(r) \cap page = {}
  <2> SUFFICES ASSUME NEW m \in Rows(r), m \in page PROVE FALSE
    OBVIOUS
  <2>1. m * Span < r.cursor /\ r.cursor <= m * Span
    BY <1>1 DEF RefreshFits
  <2>2. m * Span \in Nat
    BY <1>1, <1>2, MinuteTimes
  <2> QED BY <1>0, <2>1, <2>2
<1>5. s.fetched = Cardinality(Rows(s))
  <2>1. /\ IsFiniteSet(Rows(r)) /\ IsFiniteSet(page)
        /\ Cardinality(Rows(r)) \in Nat /\ Cardinality(page) \in Nat
    BY <1>1, MinutesAreFinite DEF Rows
  <2>2. Cardinality(Rows(r) \cap page) = 0
    BY <1>4, FS_EmptySet
  <2>3. Cardinality(Rows(r) \cup page) = Cardinality(Rows(r)) + Cardinality(page) - Cardinality(Rows(r) \cap page)
    BY <2>1, FS_Union
  <2> QED BY <1>3, <2>1, <2>2, <2>3 DEF RefreshFits
<1>6. \A m \in Rows(s) : (m + 1) * Span <= s.asked => s.rows[m] = "final"
  <2> SUFFICES ASSUME NEW m \in Rows(s), (m + 1) * Span <= s.asked PROVE s.rows[m] = "final"
    OBVIOUS
  <2>1. (m + 1) * Span \in Nat /\ m \in CandleMinutes
    BY <1>2, MinuteTimes, Spans DEF Rows
  <2>2. (m + 1) * Span <= clock
    BY <1>0, <2>1 DEF RefreshFits
  <2>3. CASE m \in page
    BY <2>1, <2>2, <2>3 DEF Price
  <2>4. CASE m \notin page
    BY <1>3, <2>1, <2>4 DEF RefreshFits
  <2> QED BY <2>3, <2>4
<1>7. CASE page = {}
  <2>1. Rows(s) = Rows(r) /\ s.cursor = r.cursor /\ s.rows = [m \in CandleMinutes |-> r.rows[m]]
    BY <1>3, <1>7
  <2>2. \A m \in Rows(s) : m * Span < s.cursor
    BY <2>1 DEF RefreshFits
  <2>3. Paged(s)
    BY <1>2, <2>1 DEF RefreshFits, Paged, Asks
  <2> QED BY <1>5, <1>6, <2>2, <2>3 DEF RefreshFits
<1>8. CASE page # {}
  <2>1. PICK last : last = Max(page) /\ last \in page /\ \A k \in page : k <= last
    BY <1>1, <1>8, LastMinute
  <2>2. s.cursor = (last + 1) * Span /\ last \in Nat /\ last \in offered
    BY <1>1, <1>2, <1>8, <2>1 DEF NextCursor
  <2>3. s.cursor = last * Span + Span /\ last * Span \in Nat /\ r.cursor <= last * Span
    BY <1>1, <2>1, <2>2, MinuteTimes
  <2>4. ASSUME NEW m \in Nat, m <= last PROVE m * Span < s.cursor
    <3>1. m = last \/ (m < last /\ (m + 1) * Span <= last * Span)
      BY <2>2, <2>4, MinutesInOrder
    <3>2. m * Span \in Nat /\ (m + 1) * Span = m * Span + Span
      BY MinuteTimes
    <3> QED BY <2>3, <3>1, <3>2, Spans
  <2>5. ASSUME NEW m \in Rows(s) PROVE m * Span < s.cursor
    <3>1. m \in Nat /\ m * Span \in Nat
      BY <1>2, MinuteTimes DEF Rows
    <3>2. m \in page => m <= last
      BY <2>1
    <3>3. m \in Rows(r) => m * Span < r.cursor
      BY DEF RefreshFits
    <3> QED BY <1>0, <1>3, <2>3, <2>4, <3>1, <3>2, <3>3, Spans
  <2>6. ASSUME NEW m \in offered, Asks(s, m), m * Span < s.cursor PROVE s.rows[m] # NoRow
    <3>1. m \in CandleMinutes /\ m \in Nat /\ m * Span \in Nat /\ Asks(r, m)
      BY <1>2, <2>6, MinuteTimes DEF Asks
    <3>2. CASE m * Span < r.cursor
      <4>1. m \in Rows(r)
        BY <3>1, <3>2 DEF RefreshFits, Paged, Rows
      <4> QED BY <1>3, <4>1 DEF Rows
    <3>3. CASE ~(m * Span < r.cursor)
      <4>1. m \in page \/ last < m
        BY <1>0, <1>1, <2>1, <3>1, <3>3 DEF Asks
      <4>2. last < m => (last + 1) * Span <= m * Span
        BY <2>2, <3>1, MinutesInOrder
      <4>3. m \in page
        BY <2>2, <2>3, <2>6, <3>1, <4>1, <4>2, Spans
      <4> QED BY <1>3, <4>3 DEF Rows
    <3> QED BY <3>2, <3>3
  <2>7. Paged(s)
    BY <2>2, <2>6 DEF Paged
  <2> QED BY <1>5, <1>6, <2>5, <2>7 DEF RefreshFits
<1> QED BY <1>7, <1>8

\* A refresh that pages no more has all that is offered of its range.
LEMMA LastPageIsLast ==
  ASSUME FetchInv, NEW r \in RefreshRecord, RefreshFits(r), r.pc = "page",
         NEW page, page = Page(r.cursor, r.end),
         \/ page = {}
         \/ NextCursor(page) <= r.cursor
         \/ NextCursor(page) > r.end,
         NEW m \in offered, Asks(r, m)
  PROVE  m \in Rows(r) \cup page
<1>0. FetchTypeOK /\ r.cursor \in Nat /\ r.end \in Nat
  BY Spans DEF FetchInv, FetchTypeOK, RefreshRecord
<1>1. /\ page \subseteq {k \in offered : r.cursor <= k * Span /\ k * Span <= r.end}
      /\ page \subseteq CandleMinutes
      /\ r.cursor <= m * Span /\ m * Span <= r.end =>
           m \in page \/ (page # {} /\ \A k \in page : k < m)
  BY <1>0, PageIsPrefix
<1>2. m \in CandleMinutes /\ m \in Nat /\ CandleMinutes \subseteq Nat /\ m * Span \in Nat
  BY <1>0, MinutesOfClock, MinuteTimes DEF FetchTypeOK
<1>3. CASE m * Span < r.cursor
  BY <1>2, <1>3 DEF RefreshFits, Paged, Rows
<1>4. CASE ~(m * Span < r.cursor)
  <2> SUFFICES ASSUME m \notin page PROVE FALSE
    OBVIOUS
  <2>1. page # {} /\ \A k \in page : k < m
    BY <1>0, <1>1, <1>2, <1>4 DEF Asks
  <2>2. PICK last : last = Max(page) /\ last \in page
    BY <1>1, <2>1, LastMinute
  <2>3. last \in Nat /\ last * Span \in Nat /\ (last + 1) * Span = last * Span + Span
        /\ r.cursor <= last * Span
    BY <1>1, <1>2, <2>2, MinuteTimes
  <2>4. (last + 1) * Span <= m * Span
    BY <1>2, <2>1, <2>2, <2>3, MinutesInOrder
  <2>5. NextCursor(page) = last * Span + Span
    BY <2>2, <2>3 DEF NextCursor
  <2> QED BY <1>0, <1>2, <2>1, <2>3, <2>4, <2>5, Spans DEF Asks
<1> QED BY <1>3, <1>4
-----------------------------------------------------------------------------
(* The steps. *)

LEMMA FetchInitOK == FetchInit => FetchInv
<1> SUFFICES ASSUME FetchInit PROVE FetchInv
  OBVIOUS
<1>1. FetchTypeOK
  BY Spans DEF FetchInit, FetchTypeOK
<1> QED BY <1>1 DEF FetchInit, FetchInv

\* One refresh becomes r, and the clock and the exchange stay as they are.
LEMMA SetOK ==
  ASSUME FetchInv, NEW f \in Refreshers, NEW r \in RefreshRecord \cup {Idle}, Set(f, r),
         UNCHANGED <<clock, offered>>, candles' \in [CandleMinutes -> Prices \cup {NoRow}],
         r # Idle => RefreshFits(r)
  PROVE  FetchInv'
<1>1. refresh' = [g \in Refreshers |-> IF g = f THEN r ELSE refresh[g]]
  BY DEF Set, FetchInv, FetchTypeOK
<1>2. FetchTypeOK'
  BY <1>1 DEF FetchInv, FetchTypeOK
<1>3. \A g \in Refreshers : refresh'[g] # Idle => RefreshFits(refresh'[g])
  BY <1>1 DEF FetchInv
<1>4. \A g \in Refreshers : refresh'[g] # Idle => RefreshFits(refresh[g])'
  BY <1>3 DEF RefreshFits, Paged, Fetched
<1> QED BY <1>2, <1>4 DEF FetchInv

LEMMA TickOK == FetchInv /\ Tick => FetchInv'
<1> SUFFICES ASSUME FetchInv, Tick PROVE FetchInv'
  OBVIOUS
<1>1. clock \in Nat /\ clock' = clock + 1 /\ UNCHANGED <<offered, candles, refresh>>
  BY Spans DEF Tick, FetchInv, FetchTypeOK
<1>2. FetchTypeOK'
  BY <1>1, Spans DEF Tick, FetchInv, FetchTypeOK
<1>3. ASSUME NEW k \in offered PROVE k * Span <= clock'
  <2>1. k * Span \in Nat
    BY MinutesOfClock, MinuteTimes DEF FetchInv, FetchTypeOK
  <2> QED BY <1>1, <2>1 DEF FetchInv
<1>4. ASSUME NEW f \in Refreshers, refresh[f] # Idle PROVE RefreshFits(refresh[f])'
  <2>1. refresh[f] \in RefreshRecord /\ RefreshFits(refresh[f])
    BY <1>4 DEF FetchInv, FetchTypeOK
  <2>2. refresh[f].asked <= clock'
    BY <1>1, <2>1, Spans DEF RefreshRecord, RefreshFits
  <2> QED BY <1>1, <2>1, <2>2 DEF RefreshFits, Paged, Fetched
<1> QED BY <1>1, <1>2, <1>3, <1>4 DEF FetchInv

\* A candle that comes to be is of the minute of the clock: after the cursor of
\* every refresh that pages, and not over when any refresh began.
LEMMA TradeOK == FetchInv /\ Trade => FetchInv'
<1> SUFFICES ASSUME FetchInv, Trade PROVE FetchInv'
  OBVIOUS
<1>0. FetchTypeOK /\ clock \in Nat /\ clock <= MaxClock
  BY Spans DEF FetchInv, FetchTypeOK
<1>1. PICK now : now = clock \div Span
  OBVIOUS
<1>2. /\ now \notin offered /\ offered' = offered \cup {now} /\ UNCHANGED <<clock, candles, refresh>>
      /\ now \in Nat /\ now * Span <= clock /\ clock < (now + 1) * Span
  BY <1>0, <1>1, MinuteOf DEF Trade
<1>3. now * Span \in Nat /\ (now + 1) * Span = now * Span + Span /\ now \in CandleMinutes
      /\ offered \subseteq Nat
  BY <1>0, <1>2, MinuteTimes, MinutesOfClock, Spans DEF FetchTypeOK
<1>4. FetchTypeOK'
  BY <1>0, <1>2, <1>3 DEF FetchTypeOK
<1>5. \A k \in offered' : k * Span <= clock'
  BY <1>2 DEF FetchInv
<1>6. ASSUME NEW f \in Refreshers, refresh[f] # Idle PROVE RefreshFits(refresh[f])'
  <2>1. refresh[f] \in RefreshRecord /\ RefreshFits(refresh[f])
    BY <1>0, <1>6 DEF FetchInv, FetchTypeOK
  <2>2. ASSUME NEW k \in offered PROVE (k + 1) * Span <= now * Span
    <3>1. k \in Nat /\ k # now
      BY <1>2, <1>3
    <3>2. k * Span \in Nat /\ (k + 1) * Span = k * Span + Span /\ k * Span <= clock
      BY <3>1, MinuteTimes DEF FetchInv
    <3>3. now < k => (now + 1) * Span <= k * Span
      BY <1>2, <3>1, MinutesInOrder
    <3>4. k < now
      BY <1>0, <1>2, <1>3, <3>1, <3>2, <3>3, Spans
    <3> QED BY <1>2, <3>1, <3>4, MinutesInOrder
  <2>3. refresh[f].pc = "page" /\ Asks(refresh[f], now) => ~(now * Span < refresh[f].cursor)
    <3>1. CASE refresh[f].cursor = refresh[f].start
      BY <1>3, <2>1, <3>1, Spans DEF Asks, RefreshRecord
    <3>2. ASSUME NEW k \in offered, refresh[f].cursor = (k + 1) * Span
          PROVE  ~(now * Span < refresh[f].cursor)
      BY <1>3, <2>1, <2>2, <3>2, Spans DEF RefreshRecord
    <3> QED BY <2>1, <3>1, <3>2 DEF RefreshFits, Paged
  <2>4. ~((now + 1) * Span <= refresh[f].asked)
    BY <1>0, <1>2, <1>3, <2>1, Spans DEF RefreshFits, RefreshRecord
  <2>5. refresh[f].pc = "page" => Paged(refresh[f])'
    BY <1>2, <2>1, <2>3 DEF RefreshFits, Paged
  <2>6. refresh[f].pc = "store" => Fetched(refresh[f])'
    BY <1>2, <2>1, <2>4 DEF RefreshFits, Fetched
  <2> QED BY <1>2, <2>1, <2>5, <2>6 DEF RefreshFits
<1> QED BY <1>2, <1>4, <1>5, <1>6 DEF FetchInv

LEMMA AskOK == ASSUME FetchInv, NEW f \in Refreshers, Ask(f) PROVE FetchInv'
<1>1. PICK from, to \in 0 .. MaxClock :
        /\ from < to
        /\ Set(f, [pc |-> "page", asked |-> clock, start |-> from, end |-> to, cursor |-> from, attempt |-> 1,
                   fetched |-> 0, rows |-> [m \in CandleMinutes |-> NoRow]])
  BY DEF Ask
<1> DEFINE r == [pc |-> "page", asked |-> clock, start |-> from, end |-> to, cursor |-> from, attempt |-> 1,
                 fetched |-> 0, rows |-> [m \in CandleMinutes |-> NoRow]]
<1>2. r \in RefreshRecord
  BY Spans DEF RefreshRecord, FetchInv, FetchTypeOK
<1>3. Set(f, r) /\ r.asked = clock /\ r.cursor = r.start /\ r.start = from /\ r.pc = "page" /\ r.fetched = 0
      /\ r.rows = [m \in CandleMinutes |-> NoRow]
  BY <1>1
<1> HIDE DEF r
<1>4. Rows(r) = {} /\ Cardinality(Rows(r)) = 0 /\ clock \in Nat
  BY <1>3, FS_EmptySet, Spans DEF Rows, FetchInv, FetchTypeOK
<1>5. Paged(r)
  <2>1. ASSUME NEW m \in offered PROVE m * Span \in Nat
    BY MinutesOfClock, MinuteTimes DEF FetchInv, FetchTypeOK
  <2> QED BY <1>1, <1>3, <2>1, Spans DEF Paged, Asks
<1>6. RefreshFits(r)
  BY <1>3, <1>4, <1>5 DEF RefreshFits
<1> QED BY <1>2, <1>3, <1>6, SetOK DEF Ask, FetchInv, FetchTypeOK

\* What a page leaves of a refresh, and that nothing is left out when it was the last.
LEMMA FetchPageOK ==
  ASSUME FetchInv, NEW f \in Refreshers, FetchPage(f)
  PROVE  /\ FetchInv'
         /\ refresh'[f].pc = "store" =>
              /\ \A m \in offered : Asks(refresh[f], m) => refresh'[f].rows[m] # NoRow
              /\ refresh'[f].fetched = Cardinality(Rows(refresh'[f]))
<1> DEFINE r == refresh[f]
<1>1. r \in RefreshRecord /\ RefreshFits(r) /\ r.pc = "page"
  BY BusyIsTyped DEF FetchPage, IsAt
<1>2. PICK page : page = Page(r.cursor, r.end)
  OBVIOUS
<1> DEFINE s == [r EXCEPT !.pc = IF IsLast(f, page) THEN "store" ELSE "page",
                          !.cursor = IF page = {} THEN @ ELSE NextCursor(page),
                          !.attempt = 1,
                          !.fetched = @ + Cardinality(page),
                          !.rows = [m \in CandleMinutes |-> IF m \in page THEN Price(m) ELSE @[m]]]
<1>3. Set(f, s) /\ UNCHANGED <<clock, offered, candles>>
  BY <1>2 DEF FetchPage
<1>4. /\ FetchTypeOK /\ page \subseteq CandleMinutes /\ page \subseteq offered
      /\ IsFiniteSet(page) /\ Cardinality(page) \in Nat
  <2>1. FetchTypeOK
    BY DEF FetchInv
  <2> QED BY <1>2, <2>1, PageIsPrefix, MinutesAreFinite
<1>5. page # {} => NextCursor(page) \in 0 .. MaxClock + 2 * Span
  <2> SUFFICES ASSUME page # {} PROVE NextCursor(page) \in 0 .. MaxClock + 2 * Span
    OBVIOUS
  <2>1. Max(page) \in CandleMinutes
    BY <1>4, LastMinute
  <2>2. PICK last \in Nat : last = Max(page) /\ last * Span <= MaxClock
    BY <2>1, MinutesOfClock
  <2>3. last * Span \in Nat /\ (last + 1) * Span = last * Span + Span
    BY MinuteTimes
  <2> QED BY <2>2, <2>3, Spans DEF NextCursor
<1>6. s \in RefreshRecord
  <2>1. \A m \in CandleMinutes : Price(m) \in Prices
    BY DEF Price, Prices
  <2>2. (IF page = {} THEN r.cursor ELSE NextCursor(page)) \in 0 .. MaxClock + 2 * Span
    BY <1>1, <1>5 DEF RefreshRecord
  <2>3. [m \in CandleMinutes |-> IF m \in page THEN Price(m) ELSE r.rows[m]] \in [CandleMinutes -> Prices \cup {NoRow}]
    BY <1>1, <2>1 DEF RefreshRecord
  <2>4. r.fetched + Cardinality(page) \in Nat
    BY <1>1, <1>4 DEF RefreshRecord
  <2>5. 1 \in 1 .. MaxRetries
    BY Spans
  <2> HIDE DEF r
  <2> QED BY <1>1, <2>2, <2>3, <2>4, <2>5 DEF RefreshRecord
<1>7. /\ s.asked = r.asked /\ s.start = r.start /\ s.end = r.end
      /\ s.cursor = IF page = {} THEN r.cursor ELSE NextCursor(page)
      /\ s.fetched = r.fetched + Cardinality(page)
      /\ s.rows = [m \in CandleMinutes |-> IF m \in page THEN Price(m) ELSE r.rows[m]]
      /\ s.pc = IF IsLast(f, page) THEN "store" ELSE "page"
  BY <1>1 DEF RefreshRecord
<1> HIDE DEF s
<1>8. /\ s.asked <= clock
      /\ s.fetched = Cardinality(Rows(s))
      /\ \A m \in Rows(s) : m * Span < s.cursor
      /\ \A m \in Rows(s) : (m + 1) * Span <= s.asked => s.rows[m] = "final"
      /\ Paged(s)
  <2> HIDE DEF r
  <2> QED BY <1>1, <1>2, <1>6, <1>7, PageAdds
<1>9. ASSUME s.pc = "store", NEW m \in offered, Asks(r, m) PROVE s.rows[m] # NoRow
  <2>1. IsLast(f, page)
    BY <1>7, <1>9
  <2>2. page = {} \/ NextCursor(page) <= r.cursor \/ NextCursor(page) > r.end
    BY <2>1 DEF IsLast
  <2>3. m \in Rows(r) \cup page
    <3> HIDE DEF r
    <3> QED BY <1>1, <1>2, <1>9, <2>2, LastPageIsLast
  <2> QED BY <1>4, <1>7, <2>3 DEF Rows, Price, NoRow
<1>10. s.pc = "store" => Fetched(s)
  BY <1>7, <1>9 DEF Fetched, Asks
<1>11. RefreshFits(s)
  BY <1>8, <1>10 DEF RefreshFits
<1>12. refresh'[f] = s
  BY <1>3, <1>4 DEF Set, FetchTypeOK
<1>13. FetchInv'
  BY <1>3, <1>4, <1>6, <1>11, SetOK DEF FetchTypeOK
<1> QED BY <1>8, <1>9, <1>12, <1>13

LEMMA RetryOK == ASSUME FetchInv, NEW f \in Refreshers, Retry(f) PROVE FetchInv'
<1> DEFINE r == refresh[f]
           s == [r EXCEPT !.attempt = @ + 1]
<1>1. r \in RefreshRecord /\ RefreshFits(r) /\ r.pc = "page" /\ r.attempt < MaxRetries
  BY BusyIsTyped DEF Retry, IsAt
<1>2. Set(f, s) /\ UNCHANGED <<clock, offered, candles>>
  BY DEF Retry
<1> HIDE DEF r
<1>3. s \in RefreshRecord
  BY <1>1, Spans DEF RefreshRecord
<1>4. /\ s.asked = r.asked /\ s.start = r.start /\ s.end = r.end /\ s.pc = r.pc
      /\ s.cursor = r.cursor /\ s.fetched = r.fetched /\ s.rows = r.rows
  BY <1>1 DEF RefreshRecord
<1> HIDE DEF s
<1>5. Rows(s) = Rows(r)
  BY <1>4 DEF Rows
<1>6. RefreshFits(s)
  BY <1>1, <1>4, <1>5 DEF RefreshFits, Paged, Fetched, Asks
<1> QED BY <1>2, <1>3, <1>6, SetOK DEF FetchInv, FetchTypeOK

LEMMA EndsOK == ASSUME FetchInv, NEW f \in Refreshers, FetchFails(f) \/ Upsert(f) PROVE FetchInv'
<1>1. Set(f, Idle) /\ UNCHANGED <<clock, offered>>
  BY DEF FetchFails, Upsert
<1>2. candles \in [CandleMinutes -> Prices \cup {NoRow}]
  BY DEF FetchInv, FetchTypeOK
<1>3. candles' \in [CandleMinutes -> Prices \cup {NoRow}]
  <2>1. CASE FetchFails(f)
    BY <1>2, <2>1 DEF FetchFails
  <2>2. CASE Upsert(f)
    <3>1. refresh[f] \in RefreshRecord
      BY <2>2, BusyIsTyped DEF Upsert, IsAt
    <3>2. refresh[f].rows \in [CandleMinutes -> Prices \cup {NoRow}]
      BY <3>1 DEF RefreshRecord
    <3> QED BY <1>2, <2>2, <3>2 DEF Upsert
  <2> QED BY <2>1, <2>2
<1> QED BY <1>1, <1>3, SetOK

LEMMA ClearOK == FetchInv /\ (Clear \/ UNCHANGED fetchVars) => FetchInv'
BY DEF Clear, fetchVars, FetchInv, FetchTypeOK, RefreshFits, Paged, Fetched

LEMMA FetchNextOK == FetchInv /\ [FetchNext]_fetchVars => FetchInv'
BY TickOK, TradeOK, AskOK, FetchPageOK, RetryOK, EndsOK, ClearOK DEF FetchNext, Proceed
-----------------------------------------------------------------------------
\* Every reachable state satisfies the inductive invariant.
THEOREM FetchInvariant == FetchSpec => []FetchInv
BY FetchInitOK, FetchNextOK, PTL DEF FetchSpec

\* The locals of every refresh under way keep their types, the place of its next page
\* above all.
THEOREM FetchTypeCorrect == FetchSpec => []FetchTypeOK
<1>1. FetchInv => FetchTypeOK
  BY DEF FetchInv
<1> QED BY <1>1, FetchInvariant, PTL

\* The step that ends the paging.
LEMMA LastPageStep ==
  ASSUME FetchInv, FetchNext, NEW f \in Refreshers, IsAt(f, "page"), IsAt(f, "store")'
  PROVE  FetchPage(f)
<1>0. refresh \in [Refreshers -> RefreshRecord \cup {Idle}]
  BY DEF FetchInv, FetchTypeOK
<1>1. ASSUME NEW g \in Refreshers, NEW r, Set(g, r), g # f \/ r.pc # "store" PROVE FALSE
  BY <1>0, <1>1 DEF Set, IsAt
<1>2. refresh' # refresh
  BY DEF IsAt
<1>3. PICK g \in Refreshers : Ask(g) \/ Proceed(g)
  BY <1>2 DEF FetchNext, Tick, Trade, Clear
<1>4. CASE Ask(g)
  BY <1>1, <1>4 DEF Ask
<1>5. CASE Retry(g)
  <2>1. refresh[g] \in RefreshRecord
    BY <1>5, BusyIsTyped DEF Retry, IsAt
  <2>2. [refresh[g] EXCEPT !.attempt = @ + 1].pc = "page"
    BY <1>5, <2>1 DEF Retry, IsAt, RefreshRecord
  <2> QED BY <1>1, <1>5, <2>2 DEF Retry
<1>6. CASE FetchFails(g) \/ Upsert(g)
  BY <1>1, <1>6 DEF FetchFails, Upsert, Idle
<1>7. CASE FetchPage(g)
  BY <1>1, <1>7 DEF FetchPage
<1> QED BY <1>3, <1>4, <1>5, <1>6, <1>7 DEF Proceed

\* When the paging ends, every candle that the exchange then has in the range is
\* among the rows, and the count is that of the rows (fetch_klines).
THEOREM FetchedIsWholeAlways == FetchSpec => FetchedIsWhole
<1>1. ASSUME FetchInv, FetchNext, NEW f \in Refreshers, IsAt(f, "page"), IsAt(f, "store")'
      PROVE  /\ \A m \in offered :
                  refresh[f].start <= m * Span /\ m * Span <= refresh[f].end => refresh'[f].rows[m] # NoRow
             /\ refresh'[f].fetched = Cardinality({m \in CandleMinutes : refresh'[f].rows[m] # NoRow})
  BY <1>1, LastPageStep, FetchPageOK DEF IsAt, Asks, Rows
<1>2. FetchInv /\ [FetchNext]_fetchVars =>
        [\A f \in Refreshers : IsAt(f, "page") /\ IsAt(f, "store")' =>
           /\ \A m \in offered :
                refresh[f].start <= m * Span /\ m * Span <= refresh[f].end => refresh'[f].rows[m] # NoRow
           /\ refresh'[f].fetched =
                Cardinality({m \in CandleMinutes : refresh'[f].rows[m] # NoRow})]_fetchVars
  BY <1>1
<1> QED BY <1>2, FetchInvariant, PTL DEF FetchSpec, FetchedIsWhole

\* A refresh that began after a minute was over stores its final candle, whatever was
\* stored of it before (refresh_btcusdt_1m).
THEOREM RefreshRepairsAlways == FetchSpec => RefreshRepairs
<1>1. ASSUME FetchInv, NEW f \in Refreshers, Upsert(f), NEW m \in offered,
             refresh[f].start <= m * Span, m * Span <= refresh[f].end, (m + 1) * Span <= refresh[f].asked
      PROVE  candles'[m] = "final"
  <2>1. RefreshFits(refresh[f]) /\ refresh[f].pc = "store"
    BY <1>1, BusyIsTyped DEF Upsert, IsAt
  <2>2. m \in CandleMinutes /\ refresh[f].rows[m] # NoRow
    BY <1>1, <2>1 DEF RefreshFits, Fetched, Asks, FetchInv, FetchTypeOK
  <2>3. refresh[f].rows[m] = "final"
    BY <1>1, <2>1, <2>2 DEF RefreshFits, Rows
  <2> QED BY <1>1, <2>2, <2>3 DEF Upsert
<1>2. FetchInv /\ [FetchNext]_fetchVars =>
        [\A f \in Refreshers : Upsert(f) =>
           \A m \in offered :
             /\ refresh[f].start <= m * Span /\ m * Span <= refresh[f].end
             /\ (m + 1) * Span <= refresh[f].asked
             => candles'[m] = "final"]_fetchVars
  BY <1>1
<1> QED BY <1>2, FetchInvariant, PTL DEF FetchSpec, RefreshRepairs

\* The rows that a refresh has are of its range.
AsksOnly(r) == r.start <= r.cursor /\ \A m \in Rows(r) : Asks(r, m)

KeepsToRange == \A f \in Refreshers : refresh[f] # Idle => AsksOnly(refresh[f])

LEMMA RangeKept ==
  ASSUME FetchInv, KeepsToRange, NEW f \in Refreshers, NEW r, Set(f, r), r # Idle => AsksOnly(r)
  PROVE  KeepsToRange'
<1>1. refresh' = [g \in Refreshers |-> IF g = f THEN r ELSE refresh[g]]
  BY DEF Set, FetchInv, FetchTypeOK
<1>2. \A g \in Refreshers : refresh'[g] # Idle => AsksOnly(refresh'[g])
  BY <1>1 DEF KeepsToRange
<1> QED BY <1>2 DEF KeepsToRange, AsksOnly, Rows, Asks

LEMMA AskInRange == ASSUME FetchInv, KeepsToRange, NEW f \in Refreshers, Ask(f) PROVE KeepsToRange'
<1>1. PICK s \in 0 .. MaxClock, e \in 0 .. MaxClock :
        Set(f, [pc |-> "page", asked |-> clock, start |-> s, end |-> e, cursor |-> s, attempt |-> 1,
                fetched |-> 0, rows |-> [m \in CandleMinutes |-> NoRow]])
  BY DEF Ask
<1> DEFINE r == [pc |-> "page", asked |-> clock, start |-> s, end |-> e, cursor |-> s, attempt |-> 1,
                 fetched |-> 0, rows |-> [m \in CandleMinutes |-> NoRow]]
<1>2. s <= s
  BY Spans
<1>3. r.start <= r.cursor /\ Rows(r) = {}
  BY <1>2 DEF Rows
<1> QED BY <1>1, <1>3, RangeKept DEF AsksOnly

LEMMA PageInRange == ASSUME FetchInv, KeepsToRange, NEW f \in Refreshers, FetchPage(f) PROVE KeepsToRange'
<1> DEFINE r == refresh[f]
           page == Page(r.cursor, r.end)
           s == [r EXCEPT !.pc = IF IsLast(f, page) THEN "store" ELSE "page",
                          !.cursor = IF page = {} THEN @ ELSE NextCursor(page),
                          !.attempt = 1,
                          !.fetched = @ + Cardinality(page),
                          !.rows = [m \in CandleMinutes |-> IF m \in page THEN Price(m) ELSE @[m]]]
<1>1. Set(f, s)
  BY DEF FetchPage
<1>2. r \in RefreshRecord /\ r # Idle
  BY BusyIsTyped DEF FetchPage, IsAt
<1>3. AsksOnly(r)
  BY <1>2 DEF KeepsToRange
<1>4. /\ s.start = r.start /\ s.end = r.end
      /\ s.cursor = IF page = {} THEN r.cursor ELSE NextCursor(page)
      /\ s.rows = [m \in CandleMinutes |-> IF m \in page THEN Price(m) ELSE r.rows[m]]
  <2> HIDE DEF r, page
  <2> QED BY <1>2 DEF RefreshRecord
<1>5. \A m \in page : m \in CandleMinutes /\ r.cursor <= m * Span /\ m * Span <= r.end
  <2>1. page \subseteq CandleMinutes
    <3>1. FetchTypeOK
      BY DEF FetchInv
    <3> QED BY <3>1, PageIsPrefix
  <2> QED BY <2>1 DEF Page
<1>6. r.start \in Nat /\ r.cursor \in Nat
  <2> HIDE DEF r
  <2> QED BY <1>2, Spans DEF RefreshRecord
<1> HIDE DEF r, page, s
<1>7. \A m \in page : r.start <= m * Span
  <2> SUFFICES ASSUME NEW m \in page PROVE r.start <= m * Span
    OBVIOUS
  <2>1. m \in Nat /\ r.cursor <= m * Span
    BY <1>5, MinutesOfClock
  <2>2. m * Span \in Nat
    BY <2>1, MinuteTimes
  <2> QED BY <1>3, <1>6, <2>1, <2>2 DEF AsksOnly
<1>8. r.start <= s.cursor
  <2>1. CASE page = {}
    BY <1>3, <1>4, <2>1 DEF AsksOnly
  <2>2. CASE page # {}
    <3>1. page \in SUBSET CandleMinutes
      BY <1>5
    <3>2. Max(page) \in page
      BY <2>2, <3>1, LastMinute
    <3>3. PICK last \in Nat : last = Max(page) /\ r.start <= last * Span
      BY <1>5, <1>7, <3>2, MinutesOfClock
    <3>4. last * Span \in Nat /\ (last + 1) * Span = last * Span + Span
      BY MinuteTimes
    <3>5. s.cursor = (last + 1) * Span
      BY <1>4, <2>2, <3>3 DEF NextCursor
    <3> QED BY <1>6, <3>3, <3>4, <3>5, Spans
  <2> QED BY <2>1, <2>2
<1>9. \A m \in Rows(s) : Asks(s, m)
  <2> SUFFICES ASSUME NEW m \in Rows(s) PROVE Asks(s, m)
    OBVIOUS
  <2>1. m \in page \/ m \in Rows(r)
    BY <1>4 DEF Rows
  <2>2. Asks(r, m)
    BY <1>3, <1>5, <1>7, <2>1 DEF AsksOnly, Asks
  <2> QED BY <1>4, <2>2 DEF Asks
<1> QED BY <1>1, <1>4, <1>8, <1>9, RangeKept DEF AsksOnly

LEMMA RetryInRange == ASSUME FetchInv, KeepsToRange, NEW f \in Refreshers, Retry(f) PROVE KeepsToRange'
<1> DEFINE r == refresh[f]
           s == [r EXCEPT !.attempt = @ + 1]
<1>1. r \in RefreshRecord /\ r # Idle
  BY BusyIsTyped DEF Retry, IsAt
<1>2. Set(f, s) /\ AsksOnly(r)
  BY <1>1 DEF Retry, KeepsToRange
<1> HIDE DEF r
<1>3. s.start = r.start /\ s.end = r.end /\ s.cursor = r.cursor /\ s.rows = r.rows
  BY <1>1 DEF RefreshRecord
<1> HIDE DEF s
<1>4. AsksOnly(s)
  BY <1>2, <1>3 DEF AsksOnly, Rows, Asks
<1> QED BY <1>2, <1>4, RangeKept

LEMMA KeepsToRangeNext == FetchInv /\ KeepsToRange /\ [FetchNext]_fetchVars => KeepsToRange'
<1> SUFFICES ASSUME FetchInv, KeepsToRange, [FetchNext]_fetchVars PROVE KeepsToRange'
  OBVIOUS
<1>1. ASSUME UNCHANGED refresh PROVE KeepsToRange'
  BY <1>1 DEF KeepsToRange, AsksOnly, Rows, Asks
<1>2. CASE Tick \/ Trade \/ Clear \/ UNCHANGED fetchVars
  BY <1>1, <1>2 DEF Tick, Trade, Clear, fetchVars
<1>3. ASSUME NEW f \in Refreshers, FetchFails(f) \/ Upsert(f) PROVE KeepsToRange'
  <2>1. Set(f, Idle)
    BY <1>3 DEF FetchFails, Upsert
  <2> QED BY <2>1, RangeKept
<1> QED BY <1>2, <1>3, AskInRange, PageInRange, RetryInRange DEF FetchNext, Proceed

\* A refresh writes no row outside the range it was asked for, for every span of a
\* candle and limit of a page (KlineFetch!StoresOnlyAsked).
THEOREM StoresOnlyAskedAlways == FetchSpec => StoresOnlyAsked
<1> DEFINE Kept == \A m \in CandleMinutes : candles[m] = NoRow /\ candles'[m] # NoRow =>
                     \E f \in Refreshers : Upsert(f) /\ m * Span \in refresh[f].start .. refresh[f].end
<1>1. FetchInit => KeepsToRange
  BY DEF FetchInit, KeepsToRange
<1>2. FetchInv /\ KeepsToRange /\ [FetchNext]_fetchVars => [Kept]_fetchVars
  <2> SUFFICES ASSUME FetchInv, KeepsToRange, FetchNext, NEW m \in CandleMinutes,
                      candles[m] = NoRow, candles'[m] # NoRow
               PROVE  \E f \in Refreshers : Upsert(f) /\ m * Span \in refresh[f].start .. refresh[f].end
    OBVIOUS
  <2>1. PICK f \in Refreshers : Upsert(f)
    <3>1. ~Tick /\ ~Trade /\ ~Clear
      BY DEF Tick, Trade, Clear
    <3>2. \A f \in Refreshers : ~Ask(f) /\ ~FetchPage(f) /\ ~Retry(f) /\ ~FetchFails(f)
      BY DEF Ask, FetchPage, Retry, FetchFails
    <3> QED BY <3>1, <3>2 DEF FetchNext, Proceed
  <2>2. refresh[f] \in RefreshRecord /\ refresh[f] # Idle
    BY <2>1, BusyIsTyped DEF Upsert, IsAt
  <2>3. AsksOnly(refresh[f])
    BY <2>2 DEF KeepsToRange
  <2>4. m \in Rows(refresh[f])
    BY <2>1 DEF Upsert, Rows
  <2>5. refresh[f].start <= m * Span /\ m * Span <= refresh[f].end
    BY <2>3, <2>4 DEF AsksOnly, Asks
  <2>6. m * Span \in Nat
    BY MinuteTimes, MinutesOfClock
  <2>7. refresh[f].start \in Nat /\ refresh[f].end \in Nat
    BY <2>2, Spans DEF RefreshRecord
  <2>8. m * Span \in refresh[f].start .. refresh[f].end
    <3> DEFINE t == m * Span
               s == refresh[f].start
               e == refresh[f].end
    <3>1. t \in Nat /\ s \in Nat /\ e \in Nat /\ s <= t /\ t <= e
      BY <2>5, <2>6, <2>7
    <3> HIDE DEF t, s, e
    <3>2. t \in s .. e
      BY <3>1
    <3> QED BY <3>2 DEF t, s, e
  <2> QED BY <2>1, <2>8
<1> QED BY <1>1, <1>2, KeepsToRangeNext, FetchInvariant, PTL DEF FetchSpec, StoresOnlyAsked
-----------------------------------------------------------------------------
(* A catch-up. *)

(* Batches. *)

\* A non-empty set of naturals has a least element, and Min is one.
LEMMA MinOfNaturals ==
  ASSUME NEW S \in SUBSET Nat, S # {}
  PROVE  Min(S) \in S /\ \A m \in S : Min(S) <= m
<1>1. PICK least \in S : \A m \in S : ~(<<m, least>> \in OpToRel(<, Nat))
  BY NatLessThanWellFounded, WFMin
<1>2. ASSUME NEW m \in S PROVE least <= m
  <2>1. m \in Nat /\ least \in Nat
    OBVIOUS
  <2>2. m < least => <<m, least>> \in OpToRel(<, Nat)
    BY <2>1 DEF OpToRel
  <2>3. ~(m < least)
    BY <1>1, <2>2
  <2> QED
    BY <2>1, <2>3
<1> QED
  BY <1>2 DEF Min

\* A batch lies in the requested range and refreshes at least a minute.
LEMMA BatchBounds ==
  ASSUME thread.missing \in SUBSET Minutes, thread.missing # {}
  PROVE  /\ BatchStart \in thread.missing
         /\ BatchEnd \in BatchStart + 1 .. End
<1>1. Minutes \subseteq Nat /\ End \in Nat /\ Window \in Nat \ {0}
  BY CatchUpAssumption DEF Minutes
<1>2. BatchStart \in thread.missing
  BY <1>1, MinOfNaturals DEF BatchStart
<1>3. BatchStart \in Nat /\ BatchStart < End
  BY <1>1, <1>2 DEF Minutes
<1> DEFINE Beyond == {m \in BatchStart .. End : m \notin thread.missing}
<1>4. End \in Beyond
  BY <1>1, <1>3 DEF Minutes
<1>5. RangeEnd \in Beyond
  <2>1. Beyond \in SUBSET Nat /\ Beyond # {}
    BY <1>1, <1>3, <1>4
  <2> QED
    BY <2>1, MinOfNaturals DEF RangeEnd
<1>6. RangeEnd \in BatchStart + 1 .. End
  BY <1>1, <1>2, <1>3, <1>5
<1> QED
  BY <1>1, <1>2, <1>3, <1>6 DEF BatchEnd

\* The end of a chunk lies after its start, in the requested range.
LEMMA ScanBounds ==
  ASSUME thread.cursor \in 0 .. End
  PROVE  ScanEnd \in thread.cursor .. End /\ (~(ScanEnd < End) => ScanEnd = End)
BY CatchUpAssumption DEF ScanEnd
-----------------------------------------------------------------------------
(* The inductive invariant. *)

\* A batch is only under way, and only reported, when something is missing and
\* in the first two passes.
BatchHasWork == At("refresh") \/ At("report") => thread.missing # {} /\ thread.pass < 3

\* What the third discovery has read and not listed has a candle.
Discovered ==
  thread.pass = 3 => \/ At("scan") /\ (0 .. thread.cursor - 1) \ cache \subseteq thread.missing
                     \/ At("check") /\ Minutes \ cache \subseteq thread.missing
                     \/ ~At("scan") /\ ~At("check")

Whole == /\ Discovered
         /\ At("completed") => Minutes \subseteq cache
         /\ status.state = "completed" => Minutes \subseteq cache

\* The event is looked at between two batches.
StopSeen == after \in 0..1 /\ (At("refresh") => after = 0)

CatchUpInv == /\ TypeOK
              /\ BatchHasWork
              /\ cleared \/ Whole
              /\ StopSeen
              /\ WorkIsReported

LEMMA CatchUpInvInit == ObservedInit => CatchUpInv
<1> SUFFICES ASSUME ObservedInit PROVE CatchUpInv
  OBVIOUS
<1> USE DEF ObservedInit, Init, NoThread, IdleStatus
<1>1. TypeOK
  <2>1. thread \in ThreadRecord
    BY CatchUpAssumption DEF ThreadRecord, ThreadPC
  <2>2. status \in StatusRecord
    BY DEF StatusRecord, State
  <2> QED
    BY <2>1, <2>2 DEF TypeOK
<1>2. BatchHasWork /\ Whole /\ StopSeen /\ WorkIsReported
  BY DEF BatchHasWork, Whole, Discovered, StopSeen, WorkIsReported, At
<1> QED
  BY <1>1, <1>2 DEF CatchUpInv

\* Every action keeps the types.
LEMMA TypeStep ==
  ASSUME TypeOK, BatchHasWork, Next
  PROVE  TypeOK'
<1> USE DEF TypeOK, StatusRecord, State
<1>0. thread \in ThreadRecord
  OBVIOUS
<1>n. NoThread \in ThreadRecord /\ [NoThread EXCEPT !.pc = "scan"] \in ThreadRecord
  BY CatchUpAssumption DEF NoThread, ThreadRecord, ThreadPC
<1>1. CASE Start
  BY <1>1, <1>n DEF Start
<1>2. CASE RequestStop
  BY <1>2 DEF RequestStop
<1>3. CASE ClearCheck \/ ClearDelete \/ ClearFail
  BY <1>3 DEF ClearCheck, ClearDelete, ClearFail
<1>4. CASE Scan
  <2>1. ScanEnd \in thread.cursor .. End
    BY ScanBounds DEF ThreadRecord
  <2>2. ScanEnd \in 0 .. End /\ (thread.cursor .. ScanEnd - 1) \ cache \subseteq Minutes
    BY <2>1, CatchUpAssumption DEF ThreadRecord, Minutes
  <2>3. thread' \in ThreadRecord
    BY <1>4, <2>2 DEF Scan, ThreadRecord, ThreadPC
  <2> QED
    BY <1>4, <2>3 DEF Scan
<1>5. CASE Check
  <2>a. thread.pass + 1 \in 1..3 /\ 0 \in 0 .. End
    BY <1>5, CatchUpAssumption DEF Check, ThreadRecord
  <2>b. NextPass => thread' \in ThreadRecord
    BY <2>a, <1>0 DEF NextPass, ThreadRecord, ThreadPC
  <2>c. ~NextPass => thread' \in ThreadRecord
    BY <1>5 DEF Check, ThreadRecord, ThreadPC
  <2>1. thread' \in ThreadRecord
    BY <2>b, <2>c
  <2> QED
    BY <1>5, <2>1 DEF Check
<1>6. CASE Decide
  <2>1. thread' \in ThreadRecord
    BY <1>6 DEF Decide, ThreadRecord, ThreadPC
  <2> QED
    BY <1>6, <2>1 DEF Decide
<1>7. CASE Refresh
  <2>1. thread' \in ThreadRecord
    BY <1>7 DEF Refresh, ThreadRecord, ThreadPC
  <2> QED
    BY <1>7, <2>1 DEF Refresh
<1>8. CASE Report
  <2>1. BatchEnd \in Nat /\ End \in Nat
    BY <1>8, BatchBounds, CatchUpAssumption DEF Report, BatchHasWork, ThreadRecord, Minutes
  <2>2. (BatchEnd < End) \in BOOLEAN
    BY <2>1
  <2>3. thread' \in ThreadRecord
    BY <1>8 DEF Report, ThreadRecord, ThreadPC
  <2> QED
    BY <1>8, <2>2, <2>3 DEF Report
<1>9. CASE Settle
  <2>1. Outcome \in StatusRecord
    BY <1>9 DEF Settle, Outcome, At
  <2>2. thread' \in ThreadRecord
    BY <1>9 DEF Settle, ThreadRecord, ThreadPC
  <2> QED
    BY <1>9, <2>1, <2>2 DEF Settle
<1>10. CASE Exit
  BY <1>10, <1>n DEF Exit
<1>11. CASE Fail
  <2>1. thread' \in ThreadRecord
    BY <1>11 DEF Fail, ThreadRecord, ThreadPC
  <2> QED
    BY <1>11, <2>1 DEF Fail
<1>12. CASE ScriptRefresh
  BY <1>12 DEF ScriptRefresh
<1>13. CASE Restart
  BY <1>13, <1>n DEF Restart, IdleStatus
<1> QED
  BY <1>1, <1>2, <1>3, <1>4, <1>5, <1>6, <1>7, <1>8, <1>9, <1>10, <1>11, <1>12, <1>13
  DEF Next, ThreadStep

\* A batch is entered with something missing and keeps it until reported.
LEMMA BatchStep ==
  ASSUME TypeOK, BatchHasWork, Next
  PROVE  BatchHasWork'
<1>1. thread \in ThreadRecord
  BY DEF TypeOK
<1> USE DEF BatchHasWork, At
<1>2. CASE Start \/ Exit \/ Restart
  BY <1>2 DEF Start, Exit, Restart, NoThread
<1>3. CASE RequestStop \/ ClearCheck \/ ClearDelete \/ ClearFail \/ ScriptRefresh
  BY <1>3 DEF RequestStop, ClearCheck, ClearDelete, ClearFail, ScriptRefresh
<1>4. CASE Scan \/ Decide \/ Settle \/ Fail
  BY <1>1, <1>4 DEF Scan, Decide, Settle, Fail, ThreadRecord
<1>5. CASE Check
  BY <1>1, <1>5 DEF Check, NextPass, ThreadRecord
<1>6. CASE Refresh
  BY <1>1, <1>6 DEF Refresh, ThreadRecord
<1>7. CASE Report
  BY <1>1, <1>7 DEF Report, ThreadRecord
<1> QED
  BY <1>2, <1>3, <1>4, <1>5, <1>6, <1>7 DEF Next, ThreadStep

\* Work under way is reported: only Settle, which ends it, reports an end.
LEMMA ReportedStep ==
  ASSUME TypeOK, WorkIsReported, Next
  PROVE  WorkIsReported'
<1>1. thread \in ThreadRecord /\ status \in StatusRecord
  BY DEF TypeOK
<1> USE DEF WorkIsReported, IsRunning, ThreadPC, At
<1>2. CASE Start \/ RequestStop \/ ClearCheck \/ ClearDelete \/ ClearFail
  BY <1>1, <1>2 DEF Start, RequestStop, ClearCheck, ClearDelete, ClearFail, Alive, NoThread,
                    ThreadRecord, StatusRecord
<1>3. CASE Scan \/ Check \/ Decide \/ Refresh \/ Fail
  BY <1>1, <1>3 DEF Scan, Check, NextPass, Decide, Refresh, Fail, ThreadRecord
<1>4. CASE Report \/ Settle \/ Exit \/ ScriptRefresh \/ Restart
  BY <1>1, <1>4 DEF Report, Settle, Exit, ScriptRefresh, Restart, NoThread, ThreadRecord
<1> QED
  BY <1>2, <1>3, <1>4 DEF Next, ThreadStep

\* The event is seen: a batch only starts if it was not set.
LEMMA StopStep ==
  ASSUME TypeOK, StopSeen, Next, Observe
  PROVE  StopSeen'
<1>1. thread \in ThreadRecord /\ stop \in BOOLEAN
  BY DEF TypeOK
<1> USE DEF StopSeen, Observe, At, Alive
<1>2. CASE Refresh
  BY <1>1, <1>2 DEF Refresh, ThreadRecord
<1>3. CASE Check
  <2>1. thread'.pc # "report" /\ (thread'.pc = "refresh" => ~stop)
    BY <1>1, <1>3 DEF Check, NextPass, ThreadRecord
  <2>2. ~At("refresh")
    BY <1>3 DEF Check
  <2> QED
    BY <2>1, <2>2
<1>4. CASE Start \/ Exit \/ Restart
  BY <1>4 DEF Start, Exit, Restart, NoThread
<1>5. CASE RequestStop \/ ClearCheck \/ ClearDelete \/ ClearFail \/ ScriptRefresh
  BY <1>1, <1>5 DEF RequestStop, ClearCheck, ClearDelete, ClearFail, ScriptRefresh
<1>6. CASE Scan \/ Decide \/ Settle \/ Fail \/ Report
  <2>1. thread'.pc \notin {"refresh", "report"}
    BY <1>1, <1>6 DEF Scan, Decide, Settle, Fail, Report, ThreadRecord
  <2> QED
    BY <2>1
<1> QED
  BY <1>2, <1>3, <1>4, <1>5, <1>6 DEF Next, ThreadStep

\* Until the cache is cleared nothing leaves it, so what a discovery has read
\* stays read; a start forgets that the cache was cleared and reads again.
LEMMA WholeStep ==
  ASSUME TypeOK, BatchHasWork, cleared \/ Whole, Next, Observe
  PROVE  (cleared \/ Whole)'
<1> SUFFICES ASSUME ~cleared' PROVE Whole'
  OBVIOUS
<1>1. thread \in ThreadRecord /\ status \in StatusRecord
  BY DEF TypeOK
<1>2. cache \subseteq cache'
  BY DEF Observe
<1>3. CASE ~Alive /\ Alive'
  <2>1. Start
    BY <1>3, <1>1 DEF Alive, Next, ThreadStep, RequestStop, ClearCheck, ClearDelete, ClearFail,
         Scan, Check, Decide, Refresh, Report, Settle, Exit, Fail, ScriptRefresh, Restart,
         At, NoThread
  <2> QED
    BY <2>1 DEF Start, NoThread, Whole, Discovered, At
<1>4. CASE ~(~Alive /\ Alive')
  <2>1. Whole
    BY <1>4 DEF Observe
  <2> USE DEF Whole, Discovered, At
  <2>2. CASE Start \/ Exit \/ Restart
    BY <2>1, <2>2, <1>2 DEF Start, Exit, Restart, NoThread, IdleStatus
  <2>3. CASE RequestStop
    BY <2>1, <2>3, <1>1, <1>2 DEF RequestStop, StatusRecord
  <2>4. CASE ClearCheck \/ ClearDelete \/ ClearFail \/ ScriptRefresh
    BY <2>1, <2>4, <1>2 DEF ClearCheck, ClearDelete, ClearFail, ScriptRefresh
  <2>5. CASE Scan
    <3> DEFINE chunk == (thread.cursor .. ScanEnd - 1) \ cache
    <3>1. /\ thread'.cursor = ScanEnd
          /\ thread'.missing = thread.missing \cup chunk
          /\ thread'.pc = IF ScanEnd < End THEN "scan" ELSE "check"
          /\ thread'.pass = thread.pass
      BY <2>5, <1>1 DEF Scan, ThreadRecord
    <3>2. thread.cursor \in Nat /\ ScanEnd \in Nat /\ End \in Nat
      BY <1>1, ScanBounds, CatchUpAssumption DEF ThreadRecord
    <3>3. thread.pass = 3 => (0 .. ScanEnd - 1) \ cache \subseteq thread'.missing
      <4> SUFFICES ASSUME thread.pass = 3, NEW m \in 0 .. ScanEnd - 1, m \notin cache
                   PROVE  m \in thread.missing \cup chunk
        BY <3>1
      <4>1. CASE m < thread.cursor
        <5>1. m \in (0 .. thread.cursor - 1) \ cache
          BY <4>1, <3>2
        <5> QED
          BY <5>1, <2>1, <2>5 DEF Scan
      <4>2. CASE ~(m < thread.cursor)
        BY <4>2, <3>2
      <4> QED
        BY <4>1, <4>2
    <3>4. ~(ScanEnd < End) => ScanEnd = End
      BY <1>1, ScanBounds DEF ThreadRecord
    <3>5. Discovered'
      BY <3>1, <3>3, <3>4, <2>5 DEF Scan, Minutes
    <3> QED
      BY <3>1, <3>5, <2>1, <2>5 DEF Scan
  <2>6. CASE Check
    <3>1. thread.pass < 3 /\ thread.pass \in 1..3
      BY <2>6, <1>1 DEF Check, ThreadRecord
    <3>a. NextPass => Discovered'
      <4>1. NextPass => thread'.pc = "scan" /\ thread'.cursor = 0
        BY <1>1 DEF NextPass, ThreadRecord
      <4>2. 0 .. 0 - 1 = {}
        OBVIOUS
      <4> QED
        BY <4>1, <4>2
    <3>b. ~NextPass => Discovered'
      <4>1. ~NextPass => thread'.pc \in {"stopped", "refresh"}
        BY <2>6, <1>1 DEF Check, ThreadRecord
      <4> QED
        BY <4>1
    <3>2. Discovered'
      BY <3>a, <3>b
    <3>3. ~At("completed")'
      BY <2>6, <1>1 DEF Check, NextPass, ThreadRecord
    <3> QED
      BY <3>2, <3>3, <2>1, <2>6 DEF Check
  <2>7. CASE Decide
    <3>1. thread'.pc = "completed" => thread.missing = {}
      BY <2>7, <1>1 DEF Decide, ThreadRecord
    <3>2. thread'.pc \in {"completed", "incomplete"}
      BY <2>7, <1>1 DEF Decide, ThreadRecord
    <3>3. Minutes \ cache \subseteq thread.missing
      BY <2>1, <2>7 DEF Decide
    <3> QED
      BY <3>1, <3>2, <3>3, <2>1, <2>7 DEF Decide
  <2>8. CASE Refresh
    BY <2>1, <2>8, <1>1, <1>2 DEF Refresh, ThreadRecord
  <2>9. CASE Report
    <3>1. thread'.pc = "check" /\ thread'.pass = thread.pass /\ thread.pass # 3
      BY <2>9, <1>1 DEF Report, ThreadRecord, BatchHasWork
    <3>2. status'.state = "running"
      BY <2>9 DEF Report
    <3> QED
      BY <3>1, <3>2
  <2>10. CASE Fail
    BY <2>1, <2>10, <1>1 DEF Fail, ThreadRecord
  <2>11. CASE Settle
    <3>1. status'.state = "completed" => At("completed") \/ status.state = "completed"
      BY <2>11, <1>1 DEF Settle, Outcome, StatusRecord
    <3> QED
      BY <3>1, <2>1, <2>11, <1>1, <1>2 DEF Settle, ThreadRecord
  <2> QED
    BY <2>2, <2>3, <2>4, <2>5, <2>6, <2>7, <2>8, <2>9, <2>10, <2>11 DEF Next, ThreadStep
<1> QED
  BY <1>3, <1>4

\* Every step keeps the invariant.
LEMMA CatchUpInvStep == CatchUpInv /\ [Next /\ Observe]_vars => CatchUpInv'
<1> SUFFICES ASSUME CatchUpInv, [Next /\ Observe]_vars PROVE CatchUpInv'
  OBVIOUS
<1> USE DEF CatchUpInv
<1>1. CASE Next /\ Observe
  BY <1>1, TypeStep, BatchStep, WholeStep, StopStep, ReportedStep
<1>2. CASE UNCHANGED vars
  BY <1>2 DEF vars, TypeOK, BatchHasWork, Whole, Discovered, StopSeen, WorkIsReported, At, IsRunning
<1> QED
  BY <1>1, <1>2

LEMMA CatchUpInvHolds == ObservedSpec => []CatchUpInv
<1> QED
  BY CatchUpInvInit, CatchUpInvStep, PTL DEF ObservedSpec
-----------------------------------------------------------------------------
(* Results. *)

\* The thread, the status, the stop event and the cache keep their types: the
\* scan's cursor, above all, never leaves the requested range.
THEOREM CatchUpTypeCorrect == ObservedSpec => []TypeOK
<1>1. CatchUpInv => TypeOK
  BY DEF CatchUpInv
<1> QED
  BY <1>1, CatchUpInvHolds, PTL

\* A stop request lets one batch finish, for every size of range, chunk and
\* batch.
THEOREM StopBoundsBatchesAlways == ObservedSpec => []StopBoundsBatches
<1>1. CatchUpInv => StopBoundsBatches
  BY DEF CatchUpInv, StopSeen, StopBoundsBatches
<1> QED
  BY <1>1, CatchUpInvHolds, PTL

\* A catch-up reported as completed has left no minute without a candle, for
\* every size of range, chunk and batch and whatever the exchange delivered.
THEOREM CompletedIsWholeAlways == ObservedSpec => []CompletedIsWhole
<1>1. CatchUpInv => CompletedIsWhole
  BY DEF CatchUpInv, TypeOK, Whole, CompletedIsWhole
<1> QED
  BY <1>1, CatchUpInvHolds, PTL

\* A thread that has work to do shows in the status as running or stopping.
THEOREM WorkIsReportedAlways == ObservedSpec => []WorkIsReported
<1>1. CatchUpInv => WorkIsReported
  BY DEF CatchUpInv
<1> QED
  BY <1>1, CatchUpInvHolds, PTL

\* A pass that scans has not come to the end.
ScanGoesOn == At("scan") => thread.cursor < End

LEMMA ScanGoesOnStep == TypeOK /\ ScanGoesOn /\ [Next /\ Observe]_vars => ScanGoesOn'
<1> SUFFICES ASSUME TypeOK, ScanGoesOn, [Next /\ Observe]_vars, At("scan")' PROVE thread'.cursor < End
  BY DEF ScanGoesOn
<1>1. /\ thread = [pc |-> thread.pc, pass |-> thread.pass, cursor |-> thread.cursor, missing |-> thread.missing]
      /\ 0 < End
  BY CatchUpAssumption DEF TypeOK, ThreadRecord
<1>2. CASE UNCHANGED thread
  BY <1>2 DEF ScanGoesOn, At
<1>3. CASE Scan
  <2>1. thread' = [thread EXCEPT !.cursor = ScanEnd,
                                 !.missing = @ \cup ((thread.cursor .. ScanEnd - 1) \ cache),
                                 !.pc = IF ScanEnd < End THEN "scan" ELSE "check"]
    BY <1>3 DEF Scan
  <2>2. thread'.cursor = ScanEnd /\ thread'.pc = IF ScanEnd < End THEN "scan" ELSE "check"
    BY <1>1, <2>1
  <2>3. thread'.pc = "scan"
    BY DEF At
  <2> QED BY <2>2, <2>3
<1>4. thread'.pc = "scan"
  BY DEF At
<1>5. CASE Start \/ Check
  <2>1. CASE Start
    <3>1. thread'.cursor = 0
      BY <2>1 DEF Start, NoThread
    <3> QED BY <1>1, <3>1
  <2>2. CASE Check
    <3>1. NextPass \/ thread' = [thread EXCEPT !.pc = "stopped"] \/ thread' = [thread EXCEPT !.pc = "refresh"]
      BY <2>2 DEF Check
    <3>2. NextPass => thread'.cursor = 0
      BY <1>1 DEF NextPass
    <3>3. ~NextPass => thread'.pc \in {"stopped", "refresh"}
      BY <1>1, <3>1
    <3> QED BY <1>1, <1>4, <3>2, <3>3
  <2> QED BY <1>5, <2>1, <2>2
<1>6. CASE Decide \/ Refresh \/ Report \/ Settle \/ Exit \/ Fail \/ Restart
  <2>1. CASE Decide
    <3>1. thread'.pc \in {"completed", "incomplete"}
      BY <1>1, <2>1 DEF Decide
    <3> QED BY <1>4, <3>1
  <2>2. CASE Refresh \/ Settle \/ Fail
    <3>1. thread'.pc \in {"report", "exiting", "failed"}
      BY <1>1, <2>2 DEF Refresh, Settle, Fail
    <3> QED BY <1>4, <3>1
  <2>3. CASE Report
    <3>1. thread'.pc = "check"
      BY <1>1, <2>3 DEF Report
    <3> QED BY <1>4, <3>1
  <2>4. CASE Exit \/ Restart
    <3>1. thread'.pc = "none"
      BY <2>4 DEF Exit, Restart, NoThread
    <3> QED BY <1>4, <3>1
  <2> QED BY <1>6, <2>1, <2>2, <2>3, <2>4
<1>7. CASE RequestStop \/ ClearCheck \/ ClearDelete \/ ClearFail \/ ScriptRefresh \/ UNCHANGED vars
  BY <1>2, <1>7 DEF RequestStop, ClearCheck, ClearDelete, ClearFail, ScriptRefresh, vars
<1> QED BY <1>3, <1>5, <1>6, <1>7 DEF Next, ThreadStep

LEMMA ScanLooks ==
  ASSUME TypeOK, ScanGoesOn, Scan
  PROVE  Pass!Look
<1>1. /\ thread = [pc |-> thread.pc, pass |-> thread.pass, cursor |-> thread.cursor, missing |-> thread.missing]
      /\ thread.cursor \in Nat /\ thread.cursor < End /\ End \in Nat /\ ScanChunk \in Nat \ {0}
  BY CatchUpAssumption DEF TypeOK, ThreadRecord, ScanGoesOn, Scan
<1>2. ScanEnd \in thread.cursor + 1 .. End
  BY <1>1 DEF ScanEnd
<1>3. /\ thread'.cursor = ScanEnd
      /\ thread'.missing = thread.missing \cup ((thread.cursor .. ScanEnd - 1) \ cache)
      /\ UNCHANGED cache
  BY <1>1 DEF Scan
<1>4. thread.cursor .. ScanEnd - 1 = {t \in Minutes : thread.cursor <= t /\ t < ScanEnd}
  BY <1>1, <1>2 DEF Minutes
<1> QED BY <1>2, <1>3, <1>4 DEF Pass!Look

\* While a pass scans, each step of the thread is a look of the survey that a
\* discovery implements, or its end (CatchUpProperties!ScansAreSurveys): what is
\* proved of the catch-up with its Scan holds with the loops that stand behind it.
THEOREM CatchUpScansAsSurvey == ObservedSpec => ScansAreSurveys
<1> DEFINE Scans == At("scan") => \/ Pass!Look \/ UNCHANGED thread
                                  \/ At("failed")' \/ thread' = NoThread
<1>1. ObservedInit => ScanGoesOn
  BY DEF ObservedInit, Init, NoThread, ScanGoesOn, At
<1>2. ObservedSpec => []ScanGoesOn
  BY <1>1, ScanGoesOnStep, CatchUpTypeCorrect, PTL DEF ObservedSpec
<1>3. TypeOK /\ ScanGoesOn /\ [Next /\ Observe]_vars => [Scans]_vars
  <2> SUFFICES ASSUME TypeOK, ScanGoesOn, Next, At("scan")
               PROVE  Pass!Look \/ UNCHANGED thread \/ At("failed")' \/ thread' = NoThread
    OBVIOUS
  <2>1. CASE Scan
    BY <2>1, ScanLooks
  <2>2. CASE Fail \/ Restart
    BY <2>2 DEF Fail, Restart, At, TypeOK, ThreadRecord
  <2>3. ~Start /\ ~Check /\ ~Decide /\ ~Refresh /\ ~Report /\ ~Settle /\ ~Exit
    BY DEF Start, Alive, Check, Decide, Refresh, Report, Settle, Exit, At
  <2>4. CASE RequestStop \/ ClearCheck \/ ClearDelete \/ ClearFail \/ ScriptRefresh
    BY <2>4 DEF RequestStop, ClearCheck, ClearDelete, ClearFail, ScriptRefresh
  <2> QED BY <2>1, <2>2, <2>3, <2>4 DEF Next, ThreadStep
<1> QED BY <1>2, <1>3, CatchUpTypeCorrect, PTL DEF ObservedSpec, ScansAreSurveys
=============================================================================
