--------------------------- MODULE GapProperties ----------------------------
(***************************************************************************)
(* What a discovery promises the catch-up and the ingest script.  The      *)
(* observer records the minutes that had no candle when their chunk was    *)
(* read; no action reads it.                                               *)
(***************************************************************************)
EXTENDS GapDiscovery

VARIABLE absent

observedGapVars == <<gapVars, absent>>

ObserveAbsence ==
  absent' = IF cursor' = cursor THEN absent
            ELSE absent \cup ({t \in Opens : cursor <= t /\ t < cursor'} \ stored)

ObservedGapInit == GapInit /\ absent = {}

ObservedGapSpec == ObservedGapInit /\ [][GapNext /\ ObserveAbsence]_observedGapVars

Covers(ranges, t) == \E i \in DOMAIN ranges : ranges[i].start <= t /\ t < ranges[i].end

\* The loops, taken for what they promise together: the answer is the minutes
\* that the ranges hold.
Discovery == INSTANCE Survey WITH
  held <- stored,
  at <- cursor,
  until <- end,
  lacking <- absent,
  answer <- IF pc = "done" THEN {{t \in Opens : Covers(merged, t)}} ELSE {}
-----------------------------------------------------------------------------
\* The ranges hold a minute exactly if it had no candle when its chunk was
\* read, wherever gaps begin and end, whatever lies between the chunks, and
\* however the cache changes from one query to the next.
GapsAreExact == pc = "done" => \A t \in Opens : Covers(merged, t) <=> t \in absent

\* Each range is one that a refresh accepts (its start earlier than its end),
\* none leaves what was asked for, and between two there is time that needs
\* no refresh.
RangesAreApart ==
  pc = "done" =>
    /\ \A i \in DOMAIN merged :
         start <= merged[i].start /\ merged[i].start < merged[i].end /\ merged[i].end <= end
    /\ \A i, j \in DOMAIN merged : i < j => merged[i].end < merged[j].start

\* The number that is reported with the ranges counts every cached minute of
\* the time asked for once, those at the boundary of two chunks too.
TotalIsExact ==
  pc = "done" =>
    total = Cardinality({t \in Opens : start <= t /\ t < end} \ absent)

\* The two loops, with their running start of the next gap, their merge and
\* their list of ranges, implement a survey: it tells what lacked a candle when it
\* was looked at, all of it and no other, and leaves the cache to others.
SurveysTheCache == Discovery!Spec
=============================================================================
