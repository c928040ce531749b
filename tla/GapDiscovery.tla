---------------------------- MODULE GapDiscovery ----------------------------
(***************************************************************************)
(* discover_missing_btcusdt_1m_ranges and _merge_ranges                    *)
(* (app/services/market_data_service.py): the loops that turn what the     *)
(* cache holds, read chunk by chunk, into a list of ranges to refresh.     *)
(* CatchUp takes that list for the set of the minutes that had no candle   *)
(* when their chunk was read; that it is one is checked and proved here.   *)
(*                                                                         *)
(* Times are ticks.  A candle has the time at which its minute opens; the  *)
(* bounds of a discovery are any times, since its end is "now" and a       *)
(* script's start is what its user types.                                  *)
(***************************************************************************)
EXTENDS Integers, Sequences, FiniteSets

CONSTANTS
  Opens,     \* the times at which minutes open
  Minute,    \* the step from one to the next
  Chunk,     \* the time read by one query
  MaxTime    \* a bound of the times that are discovered

ASSUME GapAssumption ==
  /\ MaxTime \in Nat
  /\ {Minute, Chunk} \subseteq Nat \ {0}
  /\ Opens \subseteq 0 .. MaxTime
  /\ \A s, t \in Opens : s < t => s + Minute <= t

VARIABLES
  stored,      \* the times that have a candle row
  pc,         \* which of its loops the discovery is in
  start, end, \* what is discovered: the end is exclusive
  cursor,     \* where the next chunk begins
  todo,       \* rows of the last chunk that the loop has not come to
  next,       \* next_missing_start
  found,      \* missing_ranges; while they are merged, those not yet merged
  merged,     \* the result
  total       \* total_cached

gapVars == <<stored, pc, start, end, cursor, todo, next, found, merged, total>>

Time == 0 .. MaxTime

RangeRecord == [start: Time, end: Time]

GapTypeOK ==
  /\ stored \in SUBSET Opens
  /\ pc \in {"scan", "merge", "done"}
  /\ {start, end, cursor} \subseteq Time
  /\ todo \in SUBSET Opens
  /\ next \in 0 .. MaxTime + Minute
  /\ found \in Seq(RangeRecord)
  /\ merged \in Seq(RangeRecord)
  /\ total \in Nat

GapInit ==
  /\ stored \in SUBSET Opens
  /\ pc = "scan"
  /\ start \in Time /\ end \in Time /\ start < end
  /\ cursor = start
  /\ todo = {}
  /\ next = start
  /\ found = <<>>
  /\ merged = <<>>
  /\ total = 0
-----------------------------------------------------------------------------
(* The scan. *)

\* As a bug would have it: the last chunk is as long as the others.
ChunkEndUnclamped == cursor + Chunk

ChunkEnd == IF cursor + Chunk < end THEN cursor + Chunk ELSE end

\* As a bug would have it: the query's inclusive end is taken for the chunk's.
ReadInclusive(scanEnd) == {t \in stored : cursor <= t /\ t <= scanEnd}

Read(scanEnd) == {t \in stored : cursor <= t /\ t < scanEnd}

\* As a bug would have it: a chunk is scanned as if it were the first.
ReadChunkAfresh ==
  /\ pc = "scan"
  /\ todo = {}
  /\ cursor < end
  /\ todo' = Read(ChunkEnd)
  /\ total' = total + Cardinality(todo')
  /\ next' = cursor
  /\ cursor' = ChunkEnd
  /\ UNCHANGED <<stored, pc, start, end, found, merged>>

\* One query; the rows come in the order of their times.
ReadChunk ==
  /\ pc = "scan"
  /\ todo = {}
  /\ cursor < end
  /\ todo' = Read(ChunkEnd)
  /\ total' = total + Cardinality(todo')
  /\ cursor' = ChunkEnd
  /\ UNCHANGED <<stored, pc, start, end, next, found, merged>>

Gap(from, to) == [start |-> from, end |-> to]

\* One turn of the inner loop, for the row of time t.
ScanRow ==
  /\ pc = "scan"
  /\ \E t \in todo :
       /\ \A s \in todo : t <= s
       /\ todo' = todo \ {t}
       /\ found' = IF t > next THEN Append(found, Gap(next, t)) ELSE found
       /\ next' = IF t < next THEN next ELSE t + Minute
  /\ UNCHANGED <<stored, pc, start, end, cursor, merged, total>>

\* What follows the last row lacks a candle up to the end.
ScanTail ==
  /\ pc = "scan"
  /\ todo = {}
  /\ cursor >= end
  /\ found' = IF next < end THEN Append(found, Gap(next, end)) ELSE found
  /\ pc' = "merge"
  /\ UNCHANGED <<stored, start, end, cursor, todo, next, merged, total>>
-----------------------------------------------------------------------------
(* _merge_ranges. *)

Latest == merged[Len(merged)]

MergedWith(range) ==
  IF range.start >= range.end THEN merged
  ELSE IF merged = <<>> \/ range.start > Latest.end THEN Append(merged, range)
  ELSE [merged EXCEPT ![Len(merged)].end = IF @ > range.end THEN @ ELSE range.end]

Merge ==
  /\ pc = "merge"
  /\ found # <<>>
  /\ merged' = MergedWith(Head(found))
  /\ found' = Tail(found)
  /\ UNCHANGED <<stored, pc, start, end, cursor, todo, next, total>>

Return ==
  /\ pc = "merge"
  /\ found = <<>>
  /\ pc' = "done"
  /\ UNCHANGED <<stored, start, end, cursor, todo, next, found, merged, total>>
-----------------------------------------------------------------------------
(* Refreshes and clear requests of others change the cache meanwhile. *)

CacheChanges ==
  /\ \/ \E t \in Opens : stored' = stored \cup {t}
     \/ stored' = {}
  /\ UNCHANGED <<pc, start, end, cursor, todo, next, found, merged, total>>

Discover == ReadChunk \/ ScanRow \/ ScanTail \/ Merge \/ Return

GapNext == Discover \/ CacheChanges

GapSpec == GapInit /\ [][GapNext]_gapVars
=============================================================================
