----------------------------- MODULE JobsProofs -----------------------------
(***************************************************************************)
(* Theorems about what runs beside the requests' own path: the rollups,    *)
(* the semantic cache, the decision log, the advisor, the digest, the      *)
(* break-even estimator, the reports and the spend watch, for any number   *)
(* of jobs, rows, entries, users and failures.  Each part is proved from   *)
(* its own specification; the last section shows that the composition is   *)
(* a run of each of them.                                                  *)
(***************************************************************************)
EXTENDS MCJobs, StreamingProofs, ProofLemmas, FiniteSetTheorems, SequenceTheorems, TLAPS

-----------------------------------------------------------------------------
(* The rollups.                                                             *)

RebuildRecord == [stage : {"idle", "deleted", "inserted", "bucketed"}, start : Int,
                  seen : SUBSET LedgerRows, usage : SUBSET LedgerRows,
                  buckets : SUBSET LedgerRows]

RollupShape ==
    /\ now \in Int
    /\ stamp \in [LedgerRows -> Int]
    /\ usage \in SUBSET LedgerRows /\ buckets \in SUBSET LedgerRows
    /\ rebuild \in [Rebuilds -> RebuildRecord]

\* What a job has deleted it can count again, and what it has counted in one
\* table it counts in the next: rows never leave what it selects from.
Recounts(j) ==
    /\ rebuild[j].seen \subseteq Counted(j)
    /\ rebuild[j].usage \subseteq Counted(j)
    /\ rebuild[j].stage \in {"inserted", "bucketed"} => rebuild[j].seen \subseteq rebuild[j].usage
    /\ rebuild[j].stage = "bucketed" => /\ rebuild[j].usage \subseteq rebuild[j].buckets
                                        /\ rebuild[j].buckets \subseteq Counted(j)

RollupInv == /\ RollupShape
       /\ usage \subseteq Drained /\ buckets \subseteq Drained
       /\ HistogramNotBehind
       /\ \A j \in Rebuilds : Recounts(j)

----------------------------------------------------------------------------
(* The days.                                                                *)

\* Deleting by day takes no row from before the instant the count starts at,
\* because that instant is a midnight.
LEMMA DayOfWindow ==
    ASSUME NEW t \in Int, NEW s \in Int, Day(s) >= Day(WindowStart(t))
    PROVE  s >= WindowStart(t)
  <1> DEFINE q == (t - WindowDays * TicksPerDay) \div TicksPerDay
  <1>1. TicksPerDay \in Nat /\ TicksPerDay > 0 /\ WindowDays \in Nat
    BY TicksPerDayAssumption, WindowDaysAssumption
  <1>2. t - WindowDays * TicksPerDay \in Int
    BY <1>1
  <1>3. q \in Int /\ s \div TicksPerDay \in Int
    BY <1>1, <1>2
  <1>4. WindowStart(t) = q * TicksPerDay
    BY DEF WindowStart, Day
  <1> HIDE DEF q
  <1>5. (q * TicksPerDay) \div TicksPerDay = q
    BY <1>1, <1>3
  <1>6. s \div TicksPerDay >= q
    BY <1>4, <1>5 DEF Day
  <1>7. s >= (s \div TicksPerDay) * TicksPerDay
    BY <1>1
  <1>8. (s \div TicksPerDay) * TicksPerDay >= q * TicksPerDay
    BY <1>1, <1>3, <1>6
  <1>9. QED BY <1>1, <1>3, <1>4, <1>7, <1>8

LEMMA WindowStartType == ASSUME NEW t \in Int PROVE WindowStart(t) \in Int
  BY TicksPerDayAssumption, WindowDaysAssumption DEF WindowStart, Day

----------------------------------------------------------------------------
LEMMA RollupInvInit == RollupInit => RollupInv
  <1> SUFFICES ASSUME RollupInit PROVE RollupInv
    OBVIOUS
  <1>1. NoRebuild \in RebuildRecord
    BY DEF NoRebuild, RebuildRecord
  <1>2. RollupShape
    BY <1>1, ClockAssumption DEF RollupInit, RollupShape
  <1>3. \A j \in Rebuilds : Recounts(j)
    BY DEF RollupInit, Recounts, NoRebuild
  <1>4. QED BY <1>2, <1>3 DEF RollupInit, RollupInv, HistogramNotBehind

\* A job that stands still, while rows only arrive.
LEMMA RebuildStandsStill ==
    ASSUME RollupInv, NEW j \in Rebuilds, rebuild'[j] = rebuild[j],
           \A r \in Drained : stamp'[r] = stamp[r]
    PROVE  Recounts(j)'
  <1>1. Counted(j) \subseteq Counted(j)'
    BY DEF Counted, Drained
  <1>2. QED BY <1>1 DEF RollupInv, Recounts

\* The steps of job j on its own transaction: it gets the record v, which says
\* of it what Recounts wants.
LEMMA RebuildMoves ==
    ASSUME RollupInv, NEW j \in Rebuilds, NEW v \in RebuildRecord,
           rebuild' = [rebuild EXCEPT ![j] = v],
           UNCHANGED <<now, stamp, usage, buckets>>,
           Recounts(j)'
    PROVE  RollupInv'
  <1>1. RollupShape'
    BY DEF RollupInv, RollupShape
  <1>2. \A i \in Rebuilds : i # j => Recounts(i)'
    <2>1. \A i \in Rebuilds : i # j => rebuild'[i] = rebuild[i]
      BY DEF RollupInv, RollupShape
    <2>2. QED BY <2>1, RebuildStandsStill
  <1>3. QED BY <1>1, <1>2 DEF RollupInv, HistogramNotBehind, Drained

LEMMA RebuildGivesUp ==
    ASSUME RollupInv, NEW j \in Rebuilds, rebuild' = [rebuild EXCEPT ![j] = NoRebuild],
           UNCHANGED <<now, stamp, usage, buckets>>
    PROVE  RollupInv'
  <1>1. NoRebuild \in RebuildRecord
    BY DEF NoRebuild, RebuildRecord
  <1>2. rebuild'[j] = NoRebuild
    BY DEF RollupInv, RollupShape
  <1>3. Recounts(j)'
    BY <1>2 DEF Recounts, NoRebuild
  <1>4. QED BY <1>1, <1>3, RebuildMoves

LEMMA RebuildDeleteInv ==
    ASSUME RollupInv, NEW j \in Rebuilds, RebuildDelete(j)
    PROVE  RollupInv'
  <1> DEFINE gone == {r \in usage \cup buckets : Day(stamp[r]) >= Day(WindowStart(now))}
  <1>0. now \in Int /\ stamp \in [LedgerRows -> Int] /\ rebuild \in [Rebuilds -> RebuildRecord]
        /\ usage \subseteq LedgerRows /\ buckets \subseteq LedgerRows /\ WindowStart(now) \in Int
    BY WindowStartType DEF RollupInv, RollupShape
  <1>1. PICK v \in RebuildRecord :
          /\ v.stage = "deleted" /\ v.start = WindowStart(now) /\ v.seen = gone
          /\ v.usage = {} /\ v.buckets = {}
          /\ rebuild' = [rebuild EXCEPT ![j] = v]
    <2> DEFINE w == [NoRebuild EXCEPT !.stage = "deleted", !.start = WindowStart(now), !.seen = gone]
    <2>1. w \in RebuildRecord
      BY <1>0 DEF NoRebuild, RebuildRecord
    <2>2. w.stage = "deleted" /\ w.start = WindowStart(now) /\ w.seen = gone
          /\ w.usage = {} /\ w.buckets = {}
      BY DEF NoRebuild
    <2>3. rebuild' = [rebuild EXCEPT ![j] = w]
      BY DEF RebuildDelete
    <2>4. QED BY <2>1, <2>2, <2>3
  <1>2. UNCHANGED <<now, stamp, usage, buckets>>
    BY DEF RebuildDelete
  <1>3. rebuild'[j] = v
    BY <1>0, <1>1
  <1>4. gone \subseteq Counted(j)'
    <2> SUFFICES ASSUME NEW r \in gone PROVE r \in Counted(j)'
      OBVIOUS
    <2>1. r \in LedgerRows /\ r \in Drained /\ Day(stamp[r]) >= Day(WindowStart(now))
      BY <1>0 DEF RollupInv
    <2>2. stamp[r] >= WindowStart(now)
      BY <1>0, <2>1, DayOfWindow
    <2>3. QED BY <1>1, <1>2, <1>3, <2>1, <2>2 DEF Counted, Drained
  <1>5. Recounts(j)'
    BY <1>1, <1>3, <1>4 DEF Recounts
  <1>6. QED BY <1>1, <1>2, <1>5, RebuildMoves

LEMMA RebuildUsageInv ==
    ASSUME RollupInv, NEW j \in Rebuilds, RebuildUsage(j)
    PROVE  RollupInv'
  <1>0. rebuild \in [Rebuilds -> RebuildRecord] /\ rebuild[j] \in RebuildRecord
        /\ Recounts(j)
    BY DEF RollupInv, RollupShape
  <1>1. UNCHANGED <<now, stamp, usage, buckets>>
    BY DEF RebuildUsage
  <1>2. CASE Counted(j) \cap (usage \ rebuild[j].seen) # {}
    <2>1. rebuild' = [rebuild EXCEPT ![j] = NoRebuild]
      BY <1>2 DEF RebuildUsage
    <2>2. QED BY <1>1, <2>1, RebuildGivesUp
  <1>3. CASE Counted(j) \cap (usage \ rebuild[j].seen) = {}
    <2> DEFINE w == [rebuild[j] EXCEPT !.stage = "inserted", !.usage = Counted(j)]
    <2>1. w \in RebuildRecord
      BY <1>0 DEF RebuildRecord, Counted, Drained
    <2>2. w.stage = "inserted" /\ w.start = rebuild[j].start /\ w.seen = rebuild[j].seen
          /\ w.usage = Counted(j)
      BY <1>0 DEF RebuildRecord
    <2>3. rebuild' = [rebuild EXCEPT ![j] = w]
      BY <1>3 DEF RebuildUsage
    <2>4. rebuild'[j] = w
      BY <1>0, <2>3
    <2> HIDE DEF w
    <2>5. Counted(j)' = Counted(j)
      BY <1>1, <2>2, <2>4 DEF Counted, Drained
    <2>6. Recounts(j)'
      BY <1>0, <2>2, <2>4, <2>5 DEF Recounts
    <2>7. \E v \in RebuildRecord : rebuild' = [rebuild EXCEPT ![j] = v]
      BY <2>1, <2>3
    <2>8. QED BY <1>1, <2>6, <2>7, RebuildMoves
  <1>4. QED BY <1>2, <1>3

LEMMA RebuildBucketsInv ==
    ASSUME RollupInv, NEW j \in Rebuilds, RebuildBuckets(j)
    PROVE  RollupInv'
  <1>0. rebuild \in [Rebuilds -> RebuildRecord] /\ rebuild[j] \in RebuildRecord
        /\ Recounts(j) /\ rebuild[j].stage = "inserted"
    BY DEF RollupInv, RollupShape, RebuildBuckets
  <1>1. UNCHANGED <<now, stamp, usage, buckets>>
    BY DEF RebuildBuckets
  <1>2. CASE Counted(j) \cap (buckets \ rebuild[j].seen) # {}
    <2>1. rebuild' = [rebuild EXCEPT ![j] = NoRebuild]
      BY <1>2 DEF RebuildBuckets
    <2>2. QED BY <1>1, <2>1, RebuildGivesUp
  <1>3. CASE Counted(j) \cap (buckets \ rebuild[j].seen) = {}
    <2> DEFINE w == [rebuild[j] EXCEPT !.stage = "bucketed", !.buckets = Counted(j)]
    <2>1. w \in RebuildRecord
      BY <1>0 DEF RebuildRecord, Counted, Drained
    <2>2. w.stage = "bucketed" /\ w.start = rebuild[j].start /\ w.seen = rebuild[j].seen
          /\ w.usage = rebuild[j].usage /\ w.buckets = Counted(j)
      BY <1>0 DEF RebuildRecord
    <2>3. rebuild' = [rebuild EXCEPT ![j] = w]
      BY <1>3 DEF RebuildBuckets
    <2>4. rebuild'[j] = w
      BY <1>0, <2>3
    <2> HIDE DEF w
    <2>5. Counted(j)' = Counted(j)
      BY <1>1, <2>2, <2>4 DEF Counted, Drained
    <2>6. Recounts(j)'
      BY <1>0, <2>2, <2>4, <2>5 DEF Recounts
    <2>7. \E v \in RebuildRecord : rebuild' = [rebuild EXCEPT ![j] = v]
      BY <2>1, <2>3
    <2>8. QED BY <1>1, <2>6, <2>7, RebuildMoves
  <1>4. QED BY <1>2, <1>3

\* What a commit does to the tables and to the other jobs.
LEMMA RebuildCommitInv ==
    ASSUME RollupInv, NEW j \in Rebuilds, RebuildCommit(j)
    PROVE  /\ RollupInv'
           /\ usage \subseteq usage' /\ buckets \subseteq buckets'
  <1>0. /\ Recounts(j) /\ rebuild[j].stage = "bucketed" /\ rebuild[j] \in RebuildRecord
        /\ rebuild \in [Rebuilds -> RebuildRecord]
        /\ UNCHANGED <<now, stamp>>
        /\ usage' = (usage \ rebuild[j].seen) \cup rebuild[j].usage
        /\ buckets' = (buckets \ rebuild[j].seen) \cup rebuild[j].buckets
    BY DEF RollupInv, RollupShape, RebuildCommit
  <1>1. /\ rebuild[j].seen \subseteq rebuild[j].usage
        /\ rebuild[j].usage \subseteq rebuild[j].buckets
        /\ rebuild[j].buckets \subseteq Drained
    BY <1>0 DEF Recounts, Counted
  <1>2. usage \subseteq usage' /\ buckets \subseteq buckets'
    BY <1>0, <1>1
  <1>3. usage' \subseteq buckets' /\ usage' \subseteq Drained' /\ buckets' \subseteq Drained'
    BY <1>0, <1>1 DEF RollupInv, HistogramNotBehind, Drained
  <1>4. \A i \in Rebuilds \ {j} :
          /\ rebuild'[i] \in RebuildRecord
          /\ rebuild'[i].stage = rebuild[i].stage /\ rebuild'[i].start = rebuild[i].start
          /\ rebuild'[i].seen \subseteq rebuild[i].seen
          /\ rebuild'[i].usage = rebuild[i].usage /\ rebuild'[i].buckets = rebuild[i].buckets
    <2> SUFFICES ASSUME NEW i \in Rebuilds \ {j}
                 PROVE  /\ rebuild'[i] \in RebuildRecord
                        /\ rebuild'[i].stage = rebuild[i].stage /\ rebuild'[i].start = rebuild[i].start
                        /\ rebuild'[i].seen \subseteq rebuild[i].seen
                        /\ rebuild'[i].usage = rebuild[i].usage
                        /\ rebuild'[i].buckets = rebuild[i].buckets
      OBVIOUS
    <2>1. rebuild'[i] = [rebuild[i] EXCEPT !.seen = rebuild[i].seen \ rebuild[j].buckets]
      BY DEF RebuildCommit
    <2>2. rebuild[i] \in RebuildRecord
      BY <1>0
    <2>3. QED BY <2>1, <2>2 DEF RebuildRecord
  <1>5. rebuild'[j] = NoRebuild /\ NoRebuild \in RebuildRecord
    BY DEF RebuildCommit, NoRebuild, RebuildRecord
  <1>6. RollupShape'
    <2>1. rebuild' \in [Rebuilds -> RebuildRecord]
      <3>1. \A i \in Rebuilds : rebuild'[i] \in RebuildRecord
        BY <1>4, <1>5
      <3>2. rebuild' = [i \in Rebuilds |-> rebuild'[i]]
        BY DEF RebuildCommit
      <3>3. QED BY <3>1, <3>2
    <2>2. usage' \in SUBSET LedgerRows /\ buckets' \in SUBSET LedgerRows
      BY <1>0 DEF RollupInv, RollupShape, RebuildRecord
    <2>3. QED BY <1>0, <2>1, <2>2 DEF RollupInv, RollupShape
  <1>7. ASSUME NEW i \in Rebuilds PROVE Recounts(i)'
    <2>1. CASE i = j
      BY <1>5, <2>1 DEF Recounts, NoRebuild
    <2>2. CASE i # j
      <3>1. Counted(i)' = Counted(i)
        BY <1>0, <1>4, <2>2 DEF Counted, Drained
      <3>2. Recounts(i)
        BY DEF RollupInv
      <3>3. QED BY <1>4, <2>2, <3>1, <3>2 DEF Recounts
    <2>3. QED BY <2>1, <2>2
  <1>8. QED BY <1>2, <1>3, <1>6, <1>7 DEF RollupInv, HistogramNotBehind

LEMMA RowArrivalInv ==
    ASSUME RollupInv, NEW r \in LedgerRows, RowArrives(r)
    PROVE  RollupInv'
  <1>0. now \in Int /\ stamp \in [LedgerRows -> Int]
    BY DEF RollupInv, RollupShape
  <1>1. PICK t \in 0 .. now : stamp' = [stamp EXCEPT ![r] = t]
    BY DEF RowArrives
  <1>2. stamp[r] = -1 /\ UNCHANGED <<now, usage, buckets, rebuild>>
    BY DEF RowArrives
  <1>3. r \notin Drained /\ \A q \in Drained : stamp'[q] = stamp[q]
    BY <1>0, <1>1, <1>2 DEF Drained
  <1>4. Drained \subseteq Drained'
    BY <1>3 DEF Drained
  <1>5. RollupShape'
    BY <1>0, <1>1, <1>2 DEF RollupInv, RollupShape
  <1>6. \A j \in Rebuilds : Recounts(j)'
    BY <1>2, <1>3, RebuildStandsStill
  <1>7. QED BY <1>2, <1>4, <1>5, <1>6 DEF RollupInv, HistogramNotBehind

LEMMA RollupInvNext == RollupInv /\ [RollupNext]_rollupVars => RollupInv'
  <1> SUFFICES ASSUME RollupInv, [RollupNext]_rollupVars PROVE RollupInv'
    OBVIOUS
  <1>1. ASSUME NEW j \in Rebuilds, RebuildStep(j) PROVE RollupInv'
    BY <1>1, RebuildDeleteInv, RebuildUsageInv, RebuildBucketsInv, RebuildCommitInv DEF RebuildStep
  <1>2. ASSUME NEW j \in Rebuilds, RebuildFails(j) PROVE RollupInv'
    BY <1>2, RebuildGivesUp DEF RebuildFails
  <1>3. ASSUME NEW r \in LedgerRows, RowArrives(r) PROVE RollupInv'
    BY <1>3, RowArrivalInv
  <1>4. CASE RollupTick
    <2>1. now' \in Int /\ UNCHANGED <<stamp, usage, buckets, rebuild>>
      BY <1>4 DEF RollupTick, RollupInv, RollupShape
    <2>2. \A j \in Rebuilds : Recounts(j)'
      BY <2>1, RebuildStandsStill
    <2>3. QED BY <2>1, <2>2 DEF RollupInv, RollupShape, HistogramNotBehind, Drained
  <1>5. CASE UNCHANGED rollupVars
    <2>1. UNCHANGED <<now, stamp, usage, buckets, rebuild>>
      BY <1>5 DEF rollupVars
    <2>2. \A j \in Rebuilds : Recounts(j)'
      BY <2>1, RebuildStandsStill
    <2>3. QED BY <2>1, <2>2 DEF RollupInv, RollupShape, HistogramNotBehind, Drained
  <1>6. QED BY <1>1, <1>2, <1>3, <1>4, <1>5 DEF RollupNext

\* The part of the specification without its fairness.
RollupSafety == RollupInit /\ [][RollupNext]_rollupVars

LEMMA RollupInvHolds == RollupSafety => []RollupInv
  BY RollupInvInit, RollupInvNext, PTL DEF RollupSafety

\* A request in the spend figures is in the histogram as well.
THEOREM HistogramKeepsUp == RollupSpec => []HistogramNotBehind
<1>1. RollupInv => HistogramNotBehind
  BY DEF RollupInv
<1>2. RollupSpec => RollupSafety
  BY PTL DEF RollupSpec, RollupSafety
<1>3. QED BY <1>1, <1>2, RollupInvHolds, PTL

\* What has been counted stays counted, through overlapping and failing jobs
\* and the window's move over midnight.
THEOREM CountedStaysCounted == RollupSpec => NeverForgets
<1>1. RollupInv /\ [RollupNext]_rollupVars
        => [usage \subseteq usage' /\ buckets \subseteq buckets']_rollupVars
  <2> SUFFICES ASSUME RollupInv, RollupNext PROVE usage \subseteq usage' /\ buckets \subseteq buckets'
    OBVIOUS
  <2>1. ASSUME NEW j \in Rebuilds, RebuildCommit(j)
        PROVE  usage \subseteq usage' /\ buckets \subseteq buckets'
    BY <2>1, RebuildCommitInv
  <2>2. CASE usage' = usage /\ buckets' = buckets
    BY <2>2
  <2>3. QED BY <2>1, <2>2 DEF RollupNext, RebuildStep, RebuildDelete, RebuildUsage,
                  RebuildBuckets, RebuildFails, RowArrives, RollupTick
<1>2. RollupSpec => RollupSafety
  BY PTL DEF RollupSpec, RollupSafety
<1>3. QED BY <1>1, <1>2, RollupInvHolds, PTL DEF RollupSafety, NeverForgets

-----------------------------------------------------------------------------
(* The semantic cache.                                                      *)

CacheEntry == [stage : EntryStages, left : 0 .. EntryTTL]
WipeRecord == [stage : {"idle", "deleted", "swept", "unswept"}, doomed : SUBSET Entries]
HitRecord == [found : 0 .. MaxHits, due : Calls, recorded : Calls, buffered : Calls, applied : Calls]
FlushRecord == [stage : {"idle", "read", "deleted"}, taken : [Entries -> Calls]]

\* An invalidation has only committed rows in hand, and has them for itself: a
\* store's row is not committed yet, and whoever writes rows waits.
DoomedRows ==
    /\ \A w \in Wipes : wipe[w].doomed \subseteq Rows
    /\ \A v, w \in Wipes : v # w => wipe[v].doomed = {} \/ wipe[w].doomed = {}

\* What a successful sweep has taken out of Redis does not come back.
SweptOut ==
    /\ \A w \in Wipes : wipe[w].stage = "swept" => wipe[w].doomed \cap redisEntry.of = {}
    /\ \A e \in Entries : entry[e].stage = "withdrawn" => e \notin redisEntry.of

RowsInv ==
    /\ entry \in [Entries -> CacheEntry]
    /\ redisEntry \in [of : SUBSET Entries, left : 0 .. EntryTTL] /\ Cardinality(redisEntry.of) <= 1
    /\ wipe \in [Wipes -> WipeRecord]
    /\ DoomedRows /\ SweptOut

\* Until the DELETE, Redis still has what the job has read; a lookup that finds
\* an entry calls record_hit twice at most.
HitsInv ==
    /\ hits \in [Entries -> HitRecord]
    /\ flush \in FlushRecord
    /\ flush.stage = "read" => \A e \in Entries : flush.taken[e] <= hits[e].buffered
    /\ \A e \in Entries : hits[e].recorded + hits[e].due <= 2 * hits[e].found
    /\ CountsNotDoubled

CacheInv == RowsInv /\ HitsInv

----------------------------------------------------------------------------
LEMMA NoFlushRecord == NoFlush \in FlushRecord /\ NoFlush.stage = "idle"
  BY MaxHitsAssumption DEF NoFlush, FlushRecord, Calls

LEMMA CacheInvInit == SemanticCacheInit => CacheInv
<1> SUFFICES ASSUME SemanticCacheInit PROVE CacheInv
  OBVIOUS
<1>1. entry \in [Entries -> CacheEntry] /\ \A e \in Entries : entry[e].stage = "unused"
  BY EntryTTLAssumption DEF SemanticCacheInit, CacheEntry, EntryStages
<1>2. /\ redisEntry = [of |-> {}, left |-> 0] /\ redisEntry \in [of : SUBSET Entries, left : 0 .. EntryTTL]
      /\ Cardinality(redisEntry.of) <= 1
  BY EntryTTLAssumption, FS_EmptySet DEF SemanticCacheInit
<1>3. wipe \in [Wipes -> WipeRecord] /\ \A w \in Wipes : wipe[w].doomed = {} /\ wipe[w].stage = "idle"
  BY DEF SemanticCacheInit, NoWipe, WipeRecord
<1>4. RowsInv
  BY <1>1, <1>2, <1>3 DEF RowsInv, DoomedRows, SweptOut
<1>5. /\ hits \in [Entries -> HitRecord]
      /\ \A e \in Entries : /\ hits[e].recorded = 0 /\ hits[e].buffered = 0 /\ hits[e].applied = 0
                            /\ hits[e].found = 0 /\ hits[e].due = 0
  BY MaxHitsAssumption DEF SemanticCacheInit, HitRecord, Calls
<1>6. flush \in FlushRecord /\ flush.stage = "idle"
  BY NoFlushRecord DEF SemanticCacheInit
<1>7. HitsInv
  BY <1>5, <1>6 DEF HitsInv, CountsNotDoubled
<1>8. QED BY <1>4, <1>7 DEF CacheInv

----------------------------------------------------------------------------
(* The rows and the Redis entry.                                            *)

\* A store writes its own row, which nobody can have deleted before its commit.
LEMMA StoreRows ==
    ASSUME RowsInv, NEW e \in Entries,
           StoreInsert(e) \/ StoreIndex(e) \/ StoreCommit(e) \/ StoreFails(e)
    PROVE  RowsInv'
<1>1. /\ entry[e].stage \in {"unused", "inserted", "indexed"} /\ wipe' = wipe
      /\ \A d \in Entries : d # e => entry'[d] = entry[d]
      /\ entry'[e].stage \in {"inserted", "indexed", "stored", "lost"}
      /\ entry' \in [Entries -> CacheEntry]
      /\ redisEntry' = redisEntry \/ redisEntry' = [of |-> {e}, left |-> EntryTTL]
  BY EntryTTLAssumption DEF StoreInsert, StoreIndex, StoreCommit, StoreFails, RowsInv, CacheEntry, EntryStages
<1>2. redisEntry' \in [of : SUBSET Entries, left : 0 .. EntryTTL] /\ Cardinality(redisEntry'.of) <= 1
  <2>1. redisEntry' \in [of : SUBSET Entries, left : 0 .. EntryTTL]
    BY <1>1, EntryTTLAssumption DEF RowsInv
  <2>2. redisEntry'.of = redisEntry.of \/ redisEntry'.of = {e}
    BY <1>1
  <2>3. Cardinality({e}) = 1
    BY FS_Singleton
  <2>4. QED BY <2>1, <2>2, <2>3 DEF RowsInv
<1>3. redisEntry'.of \subseteq redisEntry.of \cup {e}
  BY <1>1 DEF RowsInv
<1>4. e \notin Rows /\ Rows \subseteq Rows'
  BY <1>1 DEF Rows
<1>5. DoomedRows'
  BY <1>1, <1>4 DEF RowsInv, DoomedRows
<1>6. SweptOut'
  BY <1>1, <1>3, <1>4 DEF RowsInv, DoomedRows, SweptOut
<1>7. QED BY <1>1, <1>2, <1>5, <1>6 DEF RowsInv

LEMMA WipeStepRows ==
    ASSUME RowsInv, NEW w \in Wipes, WipeRows(w) \/ WipeIndex(w) \/ WipeFails(w)
    PROVE  RowsInv'
<1>1. entry' = entry /\ Rows' = Rows
  BY DEF WipeRows, WipeIndex, WipeFails, Rows
<1>2. NoWipe \in WipeRecord /\ NoWipe.stage = "idle" /\ NoWipe.doomed = {}
  BY DEF NoWipe, WipeRecord
<1>3. CASE WipeRows(w)
  <2>1. /\ redisEntry' = redisEntry
        /\ wipe' = [wipe EXCEPT ![w] = [stage |-> "deleted", doomed |-> Rows]]
        /\ \A v \in Wipes : wipe[v].doomed = {}
    BY <1>3 DEF WipeRows
  <2>2. [stage |-> "deleted", doomed |-> Rows] \in WipeRecord
    BY DEF WipeRecord, Rows
  <2>3. wipe' \in [Wipes -> WipeRecord]
    BY <2>1, <2>2 DEF RowsInv
  <2>4. /\ wipe'[w].doomed = Rows /\ wipe'[w].stage = "deleted"
        /\ \A v \in Wipes : v # w => wipe'[v] = wipe[v]
    BY <2>1 DEF RowsInv
  <2>5. DoomedRows' /\ SweptOut'
    BY <1>1, <2>1, <2>4 DEF RowsInv, DoomedRows, SweptOut
  <2>6. QED BY <1>1, <2>1, <2>3, <2>5 DEF RowsInv
<1>4. CASE WipeIndex(w)
  <2>1. /\ wipe' \in [Wipes -> WipeRecord]
        /\ \A v \in Wipes : wipe'[v].doomed = wipe[v].doomed
        /\ \A v \in Wipes : v # w => wipe'[v] = wipe[v]
    BY <1>4 DEF WipeIndex, RowsInv, WipeRecord
  <2>2. \/ redisEntry' = [of |-> {}, left |-> 0]
        \/ redisEntry' = redisEntry /\ wipe'[w].stage = "unswept"
    BY <1>4 DEF WipeIndex, RowsInv, WipeRecord
  <2>3. /\ redisEntry' \in [of : SUBSET Entries, left : 0 .. EntryTTL] /\ Cardinality(redisEntry'.of) <= 1
        /\ redisEntry'.of \subseteq redisEntry.of /\ (redisEntry'.of = {} \/ wipe'[w].stage = "unswept")
    <3>1. redisEntry' \in [of : SUBSET Entries, left : 0 .. EntryTTL]
      BY <2>2, EntryTTLAssumption DEF RowsInv
    <3>2. redisEntry'.of = {} \/ (redisEntry'.of = redisEntry.of /\ wipe'[w].stage = "unswept")
      BY <2>2
    <3>3. Cardinality({}) = 0
      BY FS_EmptySet
    <3>4. QED BY <3>1, <3>2, <3>3 DEF RowsInv
  <2>4. DoomedRows'
    BY <1>1, <2>1 DEF RowsInv, DoomedRows
  <2>5. SweptOut'
    BY <1>1, <2>1, <2>3 DEF RowsInv, SweptOut
  <2>6. QED BY <1>1, <2>1, <2>3, <2>4, <2>5 DEF RowsInv
<1>5. CASE WipeFails(w)
  <2>1. /\ redisEntry' = redisEntry /\ wipe' \in [Wipes -> WipeRecord]
        /\ wipe'[w] = NoWipe /\ \A v \in Wipes : v # w => wipe'[v] = wipe[v]
    BY <1>2, <1>5 DEF WipeFails, RowsInv
  <2>2. DoomedRows' /\ SweptOut'
    BY <1>1, <1>2, <2>1 DEF RowsInv, DoomedRows, SweptOut
  <2>3. QED BY <1>1, <2>1, <2>2 DEF RowsInv
<1>6. QED BY <1>3, <1>4, <1>5

LEMMA WipeCommitRows ==
    ASSUME RowsInv, NEW w \in Wipes, WipeCommit(w)
    PROVE  RowsInv'
<1>1. /\ redisEntry' = redisEntry /\ wipe[w].stage \in {"swept", "unswept"}
      /\ wipe' = [wipe EXCEPT ![w] = NoWipe]
  BY DEF WipeCommit
<1>2. NoWipe \in WipeRecord /\ NoWipe.stage = "idle" /\ NoWipe.doomed = {}
  BY DEF NoWipe, WipeRecord
<1>3. wipe' \in [Wipes -> WipeRecord] /\ wipe'[w] = NoWipe /\ \A v \in Wipes : v # w => wipe'[v] = wipe[v]
  BY <1>1, <1>2 DEF RowsInv
<1>4. /\ \A e \in Entries : e \notin wipe[w].doomed => entry'[e] = entry[e]
      /\ \A e \in wipe[w].doomed : entry'[e].stage = "withdrawn" => wipe[w].stage = "swept"
      /\ entry' \in [Entries -> CacheEntry]
  BY DEF WipeCommit, RowsInv, CacheEntry, EntryStages, WipeRecord
<1>5. DoomedRows'
  <2>1. ASSUME NEW v \in Wipes PROVE wipe'[v].doomed \subseteq Rows'
    <3>1. CASE v = w
      BY <1>2, <1>3, <3>1
    <3>2. CASE v # w
      <4>1. wipe[v].doomed \subseteq Rows /\ (wipe[v].doomed = {} \/ wipe[w].doomed = {})
        BY <3>2 DEF RowsInv, DoomedRows
      <4>2. \A e \in wipe[v].doomed : e \in Entries /\ entry'[e] = entry[e]
        BY <1>4, <4>1 DEF Rows
      <4>3. QED BY <1>3, <3>2, <4>1, <4>2 DEF Rows
    <3>3. QED BY <3>1, <3>2
  <2>2. QED BY <1>2, <1>3, <2>1 DEF RowsInv, DoomedRows
<1>6. SweptOut'
  <2>1. ASSUME NEW e \in Entries, entry'[e].stage = "withdrawn" PROVE e \notin redisEntry.of
    <3>1. CASE e \in wipe[w].doomed
      BY <1>4, <2>1, <3>1 DEF RowsInv, SweptOut
    <3>2. CASE e \notin wipe[w].doomed
      BY <1>4, <2>1, <3>2 DEF RowsInv, SweptOut
    <3>3. QED BY <3>1, <3>2
  <2>2. QED BY <1>1, <1>2, <1>3, <2>1 DEF RowsInv, SweptOut
<1>7. QED BY <1>1, <1>3, <1>4, <1>5, <1>6 DEF RowsInv

\* The purge waits for the invalidations: it takes no row out of their hands.
LEMMA PurgeRows ==
    ASSUME RowsInv, FlushCommit \/ PurgeExpired
    PROVE  RowsInv'
<1>1. /\ redisEntry' = redisEntry /\ wipe' = wipe /\ \A w \in Wipes : wipe[w].doomed = {}
      /\ entry' = [e \in Entries |-> IF Expired(e) THEN [entry[e] EXCEPT !.stage = "purged"] ELSE entry[e]]
  BY DEF FlushCommit, PurgeExpired
<1>2. entry' \in [Entries -> CacheEntry] /\ \A e \in Entries : entry'[e].stage \in {"purged", entry[e].stage}
  BY <1>1 DEF RowsInv, CacheEntry, EntryStages
<1>3. DoomedRows' /\ SweptOut'
  BY <1>1, <1>2 DEF RowsInv, DoomedRows, SweptOut
<1>4. QED BY <1>1, <1>2, <1>3 DEF RowsInv

LEMMA CacheTickRows ==
    ASSUME RowsInv, CacheTick
    PROVE  RowsInv'
<1>1. wipe' = wipe
  BY DEF CacheTick
<1>2. /\ entry' \in [Entries -> CacheEntry]
      /\ \A e \in Entries : entry'[e].stage = entry[e].stage
  <2>1. entry' = [e \in Entries |-> [entry[e] EXCEPT !.left = IF entry[e].left = 0 THEN 0 ELSE entry[e].left - 1]]
    BY DEF CacheTick
  <2>2. ASSUME NEW c \in CacheEntry
        PROVE  /\ [c EXCEPT !.left = IF c.left = 0 THEN 0 ELSE c.left - 1] \in CacheEntry
               /\ [c EXCEPT !.left = IF c.left = 0 THEN 0 ELSE c.left - 1].stage = c.stage
    BY EntryTTLAssumption DEF CacheEntry
  <2>3. \A e \in Entries : entry[e] \in CacheEntry
    BY DEF RowsInv
  <2>4. QED BY <2>1, <2>2, <2>3
<1>3. /\ redisEntry' \in [of : SUBSET Entries, left : 0 .. EntryTTL] /\ redisEntry'.of \subseteq redisEntry.of
      /\ redisEntry'.of = redisEntry.of \/ redisEntry'.of = {}
  BY EntryTTLAssumption DEF CacheTick, RowsInv
<1>4. Cardinality(redisEntry'.of) <= 1
  BY <1>3, FS_EmptySet DEF RowsInv
<1>5. Rows' = Rows
  BY <1>2 DEF Rows
<1>6. DoomedRows' /\ SweptOut'
  BY <1>1, <1>2, <1>3, <1>5 DEF RowsInv, DoomedRows, SweptOut
<1>7. QED BY <1>1, <1>2, <1>3, <1>4, <1>6 DEF RowsInv

----------------------------------------------------------------------------
(* The counters.                                                            *)

\* What any step may do to the counts of an entry, its hits taken into account.
LEMMA HitsBound ==
    ASSUME HitsInv
    PROVE  \A e \in Entries :
             /\ hits[e].found \in 0 .. MaxHits /\ hits[e].due \in Nat /\ hits[e].recorded \in Nat
             /\ hits[e].buffered \in Nat /\ hits[e].applied \in Nat /\ flush.taken[e] \in Nat
             /\ hits[e].recorded + hits[e].due <= 2 * hits[e].found
             /\ hits[e].applied + hits[e].buffered <= hits[e].recorded
             /\ flush.stage = "deleted" =>
                  hits[e].applied + hits[e].buffered + flush.taken[e] <= hits[e].recorded
  BY MaxHitsAssumption DEF HitsInv, CountsNotDoubled, HitRecord, FlushRecord, Calls

\* A record of counts within its bounds.
LEMMA HitRecordType ==
    ASSUME NEW h, NEW found \in 0 .. MaxHits, NEW due \in Nat, NEW recorded \in Nat,
           NEW buffered \in Nat, NEW applied \in Nat,
           h = [found |-> found, due |-> due, recorded |-> recorded,
                buffered |-> buffered, applied |-> applied],
           recorded + due <= 2 * found, applied + buffered <= recorded
    PROVE  h \in HitRecord
<1>1. due \in Calls /\ recorded \in Calls /\ buffered \in Calls /\ applied \in Calls
  BY MaxHitsAssumption DEF Calls
<1>2. QED BY <1>1 DEF HitRecord

LEMMA FoundHits ==
    ASSUME HitsInv, NEW e \in Entries, NEW owed \in {1, 2}, Found(e, owed)
    PROVE  HitsInv'
<1>1. hits' = [hits EXCEPT ![e] = [found |-> hits[e].found + 1, due |-> hits[e].due + owed,
                                   recorded |-> hits[e].recorded, buffered |-> hits[e].buffered,
                                   applied |-> hits[e].applied]]
  BY DEF Found
<1>2. /\ hits[e].found + 1 \in 0 .. MaxHits /\ hits[e].due + owed \in Nat
      /\ hits[e].recorded + (hits[e].due + owed) <= 2 * (hits[e].found + 1)
  BY HitsBound, MaxHitsAssumption DEF Found
<1>3. hits' \in [Entries -> HitRecord]
  <2>1. [found |-> hits[e].found + 1, due |-> hits[e].due + owed, recorded |-> hits[e].recorded,
         buffered |-> hits[e].buffered, applied |-> hits[e].applied] \in HitRecord
    BY <1>2, HitsBound, HitRecordType
  <2>2. QED BY <1>1, <2>1 DEF HitsInv
<1>4. /\ \A d \in Entries : d # e => hits'[d] = hits[d]
      /\ hits'[e].found = hits[e].found + 1 /\ hits'[e].due = hits[e].due + owed
      /\ hits'[e].recorded = hits[e].recorded /\ hits'[e].buffered = hits[e].buffered
      /\ hits'[e].applied = hits[e].applied /\ flush' = flush
  BY <1>1 DEF Found, HitsInv
<1>5. \A d \in Entries : hits'[d].recorded + hits'[d].due <= 2 * hits'[d].found
  BY <1>2, <1>4, HitsBound
<1>6. CountsNotDoubled'
  BY <1>4 DEF HitsInv, CountsNotDoubled
<1>7. flush'.stage = "read" => \A d \in Entries : flush'.taken[d] <= hits'[d].buffered
  BY <1>4 DEF HitsInv
<1>8. QED BY <1>3, <1>4, <1>5, <1>6, <1>7 DEF HitsInv

LEMMA RecordHitHits ==
    ASSUME HitsInv, NEW e \in Entries, RecordHit(e)
    PROVE  HitsInv'
<1>1. PICK n \in {0, 1} :
         hits' = [hits EXCEPT ![e] = [found |-> hits[e].found, due |-> hits[e].due - 1,
                                      recorded |-> hits[e].recorded + 1,
                                      buffered |-> hits[e].buffered + n,
                                      applied |-> hits[e].applied]]
  BY DEF RecordHit
<1>2. /\ hits[e].due - 1 \in Nat /\ hits[e].recorded + 1 \in Nat /\ hits[e].buffered + n \in Nat
      /\ (hits[e].recorded + 1) + (hits[e].due - 1) <= 2 * hits[e].found
      /\ hits[e].applied + (hits[e].buffered + n) <= hits[e].recorded + 1
  BY HitsBound DEF RecordHit
<1>3. hits' \in [Entries -> HitRecord]
  <2>1. [found |-> hits[e].found, due |-> hits[e].due - 1, recorded |-> hits[e].recorded + 1,
         buffered |-> hits[e].buffered + n, applied |-> hits[e].applied] \in HitRecord
    BY <1>2, HitsBound, HitRecordType
  <2>2. QED BY <1>1, <2>1 DEF HitsInv
<1>4. /\ \A d \in Entries : d # e => hits'[d] = hits[d]
      /\ hits'[e].found = hits[e].found /\ hits'[e].due = hits[e].due - 1
      /\ hits'[e].recorded = hits[e].recorded + 1 /\ hits'[e].buffered = hits[e].buffered + n
      /\ hits'[e].applied = hits[e].applied /\ flush' = flush
  BY <1>1 DEF RecordHit, HitsInv
<1>5. \A d \in Entries : hits'[d].recorded + hits'[d].due <= 2 * hits'[d].found
  BY <1>2, <1>4, HitsBound
<1>6. \A d \in Entries : hits'[d].buffered >= hits[d].buffered
  BY <1>4, HitsBound
<1>7. flush'.stage = "read" => \A d \in Entries : flush'.taken[d] <= hits'[d].buffered
  BY <1>4, <1>6, HitsBound DEF HitsInv
<1>8. CountsNotDoubled'
  BY <1>4, HitsBound DEF HitsInv, CountsNotDoubled
<1>9. QED BY <1>3, <1>4, <1>5, <1>7, <1>8 DEF HitsInv

LEMMA FlushHits ==
    ASSUME HitsInv, FlushRead \/ FlushDelete \/ FlushDeleteFails \/ FlushCommit \/ FlushFails
    PROVE  HitsInv'
<1>0. ASSUME \A e \in Entries : /\ hits'[e].found = hits[e].found /\ hits'[e].due = hits[e].due
                                /\ hits'[e].recorded = hits[e].recorded
      PROVE  \A e \in Entries : hits'[e].recorded + hits'[e].due <= 2 * hits'[e].found
  BY <1>0, HitsBound
<1>1. CASE FlushRead
  <2>1. /\ hits' = hits /\ flush'.stage = "read" /\ \A e \in Entries : flush'.taken[e] = hits[e].buffered
        /\ flush' = [stage |-> "read", taken |-> [e \in Entries |-> hits[e].buffered]]
    BY <1>1 DEF FlushRead
  <2>2. flush' \in FlushRecord
    BY <2>1 DEF HitsInv, HitRecord, FlushRecord
  <2>3. CountsNotDoubled'
    BY <2>1, HitsBound DEF CountsNotDoubled
  <2>4. QED BY <2>1, <2>2, <2>3, HitsBound DEF HitsInv
<1>2. CASE FlushDelete
  <2>1. /\ hits' = [e \in Entries |-> [hits[e] EXCEPT !.buffered = 0]] /\ flush.stage = "read"
        /\ flush' = [flush EXCEPT !.stage = "deleted"]
    BY <1>2 DEF FlushDelete
  <2>2. /\ hits' \in [Entries -> HitRecord]
        /\ \A e \in Entries : /\ hits'[e].buffered = 0 /\ hits'[e].applied = hits[e].applied
                              /\ hits'[e].recorded = hits[e].recorded
                              /\ hits'[e].found = hits[e].found /\ hits'[e].due = hits[e].due
    BY <2>1, MaxHitsAssumption DEF HitsInv, HitRecord, Calls
  <2>3. flush' \in FlushRecord /\ flush'.stage = "deleted" /\ flush'.taken = flush.taken
    BY <2>1 DEF HitsInv, FlushRecord
  <2>4. \A e \in Entries : flush.taken[e] <= hits[e].buffered
    BY <2>1 DEF HitsInv
  <2>5. CountsNotDoubled'
    BY <2>2, <2>3, <2>4, HitsBound DEF CountsNotDoubled
  <2>6. QED BY <1>0, <2>2, <2>3, <2>5 DEF HitsInv
<1>3. CASE FlushDeleteFails
  <2>1. /\ hits' = hits \/ hits' = [e \in Entries |-> [hits[e] EXCEPT !.buffered = 0]]
        /\ flush' = NoFlush
    BY <1>3 DEF FlushDeleteFails
  <2>2. /\ hits' \in [Entries -> HitRecord]
        /\ \A e \in Entries : /\ hits'[e].buffered \in {0, hits[e].buffered}
                              /\ hits'[e].applied = hits[e].applied /\ hits'[e].recorded = hits[e].recorded
                              /\ hits'[e].found = hits[e].found /\ hits'[e].due = hits[e].due
    BY <2>1, MaxHitsAssumption DEF HitsInv, HitRecord, Calls
  <2>3. CountsNotDoubled'
    BY <2>1, <2>2, HitsBound, NoFlushRecord DEF CountsNotDoubled
  <2>4. QED BY <1>0, <2>1, <2>2, <2>3, NoFlushRecord DEF HitsInv
<1>4. CASE FlushCommit
  <2>1. /\ flush.stage = "deleted" /\ flush' = NoFlush
        /\ hits' = [e \in Entries |-> IF e \in Rows THEN [hits[e] EXCEPT !.applied = @ + flush.taken[e]]
                                      ELSE hits[e]]
    BY <1>4 DEF FlushCommit
  <2>2. \A e \in Entries : /\ hits'[e].buffered = hits[e].buffered /\ hits'[e].recorded = hits[e].recorded
                           /\ hits'[e].applied \in {hits[e].applied, hits[e].applied + flush.taken[e]}
                           /\ hits'[e].found = hits[e].found /\ hits'[e].due = hits[e].due
    BY <2>1 DEF HitsInv, HitRecord
  <2>3. hits' \in [Entries -> HitRecord]
    <3>1. \A e \in Entries : hits[e].applied + flush.taken[e] \in Calls
      BY <2>1, HitsBound, MaxHitsAssumption DEF Calls
    <3>2. QED BY <2>1, <3>1 DEF HitsInv, HitRecord
  <2>4. \A e \in Entries : hits'[e].applied + hits'[e].buffered <= hits'[e].recorded
    BY <2>1, <2>2, HitsBound
  <2>5. CountsNotDoubled'
    <3>1. \A e \in Entries : hits'[e].applied \in Nat /\ hits'[e].buffered \in Nat
      BY <2>3, MaxHitsAssumption DEF HitRecord, Calls
    <3>2. flush'.stage # "deleted"
      BY <2>1, NoFlushRecord
    <3>3. QED BY <2>4, <3>1, <3>2 DEF CountsNotDoubled
  <2>6. QED BY <1>0, <2>1, <2>2, <2>3, <2>5, NoFlushRecord DEF HitsInv
<1>5. CASE FlushFails
  <2>1. hits' = hits /\ flush' = NoFlush
    BY <1>5 DEF FlushFails
  <2>2. CountsNotDoubled'
    BY <2>1, HitsBound, NoFlushRecord DEF CountsNotDoubled
  <2>3. QED BY <2>1, <2>2, NoFlushRecord DEF HitsInv
<1>6. QED BY <1>1, <1>2, <1>3, <1>4, <1>5

LEMMA CacheInvHolds == SemanticCacheSpec => []CacheInv
<1>1. CacheInv /\ [SemanticCacheNext]_cacheVars => CacheInv'
  <2> SUFFICES ASSUME CacheInv, [SemanticCacheNext]_cacheVars PROVE CacheInv'
    OBVIOUS
  <2>0. RowsInv /\ HitsInv
    BY DEF CacheInv
  <2>1. ASSUME UNCHANGED <<entry, redisEntry, wipe>> PROVE RowsInv'
    BY <2>0, <2>1 DEF RowsInv, DoomedRows, SweptOut, Rows
  <2>2. ASSUME UNCHANGED <<hits, flush>> PROVE HitsInv'
    BY <2>0, <2>2 DEF HitsInv, CountsNotDoubled
  <2>3. CASE \E e \in Entries : StoreInsert(e) \/ StoreIndex(e) \/ StoreCommit(e) \/ StoreFails(e)
    BY <2>0, <2>2, <2>3, StoreRows DEF CacheInv, StoreInsert, StoreIndex, StoreCommit, StoreFails
  <2>4. CASE \E e \in Entries : FindExact(e) \/ FindSimilar(e) \/ RecordHit(e)
    <3>1. ASSUME NEW e \in Entries, FindExact(e) \/ FindSimilar(e) PROVE CacheInv'
      <4>1. PICK owed \in {1, 2} : Found(e, owed)
        BY <3>1 DEF FindExact, FindSimilar
      <4>2. QED BY <2>0, <2>1, <4>1, FoundHits DEF CacheInv, Found
    <3>2. ASSUME NEW e \in Entries, RecordHit(e) PROVE CacheInv'
      BY <2>0, <2>1, <3>2, RecordHitHits DEF CacheInv, RecordHit
    <3>3. QED BY <2>4, <3>1, <3>2
  <2>5. CASE \E w \in Wipes : WipeRows(w) \/ WipeIndex(w) \/ WipeFails(w)
    BY <2>0, <2>2, <2>5, WipeStepRows DEF CacheInv, WipeRows, WipeIndex, WipeFails
  <2>6. CASE \E w \in Wipes : WipeCommit(w)
    BY <2>0, <2>2, <2>6, WipeCommitRows DEF CacheInv, WipeCommit
  <2>7. CASE FlushRead \/ FlushDelete \/ FlushDeleteFails \/ FlushFails
    BY <2>0, <2>1, <2>7, FlushHits DEF CacheInv, FlushRead, FlushDelete, FlushDeleteFails, FlushFails
  <2>8. CASE FlushCommit
    BY <2>0, <2>8, FlushHits, PurgeRows DEF CacheInv
  <2>9. CASE PurgeExpired
    BY <2>0, <2>2, <2>9, PurgeRows DEF CacheInv, PurgeExpired
  <2>10. CASE CacheTick
    BY <2>0, <2>2, <2>10, CacheTickRows DEF CacheInv, CacheTick
  <2>11. CASE UNCHANGED cacheVars
    BY <2>1, <2>2, <2>11 DEF CacheInv, cacheVars
  <2>12. QED
    BY <2>3, <2>4, <2>5, <2>6, <2>7, <2>8, <2>9, <2>10, <2>11 DEF SemanticCacheNext
<1>2. QED BY <1>1, CacheInvInit, PTL DEF SemanticCacheSpec

\* However stores, invalidations, expiry and the maintenance job interleave and
\* fail: an answer that a successful invalidation removed is not served again.
THEOREM InvalidationIsFinal == SemanticCacheSpec => []WithdrawnStaysWithdrawn
<1>1. CacheInv => WithdrawnStaysWithdrawn
  BY DEF CacheInv, RowsInv, SweptOut, WithdrawnStaysWithdrawn, Servable, OnExactPath, OnSimilarPath, Rows
<1>2. QED BY <1>1, CacheInvHolds, PTL

\* What a row counts was recorded, each call of record_hit once at most, wherever
\* the job that folds the counts is cut short.
THEOREM CallsAreNotDoubled == SemanticCacheSpec => []CountsNotDoubled
<1>1. CacheInv => CountsNotDoubled
  BY DEF CacheInv, HitsInv
<1>2. QED BY <1>1, CacheInvHolds, PTL

-----------------------------------------------------------------------------
(* The decision log.                                                        *)

LogRow == [at : Stamps, flags : RowFlags]

ReaderRecord == [stage : {"begins", "pages", "done"}, decision : Decisions, cursor : Seq(LogIds),
                 shown : Seq(LogIds), begun : SUBSET LogIds]

\* What the reader asked for.
Asked(i) == Kept(reader.decision, log[i].flags)

\* The rows still to come are the older ones: while the reader pages, what was
\* there when he began and is not shown is beyond the cursor, which is the
\* oldest row shown.
Remaining ==
    LET shown == reader.shown IN
    /\ reader.stage = "begins" => shown = <<>> /\ reader.cursor = <<>> /\ reader.begun = {}
    /\ reader.stage = "pages" =>
         /\ Len(shown) > 0 /\ reader.cursor = <<shown[Len(shown)]>>
         /\ \A i \in reader.begun :
              Asked(i) => (\E n \in DOMAIN shown : shown[n] = i) \/ Older(i, shown[Len(shown)])
    /\ reader.stage = "done" =>
         /\ reader.cursor = <<>>
         /\ \A i \in reader.begun : Asked(i) => \E n \in DOMAIN shown : shown[n] = i

LogInv ==
    /\ log \in [LogIds -> {NoRow} \cup LogRow]
    /\ IsFiniteSet(Present)
    /\ reader \in ReaderRecord
    /\ reader.begun \subseteq Present
    /\ \A n \in DOMAIN reader.shown : reader.shown[n] \in Present
    /\ NewestFirst(reader.shown)
    /\ Remaining

----------------------------------------------------------------------------
(* The order of the rows.                                                   *)

LEMMA PresentRow ==
    ASSUME log \in [LogIds -> {NoRow} \cup LogRow], NEW i \in Present
    PROVE  i \in Int /\ i \in LogIds /\ log[i] \in LogRow /\ log[i].at \in Int /\ log[i].flags \in RowFlags
BY LogOrderAssumption DEF Present, LogRow

LEMMA OlderOrder ==
    ASSUME log \in [LogIds -> {NoRow} \cup LogRow],
           NEW i \in Present, NEW j \in Present, NEW k \in Present
    PROVE  /\ i # j => Older(i, j) \/ Older(j, i)
           /\ Older(i, j) /\ Older(j, k) => Older(i, k)
BY PresentRow DEF Older

LEMMA NewestRow ==
    ASSUME log \in [LogIds -> {NoRow} \cup LogRow],
           NEW T \in SUBSET Present, IsFiniteSet(T), T # {}
    PROVE  \E m \in T : \A j \in T : j # m => Older(j, m)
<1> DEFINE Good(U) == \E m \in U : \A j \in U : j # m => Older(j, m)
           S == {n \in Nat : \A U \in SUBSET Present :
                   IsFiniteSet(U) /\ U # {} /\ Cardinality(U) = n => Good(U)}
<1>1. 0 \in S
  BY FS_EmptySet
<1>2. ASSUME NEW n \in Nat, n \in S PROVE n + 1 \in S
  <2> SUFFICES ASSUME NEW U \in SUBSET Present, IsFiniteSet(U), U # {}, Cardinality(U) = n + 1
               PROVE  Good(U)
    OBVIOUS
  <2>1. PICK x : x \in U
    OBVIOUS
  <2> DEFINE V == U \ {x}
  <2>2. IsFiniteSet(V) /\ Cardinality(V) = n /\ V \in SUBSET Present
    <3>1. IsFiniteSet(V) /\ Cardinality(V) = Cardinality(U) - 1
      BY <2>1, FS_RemoveElement
    <3>2. QED BY <3>1
  <2>3. CASE V = {}
    BY <2>1, <2>3
  <2>4. CASE V # {}
    <3>1. PICK m \in V : \A j \in V : j # m => Older(j, m)
      BY <1>2, <2>2, <2>4
    <3>2. CASE Older(x, m)
      BY <2>1, <3>1, <3>2
    <3>3. CASE Older(m, x)
      <4>1. \A j \in U : j # x => Older(j, x)
        BY <2>1, <3>1, <3>3, OlderOrder
      <4>2. QED BY <2>1, <4>1
    <3>4. x \in Present /\ m \in Present /\ x # m
      BY <2>1
    <3>5. QED BY <3>2, <3>3, <3>4, OlderOrder
  <2>5. QED BY <2>3, <2>4
<1>3. Nat \subseteq S
  BY <1>1, <1>2, NatSetInduction
<1>4. Cardinality(T) \in Nat
  BY FS_CardinalityType
<1>5. QED BY <1>3, <1>4

\* Finitely many rows can be listed from new to old.
Lists(s, n, T) == s \in [1 .. n -> T] /\ NewestFirst(s) /\ \A i \in T : \E k \in 1 .. n : s[k] = i

LEMMA RowsCanBeListed ==
    ASSUME log \in [LogIds -> {NoRow} \cup LogRow], NEW T \in SUBSET Present, IsFiniteSet(T)
    PROVE  \E n \in Nat : \E s : Lists(s, n, T)
<1> DEFINE S == {n \in Nat : \A U \in SUBSET Present :
                   IsFiniteSet(U) /\ Cardinality(U) = n => \E s : Lists(s, n, U)}
<1>1. 0 \in S
  <2> SUFFICES ASSUME NEW U \in SUBSET Present, IsFiniteSet(U), Cardinality(U) = 0
               PROVE  \E s : Lists(s, 0, U)
    OBVIOUS
  <2>1. U = {}
    BY FS_EmptySet
  <2> DEFINE s == [k \in 1 .. 0 |-> k]
  <2>2. s \in [1 .. 0 -> U] /\ DOMAIN s = {}
    OBVIOUS
  <2>3. Lists(s, 0, U)
    BY <2>1, <2>2 DEF Lists, NewestFirst
  <2>4. QED BY <2>3
<1>2. ASSUME NEW n \in Nat, n \in S PROVE n + 1 \in S
  <2> SUFFICES ASSUME NEW U \in SUBSET Present, IsFiniteSet(U), Cardinality(U) = n + 1
               PROVE  \E s : Lists(s, n + 1, U)
    OBVIOUS
  <2>1. U # {}
    BY FS_EmptySet
  <2>2. PICK m \in U : \A j \in U : j # m => Older(j, m)
    BY <2>1, NewestRow
  <2>3. IsFiniteSet(U \ {m}) /\ Cardinality(U \ {m}) = n /\ U \ {m} \in SUBSET Present
    <3>1. IsFiniteSet(U \ {m}) /\ Cardinality(U \ {m}) = Cardinality(U) - 1
      BY FS_RemoveElement
    <3>2. QED BY <3>1
  <2>4. PICK s : Lists(s, n, U \ {m})
    BY <1>2, <2>3
  <2>5. s \in [1 .. n -> U \ {m}] /\ NewestFirst(s) /\ \A i \in U \ {m} : \E k \in 1 .. n : s[k] = i
    BY <2>4 DEF Lists
  <2> DEFINE t == [k \in 1 .. n + 1 |-> IF k = 1 THEN m ELSE s[k - 1]]
  <2>6. t \in [1 .. n + 1 -> U] /\ t[1] = m
    BY <2>5
  <2>7. \A k \in 2 .. n + 1 : t[k] = s[k - 1] /\ k - 1 \in 1 .. n /\ s[k - 1] \in U \ {m}
    BY <2>5
  <2>8. DOMAIN t = 1 .. n + 1 /\ DOMAIN s = 1 .. n
    BY <2>5
  <2> HIDE DEF t
  <2>9. NewestFirst(t)
    <3> SUFFICES ASSUME NEW a \in 1 .. n + 1, NEW b \in 1 .. n + 1, a < b PROVE Older(t[b], t[a])
      BY <2>8 DEF NewestFirst
    <3>1. b \in 2 .. n + 1 /\ t[b] = s[b - 1] /\ s[b - 1] \in U \ {m} /\ b - 1 \in 1 .. n
      BY <2>7
    <3>2. CASE a = 1
      BY <2>2, <2>6, <3>1, <3>2
    <3>3. CASE a # 1
      <4>1. a \in 2 .. n + 1 /\ a - 1 < b - 1
        BY <3>3
      <4>2. t[a] = s[a - 1] /\ a - 1 \in 1 .. n
        BY <2>7, <4>1
      <4>3. QED BY <2>5, <2>8, <3>1, <4>1, <4>2 DEF NewestFirst
    <3>4. QED BY <3>2, <3>3
  <2>10. ASSUME NEW i \in U PROVE \E k \in 1 .. n + 1 : t[k] = i
    <3>1. CASE i = m
      BY <2>6, <3>1
    <3>2. CASE i # m
      <4>1. PICK k \in 1 .. n : s[k] = i
        BY <2>5, <3>2
      <4>2. k + 1 \in 2 .. n + 1 /\ (k + 1) - 1 = k /\ k + 1 \in 1 .. n + 1
        OBVIOUS
      <4>3. t[k + 1] = i
        BY <2>7, <4>1, <4>2
      <4>4. QED BY <4>2, <4>3
    <3>3. QED BY <3>1, <3>2
  <2>11. QED BY <2>6, <2>9, <2>10 DEF Lists
<1>3. Nat \subseteq S
  BY <1>1, <1>2, NatSetInduction
<1>4. Cardinality(T) \in Nat
  BY FS_CardinalityType
<1>5. QED BY <1>3, <1>4

----------------------------------------------------------------------------
(* What a query returns.                                                    *)

Matching == {i \in Present : Asked(i) /\ Beyond(i, reader.cursor)}

Page(s) ==
    /\ NewestFirst(s)
    /\ \A i \in Matching : \/ \E n \in DOMAIN s : s[n] = i
                           \/ Len(s) = Limit + 1 /\ \A n \in DOMAIN s : Older(i, s[n])

LEMMA FetchedRows ==
    ASSUME log \in [LogIds -> {NoRow} \cup LogRow], IsFiniteSet(Present)
    PROVE  \E n \in 0 .. Limit + 1 : Fetched \in [1 .. n -> Matching] /\ Page(Fetched)
<1> DEFINE Candidates == UNION {[1 .. n -> Matching] : n \in 0 .. Limit + 1}
<1>1. Matching \in SUBSET Present /\ IsFiniteSet(Matching)
  BY FS_Subset DEF Matching
<1>2. PICK n \in Nat : \E s : Lists(s, n, Matching)
  BY <1>1, RowsCanBeListed
<1>3. PICK s : Lists(s, n, Matching)
  BY <1>2
<1>4. s \in [1 .. n -> Matching] /\ NewestFirst(s) /\ \A i \in Matching : \E k \in 1 .. n : s[k] = i
  BY <1>3 DEF Lists
<1>5. Limit \in Nat
  BY LimitAssumption
<1>6. \E t \in Candidates : Page(t)
  <2>1. CASE n <= Limit + 1
    <3>1. s \in Candidates
      BY <1>4, <1>5, <2>1
    <3>2. Page(s)
      BY <1>4 DEF Page
    <3>3. QED BY <3>1, <3>2
  <2>2. CASE n > Limit + 1
    <3> DEFINE t == [k \in 1 .. Limit + 1 |-> s[k]]
    <3>1. \A k \in 1 .. Limit + 1 : k \in 1 .. n
      BY <1>5, <2>2
    <3>2. t \in [1 .. Limit + 1 -> Matching] /\ \A k \in 1 .. Limit + 1 : t[k] = s[k]
      BY <1>4, <3>1
    <3>3. t \in Candidates
      BY <1>5, <3>2
    <3> HIDE DEF t
    <3>4. NewestFirst(t)
      BY <1>4, <3>1, <3>2 DEF NewestFirst
    <3>5. Len(t) = Limit + 1
      BY <1>5, <3>2
    <3>6. ASSUME NEW i \in Matching, ~ \E k \in 1 .. Limit + 1 : t[k] = i, NEW k \in 1 .. Limit + 1
          PROVE  Older(i, t[k])
      <4>1. PICK l \in 1 .. n : s[l] = i
        BY <1>4
      <4>2. l > Limit + 1
        BY <1>5, <3>2, <3>6, <4>1
      <4>3. k < l /\ k \in DOMAIN s /\ l \in DOMAIN s
        BY <1>4, <1>5, <3>1, <4>2
      <4>4. QED BY <1>4, <3>2, <4>1, <4>3 DEF NewestFirst
    <3>7. Page(t)
      <4>1. DOMAIN t = 1 .. Limit + 1
        BY <3>2
      <4>2. QED BY <3>4, <3>5, <3>6, <4>1 DEF Page
    <3>8. QED BY <3>3, <3>7
  <2>3. QED BY <1>5, <2>1, <2>2
<1>7. Fetched = CHOOSE t \in Candidates : Page(t)
  BY DEF Fetched, Page, Matching, Asked
<1>8. Fetched \in Candidates /\ Page(Fetched)
  BY <1>6, <1>7
<1>9. QED BY <1>8

----------------------------------------------------------------------------
LEMMA LogInvInit == RequestLogInit => LogInv
<1> SUFFICES ASSUME RequestLogInit PROVE LogInv
  OBVIOUS
<1>1. log \in [LogIds -> {NoRow} \cup LogRow] /\ Present = {}
  BY DEF RequestLogInit, Present
<1>2. /\ reader.stage = "begins" /\ reader.cursor = <<>> /\ reader.shown = <<>> /\ reader.begun = {}
      /\ reader \in ReaderRecord
  <2>1. PICK d \in Decisions :
          reader = [stage |-> "begins", decision |-> d, cursor |-> <<>>, shown |-> <<>>, begun |-> {}]
    BY DEF RequestLogInit
  <2>2. <<>> \in Seq(LogIds)
    OBVIOUS
  <2>3. QED BY <2>1, <2>2 DEF ReaderRecord
<1>3. NewestFirst(reader.shown) /\ \A n \in DOMAIN reader.shown : reader.shown[n] \in Present
  BY <1>2 DEF NewestFirst
<1>4. QED BY <1>1, <1>2, <1>3, FS_EmptySet DEF LogInv, Remaining

LEMMA ListInv == ASSUME LogInv, ListRequests PROVE LogInv'
<1> DEFINE old == reader.shown
<1>l. PICK L : L = Len(reader.shown)
  OBVIOUS
<1>0. /\ log \in [LogIds -> {NoRow} \cup LogRow] /\ log' = log /\ Present' = Present
      /\ reader \in ReaderRecord /\ old \in Seq(LogIds) /\ L \in Nat /\ DOMAIN old = 1 .. L
      /\ IsFiniteSet(Present) /\ Limit \in Nat /\ Limit > 0
  BY <1>l, LimitAssumption DEF LogInv, ListRequests, ReaderRecord, Present
<1>1. PICK s : s = Fetched
  OBVIOUS
<1>2. PICK n \in 0 .. Limit + 1 : s \in [1 .. n -> Matching] /\ Page(s)
  BY <1>0, <1>1, FetchedRows
<1>3. /\ n \in Nat /\ DOMAIN s = 1 .. n /\ Len(s) = n /\ \A k \in 1 .. n : s[k] \in Matching
      /\ n > Limit => n = Limit + 1
  BY <1>0, <1>2
<1>4. Matching \subseteq Present /\ Matching \subseteq LogIds
  BY DEF Matching, Present
<1>5. s \in Seq(LogIds)
  BY <1>2, <1>3, <1>4
<1>6. PICK q \in 0 .. Limit : (n > Limit => q = Limit) /\ (n <= Limit => q = n)
  <2>1. CASE n > Limit
    <3>1. Limit \in 0 .. Limit /\ ~(n <= Limit)
      BY <1>0, <1>3, <2>1
    <3>2. QED BY <3>1
  <2>2. CASE n <= Limit
    <3>1. n \in 0 .. Limit /\ ~(n > Limit)
      BY <1>0, <1>3, <2>2
    <3>2. QED BY <3>1
  <2>3. QED BY <1>0, <1>3, <2>1, <2>2
<1>7. PICK p : p = SubSeq(s, 1, q)
  OBVIOUS
<1>8. /\ q \in Nat /\ p \in Seq(LogIds) /\ Len(p) = q /\ DOMAIN p = 1 .. q
      /\ \A k \in 1 .. q : k \in 1 .. n /\ p[k] = s[k]
  <2>1. q <= n /\ q \in Nat
    BY <1>0, <1>3, <1>6
  <2>2. QED BY <1>3, <1>5, <1>7, <2>1
<1>9. /\ reader'.stage = IF n > Limit THEN "pages" ELSE "done"
      /\ reader'.decision = reader.decision
      /\ reader'.cursor = IF n > Limit THEN <<p[q]>> ELSE <<>>
      /\ reader'.shown = old \o p
      /\ reader'.begun = IF reader.stage = "begins" THEN Present ELSE reader.begun
      /\ reader.stage \in {"begins", "pages"}
  <2>1. n > Limit => SubSeq(s, 1, Limit) = p
    BY <1>6, <1>7
  <2>2. ~(n > Limit) => SubSeq(s, 1, n) = p
    BY <1>0, <1>3, <1>6, <1>7
  <2>3. reader.stage \in {"begins", "pages"}
    BY DEF ListRequests
  <2>4. reader' = [reader EXCEPT !.stage = IF n > Limit THEN "pages" ELSE "done",
                                 !.cursor = IF n > Limit THEN <<p[q]>> ELSE <<>>,
                                 !.shown = old \o p,
                                 !.begun = IF reader.stage = "begins" THEN Present ELSE reader.begun]
    BY <1>1, <1>3, <1>8, <2>1, <2>2 DEF ListRequests
  <2>5. QED BY <1>0, <2>3, <2>4 DEF ReaderRecord
<1>10. PICK v : v = old \o p
  OBVIOUS
<1>11. /\ v \in Seq(LogIds) /\ Len(v) = L + q /\ DOMAIN v = 1 .. L + q
       /\ \A k \in 1 .. L : v[k] = old[k]
       /\ \A k \in 1 .. q : v[L + k] = p[k]
  <2>1. old \in Seq(LogIds) /\ Len(old) = L /\ p \in Seq(LogIds) /\ Len(p) = q
    BY <1>l, <1>0, <1>8
  <2>2. PICK o : o = old
    OBVIOUS
  <2>3. /\ o \o p \in Seq(LogIds) /\ Len(o \o p) = L + q /\ DOMAIN (o \o p) = 1 .. L + q
        /\ \A k \in 1 .. L : (o \o p)[k] = o[k]
        /\ \A k \in 1 .. q : (o \o p)[L + k] = p[k]
    <3>1. o \in Seq(LogIds) /\ Len(o) = L /\ p \in Seq(LogIds) /\ Len(p) = q
      BY <2>1, <2>2
    <3>2. QED BY <3>1, Joining
  <2>4. v = o \o p
    BY <1>10, <2>2
  <2>5. QED BY <2>2, <2>3, <2>4, Zenon
<1>12. \A k \in 1 .. L + q : k \in 1 .. L \/ (k - L \in 1 .. q /\ v[k] = p[k - L])
  <2> SUFFICES ASSUME NEW k \in 1 .. L + q, k \notin 1 .. L PROVE k - L \in 1 .. q /\ v[k] = p[k - L]
    OBVIOUS
  <2>1. k - L \in 1 .. q /\ L + (k - L) = k
    BY <1>0, <1>8
  <2>2. v[L + (k - L)] = p[k - L]
    BY <1>11, <2>1
  <2>3. QED BY <2>1, <2>2
<1>13. \A i \in Matching : reader.stage = "pages" => Older(i, old[L])
  <2> SUFFICES ASSUME NEW i \in Matching, reader.stage = "pages" PROVE Older(i, old[L])
    OBVIOUS
  <2>1. reader.cursor = <<old[L]>>
    BY <1>l DEF LogInv, Remaining
  <2>2. reader.cursor # <<>> /\ reader.cursor[1] = old[L]
    BY <2>1
  <2>3. QED BY <2>2 DEF Matching, Beyond
<1>14. /\ reader.stage = "begins" => L = 0
       /\ reader.stage = "pages" => L > 0
  BY <1>l, <1>0 DEF LogInv, Remaining
<1>15. \A k \in 1 .. L : old[k] \in Present
  BY <1>0 DEF LogInv
<1>16. NewestFirst(v)
  <2> SUFFICES ASSUME NEW a \in 1 .. L + q, NEW b \in 1 .. L + q, a < b PROVE Older(v[b], v[a])
    BY <1>11 DEF NewestFirst
  <2>1. CASE b \in 1 .. L
    <3>1. a \in 1 .. L
      BY <1>0, <1>8, <2>1
    <3>2. QED BY <1>0, <1>11, <2>1, <3>1 DEF LogInv, NewestFirst
  <2>2. CASE a \notin 1 .. L
    <3>1. b \notin 1 .. L
      BY <1>0, <2>2
    <3>2. a - L \in 1 .. q /\ v[a] = p[a - L] /\ b - L \in 1 .. q /\ v[b] = p[b - L] /\ a - L < b - L
      BY <1>0, <1>12, <2>2, <3>1
    <3>3. p[a - L] = s[a - L] /\ p[b - L] = s[b - L] /\ a - L \in DOMAIN s /\ b - L \in DOMAIN s
      BY <1>3, <1>8, <3>2
    <3>4. QED BY <1>2, <3>2, <3>3 DEF Page, NewestFirst
  <2>3. CASE a \in 1 .. L /\ b \notin 1 .. L
    <3>1. reader.stage = "pages" /\ L \in 1 .. L
      BY <1>0, <1>9, <1>14, <2>3
    <3>2. b - L \in 1 .. q /\ v[b] = p[b - L]
      BY <1>12, <2>3
    <3>3. v[b] \in Matching
      BY <1>3, <1>8, <3>2
    <3>4. Older(v[b], old[L]) /\ v[a] = old[a]
      BY <1>11, <1>13, <2>3, <3>1, <3>3
    <3>5. CASE a = L
      BY <3>4, <3>5
    <3>6. CASE a # L
      <4>1. Older(old[L], old[a])
        BY <1>0, <2>3, <3>1, <3>6 DEF LogInv, NewestFirst
      <4>2. v[b] \in Present /\ old[L] \in Present /\ old[a] \in Present
        BY <1>4, <1>15, <2>3, <3>1, <3>3
      <4>3. QED BY <1>0, <3>4, <4>1, <4>2, OlderOrder
    <3>7. QED BY <3>5, <3>6
  <2>4. QED BY <2>1, <2>2, <2>3
<1>17. \A k \in 1 .. L + q : v[k] \in Present
  <2> SUFFICES ASSUME NEW k \in 1 .. L + q PROVE v[k] \in Present
    OBVIOUS
  <2>1. CASE k \in 1 .. L
    BY <1>11, <1>15, <2>1
  <2>2. CASE k \notin 1 .. L
    BY <1>3, <1>4, <1>8, <1>12, <2>2
  <2>3. QED BY <2>1, <2>2
<1>18. ASSUME NEW i \in reader'.begun, Asked(i)
       PROVE  (\E k \in 1 .. L : old[k] = i) \/ i \in Matching
  <2>1. CASE reader.stage = "begins"
    BY <1>9, <1>18, <2>1 DEF Matching, Beyond, LogInv, Remaining
  <2>2. CASE reader.stage = "pages"
    <3>1. i \in reader.begun /\ i \in Present
      BY <1>9, <1>18, <2>2 DEF LogInv
    <3>2. (\E k \in DOMAIN old : old[k] = i) \/ Older(i, old[L])
      BY <1>l, <1>18, <2>2, <3>1 DEF LogInv, Remaining
    <3>3. reader.cursor[1] = old[L]
      BY <1>l, <2>2 DEF LogInv, Remaining
    <3>4. QED BY <1>0, <1>18, <3>1, <3>2, <3>3 DEF Matching, Beyond
  <2>3. QED BY <1>9, <2>1, <2>2
<1>19. ASSUME NEW i \in Matching
       PROVE  \/ \E k \in 1 .. L + q : v[k] = i
              \/ n > Limit /\ Older(i, p[q])
  <2>1. CASE \E k \in 1 .. n : s[k] = i
    <3>1. PICK k \in 1 .. n : s[k] = i
      BY <2>1
    <3>2. CASE k <= q
      <4>1. k \in 1 .. q /\ L + k \in 1 .. L + q
        BY <1>0, <1>8, <3>2
      <4>2. v[L + k] = i
        BY <1>8, <1>11, <3>1, <4>1
      <4>3. QED BY <4>1, <4>2
    <3>3. CASE k > q
      <4>1. n > Limit /\ q = Limit /\ q \in 1 .. q /\ q \in DOMAIN s /\ k \in DOMAIN s /\ q < k
        BY <1>0, <1>3, <1>6, <3>3
      <4>2. Older(s[k], s[q])
        BY <1>2, <4>1 DEF Page, NewestFirst
      <4>3. p[q] = s[q]
        BY <1>8, <4>1
      <4>4. QED BY <3>1, <4>1, <4>2, <4>3
    <3>4. QED BY <1>8, <3>2, <3>3
  <2>2. CASE ~ \E k \in 1 .. n : s[k] = i
    <3>1. n = Limit + 1 /\ \A k \in 1 .. n : Older(i, s[k])
      BY <1>2, <1>3, <2>2 DEF Page
    <3>2. n > Limit /\ q = Limit /\ q \in 1 .. q /\ q \in 1 .. n
      BY <1>0, <1>6, <3>1
    <3>3. QED BY <1>8, <3>1, <3>2
  <2>3. QED BY <2>1, <2>2
<1>20. Remaining'
  <2>0. reader'.shown = v /\ reader'.shown[L + q] = v[L + q] /\ Len(reader'.shown) = L + q
        /\ DOMAIN reader'.shown = 1 .. L + q
    BY <1>9, <1>10, <1>11
  <2>1. \A i : Asked(i)' = Asked(i)
    BY <1>0, <1>9 DEF Asked
  <2>2. \A i, j : Older(i, j)' = Older(i, j)
    BY <1>0 DEF Older
  <2>3. ASSUME NEW i \in reader'.begun, Asked(i)
        PROVE  (\E k \in 1 .. L + q : v[k] = i) \/ (n > Limit /\ Older(i, p[q]))
    <3>1. CASE \E k \in 1 .. L : old[k] = i
      <4>1. PICK k \in 1 .. L : old[k] = i
        BY <3>1
      <4>2. k \in 1 .. L + q /\ v[k] = i
        BY <1>0, <1>8, <1>11, <4>1
      <4>3. QED BY <4>2
    <3>2. QED BY <1>18, <1>19, <2>3, <3>1
  <2>4. CASE n > Limit
    <3>1. q = Limit /\ q \in 1 .. q /\ v[L + q] = p[q] /\ L + q > 0
      BY <1>0, <1>6, <1>11, <2>4
    <3>2. reader'.stage = "pages" /\ reader'.cursor = <<v[L + q]>>
      BY <1>9, <2>4, <3>1
    <3>3. \A i \in reader'.begun : Asked(i)' =>
            (\E k \in 1 .. L + q : v[k] = i) \/ Older(i, v[L + q])'
      BY <2>1, <2>2, <2>3, <3>1
    <3>4. QED BY <2>0, <3>1, <3>2, <3>3 DEF Remaining
  <2>5. CASE ~(n > Limit)
    <3>1. reader'.stage = "done" /\ reader'.cursor = <<>>
      BY <1>9, <2>5
    <3>2. \A i \in reader'.begun : Asked(i)' => \E k \in 1 .. L + q : v[k] = i
      BY <2>1, <2>3, <2>5
    <3>3. QED BY <2>0, <3>1, <3>2 DEF Remaining
  <2>6. QED BY <2>4, <2>5
<1>21. reader' \in ReaderRecord
  <2>1. reader'.stage \in {"begins", "pages", "done"} /\ reader'.decision \in Decisions
    BY <1>0, <1>9 DEF ReaderRecord
  <2>2. reader'.cursor \in Seq(LogIds)
    <3>1. CASE n > Limit
      <4>1. q \in 1 .. q
        BY <1>0, <1>6, <3>1
      <4>2. p[q] \in LogIds
        BY <1>8, <4>1
      <4>3. <<p[q]>> \in Seq(LogIds)
        BY <4>2
      <4>4. QED BY <1>9, <3>1, <4>3
    <3>2. CASE ~(n > Limit)
      <4>1. <<>> \in Seq(LogIds)
        OBVIOUS
      <4>2. QED BY <1>9, <3>2, <4>1
    <3>3. QED BY <3>1, <3>2
  <2>3. reader'.shown \in Seq(LogIds)
    BY <1>9, <1>10, <1>11
  <2>4. reader'.begun \in SUBSET LogIds
    BY <1>0, <1>9 DEF ReaderRecord, Present
  <2>5. \E w \in ReaderRecord : reader' = w
    <3> DEFINE w == [stage |-> reader'.stage, decision |-> reader'.decision, cursor |-> reader'.cursor,
                     shown |-> reader'.shown, begun |-> reader'.begun]
    <3>1. w \in ReaderRecord
      BY <2>1, <2>2, <2>3, <2>4 DEF ReaderRecord
    <3>2. reader' = w
      BY <1>0 DEF ListRequests, ReaderRecord
    <3>3. QED BY <3>1, <3>2
  <2>6. QED BY <2>5
<1>22. reader'.begun \subseteq Present
  BY <1>9 DEF LogInv
<1>23. NewestFirst(reader.shown)'
  <2>1. reader'.shown = v
    BY <1>9, <1>10
  <2>2. \A i, j : Older(i, j)' = Older(i, j)
    BY <1>0 DEF Older
  <2>3. QED BY <1>16, <2>1, <2>2 DEF NewestFirst
<1>24. QED BY <1>0, <1>9, <1>10, <1>11, <1>17, <1>20, <1>21, <1>22, <1>23 DEF LogInv

\* A row that arrives moves no other row.
LEMMA InsertInv == ASSUME LogInv, NEW r \in LogIds, LogInsert(r) PROVE LogInv'
<1>1. PICK w \in LogRow : log' = [log EXCEPT ![r] = w]
  <2>1. PICK at \in Stamps, flags \in RowFlags : log' = [log EXCEPT ![r] = [at |-> at, flags |-> flags]]
    BY DEF LogInsert
  <2>2. [at |-> at, flags |-> flags] \in LogRow
    BY DEF LogRow
  <2>3. QED BY <2>1, <2>2
<1>2. log \in [LogIds -> {NoRow} \cup LogRow] /\ log[r] = NoRow /\ reader' = reader
  BY DEF LogInv, LogInsert
<1>3. log' \in [LogIds -> {NoRow} \cup LogRow] /\ \A i \in Present : i # r /\ log'[i] = log[i]
  BY <1>1, <1>2 DEF Present
<1>4. Present \subseteq Present' /\ Present' \subseteq Present \cup {r}
  BY <1>1, <1>2, <1>3 DEF Present
<1>5. IsFiniteSet(Present')
  <2>1. IsFiniteSet(Present \cup {r})
    BY FS_AddElement DEF LogInv
  <2>2. Present' \in SUBSET (Present \cup {r})
    BY <1>4
  <2>3. QED BY <2>1, <2>2, FS_Subset
<1>6. \A i, j \in Present : Older(i, j)' = Older(i, j)
  BY <1>3 DEF Older
<1>7. \A i \in Present : Asked(i)' = Asked(i)
  BY <1>2, <1>3 DEF Asked
<1>8. NewestFirst(reader.shown)'
  <2>1. \A n \in DOMAIN reader.shown : reader.shown[n] \in Present
    BY DEF LogInv
  <2>2. QED BY <1>2, <1>6, <2>1 DEF LogInv, NewestFirst
<1>9. Remaining'
  <2>1. \A n \in DOMAIN reader.shown : reader.shown[n] \in Present
    BY DEF LogInv
  <2>2. reader.begun \subseteq Present
    BY DEF LogInv
  <2>3. reader.stage = "pages" => Len(reader.shown) \in DOMAIN reader.shown
    <3>1. reader.shown \in Seq(LogIds)
      BY DEF LogInv, ReaderRecord
    <3>2. QED BY <3>1 DEF LogInv, Remaining
  <2>4. QED BY <1>2, <1>6, <1>7, <2>1, <2>2, <2>3 DEF LogInv, Remaining
<1>10. QED BY <1>2, <1>3, <1>4, <1>5, <1>8, <1>9 DEF LogInv

LEMMA LogInvNext == LogInv /\ [RequestLogNext]_logVars => LogInv'
<1> SUFFICES ASSUME LogInv, [RequestLogNext]_logVars PROVE LogInv'
  OBVIOUS
<1>1. CASE UNCHANGED logVars
  <2>1. log' = log /\ reader' = reader
    BY <1>1 DEF logVars
  <2>2. QED BY <2>1 DEF LogInv, Present, NewestFirst, Older, Remaining, Asked
<1>2. QED BY <1>1, ListInv, InsertInv DEF RequestLogNext

\* A row that carries the label asked for passes the query's condition.
LEMMA LabelIsKept ==
    ASSUME LogInv, NEW i \in Present, reader.decision = "all" \/ DecisionOf(i) = reader.decision
    PROVE  Asked(i)
<1>1. log[i].flags \in RowFlags
  BY PresentRow DEF LogInv
<1>2. reader.decision \in Labels \cup {"all"}
  BY DecisionsAssumption DEF LogInv, ReaderRecord
<1>3. CASE reader.decision = "all"
  BY <1>3 DEF Asked, Kept
<1>4. CASE DecisionOf(i) = "cache_hit" /\ reader.decision = "cache_hit"
  BY <1>4 DEF Asked, Kept, DecisionOf
<1>5. CASE DecisionOf(i) = "routed" /\ reader.decision = "routed"
  BY <1>5 DEF Asked, Kept, DecisionOf
<1>6. CASE DecisionOf(i) = "escalated" /\ reader.decision = "escalated"
  BY <1>6 DEF Asked, Kept, DecisionOf
<1>7. CASE DecisionOf(i) = "passthrough" /\ reader.decision = "passthrough"
  BY <1>7 DEF Asked, Kept, DecisionOf
<1>8. CASE DecisionOf(i) = "error" /\ reader.decision = "error"
  BY <1>8 DEF Asked, Kept, DecisionOf
<1>9. QED BY <1>2, <1>3, <1>4, <1>5, <1>6, <1>7, <1>8 DEF Labels

LEMMA LogTypes == LogInv => RequestLogTypeOK
<1> SUFFICES ASSUME LogInv PROVE RequestLogTypeOK
  OBVIOUS
<1>1. reader \in ReaderRecord
  BY DEF LogInv
<1>2. reader.stage = "pages" => reader.cursor # <<>>
  <2>1. ASSUME NEW x PROVE <<x>> # <<>>
    OBVIOUS
  <2>2. QED BY <2>1 DEF LogInv, Remaining
<1>3. reader.stage # "pages" => reader.cursor = <<>>
  BY <1>1 DEF LogInv, Remaining, ReaderRecord
<1>4. (reader.stage = "pages") = (reader.cursor # <<>>)
  BY <1>2, <1>3
<1>5. log \in [LogIds -> {NoRow} \cup [at : Stamps, flags : RowFlags]]
  BY DEF LogInv, LogRow
<1>6. QED BY <1>1, <1>4, <1>5 DEF RequestLogTypeOK, ReaderRecord

\* The pages of the decision log are complete and without repetition, though
\* rows of any time arrive between two of them and share timestamps.
THEOREM LogPagesAreComplete ==
    RequestLogInit /\ [][RequestLogNext]_logVars => []PagesAreComplete
<1>1. LogInv => PagesAreComplete
  <2> SUFFICES ASSUME LogInv PROVE PagesAreComplete
    OBVIOUS
  <2>1. ASSUME reader.stage = "done", NEW i \in reader.begun,
               reader.decision = "all" \/ DecisionOf(i) = reader.decision
        PROVE  \E n \in DOMAIN reader.shown : reader.shown[n] = i
    <3>1. i \in Present
      BY DEF LogInv
    <3>2. Asked(i)
      BY <2>1, <3>1, LabelIsKept
    <3>3. QED BY <2>1, <3>2 DEF LogInv, Remaining
  <2>2. NewestFirst(reader.shown)
    BY DEF LogInv
  <2>3. QED BY <2>1, <2>2 DEF PagesAreComplete
<1>2. QED BY <1>1, LogInvInit, LogInvNext, PTL

-----------------------------------------------------------------------------
(* The advisor.                                                             *)

RecRecord == [title : {{}} \cup {{t} : t \in Titles},
              status : {"none", "open", "adopted", "dismissed"}]
AdviseRecord == [stage : {"idle", "analysed", "deleted", "inserted"},
                 found : SUBSET Titles, gone : SUBSET RecIds, firm : SUBSET Titles,
                 fresh : SUBSET Titles]
TabRecord == [of : {{}} \cup {{i} : i \in RecIds}, status : {"none", "adopted", "dismissed"}]

\* The job holds open rows only, and no user has one of them in hand; what it is
\* about to insert, the user has not dismissed.
AdvisorInv ==
    /\ AdvisorTypeOK
    /\ \A u \in Tabs : tab[u].of # {} => tab[u].status \in {"adopted", "dismissed"}
    /\ advise.gone \subseteq With("open")
    /\ \A u \in Tabs : tab[u].of \cap advise.gone = {}
    /\ advise.firm \subseteq TitlesOf(With("dismissed"))
    /\ advise.fresh \cap advise.firm = {}

\* What the property says of one step.
DecisionKept ==
    \A i \in RecIds :
         /\ i \in Decided => /\ rec'[i].title = rec[i].title
                             /\ rec'[i].status \in {"adopted", "dismissed"}
         /\ rec'[i].status = "open" /\ rec[i] # rec'[i]
              => rec'[i].title \cap advise.firm = {}

LEMMA AdvisorTypes ==
    AdvisorTypeOK <=> /\ rec \in [RecIds -> RecRecord]
                      /\ advise \in AdviseRecord
                      /\ tab \in [Tabs -> TabRecord]
  BY DEF AdvisorTypeOK, RecRecord, AdviseRecord, TabRecord

LEMMA NoAdviseRecord ==
    /\ NoAdvise \in AdviseRecord
    /\ NoAdvise.gone = {} /\ NoAdvise.firm = {} /\ NoAdvise.fresh = {}
  BY DEF NoAdvise, AdviseRecord

LEMMA AdvisorInvInit == AdvisorInit => AdvisorInv
<1> SUFFICES ASSUME AdvisorInit PROVE AdvisorInv
  OBVIOUS
<1>1. rec \in [RecIds -> RecRecord] /\ tab \in [Tabs -> TabRecord]
  BY DEF AdvisorInit, NoRec, NoTab, RecRecord, TabRecord
<1>2. advise \in AdviseRecord /\ advise.gone = {} /\ advise.firm = {} /\ advise.fresh = {}
  BY NoAdviseRecord DEF AdvisorInit
<1>3. \A u \in Tabs : tab[u].of = {}
  BY DEF AdvisorInit, NoTab
<1>4. QED BY <1>1, <1>2, <1>3, AdvisorTypes DEF AdvisorInv

\* A step that leaves the rows as they are decides nothing.
LEMMA RecsStand ==
    ASSUME rec' = rec
    PROVE  /\ DecisionKept
           /\ \A s : With(s)' = With(s)
           /\ TitlesOf(With("dismissed"))' = TitlesOf(With("dismissed"))
  BY DEF DecisionKept, Decided, With, TitlesOf

LEMMA AdvisorInvNext ==
    ASSUME /\ rec' \in [RecIds -> RecRecord] /\ advise' \in AdviseRecord /\ tab' \in [Tabs -> TabRecord]
           /\ \A u \in Tabs : tab'[u].of # {} => tab'[u].status \in {"adopted", "dismissed"}
           /\ advise'.gone \subseteq With("open")'
           /\ \A u \in Tabs : tab'[u].of \cap advise'.gone = {}
           /\ advise'.firm \subseteq TitlesOf(With("dismissed"))'
           /\ advise'.fresh \cap advise'.firm = {}
    PROVE  AdvisorInv'
  BY DEF AdvisorInv, AdvisorTypeOK, RecRecord, AdviseRecord, TabRecord

\* A step of the job that leaves the rows as they are.
LEMMA JobReads ==
    ASSUME AdvisorInv, AdviseAnalyse \/ AdviseDelete \/ AdviseInsert \/ AdviseFails
    PROVE  AdvisorInv' /\ DecisionKept
<1>0. /\ rec \in [RecIds -> RecRecord] /\ advise \in AdviseRecord /\ tab \in [Tabs -> TabRecord]
      /\ advise.gone \subseteq With("open") /\ \A u \in Tabs : tab[u].of \cap advise.gone = {}
      /\ advise.firm \subseteq TitlesOf(With("dismissed")) /\ advise.fresh \cap advise.firm = {}
  BY AdvisorTypes DEF AdvisorInv
<1>1. rec' = rec /\ tab' = tab
  BY DEF AdviseAnalyse, AdviseDelete, AdviseInsert, AdviseFails
<1>2. /\ With("open")' = With("open") /\ TitlesOf(With("dismissed"))' = TitlesOf(With("dismissed"))
      /\ DecisionKept
  BY <1>1, RecsStand
<1>3. \A u \in Tabs : tab[u].of # {} => tab[u].status \in {"adopted", "dismissed"}
  BY DEF AdvisorInv
<1>4. /\ advise' \in AdviseRecord /\ advise'.gone \subseteq With("open")
      /\ \A u \in Tabs : tab[u].of \cap advise'.gone = {}
      /\ advise'.firm \subseteq TitlesOf(With("dismissed")) /\ advise'.fresh \cap advise'.firm = {}
  <2>1. CASE AdviseAnalyse
    <3>1. PICK found \in SUBSET Titles :
            advise' = [NoAdvise EXCEPT !.stage = "analysed", !.found = found,
                                       !.firm = TitlesOf(With("dismissed"))]
      BY <2>1 DEF AdviseAnalyse
    <3>2. TitlesOf(With("dismissed")) \in SUBSET Titles
      BY <1>0 DEF TitlesOf, With, RecRecord
    <3>3. /\ advise' \in AdviseRecord /\ advise'.gone = {} /\ advise'.fresh = {}
          /\ advise'.firm = TitlesOf(With("dismissed"))
      BY <3>1, <3>2 DEF NoAdvise, AdviseRecord
    <3>4. QED BY <3>3
  <2>2. CASE AdviseDelete
    <3>1. /\ \A u \in Tabs : tab[u].of \cap With("open") = {}
          /\ advise' = [advise EXCEPT !.stage = IF advise.found = {} THEN "inserted" ELSE "deleted",
                                      !.gone = With("open")]
      BY <2>2 DEF AdviseDelete
    <3>2. /\ advise' \in AdviseRecord /\ advise'.gone = With("open")
          /\ advise'.firm = advise.firm /\ advise'.fresh = advise.fresh
      BY <1>0, <3>1 DEF AdviseRecord, With
    <3>3. QED BY <1>0, <3>1, <3>2
  <2>3. CASE AdviseInsert
    <3>1. advise' = [advise EXCEPT !.stage = "inserted",
                                   !.fresh = advise.found \ TitlesOf(With("dismissed"))]
      BY <2>3 DEF AdviseInsert
    <3>2. /\ advise' \in AdviseRecord /\ advise'.gone = advise.gone /\ advise'.firm = advise.firm
          /\ advise'.fresh = advise.found \ TitlesOf(With("dismissed"))
      BY <1>0, <3>1 DEF AdviseRecord
    <3>3. QED BY <1>0, <3>2
  <2>4. CASE AdviseFails
    BY <2>4, NoAdviseRecord DEF AdviseFails
  <2>5. QED BY <2>1, <2>2, <2>3, <2>4
<1>5. AdvisorInv'
  BY <1>0, <1>1, <1>2, <1>3, <1>4, AdvisorInvNext
<1>6. QED BY <1>2, <1>5

\* The commit takes the place of open rows and of none.
LEMMA JobCommits ==
    ASSUME AdvisorInv, AdviseCommit
    PROVE  AdvisorInv' /\ DecisionKept
<1>0. /\ rec \in [RecIds -> RecRecord] /\ advise \in AdviseRecord /\ tab \in [Tabs -> TabRecord]
      /\ advise.gone \subseteq With("open") /\ advise.fresh \cap advise.firm = {}
      /\ advise.fresh \subseteq Titles
  BY AdvisorTypes DEF AdvisorInv, AdviseRecord
<1>1. PICK place \in [advise.fresh -> With("none") \cup advise.gone] :
         /\ \A s, t \in advise.fresh : s # t => place[s] # place[t]
         /\ rec' = [i \in RecIds |->
                      IF \E t \in advise.fresh : place[t] = i
                      THEN [title |-> {t \in advise.fresh : place[t] = i}, status |-> "open"]
                      ELSE IF i \in advise.gone THEN NoRec ELSE rec[i]]
  BY DEF AdviseCommit
<1>2. advise' = NoAdvise /\ tab' = tab
  BY DEF AdviseCommit
<1>3. ASSUME NEW i \in RecIds
      PROVE  \/ /\ i \in With("none") \cup advise.gone
                /\ \E t \in advise.fresh : rec'[i] = [title |-> {t}, status |-> "open"]
             \/ i \in advise.gone /\ rec'[i] = NoRec
             \/ i \notin advise.gone /\ rec'[i] = rec[i]
  <2>1. CASE \E t \in advise.fresh : place[t] = i
    <3>1. PICK t \in advise.fresh : place[t] = i
      BY <2>1
    <3>2. {s \in advise.fresh : place[s] = i} = {t}
      BY <1>1, <3>1
    <3>3. QED BY <1>1, <2>1, <3>1, <3>2
  <2>2. CASE ~\E t \in advise.fresh : place[t] = i
    BY <1>1, <2>2
  <2>3. QED BY <2>1, <2>2
<1>4. NoRec \in RecRecord /\ NoRec.status = "none" /\ \A t \in Titles : [title |-> {t}, status |-> "open"] \in RecRecord
  BY DEF NoRec, RecRecord
<1>5. rec' \in [RecIds -> RecRecord]
  <2>1. ASSUME NEW i \in RecIds PROVE rec'[i] \in RecRecord
    <3>1. CASE \E t \in advise.fresh : rec'[i] = [title |-> {t}, status |-> "open"]
      BY <1>0, <1>4, <3>1
    <3>2. CASE rec'[i] \in {NoRec, rec[i]}
      BY <1>0, <1>4, <3>2
    <3>3. QED BY <1>3, <3>1, <3>2
  <2>2. QED BY <1>1, <2>1
<1>6. AdvisorInv'
  BY <1>2, <1>5, NoAdviseRecord, AdvisorTypes
     DEF AdvisorInv, AdvisorTypeOK, RecRecord, AdviseRecord, TabRecord
<1>7. DecisionKept
  <2>1. ASSUME NEW i \in RecIds, i \in Decided
        PROVE  rec'[i] = rec[i] /\ rec[i].status \in {"adopted", "dismissed"}
    <3>1. rec[i].status \in {"adopted", "dismissed"}
      BY <2>1 DEF Decided, With
    <3>2. i \notin With("none") \cup advise.gone
      BY <1>0, <3>1 DEF With
    <3>3. QED BY <1>3, <3>1, <3>2
  <2>2. ASSUME NEW i \in RecIds, rec'[i].status = "open", rec[i] # rec'[i]
        PROVE  rec'[i].title \cap advise.firm = {}
    <3>1. PICK t \in advise.fresh : rec'[i] = [title |-> {t}, status |-> "open"]
      BY <1>3, <1>4, <2>2
    <3>2. rec'[i].title = {t}
      BY <3>1
    <3>3. QED BY <1>0, <3>2
  <2>3. QED BY <2>1, <2>2 DEF DecisionKept
<1>8. QED BY <1>6, <1>7

\* A step of the user.
LEMMA TabSteps ==
    ASSUME AdvisorInv, NEW u \in Tabs,
           TabFails(u) \/ \E i \in RecIds : TabUpdate(u, i) \/ TabCommit(u, i)
    PROVE  AdvisorInv' /\ DecisionKept
<1>0. /\ rec \in [RecIds -> RecRecord] /\ advise \in AdviseRecord /\ tab \in [Tabs -> TabRecord]
      /\ \A v \in Tabs : tab[v].of # {} => tab[v].status \in {"adopted", "dismissed"}
      /\ advise.gone \subseteq With("open") /\ \A v \in Tabs : tab[v].of \cap advise.gone = {}
      /\ advise.firm \subseteq TitlesOf(With("dismissed")) /\ advise.fresh \cap advise.firm = {}
  BY AdvisorTypes DEF AdvisorInv
<1>1. NoTab \in TabRecord /\ NoTab.of = {}
  BY DEF NoTab, TabRecord
<1>2. CASE TabFails(u)
  <2>1. /\ rec' = rec /\ advise' = advise /\ tab' \in [Tabs -> TabRecord]
        /\ tab'[u] = NoTab /\ \A v \in Tabs : v # u => tab'[v] = tab[v]
    BY <1>0, <1>1, <1>2 DEF TabFails
  <2>2. /\ \A v \in Tabs : tab'[v].of # {} => tab'[v].status \in {"adopted", "dismissed"}
        /\ \A v \in Tabs : tab'[v].of \cap advise.gone = {}
    BY <1>0, <1>1, <2>1
  <2>3. QED
    BY <1>0, <2>1, <2>2, RecsStand, AdvisorInvNext
<1>3. ASSUME NEW i \in RecIds, TabUpdate(u, i) PROVE AdvisorInv' /\ DecisionKept
  <2>1. PICK status \in {"adopted", "dismissed"} : tab' = [tab EXCEPT ![u] = [of |-> {i}, status |-> status]]
    BY <1>3 DEF TabUpdate
  <2>2. rec' = rec /\ advise' = advise /\ i \notin advise.gone
    BY <1>3 DEF TabUpdate, LockedRecs
  <2>3. [of |-> {i}, status |-> status] \in TabRecord
    BY DEF TabRecord
  <2>4. /\ tab' \in [Tabs -> TabRecord]
        /\ tab'[u] = [of |-> {i}, status |-> status] /\ \A v \in Tabs : v # u => tab'[v] = tab[v]
    BY <1>0, <2>1, <2>3
  <2>5. /\ \A v \in Tabs : tab'[v].of # {} => tab'[v].status \in {"adopted", "dismissed"}
        /\ \A v \in Tabs : tab'[v].of \cap advise.gone = {}
    BY <1>0, <2>2, <2>4
  <2>6. QED
    BY <1>0, <2>2, <2>4, <2>5, RecsStand, AdvisorInvNext
<1>4. ASSUME NEW i \in RecIds, TabCommit(u, i) PROVE AdvisorInv' /\ DecisionKept
  <2>1. /\ tab[u].of = {i} /\ rec' = [rec EXCEPT ![i].status = tab[u].status]
        /\ tab' = [tab EXCEPT ![u] = NoTab]
        /\ advise' = IF tab[u].status = "adopted"
                     THEN [advise EXCEPT !.firm = advise.firm \ rec[i].title] ELSE advise
    BY <1>0, <1>4 DEF TabCommit, AdviseRecord
  <2>2. PICK status \in {"adopted", "dismissed"} : status = tab[u].status
    BY <1>0, <2>1
  <2>3. /\ rec' \in [RecIds -> RecRecord]
        /\ rec'[i].status = status /\ rec'[i].title = rec[i].title
        /\ \A j \in RecIds : j # i => rec'[j] = rec[j]
    BY <1>0, <2>1, <2>2 DEF RecRecord
  <2>4. tab' \in [Tabs -> TabRecord] /\ tab'[u] = NoTab /\ \A v \in Tabs : v # u => tab'[v] = tab[v]
    BY <1>0, <1>1, <2>1
  <2>5. /\ advise' \in AdviseRecord /\ advise'.gone = advise.gone /\ advise'.fresh = advise.fresh
        /\ advise'.firm = IF status = "adopted" THEN advise.firm \ rec[i].title ELSE advise.firm
    BY <1>0, <2>1, <2>2 DEF AdviseRecord
  <2>6. i \notin advise.gone
    BY <1>0, <2>1
  <2>7. advise'.gone \subseteq With("open")'
    BY <1>0, <2>3, <2>5, <2>6 DEF With
  <2>8. advise'.firm \subseteq TitlesOf(With("dismissed"))'
    <3>1. ASSUME NEW t \in advise'.firm PROVE \E j \in RecIds : rec'[j].status = "dismissed" /\ t \in rec'[j].title
      <4>1. t \in advise.firm
        BY <2>5
      <4>2. PICK j \in RecIds : rec[j].status = "dismissed" /\ t \in rec[j].title
        BY <1>0, <4>1 DEF TitlesOf, With
      <4>3. QED BY <2>2, <2>3, <2>5, <4>2
    <3>2. QED BY <3>1 DEF TitlesOf, With
  <2>9. /\ \A v \in Tabs : tab'[v].of # {} => tab'[v].status \in {"adopted", "dismissed"}
        /\ \A v \in Tabs : tab'[v].of \cap advise'.gone = {}
        /\ advise'.fresh \cap advise'.firm = {}
    BY <1>0, <1>1, <2>4, <2>5
  <2>10. AdvisorInv'
    BY <2>3, <2>4, <2>5, <2>7, <2>8, <2>9, AdvisorTypes
       DEF AdvisorInv, AdvisorTypeOK, RecRecord, AdviseRecord, TabRecord
  <2>11. DecisionKept
    BY <2>2, <2>3 DEF DecisionKept, Decided, With
  <2>12. QED BY <2>10, <2>11
<1>5. QED BY <1>2, <1>3, <1>4

LEMMA AdviceStep ==
    ASSUME AdvisorInv, [AdvisorNext]_adviceVars
    PROVE  AdvisorInv' /\ DecisionKept
<1>1. CASE UNCHANGED adviceVars
  BY <1>1 DEF adviceVars, AdvisorInv, AdvisorTypeOK, With, TitlesOf, DecisionKept, Decided
<1>2. CASE AdvisorNext
  BY <1>2, JobReads, JobCommits, TabSteps DEF AdvisorNext
<1>3. QED BY <1>1, <1>2

\* The job and the user write the same rows in transactions that overlap; what
\* the user decided the job leaves alone, and it suggests nothing dismissed.
THEOREM DecisionsStand == AdvisorInit /\ [][AdvisorNext]_adviceVars => DecisionsAreFinal
<1>1. AdvisorInv /\ [AdvisorNext]_adviceVars => AdvisorInv' /\ DecisionKept
  BY AdviceStep
<1>2. DecisionKept =>
        [\A i \in RecIds :
           /\ i \in Decided => /\ rec'[i].title = rec[i].title
                               /\ rec'[i].status \in {"adopted", "dismissed"}
           /\ rec'[i].status = "open" /\ rec[i] # rec'[i]
                => rec'[i].title \cap advise.firm = {}]_adviceVars
  BY DEF DecisionKept
<1>3. QED BY <1>1, <1>2, AdvisorInvInit, PTL DEF DecisionsAreFinal

-----------------------------------------------------------------------------
(* The digest.                                                              *)

WeekRecord == [mails : Nat, unmarked : Nat, quiet : BOOLEAN, passed : BOOLEAN]
DigestRecord == [stage : {"idle", "read", "built", "quiet", "sent"}, at : Nat, last : Int]

DigestShape ==
    /\ digestNow \in 0 .. Weeks * WeekTicks - 1
    /\ lastSent \in -1 .. digestNow
    /\ enabled \in BOOLEAN
    /\ digest \in DigestRecord /\ digest.at <= digestNow
    /\ digest.last \in -1 .. digest.at
    /\ week \in [0 .. Weeks - 1 -> WeekRecord]
    /\ digestFaults \in 0 .. MaxDigestFaults

\* What the job knows: nobody marks a digest but itself.
JobIsAlone ==
    /\ digest.stage # "idle" => digest.last = lastSent
    /\ digest.stage \in {"built", "quiet", "sent"} =>
         DueHour(digest.at) /\ (lastSent = -1 \/ WeekOf(lastSent) < ThisWeek)
    /\ digest.stage = "sent" => week[ThisWeek].mails > 0

\* The mark tells which weeks are done: a mail of w that nobody failed to record
\* is marked, or about to be.
MarkIsHonest ==
    /\ lastSent # -1 => /\ DueHour(lastSent)
                        /\ week[WeekOf(lastSent)].mails > 0 \/ week[WeekOf(lastSent)].quiet
    /\ \A w \in 0 .. Weeks - 1 :
         week[w].mails > week[w].unmarked =>
           \/ lastSent # -1 /\ w <= WeekOf(lastSent)
           \/ digest.stage = "sent" /\ w = ThisWeek

DigestInv ==
    /\ DigestShape /\ JobIsAlone /\ MarkIsHonest /\ OneDigestAWeek
    /\ \A w \in 0 .. Weeks - 1 : week[w].unmarked <= digestFaults

----------------------------------------------------------------------------
(* Weeks.                                                                   *)

LEMMA WeekBounds ==
    ASSUME NEW t \in Nat
    PROVE  /\ WeekOf(t) \in Nat
           /\ WeekOf(t) * WeekTicks <= t /\ t < WeekOf(t) * WeekTicks + WeekTicks
           /\ DueHour(t) => t < WeekOf(t) * WeekTicks + DueTicks
<1>1. WeekTicks \in Nat /\ WeekTicks > 0
  BY WeekAssumption
<1>2. PICK q, r : q = t \div WeekTicks /\ r = t % WeekTicks
  OBVIOUS
<1>3. q \in Int /\ r \in 0 .. WeekTicks - 1 /\ t = WeekTicks * q + r
  BY <1>1, <1>2
<1>4. q >= 0
  BY <1>1, <1>2
<1>5. QED BY <1>1, <1>2, <1>3, <1>4, WeekAssumption DEF WeekOf, DueHour

LEMMA WeekOfNow ==
    ASSUME NEW t \in 0 .. Weeks * WeekTicks - 1
    PROVE  WeekOf(t) \in 0 .. Weeks - 1
<1>1. WeekTicks \in Nat /\ WeekTicks > 0 /\ Weeks \in Nat
  BY WeekAssumption, WeeksAssumption
<1>2. t \in Nat /\ t < Weeks * WeekTicks
  BY <1>1
<1>3. PICK q \in Nat : q = WeekOf(t) /\ q * WeekTicks <= t
  BY <1>2, WeekBounds
<1>4. q * WeekTicks < Weeks * WeekTicks
  BY <1>1, <1>2, <1>3
<1>5. q < Weeks
  BY <1>1, <1>3, <1>4
<1>6. QED BY <1>1, <1>3, <1>5

LEMMA WeeksInOrder ==
    ASSUME NEW s \in Nat, NEW t \in Nat, s <= t
    PROVE  WeekOf(s) <= WeekOf(t)
<1>1. WeekTicks \in Nat /\ WeekTicks > 0
  BY WeekAssumption
<1>2. PICK p \in Nat, q \in Nat : p = WeekOf(s) /\ q = WeekOf(t)
  BY WeekBounds
<1>3. p * WeekTicks <= s /\ t < q * WeekTicks + WeekTicks
  BY <1>2, WeekBounds
<1>4. ASSUME q + 1 <= p PROVE FALSE
  <2>1. (q + 1) * WeekTicks <= p * WeekTicks
    BY <1>1, <1>4
  <2>2. (q + 1) * WeekTicks = q * WeekTicks + WeekTicks
    BY <1>1
  <2>3. QED BY <1>1, <1>3, <2>1, <2>2
<1>5. QED BY <1>2, <1>4

\* Two instants of the digest hour are of the same week just when less than
\* ResendAfter lies between them.
LEMMA SameWeek ==
    ASSUME NEW s \in Nat, NEW t \in Nat, s <= t, DueHour(s), DueHour(t)
    PROVE  t - s < ResendAfter <=> WeekOf(s) = WeekOf(t)
<1>1. WeekTicks \in Nat /\ WeekTicks > 0
  BY WeekAssumption
<1>2. PICK p \in Nat, q \in Nat : p = WeekOf(s) /\ q = WeekOf(t)
  BY WeekBounds
<1>3. /\ p * WeekTicks <= s /\ s < p * WeekTicks + DueTicks
      /\ q * WeekTicks <= t /\ t < q * WeekTicks + DueTicks
  BY <1>2, WeekBounds
<1>4. p * WeekTicks \in Nat /\ q * WeekTicks \in Nat
  BY <1>1
<1>5. CASE p = q
  BY <1>2, <1>3, <1>4, <1>5, WeekAssumption
<1>6. CASE p + 1 <= q
  <2>1. (p + 1) * WeekTicks <= q * WeekTicks
    BY <1>1, <1>6
  <2>2. (p + 1) * WeekTicks = p * WeekTicks + WeekTicks
    BY <1>1
  <2>3. ~(t - s < ResendAfter)
    BY <1>3, <1>4, <2>1, <2>2, WeekAssumption
  <2>4. QED BY <1>2, <1>6, <2>3
<1>7. p <= q
  BY <1>2, WeeksInOrder
<1>8. QED BY <1>5, <1>6, <1>7

----------------------------------------------------------------------------
LEMMA DigestFacts ==
    ASSUME DigestShape
    PROVE  /\ digestNow \in Nat /\ digest.at \in Nat /\ ThisWeek \in 0 .. Weeks - 1
           /\ week[ThisWeek] \in WeekRecord
           /\ lastSent # -1 => lastSent \in Nat /\ WeekOf(lastSent) \in 0 .. Weeks - 1
           /\ Weeks \in Nat
<1>1. digestNow \in Nat /\ digest.at \in Nat /\ Weeks \in Nat /\ Weeks * WeekTicks \in Nat
  BY WeekAssumption, WeeksAssumption DEF DigestShape, DigestRecord
<1>2. digest.at \in 0 .. Weeks * WeekTicks - 1
  BY <1>1 DEF DigestShape
<1>3. ThisWeek \in 0 .. Weeks - 1
  BY <1>2, WeekOfNow DEF ThisWeek
<1>4. lastSent # -1 => lastSent \in 0 .. Weeks * WeekTicks - 1
  BY <1>1 DEF DigestShape
<1>5. QED BY <1>1, <1>3, <1>4, WeekOfNow DEF DigestShape

LEMMA DigestInvInit == DigestInit => DigestInv
<1> SUFFICES ASSUME DigestInit PROVE DigestInv
  OBVIOUS
<1>1. 0 \in 0 .. Weeks * WeekTicks - 1
  <2>1. Weeks * WeekTicks >= 1
    BY WeekAssumption, WeeksAssumption
  <2>2. Weeks * WeekTicks \in Nat
    BY WeekAssumption, WeeksAssumption
  <2>3. QED BY <2>1, <2>2
<1>2. digest \in DigestRecord /\ digest.at = 0 /\ digest.last = -1 /\ digest.stage = "idle"
  BY DEF DigestInit, NoDigest, DigestRecord
<1>3. /\ week \in [0 .. Weeks - 1 -> WeekRecord]
      /\ \A w \in 0 .. Weeks - 1 : week[w].mails = 0 /\ week[w].unmarked = 0 /\ ~week[w].passed
  BY DEF DigestInit, WeekRecord
<1>4. DigestShape
  BY <1>1, <1>2, <1>3, MaxDigestFaultsAssumption DEF DigestInit, DigestShape
<1>5. JobIsAlone
  BY <1>2 DEF JobIsAlone
<1>6. MarkIsHonest /\ OneDigestAWeek /\ \A w \in 0 .. Weeks - 1 : week[w].unmarked <= digestFaults
  BY <1>3 DEF DigestInit, MarkIsHonest, OneDigestAWeek
<1>7. QED BY <1>4, <1>5, <1>6 DEF DigestInv

\* Steps that write no week and no mark.
LEMMA DigestReadInv == ASSUME DigestInv, DigestRead PROVE DigestInv'
<1>1. /\ digest.stage = "idle" /\ digest' = [stage |-> "read", at |-> digestNow, last |-> lastSent]
      /\ UNCHANGED <<digestNow, lastSent, enabled, week, digestFaults>>
  BY DEF DigestRead
<1>2. digestNow \in Nat /\ lastSent \in -1 .. digestNow
  BY DigestFacts DEF DigestInv, DigestShape
<1>3. digest'.stage = "read" /\ digest'.at = digestNow /\ digest'.last = lastSent /\ digest' \in DigestRecord
  BY <1>1, <1>2 DEF DigestRecord
<1>4. DigestShape'
  BY <1>1, <1>2, <1>3 DEF DigestInv, DigestShape
<1>5. JobIsAlone'
  BY <1>1, <1>3 DEF JobIsAlone
<1>6. MarkIsHonest'
  BY <1>1 DEF DigestInv, MarkIsHonest
<1>7. QED BY <1>1, <1>4, <1>5, <1>6 DEF DigestInv, OneDigestAWeek

LEMMA DigestBuildInv == ASSUME DigestInv, DigestBuild PROVE DigestInv'
<1>1. /\ digest.stage = "read" /\ DueHour(digest.at) /\ NotRecent(digest.last, digest.at)
      /\ digest' \in {[digest EXCEPT !.stage = "built"], [digest EXCEPT !.stage = "quiet"]}
      /\ UNCHANGED <<digestNow, lastSent, enabled, week, digestFaults>>
  BY DEF DigestBuild
<1>2. /\ digest'.stage \in {"built", "quiet"} /\ digest'.at = digest.at /\ digest'.last = digest.last
      /\ digest' \in DigestRecord
  BY <1>1 DEF DigestInv, DigestShape, DigestRecord
<1>3. DigestShape'
  BY <1>1, <1>2 DEF DigestInv, DigestShape
<1>4. lastSent = digest.last
  BY <1>1 DEF DigestInv, JobIsAlone
<1>5. lastSent = -1 \/ WeekOf(lastSent) < ThisWeek
  <2> SUFFICES ASSUME lastSent # -1 PROVE WeekOf(lastSent) < ThisWeek
    OBVIOUS
  <2>1. lastSent \in Nat /\ digest.at \in Nat /\ lastSent <= digest.at
    BY <1>4, DigestFacts DEF DigestInv, DigestShape
  <2>2. DueHour(lastSent) /\ ~(digest.at - lastSent < ResendAfter)
    BY <1>1, <1>4, <2>1, WeekAssumption DEF NotRecent, DigestInv, MarkIsHonest
  <2>3. WeekOf(lastSent) # WeekOf(digest.at) /\ WeekOf(lastSent) <= WeekOf(digest.at)
    BY <1>1, <2>1, <2>2, SameWeek, WeeksInOrder
  <2>4. WeekOf(lastSent) \in Nat /\ WeekOf(digest.at) \in Nat
    BY <2>1, WeekBounds
  <2>5. QED BY <2>3, <2>4 DEF ThisWeek
<1>6. JobIsAlone'
  BY <1>1, <1>2, <1>4, <1>5 DEF JobIsAlone, ThisWeek
<1>7. MarkIsHonest'
  BY <1>1, <1>2 DEF DigestInv, MarkIsHonest
<1>8. QED BY <1>1, <1>3, <1>6, <1>7 DEF DigestInv, OneDigestAWeek

\* The job is over: what it leaves of the weeks and the mark.
LEMMA DigestOver ==
    ASSUME DigestShape, digest' = NoDigest, UNCHANGED <<digestNow, enabled>>,
           lastSent' \in {lastSent, digest.at}, digestFaults' \in 0 .. MaxDigestFaults,
           week' \in [0 .. Weeks - 1 -> WeekRecord]
    PROVE  DigestShape' /\ JobIsAlone' /\ digest'.stage = "idle"
<1>1. /\ NoDigest \in DigestRecord /\ NoDigest.at = 0 /\ NoDigest.last = -1 /\ NoDigest.stage = "idle"
  BY DEF NoDigest, DigestRecord
<1>2. digestNow \in Nat /\ digest.at \in 0 .. digestNow
  BY DigestFacts DEF DigestShape
<1>3. DigestShape'
  BY <1>1, <1>2 DEF DigestShape
<1>4. QED BY <1>1, <1>3 DEF JobIsAlone

\* A run that passes the user over in the digest hour does so because the mark
\* is of this very week.
LEMMA DigestNotDueInv == ASSUME DigestInv, DigestNotDue PROVE DigestInv'
<1>1. /\ digest.stage = "read" /\ ~(DueHour(digest.at) /\ NotRecent(digest.last, digest.at))
      /\ digest' = NoDigest /\ UNCHANGED <<digestNow, lastSent, enabled, digestFaults>>
  BY DEF DigestNotDue
<1>2. PICK t \in 0 .. Weeks - 1 : t = ThisWeek
  BY DigestFacts DEF DigestInv
<1>3. week' = [week EXCEPT ![t].passed = week[t].passed \/ DueHour(digest.at)]
  BY <1>2 DEF DigestNotDue
<1>4. week \in [0 .. Weeks - 1 -> WeekRecord]
  BY DEF DigestInv, DigestShape
<1>5. /\ week' \in [0 .. Weeks - 1 -> WeekRecord]
      /\ \A w \in 0 .. Weeks - 1 :
           /\ week'[w].mails = week[w].mails /\ week'[w].unmarked = week[w].unmarked
           /\ week'[w].quiet = week[w].quiet
           /\ week'[w].passed => week[w].passed \/ (w = t /\ DueHour(digest.at))
  <2>1. \A b : (week[t].passed \/ b) \in BOOLEAN
    OBVIOUS
  <2>2. QED BY <1>3, <1>4, <2>1 DEF WeekRecord
<1>6. DigestShape' /\ JobIsAlone' /\ digest'.stage = "idle"
  BY <1>1, <1>5, DigestOver DEF DigestInv, DigestShape
<1>7. DueHour(digest.at) => week[t].mails > 0 \/ week[t].quiet
  <2> SUFFICES ASSUME DueHour(digest.at) PROVE week[t].mails > 0 \/ week[t].quiet
    OBVIOUS
  <2>1. /\ lastSent # -1 /\ lastSent \in Nat /\ digest.at \in Nat /\ lastSent <= digest.at
        /\ digest.at - lastSent < ResendAfter
    <3>1. digest.last = lastSent /\ ~NotRecent(digest.last, digest.at)
      BY <1>1 DEF DigestInv, JobIsAlone
    <3>2. lastSent # -1 /\ ~(digest.at - lastSent >= ResendAfter)
      BY <3>1 DEF NotRecent
    <3>3. digest.at \in Nat /\ lastSent \in Nat
      BY <3>2, DigestFacts DEF DigestInv
    <3>4. digest.last \in -1 .. digest.at /\ ResendAfter \in Nat
      BY WeekAssumption DEF DigestInv, DigestShape
    <3>5. QED BY <3>1, <3>2, <3>3, <3>4
  <2>2. DueHour(lastSent)
    BY <2>1 DEF DigestInv, MarkIsHonest
  <2>3. WeekOf(lastSent) = WeekOf(digest.at)
    BY <2>1, <2>2, SameWeek
  <2>4. QED BY <1>2, <2>1, <2>3 DEF DigestInv, MarkIsHonest, ThisWeek
<1>8. OneDigestAWeek'
  BY <1>5, <1>7 DEF DigestInv, OneDigestAWeek
<1>9. MarkIsHonest'
  <2>1. lastSent # -1 => WeekOf(lastSent) \in 0 .. Weeks - 1
    BY DigestFacts DEF DigestInv
  <2>2. QED BY <1>1, <1>5, <2>1 DEF DigestInv, MarkIsHonest
<1>10. QED BY <1>1, <1>5, <1>6, <1>8, <1>9 DEF DigestInv

\* The mail goes out in a week that has none yet but those nobody recorded.
LEMMA DigestSendInv == ASSUME DigestInv, DigestSend PROVE DigestInv'
<1>1. /\ digest.stage = "built" /\ digest' = [digest EXCEPT !.stage = "sent"]
      /\ UNCHANGED <<digestNow, lastSent, enabled, digestFaults>>
  BY DEF DigestSend
<1>2. PICK t \in 0 .. Weeks - 1 : t = ThisWeek
  BY DigestFacts DEF DigestInv
<1>3. week' = [week EXCEPT ![t].mails = week[t].mails + 1]
  BY <1>2 DEF DigestSend
<1>4. /\ week' \in [0 .. Weeks - 1 -> WeekRecord]
      /\ week'[t].mails = week[t].mails + 1 /\ week[t].mails \in Nat /\ week[t].unmarked \in Nat
      /\ \A w \in 0 .. Weeks - 1 :
           /\ w # t => week'[w].mails = week[w].mails
           /\ week'[w].unmarked = week[w].unmarked
           /\ week'[w].quiet = week[w].quiet /\ week'[w].passed = week[w].passed
  BY <1>3, SMTT(20) DEF DigestInv, DigestShape, WeekRecord
<1>5. /\ digest'.stage = "sent" /\ digest'.at = digest.at /\ digest'.last = digest.last
      /\ digest' \in DigestRecord /\ ThisWeek' = t
  BY <1>1, <1>2 DEF DigestInv, DigestShape, DigestRecord, ThisWeek
<1>6. DigestShape'
  BY <1>1, <1>4, <1>5 DEF DigestInv, DigestShape
<1>7. week[t].mails <= week[t].unmarked
  <2>1. lastSent = -1 \/ WeekOf(lastSent) < t
    BY <1>1, <1>2 DEF DigestInv, JobIsAlone
  <2>2. lastSent # -1 => WeekOf(lastSent) \in 0 .. Weeks - 1
    BY DigestFacts DEF DigestInv
  <2>3. ~(week[t].mails > week[t].unmarked)
    BY <1>1, <2>1, <2>2 DEF DigestInv, MarkIsHonest
  <2>4. QED BY <1>4, <2>3
<1>8. JobIsAlone'
  BY <1>1, <1>2, <1>4, <1>5 DEF DigestInv, JobIsAlone, ThisWeek
<1>9. OneDigestAWeek'
  <2> SUFFICES ASSUME NEW w \in 0 .. Weeks - 1
               PROVE  /\ week'[w].mails <= 1 + week'[w].unmarked
                      /\ week'[w].passed => week'[w].mails > 0 \/ week'[w].quiet
    BY DEF OneDigestAWeek
  <2>1. CASE w = t
    BY <1>4, <1>7, <2>1
  <2>2. CASE w # t
    BY <1>4, <2>2 DEF DigestInv, OneDigestAWeek
  <2>3. QED BY <2>1, <2>2
<1>10. MarkIsHonest'
  <2>1. lastSent # -1 => WeekOf(lastSent) \in 0 .. Weeks - 1
    BY DigestFacts DEF DigestInv
  <2>2. lastSent' # -1 => /\ DueHour(lastSent')
                          /\ week'[WeekOf(lastSent')].mails > 0 \/ week'[WeekOf(lastSent')].quiet
    BY <1>1, <1>4, <2>1 DEF DigestInv, MarkIsHonest
  <2>3. ASSUME NEW w \in 0 .. Weeks - 1, week'[w].mails > week'[w].unmarked
        PROVE  \/ lastSent # -1 /\ w <= WeekOf(lastSent)
               \/ w = t
    BY <1>1, <1>4, <2>3 DEF DigestInv, MarkIsHonest
  <2>4. QED BY <1>1, <1>5, <2>2, <2>3 DEF MarkIsHonest
<1>11. QED BY <1>1, <1>4, <1>6, <1>8, <1>9, <1>10 DEF DigestInv

LEMMA DigestMarkInv == ASSUME DigestInv, DigestMark PROVE DigestInv'
<1>1. /\ digest.stage \in {"sent", "quiet"} /\ digest' = NoDigest /\ lastSent' = digest.at
      /\ UNCHANGED <<digestNow, enabled, digestFaults>>
  BY DEF DigestMark
<1>2. PICK t \in 0 .. Weeks - 1 : t = ThisWeek
  BY DigestFacts DEF DigestInv
<1>3. week' = [week EXCEPT ![t].quiet = week[t].quiet \/ digest.stage = "quiet"]
  BY <1>2 DEF DigestMark
<1>4. /\ week' \in [0 .. Weeks - 1 -> WeekRecord]
      /\ digest.stage = "quiet" => week'[t].quiet
      /\ \A w \in 0 .. Weeks - 1 :
           /\ week'[w].mails = week[w].mails /\ week'[w].unmarked = week[w].unmarked
           /\ week[w].quiet => week'[w].quiet
           /\ week'[w].passed = week[w].passed
  <2>1. \A b : (week[t].quiet \/ b) \in BOOLEAN
    OBVIOUS
  <2>2. QED BY <1>3, <2>1 DEF WeekRecord, DigestInv, DigestShape
<1>5. DigestShape' /\ JobIsAlone' /\ digest'.stage = "idle"
  BY <1>1, <1>4, DigestOver DEF DigestInv, DigestShape
<1>6. /\ digest.at \in Nat /\ lastSent' # -1 /\ DueHour(lastSent') /\ WeekOf(lastSent') = t
      /\ lastSent = -1 \/ WeekOf(lastSent) < t
  BY <1>1, <1>2, DigestFacts DEF DigestInv, JobIsAlone, ThisWeek
<1>7. week'[t].mails > 0 \/ week'[t].quiet
  BY <1>1, <1>2, <1>4 DEF DigestInv, JobIsAlone
<1>8. lastSent # -1 => WeekOf(lastSent) \in 0 .. Weeks - 1
  BY DigestFacts DEF DigestInv
<1>9. MarkIsHonest'
  <2>1. ASSUME NEW w \in 0 .. Weeks - 1, week'[w].mails > week'[w].unmarked PROVE w <= t
    <3>1. week[w].mails > week[w].unmarked
      BY <1>4, <2>1
    <3>2. (lastSent # -1 /\ w <= WeekOf(lastSent)) \/ w = t
      BY <1>2, <3>1 DEF DigestInv, MarkIsHonest
    <3>3. QED BY <1>6, <1>8, <3>2
  <2>2. QED BY <1>6, <1>7, <2>1 DEF MarkIsHonest
<1>10. OneDigestAWeek'
  BY <1>4 DEF DigestInv, OneDigestAWeek
<1>11. QED BY <1>1, <1>4, <1>5, <1>9, <1>10 DEF DigestInv

\* A run that fails leaves the difference of mails and unrecorded mails as it
\* was, or one less.
LEMMA DigestFailsInv == ASSUME DigestInv, DigestFails PROVE DigestInv'
<1>1. /\ digest.stage # "idle" /\ digest' = NoDigest /\ digestFaults < MaxDigestFaults
      /\ digestFaults' = digestFaults + 1 /\ UNCHANGED <<digestNow, lastSent, enabled>>
  BY DEF DigestFails, DigestFault
<1>2. PICK t \in 0 .. Weeks - 1 : t = ThisWeek
  BY DigestFacts DEF DigestInv
<1>3. \/ week' = [week EXCEPT ![t].mails = week[t].mails + 1, ![t].unmarked = week[t].unmarked + 1]
         /\ digest.stage = "built"
      \/ week' = [week EXCEPT ![t].unmarked = week[t].unmarked + 1] /\ digest.stage = "sent"
      \/ week' = week /\ digest.stage # "sent"
  BY <1>2 DEF DigestFails, DigestInv, DigestShape, WeekRecord
<1>4. week \in [0 .. Weeks - 1 -> WeekRecord] /\ digestFaults \in 0 .. MaxDigestFaults
  BY DEF DigestInv, DigestShape
<1>5. week' \in [0 .. Weeks - 1 -> WeekRecord]
  BY <1>3, <1>4 DEF WeekRecord
<1>6. ASSUME NEW w \in 0 .. Weeks - 1
      PROVE  /\ w # t => week'[w] = week[w]
             /\ week'[w].quiet = week[w].quiet /\ week'[w].passed = week[w].passed
             /\ week'[w].mails >= week[w].mails /\ week'[w].unmarked <= week[w].unmarked + 1
             /\ week'[w].mails - week'[w].unmarked <= week[w].mails - week[w].unmarked
             /\ week[w].mails \in Nat /\ week[w].unmarked \in Nat
             /\ week'[w].mails \in Nat /\ week'[w].unmarked \in Nat
  <2>1. week[w] \in WeekRecord /\ week[w].mails \in Nat /\ week[w].unmarked \in Nat
    BY <1>4 DEF WeekRecord
  <2>2. /\ w # t => week'[w] = week[w]
        /\ week'[w].quiet = week[w].quiet /\ week'[w].passed = week[w].passed
        /\ \/ week'[w].mails = week[w].mails /\ week'[w].unmarked = week[w].unmarked
           \/ week'[w].mails = week[w].mails + 1 /\ week'[w].unmarked = week[w].unmarked + 1
           \/ week'[w].mails = week[w].mails /\ week'[w].unmarked = week[w].unmarked + 1
    <3>1. CASE week' = [week EXCEPT ![t].mails = week[t].mails + 1, ![t].unmarked = week[t].unmarked + 1]
      BY <1>4, <2>1, <3>1 DEF WeekRecord
    <3>2. CASE week' = [week EXCEPT ![t].unmarked = week[t].unmarked + 1]
      BY <1>4, <2>1, <3>2 DEF WeekRecord
    <3>3. QED BY <1>3, <3>1, <3>2
  <2>3. QED BY <2>1, <2>2
<1>7. digest.stage = "sent" =>
        week'[t].mails = week[t].mails /\ week'[t].unmarked = week[t].unmarked + 1
  BY <1>3, <1>4 DEF WeekRecord
<1>8. digestFaults' \in 0 .. MaxDigestFaults
  BY <1>1, <1>4, MaxDigestFaultsAssumption
<1>9. DigestShape' /\ JobIsAlone' /\ digest'.stage = "idle"
  BY <1>1, <1>5, <1>8, DigestOver DEF DigestInv
<1>10. lastSent # -1 => WeekOf(lastSent) \in 0 .. Weeks - 1
  BY DigestFacts DEF DigestInv
<1>11. MarkIsHonest'
  <2>1. lastSent' # -1 => /\ DueHour(lastSent')
                          /\ week'[WeekOf(lastSent')].mails > 0 \/ week'[WeekOf(lastSent')].quiet
    BY <1>1, <1>6, <1>10 DEF DigestInv, MarkIsHonest
  <2>2. ASSUME NEW w \in 0 .. Weeks - 1, week'[w].mails > week'[w].unmarked
        PROVE  lastSent # -1 /\ w <= WeekOf(lastSent)
    <3>1. week[w].mails > week[w].unmarked
      BY <1>6, <2>2
    <3>2. ~(digest.stage = "sent" /\ w = t)
      BY <1>6, <1>7, <2>2 DEF DigestInv, OneDigestAWeek
    <3>3. QED BY <1>2, <3>1, <3>2 DEF DigestInv, MarkIsHonest
  <2>3. QED BY <1>1, <2>1, <2>2 DEF MarkIsHonest
<1>12. OneDigestAWeek'
  <2>1. ASSUME NEW w \in 0 .. Weeks - 1
        PROVE  /\ week'[w].mails <= 1 + week'[w].unmarked
               /\ week'[w].passed => week'[w].mails > 0 \/ week'[w].quiet
    <3>1. /\ week[w].mails <= 1 + week[w].unmarked
          /\ week[w].passed => week[w].mails > 0 \/ week[w].quiet
      BY DEF DigestInv, OneDigestAWeek
    <3>2. QED BY <1>6, <3>1
  <2>2. QED BY <2>1 DEF OneDigestAWeek
<1>13. \A w \in 0 .. Weeks - 1 : week'[w].unmarked <= digestFaults'
  BY <1>1, <1>4, <1>6 DEF DigestInv
<1>14. QED BY <1>9, <1>11, <1>12, <1>13 DEF DigestInv

LEMMA DigestInvHolds == DigestInit /\ [][DigestNext]_digestVars => []DigestInv
<1>1. DigestInv /\ [DigestNext]_digestVars => DigestInv'
  <2> SUFFICES ASSUME DigestInv, [DigestNext]_digestVars PROVE DigestInv'
    OBVIOUS
  <2>1. CASE Unsubscribe
    BY <2>1 DEF Unsubscribe, DigestInv, DigestShape, JobIsAlone, MarkIsHonest, OneDigestAWeek, ThisWeek
  <2>2. CASE DigestTick
    <3>1. /\ digestNow' = digestNow + 1 /\ digestNow < Weeks * WeekTicks - 1
          /\ UNCHANGED <<lastSent, enabled, digest, week, digestFaults>>
      BY <2>2 DEF DigestTick
    <3>2. digestNow \in Nat /\ Weeks * WeekTicks \in Nat
      BY DigestFacts, WeekAssumption, WeeksAssumption DEF DigestInv
    <3>3. DigestShape'
      BY <3>1, <3>2 DEF DigestInv, DigestShape, DigestRecord
    <3>4. QED BY <3>1, <3>3 DEF DigestInv, JobIsAlone, MarkIsHonest, OneDigestAWeek, ThisWeek
  <2>3. CASE UNCHANGED digestVars
    BY <2>3 DEF digestVars, DigestInv, DigestShape, JobIsAlone, MarkIsHonest, OneDigestAWeek, ThisWeek
  <2>4. QED
    BY <2>1, <2>2, <2>3, DigestReadInv, DigestNotDueInv, DigestBuildInv, DigestSendInv, DigestMarkInv,
       DigestFailsInv DEF DigestNext
<1>2. QED BY <1>1, DigestInvInit, PTL

\* For any length of the week and of the digest hour, any number of weeks, runs
\* and failures: one recorded mail a week, and no week passed over without one.
THEOREM OneDigestEachWeek == DigestInit /\ [][DigestNext]_digestVars => []OneDigestAWeek
<1>1. DigestInv => OneDigestAWeek
  BY DEF DigestInv
<1>2. QED BY <1>1, DigestInvHolds, PTL

LEMMA DigestTypes == DigestInv => DigestTypeOK
<1> SUFFICES ASSUME DigestInv PROVE DigestTypeOK
  OBVIOUS
<1>1. ASSUME NEW w \in 0 .. Weeks - 1
      PROVE  week[w] \in [mails : 0 .. MaxDigestFaults + 1, unmarked : 0 .. MaxDigestFaults,
                          quiet : BOOLEAN, passed : BOOLEAN]
  <2>1. week[w] \in WeekRecord /\ digestFaults \in 0 .. MaxDigestFaults
    BY DEF DigestInv, DigestShape
  <2>2. week[w].unmarked <= digestFaults /\ week[w].mails <= 1 + week[w].unmarked
    BY DEF DigestInv, OneDigestAWeek
  <2>3. week[w].mails \in Nat /\ week[w].unmarked \in Nat
    BY <2>1 DEF WeekRecord
  <2>4. week[w].mails \in 0 .. MaxDigestFaults + 1 /\ week[w].unmarked \in 0 .. MaxDigestFaults
    BY <2>1, <2>2, <2>3, MaxDigestFaultsAssumption
  <2>5. QED BY <2>1, <2>4 DEF WeekRecord
<1>2. week \in [0 .. Weeks - 1 -> [mails : 0 .. MaxDigestFaults + 1, unmarked : 0 .. MaxDigestFaults,
                                   quiet : BOOLEAN, passed : BOOLEAN]]
  BY <1>1 DEF DigestInv, DigestShape
<1>3. digest.at \in 0 .. digestNow /\ digest.last \in -1 .. digestNow
  BY DigestFacts DEF DigestInv, DigestShape
<1>4. digest \in [stage : {"idle", "read", "built", "quiet", "sent"}, at : 0 .. digestNow,
                  last : -1 .. digestNow]
  BY <1>3 DEF DigestInv, DigestShape, DigestRecord
<1>5. QED BY <1>2, <1>4 DEF DigestInv, DigestShape, DigestTypeOK

-----------------------------------------------------------------------------
(* The break-even estimator.                                                *)

LEMMA CeilDivBounds ==
    ASSUME NEW a \in Nat, NEW b \in Nat \ {0}
    PROVE  /\ CeilDiv(a, b) \in Nat
           /\ a <= CeilDiv(a, b) * b
           /\ (CeilDiv(a, b) - 1) * b < a
  BY RoundingUp DEF CeilDiv

\* Nothing smaller would do.
LEMMA CeilDivLeast ==
    ASSUME NEW a \in Nat, NEW b \in Nat \ {0}, NEW n \in Nat, a <= n * b
    PROVE  CeilDiv(a, b) <= n
<1>1. PICK c \in Nat : c = CeilDiv(a, b) /\ (c - 1) * b < a
  BY CeilDivBounds
<1>2. c - 1 \in Int /\ (c - 1) * b \in Int /\ n * b \in Int
  BY <1>1
<1>3. (c - 1) * b < n * b
  BY <1>1, <1>2
<1>4. c - 1 < n
  BY <1>2, <1>3, LessFromTimes
<1>5. QED BY <1>1, <1>4

\* The volume shown pays for the first GPU, is within its reach, and is the least
\* such volume.
LEMMA ShownVolume ==
    ASSUME NEW q \in Quotes, NEW b \in BreakEvenTokens(q)
    PROVE  b <= q.capacity /\ q.step <= b * q.price /\ (b - 1) * q.price < q.step
<1>1. /\ q.price \in Nat \ {0} /\ q.step \in Nat /\ q.capacity \in Nat
      /\ b = CeilDiv(q.step, q.price) /\ ~(q.price * q.capacity <= q.step)
  BY QuoteAssumption DEF Quotes, BreakEvenTokens
<1>2. q.step <= b * q.price /\ (b - 1) * q.price < q.step
  BY <1>1, CeilDivBounds
<1>3. q.step <= q.capacity * q.price
  <2>1. q.price * q.capacity \in Nat /\ q.price * q.capacity = q.capacity * q.price
    BY <1>1
  <2>2. QED BY <1>1, <2>1
<1>4. b <= q.capacity
  BY <1>1, <1>3, CeilDivLeast
<1>5. QED BY <1>2, <1>4

\* Who is told to buy could have bought one GPU with profit, and has passed the
\* volume at which that begins.
LEMMA ToldToBuy ==
    ASSUME NEW q \in Quotes, Recommendation(q) = "gpu"
    PROVE  \E b \in BreakEvenTokens(q) : b <= q.tokens
<1>1. /\ q.tokens \in Nat /\ q.price \in Nat \ {0} /\ q.step \in Nat /\ q.capacity \in Nat \ {0}
      /\ Gpus(q) * q.step < q.tokens * q.price
  BY QuoteAssumption DEF Quotes, Recommendation
<1>2. Gpus(q) \in Nat
  BY <1>1, CeilDivBounds DEF Gpus
<1>3. q.tokens # 0
  <2>1. ASSUME q.tokens = 0 PROVE FALSE
    <3>1. q.tokens * q.price = 0 /\ Gpus(q) * q.step >= 0
      BY <1>1, <1>2, <2>1
    <3>2. QED BY <1>1, <1>2, <3>1
  <2>2. QED BY <2>1
<1>4. PICK g \in Nat : g = Gpus(q) /\ q.tokens <= g * q.capacity
  BY <1>1, <1>3, CeilDivBounds DEF Gpus
<1>5. g # 0
  <2>1. ASSUME g = 0 PROVE FALSE
    <3>1. g * q.capacity = 0
      BY <1>1, <2>1
    <3>2. QED BY <1>1, <1>3, <1>4, <3>1
  <2>2. QED BY <2>1
<1>6. q.step < q.capacity * q.price
  <2>1. q.tokens * q.price <= (g * q.capacity) * q.price
    BY <1>1, <1>4, TimesKeepsOrder
  <2>2. (g * q.capacity) * q.price = (q.capacity * q.price) * g
    BY <1>1, <1>4
  <2>3. g * q.step = q.step * g /\ q.step * g \in Int /\ q.tokens * q.price \in Int
        /\ q.capacity * q.price \in Int /\ (q.capacity * q.price) * g \in Int
    BY <1>1, <1>4
  <2>4. q.step * g < (q.capacity * q.price) * g
    BY <1>1, <1>4, <2>1, <2>2, <2>3
  <2>5. QED BY <1>1, <1>4, <2>3, <2>4, LessFromTimes
<1>7. q.step <= q.tokens * q.price
  <2>1. q.step * 1 <= q.step * g
    BY <1>1, <1>4, <1>5, TimesKeepsOrder
  <2>2. q.step * g = g * q.step /\ q.step * g \in Int /\ q.tokens * q.price \in Int
    BY <1>1, <1>4
  <2>3. QED BY <1>1, <1>4, <2>1, <2>2
<1>8. CeilDiv(q.step, q.price) <= q.tokens
  BY <1>1, <1>7, CeilDivLeast
<1>9. BreakEvenTokens(q) = {CeilDiv(q.step, q.price)}
  <2>1. q.price * q.capacity = q.capacity * q.price /\ q.price * q.capacity \in Int
    BY <1>1
  <2>2. ~(q.price = 0 \/ q.price * q.capacity <= q.step)
    BY <1>1, <1>6, <2>1
  <2>3. QED BY <2>2 DEF BreakEvenTokens
<1>10. QED BY <1>8, <1>9

\* For any prices and volumes the volume shown and the advice agree.
THEOREM BreakEvenAgrees == BreakEvenInit /\ [][BreakEvenNext]_quote => []BreakEvenIsHonest
<1>1. (quote \in Quotes) /\ [BreakEvenNext]_quote => (quote \in Quotes)'
  BY DEF BreakEvenNext, AskAgain, Quotes
<1>2. quote \in Quotes => BreakEvenIsHonest
  BY ShownVolume, ToldToBuy DEF BreakEvenIsHonest
<1>3. BreakEvenInit => quote \in Quotes
  BY DEF BreakEvenInit
<1>4. QED BY <1>1, <1>2, <1>3, PTL

-----------------------------------------------------------------------------
(* The reports.                                                             *)

\* What a row may say of itself.
FlagSets == {{"hit"}, {}, {"routed"}, {"throttled"}, {"failed"}, {"failed", "routed"}, {"routed", "escalated"}}

RequestRow == [at : Nat, model : Models, tokens : Nat, flags : FlagSets, cost : Nat, would : Int, first : Nat]

\* Every row is priced as its model and its flags say.
ReportsInv ==
    /\ clock \in 0 .. MaxTick
    /\ requests \in Seq(RequestRow) /\ Len(requests) <= MaxRows
    /\ \A i \in DOMAIN requests :
         /\ requests[i].at <= clock /\ requests[i].would >= NoPrice
         /\ "hit" \in requests[i].flags => requests[i].cost = 0

LEMMA ReportsInvTypes == ReportsInv => UsageReportsTypeOK
<1> SUFFICES ASSUME ReportsInv PROVE UsageReportsTypeOK
  OBVIOUS
<1>1. ASSUME NEW i \in DOMAIN requests
      PROVE  /\ requests[i].at \in 0 .. clock /\ requests[i].cost >= 0
             /\ requests[i].would >= NoPrice /\ requests[i].model \in Models
  <2>1. requests[i] \in RequestRow
    BY DEF ReportsInv
  <2>2. requests[i].at \in Nat /\ requests[i].cost \in Nat /\ requests[i].model \in Models
    BY <2>1 DEF RequestRow
  <2>3. QED BY <2>2 DEF ReportsInv
<1>2. QED BY <1>1 DEF ReportsInv, UsageReportsTypeOK

----------------------------------------------------------------------------
(* Prices. *)

LEMMA QuantizedIsNatural ==
    ASSUME NEW amount \in Nat
    PROVE  Quantized(amount) \in Nat
<1>1. PICK a, b : a = 2 * amount + PriceUnit /\ b = 2 * PriceUnit
  OBVIOUS
<1>2. a \in Nat /\ b \in Nat \ {0}
  BY <1>1, UsageReportsAssumption
<1>3. a \div b \in Nat
  BY <1>2
<1>4. QED BY <1>1, <1>3 DEF Quantized

LEMMA LastInForce ==
    ASSUME NEW S \in SUBSET Int, IsFiniteSet(S), S # {}
    PROVE  Max(S) \in S /\ \A x \in S : x <= Max(S)
<1> DEFINE C == {T \in SUBSET S : T # {} => \E m \in T : \A x \in T : x <= m}
<1>1. ASSUME NEW T \in SUBSET S, \A y \in T : T \ {y} \in C PROVE T \in C
  <2>1. ASSUME T # {} PROVE \E m \in T : \A x \in T : x <= m
    <3>1. PICK y \in T : TRUE
      BY <2>1
    <3>2. CASE T \ {y} = {}
      BY <3>1, <3>2
    <3>3. CASE T \ {y} # {}
      <4>1. PICK m \in T \ {y} : \A x \in T \ {y} : x <= m
        BY <1>1, <3>1, <3>3
      <4>2. CASE y <= m
        BY <4>1, <4>2
      <4>3. CASE ~(y <= m)
        BY <4>1, <4>3
      <4>4. QED BY <4>2, <4>3
    <3>4. QED BY <3>2, <3>3
  <2>2. QED BY <2>1
<1>2. SUBSET S \subseteq C
  <2> HIDE DEF C
  <2>1. QED BY <1>1, SubsetInduction
<1>3. \E m \in S : \A x \in S : x <= m
  BY <1>2
<1>4. QED BY <1>3 DEF Max

LEMMA CostOfTokens ==
    ASSUME NEW model \in Models, NEW amount \in [input : Nat, output : Nat], NEW day
    PROVE  ComputeCost(model, amount, day) \in Int /\ ComputeCost(model, amount, day) >= NoPrice
<1>1. CASE InForce(model, day) = {}
  BY <1>1 DEF ComputeCost, NoPrice
<1>2. CASE InForce(model, day) # {}
  <2>1. PICK prices \in Seq([from : Nat, input : Nat, output : Nat]) : prices = PriceTable[model]
    BY UsageReportsAssumption
  <2>2. InForce(model, day) \in SUBSET (1 .. Len(prices)) /\ Len(prices) \in Nat
    BY <2>1 DEF InForce
  <2>3. IsFiniteSet(InForce(model, day))
    <3>1. IsFiniteSet(1 .. Len(prices))
      BY <2>2, FS_Interval
    <3>2. QED BY <2>2, <3>1, FS_Subset
  <2>4. PICK i \in 1 .. Len(prices) : i = Max(InForce(model, day))
    <3>1. InForce(model, day) \in SUBSET Int
      BY <2>2
    <3>2. QED BY <1>2, <2>2, <2>3, <3>1, LastInForce
  <2>5. PICK price : price = prices[i] /\ price \in [from : Nat, input : Nat, output : Nat]
    BY ElementOfSeq
  <2>6. price.input * amount.input \in Nat /\ price.output * amount.output \in Nat
    <3>1. price.input \in Nat /\ amount.input \in Nat /\ price.output \in Nat /\ amount.output \in Nat
      BY <2>5
    <3>2. \A a, b \in Nat : a * b \in Nat
      OBVIOUS
    <3>3. QED BY <3>1, <3>2, Zenon
  <2>7. PICK p \in Nat, q \in Nat : p = Quantized(price.input * amount.input) /\ q = Quantized(price.output * amount.output)
    BY <2>6, QuantizedIsNatural
  <2>8. ComputeCost(model, amount, day) = Quantized(price.input * amount.input) + Quantized(price.output * amount.output)
    BY <1>2, <2>1, <2>4, <2>5 DEF ComputeCost
  <2>9. ComputeCost(model, amount, day) = p + q
    BY <2>7, <2>8
  <2>10. QED BY <2>9 DEF NoPrice
<1>3. QED BY <1>1, <1>2

LEMMA NotBelowZero ==
    ASSUME NEW c \in Int
    PROVE  Max({0, c}) \in Nat
<1>1. {0, c} \in SUBSET Int /\ {0, c} # {} /\ 0 \in {0, c}
  OBVIOUS
<1>2. IsFiniteSet({0, c})
  <2>1. IsFiniteSet({0}) /\ {0, c} = {0} \cup {c}
    BY FS_Singleton
  <2>2. QED BY <2>1, FS_AddElement
<1>3. Max({0, c}) \in {0, c} /\ 0 <= Max({0, c})
  BY <1>1, <1>2, LastInForce
<1>4. QED BY <1>3

----------------------------------------------------------------------------
(* Rows. *)

LEMMA RecordedInv ==
    ASSUME ReportsInv, NEW requested \in Models, NEW used \in Models,
           NEW amount \in [input : Nat, output : Nat], NEW flags \in FlagSets, NEW first \in Nat,
           Recorded(requested, used, amount, flags, first)
    PROVE  ReportsInv'
<1>1. PICK cost, would : /\ cost = CostUsd(used, amount, "hit" \in flags)
                         /\ would = ComputeCost(requested, amount, DayOf(clock))
  OBVIOUS
<1>2. cost \in Nat /\ ("hit" \in flags => cost = 0)
  <2>1. Max({0, ComputeCost(used, amount, DayOf(clock))}) \in Nat
    BY CostOfTokens, NotBelowZero
  <2>2. QED BY <1>1, <2>1 DEF CostUsd
<1>3. would \in Int /\ would >= NoPrice
  BY <1>1, CostOfTokens
<1>4. PICK tokens : tokens = amount.input + amount.output /\ tokens \in Nat
  OBVIOUS
<1>5. PICK row : row = [at |-> clock, model |-> used, tokens |-> tokens, flags |-> flags,
                        cost |-> cost, would |-> would, first |-> first]
  OBVIOUS
<1>6. requests' = Append(requests, row) /\ clock' = clock /\ Len(requests) < MaxRows
  BY <1>1, <1>4, <1>5 DEF Recorded
<1>7. row \in RequestRow
  <2>1. clock \in Nat
    BY DEF ReportsInv
  <2>2. [at |-> clock, model |-> used, tokens |-> tokens, flags |-> flags,
         cost |-> cost, would |-> would, first |-> first] \in RequestRow
    BY <1>2, <1>3, <1>4, <2>1, Zenon DEF RequestRow
  <2>3. QED BY <1>5, <2>2
<1>8. /\ row.at <= clock /\ row.would >= NoPrice /\ ("hit" \in row.flags => row.cost = 0)
  <2>1. row.at = clock /\ row.would = would /\ row.flags = flags /\ row.cost = cost
    BY <1>5
  <2>2. clock \in Nat
    BY DEF ReportsInv
  <2>3. QED BY <1>2, <1>3, <2>1, <2>2
<1>9. requests \in Seq(RequestRow)
  BY DEF ReportsInv
<1>10. /\ requests' \in Seq(RequestRow) /\ Len(requests') = Len(requests) + 1
       /\ DOMAIN requests' = 1 .. Len(requests) + 1
       /\ requests'[Len(requests) + 1] = row
       /\ \A i \in 1 .. Len(requests) : requests'[i] = requests[i]
  BY <1>6, <1>7, <1>9
<1>11. Len(requests') <= MaxRows
  <2>1. Len(requests) \in Nat
    BY <1>9
  <2>2. QED BY <1>6, <1>10, <2>1, UsageReportsAssumption
<1>12. ASSUME NEW i \in DOMAIN requests'
       PROVE  /\ requests'[i].at <= clock' /\ requests'[i].would >= NoPrice
              /\ "hit" \in requests'[i].flags => requests'[i].cost = 0
  <2>1. CASE i = Len(requests) + 1
    BY <1>6, <1>8, <1>10, <2>1
  <2>2. CASE i # Len(requests) + 1
    <3>1. i \in DOMAIN requests /\ requests'[i] = requests[i]
      BY <1>9, <1>10, <2>2
    <3>2. QED BY <1>6, <3>1 DEF ReportsInv
  <2>3. QED BY <2>1, <2>2
<1>13. clock' \in 0 .. MaxTick
  BY <1>6 DEF ReportsInv
<1>14. QED BY <1>10, <1>11, <1>12, <1>13 DEF ReportsInv

LEMMA ReportsBegin == UsageReportsInit => ReportsInv
<1> SUFFICES ASSUME UsageReportsInit PROVE ReportsInv
  OBVIOUS
<1>1. clock = 0 /\ requests = <<>>
  BY DEF UsageReportsInit
<1>2. requests \in Seq(RequestRow) /\ Len(requests) = 0 /\ DOMAIN requests = {}
  BY <1>1
<1>3. QED BY <1>1, <1>2, UsageReportsAssumption DEF ReportsInv

LEMMA ReportsInvNext == ReportsInv /\ [UsageReportsNext]_reportVars => ReportsInv'
<1> SUFFICES ASSUME ReportsInv, [UsageReportsNext]_reportVars PROVE ReportsInv'
  OBVIOUS
<1>0. Usages \subseteq [input : Nat, output : Nat] /\ 0 \in Nat
  BY UsageReportsAssumption
<1>1. CASE UNCHANGED reportVars
  BY <1>1 DEF ReportsInv, reportVars
<1>2. CASE HitRow
  <2>1. {"hit"} \in FlagSets
    BY DEF FlagSets
  <2>2. PICK requested \in Models, used \in Models, amount \in Usages : Recorded(requested, used, amount, {"hit"}, 0)
    BY <1>2 DEF HitRow
  <2>3. QED BY <1>0, <2>1, <2>2, RecordedInv
<1>3. CASE PassedRow
  <2>1. {} \in FlagSets
    BY DEF FlagSets
  <2>2. PICK requested \in Models, used \in Models, amount \in Usages : Recorded(requested, used, amount, {}, 0)
    BY <1>3 DEF PassedRow
  <2>3. QED BY <1>0, <2>1, <2>2, RecordedInv
<1>4. CASE RedirectedRow
  <2>1. {"routed"} \in FlagSets /\ {"throttled"} \in FlagSets
    BY DEF FlagSets
  <2>2. PICK requested \in Models, used \in Models, amount \in Usages, flags \in {{"routed"}, {"throttled"}} :
          Recorded(requested, used, amount, flags, 0)
    BY <1>4 DEF RedirectedRow
  <2>3. flags \in FlagSets
    BY <2>1
  <2>4. QED BY <1>0, <2>2, <2>3, RecordedInv
<1>5. CASE RefusedRow
  <2>1. {"failed"} \in FlagSets /\ {"failed", "routed"} \in FlagSets
    BY DEF FlagSets
  <2>2. PICK requested \in Models, used \in Models, flags \in {{"failed"}, {"failed", "routed"}} :
          Recorded(requested, used, [input |-> 0, output |-> 0], flags, 0)
    BY <1>5 DEF RefusedRow
  <2>3. flags \in FlagSets /\ [input |-> 0, output |-> 0] \in [input : Nat, output : Nat]
    BY <2>1
  <2>4. QED BY <1>0, <2>2, <2>3, RecordedInv
<1>6. CASE EscalatedRow
  <2>1. {"routed", "escalated"} \in FlagSets
    BY DEF FlagSets
  <2>2. PICK requested \in Models, cheap \in Models, amount \in Usages :
          LET first == Max({0, ComputeCost(cheap, amount, DayOf(clock))})
          IN  \/ \E second \in Usages :
                   Recorded(requested, requested,
                            [input  |-> amount.input + second.input,
                             output |-> amount.output + second.output],
                            {"routed", "escalated"}, first)
              \/ Recorded(requested, requested, amount, {"routed", "escalated"}, first)
    BY <1>6 DEF EscalatedRow
  <2>3. amount \in [input : Nat, output : Nat]
    BY <1>0
  <2>4. PICK first \in Nat : first = Max({0, ComputeCost(cheap, amount, DayOf(clock))})
    BY <2>3, CostOfTokens, NotBelowZero
  <2>5. CASE Recorded(requested, requested, amount, {"routed", "escalated"}, first)
    BY <2>1, <2>3, <2>5, RecordedInv
  <2>6. ASSUME NEW second \in Usages,
               Recorded(requested, requested,
                        [input  |-> amount.input + second.input,
                         output |-> amount.output + second.output],
                        {"routed", "escalated"}, first)
        PROVE  ReportsInv'
    <3>1. second \in [input : Nat, output : Nat]
      BY <1>0
    <3>2. amount.input + second.input \in Nat /\ amount.output + second.output \in Nat
      BY <2>3, <3>1
    <3>3. PICK both \in [input : Nat, output : Nat] :
            both = [input |-> amount.input + second.input, output |-> amount.output + second.output]
      BY <3>2
    <3>4. Recorded(requested, requested, both, {"routed", "escalated"}, first)
      BY <2>6, <3>3
    <3>5. QED BY <2>1, <3>4, RecordedInv
  <2>7. QED BY <2>2, <2>4, <2>5, <2>6
<1>7. CASE ReportTick
  <2>1. clock < MaxTick /\ clock' = clock + 1 /\ requests' = requests
    BY <1>7 DEF ReportTick
  <2>2. clock \in 0 .. MaxTick /\ requests \in Seq(RequestRow)
    BY DEF ReportsInv
  <2>3. clock' \in 0 .. MaxTick
    BY <2>1, <2>2, UsageReportsAssumption
  <2>4. ASSUME NEW i \in DOMAIN requests PROVE requests[i].at <= clock'
    <3>1. requests[i] \in RequestRow
      BY <2>2
    <3>2. requests[i].at \in Nat /\ requests[i].at <= clock
      BY <3>1 DEF RequestRow, ReportsInv
    <3>3. QED BY <2>1, <2>2, <3>2
  <2>5. QED BY <2>1, <2>3, <2>4 DEF ReportsInv
<1>8. QED BY <1>1, <1>2, <1>3, <1>4, <1>5, <1>6, <1>7 DEF UsageReportsNext

----------------------------------------------------------------------------
(* The queries are sums of what each row is worth. *)

\* What a row would have cost, and saved, where there is a price to say so.
WouldOf(i) == IF requests[i].would = NoPrice THEN 0 ELSE requests[i].would
SavedOf(i) == IF requests[i].would = NoPrice THEN 0 ELSE requests[i].would - requests[i].cost
Has(i, flag) == flag \in requests[i].flags

LEMMA RowNumbers ==
    ASSUME ReportsInv, NEW i \in DOMAIN requests
    PROVE  /\ requests[i].cost \in Nat /\ requests[i].would \in Int /\ requests[i].tokens \in Nat
           /\ requests[i].at \in Nat /\ requests[i].model \in Models /\ requests[i].flags \in FlagSets
           /\ WouldOf(i) \in Int /\ SavedOf(i) \in Int
<1>1. requests[i] \in RequestRow
  BY DEF ReportsInv
<1>2. /\ requests[i].cost \in Nat /\ requests[i].would \in Int /\ requests[i].tokens \in Nat
      /\ requests[i].at \in Nat /\ requests[i].model \in Models /\ requests[i].flags \in FlagSets
  BY <1>1 DEF RequestRow
<1>3. QED BY <1>2 DEF WouldOf, SavedOf

LEMMA FinitelyManyRows ==
    ASSUME ReportsInv, NEW R \in SUBSET DOMAIN requests
    PROVE  IsFiniteSet(R)
<1>1. DOMAIN requests = 1 .. Len(requests) /\ Len(requests) \in Nat
  BY DEF ReportsInv
<1>2. IsFiniteSet(1 .. Len(requests))
  BY <1>1, FS_Interval
<1>3. QED BY <1>1, <1>2, FS_Subset

\* A sum over some members is one over all that counts the others as nothing.
LEMMA SumsOfSome ==
    ASSUME NEW S, IsFiniteSet(S), NEW T \in SUBSET S, NEW f, Counts(f, T), NEW v,
           \A x \in T : v[x] = f[x], \A x \in S \ T : v[x] = 0
    PROVE  Counts(v, S) /\ SumFunctionOnSet(f, T) = SumFunctionOnSet(v, S)
<1>1. Counts(v, S)
  BY DEF Counts
<1>2. PICK U : U = S \ T
  OBVIOUS
<1>3. IsFiniteSet(T) /\ IsFiniteSet(U) /\ T \cup U = S /\ T \cap U = {}
  BY <1>2, FS_Subset
<1>4. Counts(v, U) /\ Counts(v, T) /\ \A x \in U : v[x] = v[x] - v[x]
  BY <1>1, <1>2 DEF Counts
<1>5. SumFunctionOnSet(v, U) = 0
  <2>1. SumFunctionOnSet(v, U) = SumFunctionOnSet(v, U) - SumFunctionOnSet(v, U)
    BY <1>3, <1>4, SumsSubtract
  <2>2. SumFunctionOnSet(v, U) \in Int
    BY <1>3, <1>4, SumOverSet
  <2>3. QED BY <2>1, <2>2
<1>6. SumFunctionOnSet(v, T) = SumFunctionOnSet(f, T)
  BY <1>3, SumsAgree
<1>7. SumFunctionOnSet(v, S) = SumFunctionOnSet(v, T) + SumFunctionOnSet(v, U)
  BY <1>1, <1>3, SumsSplit
<1>8. SumFunctionOnSet(v, T) \in Int
  BY <1>3, <1>4, SumOverSet
<1>9. QED BY <1>1, <1>5, <1>6, <1>7, <1>8

LEMMA SavedIsASum ==
    ASSUME ReportsInv, NEW R \in SUBSET DOMAIN requests, NEW Q \in SUBSET R, NEW v,
           \A i \in Q : v[i] = SavedOf(i), \A i \in R \ Q : v[i] = 0
    PROVE  Counts(v, R) /\ Saved(Q) = SumFunctionOnSet(v, R)
<1>1. PICK f : f = [i \in Priced(Q) |-> requests[i].would - requests[i].cost]
  OBVIOUS
<1>2. Saved(Q) = SumFunctionOnSet(f, Priced(Q))
  BY <1>1 DEF Saved, SumOf, SumFunction
<1>3. Priced(Q) \in SUBSET R /\ IsFiniteSet(R)
  BY FinitelyManyRows DEF Priced
<1>4. Counts(f, Priced(Q))
  BY <1>1, RowNumbers DEF Priced, Counts
<1>5. \A i \in Priced(Q) : v[i] = f[i]
  BY <1>1 DEF Priced, SavedOf
<1>6. \A i \in R \ Priced(Q) : v[i] = 0
  BY DEF Priced, SavedOf
<1>7. QED BY <1>2, <1>3, <1>4, <1>5, <1>6, SumsOfSome

LEMMA WouldIsASum ==
    ASSUME ReportsInv, NEW R \in SUBSET DOMAIN requests, NEW Q \in SUBSET R, NEW v,
           \A i \in Q : v[i] = WouldOf(i), \A i \in R \ Q : v[i] = 0
    PROVE  Counts(v, R) /\ WouldHaveBeen(Q) = SumFunctionOnSet(v, R)
<1>1. PICK f : f = [i \in Priced(Q) |-> requests[i].would]
  OBVIOUS
<1>2. WouldHaveBeen(Q) = SumFunctionOnSet(f, Priced(Q))
  BY <1>1 DEF WouldHaveBeen, SumOf, SumFunction
<1>3. Priced(Q) \in SUBSET R /\ IsFiniteSet(R)
  BY FinitelyManyRows DEF Priced
<1>4. Counts(f, Priced(Q))
  BY <1>1, RowNumbers DEF Priced, Counts
<1>5. \A i \in Priced(Q) : v[i] = f[i]
  BY <1>1 DEF Priced, WouldOf
<1>6. \A i \in R \ Priced(Q) : v[i] = 0
  BY DEF Priced, WouldOf
<1>7. QED BY <1>2, <1>3, <1>4, <1>5, <1>6, SumsOfSome

LEMMA SpendIsASum ==
    ASSUME ReportsInv, NEW R \in SUBSET DOMAIN requests, NEW Q \in SUBSET R, NEW v,
           \A i \in Q : v[i] = requests[i].cost, \A i \in R \ Q : v[i] = 0
    PROVE  Counts(v, R) /\ Spend(Q) = SumFunctionOnSet(v, R)
<1>1. PICK f : f = [i \in Q |-> requests[i].cost]
  OBVIOUS
<1>2. Spend(Q) = SumFunctionOnSet(f, Q)
  BY <1>1 DEF Spend, SumOf, SumFunction
<1>3. IsFiniteSet(R)
  BY FinitelyManyRows
<1>4. Counts(f, Q)
  BY <1>1, RowNumbers DEF Counts
<1>5. \A i \in Q : v[i] = f[i]
  BY <1>1
<1>6. QED BY <1>2, <1>3, <1>4, <1>5, SumsOfSome

----------------------------------------------------------------------------
(* The rollup. *)

LEMMA FinitelyManyGroups ==
    ASSUME ReportsInv, NEW R \in SUBSET DOMAIN requests
    PROVE  IsFiniteSet(Groups(R))
<1> DEFINE C == {T \in SUBSET R : IsFiniteSet(Groups(T))}
<1>1. ASSUME NEW T \in SUBSET R, \A i \in T : T \ {i} \in C PROVE T \in C
  <2>1. CASE T = {}
    <3>1. Groups({}) = {}
      BY DEF Groups
    <3>2. QED BY <2>1, <3>1, FS_EmptySet
  <2>2. CASE T # {}
    <3>1. PICK i \in T : TRUE
      BY <2>2
    <3>2. PICK G, g : G = Groups(T \ {i}) /\ g = <<DayOf(requests[i].at), requests[i].model>>
      OBVIOUS
    <3>3. Groups(T) = G \cup {g}
      BY <3>2 DEF Groups
    <3>4. IsFiniteSet(G)
      BY <1>1, <3>2
    <3>5. IsFiniteSet(G \cup {g})
      BY <3>4, FS_AddElement
    <3>6. QED BY <3>3, <3>5
  <2>3. QED BY <2>1, <2>2
<1>2. IsFiniteSet(R)
  BY FinitelyManyRows
<1>3. SUBSET R \subseteq C
  <2> HIDE DEF C
  <2>1. QED BY <1>1, <1>2, SubsetInduction
<1>4. QED BY <1>3

\* A column of the rollup sums, over the groups of a set of rows, what the rows
\* are worth in it.
LEMMA ColumnsSumUp ==
    ASSUME ReportsInv, NEW R \in SUBSET DOMAIN requests, NEW v, Counts(v, R), NEW h,
           \A g \in Groups(R) : h[g] = SumFunctionOnSet(v, InGroup(R, g))
    PROVE  SumFunctionOnSet(h, Groups(R)) = SumFunctionOnSet(v, R)
<1>1. PICK key : key = [i \in R |-> <<DayOf(requests[i].at), requests[i].model>>]
  OBVIOUS
<1>2. \A i \in R : key[i] \in Groups(R)
  BY <1>1 DEF Groups
<1>3. \A g \in Groups(R) : InGroup(R, g) = {i \in R : key[i] = g}
  BY <1>1 DEF InGroup
<1>4. \A g \in Groups(R) : h[g] = SumFunctionOnSet(v, {i \in R : key[i] = g})
  BY <1>3
<1>5. QED BY <1>2, <1>4, FinitelyManyRows, FinitelyManyGroups, SumsByGroup, SMTT(20)

\* What a row is worth in each column.
Each(R) ==
    [requests |-> [i \in R |-> 1],
     cost     |-> [i \in R |-> requests[i].cost],
     would    |-> [i \in R |-> WouldOf(i)],
     hits     |-> [i \in R |-> IF Has(i, "hit") THEN 1 ELSE 0],
     cache    |-> [i \in R |-> IF Has(i, "hit") THEN WouldOf(i) ELSE 0],
     routing  |-> [i \in R |-> IF Has(i, "routed") /\ ~Has(i, "hit") THEN SavedOf(i) ELSE 0]]

LEMMA RollupIsASum ==
    ASSUME ReportsInv, NEW R \in SUBSET DOMAIN requests, NEW Q \in SUBSET R
    PROVE  /\ RollupOf(Q).requests = SumFunctionOnSet(Each(R).requests, Q)
           /\ RollupOf(Q).cost = SumFunctionOnSet(Each(R).cost, Q)
           /\ RollupOf(Q).would = SumFunctionOnSet(Each(R).would, Q)
           /\ RollupOf(Q).cache = SumFunctionOnSet(Each(R).cache, Q)
           /\ RollupOf(Q).routing = SumFunctionOnSet(Each(R).routing, Q)
<1>1. PICK a, b, c, d, e :
        /\ a = Each(R).requests /\ a = [i \in R |-> 1]
        /\ b = Each(R).cost /\ b = [i \in R |-> requests[i].cost]
        /\ c = Each(R).would /\ c = [i \in R |-> WouldOf(i)]
        /\ d = Each(R).cache /\ d = [i \in R |-> IF Has(i, "hit") THEN WouldOf(i) ELSE 0]
        /\ e = Each(R).routing /\ e = [i \in R |-> IF Has(i, "routed") /\ ~Has(i, "hit") THEN SavedOf(i) ELSE 0]
  BY DEF Each
<1>2. IsFiniteSet(Q) /\ Q \in SUBSET DOMAIN requests
  BY FinitelyManyRows
<1>3. Cardinality(Q) = SumFunctionOnSet(a, Q)
  BY <1>1, <1>2, SumsCount
<1>4. Spend(Q) = SumFunctionOnSet(b, Q)
  <2>1. Q \in SUBSET Q /\ (\A i \in Q : b[i] = requests[i].cost) /\ \A i \in Q \ Q : b[i] = 0
    BY <1>1
  <2>2. QED BY <1>2, <2>1, SpendIsASum
<1>5. WouldHaveBeen(Q) = SumFunctionOnSet(c, Q)
  BY <1>1, <1>2, WouldIsASum
<1>6. WouldHaveBeen(Flagged(Q, "hit")) = SumFunctionOnSet(d, Q)
  <2>1. Flagged(Q, "hit") \in SUBSET Q
    BY DEF Flagged
  <2>2. \A i \in Flagged(Q, "hit") : d[i] = WouldOf(i)
    BY <1>1 DEF Flagged, Has
  <2>3. \A i \in Q \ Flagged(Q, "hit") : d[i] = 0
    BY <1>1 DEF Flagged, Has
  <2>4. QED BY <1>2, <2>1, <2>2, <2>3, WouldIsASum
<1>7. Saved(Flagged(Q, "routed") \ Flagged(Q, "hit")) = SumFunctionOnSet(e, Q)
  <2>1. PICK P : P = Flagged(Q, "routed") \ Flagged(Q, "hit")
    OBVIOUS
  <2>2. P \in SUBSET Q
    BY <2>1 DEF Flagged
  <2>3. \A i \in P : e[i] = SavedOf(i)
    BY <1>1, <2>1 DEF Flagged, Has
  <2>4. \A i \in Q \ P : e[i] = 0
    BY <1>1, <2>1 DEF Flagged, Has
  <2>5. QED BY <1>2, <2>1, <2>2, <2>3, <2>4, SavedIsASum
<1>8. QED BY <1>1, <1>3, <1>4, <1>5, <1>6, <1>7 DEF RollupOf

LEMMA SummaryIsASum ==
    ASSUME ReportsInv, NEW R \in SUBSET DOMAIN requests
    PROVE  LET total == Summary(RollupTable(R)) IN
           /\ total.requests = SumFunctionOnSet(Each(R).requests, R)
           /\ total.cost = SumFunctionOnSet(Each(R).cost, R)
           /\ total.would = SumFunctionOnSet(Each(R).would, R)
           /\ total.cache = SumFunctionOnSet(Each(R).cache, R)
           /\ total.routing = SumFunctionOnSet(Each(R).routing, R)
<1>0. PICK table : table = RollupTable(R)
  OBVIOUS
<1>1. /\ table = RollupTable(R) /\ DOMAIN table = Groups(R)
      /\ \A g \in Groups(R) : table[g] = RollupOf(InGroup(R, g))
  BY <1>0 DEF RollupTable
<1> DEFINE H(column) == [g \in Groups(R) |-> table[g][column]]
<1>2. \A column \in {"requests", "cost", "would", "hits", "cache", "routing"} :
        Summary(table)[column] = SumFunctionOnSet(H(column), Groups(R))
  BY <1>1 DEF Summary, SumOf, SumFunction
<1>3. \A g \in Groups(R) : InGroup(R, g) \in SUBSET R
  BY DEF InGroup
<1>4. \A g \in Groups(R) :
        /\ H("requests")[g] = SumFunctionOnSet(Each(R).requests, InGroup(R, g))
        /\ H("cost")[g] = SumFunctionOnSet(Each(R).cost, InGroup(R, g))
        /\ H("would")[g] = SumFunctionOnSet(Each(R).would, InGroup(R, g))
        /\ H("cache")[g] = SumFunctionOnSet(Each(R).cache, InGroup(R, g))
        /\ H("routing")[g] = SumFunctionOnSet(Each(R).routing, InGroup(R, g))
  BY <1>1, <1>3, RollupIsASum
<1>5. /\ Counts(Each(R).requests, R) /\ Counts(Each(R).cost, R) /\ Counts(Each(R).would, R)
      /\ Counts(Each(R).cache, R) /\ Counts(Each(R).routing, R)
  BY RowNumbers DEF Each, Counts
<1> HIDE DEF H
<1>6. SumFunctionOnSet(H("requests"), Groups(R)) = SumFunctionOnSet(Each(R).requests, R)
  BY <1>4, <1>5, ColumnsSumUp
<1>7. SumFunctionOnSet(H("cost"), Groups(R)) = SumFunctionOnSet(Each(R).cost, R)
  BY <1>4, <1>5, ColumnsSumUp
<1>8. SumFunctionOnSet(H("would"), Groups(R)) = SumFunctionOnSet(Each(R).would, R)
  BY <1>4, <1>5, ColumnsSumUp
<1>9. SumFunctionOnSet(H("cache"), Groups(R)) = SumFunctionOnSet(Each(R).cache, R)
  BY <1>4, <1>5, ColumnsSumUp
<1>10. SumFunctionOnSet(H("routing"), Groups(R)) = SumFunctionOnSet(Each(R).routing, R)
  BY <1>4, <1>5, ColumnsSumUp
<1>11. QED BY <1>1, <1>2, <1>6, <1>7, <1>8, <1>9, <1>10

----------------------------------------------------------------------------
(* One story. *)

LEMMA SumsAdd ==
    ASSUME NEW S, IsFiniteSet(S), NEW f, NEW g, NEW h, Counts(f, S), Counts(g, S),
           \A x \in S : h[x] = f[x] + g[x]
    PROVE  /\ SumFunctionOnSet(h, S) = SumFunctionOnSet(f, S) + SumFunctionOnSet(g, S)
           /\ SumFunctionOnSet(f, S) \in Int /\ SumFunctionOnSet(g, S) \in Int
<1>1. Counts(h, S) /\ \A x \in S : f[x] = h[x] - g[x]
  BY DEF Counts
<1>2. SumFunctionOnSet(f, S) = SumFunctionOnSet(h, S) - SumFunctionOnSet(g, S)
  BY <1>1, SumsSubtract
<1>3. SumFunctionOnSet(f, S) \in Int /\ SumFunctionOnSet(g, S) \in Int /\ SumFunctionOnSet(h, S) \in Int
  BY <1>1, SumOverSet
<1>4. QED BY <1>2, <1>3

\* An escalated row is a routed one and no hit.
LEMMA FlagsExclude ==
    ASSUME NEW flags \in FlagSets
    PROVE  /\ "escalated" \in flags => "routed" \in flags /\ "hit" \notin flags
           /\ "hit" \in flags => "routed" \notin flags
           /\ flags \in {{}, {"failed"}, {"throttled"}} <=> "hit" \notin flags /\ "routed" \notin flags
<1>1. /\ "hit" # "routed" /\ "hit" # "throttled" /\ "hit" # "failed" /\ "hit" # "escalated"
      /\ "routed" # "throttled" /\ "routed" # "failed" /\ "routed" # "escalated"
      /\ "throttled" # "failed" /\ "throttled" # "escalated" /\ "failed" # "escalated"
  OBVIOUS
<1>2. CASE flags \in {{"hit"}, {"routed"}, {"failed", "routed"}, {"routed", "escalated"}}
  BY <1>1, <1>2
<1>3. CASE flags \in {{}, {"failed"}, {"throttled"}}
  BY <1>1, <1>3
<1>4. QED BY <1>2, <1>3 DEF FlagSets

LEMMA ReportsTellOneStory ==
    ASSUME ReportsInv, NEW range \in DOMAIN RangeTicks
    PROVE  OneStory(range)
<1>1. PICK R : R = RollupRows(range) /\ R \in SUBSET DOMAIN requests
  BY DEF RollupRows
<1>2. PICK total : total = Summary(RollupTable(R))
  OBVIOUS
<1>3. IsFiniteSet(R)
  BY <1>1, FinitelyManyRows
<1>4. PICK cost, would, cache, routing :
        /\ cost = Each(R).cost /\ cost = [i \in R |-> requests[i].cost]
        /\ would = Each(R).would /\ would = [i \in R |-> WouldOf(i)]
        /\ cache = Each(R).cache /\ cache = [i \in R |-> IF Has(i, "hit") THEN WouldOf(i) ELSE 0]
        /\ routing = Each(R).routing
        /\ routing = [i \in R |-> IF Has(i, "routed") /\ ~Has(i, "hit") THEN SavedOf(i) ELSE 0]
  BY DEF Each
<1>5. /\ total.cost = SumFunctionOnSet(cost, R) /\ total.would = SumFunctionOnSet(would, R)
      /\ total.cache = SumFunctionOnSet(cache, R) /\ total.routing = SumFunctionOnSet(routing, R)
  <2>1. LET sum == Summary(RollupTable(R)) IN
        /\ sum.cost = SumFunctionOnSet(Each(R).cost, R) /\ sum.would = SumFunctionOnSet(Each(R).would, R)
        /\ sum.cache = SumFunctionOnSet(Each(R).cache, R) /\ sum.routing = SumFunctionOnSet(Each(R).routing, R)
    BY <1>1, SummaryIsASum
  <2>2. QED BY <1>2, <1>4, <2>1
<1>6. total.requests = Cardinality(R)
  <2>1. \A i \in R : Each(R).requests[i] = 1
    BY DEF Each
  <2>2. QED BY <1>1, <1>2, <1>3, <2>1, SummaryIsASum, SumsCount
<1>7. ASSUME NEW i \in R
      PROVE  /\ Has(i, "escalated") => Has(i, "routed") /\ ~Has(i, "hit")
             /\ Has(i, "hit") => ~Has(i, "routed") /\ requests[i].cost = 0
             /\ requests[i].flags \in {{}, {"failed"}, {"throttled"}} <=> ~Has(i, "hit") /\ ~Has(i, "routed")
             /\ requests[i].cost \in Int /\ WouldOf(i) \in Int /\ SavedOf(i) \in Int
  <2>1. PICK flags \in FlagSets : flags = requests[i].flags
    BY <1>1, RowNumbers
  <2>2. /\ "escalated" \in flags => "routed" \in flags /\ "hit" \notin flags
        /\ "hit" \in flags => "routed" \notin flags
        /\ flags \in {{}, {"failed"}, {"throttled"}} <=> "hit" \notin flags /\ "routed" \notin flags
    BY FlagsExclude
  <2>3. requests[i].cost \in Int /\ WouldOf(i) \in Int /\ SavedOf(i) \in Int
    BY <1>1, RowNumbers
  <2>4. "hit" \in flags => requests[i].cost = 0
    BY <1>1, <2>1 DEF ReportsInv
  <2>5. QED BY <2>1, <2>2, <2>3, <2>4 DEF Has
<1>8. Counts(cost, R) /\ Counts(would, R) /\ Counts(cache, R) /\ Counts(routing, R)
  BY <1>4, <1>7 DEF Counts
<1>9. total.routing = RoutingPageSavings(R)
  <2>1. PICK gross, escalated :
          /\ gross = [i \in R |-> IF Has(i, "routed") /\ ~Has(i, "hit") /\ ~Has(i, "escalated") THEN SavedOf(i) ELSE 0]
          /\ escalated = [i \in R |-> IF Has(i, "escalated") THEN SavedOf(i) ELSE 0]
    OBVIOUS
  <2>2. Counts(gross, R) /\ Counts(escalated, R)
    BY <1>7, <2>1 DEF Counts
  <2>3. GrossSavings(R) = SumFunctionOnSet(gross, R)
    <3>1. PICK Q : Q = Flagged(R, "routed") \ (Flagged(R, "hit") \cup Flagged(R, "escalated"))
      OBVIOUS
    <3>2. Q \in SUBSET R
      BY <3>1 DEF Flagged
    <3>3. \A i \in Q : gross[i] = SavedOf(i)
      BY <2>1, <3>1 DEF Flagged, Has
    <3>4. \A i \in R \ Q : gross[i] = 0
      BY <2>1, <3>1 DEF Flagged, Has
    <3>5. Saved(Q) = SumFunctionOnSet(gross, R)
      BY <1>1, <3>2, <3>3, <3>4, SavedIsASum
    <3>6. QED BY <3>1, <3>5 DEF GrossSavings
  <2>4. Saved(Flagged(R, "escalated")) = SumFunctionOnSet(escalated, R)
    <3>1. Flagged(R, "escalated") \in SUBSET R
      BY DEF Flagged
    <3>2. \A i \in Flagged(R, "escalated") : escalated[i] = SavedOf(i)
      BY <2>1 DEF Flagged, Has
    <3>3. \A i \in R \ Flagged(R, "escalated") : escalated[i] = 0
      BY <2>1 DEF Flagged, Has
    <3>4. QED BY <1>1, <3>1, <3>2, <3>3, SavedIsASum
  <2>5. \A i \in R : routing[i] = gross[i] + escalated[i]
    BY <1>4, <1>7, <2>1
  <2>6. PICK p \in Int, q \in Int : p = SumFunctionOnSet(gross, R) /\ q = SumFunctionOnSet(escalated, R)
    BY <1>3, <2>2, SumOverSet
  <2>7. SumFunctionOnSet(routing, R) = p + q
    BY <1>3, <2>2, <2>5, <2>6, SumsAdd
  <2>8. RoutingPageSavings(R) = p - (0 - q)
    BY <2>3, <2>4, <2>6 DEF RoutingPageSavings, EscalationCost
  <2>9. QED BY <1>5, <2>7, <2>8
<1>10. DigestRoutingSavings(R) = RoutingPageSavings(R)
  BY DEF DigestRoutingSavings, RoutingPageSavings
<1>11. total.cache = DigestCacheSavings(R)
  <2>1. Flagged(R, "hit") \in SUBSET R
    BY DEF Flagged
  <2>2. \A i \in Flagged(R, "hit") : cache[i] = SavedOf(i)
    BY <1>4, <1>7 DEF Flagged, Has, SavedOf, WouldOf
  <2>3. \A i \in R \ Flagged(R, "hit") : cache[i] = 0
    BY <1>4 DEF Flagged, Has
  <2>4. QED BY <1>1, <1>5, <2>1, <2>2, <2>3, SavedIsASum DEF DigestCacheSavings
<1>12. total.cache = CachePageSavings(RollupTable(R))
  BY <1>2 DEF CachePageSavings, Summary
<1>13. total.would - total.cost =
         total.cache + total.routing + Saved({i \in R : requests[i].flags \in {{}, {"failed"}, {"throttled"}}})
         - Spend(R \ Priced(R))
  <2>1. PICK plain, unpriced, difference, known, all :
          /\ plain = [i \in R |-> IF ~Has(i, "hit") /\ ~Has(i, "routed") THEN SavedOf(i) ELSE 0]
          /\ unpriced = [i \in R |-> IF requests[i].would = NoPrice THEN requests[i].cost ELSE 0]
          /\ difference = [i \in R |-> WouldOf(i) - requests[i].cost]
          /\ known = [i \in R |-> cache[i] + routing[i]]
          /\ all = [i \in R |-> known[i] + plain[i]]
    OBVIOUS
  <2>2. /\ Counts(plain, R) /\ Counts(unpriced, R) /\ Counts(difference, R)
        /\ Counts(known, R) /\ Counts(all, R)
    BY <1>7, <1>8, <2>1 DEF Counts
  <2>3. Saved({i \in R : requests[i].flags \in {{}, {"failed"}, {"throttled"}}}) = SumFunctionOnSet(plain, R)
    <3>1. PICK Q : Q = {i \in R : requests[i].flags \in {{}, {"failed"}, {"throttled"}}}
      OBVIOUS
    <3>2. Q = {i \in R : ~Has(i, "hit") /\ ~Has(i, "routed")}
      BY <1>7, <3>1
    <3>3. Q \in SUBSET R /\ (\A i \in Q : plain[i] = SavedOf(i)) /\ \A i \in R \ Q : plain[i] = 0
      BY <2>1, <3>2
    <3>4. QED BY <1>1, <3>1, <3>3, SavedIsASum
  <2>4. Spend(R \ Priced(R)) = SumFunctionOnSet(unpriced, R)
    <3>1. PICK Q : Q = R \ Priced(R)
      OBVIOUS
    <3>2. Q \in SUBSET R /\ (\A i \in Q : unpriced[i] = requests[i].cost) /\ \A i \in R \ Q : unpriced[i] = 0
      BY <2>1, <3>1 DEF Priced
    <3>3. QED BY <1>1, <3>1, <3>2, SpendIsASum
  <2>5. SumFunctionOnSet(difference, R) = total.would - total.cost
    BY <1>3, <1>4, <1>5, <1>8, <2>1, SumsSubtract
  <2>6. PICK a \in Int, b \in Int, c \in Int, d \in Int :
          /\ a = total.cache /\ b = total.routing
          /\ c = SumFunctionOnSet(plain, R) /\ d = SumFunctionOnSet(unpriced, R)
    BY <1>3, <1>5, <1>8, <2>2, SumOverSet
  <2>7. SumFunctionOnSet(known, R) = a + b
    <3>1. \A i \in R : known[i] = cache[i] + routing[i]
      BY <2>1
    <3>2. SumFunctionOnSet(known, R) = SumFunctionOnSet(cache, R) + SumFunctionOnSet(routing, R)
      BY <1>3, <1>8, <3>1, SumsAdd
    <3>3. QED BY <1>5, <2>6, <3>2
  <2>8. SumFunctionOnSet(all, R) = (a + b) + c
    <3>1. \A i \in R : all[i] = known[i] + plain[i]
      BY <2>1
    <3>2. QED BY <1>3, <2>2, <2>6, <2>7, <3>1, SumsAdd
  <2>9. ASSUME NEW i \in R PROVE difference[i] = all[i] - unpriced[i]
    <3>1. /\ requests[i].cost \in Int /\ WouldOf(i) \in Int /\ SavedOf(i) \in Int
          /\ (Has(i, "hit") => ~Has(i, "routed") /\ requests[i].cost = 0)
      BY <1>7
    <3>2. all[i] = ((IF Has(i, "hit") THEN WouldOf(i) ELSE 0)
                    + (IF Has(i, "routed") /\ ~Has(i, "hit") THEN SavedOf(i) ELSE 0))
                   + (IF ~Has(i, "hit") /\ ~Has(i, "routed") THEN SavedOf(i) ELSE 0)
      BY <1>4, <2>1
    <3>3. all[i] = IF Has(i, "hit") THEN WouldOf(i) ELSE SavedOf(i)
      BY <3>1, <3>2
    <3>4. difference[i] = WouldOf(i) - requests[i].cost
      BY <2>1
    <3>5. unpriced[i] = IF requests[i].would = NoPrice THEN requests[i].cost ELSE 0
      BY <2>1
    <3>6. CASE Has(i, "hit")
      BY <3>1, <3>3, <3>4, <3>5, <3>6
    <3>7. CASE ~Has(i, "hit") /\ requests[i].would = NoPrice
      BY <3>1, <3>3, <3>4, <3>5, <3>7 DEF WouldOf, SavedOf
    <3>8. CASE ~Has(i, "hit") /\ requests[i].would # NoPrice
      <4>1. WouldOf(i) = requests[i].would /\ SavedOf(i) = requests[i].would - requests[i].cost
        BY <3>8 DEF WouldOf, SavedOf
      <4>2. QED BY <3>1, <3>3, <3>4, <3>5, <3>8, <4>1
    <3>9. QED BY <3>6, <3>7, <3>8
  <2>10. SumFunctionOnSet(difference, R) = ((a + b) + c) - d
    BY <1>3, <2>2, <2>6, <2>8, <2>9, SumsSubtract
  <2>11. QED BY <2>3, <2>4, <2>5, <2>6, <2>10
<1>14. SumOf(Models, LAMBDA m : BreakdownRow(RollupTable(R), m)) = total.cost
  <2>1. PICK table : table = RollupTable(R)
    OBVIOUS
  <2>2. DOMAIN table = Groups(R) /\ \A g \in Groups(R) : table[g] = RollupOf(InGroup(R, g))
    BY <2>1 DEF RollupTable
  <2>3. PICK h, key, f : /\ h = [g \in Groups(R) |-> table[g].cost] /\ key = [g \in Groups(R) |-> g[2]]
                         /\ f = [m \in Models |-> BreakdownRow(table, m)]
    OBVIOUS
  <2>4. total.cost = SumFunctionOnSet(h, Groups(R))
    BY <1>2, <2>1, <2>2, <2>3 DEF Summary, SumOf, SumFunction
  <2>5. Counts(h, Groups(R))
    <3>1. ASSUME NEW g \in Groups(R) PROVE h[g] \in Int
      <4>1. PICK Q \in SUBSET R : Q = InGroup(R, g)
        BY DEF InGroup
      <4>2. IsFiniteSet(Q) /\ Counts(cost, Q)
        BY <1>3, <1>8, <4>1, FS_Subset DEF Counts
      <4>3. h[g] = SumFunctionOnSet(cost, Q)
        <5>1. RollupOf(Q).cost = SumFunctionOnSet(Each(R).cost, Q)
          BY <1>1, RollupIsASum
        <5>2. h[g] = RollupOf(Q).cost
          BY <2>2, <2>3, <4>1
        <5>3. QED BY <1>4, <5>1, <5>2
      <4>4. QED BY <4>2, <4>3, SumOverSet
    <3>2. QED BY <3>1 DEF Counts
  <2>6. \A g \in Groups(R) : key[g] \in Models
    BY <1>1, <2>3, RowNumbers DEF Groups
  <2>7. ASSUME NEW m \in Models PROVE f[m] = SumFunctionOnSet(h, {g \in Groups(R) : key[g] = m})
    <3>1. PICK G : G = {g \in Groups(R) : key[g] = m}
      OBVIOUS
    <3>2. G = {g \in DOMAIN table : g[2] = m}
      BY <2>2, <2>3, <3>1
    <3>3. PICK k : k = [g \in G |-> table[g].cost]
      OBVIOUS
    <3>4. f[m] = SumFunctionOnSet(k, G)
      BY <2>3, <3>2, <3>3 DEF BreakdownRow, SumOf, SumFunction
    <3>5. IsFiniteSet(G) /\ Counts(h, G) /\ \A g \in G : k[g] = h[g]
      <4>1. G \in SUBSET Groups(R) /\ IsFiniteSet(Groups(R))
        BY <1>1, <3>1, FinitelyManyGroups
      <4>2. IsFiniteSet(G)
        BY <4>1, FS_Subset
      <4>3. QED BY <2>3, <2>5, <3>3, <4>1, <4>2 DEF Counts
    <3>6. QED BY <3>1, <3>4, <3>5, SumsAgree
  <2>8. SumFunctionOnSet(f, Models) = SumFunctionOnSet(h, Groups(R))
    <3>1. IsFiniteSet(Groups(R)) /\ IsFiniteSet(Models)
      BY <1>1, FinitelyManyGroups, UsageReportsAssumption
    <3>2. PICK G : G = Groups(R)
      OBVIOUS
    <3>3. /\ IsFiniteSet(G) /\ Counts(h, G) /\ \A g \in G : key[g] \in Models
          /\ \A m \in Models : f[m] = SumFunctionOnSet(h, {g \in G : key[g] = m})
      BY <2>5, <2>6, <2>7, <3>1, <3>2
    <3>4. SumFunctionOnSet(f, Models) = SumFunctionOnSet(h, G)
      BY <3>1, <3>3, SumsByGroup, SMTT(20)
    <3>5. QED BY <3>2, <3>4
  <2>9. SumOf(Models, LAMBDA m : BreakdownRow(table, m)) = SumFunctionOnSet(f, Models)
    BY <2>3 DEF SumOf, SumFunction
  <2>10. QED BY <2>1, <2>4, <2>8, <2>9
<1>15. QED BY <1>1, <1>2, <1>6, <1>9, <1>10, <1>11, <1>12, <1>13, <1>14 DEF OneStory

----------------------------------------------------------------------------
(* Days. *)

LEMMA DaysKeepOrder ==
    ASSUME NEW a \in Int, NEW b \in Int, a <= b
    PROVE  DayOf(a) <= DayOf(b)
<1>1. PICK d \in Nat \ {0} : d = DayTicks
  BY UsageReportsAssumption
<1>2. PICK p, q, r, s : p = a \div d /\ q = b \div d /\ r = a % d /\ s = b % d
  OBVIOUS
<1>3. p \in Int /\ q \in Int /\ r \in 0 .. d - 1 /\ s \in 0 .. d - 1 /\ a = d * p + r /\ b = d * q + s
  BY <1>1, <1>2
<1>4. ASSUME q < p PROVE FALSE
  <2>1. q + 1 \in Int /\ q + 1 <= p
    BY <1>3, <1>4
  <2>2. d * (q + 1) <= d * p
    BY <1>3, <2>1, TimesKeepsOrder
  <2>3. d * (q + 1) = d * q + d /\ d * q \in Int /\ d * p \in Int
    BY <1>1, <1>3
  <2>4. QED BY <1>1, <1>3, <2>2, <2>3
<1>5. QED BY <1>1, <1>2, <1>3, <1>4 DEF DayOf

LEMMA ReportsMissNothing ==
    ASSUME ReportsInv, NEW range \in DOMAIN RangeTicks
    PROVE  NothingMissing(range)
<1> SUFFICES ASSUME NEW i \in WindowRows(range) PROVE i \in RollupRows(range)
  BY DEF NothingMissing
<1>1. PICK t \in Int, from \in Int, c \in Int : t = requests[i].at /\ from = clock - RangeTicks[range] /\ c = clock
  <2>1. i \in DOMAIN requests /\ clock \in Int
    BY DEF WindowRows, ReportsInv
  <2>2. RangeTicks[range] \in Nat
    BY UsageReportsAssumption
  <2>3. QED BY <2>1, <2>2, RowNumbers
<1>2. from <= t /\ t <= c /\ i \in DOMAIN requests
  BY <1>1 DEF WindowRows
<1>3. DayOf(from) <= DayOf(t) /\ DayOf(t) <= DayOf(c)
  BY <1>2, DaysKeepOrder
<1>4. DayOf(from) \in Int /\ DayOf(t) \in Int /\ DayOf(c) \in Int
  BY UsageReportsAssumption DEF DayOf
<1>5. QED BY <1>1, <1>2, <1>3, <1>4 DEF RollupRows

----------------------------------------------------------------------------
(* Percentiles. *)

LEMMA Floors ==
    /\ BucketFloors[1] = 0 /\ BucketFloors[2] = 100 /\ BucketFloors[3] = 500 /\ BucketFloors[4] = 1000
    /\ BucketFloors[5] = 2000 /\ BucketFloors[6] = 4000 /\ BucketFloors[7] = 8000
    /\ BucketFloors[8] = 16000 /\ BucketFloors[9] = 32000
    /\ \A b \in 1 .. 9 : BucketFloors[b] \in Nat
    /\ \A b, c \in 1 .. 9 : b <= c => BucketFloors[b] <= BucketFloors[c]
<1>1. /\ BucketFloors[1] = 0 /\ BucketFloors[2] = 100 /\ BucketFloors[3] = 500 /\ BucketFloors[4] = 1000
      /\ BucketFloors[5] = 2000 /\ BucketFloors[6] = 4000 /\ BucketFloors[7] = 8000
      /\ BucketFloors[8] = 16000 /\ BucketFloors[9] = 32000
  BY DEF BucketFloors
<1>2. \A b \in 1 .. 9 : b = 1 \/ b = 2 \/ b = 3 \/ b = 4 \/ b = 5 \/ b = 6 \/ b = 7 \/ b = 8 \/ b = 9
  OBVIOUS
<1>3. \A b \in 1 .. 9 : BucketFloors[b] \in Nat
  BY <1>1, <1>2
<1>4. ASSUME NEW b \in 1 .. 9, NEW c \in 1 .. 9, b <= c PROVE BucketFloors[b] <= BucketFloors[c]
  BY <1>1, <1>2, <1>4
<1>5. QED BY <1>1, <1>3, <1>4

\* A size has its bucket.
LEMMA OneBucket ==
    ASSUME NEW n \in Nat
    PROVE  /\ \E b \in BucketIds : InBucket(b, n)
           /\ \A b, c \in BucketIds : InBucket(b, n) /\ InBucket(c, n) => b = c
<1>1. \A b, c \in BucketIds : InBucket(b, n) /\ InBucket(c, n) => b = c
  <2>1. ASSUME NEW b \in 1 .. 9, NEW c \in 1 .. 9, InBucket(b, n), InBucket(c, n), b < c PROVE FALSE
    <3>1. b + 1 \in 1 .. 9 /\ b + 1 <= c /\ b # 9
      BY <2>1
    <3>2. n < BucketFloors[b + 1] /\ BucketFloors[b + 1] <= BucketFloors[c] /\ n >= BucketFloors[c]
      BY <2>1, <3>1, Floors DEF InBucket
    <3>3. BucketFloors[b + 1] \in Nat /\ BucketFloors[c] \in Nat
      BY <3>1, Floors
    <3>4. QED BY <3>2, <3>3
  <2>2. QED BY <2>1 DEF BucketIds
<1>2. \E b \in BucketIds : InBucket(b, n)
  <2>1. CASE n < 100
    BY <2>1, Floors DEF InBucket, BucketIds
  <2>2. CASE n >= 100 /\ n < 500
    BY <2>2, Floors DEF InBucket, BucketIds
  <2>3. CASE n >= 500 /\ n < 1000
    BY <2>3, Floors DEF InBucket, BucketIds
  <2>4. CASE n >= 1000 /\ n < 2000
    BY <2>4, Floors DEF InBucket, BucketIds
  <2>5. CASE n >= 2000 /\ n < 4000
    BY <2>5, Floors DEF InBucket, BucketIds
  <2>6. CASE n >= 4000 /\ n < 8000
    BY <2>6, Floors DEF InBucket, BucketIds
  <2>7. CASE n >= 8000 /\ n < 16000
    BY <2>7, Floors DEF InBucket, BucketIds
  <2>8. CASE n >= 16000 /\ n < 32000
    BY <2>8, Floors DEF InBucket, BucketIds
  <2>9. CASE n >= 32000
    BY <2>9, Floors DEF InBucket, BucketIds
  <2>10. QED BY <2>1, <2>2, <2>3, <2>4, <2>5, <2>6, <2>7, <2>8, <2>9
<1>3. QED BY <1>1, <1>2

\* The rows below the end of a bucket; every row is below the end of the last.
Below(R, b) == {i \in R : b = 9 \/ requests[i].tokens < BucketFloors[b + 1]}
Running(R) == [b \in 0 .. 9 |-> Cardinality(Below(R, b))]

\* The running count of the histogram counts them.
LEMMA RunningCounts ==
    ASSUME ReportsInv, NEW R \in SUBSET DOMAIN requests
    PROVE  /\ Cardinality(Below(R, 0)) = 0
           /\ \A b \in 1 .. 9 : Cardinality(Below(R, b)) = Cardinality(Below(R, b - 1)) + Histogram(R)[b]
           /\ \A b \in 0 .. 9 : IsFiniteSet(Below(R, b)) /\ Cardinality(Below(R, b)) \in Nat
<1>1. \A b \in 0 .. 9 : IsFiniteSet(Below(R, b)) /\ Cardinality(Below(R, b)) \in Nat
  BY FinitelyManyRows, FS_CardinalityType DEF Below
<1>2. \A i \in R : requests[i].tokens \in Nat
  BY RowNumbers
<1>3. Cardinality(Below(R, 0)) = 0
  <2>1. Below(R, 0) = {}
    BY <1>2, Floors DEF Below
  <2>2. QED BY <2>1, FS_EmptySet
<1>4. ASSUME NEW b \in 1 .. 9
      PROVE  Cardinality(Below(R, b)) = Cardinality(Below(R, b - 1)) + Histogram(R)[b]
  <2>1. PICK A, B : A = Below(R, b - 1) /\ B = {i \in R : InBucket(b, requests[i].tokens)}
    OBVIOUS
  <2>2. b - 1 # 9 /\ (b - 1) + 1 = b /\ b - 1 \in 0 .. 9
    OBVIOUS
  <2>3. A = {i \in R : requests[i].tokens < BucketFloors[b]}
    BY <2>1, <2>2 DEF Below
  <2>4. BucketFloors[b] \in Nat /\ (b # 9 => BucketFloors[b + 1] \in Nat /\ BucketFloors[b] <= BucketFloors[b + 1])
    <3>1. b # 9 => b + 1 \in 1 .. 9 /\ b <= b + 1
      OBVIOUS
    <3>2. QED BY <3>1, Floors
  <2>5. A \cap B = {}
    BY <1>2, <2>1, <2>3, <2>4 DEF InBucket
  <2>6. A \cup B = Below(R, b)
    <3>1. ASSUME NEW i \in R
          PROVE  (requests[i].tokens < BucketFloors[b] \/ InBucket(b, requests[i].tokens))
                   <=> (b = 9 \/ requests[i].tokens < BucketFloors[b + 1])
      <4>1. requests[i].tokens \in Nat
        BY <1>2
      <4>2. QED BY <2>4, <4>1 DEF InBucket
    <3>2. QED BY <2>1, <2>3, <3>1 DEF Below
  <2>7. IsFiniteSet(A) /\ IsFiniteSet(B)
    <3>1. B \in SUBSET DOMAIN requests
      BY <2>1
    <3>2. QED BY <1>1, <2>1, <2>2, <3>1, FinitelyManyRows
  <2>8. Cardinality(A \cup B) = Cardinality(A) + Cardinality(B)
    <3>1. Cardinality(A \cup B) = Cardinality(A) + Cardinality(B) - Cardinality(A \cap B)
      BY <2>7, FS_Union
    <3>2. Cardinality(A \cap B) = 0
      BY <2>5, FS_EmptySet
    <3>3. Cardinality(A) \in Nat /\ Cardinality(B) \in Nat
      BY <2>7, FS_CardinalityType
    <3>4. QED BY <3>1, <3>2, <3>3
  <2>9. Histogram(R)[b] = Cardinality(B)
    BY <2>1 DEF Histogram, BucketIds
  <2>10. QED BY <2>1, <2>6, <2>8, <2>9
<1>5. QED BY <1>1, <1>3, <1>4

Reached(R, percent) == {b \in BucketIds : Cardinality(Below(R, b)) * 100 >= Cardinality(R) * percent}

LEMMA PercentileOfBuckets ==
    ASSUME ReportsInv, NEW R \in SUBSET DOMAIN requests, R # {}, NEW percent
    PROVE  PercentileFromBuckets(R, percent) =
             BucketFloors[IF Reached(R, percent) = {} THEN 9 ELSE Min(Reached(R, percent))]
<1> DEFINE Step(f) == f = [b \in 0 .. 9 |-> IF b = 0 THEN 0 ELSE f[b - 1] + Histogram(R)[b]]
           run == CHOOSE f : Step(f)
<1>1. Step(Running(R))
  <2>1. \A b \in 0 .. 9 : Running(R)[b] = IF b = 0 THEN 0 ELSE Running(R)[b - 1] + Histogram(R)[b]
    <3>1. ASSUME NEW b \in 0 .. 9, b # 0 PROVE b \in 1 .. 9 /\ b - 1 \in 0 .. 9
      BY <3>1
    <3>2. QED BY <3>1, RunningCounts DEF Running
  <2>2. Running(R) = [b \in 0 .. 9 |-> Running(R)[b]]
    BY DEF Running
  <2>3. QED BY <2>1, <2>2
<1>2. Step(run)
  BY <1>1
<1> HIDE DEF run
<1>3. \A b \in 0 .. 9 : run[b] = Running(R)[b]
  <2> DEFINE S == {b \in Nat : b <= 9 => run[b] = Running(R)[b]}
  <2>1. 0 \in S
    BY <1>1, <1>2
  <2>2. ASSUME NEW b \in Nat, b \in S PROVE b + 1 \in S
    <3>1. ASSUME b + 1 <= 9 PROVE run[b + 1] = Running(R)[b + 1]
      <4>1. b + 1 \in 0 .. 9 /\ b + 1 # 0 /\ (b + 1) - 1 = b /\ b <= 9
        BY <3>1
      <4>2. run[b + 1] = run[b] + Histogram(R)[b + 1] /\ Running(R)[b + 1] = Running(R)[b] + Histogram(R)[b + 1]
        BY <1>1, <1>2, <4>1
      <4>3. QED BY <2>2, <4>1, <4>2
    <3>2. QED BY <3>1
  <2>3. Nat \subseteq S
    <3> HIDE DEF S
    <3>1. QED BY <2>1, <2>2, NatSetInduction
  <2>4. QED BY <2>3
<1>4. {b \in BucketIds : run[b] * 100 >= Cardinality(R) * percent} = Reached(R, percent)
  BY <1>3 DEF Reached, BucketIds, Running
<1>5. PercentileFromBuckets(R, percent) =
        LET reached == {b \in BucketIds : run[b] * 100 >= Cardinality(R) * percent}
        IN  BucketFloors[IF reached = {} THEN 9 ELSE Min(reached)]
  BY DEF PercentileFromBuckets, run
<1>6. QED BY <1>4, <1>5

\* The rows of at most n tokens.
Upto(R, n) == {i \in R : requests[i].tokens <= n}

LEMMA RanksGrow ==
    ASSUME ReportsInv, NEW R \in SUBSET DOMAIN requests, NEW A \in SUBSET R, NEW B \in SUBSET R, A \subseteq B
    PROVE  Cardinality(A) \in Nat /\ Cardinality(B) \in Nat /\ Cardinality(A) <= Cardinality(B)
<1>1. IsFiniteSet(B)
  BY FinitelyManyRows
<1>2. IsFiniteSet(A) /\ Cardinality(A) <= Cardinality(B)
  BY <1>1, FS_Subset
<1>3. QED BY <1>1, <1>2, FS_CardinalityType

\* Some row has a fraction of all rows at or below it, and less than that below.
LEMMA RowOfRank ==
    ASSUME ReportsInv, NEW R \in SUBSET DOMAIN requests, NEW k \in Nat,
           0 < k, k <= Cardinality(R) * 100
    PROVE  \E i \in R : /\ Cardinality(Upto(R, requests[i].tokens)) * 100 >= k
                        /\ Cardinality(Upto(R, requests[i].tokens - 1)) * 100 < k
<1> DEFINE S == {n \in Nat : Cardinality(Upto(R, n)) * 100 >= k}
<1>0. \A i \in R : requests[i].tokens \in Nat
  BY RowNumbers
<1>1. IsFiniteSet(R) /\ Cardinality(R) \in Nat
  BY FinitelyManyRows, FS_CardinalityType
<1>2. R # {}
  BY <1>1, FS_EmptySet
<1>3. \A n \in Int : Upto(R, n) \in SUBSET R /\ Cardinality(Upto(R, n)) \in Nat
  BY RanksGrow DEF Upto
<1>4. S # {}
  <2>1. PICK f : f = [i \in R |-> requests[i].tokens]
    OBVIOUS
  <2>2. PICK T : T = {f[i] : i \in R}
    OBVIOUS
  <2>3. IsFiniteSet(T) /\ T \in SUBSET Int /\ T # {}
    BY <1>0, <1>1, <1>2, <2>1, <2>2, FiniteImages
  <2>4. PICK n \in T : \A x \in T : x <= n
    BY <2>3, LastInForce
  <2>5. n \in Nat /\ Upto(R, n) = R
    BY <1>0, <2>1, <2>2, <2>4 DEF Upto
  <2>6. QED BY <1>1, <2>5
<1>5. PICK m \in S : \A x \in S : m <= x
  BY <1>4, LeastNatural
<1>6. m \in Nat /\ Cardinality(Upto(R, m)) * 100 >= k
  OBVIOUS
<1>7. Cardinality(Upto(R, m - 1)) * 100 < k
  <2>1. CASE m = 0
    <3>1. Upto(R, m - 1) = {}
      BY <1>0, <2>1 DEF Upto
    <3>2. Cardinality(Upto(R, m - 1)) = 0
      BY <3>1, FS_EmptySet
    <3>3. QED BY <3>2
  <2>2. CASE m # 0
    <3>1. m - 1 \in Nat /\ ~(m <= m - 1)
      BY <1>6, <2>2
    <3>2. m - 1 \notin S
      BY <1>5, <3>1
    <3>3. PICK c \in Nat : c = Cardinality(Upto(R, m - 1))
      BY <1>3, <3>1
    <3>4. ~(c * 100 >= k)
      BY <3>1, <3>2, <3>3
    <3>5. QED BY <3>3, <3>4
  <2>3. QED BY <2>1, <2>2
<1>8. PICK i \in R : requests[i].tokens = m
  <2>1. ASSUME \A i \in R : requests[i].tokens # m PROVE FALSE
    <3>1. Upto(R, m) = Upto(R, m - 1)
      <4>1. \A i \in R : requests[i].tokens <= m <=> requests[i].tokens <= m - 1
        BY <1>0, <1>6, <2>1
      <4>2. QED BY <4>1 DEF Upto
    <3>2. PICK c \in Nat : c = Cardinality(Upto(R, m))
      BY <1>3, <1>6
    <3>3. c * 100 >= k /\ c * 100 < k
      BY <1>6, <1>7, <3>1, <3>2
    <3>4. QED BY <3>2, <3>3
  <2>2. QED BY <2>1
<1>9. QED BY <1>6, <1>7, <1>8

LEMMA PercentilesAreRanks ==
    ASSUME ReportsInv, NEW range \in DOMAIN RangeTicks
    PROVE  PercentileIsRank(range)
<1>1. PICK R : R = RollupRows(range) /\ R \in SUBSET DOMAIN requests
  BY DEF RollupRows
<1>2. ASSUME R # {}, NEW percent \in {50, 95}
      PROVE  \E i \in R :
               /\ Cardinality(Upto(R, requests[i].tokens)) * 100 >= Cardinality(R) * percent
               /\ Cardinality(Upto(R, requests[i].tokens - 1)) * 100 < Cardinality(R) * percent
               /\ PercentileFromBuckets(R, percent) =
                    BucketFloors[CHOOSE b \in BucketIds : InBucket(b, requests[i].tokens)]
  <2>1. Cardinality(R) \in Nat /\ Cardinality(R) # 0
    BY <1>1, <1>2, FinitelyManyRows, FS_CardinalityType, FS_EmptySet
  <2>2. PICK k \in Nat : k = Cardinality(R) * percent /\ 0 < k /\ k <= Cardinality(R) * 100
    BY <1>2, <2>1
  <2>3. PICK i \in R : /\ Cardinality(Upto(R, requests[i].tokens)) * 100 >= k
                       /\ Cardinality(Upto(R, requests[i].tokens - 1)) * 100 < k
    BY <1>1, <2>2, RowOfRank
  <2>4. PICK n \in Nat : n = requests[i].tokens
    BY <1>1, RowNumbers
  <2>5. PICK b \in BucketIds : InBucket(b, n)
    BY OneBucket
  <2>6. b = CHOOSE c \in BucketIds : InBucket(c, n)
    BY <2>5, OneBucket
  <2>7. b \in 1 .. 9 /\ n >= BucketFloors[b] /\ (b = 9 \/ n < BucketFloors[b + 1])
    BY <2>5 DEF BucketIds, InBucket
  <2>8. \A j \in R : requests[j].tokens \in Nat
    BY <1>1, RowNumbers
  <2>9. b \in Reached(R, percent)
    <3>1. Upto(R, n) \subseteq Below(R, b)
      <4>1. b # 9 => BucketFloors[b + 1] \in Nat
        <5>1. b # 9 => b + 1 \in 1 .. 9
          BY <2>7
        <5>2. QED BY <5>1, Floors
      <4>2. QED BY <2>7, <2>8, <4>1 DEF Upto, Below
    <3>2. PICK p \in Nat, q \in Nat : p = Cardinality(Upto(R, n)) /\ q = Cardinality(Below(R, b)) /\ p <= q
      <4>1. Upto(R, n) \in SUBSET R /\ Below(R, b) \in SUBSET R
        BY DEF Upto, Below
      <4>2. QED BY <1>1, <3>1, <4>1, RanksGrow
    <3>3. q * 100 >= k
      BY <2>3, <2>4, <3>2
    <3>4. QED BY <2>2, <3>2, <3>3 DEF Reached
  <2>10. ASSUME NEW c \in Reached(R, percent) PROVE b <= c
    <3>1. c \in 1 .. 9
      BY DEF Reached, BucketIds
    <3>2. ASSUME c < b PROVE FALSE
      <4>1. c + 1 \in 1 .. 9 /\ c + 1 <= b /\ c # 9
        BY <2>7, <3>1, <3>2
      <4>2. BucketFloors[c + 1] <= n /\ BucketFloors[c + 1] \in Nat
        <5>1. BucketFloors[c + 1] <= BucketFloors[b] /\ BucketFloors[c + 1] \in Nat /\ BucketFloors[b] \in Nat
          BY <2>7, <4>1, Floors
        <5>2. QED BY <2>7, <5>1
      <4>3. Below(R, c) \subseteq Upto(R, n - 1)
        BY <2>8, <4>1, <4>2 DEF Below, Upto
      <4>4. PICK p \in Nat, q \in Nat : p = Cardinality(Below(R, c)) /\ q = Cardinality(Upto(R, n - 1)) /\ p <= q
        <5>1. Upto(R, n - 1) \in SUBSET R /\ Below(R, c) \in SUBSET R
          BY DEF Upto, Below
        <5>2. QED BY <1>1, <4>3, <5>1, RanksGrow
      <4>5. p * 100 >= k
        BY <2>2, <4>4 DEF Reached
      <4>6. q * 100 < k
        BY <2>3, <2>4, <4>4
      <4>7. QED BY <4>4, <4>5, <4>6
    <3>3. QED BY <2>7, <3>1, <3>2
  <2>11. Min(Reached(R, percent)) = b
    <3>1. Reached(R, percent) \subseteq Int /\ b \in Int
      BY <2>7 DEF Reached, BucketIds
    <3>2. \A x \in Reached(R, percent) : (\A y \in Reached(R, percent) : x <= y) => x = b
      BY <2>9, <2>10, <3>1
    <3>3. QED BY <2>9, <2>10, <3>2 DEF Min
  <2>12. PercentileFromBuckets(R, percent) = BucketFloors[b]
    BY <1>1, <1>2, <2>9, <2>11, PercentileOfBuckets
  <2>13. QED BY <2>2, <2>3, <2>4, <2>6, <2>12, ZenonT(30)
<1>3. QED BY <1>1, <1>2 DEF PercentileIsRank, Upto


LEMMA ReportsInvHolds == UsageReportsSpec => []ReportsInv
  BY ReportsBegin, ReportsInvNext, PTL DEF UsageReportsSpec

LEMMA ReportsInvAgree == ReportsInv => ReportsAgree
  BY ReportsTellOneStory, ReportsMissNothing, PercentilesAreRanks DEF ReportsAgree

\* Whatever was recorded and priced, the reports tell one story: the summary,
\* the savings, the breakdown by day and model and the rows themselves add up to
\* the same totals, no request of the range is missed, and each percentile is
\* the bucket of a row of that rank.
THEOREM ReportsAlwaysAgree == UsageReportsSpec => []ReportsAgree
  BY ReportsInvHolds, ReportsInvAgree, PTL

-----------------------------------------------------------------------------
(* The spend watch.                                                        *)

\* q is a / b, to the nearest.
RoundsTo(a, b, q) == 2 * (b * q - a) <= b /\ -b <= 2 * (b * q - a)

\* Rounding to the nearest is off by half a unit at most.
LEMMA RoundingError ==
    ASSUME NEW a \in Int, NEW b \in Nat \ {0}
    PROVE  Rounded(a, b) \in Int /\ RoundsTo(a, b, Rounded(a, b))
<1>1. PICK c \in Int, d \in Nat \ {0} : c = 2 * a + b /\ d = 2 * b
  OBVIOUS
<1>2. PICK q, r : q = c \div d /\ r = c % d
  OBVIOUS
<1>3. q \in Int /\ r \in 0 .. d - 1 /\ c = d * q + r
  BY <1>1, <1>2
<1>4. d * q = 2 * (b * q)
  BY <1>1, <1>3
<1>5. PICK p \in Int : p = b * q
  BY <1>3
<1>6. 2 * (p - a) = b - r
  BY <1>1, <1>3, <1>4, <1>5
<1>7. 2 * (p - a) <= b /\ -b <= 2 * (p - a)
  BY <1>1, <1>3, <1>6
<1>8. QED BY <1>1, <1>2, <1>3, <1>5, <1>7 DEF Rounded, RoundsTo

\* It does not change the sign, nor make more of a number.
LEMMA RoundedShare ==
    ASSUME NEW a \in Int, NEW b \in Nat \ {0}
    PROVE  a * (a - Rounded(a, b)) >= 0
<1>0. PICK q \in Int : q = Rounded(a, b) /\ RoundsTo(a, b, q)
  BY RoundingError
<1>1. q = Rounded(a, b) /\ 2 * (b * q - a) <= b /\ -b <= 2 * (b * q - a)
  BY <1>0 DEF RoundsTo
<1>2. CASE a >= 0
  <2>1. ASSUME q >= a + 1 PROVE FALSE
    <3>1. (a + 1) * b <= q * b
      BY <2>1, TimesKeepsOrder
    <3>2. a * b >= a
      <4>1. a * 1 <= a * b
        BY <1>2, TimesKeepsOrder
      <4>2. QED BY <4>1
    <3>3. PICK x \in Int, y \in Int : x = a * b /\ y = q * b
      OBVIOUS
    <3>4. (a + 1) * b = x + b /\ b * q = y
      BY <3>3
    <3>5. QED BY <1>1, <3>1, <3>2, <3>3, <3>4
  <2>2. a - q \in Nat
    BY <2>1
  <2>3. 0 * a <= (a - q) * a
    BY <1>2, <2>2, TimesKeepsOrder
  <2>4. QED BY <1>1, <2>2, <2>3
<1>3. CASE a < 0
  <2>1. ASSUME q <= a - 1 PROVE FALSE
    <3>1. q * b <= (a - 1) * b
      BY <2>1, TimesKeepsOrder
    <3>2. a * b <= a
      <4>1. 1 * (-a) <= b * (-a)
        BY <1>3, TimesKeepsOrder
      <4>2. QED BY <4>1
    <3>3. PICK x \in Int, y \in Int : x = a * b /\ y = q * b
      OBVIOUS
    <3>4. (a - 1) * b = x - b /\ b * q = y
      BY <3>3
    <3>5. QED BY <1>1, <3>1, <3>2, <3>3, <3>4
  <2>2. q - a \in Nat
    BY <2>1
  <2>3. 0 * (-a) <= (q - a) * (-a)
    BY <1>3, <2>2, TimesKeepsOrder
  <2>4. (q - a) * (-a) = a * (a - q)
    OBVIOUS
  <2>5. QED BY <1>1, <2>3, <2>4
<1>4. QED BY <1>2, <1>3

LEMMA RoundedPositive ==
    ASSUME NEW a \in Nat, NEW b \in Nat \ {0}
    PROVE  Rounded(a, b) \in Nat
<1>0. PICK q \in Int : q = Rounded(a, b) /\ RoundsTo(a, b, q)
  BY RoundingError
<1>1. q = Rounded(a, b) /\ -b <= 2 * (b * q - a)
  BY <1>0 DEF RoundsTo
<1>2. ASSUME q <= -1 PROVE FALSE
  <2>1. q * b <= (-1) * b
    BY <1>2, TimesKeepsOrder
  <2>2. PICK p \in Int : p = b * q
    OBVIOUS
  <2>3. p <= -b /\ -b <= 2 * (p - a)
    BY <1>1, <2>1, <2>2
  <2>4. QED BY <2>3
<1>3. QED BY <1>1, <1>2

----------------------------------------------------------------------------
(* Welford's update.                                                       *)

Baseline == [count : Nat, mean : Int, m2 : Nat]

\* w is the baseline of n rates that sum up to s: its mean is theirs to within
\* half a unit for each update.
Describes(w, n, s) ==
    /\ w \in Baseline /\ w.count = n
    /\ 2 * (n * w.mean - Scale * s) <= n * n /\ -(n * n) <= 2 * (n * w.mean - Scale * s)
    /\ n = 0 => w = NoBaseline /\ s = 0

LEMMA UpdateDescribes ==
    ASSUME NEW n \in Nat, NEW v \in Nat, NEW s \in Nat, NEW w, Describes(w, n, s)
    PROVE  Describes(Update(w, v), n + 1, s + v)
<1>1. Scale \in Nat \ {0}
  BY SpendWatchAssumption
<1>2. PICK m \in Int, k \in Nat : m = w.mean /\ k = w.m2 /\ w.count = n
  BY DEF Describes, Baseline
<1>3. PICK S \in Int, V \in Int : S = Scale * s /\ V = v * Scale
  BY <1>1
<1>4. PICK delta \in Int : delta = V - m
  BY <1>3
<1>a. n + 1 \in Nat \ {0}
  OBVIOUS
<1>b. PICK q \in Int : q = Rounded(delta, n + 1) /\ RoundsTo(delta, n + 1, q)
  BY <1>a, RoundingError
<1>5. /\ q = Rounded(delta, n + 1)
      /\ 2 * ((n + 1) * q - delta) <= n + 1 /\ -(n + 1) <= 2 * ((n + 1) * q - delta)
  BY <1>b DEF RoundsTo
<1>6. PICK p \in Nat : p = ScaledProduct(delta, delta - q)
  <2>1. delta * (delta - q) \in Nat
    BY <1>5, RoundedShare
  <2>2. QED BY <1>1, <2>1, RoundedPositive DEF ScaledProduct
<1>7. Update(w, v) = [count |-> n + 1, mean |-> m + q, m2 |-> k + p]
  <2>1. V - (m + q) = delta - q
    BY <1>4
  <2>2. QED BY <1>2, <1>3, <1>4, <1>5, <1>6, <2>1 DEF Update
<1>8. PICK x \in Int, y \in Int, z \in Int : x = n * m /\ y = (n + 1) * q /\ z = n * n
  OBVIOUS
<1>9. 2 * (x - S) <= z /\ -z <= 2 * (x - S)
  BY <1>2, <1>3, <1>8 DEF Describes
<1>10. Scale * (s + v) = S + V /\ (n + 1) * (m + q) = x + m + y /\ (n + 1) * (n + 1) = z + 2 * n + 1
  BY <1>1, <1>3, <1>8
<1>11. /\ 2 * ((x + m + y) - (S + V)) <= z + 2 * n + 1
       /\ -(z + 2 * n + 1) <= 2 * ((x + m + y) - (S + V))
  BY <1>4, <1>5, <1>8, <1>9
<1>12. Update(w, v) \in Baseline
  BY <1>7 DEF Baseline
<1>13. n + 1 # 0
  OBVIOUS
<1>14. QED BY <1>7, <1>10, <1>11, <1>12, <1>13 DEF Describes

\* Taking a rate out again leaves an error of a unit.
LEMMA UpdateAndBack ==
    ASSUME NEW n \in Nat, NEW v \in Nat, NEW s \in Nat, NEW w, Describes(w, n, s),
           NEW b, b = BaselineExcluding(Update(w, v), v)
    PROVE  /\ b.count = n /\ b.mean \in Int /\ b.m2 \in Nat
           /\ n * b.mean - Scale * s \in -(n * n) .. n * n
<1>1. Scale \in Nat \ {0}
  BY SpendWatchAssumption
<1>2. PICK u : u = Update(w, v) /\ u \in Baseline /\ u.count = n + 1 /\ b = BaselineExcluding(u, v)
  BY UpdateDescribes DEF Describes
<1>3. CASE n = 0
  <2>1. b = NoBaseline
    BY <1>2, <1>3 DEF BaselineExcluding
  <2>2. s = 0 /\ b.count = 0 /\ b.mean = 0 /\ b.m2 = 0
    BY <1>3, <2>1 DEF Describes, NoBaseline
  <2>3. QED BY <1>1, <1>3, <2>2
<1>4. CASE n # 0
  <2>1. n \in Nat \ {0} /\ (n + 1) - 1 = n /\ ~(n + 1 <= 1)
    BY <1>4
  <2>2. PICK m \in Int : m = w.mean /\ w.count = n
    BY DEF Describes, Baseline
  <2>3. PICK S \in Int, V \in Int : S = Scale * s /\ V = v * Scale
    BY <1>1
  <2>4. PICK delta \in Int : delta = V - m
    BY <2>3
  <2>a. n + 1 \in Nat \ {0}
    OBVIOUS
  <2>b. PICK q \in Int : q = Rounded(delta, n + 1) /\ RoundsTo(delta, n + 1, q)
    BY <2>a, RoundingError
  <2>5. /\ q = Rounded(delta, n + 1)
        /\ 2 * ((n + 1) * q - delta) <= n + 1 /\ -(n + 1) <= 2 * ((n + 1) * q - delta)
    BY <2>b DEF RoundsTo
  <2>6. u.mean = m + q
    BY <1>2, <2>2, <2>3, <2>4, <2>5 DEF Update
  <2>7. PICK t \in Int : t = (m + q) * (n + 1) - V
    BY <2>3
  <2>c. PICK o \in Int : o = Rounded(t, n) /\ RoundsTo(t, n, o)
    BY <2>1, RoundingError
  <2>8. o = Rounded(t, n) /\ 2 * (n * o - t) <= n /\ -n <= 2 * (n * o - t)
    BY <2>c DEF RoundsTo
  <2>9. PICK p \in Int : p = ScaledProduct(V - o, V - u.mean)
    <3>1. (V - o) * (V - u.mean) \in Int
      BY <2>6
    <3>2. QED BY <1>1, <3>1, RoundingError DEF ScaledProduct
  <2>10. b = [count |-> n, mean |-> o, m2 |-> IF u.m2 - p < 0 THEN 0 ELSE u.m2 - p]
    BY <1>2, <2>1, <2>3, <2>6, <2>7, <2>8, <2>9 DEF BaselineExcluding
  <2>11. u.m2 \in Nat
    BY <1>2 DEF Baseline
  <2>12. b.count = n /\ b.mean = o /\ b.m2 \in Nat
    BY <2>10, <2>11
  <2>13. PICK x \in Int, y \in Int, z \in Int, f \in Int :
           x = n * m /\ y = (n + 1) * q /\ z = n * n /\ f = n * o
    OBVIOUS
  <2>14. t = x + (y - delta)
    BY <2>4, <2>7, <2>13
  <2>15. 2 * (f - x) <= 2 * n + 1 /\ -(2 * n + 1) <= 2 * (f - x)
    BY <2>5, <2>8, <2>13, <2>14
  <2>16. f - x = n * (o - m)
    BY <2>13
  <2>17. o - m <= 1 /\ -1 <= o - m
    <3>1. ASSUME o - m >= 2 PROVE FALSE
      <4>1. 2 * n <= (o - m) * n
        BY <3>1, TimesKeepsOrder
      <4>2. QED BY <2>1, <2>15, <2>16, <4>1
    <3>2. ASSUME o - m <= -2 PROVE FALSE
      <4>1. (o - m) * n <= (-2) * n
        BY <3>2, TimesKeepsOrder
      <4>2. QED BY <2>1, <2>15, <2>16, <4>1
    <3>3. QED BY <3>1, <3>2
  <2>18. f - x \in {-n, 0, n}
    <3>1. o - m \in {-1, 0, 1}
      BY <2>17
    <3>2. QED BY <2>16, <3>1
  <2>19. 2 * (x - S) <= z /\ -z <= 2 * (x - S)
    BY <2>2, <2>3, <2>13 DEF Describes
  <2>20. f - S \in -z .. z
    <3>1. CASE n = 1
      BY <2>13, <2>18, <2>19, <3>1
    <3>2. CASE n >= 2
      <4>1. 2 * n <= z
        <5>1. 2 * n <= n * n
          BY <3>2, TimesKeepsOrder
        <5>2. QED BY <2>13, <5>1
      <4>2. QED BY <2>18, <2>19, <4>1
    <3>3. QED BY <2>1, <3>1, <3>2
  <2>21. QED BY <2>3, <2>12, <2>13, <2>20
<1>5. QED BY <1>3, <1>4

----------------------------------------------------------------------------
(* The score.                                                              *)

\* What JudgedByThePast says of window w, with n windows before it that sum up
\* to s, and of its announcement.
Judged(w, n, s) ==
    /\ w.verdict = "COLD_START" <=> n < MinObservations
    /\ w.verdict = "BELOW_ABSOLUTE_FLOOR" <=> n >= MinObservations /\ w.rate < MinRate
    /\ n * w.mean - Scale * s \in -(n * n) .. n * n

Announceable(w, n, s) ==
    /\ n >= MinObservations /\ w.rate >= MinRate
    /\ Scale * (n * w.rate - s) >= -(n * n)

LEMMA ScoreIsFair ==
    ASSUME NEW n \in Nat, NEW rate \in Nat, NEW s \in Nat,
           NEW b, b.count = n, b.mean \in Int, b.m2 \in Nat,
           n * b.mean - Scale * s \in -(n * n) .. n * n,
           NEW w, w.rate = rate, w.mean = b.mean, w.verdict = Score(b, rate)
    PROVE  /\ w.verdict \in Verdicts /\ Judged(w, n, s)
           /\ Anomalous(w.verdict) => Announceable(w, n, s)
<1>1. Scale \in Nat \ {0} /\ MinObservations \in Nat /\ MinRate \in Nat
  BY SpendWatchAssumption
<1>2. w.verdict \in Verdicts /\ Judged(w, n, s)
  BY <1>1 DEF Score, Verdicts, Judged
<1>3. ASSUME Anomalous(w.verdict) PROVE Announceable(w, n, s)
  <2>1. PICK m \in Int : m = b.mean
    OBVIOUS
  <2>2. PICK V \in Nat : V = rate * Scale
    BY <1>1
  <2>3. n >= MinObservations /\ rate >= MinRate
    BY <1>1, <1>3 DEF Anomalous, Score
  <2>4. V > 2 * m \/ V - m >= 0
    BY <1>3, <2>1, <2>2, <2>3 DEF Anomalous, Score
  <2>5. m <= V
    BY <2>4
  <2>6. n * m <= n * V
    BY <2>5, TimesKeepsOrder
  <2>7. PICK x \in Int, y \in Int, z \in Int, S \in Int :
          x = n * m /\ y = n * V /\ z = n * n /\ S = Scale * s
    BY <1>1
  <2>8. -z <= x - S /\ x <= y
    BY <2>1, <2>6, <2>7
  <2>9. Scale * (n * rate - s) = y - S
    BY <1>1, <2>2, <2>7
  <2>10. Scale * (n * rate - s) >= -(n * n)
    BY <2>7, <2>8, <2>9
  <2>11. QED BY <2>3, <2>10 DEF Announceable
<1>4. QED BY <1>2, <1>3

----------------------------------------------------------------------------
(* Sums over the closed windows.                                           *)

LEMMA SumOfNext ==
    ASSUME NEW n \in Nat, NEW f, NEW g, DOMAIN f = 1 .. n + 1, DOMAIN g = 1 .. n,
           \A k \in 1 .. n : f[k] \in Int /\ g[k] = f[k], f[n + 1] \in Int
    PROVE  SumFunction(g) \in Int /\ SumFunction(f) = SumFunction(g) + f[n + 1]
<1>1. PICK A, B : A = 1 .. n + 1 /\ B = 1 .. n
  OBVIOUS
<1>2. IsFiniteSet(A) /\ IsFiniteSet(B)
  BY <1>1, FS_Interval
<1>3. n + 1 \in A /\ A \ {n + 1} = B
  BY <1>1
<1>4. Counts(f, A) /\ Counts(f, B) /\ Counts(g, B)
  <2>1. \A k \in A : k \in B \/ k = n + 1
    BY <1>3
  <2>2. QED BY <2>1, <1>1 DEF Counts
<1>5. SumFunctionOnSet(f, A) = f[n + 1] + SumFunctionOnSet(f, A \ {n + 1})
  BY <1>2, <1>3, <1>4, SumOverSet
<1>6. SumFunctionOnSet(g, B) = SumFunctionOnSet(f, B)
  <2>1. \A k \in B : g[k] = f[k]
    BY <1>1
  <2>2. QED BY <2>1, <1>2, <1>4, SumsAgree
<1>7. SumFunctionOnSet(g, B) \in Int
  BY <1>2, <1>4, SumOverSet
<1>8. SumFunction(f) = SumFunctionOnSet(f, A) /\ SumFunction(g) = SumFunctionOnSet(g, B)
  BY <1>1 DEF SumFunction
<1>9. SumFunctionOnSet(f, A) = f[n + 1] + SumFunctionOnSet(g, B)
  BY <1>3, <1>5, <1>6
<1>10. PICK x \in Int, y \in Int : x = SumFunctionOnSet(g, B) /\ y = f[n + 1]
  BY <1>7
<1>11. QED BY <1>8, <1>9, <1>10

LEMMA SumOfNone == ASSUME NEW f, DOMAIN f = {} PROVE SumFunction(f) = 0
<1>1. IsFiniteSet(DOMAIN f) /\ Counts(f, DOMAIN f)
  BY FS_EmptySet DEF Counts
<1>2. QED BY <1>1, SumOverSet DEF SumFunction

\* What is compared of two histories of windows.
Rates(windows, i) == SumOfRates(windows, i)
Requested(windows, i) == SumBefore(windows, i, LAMBDA w : w.requests)

Window == [from : Nat, rate : Nat, requests : Nat, mean : Int, verdict : Verdicts]

LEMMA SumsOfNone == ASSUME NEW windows PROVE Rates(windows, 1) = 0 /\ Requested(windows, 1) = 0
<1>1. 1 .. 1 - 1 = {}
  OBVIOUS
<1>2. DOMAIN [k \in 1 .. 1 - 1 |-> windows[k].rate] = {}
      /\ DOMAIN [k \in 1 .. 1 - 1 |-> windows[k].requests] = {}
  BY <1>1
<1>3. QED BY <1>2, SumOfNone DEF Rates, SumOfRates, Requested, SumBefore

\* One more window adds what it holds.
LEMMA SumsOfNext ==
    ASSUME NEW windows \in Seq(Window), NEW n \in Nat, n + 1 <= Len(windows)
    PROVE  /\ Rates(windows, n + 1) \in Int /\ Requested(windows, n + 1) \in Int
           /\ Rates(windows, n + 2) = Rates(windows, n + 1) + windows[n + 1].rate
           /\ Requested(windows, n + 2) = Requested(windows, n + 1) + windows[n + 1].requests
<1>1. \A k \in 1 .. n + 1 : windows[k].rate \in Int /\ windows[k].requests \in Int
  <2>1. ASSUME NEW k \in 1 .. n + 1 PROVE windows[k] \in Window
    <3>1. k \in 1 .. Len(windows)
      OBVIOUS
    <3>2. QED BY <3>1, ElementOfSeq
  <2>2. ASSUME NEW k \in 1 .. n + 1 PROVE windows[k].rate \in Nat /\ windows[k].requests \in Nat
    BY <2>1 DEF Window
  <2>3. QED BY <2>2
<1>2. (n + 2) - 1 = n + 1 /\ (n + 1) - 1 = n /\ n + 1 \in 1 .. n + 1 /\ \A k \in 1 .. n : k \in 1 .. n + 1
  OBVIOUS
<1>3. Rates(windows, n + 1) \in Int /\ Rates(windows, n + 2) = Rates(windows, n + 1) + windows[n + 1].rate
  <2>1. PICK f, g : f = [k \in 1 .. n + 1 |-> windows[k].rate] /\ g = [k \in 1 .. n |-> windows[k].rate]
    OBVIOUS
  <2>2. /\ DOMAIN f = 1 .. n + 1 /\ DOMAIN g = 1 .. n /\ \A k \in 1 .. n : f[k] \in Int /\ g[k] = f[k]
        /\ f[n + 1] \in Int /\ f[n + 1] = windows[n + 1].rate
    BY <2>1, <1>1, <1>2
  <2>3. SumFunction(g) \in Int /\ SumFunction(f) = SumFunction(g) + f[n + 1]
    BY <2>2, SumOfNext
  <2>4. Rates(windows, n + 2) = SumFunction(f) /\ Rates(windows, n + 1) = SumFunction(g)
    BY <2>1, <1>2 DEF Rates, SumOfRates, SumBefore
  <2>5. QED BY <2>2, <2>3, <2>4
<1>4. Requested(windows, n + 1) \in Int /\ Requested(windows, n + 2) = Requested(windows, n + 1) + windows[n + 1].requests
  <2>1. PICK f, g : f = [k \in 1 .. n + 1 |-> windows[k].requests] /\ g = [k \in 1 .. n |-> windows[k].requests]
    OBVIOUS
  <2>2. /\ DOMAIN f = 1 .. n + 1 /\ DOMAIN g = 1 .. n /\ \A k \in 1 .. n : f[k] \in Int /\ g[k] = f[k]
        /\ f[n + 1] \in Int /\ f[n + 1] = windows[n + 1].requests
    BY <2>1, <1>1, <1>2
  <2>3. SumFunction(g) \in Int /\ SumFunction(f) = SumFunction(g) + f[n + 1]
    BY <2>2, SumOfNext
  <2>4. Requested(windows, n + 2) = SumFunction(f) /\ Requested(windows, n + 1) = SumFunction(g)
    BY <2>1, <1>2 DEF Requested, SumBefore
  <2>5. QED BY <2>2, <2>3, <2>4
<1>5. QED BY <1>3, <1>4

\* A later window changes nothing of what came before it.
LEMMA SumsStay ==
    ASSUME NEW a, NEW b, NEW i \in Nat, \A k \in 1 .. i - 1 : a[k] = b[k]
    PROVE  Rates(a, i) = Rates(b, i) /\ Requested(a, i) = Requested(b, i)
<1>1. [k \in 1 .. i - 1 |-> a[k].rate] = [k \in 1 .. i - 1 |-> b[k].rate]
  OBVIOUS
<1>2. [k \in 1 .. i - 1 |-> a[k].requests] = [k \in 1 .. i - 1 |-> b[k].requests]
  OBVIOUS
<1>3. QED BY <1>1, <1>2 DEF Rates, SumOfRates, Requested, SumBefore

----------------------------------------------------------------------------
(* One row.                                                                *)

SpendRecord == [baseline : Baseline, from : Nat, cost : Nat, requests : Nat]

\* Window w was judged by the n before it, that sum up to s, and is announced
\* only with reason.
Stands(w, n, s) == Judged(w, n, s) /\ (Anomalous(w.verdict) => Announceable(w, n, s))

\* The closed windows c do not overlap, each other or the open one, and each
\* was judged by those before it.
WindowsStand(s, c) ==
    \A i \in 1 .. Len(c) :
      /\ c[i].from + WindowTicks <= IF i = Len(c) THEN s.from ELSE c[i + 1].from
      /\ Stands(c[i], i - 1, Rates(c, i))

\* The closed windows c and the open one of s hold `seen' rows that cost `total'.
Holds(s, c, seen, total) ==
    /\ Rates(c, Len(c) + 1) \in Nat /\ Requested(c, Len(c) + 1) \in Nat
    /\ Describes(s.baseline, Len(c), Rates(c, Len(c) + 1))
    /\ s.from = 0 => c = <<>> /\ s.requests = 0 /\ s.cost = 0
    /\ s.from # 0 => s.from \in WatchTimes /\ s.requests > 0
    /\ Requested(c, Len(c) + 1) + s.requests = seen
    /\ Rates(c, Len(c) + 1) + s.cost = total
    /\ Len(c) + s.requests <= seen

Watched(acc, seen, total) ==
    /\ acc \in [spend : SpendRecord, closed : Seq(Window)]
    /\ WindowsStand(acc.spend, acc.closed) /\ Holds(acc.spend, acc.closed, seen, total)

LEMMA RowJoins ==
    ASSUME NEW acc, NEW seen \in Nat, NEW total \in Nat, Watched(acc, seen, total), NEW row \in Row,
           Joins(acc.spend, row)
    PROVE  /\ Watched(ObserveRow(acc, row), seen + 1, total + row.cost)
           /\ ObserveRow(acc, row).closed = acc.closed
<1>1. row.at \in WatchTimes /\ row.at \in Nat \ {0} /\ row.cost \in Nat
  BY SpendWatchAssumption DEF Row
<1>2. PICK s, c : s = acc.spend /\ c = acc.closed
  OBVIOUS
<1>3. s \in SpendRecord /\ c \in Seq(Window) /\ acc = [spend |-> s, closed |-> c]
  BY <1>2 DEF Watched
<1>4. PICK t : t = Joined(s, row)
  OBVIOUS
<1>5. /\ t.baseline = s.baseline /\ t.from = (IF s.from = 0 THEN row.at ELSE s.from)
      /\ t.cost = s.cost + row.cost /\ t.requests = s.requests + 1 /\ t \in SpendRecord
  <2>1. PICK b \in Baseline, f \in Nat, k \in Nat, r \in Nat : s = [baseline |-> b, from |-> f, cost |-> k, requests |-> r]
    BY <1>3 DEF SpendRecord
  <2>2. PICK g \in Nat : g = IF f = 0 THEN row.at ELSE f
    BY <1>1
  <2>3. t = [baseline |-> b, from |-> g, cost |-> k + row.cost, requests |-> r + 1]
    BY <1>4, <2>1, <2>2 DEF Joined
  <2>4. t \in SpendRecord
    BY <1>1, <2>3 DEF SpendRecord
  <2>5. QED BY <2>1, <2>2, <2>3, <2>4
<1>6. ObserveRow(acc, row) = [spend |-> t, closed |-> c]
  BY <1>2, <1>3, <1>4 DEF ObserveRow
<1>7. WindowsStand(s, c) /\ Holds(s, c, seen, total)
  BY <1>2 DEF Watched
<1>8. s.from = 0 => c = <<>>
  BY <1>7 DEF Holds
<1>9. WindowsStand(t, c)
  <2>1. CASE s.from = 0
    <3>1. Len(c) = 0
      BY <1>8, <2>1
    <3>2. 1 .. Len(c) = {}
      BY <3>1
    <3>3. QED BY <3>2 DEF WindowsStand
  <2>2. CASE s.from # 0
    <3>1. t.from = s.from
      BY <1>5, <2>2
    <3>2. QED BY <1>7, <3>1 DEF WindowsStand
  <2>3. QED BY <2>1, <2>2
<1>10. Holds(t, c, seen + 1, total + row.cost)
  <2>1. PICK R, K, n : R = Rates(c, Len(c) + 1) /\ K = Requested(c, Len(c) + 1) /\ n = Len(c)
    OBVIOUS
  <2>2. /\ R \in Nat /\ K \in Nat /\ n \in Nat /\ Describes(t.baseline, n, R)
        /\ K + s.requests = seen /\ R + s.cost = total /\ n + s.requests <= seen
    BY <1>3, <1>5, <1>7, <2>1 DEF Holds
  <2>3. t.from # 0 /\ t.from \in WatchTimes
    BY <1>1, <1>5, <1>7 DEF Holds
  <2>4. s.requests \in Nat /\ s.cost \in Nat
    BY <1>3 DEF SpendRecord
  <2>5. t.requests > 0 /\ K + t.requests = seen + 1 /\ R + t.cost = total + row.cost /\ n + t.requests <= seen + 1
    BY <1>1, <1>5, <2>2, <2>4
  <2>6. QED BY <2>1, <2>2, <2>3, <2>5 DEF Holds
<1>11. QED BY <1>2, <1>3, <1>5, <1>6, <1>9, <1>10 DEF Watched

LEMMA RowCloses ==
    ASSUME NEW acc, NEW seen \in Nat, NEW total \in Nat, Watched(acc, seen, total), NEW row \in Row,
           ~Joins(acc.spend, row), seen + 1 <= MaxWatched
    PROVE  /\ Watched(ObserveRow(acc, row), seen + 1, total + row.cost)
           /\ Len(ObserveRow(acc, row).closed) = Len(acc.closed) + 1
           /\ \A i \in 1 .. Len(acc.closed) : ObserveRow(acc, row).closed[i] = acc.closed[i]
<1>1. row.at \in WatchTimes /\ row.at \in Nat \ {0} /\ row.cost \in Nat /\ WindowTicks \in Nat \ {0} /\ MaxWatched \in Nat
  BY SpendWatchAssumption DEF Row
<1>2. PICK s, c, n : s = acc.spend /\ c = acc.closed /\ n = Len(c)
  OBVIOUS
<1>3. s \in SpendRecord /\ c \in Seq(Window) /\ acc = [spend |-> s, closed |-> c] /\ n \in Nat
  BY <1>2 DEF Watched
<1>4. WindowsStand(s, c) /\ Holds(s, c, seen, total)
  BY <1>2 DEF Watched
<1>5. PICK R, K : R = Rates(c, n + 1) /\ K = Requested(c, n + 1)
  OBVIOUS
<1>6. /\ R \in Nat /\ K \in Nat /\ Describes(s.baseline, n, R)
      /\ K + s.requests = seen /\ R + s.cost = total /\ n + s.requests <= seen
  BY <1>2, <1>4, <1>5 DEF Holds
<1>7. s.cost \in Nat /\ s.requests \in Nat /\ s.from \in Nat
  BY <1>3 DEF SpendRecord
<1>8. s.from # 0 /\ s.from + WindowTicks <= row.at /\ s.requests > 0
  <2>1. s.from # 0 /\ ~(row.at - s.from < WindowTicks)
    BY <1>2 DEF Joins
  <2>2. s.requests > 0
    BY <2>1, <1>4 DEF Holds
  <2>3. QED BY <2>1, <2>2, <1>1, <1>7
<1>10. PICK t : t = Reopened(s, row)
  OBVIOUS
<1>9. PICK b : b = BaselineExcluding(t.baseline, s.cost)
  OBVIOUS
<1>11. /\ Describes(t.baseline, n + 1, R + s.cost)
       /\ b.count = n /\ b.mean \in Int /\ b.m2 \in Nat
       /\ n * b.mean - Scale * R \in -(n * n) .. n * n
  <2>1. t.baseline = Update(s.baseline, s.cost)
    BY <1>10 DEF Reopened
  <2>2. PICK v, w : v \in Nat /\ v = s.cost /\ w = s.baseline
    BY <1>7
  <2>3. n \in Nat /\ R \in Nat /\ Describes(w, n, R) /\ b = BaselineExcluding(Update(w, v), v)
    BY <1>3, <1>6, <1>9, <2>1, <2>2
  <2>4. Describes(Update(w, v), n + 1, R + v)
    BY <2>2, <2>3, UpdateDescribes
  <2>5. /\ b.count = n /\ b.mean \in Int /\ b.m2 \in Nat
        /\ n * b.mean - Scale * R \in -(n * n) .. n * n
    BY <2>2, <2>3, UpdateAndBack
  <2>6. QED BY <2>1, <2>2, <2>4, <2>5
<1>12. t.from = row.at /\ t.cost = row.cost /\ t.requests = 1 /\ t \in SpendRecord
  <2>1. t = [baseline |-> t.baseline, from |-> row.at, cost |-> row.cost, requests |-> 1]
    BY <1>10 DEF Reopened
  <2>2. t.baseline \in Baseline
    BY <1>11 DEF Describes
  <2>3. QED BY <1>1, <2>1, <2>2 DEF SpendRecord
<1>13. PICK w : w = [from |-> s.from, rate |-> s.cost, requests |-> s.requests,
                     mean |-> b.mean, verdict |-> Score(b, s.cost)]
  OBVIOUS
<1>14. /\ w.from = s.from /\ w.rate = s.cost /\ w.requests = s.requests
       /\ w.verdict \in Verdicts /\ Stands(w, n, R)
  <2>1. w.from = s.from /\ w.rate = s.cost /\ w.requests = s.requests
    BY <1>13
  <2>2. PICK v : v \in Nat /\ v = s.cost /\ w.rate = v /\ w.mean = b.mean /\ w.verdict = Score(b, v)
    BY <1>7, <1>13
  <2>3. n \in Nat /\ R \in Nat
    BY <1>3, <1>6
  <2>4. /\ w.verdict \in Verdicts /\ Judged(w, n, R)
        /\ Anomalous(w.verdict) => Announceable(w, n, R)
    BY <1>11, <2>2, <2>3, ScoreIsFair
  <2>5. QED BY <2>1, <2>4 DEF Stands
<1>15. w \in Window
  BY <1>7, <1>11, <1>13, <1>14 DEF Window
<1>16. PICK d : d = Append(c, w)
  OBVIOUS
<1>17. /\ d \in Seq(Window) /\ Len(d) = n + 1 /\ d[n + 1] = w
       /\ \A i \in 1 .. n : d[i] = c[i]
  BY <1>2, <1>3, <1>15, <1>16
<1>18. ObserveRow(acc, row) = [spend |-> t, closed |-> d]
  BY <1>2, <1>3, <1>9, <1>10, <1>13, <1>16 DEF ObserveRow
<1>19. \A i \in 1 .. n + 1 : Rates(d, i) = Rates(c, i) /\ Requested(d, i) = Requested(c, i)
  <2>1. ASSUME NEW i \in 1 .. n + 1 PROVE i \in Nat /\ \A k \in 1 .. i - 1 : d[k] = c[k]
    <3>1. \A k \in 1 .. i - 1 : k \in 1 .. n
      BY <1>3
    <3>2. QED BY <3>1, <1>17
  <2>2. QED BY <2>1, SumsStay
<1>20. Rates(d, n + 2) = R + s.cost /\ Requested(d, n + 2) = K + s.requests
  <2>1. /\ Rates(d, n + 2) = Rates(d, n + 1) + d[n + 1].rate
        /\ Requested(d, n + 2) = Requested(d, n + 1) + d[n + 1].requests
    BY <1>3, <1>17, SumsOfNext, SMTT(20)
  <2>2. n + 1 \in 1 .. n + 1
    BY <1>3
  <2>3. QED BY <2>1, <2>2, <1>5, <1>14, <1>17, <1>19
<1>21. WindowsStand(t, d)
  <2>1. ASSUME NEW i \in 1 .. n + 1
        PROVE  /\ d[i].from + WindowTicks <= IF i = n + 1 THEN t.from ELSE d[i + 1].from
               /\ Stands(d[i], i - 1, Rates(d, i))
    <3>1. CASE i = n + 1
      <4>1. (n + 1) - 1 = n
        BY <1>3
      <4>2. QED BY <3>1, <4>1, <1>5, <1>8, <1>12, <1>14, <1>17, <1>19
    <3>2. CASE i # n + 1
      <4>1. i \in 1 .. n /\ (i # n => i + 1 \in 1 .. n)
        BY <1>3, <3>2
      <4>2. /\ c[i].from + WindowTicks <= IF i = n THEN s.from ELSE c[i + 1].from
            /\ Stands(c[i], i - 1, Rates(c, i))
        BY <1>2, <1>4, <4>1 DEF WindowsStand
      <4>3. d[i] = c[i] /\ d[i + 1].from = IF i = n THEN s.from ELSE c[i + 1].from
        BY <1>14, <1>17, <4>1
      <4>4. QED BY <3>2, <4>2, <4>3, <1>19
    <3>3. QED BY <3>1, <3>2
  <2>2. QED BY <1>17, <2>1 DEF WindowsStand
<1>22. Holds(t, d, seen + 1, total + row.cost)
  <2>1. Len(d) = n + 1 /\ (n + 1) + 1 = n + 2
    BY <1>3, <1>17
  <2>2. R + s.cost \in Nat /\ K + s.requests \in Nat
    BY <1>6, <1>7
  <2>3. (K + s.requests) + 1 = seen + 1 /\ (R + s.cost) + row.cost = total + row.cost /\ (n + 1) + 1 <= seen + 1
    <3>1. K + s.requests = seen /\ R + s.cost = total /\ n + 1 <= seen
      BY <1>3, <1>6, <1>7, <1>8
    <3>2. n + 1 \in Nat /\ seen \in Nat
      BY <1>3
    <3>3. (n + 1) + 1 <= seen + 1
      BY <3>1, <3>2
    <3>4. QED BY <3>1, <3>3
  <2>4. t.from # 0 /\ t.from \in WatchTimes /\ t.requests > 0
    BY <1>1, <1>12
  <2>5. QED BY <1>11, <1>12, <1>20, <2>1, <2>2, <2>3, <2>4 DEF Holds
<1>23. QED BY <1>2, <1>12, <1>17, <1>18, <1>21, <1>22 DEF Watched

\* `after' is acc with one more row, the next-th, and `sum' what they all cost.
Takes(acc, row, after, next, sum) ==
    \E seen \in Nat, total \in Nat :
      /\ Watched(acc, seen, total) /\ after = ObserveRow(acc, row)
      /\ next = seen + 1 /\ sum = total + row.cost /\ next <= MaxWatched

\* One more row: the windows that are closed stay as they are.
LEMMA RowObserved ==
    ASSUME NEW acc, NEW row \in Row, NEW after, NEW next, NEW sum, Takes(acc, row, after, next, sum)
    PROVE  /\ Watched(after, next, sum)
           /\ Len(acc.closed) <= Len(after.closed)
           /\ \A i \in 1 .. Len(acc.closed) : after.closed[i] = acc.closed[i]
<1>0. PICK seen \in Nat, total \in Nat :
        /\ Watched(acc, seen, total) /\ after = ObserveRow(acc, row)
        /\ next = seen + 1 /\ sum = total + row.cost /\ next <= MaxWatched
  BY DEF Takes
<1>1. acc.closed \in Seq(Window)
  BY <1>0 DEF Watched
<1>2. Len(acc.closed) \in Nat
  BY <1>1
<1>3. CASE Joins(acc.spend, row)
  BY <1>0, <1>2, <1>3, RowJoins
<1>4. CASE ~Joins(acc.spend, row)
  <2>1. PICK l : l = Len(acc.closed)
    OBVIOUS
  <2>2. Watched(after, next, sum) /\ Len(after.closed) = l + 1 /\ \A i \in 1 .. l : after.closed[i] = acc.closed[i]
    BY <1>0, <1>4, <2>1, RowCloses
  <2>3. l \in Nat /\ l <= l + 1
    BY <1>2, <2>1
  <2>4. QED BY <2>1, <2>2, <2>3
<1>5. QED BY <1>3, <1>4

\* h folds the rows of b over its subsets, the last row last.
FoldsRows(h, base, b) ==
    h = [S \in SUBSET DOMAIN b |-> IF S = {} THEN base ELSE ObserveRow(h[S \ {Max(S)}], b[Max(S)])]

LEMMA FoldUnfolds ==
    ASSUME NEW base, NEW b
    PROVE  \E h : h = (CHOOSE g : FoldsRows(g, base, b)) /\ FoldLeft(ObserveRow, base, b) = h[DOMAIN b]
  BY DEF FoldLeft, MapThenFoldSet, FoldsRows

LEMMA LastOfRows == Max({1}) = 1 /\ Max({2}) = 2 /\ Max({1, 2}) = 2
  BY DEF Max

LEMMA FoldOfOne ==
    ASSUME NEW base, NEW b, DOMAIN b = {1}
    PROVE  FoldLeft(ObserveRow, base, b) = ObserveRow(base, b[1])
<1>1. \E h : FoldsRows(h, base, b)
  <2>1. PICK h : h = [S \in SUBSET {1} |-> IF S = {} THEN base ELSE ObserveRow(base, b[1])]
    OBVIOUS
  <2>2. ASSUME NEW S \in SUBSET {1}, S # {} PROVE Max(S) = 1 /\ h[S \ {Max(S)}] = base
    <3>1. S = {1}
      BY <2>2
    <3>2. S \ {1} = {} /\ {} \in SUBSET {1}
      BY <3>1
    <3>3. QED BY <2>1, <3>1, <3>2, LastOfRows
  <2>3. \A S \in SUBSET {1} : h[S] = IF S = {} THEN base ELSE ObserveRow(h[S \ {Max(S)}], b[Max(S)])
    BY <2>1, <2>2
  <2>4. QED BY <2>1, <2>3 DEF FoldsRows
<1>2. PICK h : h = (CHOOSE g : FoldsRows(g, base, b)) /\ FoldLeft(ObserveRow, base, b) = h[DOMAIN b]
  BY FoldUnfolds
<1>3. FoldsRows(h, base, b)
  BY <1>1, <1>2
<1>4. h[{}] = base /\ h[{1}] = ObserveRow(h[{1} \ {Max({1})}], b[Max({1})])
  BY <1>3 DEF FoldsRows
<1>5. {1} \ {1} = {}
  OBVIOUS
<1>6. QED BY <1>2, <1>4, <1>5, LastOfRows

LEMMA FoldOfTwo ==
    ASSUME NEW base, NEW b, DOMAIN b = {1, 2}
    PROVE  FoldLeft(ObserveRow, base, b) = ObserveRow(ObserveRow(base, b[1]), b[2])
<1>1. \E h : FoldsRows(h, base, b)
  <2>1. PICK one : one = ObserveRow(base, b[1])
    OBVIOUS
  <2>2. PICK h : h = [S \in SUBSET {1, 2} |-> IF S = {} THEN base ELSE IF S = {1} THEN one
                                             ELSE IF S = {2} THEN ObserveRow(base, b[2]) ELSE ObserveRow(one, b[2])]
    OBVIOUS
  <2>3. h[{}] = base /\ h[{1}] = one /\ {1} \ {1} = {} /\ {2} \ {2} = {} /\ {1, 2} \ {2} = {1}
    BY <2>2
  <2>4. ASSUME NEW S \in SUBSET {1, 2}, S # {} PROVE h[S] = ObserveRow(h[S \ {Max(S)}], b[Max(S)])
    <3>1. CASE S = {1}
      BY <2>1, <2>3, <3>1, LastOfRows
    <3>2. CASE S = {2}
      <4>1. h[{2}] = ObserveRow(base, b[2])
        BY <2>2
      <4>2. QED BY <2>3, <3>2, <4>1, LastOfRows
    <3>3. CASE S = {1, 2}
      <4>1. h[{1, 2}] = ObserveRow(one, b[2])
        BY <2>2
      <4>2. QED BY <2>3, <3>3, <4>1, LastOfRows
    <3>4. QED BY <2>4, <3>1, <3>2, <3>3
  <2>5. \A S \in SUBSET {1, 2} : h[S] = IF S = {} THEN base ELSE ObserveRow(h[S \ {Max(S)}], b[Max(S)])
    BY <2>3, <2>4
  <2>6. DOMAIN h = SUBSET {1, 2} /\ h = [S \in SUBSET {1, 2} |-> h[S]]
    BY <2>2
  <2>7. h = [S \in SUBSET {1, 2} |-> IF S = {} THEN base ELSE ObserveRow(h[S \ {Max(S)}], b[Max(S)])]
    BY <2>5, <2>6
  <2>8. QED BY <2>7 DEF FoldsRows
<1>2. PICK h : h = (CHOOSE g : FoldsRows(g, base, b)) /\ FoldLeft(ObserveRow, base, b) = h[DOMAIN b]
  BY FoldUnfolds
<1>3. FoldsRows(h, base, b)
  BY <1>1, <1>2
<1>4. /\ h[{}] = base /\ h[{1}] = ObserveRow(h[{1} \ {Max({1})}], b[Max({1})])
      /\ h[{1, 2}] = ObserveRow(h[{1, 2} \ {Max({1, 2})}], b[Max({1, 2})])
  BY <1>3 DEF FoldsRows
<1>5. {1} \ {1} = {} /\ {1, 2} \ {2} = {1}
  OBVIOUS
<1>6. QED BY <1>2, <1>4, <1>5, LastOfRows

\* What the rows cost.
Costs(rows) == SumFunction([k \in DOMAIN rows |-> rows[k].cost])

LEMMA RowCosts == ASSUME NEW row \in Row PROVE row.cost \in Nat
  BY SpendWatchAssumption DEF Row

LEMMA CostsOfNext ==
    ASSUME NEW rows \in Seq(Row), NEW row \in Row
    PROVE  /\ Append(rows, row) \in Seq(Row) /\ Len(Append(rows, row)) = Len(rows) + 1
           /\ Costs(rows) \in Int /\ Costs(Append(rows, row)) = Costs(rows) + row.cost
<1>1. PICK n, more : n = Len(rows) /\ more = Append(rows, row)
  OBVIOUS
<1>2. /\ n \in Nat /\ more \in Seq(Row) /\ DOMAIN rows = 1 .. n /\ DOMAIN more = 1 .. n + 1 /\ Len(more) = n + 1
      /\ more[n + 1] = row /\ \A k \in 1 .. n : more[k] = rows[k]
  BY <1>1
<1>3. \A r \in Row : r.cost \in Int
  BY RowCosts
<1>4. \A k \in 1 .. n : rows[k].cost \in Int
  <2>1. ASSUME NEW k \in 1 .. n PROVE rows[k] \in Row
    BY <1>1, ElementOfSeq
  <2>2. QED BY <1>3, <2>1
<1>5. PICK f, g : f = [k \in DOMAIN more |-> more[k].cost] /\ g = [k \in DOMAIN rows |-> rows[k].cost]
  OBVIOUS
<1>6. /\ DOMAIN f = 1 .. n + 1 /\ DOMAIN g = 1 .. n /\ \A k \in 1 .. n : f[k] \in Int /\ g[k] = f[k]
      /\ f[n + 1] \in Int /\ f[n + 1] = row.cost
  <2>1. n + 1 \in 1 .. n + 1 /\ \A k \in 1 .. n : k \in 1 .. n + 1
    BY <1>2
  <2>2. QED BY <1>2, <1>3, <1>4, <1>5, <2>1
<1>7. SumFunction(g) \in Int /\ SumFunction(f) = SumFunction(g) + f[n + 1]
  BY <1>2, <1>6, SumOfNext
<1>8. QED BY <1>1, <1>2, <1>5, <1>6, <1>7 DEF Costs

SpendInv ==
    /\ watched \in Seq(Row) /\ Len(watched) <= MaxWatched /\ Costs(watched) \in Nat
    /\ Watched([spend |-> spend, closed |-> closed], Len(watched), Costs(watched))
    /\ spikes \subseteq DOMAIN closed /\ \A i \in spikes : Anomalous(closed[i].verdict)

LEMMA SpendInvInit == SpendWatchInit => SpendInv
<1> SUFFICES ASSUME SpendWatchInit PROVE SpendInv
  OBVIOUS
<1>1. spend = NoSpend /\ closed = <<>> /\ watched = <<>> /\ spikes = {}
  BY DEF SpendWatchInit
<1>2. closed \in Seq(Window) /\ watched \in Seq(Row) /\ Len(closed) = 0 /\ Len(watched) = 0 /\ DOMAIN watched = {}
  BY <1>1
<1>3. NoBaseline \in Baseline /\ spend \in SpendRecord
  BY <1>1 DEF NoBaseline, NoSpend, Baseline, SpendRecord
<1>4. Costs(watched) = 0
  BY <1>2, SumOfNone DEF Costs
<1>5. Rates(closed, 0 + 1) = 0 /\ Requested(closed, 0 + 1) = 0
  BY SumsOfNone
<1>6. Describes(NoBaseline, 0, 0)
  <2>1. Scale \in Nat
    BY SpendWatchAssumption
  <2>2. 2 * (0 * 0 - Scale * 0) = 0 /\ 0 * 0 = 0
    BY <2>1
  <2>3. NoBaseline.mean = 0 /\ NoBaseline.count = 0
    BY DEF NoBaseline
  <2>4. QED BY <1>3, <2>2, <2>3 DEF Describes
<1>7. spend.baseline = NoBaseline /\ spend.from = 0 /\ spend.cost = 0 /\ spend.requests = 0
  BY <1>1 DEF NoSpend
<1>8. Holds(spend, closed, 0, 0)
  BY <1>1, <1>2, <1>5, <1>6, <1>7 DEF Holds
<1>9. WindowsStand(spend, closed)
  BY <1>2 DEF WindowsStand
<1>10. MaxWatched \in Nat
  BY SpendWatchAssumption
<1>11. QED BY <1>1, <1>2, <1>3, <1>4, <1>8, <1>9, <1>10 DEF SpendInv, Watched

\* Two rows, one after the other.
TakesTwo(acc, a, b, after, next, sum) ==
    \E seen \in Nat, total \in Nat :
      /\ Watched(acc, seen, total) /\ after = ObserveRow(ObserveRow(acc, a), b)
      /\ next = seen + 2 /\ sum = total + a.cost + b.cost /\ next <= MaxWatched

LEMMA TwoObserved ==
    ASSUME NEW acc, NEW a \in Row, NEW b \in Row, NEW after, NEW next, NEW sum,
           TakesTwo(acc, a, b, after, next, sum)
    PROVE  /\ Watched(after, next, sum)
           /\ Len(acc.closed) <= Len(after.closed)
           /\ \A i \in 1 .. Len(acc.closed) : after.closed[i] = acc.closed[i]
<1>0. PICK seen \in Nat, total \in Nat :
        /\ Watched(acc, seen, total) /\ after = ObserveRow(ObserveRow(acc, a), b)
        /\ next = seen + 2 /\ sum = total + a.cost + b.cost /\ next <= MaxWatched
  BY DEF TakesTwo
<1>1. a.cost \in Nat /\ b.cost \in Nat /\ MaxWatched \in Nat
  BY RowCosts, SpendWatchAssumption
<1>2. PICK one \in Nat, some \in Nat : one = seen + 1 /\ some = total + a.cost
  <2>1. seen + 1 \in Nat /\ total + a.cost \in Nat
    BY <1>1
  <2>2. QED BY <2>1
<1>3. PICK first : first = ObserveRow(acc, a)
  OBVIOUS
<1>4. Takes(acc, a, first, one, some)
  <2>1. one <= MaxWatched
    BY <1>0, <1>1, <1>2
  <2>2. QED BY <1>0, <1>2, <1>3, <2>1 DEF Takes
<1>5. /\ Watched(first, one, some) /\ Len(acc.closed) <= Len(first.closed)
      /\ \A i \in 1 .. Len(acc.closed) : first.closed[i] = acc.closed[i]
  BY <1>4, RowObserved
<1>6. Takes(first, b, after, next, sum)
  <2>1. next = one + 1 /\ sum = some + b.cost /\ after = ObserveRow(first, b)
    BY <1>0, <1>1, <1>2, <1>3
  <2>2. QED BY <1>0, <1>5, <2>1 DEF Takes
<1>7. /\ Watched(after, next, sum) /\ Len(first.closed) <= Len(after.closed)
      /\ \A i \in 1 .. Len(first.closed) : after.closed[i] = first.closed[i]
  BY <1>6, RowObserved
<1>8. PICK l, m : l = Len(acc.closed) /\ m = Len(first.closed)
  OBVIOUS
<1>9. l \in Nat /\ m \in Nat /\ Len(after.closed) \in Nat
  <2>1. acc.closed \in Seq(Window) /\ first.closed \in Seq(Window) /\ after.closed \in Seq(Window)
    BY <1>0, <1>5, <1>7 DEF Watched
  <2>2. QED BY <1>8, <2>1
<1>10. \A i \in 1 .. l : i \in 1 .. m
  BY <1>5, <1>8, <1>9
<1>11. QED BY <1>5, <1>7, <1>8, <1>9, <1>10

\* A batch, in the order of its timestamps.
LEMMA BatchObserved ==
    ASSUME SpendInv, NEW batch \in {<<r>> : r \in Row} \cup (Row \X Row), Len(watched) + Len(batch) <= MaxWatched,
           NEW after, after = FoldLeft(ObserveRow, [spend |-> spend, closed |-> closed], InOrder(batch)),
           NEW more, more = watched \o batch
    PROVE  /\ more \in Seq(Row) /\ Len(more) <= MaxWatched /\ Costs(more) \in Nat
           /\ Watched(after, Len(more), Costs(more))
           /\ Len(closed) <= Len(after.closed) /\ \A i \in 1 .. Len(closed) : after.closed[i] = closed[i]
<1>0. PICK acc : acc = [spend |-> spend, closed |-> closed]
  OBVIOUS
<1>1. PICK n \in Nat, total \in Nat : n = Len(watched) /\ total = Costs(watched)
  <2>1. Len(watched) \in Nat /\ Costs(watched) \in Nat
    BY DEF SpendInv
  <2>2. QED BY <2>1
<1>2. watched \in Seq(Row) /\ Watched(acc, n, total) /\ acc.closed = closed
  BY <1>0, <1>1 DEF SpendInv
<1>3. \A r \in Row : r.cost \in Nat
  BY RowCosts
<1>4. CASE batch \in {<<r>> : r \in Row}
  <2>1. PICK r \in Row : batch = <<r>>
    BY <1>4
  <2>2. Len(batch) = 1 /\ batch[1] = r /\ DOMAIN batch = {1}
    BY <2>1
  <2>3. InOrder(batch) = batch
    BY <2>2 DEF InOrder
  <2>4. after = ObserveRow(acc, r)
    BY <1>0, <2>2, <2>3, FoldOfOne
  <2>5. more = Append(watched, r)
    BY <1>2, <2>1
  <2>6. PICK next \in Nat, sum \in Nat : next = n + 1 /\ sum = total + r.cost
    <3>1. n + 1 \in Nat /\ total + r.cost \in Nat
      BY RowCosts
    <3>2. QED BY <3>1
  <2>7. more \in Seq(Row) /\ Len(more) = next /\ Costs(more) = sum
    BY <1>1, <1>2, <2>5, <2>6, CostsOfNext
  <2>8. next <= MaxWatched
    BY <1>1, <2>2, <2>6
  <2>9. /\ Watched(after, next, sum)
        /\ Len(acc.closed) <= Len(after.closed) /\ \A i \in 1 .. Len(acc.closed) : after.closed[i] = acc.closed[i]
    <3>1. Takes(acc, r, after, next, sum)
      BY <1>2, <2>4, <2>6, <2>8 DEF Takes
    <3>2. QED BY <3>1, RowObserved
  <2>10. QED BY <1>2, <2>7, <2>8, <2>9
<1>5. CASE batch \in Row \X Row
  <2>1. PICK a \in Row, b \in Row : batch = <<a, b>>
    BY <1>5
  <2>2. Len(batch) = 2 /\ batch[1] = a /\ batch[2] = b
    BY <2>1
  <2>3. PICK first \in Row, last \in Row : InOrder(batch) = <<first, last>> /\ a.cost + b.cost = first.cost + last.cost
    <3>1. CASE b.at < a.at
      <4>1. InOrder(batch) = <<b, a>>
        BY <2>2, <3>1 DEF InOrder
      <4>2. a.cost + b.cost = b.cost + a.cost
        BY <1>3
      <4>3. QED BY <4>1, <4>2
    <3>2. CASE ~(b.at < a.at)
      <4>1. InOrder(batch) = <<a, b>>
        BY <2>1, <2>2, <3>2 DEF InOrder
      <4>2. QED BY <4>1
    <3>3. QED BY <3>1, <3>2
  <2>4. PICK rows : rows = InOrder(batch)
    OBVIOUS
  <2>5. DOMAIN rows = {1, 2} /\ rows[1] = first /\ rows[2] = last
    BY <2>3, <2>4
  <2>6. after = ObserveRow(ObserveRow(acc, first), last)
    BY <1>0, <2>4, <2>5, FoldOfTwo
  <2>7. more = Append(Append(watched, a), b)
    BY <1>2, <2>1
  <2>8. Append(watched, a) \in Seq(Row) /\ Len(Append(watched, a)) = n + 1 /\ Costs(Append(watched, a)) = total + a.cost
    BY <1>1, <1>2, CostsOfNext
  <2>9. more \in Seq(Row) /\ Len(more) = n + 1 + 1 /\ Costs(more) = total + a.cost + b.cost
    BY <2>7, <2>8, CostsOfNext
  <2>10. PICK next \in Nat, sum \in Nat : next = n + 2 /\ sum = total + first.cost + last.cost
    <3>1. first.cost \in Nat /\ last.cost \in Nat
      BY RowCosts
    <3>2. n + 2 \in Nat /\ total + first.cost + last.cost \in Nat
      BY <3>1
    <3>3. QED BY <3>2
  <2>11. next <= MaxWatched /\ n + 1 + 1 = next
    BY <1>1, <1>2, <2>2, <2>10
  <2>12. total + a.cost + b.cost = sum
    <3>1. PICK x \in Nat, y \in Nat, z \in Nat, t \in Nat : x = a.cost /\ y = b.cost /\ z = first.cost /\ t = last.cost
      BY <1>3
    <3>2. x + y = z + t
      BY <2>3, <3>1
    <3>3. total + x + y = total + z + t
      <4>1. total + x + y = total + (x + y) /\ total + z + t = total + (z + t)
        OBVIOUS
      <4>2. QED BY <3>2, <4>1
    <3>4. QED BY <2>10, <3>1, <3>3
  <2>13. /\ Watched(after, next, sum)
         /\ Len(acc.closed) <= Len(after.closed) /\ \A i \in 1 .. Len(acc.closed) : after.closed[i] = acc.closed[i]
    <3>1. TakesTwo(acc, first, last, after, next, sum)
      BY <1>2, <2>6, <2>10, <2>11 DEF TakesTwo
    <3>2. QED BY <3>1, TwoObserved
  <2>14. QED BY <1>2, <2>9, <2>11, <2>12, <2>13
<1>6. QED BY <1>4, <1>5

LEMMA SpendInvNext == SpendInv /\ [SpendWatchNext]_watchVars => SpendInv'
<1> SUFFICES ASSUME SpendInv, [SpendWatchNext]_watchVars PROVE SpendInv'
  OBVIOUS
<1>1. CASE WatchBatch
  <2>1. PICK batch \in {<<r>> : r \in Row} \cup (Row \X Row) :
          LET after == FoldLeft(ObserveRow, [spend |-> spend, closed |-> closed], InOrder(batch))
              fresh == {i \in Len(closed) + 1 .. Len(after.closed) : Anomalous(after.closed[i].verdict)}
          IN  /\ Len(watched) + Len(batch) <= MaxWatched
              /\ spend' = after.spend
              /\ closed' = after.closed
              /\ watched' = watched \o batch
              /\ \E raised \in Announced(fresh) : spikes' = spikes \cup raised
    BY <1>1 DEF WatchBatch
  <2>2. PICK after : after = FoldLeft(ObserveRow, [spend |-> spend, closed |-> closed], InOrder(batch))
    OBVIOUS
  <2>3. /\ Len(watched) + Len(batch) <= MaxWatched /\ watched' = watched \o batch
        /\ spend' = after.spend /\ closed' = after.closed
    BY <2>1, <2>2
  <2>4. /\ watched' \in Seq(Row) /\ Len(watched') <= MaxWatched /\ Costs(watched') \in Nat
        /\ Watched(after, Len(watched'), Costs(watched'))
        /\ Len(closed) <= Len(after.closed) /\ \A i \in 1 .. Len(closed) : after.closed[i] = closed[i]
    BY <2>2, <2>3, BatchObserved
  <2>5. after = [spend |-> spend', closed |-> closed'] /\ closed' \in Seq(Window) /\ closed \in Seq(Window)
    BY <2>3, <2>4 DEF Watched, SpendInv
  <2>6. PICK l, m : l = Len(closed) /\ m = Len(closed')
    OBVIOUS
  <2>7. l \in Nat /\ m \in Nat /\ l <= m /\ DOMAIN closed = 1 .. l /\ DOMAIN closed' = 1 .. m
    BY <2>3, <2>4, <2>5, <2>6
  <2>8. PICK raised : spikes' = spikes \cup raised /\ \A i \in raised : i \in l + 1 .. m /\ Anomalous(closed'[i].verdict)
    BY <2>1, <2>2, <2>3, <2>6 DEF Announced
  <2>9. ASSUME NEW i \in spikes' PROVE i \in 1 .. m /\ Anomalous(closed'[i].verdict)
    <3>1. CASE i \in raised
      BY <2>7, <2>8, <3>1
    <3>2. CASE i \in spikes
      <4>1. i \in 1 .. l /\ Anomalous(closed[i].verdict)
        BY <2>7, <3>2 DEF SpendInv
      <4>2. closed'[i] = closed[i]
        BY <2>3, <2>4, <2>6, <4>1
      <4>3. QED BY <2>7, <4>1, <4>2
    <3>3. QED BY <2>8, <2>9, <3>1, <3>2
  <2>10. spikes' \subseteq DOMAIN closed' /\ \A i \in spikes' : Anomalous(closed'[i].verdict)
    BY <2>7, <2>9
  <2>11. Watched([spend |-> spend', closed |-> closed'], Len(watched'), Costs(watched'))
    BY <2>4, <2>5
  <2>12. QED BY <2>4, <2>10, <2>11 DEF SpendInv, Costs
<1>2. CASE UNCHANGED watchVars
  <2>1. spend' = spend /\ closed' = closed /\ watched' = watched /\ spikes' = spikes
    BY <1>2 DEF watchVars
  <2>2. QED BY <2>1 DEF SpendInv
<1>3. QED BY <1>1, <1>2 DEF SpendWatchNext

LEMMA SpendInvHolds == SpendWatchSpec => []SpendInv
  BY SpendInvInit, SpendInvNext, PTL DEF SpendWatchSpec

LEMMA SpendInvJudges == SpendInv => JudgedByThePast /\ SpendWatchTypeOK
<1> SUFFICES ASSUME SpendInv PROVE JudgedByThePast /\ SpendWatchTypeOK
  OBVIOUS
<1>1. PICK n : n = Len(closed)
  OBVIOUS
<1>2. /\ closed \in Seq(Window) /\ n \in Nat /\ DOMAIN closed = 1 .. n /\ spend \in SpendRecord
      /\ WindowsStand(spend, closed) /\ Holds(spend, closed, Len(watched), Costs(watched))
  BY <1>1 DEF SpendInv, Watched
<1>3. \A i \in 1 .. n : closed[i] \in Window
  BY <1>1, <1>2, ElementOfSeq
<1>4. ASSUME NEW i \in DOMAIN closed PROVE Stands(closed[i], i - 1, SumOfRates(closed, i))
  <2>1. i \in 1 .. Len(closed)
    BY <1>1, <1>2
  <2>2. QED BY <1>2, <2>1 DEF WindowsStand, Rates
<1>5. ASSUME NEW i \in spikes PROVE Announceable(closed[i], i - 1, SumOfRates(closed, i))
  <2>1. i \in DOMAIN closed /\ Anomalous(closed[i].verdict)
    BY DEF SpendInv
  <2>2. QED BY <1>4, <2>1 DEF Stands
<1>6. ASSUME NEW i \in 2 .. Len(closed) PROVE closed[i].from >= closed[i - 1].from + WindowTicks
  <2>1. i - 1 \in 1 .. n /\ i - 1 # n /\ (i - 1) + 1 = i /\ i \in 1 .. n
    BY <1>1, <1>2
  <2>2. closed[i - 1].from + WindowTicks <= closed[i].from
    BY <1>1, <1>2, <2>1 DEF WindowsStand
  <2>3. closed[i].from \in Nat /\ closed[i - 1].from \in Nat /\ WindowTicks \in Nat
    BY <1>3, <2>1, SpendWatchAssumption DEF Window
  <2>4. QED BY <2>2, <2>3
<1>7. /\ Requested(closed, Len(closed) + 1) + spend.requests = Len(watched)
      /\ Rates(closed, Len(closed) + 1) + spend.cost = Costs(watched)
  BY <1>2 DEF Holds
<1>8. NothingFallsBetween
  BY <1>6, <1>7 DEF NothingFallsBetween, Requested, Rates, SumOfRates, Costs
<1>9. JudgedByThePast
  BY <1>4, <1>5, <1>8 DEF JudgedByThePast, Stands, Judged, Announceable
<1>10. SpendWatchTypeOK
  <2>1. spend.from = 0 \/ spend.from \in WatchTimes
    BY <1>2 DEF Holds
  <2>2. spend.baseline.count = Len(closed) /\ spend.baseline.m2 >= 0
    BY <1>2 DEF Holds, Describes, Baseline
  <2>3. \A i \in DOMAIN closed : closed[i].verdict \in Verdicts
    BY <1>2, <1>3 DEF Window
  <2>4. spikes \subseteq DOMAIN closed
    BY DEF SpendInv
  <2>5. QED BY <2>1, <2>2, <2>3, <2>4 DEF SpendWatchTypeOK
<1>11. QED BY <1>9, <1>10

\* However many rows come in whatever order and however fine the arithmetic:
\* every window is judged by the windows closed before it, their number and,
\* but for the rounding, their mean, none is announced that cost less than they
\* did or than the floor, and no row or cent falls between windows.
THEOREM WindowsAreJudgedByThePast == SpendWatchSpec => []JudgedByThePast
  BY SpendInvHolds, SpendInvJudges, PTL

-----------------------------------------------------------------------------
(* All of them.                                                            *)

LEMMA AlertsTypes == AlertsInit /\ [][AlertsNext]_alertVars => []AlertsTypeOK
<1>1. AlertsInit => AlertsTypeOK
  BY AlertsAssumption DEF AlertsInit, AlertsTypeOK
<1>2. AlertsTypeOK /\ [AlertsNext]_alertVars => AlertsTypeOK'
  <2> SUFFICES ASSUME AlertsTypeOK, [AlertsNext]_alertVars PROVE AlertsTypeOK'
    OBVIOUS
  <2> USE AlertsAssumption DEF AlertsTypeOK
  <2>1. ASSUME NEW t \in AlertTypes, IncidentTurns(t) PROVE AlertsTypeOK'
    BY <2>1 DEF IncidentTurns
  <2>2. ASSUME NEW a \in Raisers, ClaimCooldown(a) PROVE AlertsTypeOK'
    <3>1. Cooldown \in 0 .. Cooldown /\ a[1] \in AlertTypes
      BY DEF Raisers
    <3>2. cooldown' = [cooldown EXCEPT ![a[1]] = Cooldown] /\ raising' = [raising EXCEPT ![a] = "claimed"]
          /\ UNCHANGED <<incident, heard, alertFaults>>
      BY <2>2 DEF ClaimCooldown, CooldownKey
    <3>3. cooldown' \in [AlertTypes -> 0 .. Cooldown] /\ raising' \in [Raisers -> {"idle", "claimed", "filed"}]
      BY <3>1, <3>2
    <3>4. QED BY <3>2, <3>3
  <2>3. ASSUME NEW a \in Raisers, ClaimBlind(a) PROVE AlertsTypeOK'
    BY <2>3 DEF ClaimBlind, AlertFault
  <2>4. ASSUME NEW a \in Raisers, PersistAlert(a) PROVE AlertsTypeOK'
    BY <2>4 DEF PersistAlert
  <2>5. ASSUME NEW a \in Raisers, SendAlert(a) PROVE AlertsTypeOK'
    BY <2>5 DEF SendAlert
  <2>6. ASSUME NEW a \in Raisers, RaiseFails(a) PROVE AlertsTypeOK'
    BY <2>6 DEF RaiseFails, AlertFault
  <2>7. CASE AlertTick
    BY <2>7 DEF AlertTick
  <2>8. CASE UNCHANGED alertVars
    BY <2>8 DEF alertVars
  <2>9. QED BY <2>1, <2>2, <2>3, <2>4, <2>5, <2>6, <2>7, <2>8 DEF AlertsNext
<1>3. QED BY <1>1, <1>2, PTL

----------------------------------------------------------------------------
LEMMA CacheTypes == CacheInv => SemanticCacheTypeOK
  BY DEF CacheInv, RowsInv, HitsInv, SemanticCacheTypeOK, CacheEntry, WipeRecord, HitRecord, FlushRecord

----------------------------------------------------------------------------
\* No job starts its count before the window of the first instant.
LEMMA StartsInOrder ==
    ASSUME NEW t \in FirstNow .. MaxNow
    PROVE  WindowStart(t) \in (Day(FirstNow) - WindowDays) * TicksPerDay .. MaxNow
<1>1. /\ TicksPerDay \in Nat \ {0} /\ WindowDays \in Nat /\ FirstNow \in Nat /\ MaxNow \in Nat
  BY TicksPerDayAssumption, WindowDaysAssumption, ClockAssumption
<1>2. PICK d \in Nat, w \in Nat, f \in Nat, u \in Int : d = TicksPerDay /\ w = WindowDays /\ f = FirstNow /\ u = t - w * d
  BY <1>1
<1>3. d > 0 /\ t \in Int /\ f <= t /\ t <= MaxNow
  BY <1>1, <1>2
<1>4. PICK q \in Int, p \in Int : q = u \div d /\ p = f \div d
  BY <1>2, <1>3
<1>5. q * d <= u /\ u < q * d + d /\ p * d <= f /\ f < p * d + d
  BY <1>2, <1>3, <1>4
<1>6. p - w <= q
  <2>1. ASSUME q + 1 <= p - w PROVE FALSE
    <3>1. (q + 1) * d <= (p - w) * d
      BY <2>1, <1>2, <1>4, TimesKeepsOrder
    <3>2. (q + 1) * d = q * d + d /\ (p - w) * d = p * d - w * d
      BY <1>2, <1>4
    <3>3. PICK a \in Int, b \in Int, c \in Int : a = q * d /\ b = p * d /\ c = w * d
      BY <1>2, <1>4
    <3>4. a + d <= b - c /\ u < a + d /\ b <= f /\ u = t - c
      BY <3>1, <3>2, <3>3, <1>2, <1>5
    <3>5. QED BY <3>3, <3>4, <1>2, <1>3
  <2>2. QED BY <2>1, <1>2, <1>4
<1>7. (p - w) * d <= q * d
  BY <1>2, <1>4, <1>6, TimesKeepsOrder
<1>8. q * d <= MaxNow
  <2>1. PICK a \in Int, c \in Nat : a = q * d /\ c = w * d
    BY <1>2, <1>4
  <2>2. a <= u /\ u = t - c
    BY <2>1, <1>2, <1>5
  <2>3. QED BY <2>1, <2>2, <1>1, <1>2, <1>3
<1>9. WindowStart(t) = q * d /\ (Day(FirstNow) - WindowDays) * TicksPerDay = (p - w) * d
  BY <1>2, <1>4 DEF WindowStart, Day
<1>10. q * d \in Int /\ (p - w) * d \in Int
  BY <1>2, <1>4
<1>11. QED BY <1>1, <1>7, <1>8, <1>9, <1>10

RebuildRow == [stage : {"idle", "deleted", "inserted", "bucketed"},
               start : {0} \cup (Day(FirstNow) - WindowDays) * TicksPerDay .. MaxNow, seen : SUBSET LedgerRows,
               usage : SUBSET LedgerRows, buckets : SUBSET LedgerRows]

LEMMA RollupTypesNext == RollupTypeOK /\ [RollupNext]_rollupVars => RollupTypeOK'
<1> SUFFICES ASSUME RollupTypeOK, [RollupNext]_rollupVars PROVE RollupTypeOK'
  OBVIOUS
<1>1. /\ now \in FirstNow .. MaxNow /\ stamp \in [LedgerRows -> -1 .. MaxNow]
      /\ usage \in SUBSET LedgerRows /\ buckets \in SUBSET LedgerRows
      /\ rebuild \in [Rebuilds -> RebuildRow] /\ rebuildFaults \in 0 .. MaxRebuildFaults
  BY DEF RollupTypeOK, RebuildRow
<1>2. FirstNow \in Nat /\ MaxNow \in Nat /\ MaxRebuildFaults \in Nat
  BY ClockAssumption, MaxRebuildFaultsAssumption
<1>3. NoRebuild \in RebuildRow
  BY DEF NoRebuild, RebuildRow
<1>4. SUFFICES /\ now' \in FirstNow .. MaxNow /\ stamp' \in [LedgerRows -> -1 .. MaxNow]
               /\ usage' \in SUBSET LedgerRows /\ buckets' \in SUBSET LedgerRows
               /\ rebuild' \in [Rebuilds -> RebuildRow] /\ rebuildFaults' \in 0 .. MaxRebuildFaults
  BY DEF RollupTypeOK, RebuildRow
<1>5. \A j \in Rebuilds : Counted(j) \in SUBSET LedgerRows /\ rebuild[j] \in RebuildRow
  BY <1>1 DEF Counted, Drained
<1>6. ASSUME NEW j \in Rebuilds, RebuildDelete(j)
      PROVE  rebuild' \in [Rebuilds -> RebuildRow] /\ UNCHANGED <<now, stamp, usage, buckets, rebuildFaults>>
  <2>1. PICK r : r = [NoRebuild EXCEPT
                    !.stage = "deleted", !.start = WindowStart(now),
                    !.seen = {x \in usage \cup buckets : Day(stamp[x]) >= Day(WindowStart(now))}]
    OBVIOUS
  <2>2. PICK seen : seen = {x \in usage \cup buckets : Day(stamp[x]) >= Day(WindowStart(now))}
    OBVIOUS
  <2>3. seen \in SUBSET LedgerRows
    BY <1>1, <2>2
  <2>4. r = [stage |-> "deleted", start |-> WindowStart(now), seen |-> seen, usage |-> {}, buckets |-> {}]
    BY <2>1, <2>2 DEF NoRebuild
  <2>5. r \in RebuildRow
    BY <1>1, <2>3, <2>4, StartsInOrder DEF RebuildRow
  <2>6. rebuild' = [rebuild EXCEPT ![j] = r] /\ UNCHANGED <<now, stamp, usage, buckets, rebuildFaults>>
    BY <1>6, <2>1 DEF RebuildDelete
  <2>7. QED BY <1>1, <2>5, <2>6
<1>7. ASSUME NEW j \in Rebuilds, RebuildUsage(j)
      PROVE  rebuild' \in [Rebuilds -> RebuildRow] /\ UNCHANGED <<now, stamp, usage, buckets, rebuildFaults>>
  <2>1. [rebuild[j] EXCEPT !.stage = "inserted", !.usage = Counted(j)] \in RebuildRow
    BY <1>5 DEF RebuildRow
  <2>2. PICK r \in RebuildRow : rebuild' = [rebuild EXCEPT ![j] = r]
    BY <1>1, <1>3, <1>7, <2>1 DEF RebuildUsage
  <2>3. QED BY <1>1, <1>7, <2>2 DEF RebuildUsage
<1>8. ASSUME NEW j \in Rebuilds, RebuildBuckets(j)
      PROVE  rebuild' \in [Rebuilds -> RebuildRow] /\ UNCHANGED <<now, stamp, usage, buckets, rebuildFaults>>
  <2>1. [rebuild[j] EXCEPT !.stage = "bucketed", !.buckets = Counted(j)] \in RebuildRow
    BY <1>5 DEF RebuildRow
  <2>2. PICK r \in RebuildRow : rebuild' = [rebuild EXCEPT ![j] = r]
    BY <1>1, <1>3, <1>8, <2>1 DEF RebuildBuckets
  <2>3. QED BY <1>1, <1>8, <2>2 DEF RebuildBuckets
<1>9. ASSUME NEW j \in Rebuilds, RebuildCommit(j)
      PROVE  /\ rebuild' \in [Rebuilds -> RebuildRow] /\ UNCHANGED <<now, stamp, rebuildFaults>>
             /\ usage' \in SUBSET LedgerRows /\ buckets' \in SUBSET LedgerRows
  <2>1. rebuild[j].usage \in SUBSET LedgerRows /\ rebuild[j].buckets \in SUBSET LedgerRows
    BY <1>5 DEF RebuildRow
  <2>2. usage' \in SUBSET LedgerRows /\ buckets' \in SUBSET LedgerRows
    BY <1>1, <1>9, <2>1 DEF RebuildCommit
  <2>3. ASSUME NEW i \in Rebuilds PROVE [rebuild[i] EXCEPT !.seen = @ \ rebuild[j].buckets] \in RebuildRow
    BY <1>5 DEF RebuildRow
  <2>4. rebuild' = [i \in Rebuilds |-> IF i = j THEN NoRebuild
                                       ELSE [rebuild[i] EXCEPT !.seen = @ \ rebuild[j].buckets]]
    BY <1>9 DEF RebuildCommit
  <2>5. rebuild' \in [Rebuilds -> RebuildRow]
    BY <1>3, <2>3, <2>4
  <2>6. QED BY <1>9, <2>2, <2>5 DEF RebuildCommit
<1>10. ASSUME NEW j \in Rebuilds, RebuildFails(j) PROVE RollupTypeOK'
  <2>1. rebuild' = [rebuild EXCEPT ![j] = NoRebuild] /\ rebuildFaults' \in 0 .. MaxRebuildFaults
        /\ UNCHANGED <<now, stamp, usage, buckets>>
    BY <1>1, <1>2, <1>10 DEF RebuildFails
  <2>2. rebuild' \in [Rebuilds -> RebuildRow]
    BY <1>1, <1>3, <2>1
  <2>3. QED BY <1>1, <2>1, <2>2 DEF RollupTypeOK, RebuildRow
<1>11. ASSUME NEW r \in LedgerRows, RowArrives(r) PROVE RollupTypeOK'
  <2>1. PICK t \in 0 .. now : stamp' = [stamp EXCEPT ![r] = t]
    BY <1>11 DEF RowArrives
  <2>2. t \in -1 .. MaxNow
    BY <1>1, <1>2
  <2>3. stamp' \in [LedgerRows -> -1 .. MaxNow] /\ UNCHANGED <<now, usage, buckets, rebuild, rebuildFaults>>
    BY <1>1, <1>11, <2>1, <2>2 DEF RowArrives
  <2>4. QED BY <1>1, <2>3 DEF RollupTypeOK, RebuildRow
<1>12. CASE RollupTick
  <2>1. now' \in FirstNow .. MaxNow /\ UNCHANGED <<stamp, usage, buckets, rebuild, rebuildFaults>>
    BY <1>1, <1>2, <1>12 DEF RollupTick
  <2>2. QED BY <1>1, <2>1 DEF RollupTypeOK, RebuildRow
<1>13. CASE UNCHANGED rollupVars
  BY <1>1, <1>13 DEF rollupVars, RollupTypeOK, RebuildRow
<1>14. QED
  BY <1>1, <1>6, <1>7, <1>8, <1>9, <1>10, <1>11, <1>12, <1>13 DEF RollupNext, RebuildStep, RollupTypeOK, RebuildRow

LEMMA RollupTypes == RollupSafety => []RollupTypeOK
<1>1. RollupInit => RollupTypeOK
  <2> SUFFICES ASSUME RollupInit PROVE RollupTypeOK
    OBVIOUS
  <2>1. now \in FirstNow .. MaxNow /\ rebuildFaults \in 0 .. MaxRebuildFaults /\ -1 \in -1 .. MaxNow
    BY ClockAssumption, MaxRebuildFaultsAssumption DEF RollupInit
  <2>2. NoRebuild \in RebuildRow
    BY DEF NoRebuild, RebuildRow
  <2>3. rebuild \in [Rebuilds -> RebuildRow]
    BY <2>2 DEF RollupInit
  <2>4. QED BY <2>1, <2>3 DEF RollupInit, RollupTypeOK, RebuildRow
<1>2. QED BY <1>1, RollupTypesNext, PTL DEF RollupSafety

\* A step of one part leaves the others alone.
PartsStep ==
    /\ [StreamingNext]_streamVars
    /\ [SemanticCacheNext]_cacheVars
    /\ [RollupNext]_rollupVars
    /\ [UsageReportsNext]_reportVars
    /\ [RequestLogNext]_logVars
    /\ [SpendWatchNext]_watchVars
    /\ [AlertsNext]_alertVars
    /\ [DigestNext]_digestVars
    /\ [AdvisorNext]_adviceVars
    /\ [BreakEvenNext]_quote

LEMMA EachPartSteps == [JobsNext]_jobsVars => PartsStep
<1> SUFFICES ASSUME [JobsNext]_jobsVars PROVE PartsStep
  OBVIOUS
<1> USE DEF PartsStep
<1>1. CASE StreamStep
  BY <1>1 DEF StreamStep
<1>2. CASE CacheStep
  BY <1>2 DEF CacheStep
<1>3. CASE RollupStep
  BY <1>3 DEF RollupStep
<1>4. CASE ReportStep
  BY <1>4 DEF ReportStep
<1>5. CASE LogStep
  BY <1>5 DEF LogStep
<1>6. CASE WatchStep
  BY <1>6 DEF WatchStep
<1>7. CASE AlertStep
  BY <1>7 DEF AlertStep
<1>8. CASE DigestStep
  BY <1>8 DEF DigestStep
<1>9. CASE AdvisorStep
  BY <1>9 DEF AdvisorStep
<1>10. CASE BreakEvenStep
  BY <1>10 DEF BreakEvenStep
<1>11. CASE UNCHANGED jobsVars
  BY <1>11 DEF jobsVars
<1>12. QED BY <1>1, <1>2, <1>3, <1>4, <1>5, <1>6, <1>7, <1>8, <1>9, <1>10, <1>11 DEF JobsNext

\* A run of the jobs is a run of each of its parts: what is proved of a part
\* above holds of the whole, whoever has the focus.
THEOREM JobsRunsItsParts ==
    JobsSpec =>
      /\ StreamingSpec
      /\ SemanticCacheSpec
      /\ RollupSafety
      /\ UsageReportsSpec
      /\ RequestLogInit /\ [][RequestLogNext]_logVars
      /\ SpendWatchSpec
      /\ AlertsInit /\ [][AlertsNext]_alertVars
      /\ DigestInit /\ [][DigestNext]_digestVars
      /\ AdvisorInit /\ [][AdvisorNext]_adviceVars
      /\ BreakEvenInit /\ [][BreakEvenNext]_quote
<1>1. JobsInit => StreamingInit /\ SemanticCacheInit /\ RollupInit /\ UsageReportsInit /\ RequestLogInit
                   /\ SpendWatchInit /\ AlertsInit /\ DigestInit /\ AdvisorInit /\ BreakEvenInit
  BY DEF JobsInit
<1>2. [JobsNext]_jobsVars => [StreamingNext]_streamVars
  BY EachPartSteps DEF PartsStep
<1>3. [JobsNext]_jobsVars => [SemanticCacheNext]_cacheVars
  BY EachPartSteps DEF PartsStep
<1>4. [JobsNext]_jobsVars => [RollupNext]_rollupVars
  BY EachPartSteps DEF PartsStep
<1>5. [JobsNext]_jobsVars => [UsageReportsNext]_reportVars
  BY EachPartSteps DEF PartsStep
<1>6. [JobsNext]_jobsVars => [RequestLogNext]_logVars
  BY EachPartSteps DEF PartsStep
<1>7. [JobsNext]_jobsVars => [SpendWatchNext]_watchVars
  BY EachPartSteps DEF PartsStep
<1>8. [JobsNext]_jobsVars => [AlertsNext]_alertVars
  BY EachPartSteps DEF PartsStep
<1>9. [JobsNext]_jobsVars => [DigestNext]_digestVars
  BY EachPartSteps DEF PartsStep
<1>10. [JobsNext]_jobsVars => [AdvisorNext]_adviceVars
  BY EachPartSteps DEF PartsStep
<1>11. [JobsNext]_jobsVars => [BreakEvenNext]_quote
  BY EachPartSteps DEF PartsStep
<1>12. QED
  BY <1>1, <1>2, <1>3, <1>4, <1>5, <1>6, <1>7, <1>8, <1>9, <1>10, <1>11,
     PTL DEF JobsSpec, StreamingSpec, SemanticCacheSpec, RollupSafety, UsageReportsSpec, SpendWatchSpec

\* Streams, cache, rollups, reports, log, spend watch, alerts, digest and
\* advisor keep their types, counters their bounds, histories their shape.
THEOREM JobsTypes == JobsSpec => []JobsTypeOK
<1>1. StreamingSpec => []StreamingTypeOK
  BY StreamingTypes
<1>2. SemanticCacheSpec => []SemanticCacheTypeOK
  BY CacheInvHolds, CacheTypes, PTL
<1>3. RollupSafety => []RollupTypeOK
  BY RollupTypes
<1>4. UsageReportsSpec => []UsageReportsTypeOK
  BY ReportsInvHolds, ReportsInvTypes, PTL
<1>5. RequestLogInit /\ [][RequestLogNext]_logVars => []RequestLogTypeOK
  BY LogInvInit, LogInvNext, LogTypes, PTL
<1>6. SpendWatchSpec => []SpendWatchTypeOK
  BY SpendInvHolds, SpendInvJudges, PTL
<1>7. AlertsInit /\ [][AlertsNext]_alertVars => []AlertsTypeOK
  BY AlertsTypes
<1>8. DigestInit /\ [][DigestNext]_digestVars => []DigestTypeOK
  BY DigestInvHolds, DigestTypes, PTL
<1>9. AdvisorInit /\ [][AdvisorNext]_adviceVars => []AdvisorTypeOK
  <2>1. AdvisorInv => AdvisorTypeOK
    BY AdvisorTypes DEF AdvisorInv
  <2>2. AdvisorInv /\ [AdvisorNext]_adviceVars => AdvisorInv'
    BY AdviceStep
  <2>3. QED BY AdvisorInvInit, <2>1, <2>2, PTL
<1>10. QED
  BY <1>1, <1>2, <1>3, <1>4, <1>5, <1>6, <1>7, <1>8, <1>9, JobsRunsItsParts, PTL DEF JobsTypeOK
=============================================================================
