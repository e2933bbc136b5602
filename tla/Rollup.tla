------------------------------- MODULE Rollup -------------------------------
(***************************************************************************)
(* The daily rollups: worker jobs that delete the recent days of           *)
(* usage_rollup_daily and token_bucket_rollup_daily and count them again   *)
(* from requests_log, in one READ COMMITTED transaction of several         *)
(* statements, each with a snapshot of its own.  Ledger rows arrive late;  *)
(* two jobs may overlap (a job may take two minutes and one starts every   *)
(* minute), and then the primary keys of the rollups decide.               *)
(***************************************************************************)
EXTENDS Integers

CONSTANTS
    LedgerRows,      \* rows of requests_log
    Rebuilds,        \* jobs that may run at a time
    TicksPerDay,     \* model bound on the clock's resolution
    WindowDays,      \* DEFAULT_WINDOW_DAYS
    FirstNow,        \* model bound: the tick at which the ledger is still empty
    MaxNow,          \* model bound: the last tick
    MaxRebuildFaults \* model bound: jobs that are cut short

ASSUME TicksPerDayAssumption == TicksPerDay \in Nat \ {0}
ASSUME WindowDaysAssumption == WindowDays \in Nat
ASSUME ClockAssumption == FirstNow \in Nat /\ MaxNow \in Nat /\ FirstNow <= MaxNow
ASSUME MaxRebuildFaultsAssumption == MaxRebuildFaults \in Nat

VARIABLES
    now,             \* the clock
    stamp,           \* LedgerRows -> timestamp of the row, or -1 while not drained
    usage,           \* rows that usage_rollup_daily accounts for
    buckets,         \* rows that token_bucket_rollup_daily accounts for
    rebuild,         \* Rebuilds -> the job's transaction
    rebuildFaults

rollupVars == <<now, stamp, usage, buckets, rebuild, rebuildFaults>>

NoRebuild == [stage |-> "idle", start |-> 0, seen |-> {}, usage |-> {}, buckets |-> {}]

RollupInit ==
    /\ now = FirstNow
    /\ stamp = [r \in LedgerRows |-> -1]
    /\ usage = {} /\ buckets = {}
    /\ rebuild = [j \in Rebuilds |-> NoRebuild]
    /\ rebuildFaults = 0

Day(t) == t \div TicksPerDay
Drained == {r \in LedgerRows : stamp[r] >= 0}

\* Bugs WindowStart could have: the window is not taken back to midnight, or is
\* a day too long.
WindowStartExact(t) == t - WindowDays * TicksPerDay
WindowStartEarly(t) == (Day(t - WindowDays * TicksPerDay) - 1) * TicksPerDay

\* The first instant the job counts: the window's first day, from midnight.
\* (A full rebuild, which only a backfill by hand asks for, is not modelled.)
WindowStart(t) == Day(t - WindowDays * TicksPerDay) * TicksPerDay

\* A bug Counted could have: the row of the first instant is left out.
CountedAfter(j) == {r \in Drained : stamp[r] > rebuild[j].start}

\* What a statement of the job selects from requests_log.
Counted(j) == {r \in Drained : stamp[r] >= rebuild[j].start}

\* The job takes the clock and DELETEs WHERE day >= :day, from both tables:
\* the rows of the rollups it sees.
RebuildDelete(j) ==
    /\ rebuild[j].stage = "idle"
    /\ rebuild' = [rebuild EXCEPT
          ![j] = [NoRebuild EXCEPT
                    !.stage = "deleted", !.start = WindowStart(now),
                    !.seen = {r \in usage \cup buckets : Day(stamp[r]) >= Day(WindowStart(now))}]]
    /\ UNCHANGED <<now, stamp, usage, buckets, rebuildFaults>>

\* An INSERT waits for a transaction that has inserted the same keys, and
\* fails on keys committed since the job's own DELETE.
Waits(j, rows, held(_)) == \E i \in Rebuilds \ {j} : held(i) \cap rows # {}

RebuildUsage(j) ==
    /\ rebuild[j].stage = "deleted"
    /\ ~Waits(j, Counted(j), LAMBDA i : rebuild[i].usage)
    /\ rebuild' = [rebuild EXCEPT
          ![j] = IF Counted(j) \cap (usage \ rebuild[j].seen) = {}
                 THEN [@ EXCEPT !.stage = "inserted", !.usage = Counted(j)]
                 ELSE NoRebuild]
    /\ UNCHANGED <<now, stamp, usage, buckets, rebuildFaults>>

RebuildBuckets(j) ==
    /\ rebuild[j].stage = "inserted"
    /\ ~Waits(j, Counted(j), LAMBDA i : rebuild[i].buckets)
    /\ rebuild' = [rebuild EXCEPT
          ![j] = IF Counted(j) \cap (buckets \ rebuild[j].seen) = {}
                 THEN [@ EXCEPT !.stage = "bucketed", !.buckets = Counted(j)]
                 ELSE NoRebuild]
    /\ UNCHANGED <<now, stamp, usage, buckets, rebuildFaults>>

\* A bug RebuildCommit could have: the histogram is rebuilt before the totals.
RebuildCommitSwapped(j) ==
    /\ rebuild[j].stage = "bucketed"
    /\ usage' = (usage \ rebuild[j].seen) \cup rebuild[j].buckets
    /\ buckets' = (buckets \ rebuild[j].seen) \cup rebuild[j].usage
    /\ rebuild' = [i \in Rebuilds |->
                     IF i = j THEN NoRebuild
                     ELSE [rebuild[i] EXCEPT !.seen = @ \ rebuild[j].buckets]]
    /\ UNCHANGED <<now, stamp, rebuildFaults>>

\* What this job re-inserted is no longer what another job's DELETE has seen.
RebuildCommit(j) ==
    /\ rebuild[j].stage = "bucketed"
    /\ usage' = (usage \ rebuild[j].seen) \cup rebuild[j].usage
    /\ buckets' = (buckets \ rebuild[j].seen) \cup rebuild[j].buckets
    /\ rebuild' = [i \in Rebuilds |->
                     IF i = j THEN NoRebuild
                     ELSE [rebuild[i] EXCEPT !.seen = @ \ rebuild[j].buckets]]
    /\ UNCHANGED <<now, stamp, rebuildFaults>>

\* The job's timeout, a lost connection, a restarted worker: rolled back.
RebuildFails(j) ==
    /\ rebuild[j].stage # "idle" /\ rebuildFaults < MaxRebuildFaults
    /\ rebuild' = [rebuild EXCEPT ![j] = NoRebuild]
    /\ rebuildFaults' = rebuildFaults + 1
    /\ UNCHANGED <<now, stamp, usage, buckets>>

\* The drain commits a row that was served now or some time ago.
RowArrives(r) ==
    /\ stamp[r] = -1
    /\ \E t \in 0 .. now : stamp' = [stamp EXCEPT ![r] = t]
    /\ UNCHANGED <<now, usage, buckets, rebuild, rebuildFaults>>

RollupTick ==
    /\ now < MaxNow
    /\ now' = now + 1
    /\ UNCHANGED <<stamp, usage, buckets, rebuild, rebuildFaults>>

RebuildStep(j) ==
    RebuildDelete(j) \/ RebuildUsage(j) \/ RebuildBuckets(j) \/ RebuildCommit(j)

RollupNext ==
    \/ \E j \in Rebuilds : RebuildStep(j) \/ RebuildFails(j)
    \/ \E r \in LedgerRows : RowArrives(r)
    \/ RollupTick

\* cron starts a job every minute; a job that runs goes on.
RollupSpec ==
    /\ RollupInit /\ [][RollupNext]_rollupVars
    /\ \A j \in Rebuilds : WF_rollupVars(RebuildStep(j))

-----------------------------------------------------------------------------
(* Properties.                                                             *)

\* The type invariant.
RollupTypeOK ==
    /\ now \in FirstNow .. MaxNow
    /\ stamp \in [LedgerRows -> -1 .. MaxNow]
    /\ usage \in SUBSET LedgerRows /\ buckets \in SUBSET LedgerRows
    /\ rebuild \in [Rebuilds ->
          [stage : {"idle", "deleted", "inserted", "bucketed"},
           start : {0} \cup (Day(FirstNow) - WindowDays) * TicksPerDay .. MaxNow, seen : SUBSET LedgerRows,
           usage : SUBSET LedgerRows, buckets : SUBSET LedgerRows]]
    /\ rebuildFaults \in 0 .. MaxRebuildFaults

\* A request the dashboards have counted stays counted, for ever: what a job
\* deletes it counts again, although its DELETE is by day and its SELECT by
\* timestamp, another job may have committed in between, and the days that
\* leave the window are never looked at again ("idempotent and self-healing").
NeverForgets == [][usage \subseteq usage' /\ buckets \subseteq buckets']_rollupVars

\* The two tables of one rebuild have snapshots of their own; the histogram
\* may be ahead of the totals, and never behind: a request that the spend
\* figures contain is in the histogram the percentiles are read from.
HistogramNotBehind == usage \subseteq buckets

\* A drained row is counted sooner or later, unless the window leaves its day
\* behind first: jobs that overlap cannot make each other fail for ever.
RollupCatchesUp ==
    \A r \in LedgerRows :
      stamp[r] >= 0 ~> (r \in usage \/ stamp[r] < WindowStart(now))

=============================================================================
