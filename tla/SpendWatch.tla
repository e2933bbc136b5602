----------------------------- MODULE SpendWatch -----------------------------
(***************************************************************************)
(* Spend spikes of one project: anomaly/pipeline.py folds each drained     *)
(* batch into one-minute windows (stats/rolling.py) and a running mean and *)
(* variance of the closed ones (stats/welford.py), and scores a window     *)
(* when it closes (anomaly/zscore.py).  Which copy of the statistics a     *)
(* batch is folded into is LedgerDrain's matter; what happens to an alert  *)
(* is Alerts'.                                                             *)
(*                                                                         *)
(* Doubles are fixed-point numbers, in units of 1/Scale: as there, a        *)
(* quotient or a product that is no such number is rounded to the nearest, *)
(* which leaves an error of the last place.  Costs and their sums are      *)
(* whole.                                                                  *)
(***************************************************************************)
EXTENDS Integers, Sequences, SequencesExt

CONSTANTS
    WatchTimes,         \* timestamps, none of them 0, which means "no window"
    WatchCosts,
    WindowTicks,        \* DEFAULT_WINDOW_SECONDS
    MinObservations,    \* anomaly_min_observations
    ZSquared,           \* the square of anomaly_z_threshold
    MinRate,            \* MIN_ABSOLUTE_RATE_USD
    Scale,              \* units of the last place in 1
    MaxWatched          \* bound on the rows

ASSUME SpendWatchAssumption ==
    /\ WatchTimes \subseteq Nat \ {0} /\ WatchCosts \subseteq Nat
    /\ WindowTicks \in Nat \ {0} /\ MinObservations \in Nat \ {0}
    /\ ZSquared \in Nat /\ MinRate \in Nat /\ MaxWatched \in Nat /\ Scale \in Nat \ {0}

VARIABLES
    spend,          \* RollingStats: the baseline and the open window
    closed,         \* history: the windows that were closed, with their SpikeVerdicts
    watched,        \* history: the rows folded in, with their multiplicity
    spikes          \* history: closed windows an alert was raised for

watchVars == <<spend, closed, watched, spikes>>

\* a / b, to the nearest unit.
Rounded(a, b) == (2 * a + b) \div (2 * b)

ScaledProduct(a, b) == Rounded(a * b, Scale)

----------------------------------------------------------------------------
(* stats/welford.py: mean and sum of squared deviations, both scaled.      *)

NoBaseline == [count |-> 0, mean |-> 0, m2 |-> 0]

\* delta from the old mean, delta2 from the new one.
Update(w, value) ==
    LET n == w.count + 1
        delta == value * Scale - w.mean
        mean == w.mean + Rounded(delta, n) IN
    [count |-> n, mean |-> mean, m2 |-> w.m2 + ScaledProduct(delta, value * Scale - mean)]

\* A bug BaselineExcluding could have: the window is scored against a baseline
\* it is part of.
BaselineIncluding(w, rate) == w

\* A bug BaselineExcluding could have: the window is uncounted, and its cost
\* stays in the mean.
BaselineUncounting(w, rate) ==
    IF w.count <= 1 THEN NoBaseline ELSE [w EXCEPT !.count = @ - 1]

\* The baseline before a rate was folded in: Welford's update undone, up to
\* rounding.
BaselineExcluding(w, rate) ==
    IF w.count <= 1 THEN NoBaseline
    ELSE LET n == w.count - 1
             mean == Rounded(w.mean * w.count - rate * Scale, n)
             m2 == w.m2 - ScaledProduct(rate * Scale - mean, rate * Scale - w.mean) IN
         [count |-> n, mean |-> mean, m2 |-> IF m2 < 0 THEN 0 ELSE m2]

----------------------------------------------------------------------------
(* anomaly/zscore.py, with (z >= threshold) squared.                       *)

Score(w, rate) ==
    IF w.count < MinObservations THEN "COLD_START"
    ELSE IF rate < MinRate THEN "BELOW_ABSOLUTE_FLOOR"
    ELSE IF w.count < 2 \/ w.m2 = 0
         THEN IF rate * Scale > 2 * w.mean THEN "FLAT_BASELINE_EXCEEDED" ELSE "FLAT_BASELINE"
    ELSE LET above == rate * Scale - w.mean IN
         IF above >= 0 /\ ScaledProduct(above, above) * (w.count - 1) >= ZSquared * w.m2
         THEN "SPEND_SPIKE" ELSE "WITHIN_THRESHOLD"

Anomalous(reason) == reason \in {"SPEND_SPIKE", "FLAT_BASELINE_EXCEEDED"}

----------------------------------------------------------------------------
(* stats/rolling.py and anomaly/pipeline.py.                               *)

NoSpend == [baseline |-> NoBaseline, from |-> 0, cost |-> 0, requests |-> 0]

\* observe, when the row does not close the window.  A row of an earlier time
\* than the window's start is folded into it.
Joins(s, row) == s.from = 0 \/ row.at - s.from < WindowTicks

Joined(s, row) ==
    [s EXCEPT !.from = IF @ = 0 THEN row.at ELSE @, !.cost = @ + row.cost, !.requests = @ + 1]

\* observe, when it does; windows without requests are not counted.
Reopened(s, row) ==
    [baseline |-> Update(s.baseline, s.cost), from |-> row.at, cost |-> row.cost, requests |-> 1]

\* One row of _process_project on [spend, closed].
ObserveRow(acc, row) ==
    IF Joins(acc.spend, row) THEN [acc EXCEPT !.spend = Joined(@, row)]
    ELSE LET s == Reopened(acc.spend, row)
             baseline == BaselineExcluding(s.baseline, acc.spend.cost) IN
         [spend |-> s,
          closed |-> Append(acc.closed,
            [from |-> acc.spend.from, rate |-> acc.spend.cost, requests |-> acc.spend.requests,
             mean |-> baseline.mean, verdict |-> Score(baseline, acc.spend.cost)])]

Row == [at : WatchTimes, cost : WatchCosts]

\* sorted by the event's own timestamp, for a batch of one or two rows.
InOrder(batch) ==
    IF Len(batch) = 2 /\ batch[2].at < batch[1].at THEN <<batch[2], batch[1]>> ELSE batch

\* _alert: the owner of the project may be unknown, or the cooldown hold; then
\* a spike raises no alert.
Announced(fresh) == SUBSET fresh

\* process_ledger_batch for the project's rows.
WatchBatch ==
    \E batch \in {<<r>> : r \in Row} \cup (Row \X Row) :
        LET after == FoldLeft(ObserveRow, [spend |-> spend, closed |-> closed], InOrder(batch))
            fresh == {i \in Len(closed) + 1 .. Len(after.closed) : Anomalous(after.closed[i].verdict)} IN
        /\ Len(watched) + Len(batch) <= MaxWatched
        /\ spend' = after.spend
        /\ closed' = after.closed
        /\ watched' = watched \o batch
        /\ \E raised \in Announced(fresh) : spikes' = spikes \cup raised

SpendWatchInit == spend = NoSpend /\ closed = <<>> /\ watched = <<>> /\ spikes = {}

SpendWatchNext == WatchBatch

SpendWatchSpec == SpendWatchInit /\ [][SpendWatchNext]_watchVars

----------------------------------------------------------------------------
(* Properties.                                                             *)

Verdicts == {"COLD_START", "BELOW_ABSOLUTE_FLOOR", "FLAT_BASELINE", "FLAT_BASELINE_EXCEEDED",
             "WITHIN_THRESHOLD", "SPEND_SPIKE"}

SpendWatchTypeOK ==
    /\ spend.from \in WatchTimes \cup {0} /\ spend.baseline.count = Len(closed)
    /\ spend.baseline.m2 >= 0
    /\ \A i \in DOMAIN closed : closed[i].verdict \in Verdicts
    /\ spikes \subseteq DOMAIN closed

\* The sum of f over the windows closed before the i-th.
SumBefore(windows, i, f(_)) == SumFunction([k \in 1 .. i - 1 |-> f(windows[k])])

\* No request or cent falls between two windows, and windows do not overlap,
\* although batches may come out of order.
NothingFallsBetween ==
    LET end == Len(closed) + 1 IN
    /\ SumBefore(closed, end, LAMBDA w : w.requests) + spend.requests = Len(watched)
    /\ SumBefore(closed, end, LAMBDA w : w.rate) + spend.cost = SumFunction([k \in DOMAIN watched |-> watched[k].cost])
    /\ \A i \in 2 .. Len(closed) : closed[i].from >= closed[i - 1].from + WindowTicks

\* What the windows closed before the i-th cost, and n*n times their variance
\* (not Bessel-corrected).
SumOfRates(windows, i) == SumBefore(windows, i, LAMBDA w : w.rate)

Deviation(windows, i) ==
    (i - 1) * SumBefore(windows, i, LAMBDA w : w.rate * w.rate)
      - SumOfRates(windows, i) * SumOfRates(windows, i)

\* A closing window is judged by the windows before it alone, though it is
\* already folded into the baseline and taken out again: their number decides
\* on a cold start, and the mean is theirs to within n units of the last place.
\* No alert is raised in the cold, for less than the floor, or for a window
\* that cost no more than those before it, to the same precision. (A window just
\* above a flat baseline may be announced: the rounding of the removal looks like
\* a deviation.)
JudgedByThePast ==
    /\ NothingFallsBetween
    /\ \A i \in DOMAIN closed :
         LET w == closed[i]
             n == i - 1
             error == n * w.mean - Scale * SumOfRates(closed, i) IN
         /\ w.verdict = "COLD_START" <=> n < MinObservations
         /\ w.verdict = "BELOW_ABSOLUTE_FLOOR" <=> n >= MinObservations /\ w.rate < MinRate
         /\ error \in -(n * n) .. n * n
    /\ \A i \in spikes :
         LET n == i - 1 IN
         /\ n >= MinObservations /\ closed[i].rate >= MinRate
         /\ Scale * (n * closed[i].rate - SumOfRates(closed, i)) >= -(n * n)

\* "A spike large enough would help hide itself": it does not. A window that
\* cost more than thrice the mean of those before it and is beyond twice the
\* threshold is found anomalous, rounding or not.
ClearSpike(windows, i) ==
    LET n == i - 1
        above == n * windows[i].rate - SumOfRates(windows, i) IN
    /\ n >= MinObservations /\ windows[i].rate >= MinRate
    /\ above > 2 * SumOfRates(windows, i)
    /\ above * above * (n - 1) >= 4 * ZSquared * n * Deviation(windows, i)

SpikesAreSeen ==
    \A i \in DOMAIN closed : ClearSpike(closed, i) => Anomalous(closed[i].verdict)

=============================================================================
