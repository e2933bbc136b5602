---------------------------- MODULE UsageReports ----------------------------
(***************************************************************************)
(* What a request costs, what it would have cost, and how the reports add  *)
(* it up.  The pipeline prices every request twice when it records it: at  *)
(* the model that served it and at the model that was asked for.  The      *)
(* usage page, its breakdown, the cache page and the token histogram read  *)
(* the daily rollup; the routing page and the digest read the ledger; each *)
(* has a query of its own.  The rollup is taken as caught up (Rollup is    *)
(* about when it is).  Money is in units of the stored precision.          *)
(***************************************************************************)
EXTENDS Integers, Sequences, FiniteSets, FiniteSetsExt

CONSTANTS
    Models,         \* what callers ask for and providers say they served
    PriceTable,     \* Models -> its prices <<[from, input, output], ...>>, oldest first
    PriceUnit,      \* tokens that a price is for
    Usages,         \* token counts of one call: [input, output]
    RangeTicks,     \* name of a range -> how many ticks it goes back
    DayTicks,       \* ticks per day
    MaxTick,        \* model bound: the clock
    MaxRows         \* model bound: requests

ASSUME UsageReportsAssumption ==
    /\ IsFiniteSet(Models) /\ PriceUnit \in Nat \ {0} /\ DayTicks \in Nat \ {0}
    /\ PriceTable \in [Models -> Seq([from : Nat, input : Nat, output : Nat])]
    /\ Usages \subseteq [input : Nat, output : Nat]
    /\ \A range \in DOMAIN RangeTicks : RangeTicks[range] \in Nat
    /\ MaxTick \in Nat /\ MaxRows \in Nat

VARIABLES
    clock,
    requests        \* requests_log in the order of recording

reportVars == <<clock, requests>>

NoPrice == -1

DayOf(t) == t \div DayTicks

-----------------------------------------------------------------------------
(* Cost of a request.                                                      *)

\* quantize_usd: half up to the stored precision.
Quantized(amount) == (2 * amount + PriceUnit) \div (2 * PriceUnit)

\* resolve_price: the last price whose effective_from is not after the day.
InForce(model, day) == {i \in DOMAIN PriceTable[model] : PriceTable[model][i].from <= day}

\* compute_cost; NoPrice stands for PriceNotFoundError.
ComputeCost(model, usage, day) ==
    IF InForce(model, day) = {} THEN NoPrice
    ELSE LET price == PriceTable[model][Max(InForce(model, day))]
         IN  Quantized(price.input * usage.input) + Quantized(price.output * usage.output)

\* A bug CostUsd could have: the cost of a cached answer is not overridden.
CostUsdOfHitToo(used, usage, hit) == Max({0, ComputeCost(used, usage, DayOf(clock))})

\* _record: a cache hit costs nothing, and neither does a model without a price.
CostUsd(used, usage, hit) == IF hit THEN 0 ELSE Max({0, ComputeCost(used, usage, DayOf(clock))})

\* _record: the row.  `first' is what the call before an escalation cost.
Recorded(requested, used, usage, flags, first) ==
    /\ Len(requests) < MaxRows
    /\ requests' = Append(requests,
         [at |-> clock, model |-> used, tokens |-> usage.input + usage.output, flags |-> flags,
          cost |-> CostUsd(used, usage, "hit" \in flags),
          would |-> ComputeCost(requested, usage, DayOf(clock)),
          first |-> first])
    /\ UNCHANGED clock

\* _serve_from_cache: the tokens and the model are those of the entry.
HitRow == \E requested, used \in Models, usage \in Usages :
            Recorded(requested, used, usage, {"hit"}, 0)

\* A request that goes to the model it names.  A stream is recorded under the
\* name the provider gives the model, which need not be one with a price.
PassedRow == \E requested, used \in Models, usage \in Usages :
               /\ used = requested \/ PriceTable[used] = <<>>
               /\ Recorded(requested, used, usage, {}, 0)

\* A classifier or a rule chose another model; or the budget throttle did, and
\* then the row is not marked as routed.
RedirectedRow == \E requested, used \in Models, usage \in Usages :
                   /\ used # requested
                   /\ \E flags \in {{"routed"}, {"throttled"}} : Recorded(requested, used, usage, flags, 0)

\* The provider refused: no tokens.
RefusedRow == \E requested, used \in Models :
                /\ \E flags \in {{"failed"}, {"failed", "routed"}} :
                     /\ "routed" \notin flags => used = requested
                     /\ Recorded(requested, used, [input |-> 0, output |-> 0], flags, 0)

\* _escalate: the row names the model that was asked for, whether or not the
\* second call succeeded, and the tokens of both calls.
EscalatedRow ==
    \E requested, cheap \in Models, usage \in Usages :
      /\ cheap # requested
      /\ LET first == Max({0, ComputeCost(cheap, usage, DayOf(clock))})
         IN  \/ \E second \in Usages :
                  Recorded(requested, requested,
                           [input  |-> usage.input + second.input,
                            output |-> usage.output + second.output],
                           {"routed", "escalated"}, first)
             \/ Recorded(requested, requested, usage, {"routed", "escalated"}, first)

ReportTick == clock < MaxTick /\ clock' = clock + 1 /\ UNCHANGED requests

UsageReportsInit == clock = 0 /\ requests = <<>>

UsageReportsNext == HitRow \/ PassedRow \/ RedirectedRow \/ RefusedRow \/ EscalatedRow \/ ReportTick

UsageReportsSpec == UsageReportsInit /\ [][UsageReportsNext]_reportVars

-----------------------------------------------------------------------------
(* The queries.  R is a set of positions in requests.                      *)

SumOf(R, value(_)) == SumFunction([i \in R |-> value(i)])

Flagged(R, flag) == {i \in R : flag \in requests[i].flags}

\* SUM over the rows whose cost_would_have_been_usd is not NULL.
Priced(R) == {i \in R : requests[i].would # NoPrice}
Saved(R) == SumOf(Priced(R), LAMBDA i : requests[i].would - requests[i].cost)
Spend(R) == SumOf(R, LAMBDA i : requests[i].cost)
WouldHaveBeen(R) == SumOf(Priced(R), LAMBDA i : requests[i].would)

\* resolve_window and the WHERE clause of the ledger queries.
WindowRows(range) ==
    {i \in DOMAIN requests : requests[i].at >= clock - RangeTicks[range] /\ requests[i].at < clock}

\* _rollup_scope: whole days, the first and the last included.
RollupRows(range) ==
    {i \in DOMAIN requests : DayOf(requests[i].at) >= DayOf(clock - RangeTicks[range])
                             /\ DayOf(requests[i].at) <= DayOf(clock)}

\* usage_rollup_daily: the groups of a set of rows.
Groups(R) == {<<DayOf(requests[i].at), requests[i].model>> : i \in R}
InGroup(R, g) == {i \in R : <<DayOf(requests[i].at), requests[i].model>> = g}

\* _REBUILD_USAGE: one row of the rollup, and all rows of a window.
RollupOf(R) ==
    [requests |-> Cardinality(R),
     cost     |-> Spend(R),
     would    |-> WouldHaveBeen(R),
     hits     |-> Cardinality(Flagged(R, "hit")),
     cache    |-> WouldHaveBeen(Flagged(R, "hit")),
     routing  |-> Saved(Flagged(R, "routed") \ Flagged(R, "hit"))]

RollupTable(R) == [g \in Groups(R) |-> RollupOf(InGroup(R, g))]

\* get_usage: the totals of the page.
Summary(table) ==
    [column \in {"requests", "cost", "would", "hits", "cache", "routing"} |->
       SumOf(DOMAIN table, LAMBDA g : table[g][column])]

\* get_breakdown, by model: the rollup rows of one key.
BreakdownRow(table, model) == SumOf({g \in DOMAIN table : g[2] = model}, LAMBDA g : table[g].cost)

\* cache_stats: savings of the cache page.
CachePageSavings(table) == SumOf(DOMAIN table, LAMBDA g : table[g].cache)

\* routing_stats: what routing avoided, and what escalation cost.
GrossSavings(R) == Saved(Flagged(R, "routed") \ (Flagged(R, "hit") \cup Flagged(R, "escalated")))
EscalationCost(R) == 0 - Saved(Flagged(R, "escalated"))
RoutingPageSavings(R) == GrossSavings(R) - EscalationCost(R)

\* build_digest: the week's savings.
DigestCacheSavings(R) == Saved(Flagged(R, "hit"))
DigestRoutingSavings(R) == GrossSavings(R) - EscalationCost(R)

\* TOKEN_BUCKET_BOUNDS / _TOKEN_BUCKETS: lower bounds, the last one open.
BucketFloors == <<0, 100, 500, 1000, 2000, 4000, 8000, 16000, 32000>>
BucketIds == 1 .. 9

\* The CASE of the rollup: the bucket whose bounds hold the size.
InBucket(b, n) == n >= BucketFloors[b] /\ (b = 9 \/ n < BucketFloors[b + 1])

\* _REBUILD_BUCKETS and get_tokens: requests per bucket.
Histogram(R) == [b \in BucketIds |-> Cardinality({i \in R : InBucket(b, requests[i].tokens)})]

\* _percentile_from_buckets: the lower bound of the first bucket at which the
\* running count reaches the fraction of the total.
PercentileFromBuckets(R, percent) ==
    LET counts == Histogram(R)
        running[b \in 0 .. 9] == IF b = 0 THEN 0 ELSE running[b - 1] + counts[b]
        reached == {b \in BucketIds : running[b] * 100 >= Cardinality(R) * percent}
    IN  IF R = {} THEN 0 ELSE BucketFloors[IF reached = {} THEN 9 ELSE Min(reached)]

-----------------------------------------------------------------------------
(* Properties.                                                             *)

UsageReportsTypeOK ==
    /\ clock \in 0 .. MaxTick
    /\ Len(requests) <= MaxRows
    /\ \A i \in DOMAIN requests :
         /\ requests[i].at \in 0 .. clock
         /\ requests[i].cost >= 0
         /\ requests[i].would >= NoPrice
         /\ requests[i].model \in Models

\* Every report tells the same story of the same rows, though each has a query
\* of its own: "A digest that used the gross figure would disagree with the
\* dashboard".  The routing page, the digest and the rollup agree on what
\* routing saved, the cache page, the digest and the rollup on what the cache
\* saved, and the two never count a dollar twice: together with what the
\* throttle and the unpriced rows account for they are exactly the difference
\* of the two totals.  The breakdown sums to the summary.
OneStory(range) ==
    LET R == RollupRows(range)
        table == RollupTable(R)
        total == Summary(table)
    IN  /\ total.requests = Cardinality(R)
        /\ total.routing = RoutingPageSavings(R)
        /\ total.routing = DigestRoutingSavings(R)
        /\ total.cache = DigestCacheSavings(R)
        /\ total.cache = CachePageSavings(table)
        /\ total.would - total.cost =
             total.cache + total.routing + Saved({i \in R : requests[i].flags \in {{}, {"failed"}, {"throttled"}}})
             - Spend(R \ Priced(R))
        /\ SumOf(Models, LAMBDA m : BreakdownRow(table, m)) = total.cost

\* The pages that read whole days never show less than those that read the
\* exact window.
NothingMissing(range) == WindowRows(range) \subseteq RollupRows(range)

\* What the histogram says of a percentile is what the requests say: the floor
\* of the bucket of the request with that rank.
PercentileIsRank(range) ==
    LET R == RollupRows(range)
        rank(n) == Cardinality({i \in R : requests[i].tokens <= n})
        floor(percent) == PercentileFromBuckets(R, percent)
    IN  R # {} =>
          \A percent \in {50, 95} :
            \E i \in R :
              LET n == requests[i].tokens
              IN  /\ rank(n) * 100 >= Cardinality(R) * percent
                  /\ rank(n - 1) * 100 < Cardinality(R) * percent
                  /\ floor(percent) = BucketFloors[CHOOSE b \in BucketIds : InBucket(b, n)]

\* All of it, for every range the pages offer.
ReportsAgree ==
    \A range \in DOMAIN RangeTicks : OneStory(range) /\ NothingMissing(range) /\ PercentileIsRank(range)

-----------------------------------------------------------------------------
(* What the comments promise and the code does not keep.                   *)

\* routing_stats: "An escalated request paid for both calls and ended up on the
\* model originally asked for, so routing saved nothing and cost the cheap
\* attempt."  The escalation cost of a row is what its first call cost.
EscalationIsALoss ==
    \A i \in Priced(Flagged(DOMAIN requests, "escalated")) :
      requests[i].first > 0 => EscalationCost({i}) > 0
=============================================================================
