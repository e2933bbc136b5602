------------------------------- MODULE MCJobs -------------------------------
(***************************************************************************)
(* What runs beside the requests' own path: streams on their way to the    *)
(* client, the semantic cache and its maintenance, the rollups and what is *)
(* read from them, the spend watch, alerts, the digest, the advisor.  As   *)
(* in MCControlPlane, they share no state, and `focus' says whose steps    *)
(* are taken.                                                              *)
(***************************************************************************)
EXTENDS Streaming, SemanticCache, Rollup, UsageReports, RequestLog, SpendWatch, Alerts, Digest,
        Advisor, BreakEven

\* The price of the strong model falls on day 1; `alias' is what a stream may
\* call a model, and has no price.
Tariff == [strong |-> <<[from |-> 0, input |-> 10, output |-> 40], [from |-> 1, input |-> 5, output |-> 20]>>,
           cheap  |-> <<[from |-> 0, input |-> 1, output |-> 4]>>,
           alias  |-> <<>>]
ModelNames == DOMAIN Tariff
SmallUsages == {[input |-> 49, output |-> 50], [input |-> 50, output |-> 50]}
OneRange == [today |-> 1]

VARIABLE focus

jobsVars == <<streamVars, cacheVars, rollupVars, reportVars, logVars, watchVars, alertVars, digestVars,
              adviceVars, quote, focus>>

\* The type invariants of the parts.
JobsTypeOK ==
    /\ StreamingTypeOK /\ SemanticCacheTypeOK /\ RollupTypeOK /\ UsageReportsTypeOK /\ RequestLogTypeOK
    /\ SpendWatchTypeOK /\ AlertsTypeOK /\ DigestTypeOK /\ AdvisorTypeOK

\* A part out of focus starts in one state only.
JobsInit ==
    /\ StreamingInit /\ SemanticCacheInit /\ RollupInit /\ UsageReportsInit /\ RequestLogInit
    /\ SpendWatchInit /\ AlertsInit /\ DigestInit /\ AdvisorInit /\ BreakEvenInit
    /\ focus \in {"streams", "cache", "rollup", "reports", "log", "watch", "alerts", "digest",
                  "advisor", "breakeven"}
    /\ focus # "streams" => \A s \in Streams : stream[s].script = <<"done">> /\ stream[s].cacheable
    /\ focus # "log" => reader.decision = "all"
    /\ focus # "breakeven" => quote = CHOOSE q \in Quotes : TRUE

StreamStep ==
    /\ focus = "streams" /\ StreamingNext
    /\ UNCHANGED <<cacheVars, rollupVars, reportVars, logVars, watchVars, alertVars, digestVars, adviceVars, quote>>
CacheStep ==
    /\ focus = "cache" /\ SemanticCacheNext
    /\ UNCHANGED <<streamVars, rollupVars, reportVars, logVars, watchVars, alertVars, digestVars, adviceVars, quote>>
RollupStep ==
    /\ focus = "rollup" /\ RollupNext
    /\ UNCHANGED <<streamVars, cacheVars, reportVars, logVars, watchVars, alertVars, digestVars, adviceVars, quote>>
ReportStep ==
    /\ focus = "reports" /\ UsageReportsNext
    /\ UNCHANGED <<streamVars, cacheVars, rollupVars, logVars, watchVars, alertVars, digestVars, adviceVars, quote>>
LogStep ==
    /\ focus = "log" /\ RequestLogNext
    /\ UNCHANGED <<streamVars, cacheVars, rollupVars, reportVars, watchVars, alertVars, digestVars, adviceVars, quote>>
WatchStep ==
    /\ focus = "watch" /\ SpendWatchNext
    /\ UNCHANGED <<streamVars, cacheVars, rollupVars, reportVars, logVars, alertVars, digestVars, adviceVars, quote>>
AlertStep ==
    /\ focus = "alerts" /\ AlertsNext
    /\ UNCHANGED <<streamVars, cacheVars, rollupVars, reportVars, logVars, watchVars, digestVars, adviceVars, quote>>
DigestStep ==
    /\ focus = "digest" /\ DigestNext
    /\ UNCHANGED <<streamVars, cacheVars, rollupVars, reportVars, logVars, watchVars, alertVars, adviceVars, quote>>
AdvisorStep ==
    /\ focus = "advisor" /\ AdvisorNext
    /\ UNCHANGED <<streamVars, cacheVars, rollupVars, reportVars, logVars, watchVars, alertVars, digestVars, quote>>
BreakEvenStep ==
    /\ focus = "breakeven" /\ BreakEvenNext
    /\ UNCHANGED <<streamVars, cacheVars, rollupVars, reportVars, logVars, watchVars, alertVars, digestVars, adviceVars>>

JobsNext ==
    /\ StreamStep \/ CacheStep \/ RollupStep \/ ReportStep \/ LogStep \/ WatchStep \/ AlertStep
       \/ DigestStep \/ AdvisorStep \/ BreakEvenStep
    /\ UNCHANGED focus

\* cron starts a rebuild every minute and a scan every five; a job that runs
\* goes on (what cuts it short is a fault), and Redis expires its keys.
JobsFairness ==
    /\ \A j \in Rebuilds : WF_rollupVars(focus = "rollup" /\ RebuildStep(j))
    /\ WF_alertVars(focus = "alerts" /\ AlertTick)
    /\ \A a \in Raisers :
         /\ WF_alertVars(focus = "alerts" /\ ClaimCooldown(a))
         /\ WF_alertVars(focus = "alerts" /\ (PersistAlert(a) \/ SendAlert(a)))

JobsSpec == JobsInit /\ [][JobsNext]_jobsVars /\ JobsFairness
=============================================================================
