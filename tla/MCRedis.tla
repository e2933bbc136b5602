------------------------------ MODULE MCRedis ------------------------------
(***************************************************************************)
(* The two protocols between the gateway, Redis and Postgres that liveness *)
(* is asked of: the cached key resolution and the ledger stream.  They     *)
(* share no state: `focus', chosen once, says whose steps are taken.  No   *)
(* symmetry, because of the liveness.                                      *)
(***************************************************************************)
EXTENDS MCAuthCache, LedgerDrain

VARIABLE focus

redisVars == <<vars, ledgerVars, focus>>

RedisInit == Init /\ LedgerInit /\ focus \in {"keys", "ledger"}

AuthStep == focus = "keys" /\ Next /\ UNCHANGED ledgerVars
LedgerStep == focus = "ledger" /\ LedgerNext /\ UNCHANGED vars

RedisNext == (AuthStep \/ LedgerStep) /\ UNCHANGED focus

\* Time passes and every resolution once begun ends; cron keeps draining.
RedisFairness ==
    /\ WF_vars(focus = "keys" /\ Tick)
    /\ \A r \in Requests :
         WF_vars(focus = "keys" /\ (ReadKeyRow(r) \/ ReadProject(r) \/ Store(r) \/ EndRequest(r)))
    /\ \A d \in Drains : WF_ledgerVars(focus = "ledger" /\ Progress(d))

RedisSpec == RedisInit /\ [][RedisNext]_redisVars /\ RedisFairness
============================================================================
