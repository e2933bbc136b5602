----------------------------- MODULE AuthCache -----------------------------
(***************************************************************************)
(* Proxy-key authentication (proxy/auth.py) together with every control-   *)
(* plane handler that changes what a proxy key resolves to.                *)
(*                                                                         *)
(* The data plane resolves a key Redis-first with a TTL and falls back to  *)
(* Postgres.  The control plane changes Postgres and deletes the Redis     *)
(* entries it made stale.  Redis and Postgres share no transaction: each   *)
(* await below is a step of its own, so the two planes interleave between  *)
(* any two of them.                                                        *)
(*                                                                         *)
(* One project is modelled, with all its keys.  Everything a resolution    *)
(* carries about the project (toggles, routing rules, budgets) is one      *)
(* version number, `settings', raised by every committed edit.             *)
(***************************************************************************)
EXTENDS Integers, FiniteSets

CONSTANTS
    Keys,        \* proxy keys a client may present
    Requests,    \* proxied requests in flight at once
    Handlers,    \* control-plane handlers in flight at once
    Edits,       \* which edits happen: a subset of {"settings", "rule", "budget"}
    TTL,         \* AUTH_CACHE_TTL_SECONDS, in ticks of the clock
    MaxChanges   \* bound on committed edits of the project

ASSUME TTLAssumption == TTL \in Nat \ {0}
ASSUME MaxChangesAssumption == MaxChanges \in Nat
ASSUME EditsAssumption == Edits \subseteq {"settings", "rule", "budget"}

VARIABLES
    keyRow,      \* Keys -> committed proxy_keys row
    settings,    \* committed version of the project's row, rules and budgets
    cache,       \* Keys -> Redis entry: settings version and ticks left (0: no entry)
    request,     \* Requests -> progress of resolve_proxy_key
    handler,     \* Handlers -> progress of a control-plane handler
    quiet        \* history: Keys -> ticks since the last moment a pre-change
                 \* read of the key was in flight, or the key's data changed

vars == <<keyRow, settings, cache, request, handler, quiet>>

----------------------------------------------------------------------------
NoEntry == [left |-> 0, ver |-> 0]

NotResolving == [pc |-> "idle", live |-> FALSE, ver |-> 0]

NotHandling == [op |-> "none", pc |-> "idle", keys |-> {}, ok |-> FALSE]

Request ==
    [pc : {"idle"}, live : {FALSE}, ver : {0}] \cup
    [pc : {"miss", "keyRead", "resolved", "granted"},
     key : Keys, live : BOOLEAN, ver : Nat]

Handler ==
    [op : {"none", "revoke", "kill", "edit"},
     pc : {"idle", "flushed", "purged", "committed", "done"},
     keys : SUBSET Keys, ok : BOOLEAN]

TypeOK ==
    /\ keyRow \in [Keys -> {"absent", "live", "revoked"}]
    /\ settings \in Nat
    /\ cache \in [Keys -> [left : 0 .. TTL, ver : Nat]]
    /\ request \in [Requests -> Request]
    /\ handler \in [Handlers -> Handler]
    /\ quiet \in [Keys -> 0 .. TTL]

Init ==
    /\ keyRow \in [Keys -> {"absent", "live"}]
    /\ settings = 0
    /\ cache = [k \in Keys |-> NoEntry]
    /\ request = [r \in Requests |-> NotResolving]
    /\ handler = [h \in Handlers |-> NotHandling]
    /\ quiet = [k \in Keys |-> TTL]

----------------------------------------------------------------------------
(* Staleness.                                                              *)

Cached(k) == cache[k].left > 0

\* Request r has read key k as live and has not finished resolving it.
Holds(r, k) ==
    /\ request[r].pc \in {"keyRead", "resolved"}
    /\ request[r].key = k
    /\ request[r].live

\* What r holds is no longer what Postgres says.
HoldsStale(r, k) ==
    /\ Holds(r, k)
    /\ \/ keyRow[k] = "revoked"
       \/ request[r].pc = "resolved" /\ request[r].ver # settings

StaleEntry(k) ==
    /\ Cached(k)
    /\ keyRow[k] = "revoked" \/ cache[k].ver # settings

\* Key k is revoked and nothing anywhere can authenticate it again.
Dead(k) ==
    /\ keyRow[k] = "revoked"
    /\ ~Cached(k)
    /\ \A r \in Requests : ~Holds(r, k)

----------------------------------------------------------------------------
(* The data plane: resolve_proxy_key.                                      *)

\* A bug CacheHit could have: every hit renews the TTL.
CacheHitSliding(r, k) ==
    /\ request[r].pc = "idle"
    /\ Cached(k)
    /\ request' = [request EXCEPT ![r] =
                     [pc |-> "granted", key |-> k, live |-> TRUE, ver |-> cache[k].ver]]
    /\ cache' = [cache EXCEPT ![k].left = TTL]
    /\ UNCHANGED <<keyRow, settings, handler, quiet>>

\* redis.get finds an entry: the request runs on what is cached.
CacheHit(r, k) ==
    /\ request[r].pc = "idle"
    /\ Cached(k)
    /\ request' = [request EXCEPT ![r] =
                     [pc |-> "granted", key |-> k, live |-> TRUE, ver |-> cache[k].ver]]
    /\ UNCHANGED <<keyRow, settings, cache, handler, quiet>>

\* No entry, one written in an older shape, or Redis unreachable (which may
\* happen whatever the entry is): fall through to Postgres.
CacheMiss(r, k) ==
    /\ request[r].pc = "idle"
    /\ request' = [request EXCEPT ![r] =
                     [pc |-> "miss", key |-> k, live |-> FALSE, ver |-> 0]]
    /\ UNCHANGED <<keyRow, settings, cache, handler, quiet>>

\* A bug Usable could have: revoked_at is never looked at.
UsableIfPresent(row) == row # "absent"

\* A row that does not carry revoked_at lets the request go on.
Usable(row) == row = "live"

\* First statement of _resolve_from_database: the proxy_keys row by hash.
\* A missing row is a 401 at once; revoked_at is looked at only at the end.
ReadKeyRow(r) ==
    /\ request[r].pc = "miss"
    /\ LET k == request[r].key IN
       IF keyRow[k] = "absent"
       THEN request' = [request EXCEPT ![r] = NotResolving]
       ELSE request' = [request EXCEPT ![r] =
                [pc |-> "keyRead", key |-> k, live |-> Usable(keyRow[k]), ver |-> 0]]
    /\ UNCHANGED <<keyRow, settings, cache, handler, quiet>>

\* The remaining statements read the project, its rules and its budgets as
\* they are now, then revoked_at of the row read before is checked.
\* READ COMMITTED: the two reads may straddle a commit.
ReadProject(r) ==
    /\ request[r].pc = "keyRead"
    /\ request' = [request EXCEPT ![r] =
                     IF request[r].live
                     THEN [pc |-> "resolved", key |-> request[r].key,
                           live |-> TRUE, ver |-> settings]
                     ELSE NotResolving]
    /\ UNCHANGED <<keyRow, settings, cache, handler, quiet>>

\* A bug Store could have: the expiry is off by one tick.
StoreTooLong(r) ==
    /\ request[r].pc = "resolved"
    /\ request' = [request EXCEPT ![r].pc = "granted"]
    /\ cache' = [cache EXCEPT ![request[r].key] = [left |-> TTL + 1, ver |-> request[r].ver]]
    /\ UNCHANGED <<keyRow, settings, handler, quiet>>

\* redis.set(..., ex=TTL), which may fail; either way the request goes on.
Store(r) ==
    /\ request[r].pc = "resolved"
    /\ request' = [request EXCEPT ![r].pc = "granted"]
    /\ \/ cache' = [cache EXCEPT ![request[r].key] =
                      [left |-> TTL, ver |-> request[r].ver]]
       \/ cache' = cache
    /\ UNCHANGED <<keyRow, settings, handler, quiet>>

\* The request ends: answered, a Postgres failure (503), a client gone or a
\* proxy process lost.
EndRequest(r) ==
    /\ request[r].pc # "idle"
    /\ request' = [request EXCEPT ![r] = NotResolving]
    /\ UNCHANGED <<keyRow, settings, cache, handler, quiet>>

----------------------------------------------------------------------------
(* The control plane.                                                      *)

\* DELETE of several entries; a Redis failure is logged and swallowed.
Purge(ks, ok) ==
    cache' = IF ok THEN [k \in Keys |-> IF k \in ks THEN NoEntry ELSE cache[k]]
                   ELSE cache

\* Committed data of the keys in ks changes now.
Disturb(ks) == quiet' = [k \in Keys |-> IF k \in ks THEN 0 ELSE quiet[k]]

\* An uncommitted UPDATE of k's row holds its row lock.
Locked(k) ==
    \E h \in Handlers : /\ handler[h].op = "revoke"
                        /\ handler[h].pc \in {"flushed", "purged"}
                        /\ handler[h].keys = {k}

Live == {k \in Keys : keyRow[k] = "live"}

\* create_proxy_key commits.
CreateProxyKey(k) ==
    /\ keyRow[k] = "absent"
    /\ keyRow' = [keyRow EXCEPT ![k] = "live"]
    /\ UNCHANGED <<settings, cache, request, handler, quiet>>

\* revoke_proxy_key up to its flush.  A key already revoked is purged again.
RevokeFlush(h, k) ==
    /\ handler[h].pc = "idle"
    /\ keyRow[k] # "absent"
    /\ ~Locked(k)
    /\ handler' = [handler EXCEPT ![h] =
                     [op |-> "revoke", pc |-> "flushed", keys |-> {k}, ok |-> FALSE]]
    /\ UNCHANGED <<keyRow, settings, cache, request, quiet>>

\* Its purge, still inside the request's open transaction.
RevokePurge(h) ==
    /\ handler[h].op = "revoke" /\ handler[h].pc = "flushed"
    /\ \E ok \in BOOLEAN :
         /\ Purge(handler[h].keys, ok)
         /\ handler' = [handler EXCEPT ![h].pc = "purged", ![h].ok = ok]
    /\ UNCHANGED <<keyRow, settings, request, quiet>>

\* get_session commits after the handler has returned.
RevokeCommit(h) ==
    /\ handler[h].op = "revoke" /\ handler[h].pc = "purged"
    /\ keyRow' = [k \in Keys |-> IF k \in handler[h].keys \cap Live THEN "revoked"
                                 ELSE keyRow[k]]
    /\ handler' = [handler EXCEPT ![h].pc = "done"]
    /\ Disturb(handler[h].keys \cap Live)
    /\ UNCHANGED <<settings, cache, request>>

\* An edit of the project is flushed to the request's transaction.
EditFlush(h, edit) ==
    /\ edit \in Edits
    /\ settings < MaxChanges
    /\ handler[h].pc = "idle"
    /\ handler' = [handler EXCEPT ![h] =
                     [op |-> "edit", pc |-> "flushed", keys |-> {}, ok |-> FALSE]]
    /\ UNCHANGED <<keyRow, settings, cache, request, quiet>>

SettingsFlush(h) == EditFlush(h, "settings")   \* update_settings
RuleFlush(h)     == EditFlush(h, "rule")       \* create_rule, delete_rule
BudgetFlush(h)   == EditFlush(h, "budget")     \* create_, update_, delete_budget

\* purge_project_auth_cache: the entries of the keys not revoked.
EditPurge(h) ==
    /\ handler[h].op = "edit" /\ handler[h].pc = "flushed"
    /\ \E ok \in BOOLEAN :
         /\ Purge(Live, ok)
         /\ handler' = [handler EXCEPT ![h].pc = "purged", ![h].keys = Live, ![h].ok = ok]
    /\ UNCHANGED <<keyRow, settings, request, quiet>>

EditCommit(h) ==
    /\ handler[h].op = "edit" /\ handler[h].pc = "purged"
    /\ settings' = settings + 1
    /\ handler' = [handler EXCEPT ![h] = NotHandling]
    /\ Disturb(Keys)
    /\ UNCHANGED <<keyRow, cache, request>>

\* kill_project's own transaction: UPDATE ... WHERE revoked_at IS NULL
\* RETURNING proxy_key_hash.  It waits for row locks held by others.
KillCommit(h) ==
    /\ handler[h].pc = "idle"
    /\ \A k \in Live : ~Locked(k)
    /\ keyRow' = [k \in Keys |-> IF k \in Live THEN "revoked" ELSE keyRow[k]]
    /\ handler' = [handler EXCEPT ![h] =
                     [op |-> "kill", pc |-> "committed", keys |-> Live, ok |-> FALSE]]
    /\ Disturb(Live)
    /\ UNCHANGED <<settings, cache, request>>

\* A bug KillPurge could have: choose the entries with the query every other
\* handler uses, which skips the keys the kill has just revoked.
KillPurgeUnrevoked(h) ==
    /\ handler[h].op = "kill" /\ handler[h].pc = "committed"
    /\ \E ok \in BOOLEAN :
         /\ Purge(Live, ok)
         /\ handler' = [handler EXCEPT ![h].pc = "done", ![h].ok = ok]
    /\ UNCHANGED <<keyRow, settings, request, quiet>>

\* purge_auth_cache_many(hashes), after the revocation is durable.
KillPurge(h) ==
    /\ handler[h].op = "kill" /\ handler[h].pc = "committed"
    /\ \E ok \in BOOLEAN :
         /\ Purge(handler[h].keys, ok)
         /\ handler' = [handler EXCEPT ![h].pc = "done", ![h].ok = ok]
    /\ UNCHANGED <<keyRow, settings, request, quiet>>

\* The handler ends: answered, rolled back, or its process lost on the way.
EndHandler(h) ==
    /\ handler[h].pc # "idle"
    /\ handler' = [handler EXCEPT ![h] = NotHandling]
    /\ UNCHANGED <<keyRow, settings, cache, request, quiet>>

----------------------------------------------------------------------------
\* A tick of the clock: Redis expires entries.
Tick ==
    /\ cache' = [k \in Keys |-> IF cache[k].left <= 1 THEN NoEntry
                                ELSE [left |-> cache[k].left - 1, ver |-> cache[k].ver]]
    /\ quiet' = [k \in Keys |->
                   IF \E r \in Requests : HoldsStale(r, k) THEN 0
                   ELSE IF quiet[k] = TTL THEN TTL ELSE quiet[k] + 1]
    /\ UNCHANGED <<keyRow, settings, request, handler>>

RequestStep(r) ==
    \/ \E k \in Keys : CacheHit(r, k) \/ CacheMiss(r, k)
    \/ ReadKeyRow(r)
    \/ ReadProject(r)
    \/ Store(r)
    \/ EndRequest(r)

HandlerStep(h) ==
    \/ \E k \in Keys : RevokeFlush(h, k)
    \/ RevokePurge(h)
    \/ RevokeCommit(h)
    \/ SettingsFlush(h)
    \/ RuleFlush(h)
    \/ BudgetFlush(h)
    \/ EditPurge(h)
    \/ EditCommit(h)
    \/ KillCommit(h)
    \/ KillPurge(h)
    \/ EndHandler(h)

Next ==
    \/ \E r \in Requests : RequestStep(r)
    \/ \E h \in Handlers : HandlerStep(h)
    \/ \E k \in Keys : CreateProxyKey(k)
    \/ Tick

Spec == Init /\ [][Next]_vars

\* Time passes, and a resolution once begun ends: every await in
\* resolve_proxy_key returns or raises.  Nothing obliges clients to send
\* requests or the control plane to do anything.
Fairness ==
    /\ WF_vars(Tick)
    /\ \A r \in Requests : WF_vars(ReadKeyRow(r) \/ ReadProject(r) \/ Store(r) \/ EndRequest(r))

FairSpec == Spec /\ Fairness

----------------------------------------------------------------------------
(* Properties.                                                             *)

\* The damage of any missed or overtaken purge is bounded by the TTL: an entry
\* that differs from Postgres (a revoked key, older settings) has at most TTL
\* ticks left, counted from the last moment a read made before the change was
\* still in flight.  AUTH_CACHE_TTL_SECONDS is there "to bound the damage if a
\* purge is missed".
StaleEntryExpires ==
    \A k \in Keys : StaleEntry(k) => cache[k].left + quiet[k] <= TTL

\* Once a key is revoked, out of the cache and in no request's hands, no later
\* order of resolutions, edits, kills or Redis failures brings it back.
DeadStaysDead == [][\A k \in Keys : Dead(k) => Dead(k)']_vars

\* The kill switch, when its purge succeeds, leaves each key it revoked dead
\* unless a request that read the key before the kill is still resolving it.
KillIsFinal ==
    [][\A h \in Handlers :
         (handler[h].pc = "committed" /\ handler'[h].pc = "done" /\ handler'[h].ok)
         => \A k \in handler[h].keys :
              Dead(k)' \/ \E r \in Requests : Holds(r, k)]_vars

\* Revocation always wins in the end, with no purge needed: a revoked key
\* becomes dead and stays so, although requests keep presenting it.
RevokedDies == \A k \in Keys : keyRow[k] = "revoked" ~> []Dead(k)

\* The two planes, with all their races and lost purges, implement the lease
\* protocol of RevocationLease: whoever writes an entry has seen the row live,
\* and nothing renews an entry but such a write.
Lease == INSTANCE RevocationLease WITH
           Holders <- Requests,
           row     <- keyRow,
           reading <- [k \in Keys |-> {r \in Requests : Holds(r, k)}],
           lease   <- [k \in Keys |-> cache[k].left]

ImplementsLease == Lease!LeaseSpec

----------------------------------------------------------------------------
(* What the comments promise and the code does not keep.                   *)

\* budgets.py, kill_project: re-caching a working key after the purge "is the
\* one failure a kill switch cannot have".
KillSwitchContains ==
    \A h \in Handlers :
        (handler[h].op = "kill" /\ handler[h].pc = "done" /\ handler[h].ok)
        => \A k \in handler[h].keys : ~Cached(k)

\* CODEBASE_GUIDE 7.2: revocation invalidates the entry in the same operation
\* as the database write, "or a revoked key keeps working".
RevocationInvalidates ==
    \A h \in Handlers :
        (handler[h].op = "revoke" /\ handler[h].pc = "done" /\ handler[h].ok)
        => \A k \in handler[h].keys : ~Cached(k)
============================================================================
