-------------------------- MODULE AuthCacheProofs --------------------------
(***************************************************************************)
(* Theorems about AuthCache, for every set of keys, requests and handlers, *)
(* every TTL and any number of edits.                                      *)
(***************************************************************************)
EXTENDS AuthCache, TLAPS

\* Why the TTL bounds staleness: while a request still holds a read that a
\* commit has overtaken, no quiet time has elapsed for its key.
StaleReadIsRecent ==
    \A r \in Requests, k \in Keys : HoldsStale(r, k) => quiet[k] = 0

\* Only a row read as live gets past ReadProject.
ResolvedIsLive ==
    \A r \in Requests : request[r].pc = "resolved" => request[r].live

Inv == TypeOK /\ ResolvedIsLive /\ StaleReadIsRecent /\ StaleEntryExpires

----------------------------------------------------------------------------
LEMMA RequestFields ==
    ASSUME NEW q \in Request, q.pc # "idle"
    PROVE  /\ q.key \in Keys
           /\ q.live \in BOOLEAN
           /\ q.ver \in Nat
           /\ [q EXCEPT !.pc = "granted"] \in Request
  BY DEF Request

LEMMA PurgeType ==
    ASSUME TypeOK, NEW ks, NEW ok, Purge(ks, ok)
    PROVE  cache' \in [Keys -> [left : 0 .. TTL, ver : Nat]]
  BY TTLAssumption DEF TypeOK, Purge, NoEntry

LEMMA DisturbType ==
    ASSUME TypeOK, NEW ks, Disturb(ks)
    PROVE  quiet' \in [Keys -> 0 .. TTL]
  BY TTLAssumption DEF TypeOK, Disturb

\* Every variable keeps its type, whatever the interleaving.
THEOREM TypeCorrect == Spec => []TypeOK
<1>1. Init => TypeOK
  BY TTLAssumption DEF Init, TypeOK, NoEntry, NotResolving, NotHandling, Request, Handler
<1>2. TypeOK /\ [Next]_vars => TypeOK'
  <2> SUFFICES ASSUME TypeOK, [Next]_vars PROVE TypeOK'
    OBVIOUS
  <2>1. ASSUME NEW r \in Requests, RequestStep(r) PROVE TypeOK'
    <3>1. ASSUME NEW k \in Keys, CacheHit(r, k) PROVE TypeOK'
      <4>1. [pc |-> "granted", key |-> k, live |-> TRUE, ver |-> cache[k].ver] \in Request
        BY DEF TypeOK, Request
      <4>2. QED BY <3>1, <4>1 DEF TypeOK, CacheHit
    <3>2. ASSUME NEW k \in Keys, CacheMiss(r, k) PROVE TypeOK'
      <4>1. [pc |-> "miss", key |-> k, live |-> FALSE, ver |-> 0] \in Request
        BY DEF Request
      <4>2. QED BY <3>2, <4>1 DEF TypeOK, CacheMiss
    <3>3. ASSUME ReadKeyRow(r) PROVE TypeOK'
      <4> DEFINE k == request[r].key
      <4>1. k \in Keys
        BY <3>3, RequestFields DEF TypeOK, ReadKeyRow
      <4>2. [pc |-> "keyRead", key |-> k, live |-> Usable(keyRow[k]), ver |-> 0] \in Request
        BY <4>1 DEF Request, Usable
      <4>3. NotResolving \in Request
        BY DEF Request, NotResolving
      <4>4. QED BY <3>3, <4>2, <4>3 DEF TypeOK, ReadKeyRow
    <3>4. ASSUME ReadProject(r) PROVE TypeOK'
      <4> DEFINE k == request[r].key
      <4>1. k \in Keys
        BY <3>4, RequestFields DEF TypeOK, ReadProject
      <4>2. [pc |-> "resolved", key |-> k, live |-> TRUE, ver |-> settings] \in Request
        BY <4>1 DEF Request, TypeOK
      <4>3. NotResolving \in Request
        BY DEF Request, NotResolving
      <4>4. QED BY <3>4, <4>2, <4>3 DEF TypeOK, ReadProject
    <3>5. ASSUME Store(r) PROVE TypeOK'
      <4>1. /\ [request[r] EXCEPT !.pc = "granted"] \in Request
            /\ request[r].ver \in Nat
        BY <3>5, RequestFields DEF TypeOK, Store
      <4>2. request' \in [Requests -> Request]
        BY <3>5, <4>1 DEF TypeOK, Store
      <4>3. cache' \in [Keys -> [left : 0 .. TTL, ver : Nat]]
        BY <3>5, <4>1, TTLAssumption DEF TypeOK, Store
      <4>4. QED BY <3>5, <4>2, <4>3 DEF TypeOK, Store
    <3>6. ASSUME EndRequest(r) PROVE TypeOK'
      <4>1. NotResolving \in Request
        BY DEF Request, NotResolving
      <4>2. QED BY <3>6, <4>1 DEF TypeOK, EndRequest
    <3>7. QED BY <2>1, <3>1, <3>2, <3>3, <3>4, <3>5, <3>6 DEF RequestStep
  <2>2. ASSUME NEW h \in Handlers, HandlerStep(h) PROVE TypeOK'
    <3>1. ASSUME NEW k \in Keys, RevokeFlush(h, k) PROVE TypeOK'
      BY <3>1 DEF TypeOK, RevokeFlush, Handler
    <3>2. ASSUME RevokePurge(h) PROVE TypeOK'
      <4>1. PICK ok \in BOOLEAN :
              /\ Purge(handler[h].keys, ok)
              /\ handler' = [handler EXCEPT ![h].pc = "purged", ![h].ok = ok]
        BY <3>2 DEF RevokePurge
      <4>2. cache' \in [Keys -> [left : 0 .. TTL, ver : Nat]]
        BY <4>1, PurgeType
      <4>3. handler' \in [Handlers -> Handler]
        BY <4>1, ZenonT(30) DEF TypeOK, Handler
      <4>4. QED BY <3>2, <4>2, <4>3 DEF TypeOK, RevokePurge
    <3>3. ASSUME RevokeCommit(h) PROVE TypeOK'
      BY <3>3, DisturbType DEF TypeOK, RevokeCommit, Handler
    <3>4. ASSUME NEW edit, EditFlush(h, edit) PROVE TypeOK'
      <4>1. edit \in {"settings", "rule", "budget"}
        BY <3>4, EditsAssumption DEF EditFlush
      <4>2. QED BY <3>4, <4>1 DEF TypeOK, EditFlush, Handler
    <3>5. ASSUME EditPurge(h) PROVE TypeOK'
      <4>1. PICK ok \in BOOLEAN :
              /\ Purge(Live, ok)
              /\ handler' = [handler EXCEPT ![h].pc = "purged", ![h].keys = Live, ![h].ok = ok]
        BY <3>5 DEF EditPurge
      <4>2. cache' \in [Keys -> [left : 0 .. TTL, ver : Nat]]
        BY <4>1, PurgeType
      <4>3. Live \in SUBSET Keys
        BY DEF Live
      <4>4. [handler[h] EXCEPT !.pc = "purged", !.keys = Live, !.ok = ok] \in Handler
        BY <4>3 DEF TypeOK, Handler
      <4>5. handler' \in [Handlers -> Handler]
        BY <4>1, <4>4 DEF TypeOK
      <4>6. QED BY <3>5, <4>2, <4>5 DEF TypeOK, EditPurge
    <3>6. ASSUME EditCommit(h) PROVE TypeOK'
      BY <3>6, DisturbType DEF TypeOK, EditCommit, Handler, NotHandling
    <3>7. ASSUME KillCommit(h) PROVE TypeOK'
      <4>1. Live \subseteq Keys
        BY DEF Live
      <4>2. QED BY <3>7, <4>1, DisturbType DEF TypeOK, KillCommit, Handler
    <3>8. ASSUME KillPurge(h) PROVE TypeOK'
      <4>1. PICK ok \in BOOLEAN :
              /\ Purge(handler[h].keys, ok)
              /\ handler' = [handler EXCEPT ![h].pc = "done", ![h].ok = ok]
        BY <3>8 DEF KillPurge
      <4>2. cache' \in [Keys -> [left : 0 .. TTL, ver : Nat]]
        BY <4>1, PurgeType
      <4>3. handler' \in [Handlers -> Handler]
        BY <4>1, ZenonT(30) DEF TypeOK, Handler
      <4>4. QED BY <3>8, <4>2, <4>3 DEF TypeOK, KillPurge
    <3>9. ASSUME EndHandler(h) PROVE TypeOK'
      BY <3>9 DEF TypeOK, EndHandler, Handler, NotHandling
    <3>10. QED
      BY <2>2, <3>1, <3>2, <3>3, <3>4, <3>5, <3>6, <3>7, <3>8, <3>9
         DEF HandlerStep, SettingsFlush, RuleFlush, BudgetFlush
  <2>3. ASSUME NEW k \in Keys, CreateProxyKey(k) PROVE TypeOK'
    BY <2>3 DEF TypeOK, CreateProxyKey
  <2>4. ASSUME Tick PROVE TypeOK'
    <3>1. cache' \in [Keys -> [left : 0 .. TTL, ver : Nat]]
      <4>1. \A k \in Keys : cache[k].left \in 0 .. TTL /\ cache[k].ver \in Nat
        BY DEF TypeOK
      <4>2. ASSUME NEW k \in Keys
            PROVE  cache'[k] \in [left : 0 .. TTL, ver : Nat]
        <5>1. CASE cache[k].left <= 1
          BY <2>4, <5>1, TTLAssumption DEF Tick, NoEntry
        <5>2. CASE ~(cache[k].left <= 1)
          <6>1. cache[k].left - 1 \in 0 .. TTL
            BY <4>1, <5>2, TTLAssumption
          <6>2. QED BY <2>4, <4>1, <5>2, <6>1 DEF Tick
        <5>3. QED BY <5>1, <5>2
      <4>3. QED BY <2>4, <4>2 DEF Tick
    <3>2. quiet' \in [Keys -> 0 .. TTL]
      <4>1. ASSUME NEW k \in Keys PROVE quiet'[k] \in 0 .. TTL
        <5>1. quiet'[k] = 0 \/ quiet'[k] = TTL
                \/ (quiet[k] # TTL /\ quiet'[k] = quiet[k] + 1)
          BY <2>4 DEF Tick
        <5>2. quiet[k] \in 0 .. TTL
          BY DEF TypeOK
        <5>3. QED BY <5>1, <5>2, TTLAssumption
      <4>2. QED BY <2>4, <4>1 DEF Tick
    <3>3. QED BY <2>4, <3>1, <3>2 DEF TypeOK, Tick
  <2>5. ASSUME UNCHANGED vars PROVE TypeOK'
    BY <2>5 DEF TypeOK, vars
  <2>6. QED BY <2>1, <2>2, <2>3, <2>4, <2>5 DEF Next
<1>3. QED BY <1>1, <1>2, PTL DEF Spec

----------------------------------------------------------------------------
(* Bounded staleness.  A commit zeroes `quiet' of the keys it touches, so   *)
(* whatever it makes stale starts with the whole TTL at most; a tick takes  *)
(* one from the entry and gives at most one to `quiet'; and a stale read    *)
(* can only be stored while it is held, when `quiet' is still zero.         *)

LEMMA InvInit == Init => Inv
  <1> SUFFICES ASSUME Init PROVE Inv
    OBVIOUS
  <1>1. TypeOK
    BY TTLAssumption DEF Init, TypeOK, NoEntry, NotResolving, NotHandling, Request, Handler
  <1>2. ResolvedIsLive /\ StaleReadIsRecent
    BY DEF Init, ResolvedIsLive, StaleReadIsRecent, HoldsStale, Holds, NotResolving
  <1>3. StaleEntryExpires
    BY DEF Init, StaleEntryExpires, StaleEntry, Cached, NoEntry
  <1>4. QED BY <1>1, <1>2, <1>3 DEF Inv

\* A request step leaves the rows and the clock alone; what it can disturb is
\* what requests hold and, in Store, one entry.
LEMMA RequestStepInv ==
    ASSUME Inv, TypeOK', NEW r \in Requests, RequestStep(r)
    PROVE  Inv'
  <1> USE DEF Inv
  <1>0. \A q \in Requests : request[q] \in Request
    BY DEF TypeOK
  <1>1. keyRow' = keyRow /\ settings' = settings /\ quiet' = quiet
    BY DEF RequestStep, CacheHit, CacheMiss, ReadKeyRow, ReadProject, Store, EndRequest
  <1>2. \A q \in Requests : q # r => request'[q] = request[q]
    BY DEF RequestStep, CacheHit, CacheMiss, ReadKeyRow, ReadProject, Store, EndRequest, TypeOK
  <1>3. CASE \E k \in Keys : CacheHit(r, k) \/ CacheMiss(r, k)
    <2>1. request'[r].pc \in {"granted", "miss"} /\ cache' = cache
      BY <1>3 DEF CacheHit, CacheMiss, TypeOK
    <2>2. QED BY <1>1, <1>2, <2>1
         DEF ResolvedIsLive, StaleReadIsRecent, StaleEntryExpires, HoldsStale, Holds, StaleEntry, Cached
  <1>4. CASE ReadKeyRow(r)
    <2>1. cache' = cache /\ request'[r].pc \in {"idle", "keyRead"}
      BY <1>4 DEF ReadKeyRow, TypeOK, NotResolving
    <2>2. \A k \in Keys : Holds(r, k)' => keyRow[k] = "live"
      <3>1. CASE keyRow[request[r].key] = "absent"
        BY <1>4, <3>1 DEF ReadKeyRow, TypeOK, NotResolving, Holds
      <3>2. CASE keyRow[request[r].key] # "absent"
        <4>1. request'[r].live = (keyRow[request[r].key] = "live")
          BY <1>4, <3>2 DEF ReadKeyRow, TypeOK, Usable
        <4>2. request'[r].key = request[r].key
          BY <1>4, <3>2 DEF ReadKeyRow, TypeOK
        <4>3. QED BY <4>1, <4>2 DEF Holds
      <3>3. QED BY <3>1, <3>2
    <2>3. QED BY <1>1, <1>2, <2>1, <2>2
         DEF ResolvedIsLive, StaleReadIsRecent, StaleEntryExpires, HoldsStale, Holds, StaleEntry, Cached
  <1>5. CASE ReadProject(r)
    <2>1. cache' = cache
      BY <1>5 DEF ReadProject
    <2>2. \/ request'[r].pc = "idle"
          \/ /\ request'[r].pc = "resolved" /\ request'[r].live
             /\ request'[r].ver = settings /\ request'[r].key = request[r].key
             /\ request[r].pc = "keyRead" /\ request[r].live
      BY <1>5 DEF ReadProject, TypeOK, NotResolving
    <2>3. ASSUME NEW k \in Keys, HoldsStale(r, k)' PROVE HoldsStale(r, k)
      BY <1>1, <2>2, <2>3 DEF HoldsStale, Holds
    <2>4. QED BY <1>1, <1>2, <2>1, <2>2, <2>3
         DEF ResolvedIsLive, StaleReadIsRecent, StaleEntryExpires, HoldsStale, Holds, StaleEntry, Cached
  <1>6. CASE Store(r)
    <2> DEFINE k0 == request[r].key
    <2>1. /\ request[r].pc = "resolved" /\ request[r].live /\ k0 \in Keys
          /\ request[r].ver \in Nat
      BY <1>0, <1>6, RequestFields DEF Store, ResolvedIsLive
    <2>2. request'[r].pc = "granted"
      BY <1>6 DEF Store, TypeOK
    <2>3. \A k \in Keys : \/ cache'[k] = cache[k]
                          \/ k = k0 /\ cache'[k] = [left |-> TTL, ver |-> request[r].ver]
      <3>1. CASE cache' = cache
        BY <3>1
      <3>2. CASE cache' = [cache EXCEPT ![k0] = [left |-> TTL, ver |-> request[r].ver]]
        BY <3>2 DEF TypeOK
      <3>3. QED BY <1>6, <3>1, <3>2 DEF Store
    <2>4. ASSUME NEW k \in Keys, StaleEntry(k)' PROVE (cache[k].left + quiet[k] <= TTL)'
      <3>1. CASE cache'[k] = cache[k]
        BY <1>1, <2>4, <3>1 DEF StaleEntry, Cached, StaleEntryExpires
      <3>2. CASE k = k0 /\ cache'[k] = [left |-> TTL, ver |-> request[r].ver]
        <4>1. HoldsStale(r, k)
          BY <1>1, <2>1, <2>4, <3>2 DEF HoldsStale, Holds, StaleEntry
        <4>2. quiet'[k] = 0
          BY <1>1, <4>1 DEF StaleReadIsRecent
        <4>3. QED BY <3>2, <4>2, TTLAssumption
      <3>3. QED BY <2>3, <3>1, <3>2
    <2>5. QED BY <1>1, <1>2, <2>2, <2>4
         DEF ResolvedIsLive, StaleReadIsRecent, StaleEntryExpires, HoldsStale, Holds
  <1>7. CASE EndRequest(r)
    <2>1. request'[r].pc = "idle" /\ cache' = cache
      BY <1>7 DEF EndRequest, TypeOK, NotResolving
    <2>2. QED BY <1>1, <1>2, <2>1
         DEF ResolvedIsLive, StaleReadIsRecent, StaleEntryExpires, HoldsStale, Holds, StaleEntry, Cached
  <1>8. QED BY <1>3, <1>4, <1>5, <1>6, <1>7 DEF RequestStep

\* What a handler's step does to the rows, the cache and the history: entries
\* are only dropped, and a key whose data changes is quiet no longer.
HandlerEffect ==
    /\ request' = request
    /\ \A k \in Keys : cache'[k] = cache[k] \/ cache'[k] = NoEntry
    /\ \A k \in Keys : \/ quiet'[k] = 0
                       \/ /\ quiet'[k] = quiet[k] /\ settings' = settings
                          /\ keyRow'[k] = "revoked" => keyRow[k] = "revoked"

LEMMA HandlerStepEffect ==
    ASSUME TypeOK, NEW h \in Handlers, HandlerStep(h)
    PROVE  HandlerEffect
  <1>1. CASE \E k \in Keys : RevokeFlush(h, k)
    BY <1>1 DEF HandlerEffect, RevokeFlush
  <1>2. CASE RevokePurge(h)
    BY <1>2 DEF HandlerEffect, RevokePurge, Purge
  <1>3. CASE RevokeCommit(h)
    BY <1>3 DEF HandlerEffect, RevokeCommit, Disturb
  <1>4. CASE \E edit \in {"settings", "rule", "budget"} : EditFlush(h, edit)
    BY <1>4 DEF HandlerEffect, EditFlush
  <1>5. CASE EditPurge(h)
    BY <1>5 DEF HandlerEffect, EditPurge, Purge
  <1>6. CASE EditCommit(h)
    BY <1>6 DEF HandlerEffect, EditCommit, Disturb
  <1>7. CASE KillCommit(h)
    BY <1>7 DEF HandlerEffect, KillCommit, Disturb, Live
  <1>8. CASE KillPurge(h)
    BY <1>8 DEF HandlerEffect, KillPurge, Purge
  <1>9. CASE EndHandler(h)
    BY <1>9 DEF HandlerEffect, EndHandler
  <1>10. QED
    BY <1>1, <1>2, <1>3, <1>4, <1>5, <1>6, <1>7, <1>8, <1>9
       DEF HandlerStep, SettingsFlush, RuleFlush, BudgetFlush

LEMMA HandlerEffectInv ==
    ASSUME Inv, TypeOK', HandlerEffect
    PROVE  Inv'
  <1> USE DEF Inv
  <1>1. ResolvedIsLive'
    BY DEF HandlerEffect, ResolvedIsLive
  <1>2. StaleReadIsRecent'
    BY DEF HandlerEffect, StaleReadIsRecent, HoldsStale, Holds
  <1>3. ASSUME NEW k \in Keys, StaleEntry(k)' PROVE (cache[k].left + quiet[k] <= TTL)'
    <2>1. cache'[k] = cache[k] /\ cache[k].left \in 0 .. TTL
      BY <1>3 DEF HandlerEffect, StaleEntry, Cached, NoEntry, TypeOK
    <2>2. CASE quiet'[k] = 0
      BY <2>1, <2>2, TTLAssumption
    <2>3. CASE /\ quiet'[k] = quiet[k] /\ settings' = settings
               /\ keyRow'[k] = "revoked" => keyRow[k] = "revoked"
      BY <1>3, <2>1, <2>3 DEF StaleEntry, Cached, StaleEntryExpires
    <2>4. QED BY <2>2, <2>3 DEF HandlerEffect
  <1>4. QED BY <1>1, <1>2, <1>3 DEF StaleEntryExpires

LEMMA TickInv ==
    ASSUME Inv, TypeOK', Tick
    PROVE  Inv'
  <1> USE DEF Inv
  <1>1. ResolvedIsLive'
    BY DEF Tick, ResolvedIsLive
  <1>2. StaleReadIsRecent'
    BY DEF Tick, StaleReadIsRecent, HoldsStale, Holds
  <1>3. ASSUME NEW k \in Keys, StaleEntry(k)' PROVE (cache[k].left + quiet[k] <= TTL)'
    <2>1. cache[k].left \in 0 .. TTL /\ quiet[k] \in 0 .. TTL
      BY DEF TypeOK
    <2>2. ~(cache[k].left <= 1) /\ cache'[k] = [left |-> cache[k].left - 1, ver |-> cache[k].ver]
      BY <1>3 DEF Tick, StaleEntry, Cached, NoEntry
    <2>3. cache[k].left + quiet[k] <= TTL
      BY <1>3, <2>1, <2>2 DEF Tick, StaleEntry, Cached, StaleEntryExpires
    <2>4. quiet'[k] = 0 \/ quiet'[k] = quiet[k] + 1 \/ (quiet[k] = TTL /\ quiet'[k] = TTL)
      BY DEF Tick
    <2>5. QED BY <2>1, <2>2, <2>3, <2>4, TTLAssumption
  <1>4. QED BY <1>1, <1>2, <1>3 DEF StaleEntryExpires

LEMMA InvHolds == Spec => []Inv
<1>1. Inv /\ TypeOK' /\ [Next]_vars => Inv'
  <2> SUFFICES ASSUME Inv, TypeOK', [Next]_vars PROVE Inv'
    OBVIOUS
  <2>1. CASE \E r \in Requests : RequestStep(r)
    BY <2>1, RequestStepInv
  <2>2. CASE \E h \in Handlers : HandlerStep(h)
    BY <2>2, HandlerStepEffect, HandlerEffectInv DEF Inv
  <2>3. CASE \E k \in Keys : CreateProxyKey(k)
    BY <2>3 DEF CreateProxyKey, Inv, TypeOK, ResolvedIsLive, StaleReadIsRecent,
                StaleEntryExpires, HoldsStale, Holds, StaleEntry, Cached
  <2>4. CASE Tick
    BY <2>4, TickInv
  <2>5. CASE UNCHANGED vars
    BY <2>5 DEF vars, Inv, TypeOK, ResolvedIsLive, StaleReadIsRecent,
                StaleEntryExpires, HoldsStale, Holds, StaleEntry, Cached
  <2>6. QED BY <2>1, <2>2, <2>3, <2>4, <2>5 DEF Next
<1>2. QED BY <1>1, InvInit, TypeCorrect, PTL DEF Spec

\* A stale resolution outlives the last overtaken read by at most the TTL.
THEOREM BoundedStaleness == Spec => []StaleEntryExpires
<1>1. Inv => StaleEntryExpires
  BY DEF Inv
<1>2. QED BY <1>1, InvHolds, PTL

----------------------------------------------------------------------------
(* Revocation is final.                                                     *)

\* A request step gives nobody a hold on a revoked key that nobody held.
LEMMA RequestStepDead ==
    ASSUME Inv, NEW r \in Requests, RequestStep(r), NEW k \in Keys, Dead(k)
    PROVE  Dead(k)'
  <1>0. \A q \in Requests : request[q] \in Request
    BY DEF Inv, TypeOK
  <1>1. keyRow' = keyRow
    BY DEF RequestStep, CacheHit, CacheMiss, ReadKeyRow, ReadProject, Store, EndRequest
  <1>2. \A q \in Requests : q # r => request'[q] = request[q]
    BY DEF RequestStep, CacheHit, CacheMiss, ReadKeyRow, ReadProject, Store, EndRequest, Inv, TypeOK
  <1>3. ASSUME cache'[k] = cache[k], ~Holds(r, k)' PROVE Dead(k)'
    BY <1>1, <1>2, <1>3 DEF Dead, Cached, Holds
  <1>4. CASE \E j \in Keys : CacheHit(r, j) \/ CacheMiss(r, j)
    <2>1. request'[r].pc \in {"granted", "miss"} /\ cache' = cache
      BY <1>4 DEF CacheHit, CacheMiss, Inv, TypeOK
    <2>2. QED BY <1>3, <2>1 DEF Holds
  <1>5. CASE ReadKeyRow(r)
    <2>1. ~Holds(r, k)'
      <3>1. CASE keyRow[request[r].key] = "absent"
        BY <1>5, <3>1 DEF ReadKeyRow, Inv, TypeOK, NotResolving, Holds
      <3>2. CASE keyRow[request[r].key] # "absent"
        <4>1. request'[r].live = (keyRow[request[r].key] = "live")
          BY <1>5, <3>2 DEF ReadKeyRow, Inv, TypeOK, Usable
        <4>2. request'[r].key = request[r].key
          BY <1>5, <3>2 DEF ReadKeyRow, Inv, TypeOK
        <4>3. QED BY <4>1, <4>2 DEF Holds, Dead
      <3>3. QED BY <3>1, <3>2
    <2>2. QED BY <1>3, <1>5, <2>1 DEF ReadKeyRow
  <1>6. CASE ReadProject(r)
    <2>1. ~Holds(r, k)'
      <3>1. CASE request[r].live
        <4>1. request'[r].key = request[r].key /\ Holds(r, request[r].key)
          BY <1>6, <3>1 DEF ReadProject, Inv, TypeOK, Holds
        <4>2. QED BY <4>1 DEF Holds, Dead
      <3>2. CASE ~request[r].live
        BY <1>6, <3>2 DEF ReadProject, Inv, TypeOK, NotResolving, Holds
      <3>3. QED BY <3>1, <3>2
    <2>2. QED BY <1>3, <1>6, <2>1 DEF ReadProject
  <1>7. CASE Store(r)
    <2>1. request[r].pc = "resolved" /\ request[r].live
      BY <1>7 DEF Store, Inv, ResolvedIsLive
    <2>2. request[r].key # k
      BY <2>1 DEF Dead, Holds
    <2>3. cache'[k] = cache[k]
      <3>1. CASE cache' = cache
        BY <3>1
      <3>2. CASE cache' = [cache EXCEPT ![request[r].key] = [left |-> TTL, ver |-> request[r].ver]]
        BY <2>2, <3>2 DEF Inv, TypeOK
      <3>3. QED BY <1>7, <3>1, <3>2 DEF Store
    <2>4. request'[r].pc = "granted"
      BY <1>7 DEF Store, Inv, TypeOK
    <2>5. QED BY <1>3, <2>3, <2>4 DEF Holds
  <1>8. CASE EndRequest(r)
    <2>1. request'[r].pc = "idle" /\ cache' = cache
      BY <1>8 DEF EndRequest, Inv, TypeOK, NotResolving
    <2>2. QED BY <1>3, <2>1 DEF Holds
  <1>9. QED BY <1>4, <1>5, <1>6, <1>7, <1>8 DEF RequestStep

\* Nobody un-revokes a key.
LEMMA RevokedForGood ==
    ASSUME TypeOK, NEW k \in Keys, keyRow[k] = "revoked", [Next]_vars
    PROVE  keyRow'[k] = "revoked"
  <1>1. ASSUME NEW r \in Requests, RequestStep(r) PROVE keyRow' = keyRow
    BY <1>1 DEF RequestStep, CacheHit, CacheMiss, ReadKeyRow, ReadProject, Store, EndRequest
  <1>2. ASSUME NEW h \in Handlers, HandlerStep(h) PROVE keyRow'[k] = "revoked"
    <2>1. CASE RevokeCommit(h) \/ KillCommit(h)
      BY <2>1 DEF RevokeCommit, KillCommit
    <2>2. CASE ~(RevokeCommit(h) \/ KillCommit(h))
      BY <1>2, <2>2 DEF HandlerStep, RevokeFlush, RevokePurge, SettingsFlush, RuleFlush,
            BudgetFlush, EditFlush, EditPurge, EditCommit, KillPurge, EndHandler
    <2>3. QED BY <2>1, <2>2
  <1>3. ASSUME NEW j \in Keys, CreateProxyKey(j) PROVE keyRow'[k] = "revoked"
    BY <1>3 DEF CreateProxyKey, TypeOK
  <1>4. CASE Tick \/ UNCHANGED vars
    BY <1>4 DEF Tick, vars
  <1>5. QED BY <1>1, <1>2, <1>3, <1>4 DEF Next

\* No order of steps brings a dead key back.
THEOREM RevocationIsFinal == Spec => DeadStaysDead
<1>1. ASSUME Inv, [Next]_vars, NEW k \in Keys, Dead(k) PROVE Dead(k)'
  <2>1. keyRow'[k] = "revoked"
    BY <1>1, RevokedForGood DEF Inv, Dead
  <2>2. CASE \E r \in Requests : RequestStep(r)
    BY <1>1, <2>2, RequestStepDead
  <2>3. CASE \E h \in Handlers : HandlerStep(h)
    BY <1>1, <2>1, <2>3, HandlerStepEffect DEF Inv, HandlerEffect, Dead, Cached, Holds, NoEntry
  <2>4. CASE \E j \in Keys : CreateProxyKey(j)
    BY <1>1, <2>1, <2>4 DEF CreateProxyKey, Dead, Cached, Holds
  <2>5. CASE Tick
    <3>1. ~(cache'[k].left > 0)
      <4>1. cache[k].left <= 1
        BY <1>1 DEF Dead, Cached, Inv, TypeOK
      <4>2. QED BY <2>5, <4>1 DEF Tick, NoEntry
    <3>2. QED BY <1>1, <2>1, <2>5, <3>1 DEF Tick, Dead, Cached, Holds
  <2>6. CASE UNCHANGED vars
    BY <1>1, <2>6 DEF vars, Dead, Cached, Holds
  <2>7. QED BY <1>1, <2>2, <2>3, <2>4, <2>5, <2>6 DEF Next
<1>2. Inv /\ [Next]_vars => [\A k \in Keys : Dead(k) => Dead(k)']_vars
  BY <1>1
<1>3. QED BY <1>2, InvHolds, PTL DEF Spec, DeadStaysDead

----------------------------------------------------------------------------
(* The kill switch.                                                         *)

\* Between its commit and its purge a kill's keys are all revoked.
KilledAreRevoked ==
    \A h \in Handlers : handler[h].pc = "committed"
        => \A k \in handler[h].keys : keyRow[k] = "revoked"

LEMMA KilledAreRevokedHolds == Spec => []KilledAreRevoked
<1>1. Init => KilledAreRevoked
  BY DEF Init, KilledAreRevoked, NotHandling
<1>2. TypeOK /\ KilledAreRevoked /\ [Next]_vars => KilledAreRevoked'
  <2> SUFFICES ASSUME TypeOK, KilledAreRevoked, [Next]_vars,
                      NEW g \in Handlers, handler'[g].pc = "committed",
                      NEW k \in handler'[g].keys
               PROVE  keyRow'[k] = "revoked"
    BY DEF KilledAreRevoked
  <2>1. CASE handler'[g] = handler[g]
    <3>1. k \in Keys /\ keyRow[k] = "revoked"
      BY <2>1 DEF KilledAreRevoked, TypeOK, Handler
    <3>2. QED BY <3>1, RevokedForGood
  <2>2. CASE handler'[g] # handler[g]
    <3>1. PICK h \in Handlers : HandlerStep(h)
      BY <2>2 DEF Next, vars, RequestStep, CacheHit, CacheMiss, ReadKeyRow, ReadProject,
                  Store, EndRequest, CreateProxyKey, Tick
    <3>2. CASE KillCommit(h)
      BY <2>2, <3>2 DEF KillCommit, TypeOK, Live
    <3>3. CASE ~KillCommit(h)
      <4>1. CASE RevokePurge(h) \/ EditPurge(h) \/ KillPurge(h)
        BY <2>2, <4>1 DEF RevokePurge, EditPurge, KillPurge, TypeOK, Handler
      <4>2. CASE RevokeCommit(h) \/ EditCommit(h) \/ EndHandler(h)
        BY <2>2, <4>2 DEF RevokeCommit, EditCommit, EndHandler, NotHandling, TypeOK, Handler
      <4>3. CASE \E j \in Keys : RevokeFlush(h, j)
        BY <2>2, <4>3 DEF RevokeFlush, TypeOK
      <4>4. CASE \E edit \in {"settings", "rule", "budget"} : EditFlush(h, edit)
        BY <2>2, <4>4 DEF EditFlush, TypeOK
      <4>5. QED BY <3>1, <3>3, <4>1, <4>2, <4>3, <4>4
               DEF HandlerStep, SettingsFlush, RuleFlush, BudgetFlush
    <3>4. QED BY <3>2, <3>3
  <2>3. QED BY <2>1, <2>2
<1>3. QED BY <1>1, <1>2, TypeCorrect, PTL DEF Spec

\* A successful kill purge kills every key no resolution straddles.
THEOREM KillSwitchIsFinal == Spec => KillIsFinal
<1>1. ASSUME TypeOK, KilledAreRevoked, [Next]_vars, NEW g \in Handlers,
             handler[g].pc = "committed", handler'[g].pc = "done", handler'[g].ok,
             NEW k \in handler[g].keys
      PROVE  Dead(k)' \/ \E r \in Requests : Holds(r, k)
  <2>1. PICK h \in Handlers : HandlerStep(h)
    BY <1>1 DEF Next, vars, RequestStep, CacheHit, CacheMiss, ReadKeyRow, ReadProject,
                Store, EndRequest, CreateProxyKey, Tick
  <2>2. KillPurge(g)
    BY <1>1, <2>1 DEF HandlerStep, RevokeFlush, RevokePurge, RevokeCommit,
          SettingsFlush, RuleFlush, BudgetFlush, EditFlush, EditPurge, EditCommit,
          KillCommit, KillPurge, EndHandler, NotHandling, TypeOK
  <2>3. k \in Keys /\ keyRow[k] = "revoked"
    BY <1>1 DEF KilledAreRevoked, TypeOK, Handler
  <2>4. keyRow' = keyRow /\ request' = request
    BY <2>2 DEF KillPurge
  <2>5. cache'[k] = NoEntry
    <3>1. PICK ok \in BOOLEAN :
            /\ Purge(handler[g].keys, ok)
            /\ handler' = [handler EXCEPT ![g].pc = "done", ![g].ok = ok]
      BY <2>2 DEF KillPurge
    <3>2. ok
      BY <1>1, <3>1 DEF TypeOK, Handler
    <3>3. QED BY <1>1, <2>3, <3>1, <3>2 DEF Purge
  <2>6. QED BY <2>3, <2>4, <2>5 DEF Dead, Cached, Holds, NoEntry
<1>2. TypeOK /\ KilledAreRevoked /\ [Next]_vars =>
        [\A h \in Handlers :
           (handler[h].pc = "committed" /\ handler'[h].pc = "done" /\ handler'[h].ok)
           => \A k \in handler[h].keys :
                Dead(k)' \/ \E r \in Requests : Holds(r, k)]_vars
  BY <1>1
<1>3. QED BY <1>2, TypeCorrect, KilledAreRevokedHolds, PTL DEF Spec, KillIsFinal
----------------------------------------------------------------------------
(* The refinement of RevocationLease.  What a request holds, it saw live;   *)
(* only Store gives an entry its whole TTL, and only to what it holds.      *)

Reading == [k \in Keys |-> {r \in Requests : Holds(r, k)}]
Left == [k \in Keys |-> cache[k].left]

\* Whatever r does without holding anything afterwards, the abstract holder
\* has finished.
LEMMA HoldsNothingNow ==
    ASSUME NEW r \in Requests, keyRow' = keyRow, cache' = cache,
           \A q \in Requests : q # r => request'[q] = request[q],
           \A k \in Keys : ~Holds(r, k)'
    PROVE  Lease!Finish(r)
  <1>1. Reading' = [k \in Keys |-> Reading[k] \ {r}]
    BY DEF Reading, Holds
  <1>2. Left' = Left
    BY DEF Left
  <1>3. QED BY <1>1, <1>2 DEF Lease!Finish, Reading, Left

LEMMA RequestStepLeases ==
    ASSUME Inv, NEW r \in Requests, RequestStep(r)
    PROVE  Lease!LeaseNext \/ UNCHANGED Lease!leaseVars
  <1>0. \A q \in Requests : request[q] \in Request
    BY DEF Inv, TypeOK
  <1>1. keyRow' = keyRow
    BY DEF RequestStep, CacheHit, CacheMiss, ReadKeyRow, ReadProject, Store, EndRequest
  <1>2. \A q \in Requests : q # r => request'[q] = request[q]
    BY DEF RequestStep, CacheHit, CacheMiss, ReadKeyRow, ReadProject, Store, EndRequest, Inv, TypeOK
  <1>3. ASSUME cache' = cache, \A k \in Keys : ~Holds(r, k)' PROVE Lease!LeaseNext
    BY <1>1, <1>2, <1>3, HoldsNothingNow DEF Lease!LeaseNext
  <1>4. CASE \E j \in Keys : CacheHit(r, j) \/ CacheMiss(r, j)
    <2>1. request'[r].pc \in {"granted", "miss"} /\ cache' = cache
      BY <1>4 DEF CacheHit, CacheMiss, Inv, TypeOK
    <2>2. QED BY <1>3, <2>1 DEF Holds
  <1>5. CASE ReadKeyRow(r)
    <2>0. PICK k \in Keys : k = request[r].key
      BY <1>0, <1>5, RequestFields DEF ReadKeyRow
    <2>1. cache' = cache /\ request[r].key = k /\ request[r].pc = "miss"
      BY <1>5, <2>0 DEF ReadKeyRow
    <2>2. CASE keyRow[k] # "live"
      <3>1. ~request'[r].live
        <4>1. CASE keyRow[k] = "absent"
          BY <1>5, <2>1, <4>1 DEF ReadKeyRow, Inv, TypeOK, NotResolving
        <4>2. CASE keyRow[k] # "absent"
          <5>1. request'[r].live = Usable(keyRow[k])
            BY <1>5, <2>1, <4>2 DEF ReadKeyRow, Inv, TypeOK
          <5>2. QED BY <2>2, <5>1 DEF Usable
        <4>3. QED BY <4>1, <4>2
      <3>2. QED BY <1>3, <2>1, <3>1 DEF Holds
    <2>3. CASE keyRow[k] = "live"
      <3>0. request'[r].live = Usable(keyRow[k])
        BY <1>5, <2>1, <2>3 DEF ReadKeyRow, Inv, TypeOK
      <3>1. /\ request'[r].pc = "keyRead" /\ request'[r].live
            /\ request'[r].key = k
        <4>1. request'[r].pc = "keyRead" /\ request'[r].key = k
          BY <1>5, <2>1, <2>3 DEF ReadKeyRow, Inv, TypeOK
        <4>2. request'[r].live
          BY <2>3, <3>0 DEF Usable
        <4>3. QED BY <4>1, <4>2
      <3>2. \A j \in Keys : (Holds(r, j)' <=> j = k) /\ ~Holds(r, j)
        BY <2>1, <3>1 DEF Holds
      <3>3. Reading' = [Reading EXCEPT ![k] = Reading[k] \cup {r}]
        <4>1. \A j \in Keys, q \in Requests : q # r => (Holds(q, j)' <=> Holds(q, j))
          BY <1>2 DEF Holds
        <4>2. \A j \in Keys : {q \in Requests : Holds(q, j)'}
                = {q \in Requests : Holds(q, j)} \cup (IF j = k THEN {r} ELSE {})
          BY <3>2, <4>1
        <4>3. QED BY <4>2 DEF Reading
      <3>4. Left' = Left
        BY <2>1 DEF Left
      <3>5. Lease!See(r, k)
        BY <1>1, <2>3, <3>3, <3>4 DEF Lease!See, Reading, Left
      <3>6. QED BY <2>1, <3>5 DEF Lease!LeaseNext
    <2>4. QED BY <2>2, <2>3
  <1>6. CASE ReadProject(r)
    <2>1. cache' = cache /\ request[r].pc = "keyRead"
      BY <1>6 DEF ReadProject
    <2>2. CASE ~request[r].live
      BY <1>3, <1>6, <2>1, <2>2 DEF ReadProject, Inv, TypeOK, NotResolving, Holds
    <2>3. CASE request[r].live
      <3>1. /\ request'[r].pc = "resolved" /\ request'[r].live
            /\ request'[r].key = request[r].key
        BY <1>6, <2>3 DEF ReadProject, Inv, TypeOK
      <3>2. Reading' = Reading
        BY <1>2, <2>1, <2>3, <3>1 DEF Reading, Holds
      <3>3. Left' = Left
        BY <2>1 DEF Left
      <3>4. QED BY <1>1, <3>2, <3>3 DEF Lease!leaseVars, Reading, Left
    <2>4. QED BY <2>2, <2>3
  <1>7. CASE Store(r)
    <2> DEFINE entry == [left |-> TTL, ver |-> request[r].ver]
    <2>0. PICK k \in Keys : k = request[r].key
      BY <1>0, <1>7, RequestFields DEF Store
    <2>1. /\ request[r].pc = "resolved" /\ request[r].live /\ request[r].key = k
          /\ request'[r].pc = "granted"
      BY <1>0, <1>7, <2>0, RequestFields DEF Store, Inv, TypeOK, ResolvedIsLive
    <2>2. CASE cache' = cache
      BY <1>3, <2>1, <2>2 DEF Holds
    <2>3. CASE cache' = [cache EXCEPT ![k] = entry]
      <3>1. \A j \in Keys : ~Holds(r, j)' /\ (Holds(r, j) <=> j = k)
        BY <2>1 DEF Holds
      <3>2. Reading' = [Reading EXCEPT ![k] = Reading[k] \ {r}]
        <4>1. \A j \in Keys, q \in Requests : q # r => (Holds(q, j)' <=> Holds(q, j))
          BY <1>2 DEF Holds
        <4>2. \A j \in Keys : {q \in Requests : Holds(q, j)'}
                = {q \in Requests : Holds(q, j)} \ (IF j = k THEN {r} ELSE {})
          BY <3>1, <4>1
        <4>3. QED BY <4>2 DEF Reading
      <3>3. Left' = [j \in Keys |-> IF j = k THEN TTL ELSE IF j \in {} THEN 0 ELSE Left[j]]
        BY <2>1, <2>3 DEF Left, Inv, TypeOK
      <3>4. r \in Reading[k]
        BY <2>1, <3>1 DEF Reading
      <3>5. \E ks \in SUBSET (Keys \ {k}) :
              Left' = [j \in Keys |-> IF j = k THEN TTL ELSE IF j \in ks THEN 0 ELSE Left[j]]
        <4>1. {} \in SUBSET (Keys \ {k})
          OBVIOUS
        <4>2. QED BY <3>3, <4>1
      <3>6. Lease!Write(r, k)
        BY <1>1, <3>2, <3>4, <3>5 DEF Lease!Write, Reading, Left
      <3>7. \E h \in Requests, j \in Keys : Lease!See(h, j) \/ Lease!Write(h, j)
        BY <2>1, <3>6
      <3>8. QED BY <3>7 DEF Lease!LeaseNext
    <2>4. QED BY <1>7, <2>1, <2>2, <2>3 DEF Store
  <1>8. CASE EndRequest(r)
    <2>1. request'[r].pc = "idle" /\ cache' = cache
      BY <1>8 DEF EndRequest, Inv, TypeOK, NotResolving
    <2>2. QED BY <1>3, <2>1 DEF Holds
  <1>9. QED BY <1>4, <1>5, <1>6, <1>7, <1>8 DEF RequestStep

LEMMA PurgeWithdraws ==
    ASSUME TypeOK, NEW ks, NEW ok, Purge(ks, ok), keyRow' = keyRow, request' = request
    PROVE  Lease!LeaseNext
  <1> DEFINE gone == IF ok THEN ks \cap Keys ELSE {}
  <1>1. Left' = [k \in Keys |-> IF k \in gone THEN 0 ELSE Left[k]]
    BY DEF Left, Purge, NoEntry
  <1>2. Reading' = Reading
    BY DEF Reading, Holds
  <1>3. Lease!Withdraw(gone)
    BY <1>1, <1>2 DEF Lease!Withdraw, Reading, Left
  <1>4. gone \in SUBSET Keys
    OBVIOUS
  <1>5. QED BY <1>3, <1>4 DEF Lease!LeaseNext

LEMMA CommitRevokes ==
    ASSUME NEW ks \in SUBSET Live, cache' = cache, request' = request,
           keyRow' = [k \in Keys |-> IF k \in ks THEN "revoked" ELSE keyRow[k]]
    PROVE  Lease!LeaseNext
  <1>1. Left' = Left /\ Reading' = Reading
    BY DEF Left, Reading, Holds
  <1>2. ks \in SUBSET Keys /\ \A k \in ks : keyRow[k] = "live"
    BY DEF Live
  <1>3. Lease!Revoke(ks)
    BY <1>1, <1>2 DEF Lease!Revoke, Reading, Left
  <1>4. QED BY <1>2, <1>3 DEF Lease!LeaseNext

LEMMA UnseenByLease ==
    ASSUME keyRow' = keyRow, cache' = cache, request' = request
    PROVE  UNCHANGED Lease!leaseVars
  BY DEF Lease!leaseVars, Holds

LEMMA HandlerStepLeases ==
    ASSUME TypeOK, NEW h \in Handlers, HandlerStep(h)
    PROVE  Lease!LeaseNext \/ UNCHANGED Lease!leaseVars
  <1>1. CASE RevokePurge(h)
    BY <1>1, PurgeWithdraws DEF RevokePurge
  <1>2. CASE EditPurge(h)
    BY <1>2, PurgeWithdraws DEF EditPurge
  <1>3. CASE KillPurge(h)
    BY <1>3, PurgeWithdraws DEF KillPurge
  <1>4. CASE RevokeCommit(h)
    <2>1. handler[h].keys \cap Live \in SUBSET Live
      OBVIOUS
    <2>2. QED BY <1>4, <2>1, CommitRevokes DEF RevokeCommit
  <1>5. CASE KillCommit(h)
    <2>1. Live \in SUBSET Live
      OBVIOUS
    <2>2. QED BY <1>5, <2>1, CommitRevokes DEF KillCommit
  <1>6. CASE \E k \in Keys : RevokeFlush(h, k)
    BY <1>6, UnseenByLease DEF RevokeFlush
  <1>7. CASE \E edit \in {"settings", "rule", "budget"} : EditFlush(h, edit)
    BY <1>7, UnseenByLease DEF EditFlush
  <1>8. CASE EditCommit(h) \/ EndHandler(h)
    BY <1>8, UnseenByLease DEF EditCommit, EndHandler
  <1>9. QED
    BY <1>1, <1>2, <1>3, <1>4, <1>5, <1>6, <1>7, <1>8
       DEF HandlerStep, SettingsFlush, RuleFlush, BudgetFlush

\* The authentication cache of proxy/auth.py, with the control plane's races
\* and lost purges, implements the lease protocol.
THEOREM CacheIsALease == Spec => ImplementsLease
<1>1. Init => Lease!LeaseInit
  <2> SUFFICES ASSUME Init PROVE Lease!LeaseInit
    OBVIOUS
  <2>1. Reading = [k \in Keys |-> {}]
    BY DEF Init, Reading, Holds, NotResolving
  <2>2. Left = [k \in Keys |-> 0]
    BY DEF Init, Left, NoEntry
  <2>3. QED BY <2>1, <2>2 DEF Init, Lease!LeaseInit, Reading, Left
<1>2. Inv /\ [Next]_vars => [Lease!LeaseNext]_Lease!leaseVars
  <2> SUFFICES ASSUME Inv, [Next]_vars
               PROVE  Lease!LeaseNext \/ UNCHANGED Lease!leaseVars
    OBVIOUS
  <2>1. CASE \E r \in Requests : RequestStep(r)
    BY <2>1, RequestStepLeases
  <2>2. CASE \E h \in Handlers : HandlerStep(h)
    BY <2>2, HandlerStepLeases DEF Inv
  <2>3. ASSUME NEW k \in Keys, CreateProxyKey(k) PROVE Lease!LeaseNext
    <3>1. Left' = Left /\ Reading' = Reading
      BY <2>3 DEF CreateProxyKey, Left, Reading, Holds
    <3>2. Lease!Grant(k)
      BY <2>3, <3>1 DEF CreateProxyKey, Lease!Grant, Reading, Left
    <3>3. QED BY <3>2 DEF Lease!LeaseNext
  <2>4. CASE Tick
    <3>1. Reading' = Reading
      BY <2>4 DEF Tick, Reading, Holds
    <3>2. ASSUME NEW k \in Keys
          PROVE  cache'[k].left = IF cache[k].left = 0 THEN 0 ELSE cache[k].left - 1
      <4>1. cache[k].left \in 0 .. TTL
        BY DEF Inv, TypeOK
      <4>2. CASE cache[k].left <= 1
        <5>1. cache'[k].left = 0
          BY <2>4, <4>2 DEF Tick, NoEntry
        <5>2. QED BY <4>1, <4>2, <5>1, TTLAssumption
      <4>3. CASE ~(cache[k].left <= 1)
        <5>1. cache'[k].left = cache[k].left - 1
          BY <2>4, <4>3 DEF Tick
        <5>2. QED BY <4>1, <4>3, <5>1, TTLAssumption
      <4>4. QED BY <4>2, <4>3
    <3>3. Left' = [k \in Keys |-> IF Left[k] = 0 THEN 0 ELSE Left[k] - 1]
      BY <3>2 DEF Left
    <3>4. Lease!Age
      BY <2>4, <3>1, <3>3 DEF Tick, Lease!Age, Reading, Left
    <3>5. QED BY <3>4 DEF Lease!LeaseNext
  <2>5. CASE UNCHANGED vars
    BY <2>5, UnseenByLease DEF vars
  <2>6. QED BY <2>1, <2>2, <2>3, <2>4, <2>5 DEF Next
<1>3. QED BY <1>1, <1>2, InvHolds, PTL DEF Spec, ImplementsLease, Lease!LeaseSpec
============================================================================
