--------------------------- MODULE SemanticCache ---------------------------
(***************************************************************************)
(* The semantic cache of one project and one prompt: the rows of           *)
(* cache_entries (system of record, similarity path), the one Redis entry  *)
(* of the exact path, which carries the answer itself, and the hit counts  *)
(* that the proxy buffers in Redis and a worker job folds into the rows.   *)
(* A store writes Redis inside its transaction; an invalidation deletes    *)
(* the rows, sweeps Redis and only then commits.                           *)
(***************************************************************************)
EXTENDS Integers, FiniteSets

CONSTANTS
    Entries,        \* ids a store may draw
    Wipes,          \* invalidation requests
    EntryTTL,       \* ttl_seconds, in ticks
    MaxHits         \* model bound: lookups per entry that find it

ASSUME EntryTTLAssumption == EntryTTL \in Nat
ASSUME MaxHitsAssumption == MaxHits \in Nat

VARIABLES
    entry,          \* Entries -> [stage, left]: left ticks until ttl_expires_at
    redisEntry,          \* [of, left]: the Redis entry of the prompt, of = {} or {e}
    wipe,           \* Wipes -> [stage, doomed]: rows its DELETE has locked
    hits,           \* Entries -> [found, due, recorded, buffered, applied]: lookups
                    \* that found it, record_hit calls still to come and made,
                    \* the count in Redis and in the row
    flush           \* the maintenance job: [stage, taken]

cacheVars == <<entry, redisEntry, wipe, hits, flush>>

NoWipe == [stage |-> "idle", doomed |-> {}]
NoFlush == [stage |-> "idle", taken |-> [e \in Entries |-> 0]]

SemanticCacheInit ==
    /\ entry = [e \in Entries |-> [stage |-> "unused", left |-> 0]]
    /\ redisEntry = [of |-> {}, left |-> 0]
    /\ wipe = [w \in Wipes |-> NoWipe]
    /\ hits = [e \in Entries |-> [found |-> 0, due |-> 0, recorded |-> 0, buffered |-> 0, applied |-> 0]]
    /\ flush = NoFlush

Rows == {e \in Entries : entry[e].stage = "stored"}

\* The entries a lookup that starts now may answer from, by either path.
OnExactPath   == IF redisEntry.left > 0 THEN redisEntry.of ELSE {}
OnSimilarPath == {e \in Rows : entry[e].left > 0}
Servable == OnExactPath \cup OnSimilarPath

-----------------------------------------------------------------------------
(* The proxy.                                                              *)

\* A store encrypts the answer, fixes ttl_expires_at and INSERTs the row in an
\* open transaction.
StoreInsert(e) ==
    /\ entry[e].stage = "unused"
    /\ entry' = [entry EXCEPT ![e] = [stage |-> "inserted", left |-> EntryTTL]]
    /\ UNCHANGED <<redisEntry, wipe, hits, flush>>

\* It sets the Redis entry, whole TTL from now, over whatever was there; a
\* Redis failure only skips this.
StoreIndex(e) ==
    /\ entry[e].stage = "inserted"
    /\ entry' = [entry EXCEPT ![e].stage = "indexed"]
    /\ \/ redisEntry' = [of |-> {e}, left |-> EntryTTL]
       \/ redisEntry' = redisEntry
    /\ UNCHANGED <<wipe, hits, flush>>

StoreCommit(e) ==
    /\ entry[e].stage = "indexed"
    /\ entry' = [entry EXCEPT ![e].stage = "stored"]
    /\ UNCHANGED <<redisEntry, wipe, hits, flush>>

\* The transaction is rolled back: what Redis was given stays.
StoreFails(e) ==
    /\ entry[e].stage \in {"inserted", "indexed"}
    /\ entry' = [entry EXCEPT ![e].stage = "lost"]
    /\ UNCHANGED <<redisEntry, wipe, hits, flush>>

\* A lookup finds e; run_pipeline will call record_hit once after the exact
\* lookup, twice after the similar one.
Found(e, owed) ==
    /\ hits[e].found < MaxHits
    /\ hits' = [hits EXCEPT ![e] =
                  [found |-> @.found + 1, due |-> @.due + owed, recorded |-> @.recorded,
                   buffered |-> @.buffered, applied |-> @.applied]]
    /\ UNCHANGED <<entry, redisEntry, wipe, flush>>

FindExact(e) == e \in OnExactPath /\ Found(e, 1)

FindSimilar(e) == e \in OnSimilarPath /\ Found(e, 2)

\* record_hit, whatever has become of the entry by then: one HINCRBY, lost when
\* Redis fails, the deadline cuts the call off or the request dies.
RecordHit(e) ==
    /\ hits[e].due > 0
    /\ \E kept \in {0, 1} :
         hits' = [hits EXCEPT ![e] =
                    [found |-> @.found, due |-> @.due - 1, recorded |-> @.recorded + 1,
                     buffered |-> @.buffered + kept, applied |-> @.applied]]
    /\ UNCHANGED <<entry, redisEntry, wipe, flush>>

-----------------------------------------------------------------------------
(* Invalidation, from the control plane.                                   *)

\* DELETE: the committed rows, invisible to nobody until the commit.
WipeRows(w) ==
    /\ wipe[w].stage = "idle"
    /\ \A v \in Wipes : wipe[v].doomed = {}
    /\ wipe' = [wipe EXCEPT ![w] = [stage |-> "deleted", doomed |-> Rows]]
    /\ UNCHANGED <<entry, redisEntry, hits, flush>>

\* The sweep of the Redis keys of the project; a failure is only logged.
WipeIndex(w) ==
    /\ wipe[w].stage = "deleted"
    /\ \/ /\ redisEntry' = [of |-> {}, left |-> 0]
          /\ wipe' = [wipe EXCEPT ![w].stage = "swept"]
       \/ /\ redisEntry' = redisEntry
          /\ wipe' = [wipe EXCEPT ![w].stage = "unswept"]
    /\ UNCHANGED <<entry, hits, flush>>

\* A bug WipeCommit could have: the DELETE comes after the sweep.
WipeCommitLate(w) ==
    /\ wipe[w].stage \in {"swept", "unswept"}
    /\ entry' = [e \in Entries |->
                   IF e \in Rows
                   THEN [entry[e] EXCEPT !.stage =
                           IF wipe[w].stage = "swept" THEN "withdrawn" ELSE "dropped"]
                   ELSE entry[e]]
    /\ wipe' = [wipe EXCEPT ![w] = NoWipe]
    /\ UNCHANGED <<redisEntry, hits, flush>>

\* The request's transaction commits. "withdrawn" keeps apart the rows whose
\* Redis sweep succeeded from those ("dropped") whose sweep failed.
WipeCommit(w) ==
    /\ wipe[w].stage \in {"swept", "unswept"}
    /\ entry' = [e \in Entries |->
                   IF e \in wipe[w].doomed
                   THEN [entry[e] EXCEPT !.stage =
                           IF wipe[w].stage = "swept" THEN "withdrawn" ELSE "dropped"]
                   ELSE entry[e]]
    /\ wipe' = [wipe EXCEPT ![w] = NoWipe]
    /\ UNCHANGED <<redisEntry, hits, flush>>

WipeFails(w) ==
    /\ wipe[w].stage # "idle"
    /\ wipe' = [wipe EXCEPT ![w] = NoWipe]
    /\ UNCHANGED <<entry, redisEntry, hits, flush>>

-----------------------------------------------------------------------------
(* The maintenance job: HGETALL, DELETE, then one transaction.             *)

FlushRead ==
    /\ flush.stage = "idle"
    /\ \E e \in Entries : hits[e].buffered > 0
    /\ flush' = [stage |-> "read", taken |-> [e \in Entries |-> hits[e].buffered]]
    /\ UNCHANGED <<entry, redisEntry, wipe, hits>>

\* Redis forgets the counters, those recorded since the read included; then
\* the counts are applied.
FlushDelete ==
    /\ flush.stage = "read"
    /\ hits' = [e \in Entries |-> [hits[e] EXCEPT !.buffered = 0]]
    /\ flush' = [flush EXCEPT !.stage = "deleted"]
    /\ UNCHANGED <<entry, redisEntry, wipe>>

\* A bug FlushDeleteFails could have: a failed DELETE does not stop the job.
FlushDeleteIgnored ==
    /\ flush.stage = "read"
    /\ hits' = hits
    /\ flush' = [flush EXCEPT !.stage = "deleted"]
    /\ UNCHANGED <<entry, redisEntry, wipe>>

\* The DELETE raises: it may have been carried out or not, and nothing is
\* applied.
FlushDeleteFails ==
    /\ flush.stage = "read"
    /\ \/ hits' = [e \in Entries |-> [hits[e] EXCEPT !.buffered = 0]]
       \/ hits' = hits
    /\ flush' = NoFlush
    /\ UNCHANGED <<entry, redisEntry, wipe>>

\* UPDATE hit_count of the rows that still exist, purge_expired, commit. Both
\* wait for a DELETE that has locked the rows they are about to write.
Expired(e) == entry[e].stage = "stored" /\ entry[e].left = 0

FlushCommit ==
    /\ flush.stage = "deleted"
    /\ \A w \in Wipes : wipe[w].doomed = {}
    /\ hits' = [e \in Entries |->
                  IF e \in Rows
                  THEN [hits[e] EXCEPT !.applied = @ + flush.taken[e]]
                  ELSE hits[e]]
    /\ entry' = [e \in Entries |->
                   IF Expired(e) THEN [entry[e] EXCEPT !.stage = "purged"] ELSE entry[e]]
    /\ flush' = NoFlush
    /\ UNCHANGED <<redisEntry, wipe>>

\* Rolled back, or aborted as a deadlock victim: the counts are lost.
FlushFails ==
    /\ flush.stage # "idle"
    /\ flush' = NoFlush
    /\ UNCHANGED <<entry, redisEntry, wipe, hits>>

\* A run with no counters only sweeps the rows past their TTL.
PurgeExpired ==
    /\ flush.stage = "idle"
    /\ \E e \in Entries : Expired(e)
    /\ \A w \in Wipes : wipe[w].doomed = {}
    /\ entry' = [e \in Entries |->
                   IF Expired(e) THEN [entry[e] EXCEPT !.stage = "purged"] ELSE entry[e]]
    /\ UNCHANGED <<redisEntry, wipe, hits, flush>>

-----------------------------------------------------------------------------
CacheTick ==
    /\ redisEntry.left > 0 \/ \E e \in Entries : entry[e].left > 0
    /\ redisEntry' = IF redisEntry.left > 1 THEN [redisEntry EXCEPT !.left = @ - 1] ELSE [of |-> {}, left |-> 0]
    /\ entry' = [e \in Entries |->
                   [entry[e] EXCEPT !.left = IF @ = 0 THEN 0 ELSE @ - 1]]
    /\ UNCHANGED <<wipe, hits, flush>>

SemanticCacheNext ==
    \/ \E e \in Entries : StoreInsert(e) \/ StoreIndex(e) \/ StoreCommit(e) \/ StoreFails(e)
    \/ \E e \in Entries : FindExact(e) \/ FindSimilar(e) \/ RecordHit(e)
    \/ \E w \in Wipes : WipeRows(w) \/ WipeIndex(w) \/ WipeCommit(w) \/ WipeFails(w)
    \/ FlushRead \/ FlushDelete \/ FlushDeleteFails \/ FlushCommit \/ FlushFails
    \/ PurgeExpired \/ CacheTick

SemanticCacheSpec == SemanticCacheInit /\ [][SemanticCacheNext]_cacheVars

-----------------------------------------------------------------------------
(* Properties.                                                             *)

\* The type invariant.
EntryStages == {"unused", "inserted", "indexed", "stored", "lost", "withdrawn", "dropped", "purged"}

Calls == 0 .. 2 * MaxHits   \* record_hit calls for one entry

SemanticCacheTypeOK ==
    /\ entry \in [Entries -> [stage : EntryStages, left : 0 .. EntryTTL]]
    /\ redisEntry.of \in SUBSET Entries /\ Cardinality(redisEntry.of) <= 1
    /\ redisEntry.left \in 0 .. EntryTTL
    /\ wipe \in [Wipes -> [stage : {"idle", "deleted", "swept", "unswept"},
                           doomed : SUBSET Entries]]
    /\ hits \in [Entries -> [found : 0 .. MaxHits, due : Calls, recorded : Calls,
                             buffered : Calls, applied : Calls]]
    /\ flush \in [stage : {"idle", "read", "deleted"}, taken : [Entries -> Calls]]

\* An answer whose row an invalidation removed, and whose Redis sweep did not
\* fail, is not served again, by either path, whatever stores were under way:
\* invalidate_project sweeps Redis after its DELETE, and store() writes Redis
\* before the row can be seen by anybody's DELETE.
WithdrawnStaysWithdrawn ==
    \A e \in Entries : entry[e].stage = "withdrawn" => e \notin Servable

\* "Better to lose the counts than to double-apply them": however the job's
\* steps, its failures and new hits interleave, what is in an entry's row, in
\* Redis or in the job's hands was put there by as many calls of record_hit, of
\* which a hit on the similarity path makes two.
CountsNotDoubled ==
    \A e \in Entries :
      hits[e].applied + hits[e].buffered
        + (IF flush.stage = "deleted" THEN flush.taken[e] ELSE 0) <= hits[e].recorded

=============================================================================
