--------------------------- MODULE ProviderKeys ----------------------------
(***************************************************************************)
(* The stored key of one user for one provider (vault/provider_keys.py,    *)
(* api/routers/keys.py) and the ciphertext copy of it that the proxy keeps *)
(* in Redis (proxy/ingress.py).                                            *)
(*                                                                         *)
(* Rotation is delete, then add.  Both handlers delete the cached copy     *)
(* inside their open transaction and commit after they return.  Nothing    *)
(* but a SELECT keeps a second active key out.                             *)
(***************************************************************************)
EXTENDS Integers, FiniteSets

CONSTANTS
    KeyIds,       \* ids a stored key may get
    Forwards,     \* proxied requests and connection tests at once
    KeyHandlers,  \* control-plane handlers at once
    KeyTTL        \* PROVIDER_KEY_CACHE_TTL_SECONDS, in ticks

ASSUME KeyTTLAssumption == KeyTTL \in Nat \ {0}
ASSUME KeyHandlersAssumption == IsFiniteSet(KeyHandlers)

VARIABLES
    keyRows,      \* ids with a committed active row
    keyGone,      \* history: ids whose row was deleted
    copyLeft,     \* KeyIds -> ticks left of the cached copy (one at most is there)
    forward,      \* Forwards -> progress of a request towards its key
    keyJob,       \* KeyHandlers -> progress of add_key or delete_key
    keyQuiet      \* history: KeyIds -> ticks since a pre-deletion read was in flight

providerKeyVars == <<keyRows, keyGone, copyLeft, forward, keyJob, keyQuiet>>

----------------------------------------------------------------------------
NoForward == [pc |-> "idle"]
NoKeyJob  == [op |-> "none", pc |-> "idle", key |-> {}]

Forward == [pc : {"idle", "missed"}] \cup [pc : {"read", "calling"}, key : KeyIds]

KeyJob == [op : {"none", "add", "delete"},
           pc : {"idle", "checked", "flushed", "purged"},
           key : SUBSET KeyIds]

ProviderKeysTypeOK ==
    /\ keyRows \subseteq KeyIds
    /\ keyGone \subseteq KeyIds
    /\ copyLeft \in [KeyIds -> 0 .. KeyTTL]
    /\ forward \in [Forwards -> Forward]
    /\ keyJob \in [KeyHandlers -> KeyJob]
    /\ keyQuiet \in [KeyIds -> 0 .. KeyTTL]

ProviderKeysInit ==
    /\ keyRows = {} /\ keyGone = {}
    /\ copyLeft = [k \in KeyIds |-> 0]
    /\ forward = [r \in Forwards |-> NoForward]
    /\ keyJob = [h \in KeyHandlers |-> NoKeyJob]
    /\ keyQuiet = [k \in KeyIds |-> KeyTTL]

\* Request r read k's row and has not cached it yet.
HoldsKey(r, k) == forward[r].pc = "read" /\ forward[r].key = k

Copies(k) == copyLeft[k] > 0

Adding == {h \in KeyHandlers : keyJob[h].op = "add"}

Unused(k) == /\ k \notin keyRows \cup keyGone
             /\ \A h \in KeyHandlers : k \notin keyJob[h].key

----------------------------------------------------------------------------
(* The data plane: _load_provider_key, then the call.                      *)

\* A bug KeyHit could have: every use of the copy renews it.
KeyHitSliding(r, k) ==
    /\ forward[r].pc = "idle"
    /\ Copies(k)
    /\ forward' = [forward EXCEPT ![r] = [pc |-> "calling", key |-> k]]
    /\ copyLeft' = [copyLeft EXCEPT ![k] = KeyTTL]
    /\ UNCHANGED <<keyRows, keyGone, keyJob, keyQuiet>>

\* load_cached_provider_key finds a copy; it is decrypted and used.
KeyHit(r, k) ==
    /\ forward[r].pc = "idle"
    /\ Copies(k)
    /\ forward' = [forward EXCEPT ![r] = [pc |-> "calling", key |-> k]]
    /\ UNCHANGED <<keyRows, keyGone, copyLeft, keyJob, keyQuiet>>

\* No copy, one of an older shape, or Redis does not answer.
KeyMiss(r) ==
    /\ forward[r].pc = "idle"
    /\ forward' = [forward EXCEPT ![r] = [pc |-> "missed"]]
    /\ UNCHANGED <<keyRows, keyGone, copyLeft, keyJob, keyQuiet>>

\* The SELECT takes any active row: it has no ORDER BY.
KeyRead(r, k) ==
    /\ forward[r].pc = "missed"
    /\ k \in keyRows
    /\ forward' = [forward EXCEPT ![r] = [pc |-> "read", key |-> k]]
    /\ UNCHANGED <<keyRows, keyGone, copyLeft, keyJob, keyQuiet>>

\* cache_provider_key overwrites the one entry there is, or fails silently.
KeyStore(r) ==
    /\ forward[r].pc = "read"
    /\ forward' = [forward EXCEPT ![r].pc = "calling"]
    /\ \/ copyLeft' = [k \in KeyIds |-> IF k = forward[r].key THEN KeyTTL ELSE 0]
       \/ copyLeft' = copyLeft
    /\ UNCHANGED <<keyRows, keyGone, keyJob, keyQuiet>>

\* test_connection reads the row and calls the provider itself: its verdict is
\* about the stored key, not about the copy the proxy may still be using.
TestConnection(r, k) ==
    /\ forward[r].pc = "idle"
    /\ k \in keyRows
    /\ forward' = [forward EXCEPT ![r] = [pc |-> "calling", key |-> k]]
    /\ UNCHANGED <<keyRows, keyGone, copyLeft, keyJob, keyQuiet>>

\* The call is over, there was no key (404), the key management service or
\* Postgres failed, or the process is lost.
ForwardEnds(r) ==
    /\ forward[r].pc # "idle"
    /\ forward' = [forward EXCEPT ![r] = NoForward]
    /\ UNCHANGED <<keyRows, keyGone, copyLeft, keyJob, keyQuiet>>

----------------------------------------------------------------------------
(* The control plane: add_key, delete_key.                                 *)

\* A bug AddKeyCheck could have: no look at what is there.
AddKeyUnchecked(h, k) ==
    /\ keyJob[h].pc = "idle"
    /\ Unused(k)
    /\ keyJob' = [keyJob EXCEPT ![h] = [op |-> "add", pc |-> "checked", key |-> {k}]]
    /\ UNCHANGED <<keyRows, keyGone, copyLeft, forward, keyQuiet>>

\* add_key goes on only when it sees no active key: one is a conflict, more
\* than one (which it can come to) an error of the query.
AddKeyCheck(h, k) ==
    /\ keyJob[h].pc = "idle"
    /\ Unused(k)
    /\ keyRows = {}
    /\ keyJob' = [keyJob EXCEPT ![h] = [op |-> "add", pc |-> "checked", key |-> {k}]]
    /\ UNCHANGED <<keyRows, keyGone, copyLeft, forward, keyQuiet>>

\* Encrypted under a data key of its own, then flushed: the row is there for
\* this transaction only.
AddKeyFlush(h) ==
    /\ keyJob[h].op = "add" /\ keyJob[h].pc = "checked"
    /\ keyJob' = [keyJob EXCEPT ![h].pc = "flushed"]
    /\ UNCHANGED <<keyRows, keyGone, copyLeft, forward, keyQuiet>>

\* delete_key finds its row; the DELETE itself is sent with the commit.
DeleteKeyRead(h, k) ==
    /\ keyJob[h].pc = "idle"
    /\ k \in keyRows
    /\ keyJob' = [keyJob EXCEPT ![h] = [op |-> "delete", pc |-> "flushed", key |-> {k}]]
    /\ UNCHANGED <<keyRows, keyGone, copyLeft, forward, keyQuiet>>

\* purge_provider_key_cache, whose failure is logged and swallowed.
KeyPurge(h) ==
    /\ keyJob[h].pc = "flushed"
    /\ keyJob' = [keyJob EXCEPT ![h].pc = "purged"]
    /\ \/ copyLeft' = [k \in KeyIds |-> 0]
       \/ copyLeft' = copyLeft
    /\ UNCHANGED <<keyRows, keyGone, forward, keyQuiet>>

AddKeyCommit(h) ==
    /\ keyJob[h].op = "add" /\ keyJob[h].pc = "purged"
    /\ keyRows' = keyRows \cup keyJob[h].key
    /\ keyJob' = [keyJob EXCEPT ![h] = NoKeyJob]
    /\ UNCHANGED <<keyGone, copyLeft, forward, keyQuiet>>

\* The row may be gone already: a second DELETE of it affects nothing.
DeleteKeyCommit(h) ==
    /\ keyJob[h].op = "delete" /\ keyJob[h].pc = "purged"
    /\ keyRows' = keyRows \ keyJob[h].key
    /\ keyGone' = keyGone \cup keyJob[h].key
    /\ keyQuiet' = [k \in KeyIds |-> IF k \in keyJob[h].key \cap keyRows THEN 0 ELSE keyQuiet[k]]
    /\ keyJob' = [keyJob EXCEPT ![h] = NoKeyJob]
    /\ UNCHANGED <<copyLeft, forward>>

\* The handler fails, and its transaction is rolled back.
KeyJobFails(h) ==
    /\ keyJob[h].pc # "idle"
    /\ keyJob' = [keyJob EXCEPT ![h] = NoKeyJob]
    /\ UNCHANGED <<keyRows, keyGone, copyLeft, forward, keyQuiet>>

\* Redis expires the copy.
KeyTick ==
    /\ copyLeft' = [k \in KeyIds |-> IF copyLeft[k] = 0 THEN 0 ELSE copyLeft[k] - 1]
    /\ keyQuiet' = [k \in KeyIds |->
                      IF k \in keyGone /\ (\E r \in Forwards : HoldsKey(r, k)) THEN 0
                      ELSE IF keyQuiet[k] = KeyTTL THEN KeyTTL ELSE keyQuiet[k] + 1]
    /\ UNCHANGED <<keyRows, keyGone, forward, keyJob>>

ProviderKeysNext ==
    \/ \E r \in Forwards, k \in KeyIds : KeyHit(r, k) \/ KeyRead(r, k) \/ TestConnection(r, k)
    \/ \E r \in Forwards : KeyMiss(r) \/ KeyStore(r) \/ ForwardEnds(r)
    \/ \E h \in KeyHandlers, k \in KeyIds : AddKeyCheck(h, k) \/ DeleteKeyRead(h, k)
    \/ \E h \in KeyHandlers : \/ AddKeyFlush(h) \/ KeyPurge(h) \/ AddKeyCommit(h)
                              \/ DeleteKeyCommit(h) \/ KeyJobFails(h)
    \/ KeyTick

ProviderKeysSpec == ProviderKeysInit /\ [][ProviderKeysNext]_providerKeyVars

----------------------------------------------------------------------------
(* Properties.                                                             *)

\* "The staleness this introduces is bounded" (provider_keys.py): the copy of a
\* deleted key dies within the TTL of the last moment a request that had read
\* the row before the deletion was still on its way to cache it, although the
\* purge runs before the commit and may fail.
DeletedKeyExpires ==
    \A k \in KeyIds : (Copies(k) /\ k \in keyGone) => copyLeft[k] + keyQuiet[k] <= KeyTTL

\* As many active keys as add_key handlers ran at once, never more: the check
\* that should leave one is a SELECT that overlapping handlers all pass.
ActiveKeysBounded ==
    Cardinality(keyRows) + Cardinality(Adding) <= Cardinality(KeyHandlers)

\* "The same contract proxy-key revocation already meets" (provider_keys.py):
\* the copy is a lease in the sense of RevocationLease, rotation included.
KeyLease == INSTANCE RevocationLease WITH
              Keys    <- KeyIds,
              Holders <- Forwards,
              TTL     <- KeyTTL,
              row     <- [k \in KeyIds |-> IF k \in keyGone THEN "revoked"
                                           ELSE IF k \in keyRows THEN "live" ELSE "absent"],
              reading <- [k \in KeyIds |-> {r \in Forwards : HoldsKey(r, k)}],
              lease   <- copyLeft

CopyIsLease == KeyLease!LeaseSpec
============================================================================
