-------------------------- MODULE RevocationLease --------------------------
(***************************************************************************)
(* What the proxy's two credential caches (resolved proxy keys, encrypted  *)
(* provider keys) promise about revocation, without their mechanism: a     *)
(* cached entry is a lease.  Only somebody who saw the key live can write  *)
(* a lease, a lease lasts TTL ticks and is not renewed by use, and anybody *)
(* may withdraw it sooner.  No message between the control plane and the   *)
(* data plane, and no successful purge, is part of the promise.            *)
(***************************************************************************)
EXTENDS Integers

CONSTANTS
    Keys,      \* what is revoked
    Holders,   \* who may be holding a read of a key
    TTL        \* how long a lease lasts

VARIABLES
    row,       \* Keys -> the truth
    reading,   \* Keys -> holders that saw the key live and have not finished
    lease      \* Keys -> ticks the lease has left (0: none)

leaseVars == <<row, reading, lease>>

LeaseInit ==
    /\ row \in [Keys -> {"absent", "live"}]
    /\ reading = [k \in Keys |-> {}]
    /\ lease = [k \in Keys |-> 0]

\* A key comes into being.
Grant(k) ==
    /\ row[k] = "absent"
    /\ row' = [row EXCEPT ![k] = "live"]
    /\ UNCHANGED <<reading, lease>>

\* Some live keys are revoked, for ever.
Revoke(ks) ==
    /\ \A k \in ks : row[k] = "live"
    /\ row' = [k \in Keys |-> IF k \in ks THEN "revoked" ELSE row[k]]
    /\ UNCHANGED <<reading, lease>>

\* h sees that k is live.
See(h, k) ==
    /\ row[k] = "live"
    /\ reading' = [reading EXCEPT ![k] = reading[k] \cup {h}]
    /\ UNCHANGED <<row, lease>>

\* h writes the lease of what it saw, however long ago that was; leases that
\* share its place are overwritten.
Write(h, k) ==
    /\ h \in reading[k]
    /\ reading' = [reading EXCEPT ![k] = reading[k] \ {h}]
    /\ \E ks \in SUBSET (Keys \ {k}) :
         lease' = [j \in Keys |-> IF j = k THEN TTL
                                 ELSE IF j \in ks THEN 0 ELSE lease[j]]
    /\ UNCHANGED row

\* h is done with what it saw.
Finish(h) ==
    /\ reading' = [k \in Keys |-> reading[k] \ {h}]
    /\ UNCHANGED <<row, lease>>

\* Leases are withdrawn early.
Withdraw(ks) ==
    /\ lease' = [k \in Keys |-> IF k \in ks THEN 0 ELSE lease[k]]
    /\ UNCHANGED <<row, reading>>

\* Time passes.
Age ==
    /\ lease' = [k \in Keys |-> IF lease[k] = 0 THEN 0 ELSE lease[k] - 1]
    /\ UNCHANGED <<row, reading>>

LeaseNext ==
    \/ \E k \in Keys : Grant(k)
    \/ \E ks \in SUBSET Keys : Revoke(ks) \/ Withdraw(ks)
    \/ \E h \in Holders, k \in Keys : See(h, k) \/ Write(h, k)
    \/ \E h \in Holders : Finish(h)
    \/ Age

LeaseSpec == LeaseInit /\ [][LeaseNext]_leaseVars
============================================================================
