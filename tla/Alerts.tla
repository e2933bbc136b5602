------------------------------- MODULE Alerts -------------------------------
(***************************************************************************)
(* Raising alerts of one project.  The ledger drain (spend_spike) and the  *)
(* five-minute scan (usage_pattern) see an incident for as long as their   *)
(* detector says so; raise_alert claims a cooldown in Redis, files a row,  *)
(* sends a mail and marks the row.  A claim is not given back when a later *)
(* step fails.                                                             *)
(***************************************************************************)
EXTENDS Integers

CONSTANTS
    AlertTypes,      \* "spend_spike", "usage_pattern"
    Slots,           \* jobs of one type that may run at a time
    Cooldown,        \* alert_cooldown_seconds, in ticks
    MaxAlertFaults   \* model bound: steps that fail

ASSUME AlertsAssumption == Cooldown \in Nat /\ MaxAlertFaults \in Nat

VARIABLES
    incident,        \* AlertTypes -> the detector's verdict
    heard,           \* AlertTypes -> a row of this incident has been filed
    cooldown,        \* AlertTypes -> ticks left of the Redis key
    raising,         \* AlertTypes \X Slots -> where its raise_alert is
    alertFaults

alertVars == <<incident, heard, cooldown, raising, alertFaults>>

Raisers == AlertTypes \X Slots

AlertsInit ==
    /\ incident = [t \in AlertTypes |-> FALSE]
    /\ heard = [t \in AlertTypes |-> FALSE]
    /\ cooldown = [t \in AlertTypes |-> 0]
    /\ raising = [a \in Raisers |-> "idle"]
    /\ alertFaults = 0

\* What the detector says changes: a window closes far above the baseline, the
\* current bucket stops being an outlier.
IncidentTurns(t) ==
    /\ incident' = [incident EXCEPT ![t] = ~@]
    /\ heard' = [heard EXCEPT ![t] = FALSE]
    /\ UNCHANGED <<cooldown, raising, alertFaults>>

\* A fault at this step: at most MaxAlertFaults of them.
AlertFault == alertFaults < MaxAlertFaults /\ alertFaults' = alertFaults + 1

\* cooldown_key(project, type).
CooldownKey(t) == t

\* A bug ClaimCooldown could have: one cooldown for the whole project.
ClaimShared(a) ==
    /\ raising[a] = "idle" /\ incident[a[1]]
    /\ \A t \in AlertTypes : cooldown[t] = 0
    /\ cooldown' = [cooldown EXCEPT ![a[1]] = Cooldown]
    /\ raising' = [raising EXCEPT ![a] = "claimed"]
    /\ UNCHANGED <<incident, heard, alertFaults>>

\* The detector fires and SET NX EX wins; while the key lives it is suppressed.
ClaimCooldown(a) ==
    /\ raising[a] = "idle" /\ incident[a[1]]
    /\ cooldown[CooldownKey(a[1])] = 0
    /\ cooldown' = [cooldown EXCEPT ![CooldownKey(a[1])] = Cooldown]
    /\ raising' = [raising EXCEPT ![a] = "claimed"]
    /\ UNCHANGED <<incident, heard, alertFaults>>

\* Redis does not answer: the alert is raised all the same.
ClaimBlind(a) ==
    /\ raising[a] = "idle" /\ incident[a[1]] /\ AlertFault
    /\ raising' = [raising EXCEPT ![a] = "claimed"]
    /\ UNCHANGED <<incident, heard, cooldown>>

PersistAlert(a) ==
    /\ raising[a] = "claimed"
    /\ raising' = [raising EXCEPT ![a] = "filed"]
    /\ heard' = [heard EXCEPT ![a[1]] = TRUE]
    /\ UNCHANGED <<incident, cooldown, alertFaults>>

\* The mail is sent, or it is not (nothing sends it later); then the row is
\* marked, or that fails. The user's list holds the row either way.
SendAlert(a) ==
    /\ raising[a] = "filed"
    /\ raising' = [raising EXCEPT ![a] = "idle"]
    /\ UNCHANGED <<incident, heard, cooldown, alertFaults>>

\* The row cannot be written, or the worker dies, between any two steps: the
\* cooldown stays claimed.
RaiseFails(a) ==
    /\ raising[a] # "idle" /\ AlertFault
    /\ raising' = [raising EXCEPT ![a] = "idle"]
    /\ UNCHANGED <<incident, heard, cooldown>>

AlertTick ==
    /\ \E t \in AlertTypes : cooldown[t] > 0
    /\ cooldown' = [t \in AlertTypes |-> IF cooldown[t] = 0 THEN 0 ELSE cooldown[t] - 1]
    /\ UNCHANGED <<incident, heard, raising, alertFaults>>

AlertsNext ==
    \/ \E t \in AlertTypes : IncidentTurns(t)
    \/ \E a \in Raisers : ClaimCooldown(a) \/ ClaimBlind(a) \/ PersistAlert(a) \/ SendAlert(a)
                          \/ RaiseFails(a)
    \/ AlertTick

-----------------------------------------------------------------------------
(* Properties.                                                             *)

\* The type invariant.
AlertsTypeOK ==
    /\ incident \in [AlertTypes -> BOOLEAN] /\ heard \in [AlertTypes -> BOOLEAN]
    /\ cooldown \in [AlertTypes -> 0 .. Cooldown]
    /\ raising \in [Raisers -> {"idle", "claimed", "filed"}]
    /\ alertFaults \in 0 .. MaxAlertFaults

\* An incident that lasts is filed: neither an attempt that dies with the
\* cooldown in its hands, nor the cooldown of an alert of the other type, nor
\* that of an earlier incident keeps the user from ever hearing of it ("a user
\* never hearing that their key leaked is the failure this module exists to
\* prevent").
IncidentIsHeard ==
    \A t \in AlertTypes : (incident[t] /\ ~heard[t]) ~> (heard[t] \/ ~incident[t])
=============================================================================
