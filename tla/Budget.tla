------------------------------- MODULE Budget -------------------------------
(***************************************************************************)
(* Budget enforcement on the proxy's hot path (budgets/enforcement.py and  *)
(* the steps of proxy/pipeline.py around it).  A request resolves its key, *)
(* and with it a possibly cached copy of the project's budgets; it checks  *)
(* them against the Redis spend counters; it is served; and only then does *)
(* it add its cost to the counters.  Nothing is held from the check to the *)
(* recording, so requests of one project overlap there.                    *)
(*                                                                         *)
(* One project.  A budget is a record [period, limit, action]; the         *)
(* database allows one per period.  Amounts are whole units of money, time *)
(* is the day it is, and period_bucket is a calendar: which instance of a  *)
(* period a day falls in.                                                  *)
(***************************************************************************)
EXTENDS Integers, FiniteSets

CONSTANTS
    Connections, \* connections of the project's clients, one request at a time
    Budgets,     \* every budget the user may set
    Calendar,    \* period -> day -> the instance of the period it falls in
    MaxCost,     \* most one request can cost
    MaxSpend,    \* bound: nothing more is bought once this much is ledgered
    MaxDay,      \* bound on time
    MaxEdits,    \* bound on changes to the budgets
    MaxFaults    \* bound on failed Redis calls and crashes

Periods == DOMAIN Calendar
Buckets == 0 .. MaxDay

ASSUME ConnectionsAssumption == IsFiniteSet(Connections)
ASSUME CalendarAssumption ==
    /\ Calendar \in [Periods -> [0 .. MaxDay -> Buckets]]
    /\ \A p \in Periods, s, t \in 0 .. MaxDay : s <= t => Calendar[p][s] <= Calendar[p][t]
ASSUME BudgetsAssumption ==
    Budgets \subseteq [period : Periods, limit : Nat \ {0},
                       action : {"alert_only", "soft_throttle", "hard_stop"}]
ASSUME BudgetBoundsAssumption ==
    MaxCost \in Nat /\ MaxSpend \in Nat /\ MaxDay \in Nat /\ MaxEdits \in Nat /\ MaxFaults \in Nat

VARIABLES
    today,       \* the day it is (UTC)
    counter,     \* period -> bucket -> spend counted in Redis
    defs,        \* the project's active budgets, in the database
    cached,      \* the budgets in its cached key resolution
    conn,        \* Connections -> where the request is
    ledgered,    \* history: what the ledger says the project spent
    edits,       \* changes to the budgets so far
    faults       \* failures so far

budgetVars == <<today, counter, defs, cached, conn, ledgered, edits, faults>>

----------------------------------------------------------------------------
\* uq: one budget per project and period.
Settings == {D \in SUBSET Budgets : \A b, c \in D : b.period = c.period => b = c}

BudgetTypeOK ==
    /\ today \in 0 .. MaxDay
    /\ counter \in [Periods -> [Buckets -> Nat]]
    /\ defs \in Settings
    /\ cached \in Settings
    /\ conn \in [Connections -> [pc : {"idle", "resolved", "admitted", "served", "ledgered"},
                                 budgets : Settings, cost : 0 .. MaxCost]]
    /\ ledgered \in Nat
    /\ edits \in 0 .. MaxEdits
    /\ faults \in 0 .. MaxFaults

NoRequest == [pc |-> "idle", budgets |-> {}, cost |-> 0]

BudgetInit ==
    /\ today = 0
    /\ counter = [p \in Periods |-> [k \in Buckets |-> 0]]
    /\ defs \in Settings /\ cached = defs
    /\ conn = [r \in Connections |-> NoRequest]
    /\ ledgered = 0 /\ edits = 0 /\ faults = 0

Fault == faults < MaxFaults /\ faults' = faults + 1

\* period_bucket: the instance of period p that holds today.
Bucket(p) == Calendar[p][today]

Spent(b) == counter[b.period][Bucket(b.period)]

Exhausted(b) == Spent(b) >= b.limit

----------------------------------------------------------------------------
(* The verdict.                                                            *)

Order == [alert_only |-> 0, soft_throttle |-> 1, hard_stop |-> 2]

\* _verdict_for and _severity: how restrictive one budget is now.
Severity(b) == IF Exhausted(b) THEN Order[b.action] ELSE 0

\* A bug Blocked could have: judge by the budget furthest over.
BlockedByFurthest(D) ==
    \E b \in D : /\ Severity(b) = 2
                 /\ \A c \in D : Spent(c) * b.limit <= Spent(b) * c.limit

\* check_budgets takes the most restrictive verdict of them all.
Blocked(D) == \E b \in D : Severity(b) = 2 /\ \A c \in D : Severity(c) <= Severity(b)

HardStops(D) == {b \in D : b.action = "hard_stop"}

----------------------------------------------------------------------------
(* One request.                                                            *)

\* The key resolves from the auth cache, or from the database.
Resolve(r) ==
    /\ conn[r].pc = "idle"
    /\ \E D \in {cached, defs} :
         /\ cached' = D
         /\ conn' = [conn EXCEPT ![r] = [NoRequest EXCEPT !.pc = "resolved", !.budgets = D]]
    /\ UNCHANGED <<today, counter, defs, ledgered, edits, faults>>

\* A bug Check could have: a hard stop with spend left in any period admits.
CheckAnyLeft(r) ==
    /\ conn[r].pc = "resolved"
    /\ LET D == conn[r].budgets IN
         conn' = [conn EXCEPT ![r] = IF HardStops(D) # {} /\ \A b \in D : Severity(b) = 2
                                     THEN NoRequest
                                   ELSE [conn[r] EXCEPT !.pc = "admitted"]]
    /\ UNCHANGED <<today, counter, defs, cached, ledgered, edits, faults>>

\* MGET of the counters: a blocked request ends with a 402.
Check(r) ==
    /\ conn[r].pc = "resolved"
    /\ conn' = [conn EXCEPT ![r] = IF Blocked(conn[r].budgets) THEN NoRequest
                                   ELSE [conn[r] EXCEPT !.pc = "admitted"]]
    /\ UNCHANGED <<today, counter, defs, cached, ledgered, edits, faults>>

\* _unreadable: MGET fails; only a project with a hard stop is refused.
CheckUnreadable(r) ==
    /\ conn[r].pc = "resolved"
    /\ conn[r].budgets # {}
    /\ Fault
    /\ conn' = [conn EXCEPT ![r] = IF HardStops(conn[r].budgets) # {} THEN NoRequest
                                   ELSE [conn[r] EXCEPT !.pc = "admitted"]]
    /\ UNCHANGED <<today, counter, defs, cached, ledgered, edits>>

\* The provider answers and the request costs what it costs.  A throttled
\* request is forced onto a cheaper model when there is one: no less than 1.
Serve(r) ==
    /\ conn[r].pc = "admitted"
    /\ ledgered < MaxSpend
    /\ \E c \in 1 .. MaxCost :
         conn' = [conn EXCEPT ![r] = [@ EXCEPT !.pc = "served", !.cost = c]]
    /\ UNCHANGED <<today, counter, defs, cached, ledgered, edits, faults>>

\* Nothing to count: a cache hit, a provider error, no provider to be reached,
\* or a model without a price.
ServeFree(r) ==
    /\ conn[r].pc = "admitted"
    /\ conn' = [conn EXCEPT ![r] = NoRequest]
    /\ UNCHANGED <<today, counter, defs, cached, ledgered, edits, faults>>

\* _record, first half: the ledger event, dropped if Redis fails.
Ledger(r) ==
    /\ conn[r].pc = "served"
    /\ \/ /\ ledgered' = ledgered + conn[r].cost
          /\ UNCHANGED faults
       \/ /\ UNCHANGED ledgered
          /\ Fault
    /\ conn' = [conn EXCEPT ![r].pc = "ledgered"]
    /\ UNCHANGED <<today, counter, defs, cached, edits>>

\* A bug RecordSpend could have: only one of the periods is counted.
RecordOnce(r) ==
    /\ conn[r].pc = "ledgered"
    /\ \E b \in conn[r].budgets :
         counter' = [counter EXCEPT ![b.period][Bucket(b.period)] = @ + conn[r].cost]
    /\ conn' = [conn EXCEPT ![r] = NoRequest]
    /\ UNCHANGED <<today, defs, cached, ledgered, edits, faults>>

\* _record, second half: record_spend adds the cost to the current bucket of
\* every period the request resolved with, in one transaction.
RecordSpend(r) ==
    /\ conn[r].pc = "ledgered"
    /\ counter' = [p \in Periods |->
         IF \E b \in conn[r].budgets : b.period = p
         THEN [counter[p] EXCEPT ![Bucket(p)] = @ + conn[r].cost]
         ELSE counter[p]]
    /\ conn' = [conn EXCEPT ![r] = NoRequest]
    /\ UNCHANGED <<today, defs, cached, ledgered, edits, faults>>

\* record_spend swallows a failed write; or the proxy dies first.
RecordLost(r) ==
    /\ conn[r].pc \in {"served", "ledgered"}
    /\ Fault
    /\ conn' = [conn EXCEPT ![r] = NoRequest]
    /\ UNCHANGED <<today, counter, defs, cached, ledgered, edits>>

----------------------------------------------------------------------------
\* The user creates, changes or deletes a budget.
EditBudgets ==
    /\ edits < MaxEdits
    /\ defs' \in Settings \ {defs}
    /\ edits' = edits + 1
    /\ UNCHANGED <<today, counter, cached, conn, ledgered, faults>>

Midnight ==
    /\ today < MaxDay
    /\ today' = today + 1
    /\ UNCHANGED <<counter, defs, cached, conn, ledgered, edits, faults>>

Step(r) ==
    \/ Check(r)
    \/ CheckUnreadable(r)
    \/ Serve(r)
    \/ ServeFree(r)
    \/ Ledger(r)
    \/ RecordSpend(r)
    \/ RecordLost(r)

BudgetNext ==
    \/ \E r \in Connections : Resolve(r) \/ Step(r)
    \/ EditBudgets
    \/ Midnight

BudgetSpec == BudgetInit /\ [][BudgetNext]_budgetVars

----------------------------------------------------------------------------
(* Properties.                                                             *)

\* No hard stop a request carries is masked: not by a laxer budget of another
\* period, and not by counters that cannot be read.  It is admitted only when
\* every one of its hard stops has something left.
HardStopIsNeverMasked ==
    [][\A r \in Connections :
         conn[r].pc = "resolved" /\ conn'[r].pc = "admitted" =>
             \A b \in HardStops(conn[r].budgets) : ~Exhausted(b)]_budgetVars

\* While the budgets do not change, a hard stop is overshot by at most one
\* request per client connection: those already past the check when the
\* counter crossed the limit.  It holds in every period instance, through
\* midnights, unreadable counters and lost increments.
BoundedOvershoot ==
    edits = 0 =>
        \A b \in HardStops(defs), k \in Buckets :
            counter[b.period][k] <= b.limit - 1 + MaxCost * Cardinality(Connections)

\* What was counted for period p, over all its instances.
Counted(p) ==
    LET sum[k \in -1 .. MaxDay] == IF k = -1 THEN 0 ELSE counter[p][k] + sum[k - 1]
    IN  sum[MaxDay]

\* Whatever overlaps, no increment is lost but by a fault: at rest every
\* counter of a budget that was always there adds up to the ledger.
CountersAddUp ==
    (edits = 0 /\ faults = 0 /\ \A r \in Connections : conn[r].pc = "idle") =>
        \A b \in defs : Counted(b.period) = ledgered
=============================================================================
