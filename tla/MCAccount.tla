----------------------------- MODULE MCAccount -----------------------------
(***************************************************************************)
(* What is counted for an account, where only safety is asked: the spend   *)
(* its budgets let through, the ledger rows and the baseline folded from   *)
(* them, the plan it pays for, the hits of its cached answers.  The parts  *)
(* share no state, so the interleavings of one with another show nothing:  *)
(* `focus', chosen once, says whose steps are taken, and the states        *)
(* checked are the sum of the parts' and not their product.                *)
(***************************************************************************)
EXTENDS Budget, LedgerDrain, Billing, SemanticCache

\* Two periods: the day, and a week two days long.
TwoPeriods == [daily |-> [t \in 0 .. MaxDay |-> t], weekly |-> [t \in 0 .. MaxDay |-> t \div 2]]

\* A daily hard stop, a laxer and a stricter weekly budget.
MixedBudgets ==
    {[period |-> "daily", limit |-> 1, action |-> "hard_stop"],
     [period |-> "daily", limit |-> 1, action |-> "alert_only"],
     [period |-> "weekly", limit |-> 3, action |-> "hard_stop"],
     [period |-> "weekly", limit |-> 1, action |-> "soft_throttle"]}

VARIABLE focus

accountVars == <<budgetVars, ledgerVars, billingVars, cacheVars, focus>>

\* The type invariants of the parts.
AccountTypeOK == BudgetTypeOK /\ LedgerTypeOK /\ BillingTypeOK /\ SemanticCacheTypeOK

\* A part out of focus starts in one state only.
AccountInit ==
    /\ BudgetInit /\ LedgerInit /\ BillingInit /\ SemanticCacheInit
    /\ focus \in {"budget", "ledger", "billing", "cache"}
    /\ focus # "budget" => defs = {}

BudgetStep == focus = "budget" /\ BudgetNext /\ UNCHANGED <<ledgerVars, billingVars, cacheVars>>
LedgerStep == focus = "ledger" /\ LedgerNext /\ UNCHANGED <<budgetVars, billingVars, cacheVars>>
BillingStep == focus = "billing" /\ BillingNext /\ UNCHANGED <<budgetVars, ledgerVars, cacheVars>>
CacheStep == focus = "cache" /\ SemanticCacheNext /\ UNCHANGED <<budgetVars, ledgerVars, billingVars>>

AccountNext == (BudgetStep \/ LedgerStep \/ BillingStep \/ CacheStep) /\ UNCHANGED focus

AccountSpec == AccountInit /\ [][AccountNext]_accountVars
============================================================================
