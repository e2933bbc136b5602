------------------------------ MODULE Billing ------------------------------
(***************************************************************************)
(* Stripe webhooks (billing/stripe_gateway.py) for one account.            *)
(*                                                                         *)
(* Stripe is the environment: it emits events about the subscription and   *)
(* delivers each one, in any order and to several handlers at once, until  *)
(* it gets a 2xx.  A handler claims the event by inserting its id, applies *)
(* it in a second transaction and deletes the claim again if that failed.  *)
(* Event types that are not handled change nothing and are left out.       *)
(***************************************************************************)
EXTENDS Integers, Sequences

CONSTANTS
    PaidPlans,     \* plans with a Stripe price
    Hooks,         \* webhook handlers at once
    MaxEvents,     \* bound on events emitted
    MaxHookFaults  \* bound on failures and crashes of handlers

ASSUME MaxEventsAssumption == MaxEvents \in Nat
ASSUME MaxHookFaultsAssumption == MaxHookFaults \in Nat
ASSUME PaidPlansAssumption == {"free", "none"} \cap PaidPlans = {}

VARIABLES
    sold,          \* Stripe's subscriptions: price now, plan named at checkout; the
                   \* customer of each is its position
    stripeEvents,  \* events emitted so far; an event's id is its position
    answered,      \* ids Stripe got a 2xx for
    claims,        \* ids in billing_events
    account,       \* the users row: linked customer, plan, status
    hook,          \* Hooks -> progress of handle_webhook
    effects,       \* history: ids -> how often the event was committed
    order,         \* history: ids in the order their effect was committed
    spoiled,       \* history: ids that met a crash, a failed release, a commit
                   \* that failed after the fact, or a duplicate in mid-air
    hookFaults     \* failures so far

stripeVars  == <<sold, stripeEvents>>
billingVars == <<sold, stripeEvents, answered, claims, account, hook, effects, order,
                 spoiled, hookFaults>>

----------------------------------------------------------------------------
Ids == 1 .. MaxEvents
Emitted(e) == e \in 1 .. Len(stripeEvents)
NoHook == [pc |-> "idle", event |-> 0]
PlanOrNone == PaidPlans \cup {"none"}

Subscription == [price : PlanOrNone, bought : PaidPlans]

StripeEvent == [kind : {"checkout", "created", "updated", "deleted", "payment_failed"},
                customer : Nat, price : PlanOrNone, meta : PlanOrNone]

BillingTypeOK ==
    /\ sold \in Seq(Subscription)
    /\ stripeEvents \in Seq(StripeEvent) /\ Len(stripeEvents) <= MaxEvents
    /\ answered \subseteq Ids
    /\ claims \subseteq Ids
    /\ account \in [customer : Nat, plan : PaidPlans \cup {"free"},
                    status : {"active", "past_due", "cancelled"}]
    /\ hook \in [Hooks -> [pc : {"idle", "claimed", "done", "failed"}, event : 0 .. MaxEvents]]
    /\ effects \in [Ids -> Nat]
    /\ order \in Seq(Ids)
    /\ spoiled \subseteq Ids
    /\ hookFaults \in 0 .. MaxHookFaults

BillingInit ==
    /\ sold = <<>>
    /\ stripeEvents = <<>>
    /\ answered = {} /\ claims = {}
    /\ account = [customer |-> 0, plan |-> "free", status |-> "active"]
    /\ hook = [h \in Hooks |-> NoHook]
    /\ effects = [e \in Ids |-> 0] /\ order = <<>> /\ spoiled = {}
    /\ hookFaults = 0

----------------------------------------------------------------------------
(* Stripe.                                                                 *)

NewEvent(kind, customer, price, meta) ==
    [kind |-> kind, customer |-> customer, price |-> price, meta |-> meta]

\* A checkout of create_checkout_session is paid, whether or not the account has
\* a subscription already: a new customer, a session whose line items are not
\* expanded, a subscription with the same metadata. An earlier one stays.
Checkout(p) ==
    /\ Len(stripeEvents) + 2 <= MaxEvents
    /\ LET c == Len(sold) + 1 IN
       /\ sold' = Append(sold, [price |-> p, bought |-> p])
       /\ stripeEvents' = stripeEvents \o <<NewEvent("checkout", c, "none", p), NewEvent("created", c, p, p)>>
    /\ UNCHANGED <<answered, claims, account, hook, effects, order, spoiled, hookFaults>>

Running(c) == c \in DOMAIN sold /\ sold[c].price # "none" /\ Len(stripeEvents) < MaxEvents

\* A subscription moves to another price; its metadata stays as it was.
ChangePrice(c, p) ==
    /\ Running(c) /\ sold[c].price # p
    /\ sold' = [sold EXCEPT ![c].price = p]
    /\ stripeEvents' = Append(stripeEvents, NewEvent("updated", c, p, sold[c].bought))
    /\ UNCHANGED <<answered, claims, account, hook, effects, order, spoiled, hookFaults>>

Cancel(c) ==
    /\ Running(c)
    /\ sold' = [sold EXCEPT ![c].price = "none"]
    /\ stripeEvents' = Append(stripeEvents, NewEvent("deleted", c, sold[c].price, sold[c].bought))
    /\ UNCHANGED <<answered, claims, account, hook, effects, order, spoiled, hookFaults>>

PaymentFails(c) ==
    /\ Running(c)
    /\ stripeEvents' = Append(stripeEvents, NewEvent("payment_failed", c, "none", "none"))
    /\ UNCHANGED <<sold, answered, claims, account, hook, effects, order, spoiled, hookFaults>>

----------------------------------------------------------------------------
(* handle_webhook.                                                         *)

\* A bug Claim could have: SELECT first, INSERT later, so that overlapping
\* deliveries all believe they are the first.
ClaimRacy(h, e) ==
    /\ Emitted(e) /\ e \notin answered
    /\ hook[h].pc = "idle"
    /\ claims' = claims \cup {e}
    /\ hook' = [hook EXCEPT ![h] = [pc |-> "claimed", event |-> e]]
    /\ UNCHANGED <<stripeVars, answered, account, effects, order, spoiled, hookFaults>>

\* INSERT ... ON CONFLICT DO NOTHING RETURNING id gives the event to one.
Claim(h, e) ==
    /\ Emitted(e) /\ e \notin answered
    /\ hook[h].pc = "idle"
    /\ e \notin claims
    /\ claims' = claims \cup {e}
    /\ hook' = [hook EXCEPT ![h] = [pc |-> "claimed", event |-> e]]
    /\ UNCHANGED <<stripeVars, answered, account, effects, order, spoiled, hookFaults>>

\* A bug Duplicate could have: an event that was claimed before is refused.
DuplicateRefused(e) ==
    /\ Emitted(e) /\ e \notin answered
    /\ e \in claims
    /\ UNCHANGED billingVars

\* A duplicate is answered 200 at once, even while the first is being applied.
Duplicate(e) ==
    /\ Emitted(e) /\ e \notin answered
    /\ e \in claims
    /\ answered' = answered \cup {e}
    /\ spoiled' = IF \E h \in Hooks : hook[h].event = e THEN spoiled \cup {e} ELSE spoiled
    /\ UNCHANGED <<stripeVars, claims, account, hook, effects, order, hookFaults>>

\* Stripe delivers e once more.
Delivery(e) == Duplicate(e) \/ \E h \in Hooks : Claim(h, e)

\* A bug PlanOf could have: only the price, which a checkout does not carry.
PlanOfPriceOnly(ev) == ev.price

\* _plan_from_object: the metadata first, then the price.
PlanOf(ev) == IF ev.meta \in PaidPlans THEN ev.meta ELSE ev.price

\* What the UPDATE of _apply leaves in the users row it matches.
Applied(ev) ==
    CASE ev.kind = "checkout" ->
           [customer |-> ev.customer, plan |-> PlanOf(ev), status |-> "active"]
      [] ev.kind \in {"created", "updated"} ->
           [account EXCEPT !.plan = PlanOf(ev), !.status = "active"]
      [] ev.kind = "deleted" -> [account EXCEPT !.plan = "free", !.status = "cancelled"]
      [] OTHER -> [account EXCEPT !.status = "past_due"]

\* A bug Matches could have: the account is looked up by the user's id in the
\* metadata, which the events of every subscription carry.
MatchesByUser(ev) == ev.kind = "checkout" \/ ev.meta \in PaidPlans

\* A checkout carries our user's id; every other event only the customer.
Matches(ev) == ev.kind = "checkout" \/ ev.customer = account.customer

Commit(e) ==
    /\ account' = IF Matches(stripeEvents[e]) THEN Applied(stripeEvents[e]) ELSE account
    /\ effects' = [effects EXCEPT ![e] = @ + 1]
    /\ order' = Append(order, e)

\* _apply commits, matching a row (APPLIED) or none (NO_MATCH).
Apply(h) ==
    /\ hook[h].pc = "claimed"
    /\ Commit(hook[h].event)
    /\ hook' = [hook EXCEPT ![h].pc = "done"]
    /\ UNCHANGED <<stripeVars, answered, claims, spoiled, hookFaults>>

\* 200, whether or not a row matched: the claim stays.
Acknowledge(h) ==
    /\ hook[h].pc = "done"
    /\ answered' = answered \cup {hook[h].event}
    /\ hook' = [hook EXCEPT ![h] = NoHook]
    /\ UNCHANGED <<stripeVars, claims, account, effects, order, spoiled, hookFaults>>

HookFault == hookFaults < MaxHookFaults /\ hookFaults' = hookFaults + 1

\* _apply raises: nothing was written, or the connection broke after the commit.
ApplyFails(h) ==
    /\ hook[h].pc = "claimed"
    /\ HookFault
    /\ \/ UNCHANGED <<account, effects, order, spoiled>>
       \/ Commit(hook[h].event) /\ spoiled' = spoiled \cup {hook[h].event}
    /\ hook' = [hook EXCEPT ![h].pc = "failed"]
    /\ UNCHANGED <<stripeVars, answered, claims>>

\* _release, then the error: Stripe will deliver again.
Release(h) ==
    /\ hook[h].pc = "failed"
    /\ claims' = claims \ {hook[h].event}
    /\ hook' = [hook EXCEPT ![h] = NoHook]
    /\ UNCHANGED <<stripeVars, answered, account, effects, order, spoiled, hookFaults>>

\* The process is lost with the event claimed, or _release fails, which is
\* logged and swallowed.
ClaimLeft(h) ==
    /\ hook[h].pc # "idle"
    /\ HookFault
    /\ spoiled' = spoiled \cup {hook[h].event}
    /\ hook' = [hook EXCEPT ![h] = NoHook]
    /\ UNCHANGED <<stripeVars, answered, claims, account, effects, order>>

HookStep(h) == Apply(h) \/ Acknowledge(h) \/ Release(h)

BillingNext ==
    \/ \E p \in PaidPlans : Checkout(p) \/ \E c \in DOMAIN sold : ChangePrice(c, p)
    \/ \E c \in DOMAIN sold : Cancel(c) \/ PaymentFails(c)
    \/ \E e \in Ids : Delivery(e)
    \/ \E h \in Hooks : HookStep(h) \/ ApplyFails(h) \/ ClaimLeft(h)

BillingSpec == BillingInit /\ [][BillingNext]_billingVars

----------------------------------------------------------------------------
(* Properties.                                                             *)

\* "Apply one verified event, exactly once": however often an event is delivered,
\* refused and retried, its effect is committed once at most, and once it is
\* answered it has been committed. Not so for an event that was answered as a
\* duplicate while it was being applied, whose handler died or could not release
\* its claim, or whose commit was reported as failed.
AppliedExactlyOnce ==
    \A e \in Ids \ spoiled : effects[e] <= 1 /\ (e \in answered => effects[e] = 1)

InOrder == order = [n \in 1 .. Len(stripeEvents) |-> n]

\* What the last subscription sold is paid for; the free plan before the first
\* and after its cancellation.
PlanPaidFor ==
    IF sold = <<>> \/ sold[Len(sold)].price = "none" THEN "free" ELSE sold[Len(sold)].price

\* Its price is not the one it was sold at.
Repriced == sold # <<>> /\ sold[Len(sold)].price \notin {sold[Len(sold)].bought, "none"}

\* Events that take effect once and in the order of their emission leave the
\* account on the plan that its last subscription pays for, or on the free one
\* when that is cancelled, whatever failed and was retried on the way and
\* whatever became of an earlier subscription. Not so while its price is not
\* the one it was sold at (PlanFollowsPrice); then it is on some paid plan.
PlanIsPaidFor ==
    InOrder => IF Repriced THEN account.plan \in PaidPlans ELSE account.plan = PlanPaidFor

\* "a queue that never drains": every event is answered 2xx in the end.
QueueDrains == \A e \in Ids : Emitted(e) ~> e \in answered

----------------------------------------------------------------------------
\* _plan_from_object: "Map a Stripe price id back to one of our plans. Falls back
\* to metadata, because a checkout session does not expand its line items": a
\* subscription that moves to another price moves the account to its plan.
PlanFollowsPrice == InOrder => account.plan = PlanPaidFor
============================================================================
