-------------------------- MODULE ControlPlaneProofs ------------------------
(***************************************************************************)
(* Theorems about the control plane: refresh tokens, billing webhooks and  *)
(* stored provider keys, for any number of requests, handlers, tokens,     *)
(* events, keys and failures.  Each part is proved from its own            *)
(* specification; the last section puts them together.                     *)
(***************************************************************************)
EXTENDS MCControlPlane, FiniteSetTheorems, SequenceTheorems, TLAPS

----------------------------------------------------------------------------
(* Billing: events take effect once.                                       *)

\* h has event e in hand.
Handling(h, e) == hook[h].pc # "idle" /\ hook[h].event = e

\* What is committed of an event, told from where it is: nothing before the
\* claim, nothing while it is in the hand of its one handler and not applied,
\* once ever after.
Accounted(e) ==
    /\ e \notin claims => effects[e] = 0 /\ e \notin answered
    /\ e \in claims /\ (\A h \in Hooks : ~Handling(h, e)) => effects[e] = 1
    /\ e \in answered => effects[e] = 1
    /\ \A h \in Hooks : Handling(h, e) =>
         /\ e \in claims
         /\ hook[h].pc = "done" => effects[e] = 1
         /\ hook[h].pc \in {"claimed", "failed"} => effects[e] = 0
         /\ \A i \in Hooks : Handling(i, e) => i = h

\* The parts of the type that the argument uses.
HookShape ==
    /\ hook \in [Hooks -> [pc : {"idle", "claimed", "done", "failed"}, event : 0 .. MaxEvents]]
    /\ \A h \in Hooks : hook[h].pc = "idle" <=> hook[h].event = 0
    /\ effects \in [Ids -> Nat]

BillingInv == HookShape /\ \A e \in Ids \ spoiled : Accounted(e)

----------------------------------------------------------------------------
LEMMA BillingInvInit == BillingInit => BillingInv
  BY MaxEventsAssumption DEF BillingInit, BillingInv, HookShape, Accounted, Handling, NoHook, Ids

\* One handler's move that concerns event e0 leaves every other event alone.
LEMMA OthersAccounted ==
    ASSUME BillingInv, NEW e \in Ids \ spoiled, NEW h \in Hooks, NEW e0, e # e0,
           \A g \in Hooks : g # h => hook'[g] = hook[g],
           ~Handling(h, e), ~Handling(h, e)',
           claims' = claims \/ claims' = claims \cup {e0} \/ claims' = claims \ {e0},
           answered' = answered \/ answered' = answered \cup {e0},
           effects'[e] = effects[e]
    PROVE  Accounted(e)'
  <1>1. \A g \in Hooks : Handling(g, e)' <=> Handling(g, e)
    BY DEF Handling
  <1>2. \A g \in Hooks : Handling(g, e) => hook'[g] = hook[g]
    OBVIOUS
  <1>3. (e \in claims' <=> e \in claims) /\ (e \in answered' <=> e \in answered)
    OBVIOUS
  <1>4. Accounted(e)
    BY DEF BillingInv
  <1>5. QED BY <1>1, <1>2, <1>3, <1>4 DEF Accounted

LEMMA ClaimInv ==
    ASSUME BillingInv, NEW h \in Hooks, NEW e \in Ids, Claim(h, e)
    PROVE  BillingInv'
  <1>1. /\ hook'[h] = [pc |-> "claimed", event |-> e]
        /\ \A g \in Hooks : g # h => hook'[g] = hook[g]
    BY DEF Claim, BillingInv, HookShape
  <1>2. /\ claims' = claims \cup {e} /\ e \notin claims /\ answered' = answered /\ e \notin answered
        /\ effects' = effects /\ spoiled' = spoiled /\ hook[h].pc = "idle"
    BY DEF Claim
  <1>3. HookShape'
    <2>1. e \in 0 .. MaxEvents /\ e # 0
      BY MaxEventsAssumption DEF Ids
    <2>2. hook' \in [Hooks -> [pc : {"idle", "claimed", "done", "failed"}, event : 0 .. MaxEvents]]
      BY <2>1 DEF Claim, BillingInv, HookShape
    <2>3. QED BY <1>1, <1>2, <2>1, <2>2 DEF BillingInv, HookShape
  <1>4. ASSUME NEW d \in Ids \ spoiled PROVE Accounted(d)'
    <2>1. CASE d = e
      <3>1. Accounted(e)
        BY <2>1 DEF BillingInv
      <3>2. effects[e] = 0 /\ \A g \in Hooks : ~Handling(g, e)
        BY <1>2, <3>1 DEF Accounted
      <3>3. \A g \in Hooks : Handling(g, e)' <=> g = h
        BY <1>1, <3>2 DEF Handling
      <3>4. QED BY <1>1, <1>2, <2>1, <3>2, <3>3 DEF Accounted
    <2>2. CASE d # e
      <3>1. ~Handling(h, d) /\ ~Handling(h, d)'
        BY <1>1, <1>2, <2>2 DEF Handling
      <3>2. QED BY <1>1, <1>2, <2>2, <3>1, OthersAccounted
    <2>3. QED BY <2>1, <2>2
  <1>5. QED BY <1>2, <1>3, <1>4 DEF BillingInv

LEMMA DuplicateInv ==
    ASSUME BillingInv, NEW e \in Ids, Duplicate(e)
    PROVE  BillingInv'
  <1>1. /\ hook' = hook /\ claims' = claims /\ effects' = effects /\ e \in claims
        /\ answered' = answered \cup {e} /\ spoiled \subseteq spoiled'
        /\ (\E h \in Hooks : hook[h].event = e) => e \in spoiled'
    BY DEF Duplicate
  <1>2. ASSUME NEW d \in Ids \ spoiled' PROVE Accounted(d)'
    <2>1. Accounted(d)
      BY <1>1 DEF BillingInv
    <2>2. \A g \in Hooks : Handling(g, d)' <=> Handling(g, d)
      BY <1>1 DEF Handling
    <2>3. d = e => effects[d] = 1
      BY <1>1, <2>1 DEF Accounted, Handling
    <2>4. QED BY <1>1, <2>1, <2>2, <2>3 DEF Accounted
  <1>3. QED BY <1>1, <1>2 DEF BillingInv, HookShape

\* What a handler does to the event it has in hand.
LEMMA HandlerInv ==
    ASSUME BillingInv, NEW h \in Hooks,
           HookStep(h) \/ ApplyFails(h) \/ ClaimLeft(h)
    PROVE  BillingInv'
  <1>z. PICK e \in 0 .. MaxEvents : e = hook[h].event
    BY DEF BillingInv, HookShape
  <1>0. e \in Ids /\ Handling(h, e)
    <2>1. hook[h].pc # "idle"
      BY DEF HookStep, Apply, Acknowledge, Release, ApplyFails, ClaimLeft
    <2>2. e # 0
      BY <1>z, <2>1 DEF BillingInv, HookShape
    <2>3. QED BY <1>z, <2>1, <2>2, MaxEventsAssumption DEF Ids, Handling
  <1>1. \A g \in Hooks : g # h => hook'[g] = hook[g]
    BY DEF HookStep, Apply, Acknowledge, Release, ApplyFails, ClaimLeft, BillingInv, HookShape
  <1>2. hook'[h] = NoHook \/ (hook'[h].pc \in {"done", "failed"} /\ hook'[h].event = e)
    BY <1>z DEF HookStep, Apply, Acknowledge, Release, ApplyFails, ClaimLeft, BillingInv, HookShape
  <1>3. HookShape'
    <2>1. hook' \in [Hooks -> [pc : {"idle", "claimed", "done", "failed"}, event : 0 .. MaxEvents]]
      BY MaxEventsAssumption
         DEF HookStep, Apply, Acknowledge, Release, ApplyFails, ClaimLeft, BillingInv, HookShape, NoHook
    <2>2. effects' \in [Ids -> Nat]
      BY <1>z, <1>0 DEF HookStep, Apply, Acknowledge, Release, ApplyFails, ClaimLeft, Commit, BillingInv, HookShape
    <2>3. \A g \in Hooks : hook'[g].pc = "idle" <=> hook'[g].event = 0
      <3>1. \A g \in Hooks : g # h => (hook'[g].pc = "idle" <=> hook'[g].event = 0)
        BY <1>1 DEF BillingInv, HookShape
      <3>2. hook'[h].pc = "idle" <=> hook'[h].event = 0
        BY <1>0, <1>2 DEF NoHook, Ids
      <3>3. QED BY <3>1, <3>2
    <2>4. QED BY <2>1, <2>2, <2>3 DEF HookShape
  <1>4. /\ spoiled \subseteq spoiled'
        /\ \A d \in Ids : d # e => effects'[d] = effects[d]
        /\ claims' = claims \/ claims' = claims \cup {e} \/ claims' = claims \ {e}
        /\ answered' = answered \/ answered' = answered \cup {e}
    <2>1. CASE Apply(h)
      BY <1>z, <2>1 DEF Apply, Commit, BillingInv, HookShape
    <2>2. CASE Acknowledge(h)
      BY <1>z, <2>2 DEF Acknowledge
    <2>3. CASE Release(h)
      BY <1>z, <2>3 DEF Release
    <2>4. CASE ApplyFails(h)
      BY <1>z, <2>4 DEF ApplyFails, Commit, BillingInv, HookShape
    <2>5. CASE ClaimLeft(h)
      BY <1>z, <2>5 DEF ClaimLeft
    <2>6. QED BY <2>1, <2>2, <2>3, <2>4, <2>5 DEF HookStep
  <1>5. ASSUME NEW d \in Ids \ spoiled', d # e PROVE Accounted(d)'
    <2>1. ~Handling(h, d) /\ ~Handling(h, d)'
      BY <1>z, <1>0, <1>2, <1>5 DEF Handling, NoHook
    <2>2. d \in Ids \ spoiled
      BY <1>4
    <2>3. QED BY <1>1, <1>4, <1>5, <2>1, <2>2, OthersAccounted
  <1>6. ASSUME e \notin spoiled' PROVE Accounted(e)'
    <2>1. Accounted(e)
      BY <1>0, <1>4, <1>6 DEF BillingInv
    <2>2. /\ e \in claims
          /\ \A g \in Hooks : Handling(g, e) => g = h
          /\ hook[h].pc = "done" => effects[e] = 1
          /\ hook[h].pc \in {"claimed", "failed"} => effects[e] = 0 /\ e \notin answered
      BY <1>0, <2>1 DEF Accounted
    <2>3. \A g \in Hooks : g # h => ~Handling(g, e)'
      BY <1>1, <2>2 DEF Handling
    <2>4. CASE Apply(h)
      <3>1. /\ hook[h].pc = "claimed" /\ hook'[h].pc = "done" /\ hook'[h].event = e
            /\ effects'[e] = effects[e] + 1 /\ claims' = claims /\ answered' = answered
        BY <1>z, <1>0, <2>4 DEF Apply, Commit, BillingInv, HookShape
      <3>2. effects'[e] = 1 /\ e \notin answered'
        BY <2>2, <3>1
      <3>3. Handling(h, e)'
        BY <3>1 DEF Handling
      <3>4. QED BY <2>2, <2>3, <3>1, <3>2, <3>3 DEF Accounted
    <2>5. CASE Acknowledge(h)
      <3>1. /\ hook[h].pc = "done" /\ hook'[h] = NoHook /\ effects' = effects
            /\ claims' = claims
        BY <1>z, <2>5 DEF Acknowledge, BillingInv, HookShape
      <3>2. ~Handling(h, e)'
        BY <3>1 DEF Handling, NoHook
      <3>3. QED BY <2>2, <2>3, <3>1, <3>2 DEF Accounted
    <2>6. CASE Release(h)
      <3>1. /\ hook[h].pc = "failed" /\ hook'[h] = NoHook /\ effects' = effects
            /\ claims' = claims \ {e} /\ answered' = answered
        BY <1>z, <2>6 DEF Release, BillingInv, HookShape
      <3>2. ~Handling(h, e)'
        BY <3>1 DEF Handling, NoHook
      <3>3. QED BY <2>2, <2>3, <3>1, <3>2 DEF Accounted
    <2>7. CASE ApplyFails(h)
      <3>1. /\ hook[h].pc = "claimed" /\ hook'[h].pc = "failed" /\ hook'[h].event = e
            /\ effects' = effects /\ claims' = claims /\ answered' = answered
        BY <1>z, <1>6, <2>7 DEF ApplyFails, BillingInv, HookShape
      <3>2. Handling(h, e)'
        BY <3>1 DEF Handling
      <3>3. QED BY <2>2, <2>3, <3>1, <3>2 DEF Accounted
    <2>8. CASE ClaimLeft(h)
      BY <1>z, <1>6, <2>8 DEF ClaimLeft
    <2>9. QED BY <2>4, <2>5, <2>6, <2>7, <2>8 DEF HookStep
  <1>7. QED BY <1>3, <1>5, <1>6 DEF BillingInv

\* Steps of Stripe, and steps outside billing.
LEMMA StripeInv ==
    ASSUME BillingInv, UNCHANGED <<answered, claims, hook, effects, spoiled>>
    PROVE  BillingInv'
  <1>1. \A e \in Ids, h \in Hooks : Handling(h, e)' <=> Handling(h, e)
    BY DEF Handling
  <1>2. QED BY <1>1 DEF BillingInv, HookShape, Accounted

LEMMA BillingInvHolds == BillingSpec => []BillingInv
<1>1. BillingInv /\ [BillingNext]_billingVars => BillingInv'
  <2> SUFFICES ASSUME BillingInv, [BillingNext]_billingVars PROVE BillingInv'
    OBVIOUS
  <2>1. CASE \E p \in PaidPlans : Checkout(p) \/ \E c \in DOMAIN sold : ChangePrice(c, p)
    BY <2>1, StripeInv DEF Checkout, ChangePrice
  <2>2. CASE \E c \in DOMAIN sold : Cancel(c) \/ PaymentFails(c)
    BY <2>2, StripeInv DEF Cancel, PaymentFails
  <2>3. CASE \E e \in Ids : Delivery(e)
    BY <2>3, ClaimInv, DuplicateInv DEF Delivery
  <2>4. CASE \E h \in Hooks : HookStep(h) \/ ApplyFails(h) \/ ClaimLeft(h)
    BY <2>4, HandlerInv
  <2>5. CASE UNCHANGED billingVars
    BY <2>5, StripeInv DEF billingVars
  <2>6. QED BY <2>1, <2>2, <2>3, <2>4, <2>5 DEF BillingNext
<1>2. QED BY <1>1, BillingInvInit, PTL DEF BillingSpec

\* Delivered, refused and retried however often, by however many handlers, an
\* event that met none of the faults that spoil it is committed once.
THEOREM EventsApplyOnce == BillingSpec => []AppliedExactlyOnce
<1>1. BillingInv => AppliedExactlyOnce
  <2> SUFFICES ASSUME BillingInv, NEW e \in Ids \ spoiled
               PROVE  effects[e] <= 1 /\ (e \in answered => effects[e] = 1)
    BY DEF AppliedExactlyOnce
  <2>1. Accounted(e)
    BY DEF BillingInv
  <2>2. effects[e] \in {0, 1}
    <3>1. CASE e \notin claims
      BY <2>1, <3>1 DEF Accounted
    <3>2. CASE e \in claims /\ \A h \in Hooks : ~Handling(h, e)
      BY <2>1, <3>2 DEF Accounted
    <3>3. CASE \E h \in Hooks : Handling(h, e)
      <4>1. PICK h \in Hooks : Handling(h, e)
        BY <3>3
      <4>2. hook[h].pc \in {"claimed", "done", "failed"}
        BY <4>1 DEF Handling, BillingInv, HookShape
      <4>3. QED BY <2>1, <4>1, <4>2 DEF Accounted
    <3>4. QED BY <3>1, <3>2, <3>3
  <2>3. QED BY <2>1, <2>2 DEF Accounted
<1>2. QED BY <1>1, BillingInvHolds, PTL

----------------------------------------------------------------------------
(* Billing: the plan that is paid for.                                     *)

\* The plan the last subscription was bought for, as long as it runs.
Bought ==
    IF sold = <<>> \/ sold[Len(sold)].price = "none" THEN "free" ELSE sold[Len(sold)].bought

\* Where the events emitted so far should have brought the account.
Now == [customer |-> Len(sold), plan |-> Bought]

Places == [customer : Nat, plan : PaidPlans \cup {"free"}]

\* The plan an event leaves an account on that was on plan p.
PlanAfter(ev, p) ==
    CASE ev.kind = "deleted" -> "free"
      [] ev.kind = "payment_failed" -> p
      [] OTHER -> ev.meta

\* Where it brings an account that was at s: a checkout links its customer, and
\* an event of a customer that is not linked changes nothing.
After(ev, s) ==
    IF ev.kind = "checkout" THEN [customer |-> ev.customer, plan |-> ev.meta]
    ELSE IF ev.customer = s.customer
         THEN [customer |-> s.customer, plan |-> PlanAfter(ev, s.plan)]
         ELSE s

\* chart[n] is the place after the first n events, each applied once and in order.
Charts(chart) ==
    /\ chart[0] = [customer |-> 0, plan |-> "free"]
    /\ \A n \in 1 .. Len(stripeEvents) : chart[n] = After(stripeEvents[n], chart[n - 1])
    /\ chart[Len(stripeEvents)] = Now

\* What Stripe has emitted names the plan that was bought.
Story ==
    \A n \in 1 .. Len(stripeEvents) :
      stripeEvents[n].kind \in {"checkout", "created", "updated"} => stripeEvents[n].meta \in PaidPlans

Committed == order = [n \in 1 .. Len(order) |-> n]

\* The account is where the events committed so far have brought it.
AccountFollows(chart) ==
    Committed =>
      /\ Len(order) <= Len(stripeEvents)
      /\ account.plan = chart[Len(order)].plan
      /\ account.customer = chart[Len(order)].customer

InHand == \A h \in Hooks : hook[h].pc # "idle" => Emitted(hook[h].event)

PlanBase == BillingTypeOK /\ Story /\ InHand

PlanInv ==
    /\ PlanBase
    /\ \E chart \in [0 .. Len(stripeEvents) -> Places] : Charts(chart) /\ AccountFollows(chart)

LEMMA PlanInvInit == BillingInit => PlanInv
<1> SUFFICES ASSUME BillingInit PROVE PlanInv
  OBVIOUS
<1>1. /\ stripeEvents = <<>> /\ Len(stripeEvents) = 0 /\ order = <<>> /\ Len(order) = 0
      /\ sold = <<>> /\ Len(sold) = 0
  BY DEF BillingInit
<1>2. BillingTypeOK
  <2>1. stripeEvents \in Seq(StripeEvent) /\ order \in Seq(Ids) /\ sold \in Seq(Subscription)
    BY <1>1
  <2>2. hook \in [Hooks -> [pc : {"idle", "claimed", "done", "failed"}, event : 0 .. MaxEvents]]
    BY MaxEventsAssumption DEF BillingInit, NoHook
  <2>3. QED
    BY <1>1, <2>1, <2>2, MaxEventsAssumption, MaxHookFaultsAssumption DEF BillingInit, BillingTypeOK
<1>3. Story /\ InHand
  BY <1>1 DEF BillingInit, Story, InHand, NoHook
<1>4. PICK chart : chart = [n \in 0 .. 0 |-> [customer |-> 0, plan |-> "free"]]
  OBVIOUS
<1>5. chart \in [0 .. 0 -> Places] /\ chart[0] = [customer |-> 0, plan |-> "free"]
  BY <1>4 DEF Places
<1>6. Now = [customer |-> 0, plan |-> "free"]
  BY <1>1 DEF Now, Bought
<1>7. Charts(chart)
  BY <1>1, <1>5, <1>6 DEF Charts
<1>8. AccountFollows(chart)
  BY <1>1, <1>5 DEF BillingInit, AccountFollows
<1>9. QED BY <1>1, <1>2, <1>3, <1>5, <1>7, <1>8 DEF PlanInv, PlanBase

\* What every step of Stripe has in common: each event it emits brings an account
\* from the old place to the new one, or leaves it there.
Told ==
    /\ stripeEvents' \in Seq(StripeEvent) /\ Len(stripeEvents') > Len(stripeEvents) /\ Len(stripeEvents') <= MaxEvents
    /\ \A n \in 1 .. Len(stripeEvents) : stripeEvents'[n] = stripeEvents[n]
    /\ \A n \in Len(stripeEvents) + 1 .. Len(stripeEvents') :
         /\ After(stripeEvents'[n], IF n = Len(stripeEvents) + 1 THEN Now ELSE Now') = Now'
         /\ stripeEvents'[n].kind \in {"checkout", "created", "updated"} => stripeEvents'[n].meta \in PaidPlans
    /\ sold' \in Seq(Subscription)

\* One event more.
LEMMA OneMore ==
    ASSUME BillingTypeOK, NEW ev \in StripeEvent, stripeEvents' = Append(stripeEvents, ev), Len(stripeEvents) < MaxEvents
    PROVE  /\ stripeEvents' \in Seq(StripeEvent) /\ Len(stripeEvents') = Len(stripeEvents) + 1 /\ Len(stripeEvents') <= MaxEvents
           /\ \A n \in 1 .. Len(stripeEvents) : stripeEvents'[n] = stripeEvents[n]
           /\ stripeEvents'[Len(stripeEvents) + 1] = ev
  BY MaxEventsAssumption DEF BillingTypeOK

LEMMA CheckoutTold ==
    ASSUME PlanBase, NEW p \in PaidPlans, Checkout(p)
    PROVE  Told
<1>1. PICK c \in Nat : c = Len(sold) + 1 /\ sold' = Append(sold, [price |-> p, bought |-> p])
  BY DEF Checkout, PlanBase, BillingTypeOK
<1>2. PICK a, b : /\ a = NewEvent("checkout", c, "none", p) /\ b = NewEvent("created", c, p, p)
                  /\ stripeEvents' = stripeEvents \o <<a, b>>
  BY <1>1 DEF Checkout
<1>3. a \in StripeEvent /\ b \in StripeEvent
  BY <1>1, <1>2 DEF NewEvent, StripeEvent, PlanOrNone
<1>4. <<a, b>> \in Seq(StripeEvent) /\ Len(<<a, b>>) = 2 /\ <<a, b>>[1] = a /\ <<a, b>>[2] = b
  BY <1>3
<1>5. stripeEvents \in Seq(StripeEvent) /\ Len(stripeEvents) \in Nat
  BY DEF PlanBase, BillingTypeOK
<1>6. /\ stripeEvents' \in Seq(StripeEvent) /\ Len(stripeEvents') = Len(stripeEvents) + 2
      /\ \A n \in 1 .. Len(stripeEvents) + 2 : stripeEvents'[n] = IF n <= Len(stripeEvents) THEN stripeEvents[n] ELSE <<a, b>>[n - Len(stripeEvents)]
  BY <1>2, <1>4, <1>5, ConcatProperties
<1>7. /\ \A n \in 1 .. Len(stripeEvents) : stripeEvents'[n] = stripeEvents[n]
      /\ stripeEvents'[Len(stripeEvents) + 1] = a /\ stripeEvents'[Len(stripeEvents) + 2] = b
  BY <1>4, <1>5, <1>6
<1>8. Len(stripeEvents') <= MaxEvents
  BY <1>6 DEF Checkout
<1>9. sold' \in Seq(Subscription) /\ Len(sold') = c /\ sold'[c] = [price |-> p, bought |-> p]
  <2>1. [price |-> p, bought |-> p] \in Subscription /\ sold \in Seq(Subscription)
    BY DEF Subscription, PlanOrNone, PlanBase, BillingTypeOK
  <2>2. QED BY <1>1, <2>1
<1>10. Now' = [customer |-> c, plan |-> p]
  <2>1. sold' # <<>> /\ sold'[Len(sold')].price = p /\ sold'[Len(sold')].bought = p /\ p # "none"
    BY <1>1, <1>9, PaidPlansAssumption
  <2>2. QED BY <1>9, <2>1 DEF Now, Bought
<1>11. After(a, Now) = Now' /\ After(b, Now') = Now'
  BY <1>2, <1>10 DEF After, PlanAfter, NewEvent
<1>12. a.meta \in PaidPlans /\ b.meta \in PaidPlans
  BY <1>2 DEF NewEvent
<1>13. ASSUME NEW n \in Len(stripeEvents) + 1 .. Len(stripeEvents')
       PROVE  /\ After(stripeEvents'[n], IF n = Len(stripeEvents) + 1 THEN Now ELSE Now') = Now'
              /\ stripeEvents'[n].meta \in PaidPlans
  <2>1. CASE n = Len(stripeEvents) + 1
    BY <2>1, <1>7, <1>11, <1>12
  <2>2. CASE n = Len(stripeEvents) + 2
    BY <2>2, <1>5, <1>7, <1>11, <1>12
  <2>3. QED BY <1>5, <1>6, <2>1, <2>2
<1>14. QED BY <1>5, <1>6, <1>7, <1>8, <1>9, <1>13 DEF Told

\* A step that emits one event, about any of the subscriptions.
LEMMA OneTold ==
    ASSUME PlanBase, NEW ev \in StripeEvent, stripeEvents' = Append(stripeEvents, ev), Len(stripeEvents) < MaxEvents,
           ev.kind \in {"checkout", "created", "updated"} => ev.meta \in PaidPlans,
           sold' \in Seq(Subscription), After(ev, Now) = Now'
    PROVE  Told
<1>1. /\ stripeEvents' \in Seq(StripeEvent) /\ Len(stripeEvents') = Len(stripeEvents) + 1 /\ Len(stripeEvents') <= MaxEvents
      /\ \A n \in 1 .. Len(stripeEvents) : stripeEvents'[n] = stripeEvents[n]
      /\ stripeEvents'[Len(stripeEvents) + 1] = ev
  BY OneMore DEF PlanBase
<1>2. Len(stripeEvents) \in Nat
  BY DEF PlanBase, BillingTypeOK
<1>3. \A n \in Len(stripeEvents) + 1 .. Len(stripeEvents') : n = Len(stripeEvents) + 1
  BY <1>1, <1>2
<1>4. QED BY <1>1, <1>2, <1>3 DEF Told

\* An event about a subscription other than the last changes nothing; one about
\* the last takes the account to what the last has become.
LEMMA OneOfSeveral ==
    ASSUME PlanBase, NEW c \in DOMAIN sold, NEW s \in Subscription, NEW ev \in StripeEvent,
           ev.kind # "checkout", ev.customer = c,
           sold' = [sold EXCEPT ![c] = s],
           s.price = "none" => ev.kind = "deleted",
           s.price # "none" => \/ ev.kind = "updated" /\ ev.meta = s.bought
                               \/ ev.kind = "payment_failed" /\ s = sold[c]
    PROVE  After(ev, Now) = Now' /\ sold' \in Seq(Subscription)
<1>1. /\ sold \in Seq(Subscription) /\ Len(sold) \in Nat /\ c \in 1 .. Len(sold)
      /\ sold' \in Seq(Subscription) /\ Len(sold') = Len(sold)
      /\ sold'[c] = s /\ \A d \in 1 .. Len(sold) : d # c => sold'[d] = sold[d]
  BY DEF PlanBase, BillingTypeOK
<1>2. sold # <<>> /\ sold' # <<>> /\ Len(sold) \in 1 .. Len(sold)
  BY <1>1
<1>3. CASE c = Len(sold)
  <2>1. After(ev, Now) = [customer |-> Len(sold), plan |-> PlanAfter(ev, Bought)]
    BY <1>3 DEF After, Now
  <2>2. Bought' = IF s.price = "none" THEN "free" ELSE s.bought
    BY <1>1, <1>2, <1>3 DEF Bought
  <2>3. PlanAfter(ev, Bought) = Bought'
    <3>1. CASE s.price = "none"
      BY <2>2, <3>1 DEF PlanAfter
    <3>2. CASE s.price # "none" /\ ev.kind = "updated"
      BY <2>2, <3>2 DEF PlanAfter
    <3>3. CASE s.price # "none" /\ ev.kind = "payment_failed" /\ s = sold[c]
      BY <1>2, <1>3, <2>2, <3>3 DEF PlanAfter, Bought
    <3>4. QED BY <3>1, <3>2, <3>3
  <2>4. QED BY <1>1, <2>1, <2>3 DEF Now
<1>4. CASE c # Len(sold)
  <2>1. After(ev, Now) = Now
    BY <1>4 DEF After, Now
  <2>2. Bought' = Bought
    BY <1>1, <1>2, <1>4 DEF Bought
  <2>3. QED BY <1>1, <2>1, <2>2 DEF Now
<1>5. QED BY <1>1, <1>3, <1>4

LEMMA StripeTold ==
    ASSUME PlanBase, NEW c \in DOMAIN sold,
           Cancel(c) \/ PaymentFails(c) \/ (\E p \in PaidPlans : ChangePrice(c, p))
    PROVE  Told
<1>0. sold \in Seq(Subscription) /\ sold[c] \in Subscription /\ c \in Nat
  BY DEF PlanBase, BillingTypeOK
<1>1. CASE Cancel(c)
  <2>1. PICK ev : ev = NewEvent("deleted", c, sold[c].price, sold[c].bought)
    OBVIOUS
  <2>2. ev \in StripeEvent /\ ev.customer = c /\ ev.kind = "deleted"
    BY <1>0, <2>1 DEF NewEvent, StripeEvent, Subscription, PlanOrNone
  <2>3. PICK s : s = [price |-> "none", bought |-> sold[c].bought]
    OBVIOUS
  <2>4. s \in Subscription /\ s.price = "none"
    BY <1>0, <2>3 DEF Subscription, PlanOrNone
  <2>5. /\ sold' = [sold EXCEPT ![c].price = "none"]
        /\ stripeEvents' = Append(stripeEvents, ev) /\ Len(stripeEvents) < MaxEvents
    BY <1>1, <2>1 DEF Cancel, Running
  <2>6. [sold[c] EXCEPT !.price = "none"] = s
    BY <1>0, <2>3 DEF Subscription
  <2>7. sold' = [sold EXCEPT ![c] = s]
    BY <2>5, <2>6
  <2>8. After(ev, Now) = Now' /\ sold' \in Seq(Subscription)
    BY <2>2, <2>4, <2>7, OneOfSeveral
  <2>9. QED BY <2>2, <2>5, <2>8, OneTold
<1>2. CASE PaymentFails(c)
  <2>1. PICK ev : ev = NewEvent("payment_failed", c, "none", "none")
    OBVIOUS
  <2>2. ev \in StripeEvent /\ ev.customer = c /\ ev.kind = "payment_failed"
    BY <1>0, <2>1 DEF NewEvent, StripeEvent, PlanOrNone
  <2>3. /\ sold' = sold /\ sold[c].price # "none"
        /\ stripeEvents' = Append(stripeEvents, ev) /\ Len(stripeEvents) < MaxEvents
    BY <1>2, <2>1 DEF PaymentFails, Running
  <2>4. sold' = [sold EXCEPT ![c] = sold[c]]
    BY <1>0, <2>3
  <2>5. After(ev, Now) = Now' /\ sold' \in Seq(Subscription)
    BY <1>0, <2>2, <2>3, <2>4, OneOfSeveral
  <2>6. QED BY <2>2, <2>3, <2>5, OneTold
<1>3. ASSUME NEW p \in PaidPlans, ChangePrice(c, p) PROVE Told
  <2>1. PICK ev : ev = NewEvent("updated", c, p, sold[c].bought)
    OBVIOUS
  <2>2. ev \in StripeEvent /\ ev.customer = c /\ ev.kind = "updated" /\ ev.meta = sold[c].bought
        /\ ev.meta \in PaidPlans
    BY <1>0, <2>1 DEF NewEvent, StripeEvent, Subscription, PlanOrNone
  <2>3. PICK s : s = [price |-> p, bought |-> sold[c].bought]
    OBVIOUS
  <2>4. s \in Subscription /\ s.price # "none" /\ s.bought = sold[c].bought
    BY <1>0, <2>3, PaidPlansAssumption DEF Subscription, PlanOrNone
  <2>5. /\ sold' = [sold EXCEPT ![c].price = p]
        /\ stripeEvents' = Append(stripeEvents, ev) /\ Len(stripeEvents) < MaxEvents
    BY <1>3, <2>1 DEF ChangePrice, Running
  <2>6. [sold[c] EXCEPT !.price = p] = s
    BY <1>0, <2>3 DEF Subscription
  <2>7. sold' = [sold EXCEPT ![c] = s]
    BY <2>5, <2>6
  <2>8. After(ev, Now) = Now' /\ sold' \in Seq(Subscription)
    BY <2>2, <2>4, <2>7, OneOfSeveral
  <2>9. QED BY <2>2, <2>5, <2>8, OneTold
<1>4. QED BY <1>1, <1>2, <1>3

\* Charts and the account are about what was emitted, so that it grows under them.
LEMMA ToldInv ==
    ASSUME PlanInv, Told,
           UNCHANGED <<answered, claims, account, hook, effects, order, spoiled, hookFaults>>
    PROVE  PlanInv'
<1>1. /\ Len(stripeEvents) \in Nat /\ Len(stripeEvents') \in Nat /\ Len(stripeEvents') > Len(stripeEvents)
      /\ \A n \in 1 .. Len(stripeEvents) : stripeEvents'[n] = stripeEvents[n]
  <2>1. stripeEvents \in Seq(StripeEvent)
    BY DEF PlanInv, PlanBase, BillingTypeOK
  <2>2. /\ stripeEvents' \in Seq(StripeEvent) /\ Len(stripeEvents') > Len(stripeEvents)
        /\ \A n \in 1 .. Len(stripeEvents) : stripeEvents'[n] = stripeEvents[n]
    BY DEF Told
  <2>3. QED BY <2>1, <2>2
<1>2. BillingTypeOK'
  BY DEF PlanInv, PlanBase, BillingTypeOK, Told
<1>3. InHand'
  BY <1>1 DEF PlanInv, PlanBase, InHand, Emitted
<1>4. Story'
  <2>1. ASSUME NEW n \in 1 .. Len(stripeEvents'),
               stripeEvents'[n].kind \in {"checkout", "created", "updated"}
        PROVE  stripeEvents'[n].meta \in PaidPlans
    <3>1. CASE n <= Len(stripeEvents)
      BY <1>1, <2>1, <3>1 DEF PlanInv, PlanBase, Story
    <3>2. CASE n > Len(stripeEvents)
      <4>1. n \in Len(stripeEvents) + 1 .. Len(stripeEvents')
        BY <1>1, <3>2
      <4>2. QED BY <2>1, <4>1 DEF Told
    <3>3. QED BY <1>1, <3>1, <3>2
  <2>2. QED BY <2>1 DEF Story
<1>5. PICK chart \in [0 .. Len(stripeEvents) -> Places] : Charts(chart) /\ AccountFollows(chart)
  BY DEF PlanInv
<1>6. PICK more : more = [n \in 0 .. Len(stripeEvents') |-> IF n <= Len(stripeEvents) THEN chart[n] ELSE Now']
  OBVIOUS
<1>7. Now' \in Places
  <2>1. sold' \in Seq(Subscription) /\ Len(sold') \in Nat
    BY DEF Told
  <2>2. CASE sold' = <<>>
    BY <2>1, <2>2 DEF Now, Bought, Places
  <2>3. CASE sold' # <<>>
    <3>1. sold'[Len(sold')] \in Subscription
      BY <2>1, <2>3
    <3>2. QED BY <2>1, <3>1 DEF Now, Bought, Places, Subscription
  <2>4. QED BY <2>2, <2>3
<1>8. more \in [0 .. Len(stripeEvents') -> Places]
  BY <1>1, <1>5, <1>6, <1>7
<1>9. /\ \A n \in 0 .. Len(stripeEvents) : more[n] = chart[n]
      /\ \A n \in Len(stripeEvents) + 1 .. Len(stripeEvents') : more[n] = Now'
  BY <1>1, <1>6
<1>10. Charts(more)'
  <2>1. more[0] = [customer |-> 0, plan |-> "free"]
    BY <1>1, <1>5, <1>9 DEF Charts
  <2>2. ASSUME NEW n \in 1 .. Len(stripeEvents') PROVE more[n] = After(stripeEvents'[n], more[n - 1])
    <3>1. CASE n <= Len(stripeEvents)
      <4>1. more[n] = chart[n] /\ more[n - 1] = chart[n - 1] /\ stripeEvents'[n] = stripeEvents[n]
        BY <1>1, <1>9, <3>1
      <4>2. chart[n] = After(stripeEvents[n], chart[n - 1])
        BY <1>1, <1>5, <3>1 DEF Charts
      <4>3. QED BY <4>1, <4>2
    <3>2. CASE n > Len(stripeEvents)
      <4>1. n \in Len(stripeEvents) + 1 .. Len(stripeEvents') /\ more[n] = Now'
        BY <1>1, <1>9, <3>2
      <4>2. more[n - 1] = IF n = Len(stripeEvents) + 1 THEN Now ELSE Now'
        <5>1. CASE n = Len(stripeEvents) + 1
          BY <1>1, <1>5, <1>9, <5>1 DEF Charts
        <5>2. CASE n # Len(stripeEvents) + 1
          BY <1>1, <1>9, <3>2, <5>2
        <5>3. QED BY <5>1, <5>2
      <4>3. QED BY <4>1, <4>2 DEF Told
    <3>3. QED BY <1>1, <3>1, <3>2
  <2>3. more[Len(stripeEvents')] = Now'
    BY <1>1, <1>9
  <2>4. QED BY <2>1, <2>2, <2>3 DEF Charts
<1>11. AccountFollows(more)'
  <2>1. Len(order) \in Nat /\ order' = order /\ account' = account
    BY DEF PlanInv, PlanBase, BillingTypeOK
  <2>2. Committed' <=> Committed
    BY <2>1 DEF Committed
  <2>3. CASE Committed
    <3>1. /\ Len(order) <= Len(stripeEvents) /\ account.plan = chart[Len(order)].plan
          /\ account.customer = chart[Len(order)].customer
      BY <1>5, <2>3 DEF AccountFollows
    <3>2. more[Len(order)] = chart[Len(order)]
      BY <1>1, <1>9, <2>1, <3>1
    <3>3. QED BY <1>1, <2>1, <3>1, <3>2 DEF AccountFollows
  <2>4. QED BY <2>2, <2>3 DEF AccountFollows
<1>12. QED BY <1>2, <1>3, <1>4, <1>8, <1>10, <1>11 DEF PlanInv, PlanBase

\* What a commit leaves in the account.
LEMMA AppliedAccount ==
    ASSUME PlanBase, NEW e \in 1 .. Len(stripeEvents)
    PROVE  /\ Applied(stripeEvents[e]) \in [customer : Nat, plan : PaidPlans \cup {"free"},
                                            status : {"active", "past_due", "cancelled"}]
           /\ Applied(stripeEvents[e]).plan = PlanAfter(stripeEvents[e], account.plan)
           /\ Applied(stripeEvents[e]).customer =
                IF stripeEvents[e].kind = "checkout" THEN stripeEvents[e].customer ELSE account.customer
<1>1. PICK ev \in StripeEvent : ev = stripeEvents[e]
  BY DEF PlanBase, BillingTypeOK
<1>2. ev.kind \in {"checkout", "created", "updated"} => ev.meta \in PaidPlans
  BY <1>1 DEF PlanBase, Story
<1>3. ev.kind \in {"checkout", "created", "updated", "deleted", "payment_failed"} /\ ev.customer \in Nat
  BY DEF StripeEvent
<1>4. account \in [customer : Nat, plan : PaidPlans \cup {"free"}, status : {"active", "past_due", "cancelled"}]
  BY DEF PlanBase, BillingTypeOK
<1>5. CASE ev.kind = "checkout"
  <2>1. Applied(ev) = [customer |-> ev.customer, plan |-> ev.meta, status |-> "active"]
    BY <1>2, <1>5 DEF Applied, PlanOf
  <2>2. PlanAfter(ev, account.plan) = ev.meta
    BY <1>5 DEF PlanAfter
  <2>3. QED BY <1>1, <1>2, <1>3, <1>5, <2>1, <2>2
<1>6. CASE ev.kind \in {"created", "updated"}
  <2>1. Applied(ev) = [account EXCEPT !.plan = ev.meta, !.status = "active"]
    BY <1>2, <1>6 DEF Applied, PlanOf
  <2>2. PlanAfter(ev, account.plan) = ev.meta
    BY <1>6 DEF PlanAfter
  <2>3. QED BY <1>1, <1>2, <1>4, <1>6, <2>1, <2>2
<1>7. CASE ev.kind = "deleted"
  <2>1. Applied(ev) = [account EXCEPT !.plan = "free", !.status = "cancelled"]
    BY <1>7 DEF Applied
  <2>2. PlanAfter(ev, account.plan) = "free"
    BY <1>7 DEF PlanAfter
  <2>3. QED BY <1>1, <1>4, <1>7, <2>1, <2>2
<1>8. CASE ev.kind = "payment_failed"
  <2>1. Applied(ev) = [account EXCEPT !.status = "past_due"]
    BY <1>8 DEF Applied
  <2>2. PlanAfter(ev, account.plan) = account.plan
    BY <1>8 DEF PlanAfter
  <2>3. QED BY <1>1, <1>4, <1>8, <2>1, <2>2
<1>9. QED BY <1>3, <1>5, <1>6, <1>7, <1>8

\* Committing the next event in order takes the account where the chart says.
LEMMA CommitFollows ==
    ASSUME PlanBase, NEW chart \in [0 .. Len(stripeEvents) -> Places], Charts(chart), AccountFollows(chart),
           NEW e \in 1 .. Len(stripeEvents), Commit(e), UNCHANGED stripeVars
    PROVE  AccountFollows(chart)'
<1> SUFFICES ASSUME Committed'
             PROVE  /\ Len(order') <= Len(stripeEvents)
                    /\ account'.plan = chart[Len(order')].plan
                    /\ account'.customer = chart[Len(order')].customer
  BY DEF AccountFollows, stripeVars
<1>1. order \in Seq(Ids) /\ Len(order) \in Nat /\ Len(stripeEvents) \in Nat /\ Len(stripeEvents) <= MaxEvents
  BY DEF PlanBase, BillingTypeOK
<1>2. order' = Append(order, e) /\ e \in Ids
  BY <1>1, MaxEventsAssumption DEF Commit, Ids
<1>3. Len(order') = Len(order) + 1 /\ order'[Len(order) + 1] = e
      /\ \A n \in 1 .. Len(order) : order'[n] = order[n]
  BY <1>1, <1>2
<1>4. e = Len(order) + 1
  BY <1>1, <1>3 DEF Committed
<1>5. Committed
  <2>1. \A n \in 1 .. Len(order) : order[n] = n
    BY <1>1, <1>3 DEF Committed
  <2>2. order = [n \in 1 .. Len(order) |-> order[n]]
    BY <1>1
  <2>3. QED BY <2>1, <2>2 DEF Committed
<1>6. account.plan = chart[e - 1].plan /\ account.customer = chart[e - 1].customer
  BY <1>1, <1>4, <1>5 DEF AccountFollows
<1>7. chart[e] = After(stripeEvents[e], chart[e - 1])
  BY DEF Charts
<1>8. CASE Matches(stripeEvents[e])
  <2>1. account' = Applied(stripeEvents[e])
    BY <1>8 DEF Commit
  <2>2. CASE stripeEvents[e].kind = "checkout"
    <3>1. account'.plan = stripeEvents[e].meta /\ account'.customer = stripeEvents[e].customer
      BY <2>1, <2>2, AppliedAccount DEF PlanAfter
    <3>2. QED BY <1>1, <1>3, <1>4, <1>7, <2>2, <3>1 DEF After
  <2>3. CASE stripeEvents[e].kind # "checkout"
    <3>1. stripeEvents[e].customer = chart[e - 1].customer
      BY <1>6, <1>8, <2>3 DEF Matches
    <3>2. account'.plan = PlanAfter(stripeEvents[e], account.plan) /\ account'.customer = account.customer
      BY <2>1, <2>3, AppliedAccount
    <3>3. QED BY <1>1, <1>3, <1>4, <1>6, <1>7, <2>3, <3>1, <3>2 DEF After
  <2>4. QED BY <2>2, <2>3
<1>9. CASE ~Matches(stripeEvents[e])
  <2>1. account' = account
    BY <1>9 DEF Commit
  <2>2. chart[e] = chart[e - 1]
    BY <1>6, <1>7, <1>9 DEF Matches, After
  <2>3. QED BY <1>1, <1>3, <1>4, <1>6, <2>1, <2>2
<1>10. QED BY <1>8, <1>9

LEMMA CommitTyped ==
    ASSUME PlanBase, NEW e \in 1 .. Len(stripeEvents), Commit(e)
    PROVE  /\ account' \in [customer : Nat, plan : PaidPlans \cup {"free"},
                            status : {"active", "past_due", "cancelled"}]
           /\ effects' \in [Ids -> Nat] /\ order' \in Seq(Ids)
<1>1. e \in Ids
  BY MaxEventsAssumption DEF PlanBase, BillingTypeOK, Ids
<1>2. account' \in [customer : Nat, plan : PaidPlans \cup {"free"}, status : {"active", "past_due", "cancelled"}]
  BY AppliedAccount DEF Commit, PlanBase, BillingTypeOK
<1>3. QED BY <1>1, <1>2 DEF Commit, PlanBase, BillingTypeOK

\* A delivery, or a step of a handler, changes the account by a commit of an
\* event that was emitted, if at all.
LEMMA HookStepBase ==
    ASSUME PlanBase,
           \/ \E e \in Ids : Delivery(e)
           \/ \E h \in Hooks : HookStep(h) \/ ApplyFails(h) \/ ClaimLeft(h)
    PROVE  /\ PlanBase' /\ UNCHANGED stripeVars
           /\ \/ UNCHANGED <<account, order>>
              \/ \E e \in 1 .. Len(stripeEvents) : Commit(e)
<1>0. /\ hook \in [Hooks -> [pc : {"idle", "claimed", "done", "failed"}, event : 0 .. MaxEvents]]
      /\ \A h \in Hooks : hook[h].pc # "idle" => hook[h].event \in 1 .. Len(stripeEvents) /\ hook[h].event \in Ids
      /\ Len(stripeEvents) \in Nat
      /\ NoHook \in [pc : {"idle", "claimed", "done", "failed"}, event : 0 .. MaxEvents]
  BY MaxEventsAssumption DEF PlanBase, BillingTypeOK, InHand, Emitted, Ids, NoHook
<1>1. UNCHANGED stripeVars
  BY DEF Delivery, Duplicate, Claim, HookStep, Apply, Acknowledge, Release, ApplyFails, ClaimLeft, stripeVars
<1>2. Story'
  BY <1>1 DEF PlanBase, Story, stripeVars
<1>3. ASSUME NEW e \in Ids, Duplicate(e)
      PROVE  PlanBase' /\ UNCHANGED <<account, order>>
  <2>1. /\ answered' = answered \cup {e} /\ spoiled' \subseteq spoiled \cup {e}
        /\ UNCHANGED <<sold, stripeEvents, claims, account, hook, effects, order, hookFaults>>
    BY <1>3 DEF Duplicate, stripeVars
  <2>2. BillingTypeOK' /\ InHand'
    BY <2>1 DEF PlanBase, BillingTypeOK, InHand, Emitted
  <2>3. QED BY <1>2, <2>1, <2>2 DEF PlanBase
<1>4. ASSUME NEW e \in Ids, NEW h \in Hooks, Claim(h, e)
      PROVE  PlanBase' /\ UNCHANGED <<account, order>>
  <2>1. /\ hook' = [hook EXCEPT ![h] = [pc |-> "claimed", event |-> e]]
        /\ Emitted(e) /\ claims' = claims \cup {e}
        /\ UNCHANGED <<sold, stripeEvents, answered, account, effects, order, spoiled, hookFaults>>
    BY <1>4 DEF Claim, stripeVars
  <2>2. [pc |-> "claimed", event |-> e] \in [pc : {"idle", "claimed", "done", "failed"}, event : 0 .. MaxEvents]
    BY MaxEventsAssumption DEF Ids
  <2>3. hook' \in [Hooks -> [pc : {"idle", "claimed", "done", "failed"}, event : 0 .. MaxEvents]]
    BY <1>0, <2>1, <2>2
  <2>4. InHand'
    BY <1>0, <2>1 DEF InHand, Emitted
  <2>5. BillingTypeOK'
    BY <2>1, <2>3 DEF PlanBase, BillingTypeOK
  <2>6. QED BY <1>2, <2>1, <2>4, <2>5 DEF PlanBase
<1>5. ASSUME NEW h \in Hooks, HookStep(h) \/ ApplyFails(h) \/ ClaimLeft(h)
      PROVE  /\ PlanBase'
             /\ \/ UNCHANGED <<account, order>>
                \/ \E e \in 1 .. Len(stripeEvents) : Commit(e)
  <2>1. PICK e \in 1 .. Len(stripeEvents) : e = hook[h].event /\ e \in Ids
    <3>1. hook[h].pc # "idle"
      BY <1>5 DEF HookStep, Apply, Acknowledge, Release, ApplyFails, ClaimLeft
    <3>2. QED BY <1>0, <3>1
  <2>2. /\ hook' \in [Hooks -> [pc : {"idle", "claimed", "done", "failed"}, event : 0 .. MaxEvents]]
        /\ hook'[h] = NoHook \/ hook'[h].event = e
        /\ \A g \in Hooks : g # h => hook'[g] = hook[g]
    BY <1>0, <1>5, <2>1 DEF HookStep, Apply, Acknowledge, Release, ApplyFails, ClaimLeft
  <2>3. InHand'
    <3>1. ASSUME NEW g \in Hooks, hook'[g].pc # "idle" PROVE hook'[g].event \in 1 .. Len(stripeEvents)
      <4>1. CASE g = h
        BY <2>1, <2>2, <3>1, <4>1 DEF NoHook
      <4>2. CASE g # h
        BY <1>0, <2>2, <3>1, <4>2
      <4>3. QED BY <4>1, <4>2
    <3>2. QED BY <1>1, <3>1 DEF InHand, Emitted, stripeVars
  <2>4. UNCHANGED <<account, effects, order>> \/ Commit(e)
    BY <1>5, <2>1 DEF HookStep, Apply, Acknowledge, Release, ApplyFails, ClaimLeft
  <2>5. answered' \subseteq Ids /\ claims' \subseteq Ids /\ spoiled' \subseteq Ids
    BY <1>5, <2>1 DEF HookStep, Apply, Acknowledge, Release, ApplyFails, ClaimLeft, PlanBase, BillingTypeOK
  <2>6. hookFaults' \in 0 .. MaxHookFaults
    BY <1>5, MaxHookFaultsAssumption
       DEF HookStep, Apply, Acknowledge, Release, ApplyFails, ClaimLeft, HookFault, PlanBase, BillingTypeOK
  <2>7. /\ account' \in [customer : Nat, plan : PaidPlans \cup {"free"},
                         status : {"active", "past_due", "cancelled"}]
        /\ effects' \in [Ids -> Nat] /\ order' \in Seq(Ids)
    BY <2>4, CommitTyped DEF PlanBase, BillingTypeOK
  <2>8. BillingTypeOK'
    BY <1>1, <2>2, <2>5, <2>6, <2>7 DEF PlanBase, BillingTypeOK, stripeVars
  <2>9. QED BY <1>2, <2>3, <2>4, <2>8 DEF PlanBase
<1>6. QED BY <1>1, <1>3, <1>4, <1>5 DEF Delivery

LEMMA HookStepPlan ==
    ASSUME PlanInv,
           \/ \E e \in Ids : Delivery(e)
           \/ \E h \in Hooks : HookStep(h) \/ ApplyFails(h) \/ ClaimLeft(h)
    PROVE  PlanInv'
<1>1. PICK chart \in [0 .. Len(stripeEvents) -> Places] : Charts(chart) /\ AccountFollows(chart)
  BY DEF PlanInv
<1>2. /\ PlanBase' /\ UNCHANGED stripeVars
      /\ UNCHANGED <<account, order>> \/ \E e \in 1 .. Len(stripeEvents) : Commit(e)
  BY HookStepBase DEF PlanInv
<1>3. Charts(chart)'
  BY <1>1, <1>2 DEF Charts, Now, Bought, stripeVars
<1>4. AccountFollows(chart)'
  <2>1. CASE UNCHANGED <<account, order>>
    BY <1>1, <1>2, <2>1 DEF AccountFollows, Committed, stripeVars
  <2>2. CASE \E e \in 1 .. Len(stripeEvents) : Commit(e)
    BY <1>1, <1>2, <2>2, CommitFollows DEF PlanInv
  <2>3. QED BY <1>2, <2>1, <2>2
<1>5. QED BY <1>1, <1>2, <1>3, <1>4 DEF PlanInv, stripeVars

LEMMA PlanInvHolds == BillingSpec => []PlanInv
<1>1. PlanInv /\ [BillingNext]_billingVars => PlanInv'
  <2> SUFFICES ASSUME PlanInv, [BillingNext]_billingVars PROVE PlanInv'
    OBVIOUS
  <2>1. CASE \E p \in PaidPlans : Checkout(p)
    BY <2>1, CheckoutTold, ToldInv DEF PlanInv, Checkout
  <2>2. CASE \E c \in DOMAIN sold :
               Cancel(c) \/ PaymentFails(c) \/ \E p \in PaidPlans : ChangePrice(c, p)
    <3>1. Told
      BY <2>2, StripeTold DEF PlanInv
    <3>2. UNCHANGED <<answered, claims, account, hook, effects, order, spoiled, hookFaults>>
      BY <2>2 DEF Cancel, PaymentFails, ChangePrice
    <3>3. QED BY <3>1, <3>2, ToldInv
  <2>3. CASE \/ \E e \in Ids : Delivery(e)
             \/ \E h \in Hooks : HookStep(h) \/ ApplyFails(h) \/ ClaimLeft(h)
    BY <2>3, HookStepPlan
  <2>4. CASE UNCHANGED billingVars
    BY <2>4 DEF billingVars, PlanInv, PlanBase, BillingTypeOK, Story, InHand, Emitted, Charts, Now, Bought,
                AccountFollows, Committed
  <2>5. QED BY <2>1, <2>2, <2>3, <2>4 DEF BillingNext
<1>2. QED BY <1>1, PlanInvInit, PTL DEF BillingSpec

\* However many subscriptions Stripe sells the account, changes and ends, whatever
\* is retried and whatever fails: events that took effect once and in the order
\* they were emitted leave the account on the plan that its last subscription pays
\* for, or on some paid plan while that costs another price than it was sold at.
THEOREM PlansArePaidFor == BillingSpec => []PlanIsPaidFor
<1>1. PlanInv => PlanIsPaidFor
  <2> SUFFICES ASSUME PlanInv, InOrder
               PROVE  IF Repriced THEN account.plan \in PaidPlans ELSE account.plan = PlanPaidFor
    BY DEF PlanIsPaidFor
  <2>1. PICK chart \in [0 .. Len(stripeEvents) -> Places] : Charts(chart) /\ AccountFollows(chart)
    BY DEF PlanInv
  <2>2. /\ stripeEvents \in Seq(StripeEvent) /\ order \in Seq(Ids) /\ Len(stripeEvents) \in Nat /\ Len(order) \in Nat
        /\ sold \in Seq(Subscription)
    BY DEF PlanInv, PlanBase, BillingTypeOK
  <2>3. Len(order) = Len(stripeEvents)
    BY <2>2 DEF InOrder
  <2>4. Committed
    BY <2>3 DEF InOrder, Committed
  <2>5. account.plan = Bought
    BY <2>1, <2>3, <2>4 DEF AccountFollows, Charts, Now
  <2>6. CASE sold = <<>>
    BY <2>5, <2>6 DEF Bought, Repriced, PlanPaidFor
  <2>7. CASE sold # <<>>
    <3>1. sold[Len(sold)] \in Subscription
      BY <2>2, <2>7
    <3>2. QED BY <2>5, <2>7, <3>1 DEF Bought, Repriced, PlanPaidFor, Subscription
  <2>8. QED BY <2>6, <2>7
<1>2. QED BY <1>1, PlanInvHolds, PTL

\* The type of the billing state.
THEOREM BillingTypes == BillingSpec => []BillingTypeOK
<1>1. PlanInv => BillingTypeOK
  BY DEF PlanInv, PlanBase
<1>2. QED BY <1>1, PlanInvHolds, PTL

----------------------------------------------------------------------------
(* Provider keys.                                                          *)

\* The key a job of add_key is about to bring: nobody else has it.
Bringing(h) ==
    \E k \in KeyIds : /\ keyJob[h].key = {k}
                      /\ k \notin keyRows \cup keyGone
                      /\ \A g \in KeyHandlers : g # h => k \notin keyJob[g].key

\* What a handler knows of its key.
JobKnows(h) ==
    /\ keyJob[h].op = "add" => Bringing(h)
    /\ keyJob[h].op = "delete" => keyJob[h].key \subseteq keyRows \cup keyGone
    /\ keyJob[h].pc = "idle" <=> keyJob[h].op = "none"
    /\ keyJob[h].pc = "idle" => keyJob[h].key = {}

\* A request still on its way with what it read before the deletion.
HeldIsKnown ==
    \A r \in Forwards, k \in KeyIds :
        HoldsKey(r, k) => /\ k \in keyRows \cup keyGone
                          /\ k \in keyGone => keyQuiet[k] = 0

KeyInv ==
    /\ ProviderKeysTypeOK
    /\ keyRows \cap keyGone = {}
    /\ \A h \in KeyHandlers : JobKnows(h)
    /\ HeldIsKnown
    /\ DeletedKeyExpires

ForwardStep(r) ==
    \/ \E k \in KeyIds : KeyHit(r, k) \/ KeyRead(r, k) \/ TestConnection(r, k)
    \/ KeyMiss(r) \/ KeyStore(r) \/ ForwardEnds(r)

KeyHandlerStep(h) ==
    \/ \E k \in KeyIds : AddKeyCheck(h, k) \/ DeleteKeyRead(h, k)
    \/ AddKeyFlush(h) \/ KeyPurge(h) \/ AddKeyCommit(h) \/ DeleteKeyCommit(h) \/ KeyJobFails(h)

LEMMA KeyWhoSteps ==
    ProviderKeysNext <=> \/ \E r \in Forwards : ForwardStep(r)
                         \/ \E h \in KeyHandlers : KeyHandlerStep(h)
                         \/ KeyTick
  BY DEF ProviderKeysNext, ForwardStep, KeyHandlerStep

----------------------------------------------------------------------------
(* The type, and what a step of each side leaves alone.                     *)

LEMMA KeyInvInit == ProviderKeysInit => KeyInv
  BY KeyTTLAssumption
     DEF ProviderKeysInit, KeyInv, ProviderKeysTypeOK, Forward, KeyJob, NoForward, NoKeyJob,
         JobKnows, HeldIsKnown, HoldsKey, DeletedKeyExpires, Copies

\* A request at "read" or "calling" has a key.
LEMMA ForwardHasKey ==
    ASSUME NEW f \in Forward, f.pc \in {"read", "calling"}
    PROVE  f.key \in KeyIds
  BY DEF Forward

LEMMA ForwardStepInv ==
    ASSUME KeyInv, NEW r \in Forwards, ForwardStep(r)
    PROVE  KeyInv'
  <1>0. /\ keyRows' = keyRows /\ keyGone' = keyGone /\ keyJob' = keyJob /\ keyQuiet' = keyQuiet
        /\ \A q \in Forwards : q # r => forward'[q] = forward[q]
    BY DEF ForwardStep, KeyHit, KeyRead, TestConnection, KeyMiss, KeyStore, ForwardEnds, KeyInv,
           ProviderKeysTypeOK
  <1>1. forward \in [Forwards -> Forward] /\ copyLeft \in [KeyIds -> 0 .. KeyTTL]
        /\ forward[r] \in Forward
    BY DEF KeyInv, ProviderKeysTypeOK
  <1>2. forward' \in [Forwards -> Forward]
    <2>1. CASE \E k \in KeyIds : KeyHit(r, k) \/ KeyRead(r, k) \/ TestConnection(r, k)
      BY <1>1, <2>1 DEF KeyHit, KeyRead, TestConnection, Forward
    <2>2. CASE KeyMiss(r) \/ ForwardEnds(r)
      BY <1>1, <2>2 DEF KeyMiss, ForwardEnds, NoForward, Forward
    <2>3. CASE KeyStore(r)
      <3>1. [forward[r] EXCEPT !.pc = "calling"] \in Forward
        BY <1>1, <2>3 DEF KeyStore, Forward
      <3>2. QED BY <1>1, <2>3, <3>1 DEF KeyStore
    <2>4. QED BY <2>1, <2>2, <2>3 DEF ForwardStep
  <1>3. copyLeft' \in [KeyIds -> 0 .. KeyTTL]
    BY <1>1, KeyTTLAssumption
       DEF ForwardStep, KeyHit, KeyRead, TestConnection, KeyMiss, KeyStore, ForwardEnds
  <1>4. ProviderKeysTypeOK'
    BY <1>0, <1>2, <1>3 DEF KeyInv, ProviderKeysTypeOK
  <1>5. \A h \in KeyHandlers : JobKnows(h)'
    BY <1>0 DEF KeyInv, JobKnows, Bringing
  <1>6. HeldIsKnown'
    <2>1. ASSUME NEW k \in KeyIds, HoldsKey(r, k)' PROVE k \in keyRows
      <3>1. forward'[r].pc = "read" /\ forward'[r].key = k
        BY <2>1 DEF HoldsKey
      <3>2. ~KeyStore(r) /\ ~KeyMiss(r) /\ ~ForwardEnds(r)
        <4>1. KeyStore(r) => forward'[r].pc = "calling"
          BY <1>1 DEF KeyStore
        <4>2. KeyMiss(r) => forward'[r] = [pc |-> "missed"]
          BY <1>1 DEF KeyMiss
        <4>3. ForwardEnds(r) => forward'[r] = [pc |-> "idle"]
          BY <1>1 DEF ForwardEnds, NoForward
        <4>4. QED BY <3>1, <4>1, <4>2, <4>3
      <3>3. PICK j \in KeyIds : KeyRead(r, j)
        BY <1>1, <3>1, <3>2 DEF ForwardStep, KeyHit, TestConnection
      <3>4. j \in keyRows /\ j = k
        BY <1>1, <3>1, <3>3 DEF KeyRead
      <3>5. QED BY <3>4
    <2>2. \A q \in Forwards, k \in KeyIds : q # r => (HoldsKey(q, k)' <=> HoldsKey(q, k))
      BY <1>0 DEF HoldsKey
    <2>3. QED BY <1>0, <2>1, <2>2 DEF KeyInv, HeldIsKnown
  <1>7. DeletedKeyExpires'
    <2> SUFFICES ASSUME NEW k \in KeyIds, copyLeft'[k] > 0, k \in keyGone
                 PROVE  copyLeft'[k] + keyQuiet[k] <= KeyTTL
      BY <1>0 DEF DeletedKeyExpires, Copies
    <2>1. CASE copyLeft'[k] <= copyLeft[k]
      <3>1. copyLeft[k] > 0 /\ copyLeft[k] + keyQuiet[k] <= KeyTTL
        BY <1>1, <1>3, <2>1, KeyTTLAssumption DEF KeyInv, DeletedKeyExpires, Copies
      <3>2. QED BY <1>1, <1>3, <2>1, <3>1, KeyTTLAssumption DEF KeyInv, ProviderKeysTypeOK
    <2>2. CASE ~(copyLeft'[k] <= copyLeft[k])
      <3>1. KeyStore(r) /\ k = forward[r].key
        BY <1>1, <1>3, <2>2, KeyTTLAssumption
           DEF ForwardStep, KeyHit, KeyRead, TestConnection, KeyMiss, KeyStore, ForwardEnds
      <3>2. keyQuiet[k] = 0
        BY <3>1 DEF KeyStore, HoldsKey, KeyInv, HeldIsKnown
      <3>3. QED BY <1>3, <3>2, KeyTTLAssumption
    <2>3. QED BY <2>1, <2>2
  <1>8. QED BY <1>0, <1>4, <1>5, <1>6, <1>7 DEF KeyInv

\* What a step of handler h changes.
LEMMA HandlerMove ==
    ASSUME KeyInv, NEW h \in KeyHandlers, KeyHandlerStep(h)
    PROVE  /\ forward' = forward
           /\ \A g \in KeyHandlers : g # h => keyJob'[g] = keyJob[g]
           /\ keyJob' \in [KeyHandlers -> KeyJob]
           /\ \A k \in KeyIds : copyLeft'[k] \in {copyLeft[k], 0}
           /\ copyLeft' \in [KeyIds -> 0 .. KeyTTL]
  <1>1. keyJob \in [KeyHandlers -> KeyJob] /\ copyLeft \in [KeyIds -> 0 .. KeyTTL]
        /\ keyJob[h] \in KeyJob
    BY DEF KeyInv, ProviderKeysTypeOK
  <1>2. forward' = forward
    BY DEF KeyHandlerStep, AddKeyCheck, DeleteKeyRead, AddKeyFlush, KeyPurge, AddKeyCommit,
           DeleteKeyCommit, KeyJobFails
  <1>3. \A g \in KeyHandlers : g # h => keyJob'[g] = keyJob[g]
    BY <1>1 DEF KeyHandlerStep, AddKeyCheck, DeleteKeyRead, AddKeyFlush, KeyPurge, AddKeyCommit,
                DeleteKeyCommit, KeyJobFails
  <1>4. keyJob' \in [KeyHandlers -> KeyJob]
    <2>1. CASE \E k \in KeyIds : AddKeyCheck(h, k) \/ DeleteKeyRead(h, k)
      BY <1>1, <2>1 DEF AddKeyCheck, DeleteKeyRead, KeyJob
    <2>2. CASE AddKeyFlush(h) \/ KeyPurge(h)
      BY <1>1, <2>2 DEF AddKeyFlush, KeyPurge, KeyJob
    <2>3. CASE AddKeyCommit(h) \/ DeleteKeyCommit(h) \/ KeyJobFails(h)
      BY <1>1, <2>3 DEF AddKeyCommit, DeleteKeyCommit, KeyJobFails, NoKeyJob, KeyJob
    <2>4. QED BY <2>1, <2>2, <2>3 DEF KeyHandlerStep
  <1>5. \/ copyLeft' = copyLeft
        \/ copyLeft' = [k \in KeyIds |-> 0]
    BY DEF KeyHandlerStep, AddKeyCheck, DeleteKeyRead, AddKeyFlush, KeyPurge, AddKeyCommit,
           DeleteKeyCommit, KeyJobFails
  <1>6. QED BY <1>1, <1>2, <1>3, <1>4, <1>5, KeyTTLAssumption

\* Rows, history and jobs, by the handler's action.
LEMMA HandlerRows ==
    ASSUME KeyInv, NEW h \in KeyHandlers, KeyHandlerStep(h)
    PROVE  /\ (keyRows' \cup keyGone') \subseteq KeyIds
           /\ keyRows' \cap keyGone' = {}
           /\ (keyRows \cup keyGone) \subseteq (keyRows' \cup keyGone')
           /\ keyGone \subseteq keyGone'
           /\ \A k \in keyGone' \ keyGone : k \in keyRows /\ keyQuiet'[k] = 0
           /\ \A k \in keyGone : keyQuiet'[k] = keyQuiet[k]
           /\ keyQuiet' \in [KeyIds -> 0 .. KeyTTL]
           /\ \A g \in KeyHandlers : JobKnows(g)'
  <1>0. keyRows \subseteq KeyIds /\ keyGone \subseteq KeyIds /\ keyRows \cap keyGone = {}
        /\ keyQuiet \in [KeyIds -> 0 .. KeyTTL] /\ keyJob \in [KeyHandlers -> KeyJob]
        /\ keyJob[h] \in KeyJob
    BY DEF KeyInv, ProviderKeysTypeOK
  <1>1. \A g \in KeyHandlers : JobKnows(g)
    BY DEF KeyInv
  <1>2. \A g \in KeyHandlers : g # h => keyJob'[g] = keyJob[g]
    BY HandlerMove
  <1>3. CASE \E k \in KeyIds : AddKeyCheck(h, k)
    <2>1. PICK k \in KeyIds : AddKeyCheck(h, k)
      BY <1>3
    <2>2. /\ keyJob'[h] = [op |-> "add", pc |-> "checked", key |-> {k}]
          /\ k \notin keyRows \cup keyGone
          /\ \A g \in KeyHandlers : k \notin keyJob[g].key
          /\ keyRows' = keyRows /\ keyGone' = keyGone /\ keyQuiet' = keyQuiet
      BY <1>0, <2>1 DEF AddKeyCheck, Unused
    <2>3. JobKnows(h)'
      BY <1>2, <2>2 DEF JobKnows, Bringing
    <2>4. ASSUME NEW g \in KeyHandlers, g # h PROVE JobKnows(g)'
      <3>1. Bringing(g) => Bringing(g)'
        BY <1>2, <2>2, <2>4 DEF Bringing
      <3>2. QED BY <1>1, <1>2, <2>2, <2>4, <3>1 DEF JobKnows
    <2>5. QED BY <1>0, <2>2, <2>3, <2>4
  <1>4. CASE \E k \in KeyIds : DeleteKeyRead(h, k)
    <2>1. PICK k \in KeyIds : DeleteKeyRead(h, k)
      BY <1>4
    <2>2. /\ keyJob'[h] = [op |-> "delete", pc |-> "flushed", key |-> {k}]
          /\ k \in keyRows
          /\ keyRows' = keyRows /\ keyGone' = keyGone /\ keyQuiet' = keyQuiet
      BY <1>0, <2>1 DEF DeleteKeyRead
    <2>3. JobKnows(h)'
      BY <2>2 DEF JobKnows
    <2>4. ASSUME NEW g \in KeyHandlers, g # h PROVE JobKnows(g)'
      <3>1. Bringing(g) => Bringing(g)'
        BY <1>2, <2>2, <2>4 DEF Bringing
      <3>2. QED BY <1>1, <1>2, <2>2, <2>4, <3>1 DEF JobKnows
    <2>5. QED BY <1>0, <2>2, <2>3, <2>4
  <1>5. CASE AddKeyFlush(h) \/ KeyPurge(h)
    <2>1. /\ keyJob'[h].op = keyJob[h].op /\ keyJob'[h].key = keyJob[h].key
          /\ keyJob'[h].pc # "idle" /\ keyJob[h].pc # "idle"
          /\ keyRows' = keyRows /\ keyGone' = keyGone /\ keyQuiet' = keyQuiet
      BY <1>0, <1>5 DEF AddKeyFlush, KeyPurge, KeyJob
    <2>2. ASSUME NEW g \in KeyHandlers PROVE JobKnows(g)'
      <3>1. \A i \in KeyHandlers : keyJob'[i].key = keyJob[i].key
        BY <1>2, <2>1
      <3>2. Bringing(g) => Bringing(g)'
        BY <2>1, <3>1 DEF Bringing
      <3>3. keyJob'[g].op = keyJob[g].op /\ (keyJob'[g].pc = "idle" <=> keyJob[g].pc = "idle")
        BY <1>2, <2>1
      <3>4. QED BY <1>1, <2>1, <3>1, <3>2, <3>3 DEF JobKnows
    <2>3. QED BY <1>0, <2>1, <2>2
  <1>6. ASSUME keyJob'[h] = NoKeyJob, keyRows' \cup keyGone' = keyRows \cup keyGone
        PROVE  \A g \in KeyHandlers : JobKnows(g)'
    <2>1. JobKnows(h)'
      BY <1>6 DEF JobKnows, NoKeyJob
    <2>2. ASSUME NEW g \in KeyHandlers, g # h PROVE JobKnows(g)'
      <3>1. Bringing(g) => Bringing(g)'
        BY <1>2, <1>6, <2>2 DEF Bringing, NoKeyJob
      <3>2. QED BY <1>1, <1>2, <1>6, <2>2, <3>1 DEF JobKnows
    <2>3. QED BY <2>1, <2>2
  <1>7. CASE AddKeyCommit(h)
    <2>1. PICK k \in KeyIds : /\ keyJob[h].key = {k}
                              /\ k \notin keyRows \cup keyGone
                              /\ \A g \in KeyHandlers : g # h => k \notin keyJob[g].key
      BY <1>1, <1>7 DEF AddKeyCommit, JobKnows, Bringing
    <2>2. /\ keyRows' = keyRows \cup {k} /\ keyGone' = keyGone /\ keyQuiet' = keyQuiet
          /\ keyJob'[h] = NoKeyJob
      BY <1>0, <1>7, <2>1 DEF AddKeyCommit
    <2>3. JobKnows(h)'
      BY <2>2 DEF JobKnows, NoKeyJob
    <2>4. ASSUME NEW g \in KeyHandlers, g # h PROVE JobKnows(g)'
      <3>1. ASSUME Bringing(g) PROVE Bringing(g)'
        <4>1. PICK j \in KeyIds : /\ keyJob[g].key = {j}
                                  /\ j \notin keyRows \cup keyGone
                                  /\ \A i \in KeyHandlers : i # g => j \notin keyJob[i].key
          BY <3>1 DEF Bringing
        <4>2. j # k
          BY <2>1, <2>4, <4>1
        <4>3. \A i \in KeyHandlers : i # g => j \notin keyJob'[i].key
          BY <1>2, <2>2, <4>1 DEF NoKeyJob
        <4>4. QED BY <1>2, <2>2, <2>4, <4>1, <4>2, <4>3 DEF Bringing
      <3>2. QED BY <1>1, <1>2, <2>2, <2>4, <3>1 DEF JobKnows
    <2>5. QED BY <1>0, <2>1, <2>2, <2>3, <2>4
  <1>8. CASE DeleteKeyCommit(h)
    <2>1. keyJob[h].key \subseteq keyRows \cup keyGone
      BY <1>1, <1>8 DEF DeleteKeyCommit, JobKnows
    <2>2. /\ keyRows' = keyRows \ keyJob[h].key /\ keyGone' = keyGone \cup keyJob[h].key
          /\ keyJob'[h] = NoKeyJob
          /\ keyQuiet' = [k \in KeyIds |-> IF k \in keyJob[h].key \cap keyRows THEN 0
                                          ELSE keyQuiet[k]]
      BY <1>0, <1>8 DEF DeleteKeyCommit
    <2>3. keyRows' \cup keyGone' = keyRows \cup keyGone
      BY <2>1, <2>2
    <2>4. \A g \in KeyHandlers : JobKnows(g)'
      BY <1>6, <2>2, <2>3
    <2>5. keyQuiet' \in [KeyIds -> 0 .. KeyTTL]
      BY <1>0, <2>2, KeyTTLAssumption
    <2>6. QED BY <1>0, <2>1, <2>2, <2>4, <2>5
  <1>9. CASE KeyJobFails(h)
    <2>1. /\ keyJob'[h] = NoKeyJob
          /\ keyRows' = keyRows /\ keyGone' = keyGone /\ keyQuiet' = keyQuiet
      BY <1>0, <1>9 DEF KeyJobFails
    <2>2. QED BY <1>0, <1>6, <2>1
  <1>10. QED BY <1>3, <1>4, <1>5, <1>7, <1>8, <1>9 DEF KeyHandlerStep

LEMMA KeyHandlerStepInv ==
    ASSUME KeyInv, NEW h \in KeyHandlers, KeyHandlerStep(h)
    PROVE  KeyInv'
  <1>1. \A r \in Forwards, k \in KeyIds : HoldsKey(r, k)' <=> HoldsKey(r, k)
    BY HandlerMove DEF HoldsKey
  <1>2. ProviderKeysTypeOK'
    BY HandlerMove, HandlerRows DEF KeyInv, ProviderKeysTypeOK
  <1>3. HeldIsKnown'
    <2> SUFFICES ASSUME NEW r \in Forwards, NEW k \in KeyIds, HoldsKey(r, k)
                 PROVE  /\ k \in keyRows' \cup keyGone'
                        /\ k \in keyGone' => keyQuiet'[k] = 0
      BY <1>1 DEF HeldIsKnown
    <2>1. k \in keyRows \cup keyGone /\ (k \in keyGone => keyQuiet[k] = 0)
      BY DEF KeyInv, HeldIsKnown
    <2>2. QED BY <2>1, HandlerRows
  <1>4. DeletedKeyExpires'
    <2> SUFFICES ASSUME NEW k \in KeyIds, copyLeft'[k] > 0, k \in keyGone'
                 PROVE  copyLeft'[k] + keyQuiet'[k] <= KeyTTL
      BY DEF DeletedKeyExpires, Copies
    <2>1. copyLeft'[k] = copyLeft[k] /\ copyLeft[k] \in 0 .. KeyTTL
      BY HandlerMove DEF KeyInv, ProviderKeysTypeOK
    <2>2. CASE k \in keyGone
      BY <2>1, <2>2, HandlerRows DEF KeyInv, DeletedKeyExpires, Copies
    <2>3. CASE k \notin keyGone
      <3>1. keyQuiet'[k] = 0
        BY <2>3, HandlerRows
      <3>2. QED BY <2>1, <3>1, KeyTTLAssumption
    <2>4. QED BY <2>2, <2>3
  <1>5. QED BY <1>2, <1>3, <1>4, HandlerRows DEF KeyInv

LEMMA KeyTickInv == KeyInv /\ KeyTick => KeyInv'
  <1> SUFFICES ASSUME KeyInv, KeyTick PROVE KeyInv'
    OBVIOUS
  <1>0. /\ keyRows' = keyRows /\ keyGone' = keyGone /\ keyJob' = keyJob /\ forward' = forward
        /\ copyLeft \in [KeyIds -> 0 .. KeyTTL] /\ keyQuiet \in [KeyIds -> 0 .. KeyTTL]
    BY DEF KeyTick, KeyInv, ProviderKeysTypeOK
  <1>1. copyLeft' = [k \in KeyIds |-> IF copyLeft[k] = 0 THEN 0 ELSE copyLeft[k] - 1]
    BY DEF KeyTick
  <1>2. keyQuiet' = [k \in KeyIds |->
                      IF k \in keyGone /\ (\E r \in Forwards : HoldsKey(r, k)) THEN 0
                      ELSE IF keyQuiet[k] = KeyTTL THEN KeyTTL ELSE keyQuiet[k] + 1]
    BY DEF KeyTick
  <1>3. copyLeft' \in [KeyIds -> 0 .. KeyTTL] /\ keyQuiet' \in [KeyIds -> 0 .. KeyTTL]
    <2>1. \A n \in 0 .. KeyTTL : /\ n # 0 => n - 1 \in 0 .. KeyTTL
                                 /\ n # KeyTTL => n + 1 \in 0 .. KeyTTL
                                 /\ 0 \in 0 .. KeyTTL /\ KeyTTL \in 0 .. KeyTTL
      BY KeyTTLAssumption
    <2>2. 0 \in 0 .. KeyTTL /\ KeyTTL \in 0 .. KeyTTL
      BY KeyTTLAssumption
    <2>3. copyLeft' \in [KeyIds -> 0 .. KeyTTL]
      BY <1>0, <1>1, <2>1, <2>2
    <2>4. keyQuiet' \in [KeyIds -> 0 .. KeyTTL]
      BY <1>0, <1>2, <2>1, <2>2
    <2>5. QED BY <2>3, <2>4
  <1>4. \A r \in Forwards, k \in KeyIds : HoldsKey(r, k)' <=> HoldsKey(r, k)
    BY <1>0 DEF HoldsKey
  <1>5. HeldIsKnown'
    BY <1>0, <1>2, <1>4 DEF KeyInv, HeldIsKnown
  <1>6. DeletedKeyExpires'
    <2> SUFFICES ASSUME NEW k \in KeyIds, copyLeft'[k] > 0, k \in keyGone
                 PROVE  copyLeft'[k] + keyQuiet'[k] <= KeyTTL
      BY <1>0 DEF DeletedKeyExpires, Copies
    <2>1. copyLeft[k] > 0 /\ copyLeft'[k] = copyLeft[k] - 1
      BY <1>0, <1>1, KeyTTLAssumption
    <2>2. copyLeft[k] + keyQuiet[k] <= KeyTTL
      BY <2>1 DEF KeyInv, DeletedKeyExpires, Copies
    <2>3. keyQuiet'[k] = 0 \/ keyQuiet'[k] = keyQuiet[k] \/ keyQuiet'[k] = keyQuiet[k] + 1
      BY <1>2
    <2>4. copyLeft[k] \in 0 .. KeyTTL /\ keyQuiet[k] \in 0 .. KeyTTL
      BY <1>0
    <2>5. QED BY <2>1, <2>2, <2>3, <2>4, KeyTTLAssumption
  <1>7. \A h \in KeyHandlers : JobKnows(h)'
    BY <1>0 DEF KeyInv, JobKnows, Bringing
  <1>8. ProviderKeysTypeOK'
    BY <1>0, <1>3 DEF KeyInv, ProviderKeysTypeOK
  <1>9. QED BY <1>0, <1>5, <1>6, <1>7, <1>8 DEF KeyInv

LEMMA KeyInvHolds == ProviderKeysSpec => []KeyInv
<1>1. KeyInv /\ UNCHANGED providerKeyVars => KeyInv'
  BY DEF KeyInv, providerKeyVars, ProviderKeysTypeOK, JobKnows, Bringing, HeldIsKnown, HoldsKey,
         DeletedKeyExpires, Copies
<1>2. KeyInv /\ [ProviderKeysNext]_providerKeyVars => KeyInv'
  BY <1>1, ForwardStepInv, KeyHandlerStepInv, KeyTickInv, KeyWhoSteps
<1>3. QED BY <1>2, KeyInvInit, PTL DEF ProviderKeysSpec

\* The copy of a deleted provider key dies within the TTL of the last request
\* that was caching it, whatever purges fail.
THEOREM DeletedKeysExpire == ProviderKeysSpec => []DeletedKeyExpires
<1>1. KeyInv => DeletedKeyExpires
  BY DEF KeyInv
<1>2. QED BY <1>1, KeyInvHolds, PTL

----------------------------------------------------------------------------
(* How many keys can be active at once.                                     *)

KeysBounded == IsFiniteSet(keyRows) /\ ActiveKeysBounded

LEMMA AddingFinite == IsFiniteSet(Adding) /\ Cardinality(Adding) \in Nat
                      /\ Cardinality(Adding) <= Cardinality(KeyHandlers)
                      /\ Cardinality(KeyHandlers) \in Nat
<1>1. Adding \in SUBSET KeyHandlers
  BY DEF Adding
<1>2. IsFiniteSet(Adding) /\ Cardinality(Adding) <= Cardinality(KeyHandlers)
  BY <1>1, KeyHandlersAssumption, FS_Subset
<1>3. QED BY <1>2, KeyHandlersAssumption, FS_CardinalityType

\* Neither more keys nor more handlers adding one.
LEMMA NoMore ==
    ASSUME KeysBounded, keyRows' \in SUBSET keyRows, Adding' \in SUBSET Adding
    PROVE  KeysBounded'
<1>1. IsFiniteSet(keyRows') /\ Cardinality(keyRows') <= Cardinality(keyRows)
  BY FS_Subset DEF KeysBounded
<1>2. IsFiniteSet(Adding') /\ Cardinality(Adding') <= Cardinality(Adding)
  BY AddingFinite, FS_Subset
<1>3. /\ Cardinality(keyRows) \in Nat /\ Cardinality(keyRows') \in Nat
      /\ Cardinality(Adding) \in Nat /\ Cardinality(Adding') \in Nat
  BY <1>1, <1>2, AddingFinite, FS_CardinalityType DEF KeysBounded
<1>4. QED BY <1>1, <1>2, <1>3, AddingFinite DEF KeysBounded, ActiveKeysBounded

LEMMA HandlerStepBounded ==
    ASSUME KeyInv, KeysBounded, NEW h \in KeyHandlers, KeyHandlerStep(h)
    PROVE  KeysBounded'
<1>0. keyJob \in [KeyHandlers -> KeyJob] /\ keyJob[h] \in KeyJob
  BY DEF KeyInv, ProviderKeysTypeOK
<1>1. \A g \in KeyHandlers : g # h => keyJob'[g] = keyJob[g]
  BY HandlerMove
<1>2. CASE \E k \in KeyIds : AddKeyCheck(h, k)
  <2>1. keyRows' = {} /\ keyRows = {}
    BY <1>2 DEF AddKeyCheck
  <2>2. IsFiniteSet(Adding)' /\ (Cardinality(Adding) <= Cardinality(KeyHandlers))'
        /\ (Cardinality(Adding) \in Nat)'
    <3>1. Adding' \in SUBSET KeyHandlers
      BY DEF Adding
    <3>2. IsFiniteSet(Adding') /\ Cardinality(Adding') <= Cardinality(KeyHandlers)
      BY <3>1, KeyHandlersAssumption, FS_Subset
    <3>3. QED BY <3>2, FS_CardinalityType
  <2>3. QED BY <2>1, <2>2, AddingFinite, FS_EmptySet DEF KeysBounded, ActiveKeysBounded
<1>3. CASE keyJob'[h].op # "add" \/ keyJob[h].op = "add"
  <2>1. Adding' \in SUBSET Adding
    BY <1>1, <1>3 DEF Adding
  <2>2. CASE ~AddKeyCommit(h) /\ ~(\E k \in KeyIds : AddKeyCheck(h, k))
    <3>1. keyRows' \in SUBSET keyRows
      BY <2>2 DEF KeyHandlerStep, DeleteKeyRead, AddKeyFlush, KeyPurge, DeleteKeyCommit,
                  KeyJobFails
    <3>2. QED BY <2>1, <3>1, NoMore
  <2>3. CASE AddKeyCommit(h)
    <3>1. PICK k \in KeyIds : keyJob[h].key = {k}
      BY <2>3 DEF AddKeyCommit, KeyInv, JobKnows, Bringing
    <3>2. keyRows' = keyRows \cup {k} /\ keyJob[h].op = "add" /\ keyJob'[h].op # "add"
      BY <1>0, <2>3, <3>1 DEF AddKeyCommit, NoKeyJob
    <3>3. Adding' = Adding \ {h} /\ h \in Adding
      BY <1>1, <3>2 DEF Adding
    <3>4. Cardinality(Adding') = Cardinality(Adding) - 1
      BY <3>3, AddingFinite, FS_RemoveElement
    <3>5. IsFiniteSet(keyRows') /\ Cardinality(keyRows') <= Cardinality(keyRows) + 1
          /\ Cardinality(keyRows) \in Nat /\ Cardinality(keyRows') \in Nat
      <4>1. IsFiniteSet(keyRows) /\ Cardinality(keyRows) \in Nat
        BY FS_CardinalityType DEF KeysBounded
      <4>2. IsFiniteSet(keyRows') /\ Cardinality(keyRows') \in {Cardinality(keyRows), Cardinality(keyRows) + 1}
        BY <3>2, <4>1, FS_AddElement
      <4>3. QED BY <4>1, <4>2
    <3>6. QED BY <3>4, <3>5, AddingFinite DEF KeysBounded, ActiveKeysBounded
  <2>4. QED BY <1>2, <2>2, <2>3
<1>4. CASE ~(\E k \in KeyIds : AddKeyCheck(h, k))
  <2>1. keyJob'[h].op # "add" \/ keyJob[h].op = "add"
    <3>1. CASE \E k \in KeyIds : DeleteKeyRead(h, k)
      BY <1>0, <3>1 DEF DeleteKeyRead
    <3>2. CASE AddKeyFlush(h)
      BY <3>2 DEF AddKeyFlush
    <3>3. CASE KeyPurge(h)
      <4>1. keyJob' = [keyJob EXCEPT ![h].pc = "purged"]
        BY <3>3 DEF KeyPurge
      <4>2. keyJob'[h].op = keyJob[h].op
        BY <1>0, <4>1 DEF KeyJob
      <4>3. QED BY <4>2
    <3>4. CASE AddKeyCommit(h) \/ DeleteKeyCommit(h) \/ KeyJobFails(h)
      BY <1>0, <3>4 DEF AddKeyCommit, DeleteKeyCommit, KeyJobFails, NoKeyJob
    <3>5. QED BY <1>4, <3>1, <3>2, <3>3, <3>4 DEF KeyHandlerStep
  <2>2. QED BY <1>3, <2>1
<1>5. QED BY <1>2, <1>4

\* There are never more active keys than add_key handlers can run at once.
THEOREM KeysAreBounded == ProviderKeysSpec => []ActiveKeysBounded
<1>1. ProviderKeysInit => KeysBounded
  <2> SUFFICES ASSUME ProviderKeysInit PROVE KeysBounded
    OBVIOUS
  <2>1. keyRows = {}
    BY DEF ProviderKeysInit
  <2>2. QED BY <2>1, AddingFinite, FS_EmptySet DEF KeysBounded, ActiveKeysBounded
<1>2. KeyInv /\ KeysBounded /\ [ProviderKeysNext]_providerKeyVars => KeysBounded'
  <2> SUFFICES ASSUME KeyInv, KeysBounded, [ProviderKeysNext]_providerKeyVars PROVE KeysBounded'
    OBVIOUS
  <2>1. CASE \E h \in KeyHandlers : KeyHandlerStep(h)
    BY <2>1, HandlerStepBounded
  <2>2. CASE keyRows' = keyRows /\ keyJob' = keyJob
    BY <2>2, NoMore DEF Adding
  <2>3. CASE \E r \in Forwards : ForwardStep(r)
    BY <2>2, <2>3 DEF ForwardStep, KeyHit, KeyRead, TestConnection, KeyMiss, KeyStore, ForwardEnds
  <2>4. QED BY <2>1, <2>2, <2>3, KeyWhoSteps DEF KeyTick, providerKeyVars
<1>3. KeysBounded => ActiveKeysBounded
  BY DEF KeysBounded
<1>4. QED BY <1>1, <1>2, <1>3, KeyInvHolds, PTL DEF ProviderKeysSpec

----------------------------------------------------------------------------
(* The refinement of RevocationLease.                                       *)

KeyTruth == [k \in KeyIds |-> IF k \in keyGone THEN "revoked"
                              ELSE IF k \in keyRows THEN "live" ELSE "absent"]
KeyReading == [k \in KeyIds |-> {r \in Forwards : HoldsKey(r, k)}]

\* Whatever r does without holding a key afterwards, the abstract holder has
\* finished.
LEMMA ForwardLetsGo ==
    ASSUME NEW r \in Forwards, UNCHANGED <<keyRows, keyGone, copyLeft>>,
           \A q \in Forwards : q # r => forward'[q] = forward[q],
           \A k \in KeyIds : ~HoldsKey(r, k)'
    PROVE  KeyLease!LeaseNext
  <1>1. KeyReading' = [k \in KeyIds |-> KeyReading[k] \ {r}]
    BY DEF KeyReading, HoldsKey
  <1>2. KeyLease!Finish(r)
    BY <1>1 DEF KeyLease!Finish, KeyReading
  <1>3. QED BY <1>2 DEF KeyLease!LeaseNext

LEMMA ForwardStepLeases ==
    ASSUME KeyInv, NEW r \in Forwards, ForwardStep(r)
    PROVE  KeyLease!LeaseNext
  <1>0. /\ keyRows' = keyRows /\ keyGone' = keyGone
        /\ \A q \in Forwards : q # r => forward'[q] = forward[q]
        /\ forward \in [Forwards -> Forward] /\ forward[r] \in Forward
        /\ copyLeft \in [KeyIds -> 0 .. KeyTTL]
    BY DEF ForwardStep, KeyHit, KeyRead, TestConnection, KeyMiss, KeyStore, ForwardEnds, KeyInv,
           ProviderKeysTypeOK
  <1>1. \A k \in KeyIds, q \in Forwards : q # r => (HoldsKey(q, k)' <=> HoldsKey(q, k))
    BY <1>0 DEF HoldsKey
  <1>2. CASE (\E k \in KeyIds : KeyHit(r, k) \/ TestConnection(r, k)) \/ KeyMiss(r) \/ ForwardEnds(r)
    <2>1. forward'[r].pc # "read" /\ copyLeft' = copyLeft
      BY <1>0, <1>2 DEF KeyHit, TestConnection, KeyMiss, ForwardEnds, NoForward
    <2>2. QED BY <1>0, <2>1, ForwardLetsGo DEF HoldsKey
  <1>3. CASE \E k \in KeyIds : KeyRead(r, k)
    <2>1. PICK k \in KeyIds : KeyRead(r, k)
      BY <1>3
    <2>2. /\ forward[r].pc = "missed" /\ forward'[r].pc = "read" /\ forward'[r].key = k
          /\ k \in keyRows /\ copyLeft' = copyLeft
      BY <1>0, <2>1 DEF KeyRead
    <2>3. \A j \in KeyIds : (HoldsKey(r, j)' <=> j = k) /\ ~HoldsKey(r, j)
      BY <2>2 DEF HoldsKey
    <2>4. \A j \in KeyIds : {q \in Forwards : HoldsKey(q, j)'}
                = {q \in Forwards : HoldsKey(q, j)} \cup (IF j = k THEN {r} ELSE {})
      BY <1>1, <2>3
    <2>5. KeyReading' = [KeyReading EXCEPT ![k] = KeyReading[k] \cup {r}]
      BY <2>4 DEF KeyReading
    <2>6. KeyTruth[k] = "live" /\ KeyTruth' = KeyTruth
      BY <1>0, <2>2 DEF KeyTruth, KeyInv
    <2>7. KeyLease!See(r, k)
      BY <2>2, <2>5, <2>6 DEF KeyLease!See, KeyReading, KeyTruth
    <2>8. QED BY <2>7 DEF KeyLease!LeaseNext
  <1>4. CASE KeyStore(r)
    <2>0. PICK k \in KeyIds : k = forward[r].key
      BY <1>0, <1>4, ForwardHasKey DEF KeyStore
    <2>1. forward[r].pc = "read" /\ forward'[r].pc = "calling"
      BY <1>0, <1>4 DEF KeyStore
    <2>2. CASE copyLeft' = copyLeft
      BY <1>0, <2>1, <2>2, ForwardLetsGo DEF HoldsKey
    <2>3. CASE copyLeft' = [j \in KeyIds |-> IF j = k THEN KeyTTL ELSE 0]
      <3>1. \A j \in KeyIds : ~HoldsKey(r, j)' /\ (HoldsKey(r, j) <=> j = k)
        BY <2>0, <2>1 DEF HoldsKey
      <3>2. \A j \in KeyIds : {q \in Forwards : HoldsKey(q, j)'}
                = {q \in Forwards : HoldsKey(q, j)} \ (IF j = k THEN {r} ELSE {})
        BY <1>1, <3>1
      <3>3. KeyReading' = [KeyReading EXCEPT ![k] = KeyReading[k] \ {r}]
        BY <3>2 DEF KeyReading
      <3>4. copyLeft' = [j \in KeyIds |-> IF j = k THEN KeyTTL
                                          ELSE IF j \in KeyIds \ {k} THEN 0 ELSE copyLeft[j]]
        BY <2>3
      <3>5. \E ks \in SUBSET (KeyIds \ {k}) :
              copyLeft' = [j \in KeyIds |-> IF j = k THEN KeyTTL
                                            ELSE IF j \in ks THEN 0 ELSE copyLeft[j]]
        <4>1. KeyIds \ {k} \in SUBSET (KeyIds \ {k})
          OBVIOUS
        <4>2. QED BY <3>4, <4>1
      <3>6. r \in KeyReading[k] /\ KeyTruth' = KeyTruth
        BY <1>0, <3>1 DEF KeyReading, KeyTruth
      <3>7. KeyLease!Write(r, k)
        BY <3>3, <3>5, <3>6 DEF KeyLease!Write, KeyReading, KeyTruth
      <3>8. QED BY <3>7 DEF KeyLease!LeaseNext
    <2>4. QED BY <1>4, <2>0, <2>2, <2>3 DEF KeyStore
  <1>5. QED BY <1>2, <1>3, <1>4 DEF ForwardStep

LEMMA KeyHandlerStepLeases ==
    ASSUME KeyInv, NEW h \in KeyHandlers, KeyHandlerStep(h)
    PROVE  KeyLease!LeaseNext \/ UNCHANGED KeyLease!leaseVars
  <1>0. keyRows \cap keyGone = {} /\ keyRows \subseteq KeyIds /\ keyGone \subseteq KeyIds
        /\ copyLeft \in [KeyIds -> 0 .. KeyTTL]
    BY DEF KeyInv, ProviderKeysTypeOK
  <1>1. KeyReading' = KeyReading
    BY HandlerMove DEF KeyReading, HoldsKey
  <1>2. CASE UNCHANGED <<keyRows, keyGone, copyLeft>>
    BY <1>1, <1>2 DEF KeyLease!leaseVars, KeyReading
  <1>3. CASE KeyPurge(h)
    <2>1. CASE copyLeft' = copyLeft
      BY <1>2, <1>3, <2>1 DEF KeyPurge
    <2>2. CASE copyLeft' = [k \in KeyIds |-> 0]
      <3>1. copyLeft' = [k \in KeyIds |-> IF k \in KeyIds THEN 0 ELSE copyLeft[k]]
        BY <2>2
      <3>2. KeyLease!Withdraw(KeyIds)
        BY <1>1, <1>3, <3>1 DEF KeyPurge, KeyLease!Withdraw, KeyReading
      <3>3. KeyIds \in SUBSET KeyIds
        OBVIOUS
      <3>4. QED BY <3>2, <3>3 DEF KeyLease!LeaseNext
    <2>3. QED BY <1>3, <2>1, <2>2 DEF KeyPurge
  <1>4. CASE AddKeyCommit(h)
    <2>1. PICK k \in KeyIds : keyJob[h].key = {k} /\ k \notin keyRows \cup keyGone
      BY <1>4 DEF AddKeyCommit, KeyInv, JobKnows, Bringing
    <2>2. keyRows' = keyRows \cup {k} /\ keyGone' = keyGone /\ copyLeft' = copyLeft
      BY <1>4, <2>1 DEF AddKeyCommit
    <2>3. KeyTruth[k] = "absent" /\ KeyTruth' = [KeyTruth EXCEPT ![k] = "live"]
      BY <2>1, <2>2 DEF KeyTruth
    <2>4. KeyLease!Grant(k)
      BY <1>1, <2>2, <2>3 DEF KeyLease!Grant, KeyReading, KeyTruth
    <2>5. QED BY <2>4 DEF KeyLease!LeaseNext
  <1>5. CASE DeleteKeyCommit(h)
    <2>1. PICK ks \in SUBSET KeyIds : ks = keyJob[h].key \cap keyRows
      BY <1>0
    <2>2. keyRows' = keyRows \ ks /\ keyGone' = keyGone \cup ks /\ copyLeft' = copyLeft
      BY <1>5, <2>1 DEF DeleteKeyCommit, KeyInv, JobKnows
    <2>3. \A k \in KeyIds : KeyTruth'[k] = IF k \in ks THEN "revoked" ELSE KeyTruth[k]
      BY <2>1, <2>2 DEF KeyTruth
    <2>4. KeyTruth' = [k \in KeyIds |-> IF k \in ks THEN "revoked" ELSE KeyTruth[k]]
      BY <2>3 DEF KeyTruth
    <2>5. \A k \in ks : KeyTruth[k] = "live"
      BY <1>0, <2>1 DEF KeyTruth
    <2>6. KeyLease!Revoke(ks)
      BY <1>1, <2>2, <2>4, <2>5 DEF KeyLease!Revoke, KeyReading, KeyTruth
    <2>7. QED BY <2>6 DEF KeyLease!LeaseNext
  <1>6. QED
    BY <1>2, <1>3, <1>4, <1>5
       DEF KeyHandlerStep, AddKeyCheck, DeleteKeyRead, AddKeyFlush, KeyJobFails

\* The ciphertext copy of a provider key, rotation included, implements the
\* lease that the proxy-key cache implements: "the same contract".
THEOREM CopyImplementsLease == ProviderKeysSpec => CopyIsLease
<1>1. ProviderKeysInit => KeyLease!LeaseInit
  <2> SUFFICES ASSUME ProviderKeysInit PROVE KeyLease!LeaseInit
    OBVIOUS
  <2>1. KeyReading = [k \in KeyIds |-> {}] /\ KeyTruth = [k \in KeyIds |-> "absent"]
    BY DEF ProviderKeysInit, KeyReading, KeyTruth, HoldsKey, NoForward
  <2>2. KeyTruth \in [KeyIds -> {"absent", "live"}]
    BY <2>1
  <2>3. QED BY <2>1, <2>2 DEF ProviderKeysInit, KeyLease!LeaseInit, KeyReading, KeyTruth
<1>2. KeyInv /\ [ProviderKeysNext]_providerKeyVars => [KeyLease!LeaseNext]_KeyLease!leaseVars
  <2> SUFFICES ASSUME KeyInv, [ProviderKeysNext]_providerKeyVars
               PROVE  KeyLease!LeaseNext \/ UNCHANGED KeyLease!leaseVars
    OBVIOUS
  <2>1. CASE \E r \in Forwards : ForwardStep(r)
    BY <2>1, ForwardStepLeases
  <2>2. CASE \E h \in KeyHandlers : KeyHandlerStep(h)
    BY <2>2, KeyHandlerStepLeases
  <2>3. CASE KeyTick
    <3>1. KeyReading' = KeyReading /\ KeyTruth' = KeyTruth
      BY <2>3 DEF KeyTick, KeyReading, KeyTruth, HoldsKey
    <3>2. KeyLease!Age
      BY <2>3, <3>1 DEF KeyTick, KeyLease!Age, KeyReading, KeyTruth
    <3>3. QED BY <3>2 DEF KeyLease!LeaseNext
  <2>4. CASE UNCHANGED providerKeyVars
    BY <2>4 DEF providerKeyVars, KeyLease!leaseVars, HoldsKey
  <2>5. QED BY <2>1, <2>2, <2>3, <2>4, KeyWhoSteps
<1>3. QED BY <1>1, <1>2, KeyInvHolds, PTL DEF ProviderKeysSpec, CopyIsLease, KeyLease!LeaseSpec

----------------------------------------------------------------------------
(* Refresh tokens.                                                         *)

\* r will insert a token when it commits.
Issuing(r) == authReq[r].pc \in {"signin", "rotate"}

\* The row it will insert is nobody else's, and not there yet.
OwnsItsToken(r) ==
    Issuing(r) => /\ authReq[r].new \in 1 .. issued
                  /\ token[authReq[r].new] = NoToken
                  /\ \A q \in AuthRequests : q # r /\ Issuing(q) => authReq[q].new # authReq[r].new

RotatesKnown(r) == authReq[r].pc = "rotate" => authReq[r].old \in Tokens /\ Known(authReq[r].old)

\* What r is about to revoke are committed rows.
RevokesKnown(r) ==
    /\ authReq[r].pc \in {"reuse", "logout"} => authReq[r].old # 0
    /\ \A t \in authReq[r].held : Known(t)

\* A family is named by a token of its own.
Rooted(t) == /\ Known(t) => /\ t <= issued
                            /\ token[t].family \in Tokens
                            /\ Known(token[t].family)
             /\ ~Known(t) => token[t] = NoToken

\* Only an exchanged token has successors.
ChildNeedsConsumed(t) == ~token[t].consumed => \A n \in Tokens : token[n].parent # t

TokenRows == \A t \in Tokens : Rooted(t) /\ ChildNeedsConsumed(t)
TokenJobs == \A r \in AuthRequests : OwnsItsToken(r) /\ RotatesKnown(r) /\ RevokesKnown(r)
TokenInv == RefreshTokensTypeOK /\ TokenRows /\ TokenJobs

TokenRow == [family : 0 .. MaxTokens, parent : 0 .. MaxTokens, consumed : BOOLEAN, revoked : BOOLEAN]
TokenJob == [pc : {"idle", "signin", "rotate", "reuse", "logout", "revoking"},
        old : 0 .. MaxTokens, new : 0 .. MaxTokens, held : SUBSET Tokens]

\* Steps of one request, by what they do to the table.
Reads(r) ==
    \/ SignIn(r) \/ LogoutUpdate(r) \/ AuthReqEnds(r)
    \/ \E t \in Tokens : RotateRead(r, t) \/ ReuseDetected(r, t) \/ LogoutRead(r, t)
Revokes(r) == RevokeFamily(r) \/ LogoutCommit(r)

LEMMA TokenWhoSteps ==
    RefreshTokensNext <=>
        \E r \in AuthRequests : Reads(r) \/ Revokes(r) \/ SignInCommit(r) \/ RotateCommit(r)
  BY DEF RefreshTokensNext, Reads, Revokes

LEMMA TokenTypeParts ==
    RefreshTokensTypeOK <=> /\ issued \in 0 .. MaxTokens
                            /\ token \in [Tokens -> TokenRow]
                            /\ authReq \in [AuthRequests -> TokenJob]
  BY DEF RefreshTokensTypeOK, TokenRow, TokenJob

LEMMA NoTokenRow == NoToken \in TokenRow /\ NoToken.family = 0 /\ NoToken.parent = 0
                    /\ NoToken.consumed = FALSE
  BY MaxTokensAssumption DEF NoToken, TokenRow

LEMMA TokenInvInit == RefreshTokensInit => TokenInv
<1> SUFFICES ASSUME RefreshTokensInit PROVE TokenInv
  OBVIOUS
<1>1. RefreshTokensTypeOK
  <2>1. NoAuthReq \in TokenJob
    BY MaxTokensAssumption DEF NoAuthReq, TokenJob
  <2>2. QED BY <2>1, NoTokenRow, TokenTypeParts, MaxTokensAssumption DEF RefreshTokensInit
<1>2. TokenRows
  BY NoTokenRow DEF RefreshTokensInit, TokenRows, Rooted, ChildNeedsConsumed, Known, Tokens
<1>3. TokenJobs
  BY DEF RefreshTokensInit, TokenJobs, OwnsItsToken, RotatesKnown, RevokesKnown, Issuing, NoAuthReq
<1>4. QED BY <1>1, <1>2, <1>3 DEF TokenInv

----------------------------------------------------------------------------
(* What the steps do.                                                       *)

\* A request that reads takes up a token number nobody has, or none.
LEMMA ReadsMove ==
    ASSUME TokenInv, NEW r \in AuthRequests, Reads(r)
    PROVE  /\ token' = token
           /\ issued' \in 0 .. MaxTokens /\ issued <= issued'
           /\ \A q \in AuthRequests : q # r => authReq'[q] = authReq[q]
           /\ authReq'[r] \in TokenJob
           /\ Issuing(r)' => issued' = issued + 1 /\ authReq'[r].new = issued'
           /\ authReq'[r].pc = "rotate" => /\ authReq'[r].old \in Tokens
                                           /\ Known(authReq'[r].old)
                                           /\ Accepted(authReq'[r].old)
           /\ RevokesKnown(r)'
  <1>0. /\ issued \in 0 .. MaxTokens /\ authReq \in [AuthRequests -> TokenJob]
        /\ token \in [Tokens -> TokenRow] /\ authReq[r] \in TokenJob
    BY TokenTypeParts DEF TokenInv
  <1>a. 0 \in 0 .. MaxTokens /\ \A t \in Tokens : t \in 0 .. MaxTokens /\ token[t].family \in 0 .. MaxTokens
    BY <1>0, MaxTokensAssumption DEF Tokens, TokenRow
  <1>b. \A t \in Tokens : token[t].consumed => Known(t)
    BY NoTokenRow DEF TokenInv, TokenRows, Rooted
  <1>c. ASSUME token' = token, authReq'[r].held = {}, authReq'[r].pc \in {"reuse", "logout"} => authReq'[r].old # 0
        PROVE  RevokesKnown(r)'
    BY <1>c DEF RevokesKnown
  <1>1. CASE SignIn(r)
    <2>1. issued' = issued + 1 /\ issued' \in 0 .. MaxTokens /\ token' = token
      BY <1>0, <1>1, MaxTokensAssumption DEF SignIn
    <2>2. /\ authReq'[r] = [pc |-> "signin", old |-> 0, new |-> issued', held |-> {}]
          /\ \A q \in AuthRequests : q # r => authReq'[q] = authReq[q]
      BY <1>0, <1>1, <2>1 DEF SignIn
    <2>3. QED BY <1>0, <1>a, <1>c, <2>1, <2>2 DEF TokenJob
  <1>2. CASE \E t \in Tokens : RotateRead(r, t)
    <2>0. PICK t \in Tokens : RotateRead(r, t)
      BY <1>2
    <2>1. /\ issued' = issued + 1 /\ issued' \in 0 .. MaxTokens /\ token' = token
          /\ Known(t) /\ Accepted(t)
      BY <1>0, <2>0, MaxTokensAssumption DEF RotateRead
    <2>2. /\ authReq'[r] = [pc |-> "rotate", old |-> t, new |-> issued', held |-> {}]
          /\ \A q \in AuthRequests : q # r => authReq'[q] = authReq[q]
      BY <1>0, <2>0, <2>1 DEF RotateRead
    <2>3. QED BY <1>0, <1>a, <1>c, <2>1, <2>2 DEF TokenJob
  <1>3. CASE LogoutUpdate(r)
    <2>1. /\ issued' = issued /\ token' = token
          /\ authReq' = [authReq EXCEPT ![r].pc = "revoking", ![r].held = Unrevoked(authReq[r].old)]
      BY <1>3 DEF LogoutUpdate
    <2>2. Unrevoked(authReq[r].old) \in SUBSET Tokens
      BY DEF Unrevoked, Family
    <2>3. authReq'[r] \in TokenJob /\ authReq'[r].pc = "revoking"
      BY <1>0, <2>1, <2>2 DEF TokenJob
    <2>4. \A q \in AuthRequests : q # r => authReq'[q] = authReq[q]
      BY <1>0, <2>1
    <2>5. RevokesKnown(r)'
      <3>1. authReq'[r].held = Unrevoked(authReq[r].old) /\ authReq[r].old # 0
        BY <1>0, <1>3, <2>1 DEF LogoutUpdate, TokenInv, TokenJobs, RevokesKnown, TokenJob
      <3>2. \A t \in Unrevoked(authReq[r].old) : Known(t)
        BY <3>1 DEF Unrevoked, Family, Known
      <3>3. QED BY <2>1, <2>3, <3>1, <3>2 DEF RevokesKnown, Known
    <2>6. QED BY <1>0, <2>1, <2>3, <2>4, <2>5 DEF Issuing
  <1>4. CASE AuthReqEnds(r)
    <2>1. issued' = issued /\ token' = token /\ authReq'[r] = NoAuthReq
          /\ \A q \in AuthRequests : q # r => authReq'[q] = authReq[q]
      BY <1>0, <1>4 DEF AuthReqEnds
    <2>2. QED BY <1>0, <1>a, <1>c, <2>1 DEF TokenJob, NoAuthReq, Issuing
  <1>5. CASE \E t \in Tokens : ReuseDetected(r, t)
    <2>0. PICK t \in Tokens : ReuseDetected(r, t)
      BY <1>5
    <2>1. issued' = issued /\ token' = token
          /\ authReq'[r] = [pc |-> "reuse", old |-> token[t].family, new |-> 0, held |-> {}]
          /\ \A q \in AuthRequests : q # r => authReq'[q] = authReq[q]
      BY <1>0, <2>0 DEF ReuseDetected
    <2>2. token[t].family # 0
      BY <1>b, <2>0 DEF ReuseDetected, Known
    <2>3. RevokesKnown(r)'
      BY <1>c, <2>1, <2>2
    <2>4. QED BY <1>0, <1>a, <2>1, <2>3 DEF TokenJob, Issuing
  <1>6. CASE \E t \in Tokens : LogoutRead(r, t)
    <2>0. PICK t \in Tokens : LogoutRead(r, t)
      BY <1>6
    <2>1. issued' = issued /\ token' = token
          /\ authReq'[r] = [pc |-> "logout", old |-> token[t].family, new |-> 0, held |-> {}]
          /\ \A q \in AuthRequests : q # r => authReq'[q] = authReq[q]
      BY <1>0, <2>0 DEF LogoutRead
    <2>2. token[t].family # 0
      BY <2>0 DEF LogoutRead, Known
    <2>3. RevokesKnown(r)'
      BY <1>c, <2>1, <2>2
    <2>4. QED BY <1>0, <1>a, <2>1, <2>3 DEF TokenJob, Issuing
  <1>7. QED BY <1>1, <1>2, <1>3, <1>4, <1>5, <1>6 DEF Reads

\* A step that commits is over with its request.
LEMMA CommitMove ==
    ASSUME TokenInv, NEW r \in AuthRequests, Revokes(r) \/ SignInCommit(r) \/ RotateCommit(r)
    PROVE  /\ issued' = issued
           /\ authReq'[r] = NoAuthReq
           /\ \A q \in AuthRequests : q # r => authReq'[q] = authReq[q]
           /\ authReq' \in [AuthRequests -> TokenJob]
  <1>1. issued' = issued /\ authReq' = [authReq EXCEPT ![r] = NoAuthReq]
    BY DEF Revokes, RevokeFamily, LogoutCommit, SignInCommit, RotateCommit
  <1>2. authReq \in [AuthRequests -> TokenJob]
    BY TokenTypeParts DEF TokenInv
  <1>3. NoAuthReq \in TokenJob
    BY MaxTokensAssumption DEF NoAuthReq, TokenJob
  <1>4. QED BY <1>1, <1>2, <1>3

\* Revoking changes nothing but the mark.
LEMMA RevokeMove ==
    ASSUME TokenInv, NEW r \in AuthRequests, Revokes(r)
    PROVE  /\ token' \in [Tokens -> TokenRow]
           /\ \A t \in Tokens : /\ token'[t].family = token[t].family
                                /\ token'[t].parent = token[t].parent
                                /\ token'[t].consumed = token[t].consumed
                                /\ token[t].revoked => token'[t].revoked
                                /\ token[t].family = 0 => token'[t] = token[t]
  <1>0. token \in [Tokens -> TokenRow] /\ authReq[r] \in TokenJob
    BY TokenTypeParts DEF TokenInv
  <1>1. ASSUME NEW ts, RevokeTokens(ts), \A t \in Tokens : t \in ts => token[t].family # 0
        PROVE  /\ token' \in [Tokens -> TokenRow]
               /\ \A t \in Tokens : /\ token'[t].family = token[t].family
                                    /\ token'[t].parent = token[t].parent
                                    /\ token'[t].consumed = token[t].consumed
                                    /\ token[t].revoked => token'[t].revoked
                                    /\ token[t].family = 0 => token'[t] = token[t]
    <2>1. ASSUME NEW t \in Tokens
          PROVE  /\ [token[t] EXCEPT !.revoked = TRUE] \in TokenRow
                 /\ [token[t] EXCEPT !.revoked = TRUE].family = token[t].family
                 /\ [token[t] EXCEPT !.revoked = TRUE].parent = token[t].parent
                 /\ [token[t] EXCEPT !.revoked = TRUE].consumed = token[t].consumed
                 /\ [token[t] EXCEPT !.revoked = TRUE].revoked
      BY <1>0 DEF TokenRow
    <2>2. \A t \in Tokens : token'[t] = IF t \in ts THEN [token[t] EXCEPT !.revoked = TRUE] ELSE token[t]
      BY <1>1 DEF RevokeTokens
    <2>3. token' \in [Tokens -> TokenRow]
      BY <1>0, <1>1, <2>1 DEF RevokeTokens
    <2>4. QED BY <1>1, <2>1, <2>2, <2>3
  <1>2. CASE RevokeFamily(r)
    <2>1. authReq[r].old # 0 /\ RevokeTokens(Unrevoked(authReq[r].old))
      BY <1>2 DEF RevokeFamily, TokenInv, TokenJobs, RevokesKnown
    <2>2. \A t \in Unrevoked(authReq[r].old) : token[t].family # 0
      BY <2>1 DEF Unrevoked, Family
    <2>3. QED BY <1>1, <2>1, <2>2
  <1>3. CASE LogoutCommit(r)
    <2>1. RevokeTokens(authReq[r].held) /\ \A t \in authReq[r].held : token[t].family # 0
      BY <1>3 DEF LogoutCommit, TokenInv, TokenJobs, RevokesKnown, Known
    <2>2. QED BY <1>1, <2>1
  <1>4. QED BY <1>2, <1>3 DEF Revokes

\* TokenRow n is filled, as the successor of t (0: of none) in family f.
Fills(n, t, f) ==
    /\ token'[n] = [family |-> f, parent |-> t, consumed |-> FALSE, revoked |-> FALSE]
    /\ \A u \in Tokens \ {n} : /\ token'[u].family = token[u].family
                               /\ token'[u].parent = token[u].parent
                               /\ token'[u].revoked = token[u].revoked
                               /\ u = t => token'[u].consumed
                               /\ u # t => token'[u].consumed = token[u].consumed
                               /\ ~Known(u) => token'[u] = token[u]
    /\ token' \in [Tokens -> TokenRow]

\* Whose row, and of which family, is told by the request.
Inserts(r, n, t, f) ==
    /\ n = authReq[r].new /\ token[n] = NoToken
    /\ \/ t = 0 /\ f = n /\ authReq[r].pc = "signin"
       \/ t \in Tokens /\ t # n /\ t = authReq[r].old /\ authReq[r].pc = "rotate"
          /\ Known(t) /\ f = token[t].family
    /\ Fills(n, t, f)

\* A commit of sign-in or rotation fills the blank row it owns, with a family
\* and no successor; a rotation marks the token it exchanges, too.
LEMMA InsertMove ==
    ASSUME TokenInv, NEW r \in AuthRequests, SignInCommit(r) \/ RotateCommit(r)
    PROVE  \E n \in Tokens, t \in 0 .. MaxTokens, f \in Tokens : Inserts(r, n, t, f)
  <1>0. /\ issued \in 0 .. MaxTokens /\ token \in [Tokens -> TokenRow] /\ authReq[r] \in TokenJob
        /\ 1 .. issued \subseteq Tokens
    BY TokenTypeParts, MaxTokensAssumption DEF TokenInv, Tokens
  <1>1. PICK n \in 1 .. issued : n = authReq[r].new /\ token[n] = NoToken
    BY DEF TokenInv, TokenJobs, OwnsItsToken, Issuing, SignInCommit, RotateCommit
  <1>2. n \in Tokens /\ ~Known(n)
    BY <1>0, <1>1, NoTokenRow DEF Known
  <1>3. CASE SignInCommit(r)
    <2>1. token' = [token EXCEPT ![n] = [family |-> n, parent |-> 0,
                                         consumed |-> FALSE, revoked |-> FALSE]]
      BY <1>1, <1>3 DEF SignInCommit
    <2>2. [family |-> n, parent |-> 0, consumed |-> FALSE, revoked |-> FALSE] \in TokenRow
          /\ 0 \in 0 .. MaxTokens
      BY <1>2, MaxTokensAssumption DEF TokenRow, Tokens
    <2>3. token' \in [Tokens -> TokenRow]
      BY <1>0, <2>1, <2>2
    <2>4. \A u \in Tokens \ {n} : token'[u] = token[u] /\ u # 0 /\ token[u].consumed \in BOOLEAN
      BY <1>0, <2>1 DEF Tokens, TokenRow
    <2>5. token'[n] = [family |-> n, parent |-> 0, consumed |-> FALSE, revoked |-> FALSE]
      BY <1>0, <1>2, <2>1
    <2>6. Fills(n, 0, n)
      <3>1. \A u \in Tokens \ {n} : u # 0 /\ token'[u].consumed = token[u].consumed
        BY <2>4
      <3>2. QED BY <2>3, <2>4, <2>5, <3>1 DEF Fills
    <2>7. authReq[r].pc = "signin"
      BY <1>3 DEF SignInCommit
    <2>8. Inserts(r, n, 0, n)
      BY <1>1, <2>6, <2>7 DEF Inserts
    <2>9. QED BY <1>2, <2>2, <2>8
  <1>4. CASE RotateCommit(r) /\ ~SignInCommit(r)
    <2>1. PICK t \in Tokens : t = authReq[r].old /\ authReq[r].pc = "rotate" /\ Known(t)
      BY <1>4 DEF RotateCommit, TokenInv, TokenJobs, RotatesKnown
    <2>2. t # n /\ token[t].family \in Tokens /\ t \in 0 .. MaxTokens
      BY <1>2, <2>1, MaxTokensAssumption DEF TokenInv, TokenRows, Rooted, Tokens
    <2>3. PICK f \in Tokens : f = token[t].family
      BY <2>2
    <2>4. token' = [token EXCEPT ![t].consumed = TRUE,
                                 ![n] = [family |-> f, parent |-> t,
                                         consumed |-> FALSE, revoked |-> FALSE]]
      BY <1>1, <1>4, <2>1, <2>3 DEF RotateCommit
    <2>5. [family |-> f, parent |-> t, consumed |-> FALSE, revoked |-> FALSE] \in TokenRow
      BY <2>2, MaxTokensAssumption DEF TokenRow, Tokens
    <2>6. [token[t] EXCEPT !.consumed = TRUE] \in TokenRow
          /\ [token[t] EXCEPT !.consumed = TRUE].family = token[t].family
          /\ [token[t] EXCEPT !.consumed = TRUE].parent = token[t].parent
          /\ [token[t] EXCEPT !.consumed = TRUE].revoked = token[t].revoked
          /\ [token[t] EXCEPT !.consumed = TRUE].consumed = TRUE
      BY <1>0 DEF TokenRow
    <2>7. token'[n] = [family |-> f, parent |-> t, consumed |-> FALSE, revoked |-> FALSE]
          /\ token'[t] = [token[t] EXCEPT !.consumed = TRUE]
          /\ \A u \in Tokens \ {n, t} : token'[u] = token[u]
      BY <1>0, <1>2, <2>2, <2>4
    <2>8. token' \in [Tokens -> TokenRow]
      BY <1>0, <2>4, <2>5, <2>6
    <2>9. \A u \in Tokens : token[u].consumed \in BOOLEAN
      BY <1>0 DEF TokenRow
    <2>10. \A u \in Tokens \ {n} :
                  /\ token'[u].family = token[u].family
                  /\ token'[u].parent = token[u].parent
                  /\ token'[u].revoked = token[u].revoked
                  /\ u = t => token'[u].consumed
                  /\ u # t => token'[u].consumed = token[u].consumed
                  /\ ~Known(u) => token'[u] = token[u]
      <3> SUFFICES ASSUME NEW u \in Tokens \ {n}
                   PROVE  /\ token'[u].family = token[u].family
                          /\ token'[u].parent = token[u].parent
                          /\ token'[u].revoked = token[u].revoked
                          /\ u = t => token'[u].consumed
                          /\ u # t => token'[u].consumed = token[u].consumed
                          /\ ~Known(u) => token'[u] = token[u]
        OBVIOUS
      <3>1. CASE u = t
        BY <2>1, <2>6, <2>7, <2>9, <3>1
      <3>2. CASE u # t
        BY <2>7, <2>9, <3>2
      <3>3. QED BY <3>1, <3>2
    <2>11. Fills(n, t, f)
      BY <2>7, <2>8, <2>10 DEF Fills
    <2>12. Inserts(r, n, t, f)
      BY <1>1, <2>1, <2>2, <2>3, <2>11 DEF Inserts
    <2>13. QED BY <1>2, <2>2, <2>12
  <1>5. QED BY <1>3, <1>4

----------------------------------------------------------------------------
(* The invariant.                                                           *)

LEMMA ReadsInv ==
    ASSUME TokenInv, NEW r \in AuthRequests, Reads(r)
    PROVE  TokenInv'
  <1>0. authReq \in [AuthRequests -> TokenJob] /\ issued \in 0 .. MaxTokens /\ issued' \in 0 .. MaxTokens
    BY TokenTypeParts, ReadsMove DEF TokenInv
  <1>1. authReq' \in [AuthRequests -> TokenJob]
    <2>1. \E v \in TokenJob : authReq' = [authReq EXCEPT ![r] = v]
      <3>1. authReq' = [authReq EXCEPT ![r] = authReq'[r]]
        BY <1>0 DEF Reads, SignIn, LogoutUpdate, AuthReqEnds, RotateRead, ReuseDetected, LogoutRead
      <3>2. QED BY <3>1, ReadsMove
    <2>2. QED BY <1>0, <2>1
  <1>2. RefreshTokensTypeOK'
    BY <1>1, ReadsMove, TokenTypeParts DEF TokenInv, RefreshTokensTypeOK, TokenRow, TokenJob
  <1>3. TokenRows'
    <2>1. \A t \in Tokens : t <= issued => t <= issued'
      BY <1>0, ReadsMove DEF Tokens
    <2>2. QED BY <2>1, ReadsMove DEF TokenInv, TokenRows, Rooted, ChildNeedsConsumed, Known
  <1>4. ASSUME NEW q \in AuthRequests
        PROVE  RotatesKnown(q)' /\ RevokesKnown(q)'
    <2>1. CASE q = r
      BY <2>1, ReadsMove DEF RotatesKnown, Known
    <2>2. CASE q # r
      BY <2>2, ReadsMove DEF RotatesKnown, RevokesKnown, Known, TokenInv, TokenJobs
    <2>3. QED BY <2>1, <2>2
  <1>5. ASSUME NEW q \in AuthRequests, Issuing(q)' PROVE OwnsItsToken(q)'
    <2>1. \A p \in AuthRequests : p # r /\ Issuing(p)' => authReq'[p].new \in 1 .. issued
      BY ReadsMove DEF TokenInv, TokenJobs, OwnsItsToken, Issuing
    <2>2. Issuing(r)' => authReq'[r].new = issued + 1 /\ issued' = issued + 1
      BY ReadsMove
    <2>3. Issuing(r)' => token[issued + 1] = NoToken
      <3> SUFFICES ASSUME Issuing(r)' PROVE token[issued + 1] = NoToken
        OBVIOUS
      <3>1. issued + 1 \in Tokens
        BY <1>0, <2>2 DEF Tokens
      <3>2. SignIn(r) \/ \E t \in Tokens : RotateRead(r, t)
        <4>1. LogoutUpdate(r) => authReq'[r].pc = "revoking"
          <5>1. LogoutUpdate(r) =>
                  authReq' = [authReq EXCEPT ![r].pc = "revoking", ![r].held = Unrevoked(authReq[r].old)]
            BY DEF LogoutUpdate
          <5>2. QED BY <1>0, <5>1 DEF TokenJob
        <4>2. AuthReqEnds(r) => authReq'[r].pc = "idle"
          BY <1>0 DEF AuthReqEnds, NoAuthReq
        <4>3. \A t \in Tokens : /\ ReuseDetected(r, t) => authReq'[r].pc = "reuse"
                                /\ LogoutRead(r, t) => authReq'[r].pc = "logout"
          BY <1>0 DEF ReuseDetected, LogoutRead
        <4>4. QED BY <4>1, <4>2, <4>3 DEF Reads, Issuing
      <3>3. QED BY <1>0, <3>1, <3>2 DEF TokenInv, TokenRows, Rooted, Tokens
    <2>4. CASE q = r
      <3>1. issued' \in 1 .. issued' /\ \A n \in 1 .. issued : n # issued'
        BY <1>0, <1>5, <2>2, <2>4
      <3>2. QED BY <1>5, <2>1, <2>2, <2>3, <2>4, <3>1, ReadsMove DEF OwnsItsToken
    <2>5. CASE q # r
      <3>1. authReq'[q] = authReq[q] /\ Issuing(q) /\ OwnsItsToken(q)
        BY <1>5, <2>5, ReadsMove DEF Issuing, TokenInv, TokenJobs
      <3>2. authReq[q].new \in 1 .. issued'
        BY <1>0, <3>1, ReadsMove DEF OwnsItsToken
      <3>3. \A p \in AuthRequests : p # q /\ p # r /\ Issuing(p)' => authReq'[p].new # authReq[q].new
        BY <3>1, ReadsMove DEF OwnsItsToken, Issuing
      <3>4. Issuing(r)' => authReq'[r].new # authReq[q].new
        BY <1>0, <2>2, <3>1 DEF OwnsItsToken
      <3>5. QED BY <3>1, <3>2, <3>3, <3>4, ReadsMove DEF OwnsItsToken
    <2>6. QED BY <2>4, <2>5
  <1>6. QED BY <1>2, <1>3, <1>4, <1>5 DEF TokenInv, TokenJobs, OwnsItsToken

\* What the others promise survives a commit that leaves their rows alone.
LEMMA CommitJobs ==
    ASSUME TokenInv, NEW r \in AuthRequests, issued' = issued,
           authReq'[r] = NoAuthReq,
           \A q \in AuthRequests : q # r => authReq'[q] = authReq[q],
           \A t \in Tokens : Known(t) => Known(t)',
           \A t \in Tokens : token[t] = NoToken /\ ~(Issuing(r) /\ t = authReq[r].new)
                                => token'[t] = NoToken
    PROVE  TokenJobs'
  <1>1. ASSUME NEW q \in AuthRequests PROVE RotatesKnown(q)'
    <2>1. CASE q = r
      BY <2>1 DEF RotatesKnown, NoAuthReq
    <2>2. CASE q # r
      BY <2>2 DEF TokenInv, TokenJobs, RotatesKnown
    <2>3. QED BY <2>1, <2>2
  <1>2. ASSUME NEW q \in AuthRequests PROVE RevokesKnown(q)'
    <2>1. CASE q = r
      BY <2>1 DEF RevokesKnown, NoAuthReq
    <2>2. CASE q # r
      <3>1. authReq[q].held \subseteq Tokens
        BY TokenTypeParts DEF TokenInv, TokenJob
      <3>2. QED BY <2>2, <3>1 DEF TokenInv, TokenJobs, RevokesKnown
    <2>3. QED BY <2>1, <2>2
  <1>3. ASSUME NEW q \in AuthRequests, Issuing(q)' PROVE OwnsItsToken(q)'
    <2>1. q # r /\ authReq'[q] = authReq[q] /\ Issuing(q)
      BY <1>3 DEF Issuing, NoAuthReq
    <2>2. OwnsItsToken(q) /\ issued \in 0 .. MaxTokens
      BY TokenTypeParts DEF TokenInv, TokenJobs
    <2>3. authReq[q].new \in Tokens
      BY <2>1, <2>2, MaxTokensAssumption DEF OwnsItsToken, Tokens
    <2>4. token'[authReq[q].new] = NoToken
      BY <2>1, <2>2, <2>3 DEF OwnsItsToken
    <2>5. \A p \in AuthRequests : Issuing(p)' => Issuing(p) /\ authReq'[p] = authReq[p]
      BY DEF Issuing, NoAuthReq
    <2>6. QED BY <2>1, <2>2, <2>4, <2>5 DEF OwnsItsToken
  <1>4. QED BY <1>1, <1>2, <1>3 DEF TokenJobs, OwnsItsToken

LEMMA RevokesInv ==
    ASSUME TokenInv, NEW r \in AuthRequests, Revokes(r)
    PROVE  TokenInv'
  <1>1. RefreshTokensTypeOK'
    BY CommitMove, RevokeMove, TokenTypeParts DEF TokenInv, RefreshTokensTypeOK, TokenRow, TokenJob
  <1>2. \A t \in Tokens : Known(t)' <=> Known(t)
    BY RevokeMove DEF Known
  <1>3. \A t \in Tokens : ~Known(t) => token'[t] = token[t]
    BY RevokeMove DEF Known
  <1>4. TokenRows'
    <2> SUFFICES ASSUME NEW t \in Tokens PROVE Rooted(t)' /\ ChildNeedsConsumed(t)'
      BY DEF TokenRows
    <2>1. Rooted(t) /\ ChildNeedsConsumed(t)
      BY DEF TokenInv, TokenRows
    <2>2. token'[t].family = token[t].family /\ token'[t].consumed = token[t].consumed
          /\ issued' = issued
      BY RevokeMove, CommitMove
    <2>3. Rooted(t)'
      BY <1>2, <1>3, <2>1, <2>2 DEF Rooted
    <2>4. ChildNeedsConsumed(t)'
      BY <2>1, RevokeMove DEF ChildNeedsConsumed
    <2>5. QED BY <2>3, <2>4
  <1>5. \A t \in Tokens : token[t] = NoToken => token'[t] = NoToken
    BY <1>3, NoTokenRow DEF Known
  <1>6. TokenJobs'
    BY <1>2, <1>5, CommitMove, CommitJobs
  <1>7. QED BY <1>1, <1>4, <1>6 DEF TokenInv

LEMMA InsertInv ==
    ASSUME TokenInv, NEW r \in AuthRequests, SignInCommit(r) \/ RotateCommit(r)
    PROVE  TokenInv'
  <1>0. PICK n \in Tokens, t \in 0 .. MaxTokens, f \in Tokens : Inserts(r, n, t, f)
    BY InsertMove
  <1>1. /\ n = authReq[r].new /\ token[n] = NoToken /\ ~Known(n) /\ Fills(n, t, f)
        /\ Issuing(r)
    BY <1>0, NoTokenRow DEF Inserts, Known, Issuing
  <1>2. n <= issued /\ issued' = issued
    <2>1. authReq[r].new \in 1 .. issued
      BY <1>1 DEF TokenInv, TokenJobs, OwnsItsToken
    <2>2. QED BY <1>1, <2>1, CommitMove, TokenTypeParts DEF TokenInv
  <1>3. RefreshTokensTypeOK'
    BY <1>1, CommitMove, TokenTypeParts DEF TokenInv, RefreshTokensTypeOK, TokenRow, TokenJob, Fills
  <1>4. /\ token'[n].family = f /\ token'[n].parent = t /\ ~token'[n].consumed /\ Known(n)'
        /\ \A u \in Tokens : u # n => (Known(u)' <=> Known(u))
    BY <1>1 DEF Fills, Known, Tokens
  <1>5. Known(f)' /\ (f = n \/ (t \in Tokens /\ Known(t) /\ f = token[t].family))
    <2>1. CASE f = n
      BY <1>4, <2>1
    <2>2. CASE t \in Tokens /\ Known(t) /\ f = token[t].family
      <3>1. Known(f)
        BY <2>2 DEF TokenInv, TokenRows, Rooted
      <3>2. QED BY <1>1, <1>4, <2>2, <3>1
    <2>3. QED BY <1>0, <2>1, <2>2 DEF Inserts
  <1>6. \A u \in Tokens : Rooted(u)'
    <2> SUFFICES ASSUME NEW u \in Tokens PROVE Rooted(u)'
      OBVIOUS
    <2>1. CASE u = n
      BY <1>2, <1>4, <1>5, <2>1 DEF Rooted
    <2>2. CASE u # n
      <3>1. Rooted(u) /\ token'[u].family = token[u].family
        BY <1>1, <2>2 DEF TokenInv, TokenRows, Fills
      <3>2. Known(u)' <=> Known(u)
        BY <1>4, <2>2
      <3>3. Known(u) => token'[u].family \in Tokens /\ Known(token[u].family)'
        BY <1>4, <3>1 DEF Rooted
      <3>4. ~Known(u) => token'[u] = NoToken
        BY <1>1, <2>2, <3>1 DEF Rooted, Fills
      <3>5. token'[u].consumed => Known(u)
        <4>1. CASE u = t
          BY <1>0, <4>1 DEF Inserts, Tokens
        <4>2. CASE u # t
          <5>1. token'[u].consumed = token[u].consumed
            BY <1>1, <2>2, <4>2 DEF Fills
          <5>2. QED BY <3>1, <5>1, NoTokenRow DEF Rooted
        <4>3. QED BY <4>1, <4>2
      <3>6. QED BY <1>2, <3>1, <3>2, <3>3, <3>4, <3>5 DEF Rooted
    <2>3. QED BY <2>1, <2>2
  <1>7. \A u \in Tokens : ChildNeedsConsumed(u)'
    <2> SUFFICES ASSUME NEW u \in Tokens, ~token'[u].consumed, NEW m \in Tokens
                 PROVE  token'[m].parent # u
      BY DEF ChildNeedsConsumed
    <2>1. ~token[u].consumed /\ u # t
      <3>1. CASE u = n
        <4>1. t # n
          BY <1>0 DEF Inserts, Tokens
        <4>2. QED BY <1>1, <3>1, <4>1, NoTokenRow
      <3>2. CASE u # n
        BY <1>1, <3>2 DEF Fills
      <3>3. QED BY <3>1, <3>2
    <2>2. CASE m = n
      BY <1>4, <2>1, <2>2
    <2>3. CASE m # n
      BY <1>1, <2>1, <2>3 DEF Fills, TokenInv, TokenRows, ChildNeedsConsumed
    <2>4. QED BY <2>2, <2>3
  <1>8. TokenJobs'
    <2>1. \A u \in Tokens : Known(u) => Known(u)'
      BY <1>1, <1>4
    <2>2. \A u \in Tokens : token[u] = NoToken /\ u # n => token'[u] = NoToken
      BY <1>1, NoTokenRow DEF Fills, Known
    <2>3. QED BY <1>1, <1>2, <2>1, <2>2, CommitMove, CommitJobs
  <1>9. QED BY <1>3, <1>6, <1>7, <1>8 DEF TokenInv, TokenRows

LEMMA TokenInvHolds == RefreshTokensSpec => []TokenInv
<1>1. TokenInv /\ UNCHANGED tokenVars => TokenInv'
  BY DEF TokenInv, tokenVars, RefreshTokensTypeOK, TokenRows, TokenJobs, Rooted, ChildNeedsConsumed, Known,
         OwnsItsToken, RotatesKnown, RevokesKnown, Issuing
<1>2. TokenInv /\ [RefreshTokensNext]_tokenVars => TokenInv'
  BY <1>1, ReadsInv, RevokesInv, InsertInv, TokenWhoSteps
<1>3. QED BY <1>2, TokenInvInit, PTL DEF RefreshTokensSpec

----------------------------------------------------------------------------
(* The theorems.                                                            *)

\* Nobody opens a rotation but the request that reads an acceptable token.
LEMMA RotatingMove ==
    ASSUME TokenInv, NEW r \in AuthRequests,
           Reads(r) \/ Revokes(r) \/ SignInCommit(r) \/ RotateCommit(r),
           NEW t \in Tokens
    PROVE  \/ Rotating(t)' \subseteq Rotating(t)
           \/ Known(t) /\ Accepted(t) /\ token' = token /\ Rotating(t)' \subseteq AuthRequests
  <1>1. CASE authReq'[r].pc = "rotate" /\ authReq'[r].old = t
    <2>1. Reads(r)
      BY <1>1, CommitMove DEF NoAuthReq
    <2>2. Known(t) /\ Accepted(t) /\ token' = token
      <3>1. token' = token /\ Known(authReq'[r].old) /\ Accepted(authReq'[r].old)
        BY <1>1, <2>1, ReadsMove
      <3>2. QED BY <1>1, <3>1
    <2>3. QED BY <2>2 DEF Rotating
  <1>2. CASE ~(authReq'[r].pc = "rotate" /\ authReq'[r].old = t)
    <2>1. \A q \in AuthRequests : q # r => authReq'[q] = authReq[q]
      BY ReadsMove, CommitMove
    <2>2. QED BY <1>2, <2>1 DEF Rotating
  <1>3. QED BY <1>1, <1>2

\* A family that nothing can continue any more stays so, through every order
\* of late rotations, sign-ins and revocations.
THEOREM DeadFamiliesStayDead == RefreshTokensSpec => DeadFamilyStaysDead
<1>1. ASSUME TokenInv, RefreshTokensNext, NEW f \in Tokens, DeadFamily(f)
      PROVE  DeadFamily(f)'
  <2>0. PICK r \in AuthRequests :
           Reads(r) \/ Revokes(r) \/ SignInCommit(r) \/ RotateCommit(r)
    BY <1>1, TokenWhoSteps
  <2>1. \A t \in Family(f) : t \in Tokens /\ Known(t) /\ ~Accepted(t) /\ Rotating(t) = {}
    BY <1>1 DEF DeadFamily, Family, LiveToken, Accepted, Known, Tokens
  <2>2. \A t \in Family(f) : Rotating(t)' = {}
    BY <1>1, <2>0, <2>1, RotatingMove
  <2>3. Family(f)' = Family(f) /\ \A t \in Family(f) : ~LiveToken(t)'
    <3>1. CASE Reads(r)
      BY <1>1, <2>1, <3>1, ReadsMove DEF Family, LiveToken, Known, Accepted
    <3>2. CASE Revokes(r)
      <4>1. Family(f)' = Family(f)
        BY <1>1, <3>2, RevokeMove DEF Family
      <4>2. ASSUME NEW t \in Family(f) PROVE ~LiveToken(t)'
        BY <1>1, <2>1, <3>2, RevokeMove DEF LiveToken, Accepted
      <4>3. QED BY <4>1, <4>2
    <3>3. CASE SignInCommit(r) \/ RotateCommit(r)
      <4>0. PICK n \in Tokens, p \in 0 .. MaxTokens, g \in Tokens : Inserts(r, n, p, g)
        BY <1>1, <3>3, InsertMove
      <4>1. /\ token[n] = NoToken /\ Fills(n, p, g) /\ ~Known(n) /\ token'[n].family = g
        BY <4>0, NoTokenRow DEF Inserts, Known, Fills
      <4>2. g # f
        <5>1. CASE g = n
          <6>1. PICK t \in Tokens : token[t].family = f
            BY <1>1 DEF DeadFamily, Family
          <6>2. Known(f)
            BY <1>1, <6>1 DEF TokenInv, TokenRows, Rooted, Known, Tokens
          <6>3. QED BY <4>1, <5>1, <6>2
        <5>2. CASE p \in Tokens /\ p = authReq[r].old /\ authReq[r].pc = "rotate" /\ g = token[p].family
          <6>1. r \in Rotating(p)
            BY <5>2 DEF Rotating
          <6>2. p \notin Family(f)
            BY <2>1, <6>1
          <6>3. QED BY <5>2, <6>2 DEF Family
        <5>3. QED BY <4>0, <5>1, <5>2 DEF Inserts
      <4>3. n \notin Family(f)
        BY <2>1, <4>1
      <4>4. Family(f)' = Family(f)
        BY <4>1, <4>2, <4>3 DEF Family, Fills
      <4>5. ASSUME NEW t \in Family(f) PROVE ~LiveToken(t)'
        <5>1. t \in Tokens \ {n} /\ ~Accepted(t)
          BY <2>1, <4>3
        <5>2. QED BY <4>1, <5>1 DEF Fills, LiveToken, Accepted
      <4>6. QED BY <4>4, <4>5
    <3>4. QED BY <2>0, <3>1, <3>2, <3>3
  <2>4. QED BY <1>1, <2>2, <2>3 DEF DeadFamily
<1>2. TokenInv /\ [RefreshTokensNext]_tokenVars =>
        [\A f \in Tokens : DeadFamily(f) => DeadFamily(f)']_tokenVars
  BY <1>1
<1>3. QED BY <1>2, TokenInvHolds, PTL DEF RefreshTokensSpec, DeadFamilyStaysDead

Children(t) == {n \in Tokens : token[n].parent = t}

Forks(t) == Cardinality(Children(t)) + Cardinality(Rotating(t)) <= Cardinality(AuthRequests)

LEMMA ForkSets ==
    ASSUME NEW t
    PROVE  /\ IsFiniteSet(Children(t)) /\ Cardinality(Children(t)) \in Nat
           /\ IsFiniteSet(Rotating(t)) /\ Cardinality(Rotating(t)) \in Nat
           /\ Cardinality(Rotating(t)) <= Cardinality(AuthRequests)
           /\ Cardinality(AuthRequests) \in Nat
  <1>1. IsFiniteSet(Tokens)
    BY MaxTokensAssumption, FS_Interval DEF Tokens
  <1>2. Children(t) \in SUBSET Tokens /\ Rotating(t) \in SUBSET AuthRequests
    BY DEF Children, Rotating
  <1>3. IsFiniteSet(Children(t)) /\ IsFiniteSet(Rotating(t))
        /\ Cardinality(Rotating(t)) <= Cardinality(AuthRequests)
    BY <1>1, <1>2, AuthRequestsAssumption, FS_Subset
  <1>4. QED BY <1>3, AuthRequestsAssumption, FS_CardinalityType

\* Neither more successors nor more open rotations.
LEMMA NoMoreForks ==
    ASSUME NEW t, Forks(t), Children(t)' = Children(t), Rotating(t)' \in SUBSET Rotating(t)
    PROVE  Forks(t)'
  <1>1. Cardinality(Rotating(t)') <= Cardinality(Rotating(t)) /\ Cardinality(Rotating(t)') \in Nat
    <2>1. IsFiniteSet(Rotating(t)') /\ Cardinality(Rotating(t)') <= Cardinality(Rotating(t))
      BY ForkSets, FS_Subset
    <2>2. QED BY <2>1, FS_CardinalityType
  <1>2. QED BY <1>1, ForkSets DEF Forks

\* A token is exchanged as often as its rotations can overlap, not more.
THEOREM ForksAreOverlaps == RefreshTokensSpec => []ForksNeedOverlap
<1>1. RefreshTokensInit => \A t \in Tokens : Forks(t)
  <2> SUFFICES ASSUME RefreshTokensInit, NEW t \in Tokens PROVE Forks(t)
    OBVIOUS
  <2>1. Children(t) = {}
    BY NoTokenRow DEF RefreshTokensInit, Children, Tokens
  <2>2. QED BY <2>1, ForkSets, FS_EmptySet DEF Forks
<1>2. ASSUME TokenInv, \A t \in Tokens : Forks(t), [RefreshTokensNext]_tokenVars, NEW t \in Tokens
      PROVE  Forks(t)'
  <2>1. CASE UNCHANGED tokenVars
    BY <1>2, <2>1, NoMoreForks DEF tokenVars, Children, Rotating
  <2>2. ASSUME NEW r \in AuthRequests,
               Reads(r) \/ Revokes(r) \/ SignInCommit(r) \/ RotateCommit(r)
        PROVE  Forks(t)'
    <3>1. CASE Known(t) /\ Accepted(t) /\ token' = token /\ Rotating(t)' \subseteq AuthRequests
      <4>1. Children(t) = {} /\ Children(t)' = {}
        BY <1>2, <3>1 DEF Children, Accepted, TokenInv, TokenRows, ChildNeedsConsumed
      <4>2. IsFiniteSet(Rotating(t)') /\ Cardinality(Rotating(t)') <= Cardinality(AuthRequests)
        BY <3>1, AuthRequestsAssumption, FS_Subset
      <4>3. Cardinality(Rotating(t)') \in Nat
        BY <4>2, FS_CardinalityType
      <4>4. QED BY <4>1, <4>2, <4>3, ForkSets, FS_EmptySet DEF Forks
    <3>2. CASE Rotating(t)' \subseteq Rotating(t)
      <4>1. CASE Reads(r)
        BY <1>2, <3>2, <4>1, ReadsMove, NoMoreForks DEF Children
      <4>2. CASE Revokes(r)
        <5>1. Children(t)' = Children(t)
          BY <1>2, <4>2, RevokeMove DEF Children
        <5>2. QED BY <1>2, <3>2, <5>1, NoMoreForks
      <4>3. CASE SignInCommit(r) \/ RotateCommit(r)
        <5>0. PICK n \in Tokens, p \in 0 .. MaxTokens, g \in Tokens : Inserts(r, n, p, g)
          BY <1>2, <4>3, InsertMove
        <5>1. /\ token[n] = NoToken /\ Fills(n, p, g) /\ token[n].parent = 0
              /\ token'[n].parent = p
          BY <5>0, NoTokenRow DEF Inserts, Fills
        <5>2. CASE p # t
          <6>1. Children(t)' = Children(t)
            BY <5>1, <5>2 DEF Children, Fills, Tokens
          <6>2. QED BY <1>2, <3>2, <6>1, NoMoreForks
        <5>3. CASE p = t
          <6>1. Children(t)' = Children(t) \cup {n}
            BY <5>1, <5>3 DEF Children, Fills
          <6>2. r \in Rotating(t) /\ r \notin Rotating(t)'
            BY <1>2, <2>2, <4>3, <5>0, <5>3, CommitMove DEF Inserts, Rotating, Tokens, NoAuthReq
          <6>3. Rotating(t)' \in SUBSET (Rotating(t) \ {r})
            BY <3>2, <6>2
          <6>4. IsFiniteSet(Rotating(t) \ {r})
                /\ Cardinality(Rotating(t) \ {r}) = Cardinality(Rotating(t)) - 1
            BY <6>2, ForkSets, FS_RemoveElement
          <6>5. IsFiniteSet(Rotating(t)')
                /\ Cardinality(Rotating(t)') <= Cardinality(Rotating(t)) - 1
            BY <6>3, <6>4, FS_Subset
          <6>6. Cardinality(Children(t)') \in {Cardinality(Children(t)), Cardinality(Children(t)) + 1}
            BY <6>1, ForkSets, FS_AddElement
          <6>7. Cardinality(Rotating(t)') \in Nat
            BY <6>5, FS_CardinalityType
          <6>8. Forks(t)
            BY <1>2
          <6>9. QED BY <6>5, <6>6, <6>7, <6>8, ForkSets DEF Forks
        <5>4. QED BY <5>2, <5>3
      <4>4. QED BY <2>2, <4>1, <4>2, <4>3
    <3>3. QED BY <1>2, <2>2, <3>1, <3>2, RotatingMove
  <2>3. QED BY <1>2, <2>1, <2>2, TokenWhoSteps
<1>3. (\A t \in Tokens : Forks(t)) => ForksNeedOverlap
  <2> SUFFICES ASSUME NEW t \in Tokens, Forks(t)
               PROVE  Cardinality({n \in Tokens : token[n].parent = t}) + Cardinality(Rotating(t))
                        <= Cardinality(AuthRequests)
    BY DEF ForksNeedOverlap
  <2>1. QED BY DEF Forks, Children
<1>4. TokenInv /\ (\A t \in Tokens : Forks(t)) /\ [RefreshTokensNext]_tokenVars
        => (\A t \in Tokens : Forks(t))'
  BY <1>2
<1>5. QED BY <1>1, <1>3, <1>4, TokenInvHolds, PTL DEF RefreshTokensSpec

----------------------------------------------------------------------------
(* All three.                                                              *)

LEMMA PartsStep ==
    ASSUME [ControlPlaneNext]_controlPlaneVars
    PROVE  /\ [RefreshTokensNext]_tokenVars
           /\ [BillingNext]_billingVars
           /\ [ProviderKeysNext]_providerKeyVars
<1>1. CASE TokenStep
  BY <1>1 DEF TokenStep
<1>2. CASE BillingStep
  BY <1>2 DEF BillingStep
<1>3. CASE KeyStep
  BY <1>3 DEF KeyStep
<1>4. CASE UNCHANGED controlPlaneVars
  BY <1>4 DEF controlPlaneVars
<1>5. QED BY <1>1, <1>2, <1>3, <1>4 DEF ControlPlaneNext

\* A run of the control plane is a run of each of its parts: what is proved of a
\* part above holds of the account with all three.
THEOREM ControlPlaneRunsItsParts ==
    ControlPlaneSpec => RefreshTokensSpec /\ BillingSpec /\ ProviderKeysSpec
<1>1. ControlPlaneInit => RefreshTokensInit /\ BillingInit /\ ProviderKeysInit
  BY DEF ControlPlaneInit
<1>2. [ControlPlaneNext]_controlPlaneVars =>
        /\ [RefreshTokensNext]_tokenVars
        /\ [BillingNext]_billingVars
        /\ [ProviderKeysNext]_providerKeyVars
  BY PartsStep
<1>3. QED BY <1>1, <1>2, PTL DEF ControlPlaneSpec, RefreshTokensSpec, BillingSpec, ProviderKeysSpec

\* The tokens, the billing state and the stored keys keep their types: no handler
\* of the control plane, failing or not, writes a row that another cannot read.
THEOREM ControlPlaneTypes == ControlPlaneSpec => []ControlPlaneTypeOK
<1>1. TokenInv /\ PlanInv /\ KeyInv => ControlPlaneTypeOK
  BY DEF TokenInv, PlanInv, PlanBase, KeyInv, ControlPlaneTypeOK
<1>2. QED
  BY <1>1, ControlPlaneRunsItsParts, TokenInvHolds, PlanInvHolds, KeyInvHolds, PTL
============================================================================
