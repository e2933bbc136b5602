-------------------------- MODULE MCControlPlane ---------------------------
(***************************************************************************)
(* Sign-in tokens, billing webhooks and provider keys of one account.      *)
(* They share no state, so the interleavings of one with another show      *)
(* nothing: `focus', chosen once, says whose steps are taken, and the      *)
(* states checked are the sum of the components' and not their product.    *)
(***************************************************************************)
EXTENDS RefreshTokens, Billing, ProviderKeys

VARIABLE focus

controlPlaneVars == <<tokenVars, billingVars, providerKeyVars, focus>>

\* The type invariants of the parts.
ControlPlaneTypeOK == RefreshTokensTypeOK /\ BillingTypeOK /\ ProviderKeysTypeOK

ControlPlaneInit ==
    /\ RefreshTokensInit /\ BillingInit /\ ProviderKeysInit
    /\ focus \in {"tokens", "billing", "keys"}

TokenStep == focus = "tokens" /\ RefreshTokensNext /\ UNCHANGED <<billingVars, providerKeyVars>>
BillingStep == focus = "billing" /\ BillingNext /\ UNCHANGED <<tokenVars, providerKeyVars>>
KeyStep == focus = "keys" /\ ProviderKeysNext /\ UNCHANGED <<tokenVars, billingVars>>

ControlPlaneNext == (TokenStep \/ BillingStep \/ KeyStep) /\ UNCHANGED focus

\* Stripe delivers until it gets a 2xx; a handler that has claimed an event goes
\* on (its crashes are faults, of which there are finitely many). Nobody is
\* obliged to sign in, to rotate, to buy or to store a key.
ControlPlaneFairness ==
    /\ \A e \in Ids : WF_billingVars(focus = "billing" /\ Delivery(e))
    /\ \A h \in Hooks : WF_billingVars(focus = "billing" /\ HookStep(h))

ControlPlaneSpec ==
    ControlPlaneInit /\ [][ControlPlaneNext]_controlPlaneVars /\ ControlPlaneFairness
============================================================================
