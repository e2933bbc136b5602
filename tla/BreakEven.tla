----------------------------- MODULE BreakEven -----------------------------
(***************************************************************************)
(* The self-hosting advice: API spend, linear in the tokens of a month,    *)
(* against whole GPUs, a step function of them.  Money and tokens are      *)
(* integers in units small enough for the cases to differ.                 *)
(***************************************************************************)
EXTENDS Integers

CONSTANTS
    Volumes,         \* monthly_tokens
    TokenPrices,     \* blended cost_per_token_usd; 0: nothing was paid
    StepCosts,       \* monthly cost of one GPU
    Capacities,      \* tokens one GPU serves in a month
    MinMonthlyTokens \* MIN_MONTHLY_TOKENS

ASSUME QuoteAssumption ==
    /\ Volumes \subseteq Nat /\ TokenPrices \subseteq Nat /\ StepCosts \subseteq Nat
    /\ Capacities \subseteq Nat \ {0}
    /\ MinMonthlyTokens \in Nat

VARIABLE quote       \* [tokens, price, step, capacity] the analysis is asked for

Quotes == [tokens : Volumes, price : TokenPrices, step : StepCosts, capacity : Capacities]

CeilDiv(a, b) == (a + b - 1) \div b

\* You buy whole GPUs, and at least one.
Gpus(q) == IF q.tokens = 0 THEN 1 ELSE CeilDiv(q.tokens, q.capacity)

Recommendation(q) ==
    IF q.tokens < MinMonthlyTokens \/ q.price = 0 THEN "insufficient_data"
    ELSE IF Gpus(q) * q.step < q.tokens * q.price THEN "gpu" ELSE "api"

\* A bug BreakEvenTokens could have: one GPU serves any volume.
BreakEvenNaive(q) == IF q.price = 0 THEN {} ELSE {CeilDiv(q.step, q.price)}

\* _break_even_tokens; {} for None: self-hosting never wins.
BreakEvenTokens(q) ==
    IF q.price = 0 \/ q.price * q.capacity <= q.step THEN {} ELSE {CeilDiv(q.step, q.price)}

BreakEvenInit == quote \in Quotes

\* Another project, another month.
AskAgain == \E n \in Volumes : quote' = [quote EXCEPT !.tokens = n]

BreakEvenNext == AskAgain

-----------------------------------------------------------------------------
(* Properties.                                                             *)

\* The volume shown and the advice given come from two computations, and
\* agree: whoever is told to buy has passed the volume shown; a volume that is
\* shown can be reached with the first GPU and pays for it; and where none is
\* shown, no number of GPUs wins ("the one case it gets wrong is the case where
\* it should have said never").
BreakEvenIsHonest ==
    /\ Recommendation(quote) = "gpu" => \E b \in BreakEvenTokens(quote) : b <= quote.tokens
    /\ \A b \in BreakEvenTokens(quote) :
         /\ b <= quote.capacity
         /\ quote.step <= b * quote.price
         /\ (b - 1) * quote.price < quote.step
=============================================================================
