------------------------------ MODULE HoldPlan ------------------------------
(***************************************************************************)
(* How much one inference call freezes and what it is charged: the token     *)
(* estimate of its prompt, ComputeHold run against the balance PlaceHold has   *)
(* locked, and chargeMicros on the usage the provider reports, at the price    *)
(* read again when the job is processed.  Ceilings when freezing, a floor     *)
(* when charging.  Amounts are integers without a width: the code's int64      *)
(* holds them while a balance stays below 2^63 / MicrosPerMillion micros.      *)
(***************************************************************************)
EXTENDS Integers

CONSTANTS
  MicrosPerMillion,  \* tokens a price is quoted for
  MaxOutputTokens,   \* hard ceiling sent to the provider
  DefaultMax,        \* output cap when the client names none
  Threshold,         \* low balance threshold
  Runes,             \* prompt lengths
  RequestedMaxes,    \* max_tokens of the client
  Prices,            \* [input |-> , output |-> ] per MicrosPerMillion tokens
  Balances,          \* balances PlaceHold may find
  InputCounts,       \* input tokens a provider may report, 0 for none
  OutputCounts,      \* output tokens it may report, 0 for none
  StreamedRunes      \* lengths of the text relayed to the client

ASSUME PlanAssumption ==
  /\ MicrosPerMillion \in Nat \ {0}
  /\ MaxOutputTokens \in Nat \ {0}
  /\ DefaultMax \in Nat \ {0}
  /\ Threshold \in Nat \ {0}
  /\ Runes \subseteq Nat
  /\ RequestedMaxes \subseteq Int
  /\ Prices \subseteq [input : Nat, output : Nat]
  /\ Balances \subseteq Int
  /\ InputCounts \subseteq Nat
  /\ OutputCounts \subseteq Nat
  /\ StreamedRunes \subseteq Nat

VARIABLES
  stage,  \* "asked", "called", "rejected", "charged"
  call,   \* what the client asked and what Reserve read
  plan,   \* HoldPlan
  usage,  \* what Process priced, and at which price
  charge  \* vendorAmount

vars == <<stage, call, plan, usage, charge>>

(***************************************************************************)
(* Estimates, prices and charges.                                            *)
(***************************************************************************)
EstimateTokens(runes) == (runes + 3) \div 4

EstimateInputTokens(runes) == EstimateTokens(runes) + EstimateTokens(runes) \div 5

ChargeMicros(input, output, price) ==
  (input * price.input + output * price.output) \div MicrosPerMillion

\* Mutant: the freeze is floored like the charge.
ChargeMicrosFloor(tokens, perMillion) == (tokens * perMillion) \div MicrosPerMillion

ChargeMicrosCeil(tokens, perMillion) ==
  (tokens * perMillion + MicrosPerMillion - 1) \div MicrosPerMillion

\* Mutant: the budget is rounded up.
MaxTokensRoundedUp(budget, perMillion) ==
  LET n == (budget * MicrosPerMillion + perMillion - 1) \div perMillion
  IN  IF n > MaxOutputTokens THEN MaxOutputTokens ELSE n

\* Mutant: one token is kept back.
MaxTokensOneShort(budget, perMillion) ==
  LET n == (budget * MicrosPerMillion - 1) \div perMillion
  IN  IF n > MaxOutputTokens THEN MaxOutputTokens ELSE n

MaxTokensForBudget(budget, perMillion) ==
  LET n == (budget * MicrosPerMillion) \div perMillion
  IN  IF n > MaxOutputTokens THEN MaxOutputTokens ELSE n

(***************************************************************************)
(* ComputeHold.                                                              *)
(***************************************************************************)
RequestedMax(c) ==
  LET asked == IF c.requested <= 0 THEN DefaultMax ELSE c.requested
  IN  IF asked > MaxOutputTokens THEN MaxOutputTokens ELSE asked

\* Mutant: each input token is rounded up on its own.
InputHoldPerToken(c) == EstimateInputTokens(c.runes) * ChargeMicrosCeil(1, c.price.input)

InputHold(c) == ChargeMicrosCeil(EstimateInputTokens(c.runes), c.price.input)

Affordable(c) ==
  IF c.price.output = 0 THEN RequestedMax(c)
  ELSE MaxTokensForBudget(c.available - InputHold(c), c.price.output)

CappedMax(c) == IF RequestedMax(c) > Affordable(c) THEN Affordable(c) ELSE RequestedMax(c)

\* Mutant: a free call freezes nothing.
FreezeNothing(c) == InputHold(c) + ChargeMicrosCeil(CappedMax(c), c.price.output)

Freeze(c) ==
  LET hold == InputHold(c) + ChargeMicrosCeil(CappedMax(c), c.price.output)
  IN  IF hold < 1 THEN 1 ELSE hold

\* Mutant: the input's share of the wallet is not looked at.
AcceptsAtThreshold(c) == c.available >= Threshold

Accepts(c) ==
  /\ c.available >= Threshold
  /\ InputHold(c) < c.available
  /\ Affordable(c) >= 1
  /\ Freeze(c) <= c.available

Rejected == [ok |-> FALSE, amount |-> 0, maxTokens |-> 0]

ComputeHold(c) ==
  IF Accepts(c) THEN [ok |-> TRUE, amount |-> Freeze(c), maxTokens |-> CappedMax(c)]
  ELSE Rejected

-----------------------------------------------------------------------------
Calls == [runes : Runes, requested : RequestedMaxes, price : Prices, available : Balances]

Usages == [input : Nat, output : Nat, price : Prices]
NoUsage(p) == [input |-> 0, output |-> 0, price |-> p]

TypeOK ==
  /\ stage \in {"asked", "called", "rejected", "charged"}
  /\ call \in Calls
  /\ plan \in [ok : BOOLEAN, amount : Nat, maxTokens : Nat]
  /\ usage \in Usages
  /\ charge \in Nat

Init ==
  /\ stage = "asked"
  /\ call \in Calls
  /\ plan = Rejected
  /\ usage = NoUsage(call.price)
  /\ charge = 0

\* Reserve: ComputeHold inside PlaceHold's transaction.
Reserve ==
  /\ stage = "asked"
  /\ plan' = ComputeHold(call)
  /\ stage' = IF ComputeHold(call).ok THEN "called" ELSE "rejected"
  /\ UNCHANGED <<call, usage, charge>>

\* A stream without a usage frame is billed by the text it relayed, and, when
\* the client cut it, by the unpadded estimate of the prompt.  Nothing bounds
\* the counts of the provider or the text by the cap that was asked for.
BilledOutput(reported, streamed) == IF reported = 0 THEN EstimateTokens(streamed) ELSE reported

BilledInput(reported, cancelled) ==
  IF cancelled /\ reported = 0 THEN EstimateTokens(call.runes) ELSE reported

\* Process prices the usage, at a price that may have changed meanwhile.
Process(input, output, price) ==
  /\ stage' = "charged"
  /\ usage' = [input |-> input, output |-> output, price |-> price]
  /\ charge' = ChargeMicros(input, output, price)
  /\ UNCHANGED <<call, plan>>

\* The answer comes and is charged; a buffered one is one that relayed nothing.
Answered ==
  /\ stage = "called"
  /\ \E cancelled \in BOOLEAN, input \in InputCounts, output \in OutputCounts,
        streamed \in StreamedRunes, price \in Prices :
       Process(BilledInput(input, cancelled), BilledOutput(output, streamed), price)

Next == Reserve \/ Answered

Spec == Init /\ [][Next]_vars

-----------------------------------------------------------------------------
(***************************************************************************)
(* Properties.                                                               *)
(***************************************************************************)
Planned == stage \in {"called", "charged"}

\* What the planner returns, PlaceHold's conditional UPDATE takes: the freeze
\* is positive, fits the locked balance, and leaves room for a token.  Rounding
\* the input and the output up separately never makes the sum too large.
PlanPlaceable ==
  Planned =>
    /\ plan.amount \in 1..call.available
    /\ call.available >= Threshold
    /\ plan.maxTokens \in 1..RequestedMax(call)

\* A clamped answer is clamped no more than the wallet demands: one token more
\* would not fit it.
PlanMaximal ==
  Planned /\ plan.maxTokens < RequestedMax(call) =>
    InputHold(call) + ChargeMicrosCeil(plan.maxTokens + 1, call.price.output) > call.available

\* A wallet above the threshold is turned away only when the input and one
\* output token (a micro at least) do not fit it.
RejectionJustified ==
  stage = "rejected" /\ call.available >= Threshold =>
    LET token == ChargeMicrosCeil(1, call.price.output)
    IN  InputHold(call) + (IF token < 1 THEN 1 ELSE token) > call.available

\* At the price the freeze was planned with, a charge whose input is within the
\* estimate (so that of every cancelled call without a usage frame) takes from
\* the wallet, beyond the freeze, the price of the output beyond the cap at
\* most: nothing when the provider honoured max_tokens.
BeyondCap == IF usage.output > plan.maxTokens THEN usage.output - plan.maxTokens ELSE 0

ChargeCovered ==
  stage = "charged" /\ usage.price = call.price
    /\ usage.input <= EstimateInputTokens(call.runes)
    => charge <= plan.amount + ChargeMicrosCeil(BeyondCap, call.price.output)

\* A call that uses all it froze gets at most two micros back: one for each
\* ceiling.
FreezeTight ==
  stage = "charged" /\ usage.price = call.price
    /\ usage.input = EstimateInputTokens(call.runes) /\ usage.output = plan.maxTokens
    => plan.amount - charge <= 2

\* charge.go: MaxOutputTokens "bounds a hold so one request cannot freeze an
\* entire wallet".
OneRequestLeavesCredit == Planned => plan.amount < call.available
=============================================================================
