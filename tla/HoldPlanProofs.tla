--------------------------- MODULE HoldPlanProofs ---------------------------
(***************************************************************************)
(* What the planner guarantees at every price, balance and scale.            *)
(***************************************************************************)
EXTENDS HoldPlan, TLAPS

USE PlanAssumption

-----------------------------------------------------------------------------
(***************************************************************************)
(* Division.                                                                 *)
(***************************************************************************)

\* What a quotient is.
LEMMA Quotient ==
  ASSUME NEW a \in Int, NEW m \in Nat \ {0}
  PROVE  a \div m \in Int /\ m * (a \div m) <= a /\ a < m * (a \div m) + m
OBVIOUS

\* A quotient is bounded by any k whose successor's multiple is out of reach.
LEMMA QuotientAtMost ==
  ASSUME NEW a \in Int, NEW m \in Nat \ {0}, NEW k \in Int, a < m * (k + 1)
  PROVE  a \div m <= k
<1>1. m * (a \div m) <= a /\ a \div m \in Int
  BY Quotient
<1>2. ASSUME a \div m >= k + 1 PROVE FALSE
  <2>1. PICK d \in Nat : a \div m = k + 1 + d
    BY <1>1, <1>2
  <2>2. m * (k + 1 + d) = m * (k + 1) + m * d /\ m * d >= 0
    OBVIOUS
  <2> QED BY <1>1, <2>1, <2>2
<1> QED BY <1>1, <1>2

\* A quotient reaches every k whose multiple does not exceed the dividend.
LEMMA QuotientAtLeast ==
  ASSUME NEW a \in Int, NEW m \in Nat \ {0}, NEW k \in Int, m * k <= a
  PROVE  k <= a \div m
<1>1. a < m * (a \div m) + m /\ a \div m \in Int
  BY Quotient
<1>2. ASSUME a \div m <= k - 1 PROVE FALSE
  <2>1. PICK d \in Nat : k = a \div m + 1 + d
    BY <1>1, <1>2
  <2>2. m * (a \div m + 1 + d) = m * (a \div m) + m + m * d /\ m * d >= 0
    BY <1>1
  <2> QED BY <1>1, <2>1, <2>2
<1> QED BY <1>1, <1>2

\* A product of naturals grows with its factors.
LEMMA ProductGrows ==
  ASSUME NEW a \in Nat, NEW b \in Nat, NEW c \in Nat, a <= b
  PROVE  a * c <= b * c /\ a * c \in Nat /\ b * c \in Nat
OBVIOUS

\* The ceiling is the least amount that covers tokens at a price.
LEMMA Ceiling ==
  ASSUME NEW tokens \in Nat, NEW p \in Nat
  PROVE  /\ ChargeMicrosCeil(tokens, p) \in Nat
         /\ tokens * p <= MicrosPerMillion * ChargeMicrosCeil(tokens, p)
         /\ MicrosPerMillion * ChargeMicrosCeil(tokens, p) < tokens * p + MicrosPerMillion
         /\ \A k \in Int : tokens * p <= MicrosPerMillion * k => ChargeMicrosCeil(tokens, p) <= k
         /\ \A k \in Int : MicrosPerMillion * k < tokens * p => k < ChargeMicrosCeil(tokens, p)
<1> DEFINE n == tokens * p
           m == MicrosPerMillion
           q == (n + m - 1) \div m
<1>1. n \in Nat /\ m \in Nat \ {0} /\ q = ChargeMicrosCeil(tokens, p)
  BY DEF ChargeMicrosCeil
<1> HIDE DEF n, m, q
<1>2. q \in Int /\ m * q <= n + m - 1 /\ n + m - 1 < m * q + m
  <2>1. n + m - 1 \in Int
    BY <1>1
  <2> QED BY <1>1, <2>1, Quotient DEF q
<1>3. q \in Nat
  <2>1. m * 0 <= n + m - 1
    BY <1>1
  <2> QED BY <1>1, <1>2, <2>1, QuotientAtLeast DEF q
<1>4. m * q \in Int
  BY <1>1, <1>2
<1>5. ASSUME NEW k \in Int, n <= m * k PROVE q <= k
  <2>1. m * (k + 1) = m * k + m /\ m * k \in Int
    BY <1>1
  <2>2. n + m - 1 \in Int /\ n + m - 1 < m * (k + 1)
    BY <1>1, <1>5, <2>1
  <2> QED BY <1>1, <2>2, QuotientAtMost DEF q
<1>6. ASSUME NEW k \in Int, m * k < n PROVE k < q
  <2>1. m * (k + 1) = m * k + m /\ m * k \in Int
    BY <1>1
  <2>2. n + m - 1 \in Int /\ m * (k + 1) <= n + m - 1
    BY <1>1, <1>6, <2>1
  <2>3. k + 1 <= q
    BY <1>1, <2>2, QuotientAtLeast DEF q
  <2> QED BY <1>2, <2>3
<1>7. n <= m * q /\ m * q < n + m
  BY <1>1, <1>2, <1>4
<1> QED BY <1>1, <1>3, <1>5, <1>6, <1>7 DEF n, m

LEMMA CeilingType ==
  ASSUME NEW tokens \in Nat, NEW p \in Nat
  PROVE  ChargeMicrosCeil(tokens, p) \in Nat
BY Ceiling

LEMMA CeilingAtMost ==
  ASSUME NEW tokens \in Nat, NEW p \in Nat, NEW k \in Int, tokens * p <= MicrosPerMillion * k
  PROVE  ChargeMicrosCeil(tokens, p) <= k
BY Ceiling

LEMMA CeilingAbove ==
  ASSUME NEW tokens \in Nat, NEW p \in Nat, NEW k \in Int, MicrosPerMillion * k < tokens * p
  PROVE  k < ChargeMicrosCeil(tokens, p)
BY Ceiling

-----------------------------------------------------------------------------
(***************************************************************************)
(* ComputeHold.                                                              *)
(***************************************************************************)

LEMMA CallType ==
  ASSUME NEW c \in Calls
  PROVE  /\ c.price.input \in Nat /\ c.price.output \in Nat /\ c.available \in Int
         /\ EstimateTokens(c.runes) \in Nat /\ EstimateInputTokens(c.runes) \in Nat
         /\ EstimateTokens(c.runes) <= EstimateInputTokens(c.runes)
         /\ InputHold(c) \in Nat
         /\ RequestedMax(c) \in 1..MaxOutputTokens
<1>1. c.runes \in Nat /\ c.requested \in Int /\ c.price \in [input : Nat, output : Nat]
      /\ c.available \in Int
  BY DEF Calls
<1>2. EstimateTokens(c.runes) \in Nat
  BY <1>1 DEF EstimateTokens
<1>3. EstimateInputTokens(c.runes) \in Nat /\ EstimateTokens(c.runes) <= EstimateInputTokens(c.runes)
  BY <1>2 DEF EstimateInputTokens
<1>4. InputHold(c) \in Nat
  BY <1>1, <1>3, Ceiling DEF InputHold
<1>5. RequestedMax(c) \in 1..MaxOutputTokens
  BY <1>1 DEF RequestedMax
<1> QED BY <1>1, <1>2, <1>3, <1>4, <1>5

\* At a positive price a budget affords n tokens and not n + 1, unless the
\* hard ceiling comes first.
LEMMA Budget ==
  ASSUME NEW b \in Nat, NEW p \in Nat \ {0}
  PROVE  /\ MaxTokensForBudget(b, p) \in Nat
         /\ MaxTokensForBudget(b, p) * p <= b * MicrosPerMillion
         /\ MaxTokensForBudget(b, p) < MaxOutputTokens
              => b * MicrosPerMillion < (MaxTokensForBudget(b, p) + 1) * p
<1> DEFINE a == b * MicrosPerMillion
           n == a \div p
<1>1. a \in Nat
  OBVIOUS
<1> HIDE DEF a
<1>2. n \in Int /\ p * n <= a /\ a < p * n + p
  BY <1>1, Quotient
<1>3. 0 <= n
  BY <1>1, QuotientAtLeast
<1>4. MaxTokensForBudget(b, p) = IF n > MaxOutputTokens THEN MaxOutputTokens ELSE n
  BY DEF MaxTokensForBudget, a
<1> HIDE DEF n
<1>5. MaxTokensForBudget(b, p) \in Nat /\ MaxTokensForBudget(b, p) <= n
  BY <1>2, <1>3, <1>4
<1>6. MaxTokensForBudget(b, p) * p <= a
  <2>1. n \in Nat
    BY <1>2, <1>3
  <2>2. MaxTokensForBudget(b, p) * p <= n * p
    BY <1>5, <2>1, ProductGrows
  <2>3. n * p = p * n /\ MaxTokensForBudget(b, p) * p \in Nat /\ p * n \in Nat
    BY <1>5, <2>1
  <2> QED BY <1>1, <1>2, <2>2, <2>3
<1>7. ASSUME MaxTokensForBudget(b, p) < MaxOutputTokens
      PROVE  a < (MaxTokensForBudget(b, p) + 1) * p
  <2>1. MaxTokensForBudget(b, p) = n
    BY <1>4, <1>7
  <2>2. (n + 1) * p = p * n + p
    BY <1>2
  <2> QED BY <1>2, <2>1, <2>2
<1> QED BY <1>5, <1>6, <1>7 DEF a

LEMMA BudgetExceeded ==
  ASSUME NEW b \in Nat, NEW p \in Nat \ {0}, MaxTokensForBudget(b, p) < MaxOutputTokens
  PROVE  b * MicrosPerMillion < (MaxTokensForBudget(b, p) + 1) * p
BY Budget

\* With room for the input and for a token, the clamped freeze fits: the last
\* check of ComputeHold never rejects.
LEMMA FreezeFits ==
  ASSUME NEW c \in Calls, c.available >= Threshold, InputHold(c) < c.available, Affordable(c) >= 1
  PROVE  /\ Freeze(c) \in 1..c.available
         /\ CappedMax(c) \in 1..RequestedMax(c)
         /\ CappedMax(c) < RequestedMax(c) =>
              InputHold(c) + ChargeMicrosCeil(CappedMax(c) + 1, c.price.output) > c.available
<1> DEFINE b == c.available - InputHold(c)
           p == c.price.output
<1>1. b \in Nat /\ p \in Nat /\ InputHold(c) \in Nat /\ c.available \in Int
  BY CallType
<1>2. CASE p = 0
  <2>1. CappedMax(c) = RequestedMax(c) /\ RequestedMax(c) \in 1..MaxOutputTokens
    BY <1>2, CallType DEF CappedMax, Affordable
  <2>2. ChargeMicrosCeil(CappedMax(c), p) = 0
    <3>1. CappedMax(c) \in Nat /\ CappedMax(c) * p <= MicrosPerMillion * 0
      BY <1>2, <2>1
    <3>2. ChargeMicrosCeil(CappedMax(c), p) <= 0
      BY <1>1, <3>1, CeilingAtMost
    <3>3. ChargeMicrosCeil(CappedMax(c), p) \in Nat
      BY <1>1, <3>1, CeilingType
    <3> HIDE DEF p
    <3> QED BY <3>2, <3>3
  <2> QED BY <1>1, <2>1, <2>2 DEF Freeze
<1>3. CASE p # 0
  <2>1. p \in Nat \ {0}
    BY <1>1, <1>3
  <2>2. Affordable(c) = MaxTokensForBudget(b, p)
    BY <1>3 DEF Affordable
  <2> HIDE DEF b, p
  <2>3. Affordable(c) \in Nat /\ RequestedMax(c) \in 1..MaxOutputTokens
    BY <1>1, <2>1, <2>2, Budget, CallType
  <2>4. CappedMax(c) \in 1..RequestedMax(c) /\ CappedMax(c) <= Affordable(c)
    BY <2>3 DEF CappedMax
  <2>5. ChargeMicrosCeil(CappedMax(c), p) \in Nat /\ ChargeMicrosCeil(CappedMax(c), p) <= b
    <3>1. CappedMax(c) \in Nat /\ CappedMax(c) * p <= Affordable(c) * p
          /\ CappedMax(c) * p \in Nat /\ Affordable(c) * p \in Nat
      BY <2>1, <2>3, <2>4, ProductGrows
    <3>2. Affordable(c) * p <= b * MicrosPerMillion
      BY <1>1, <2>1, <2>2, Budget
    <3>3. CappedMax(c) * p <= MicrosPerMillion * b
      BY <1>1, <3>1, <3>2
    <3>4. ChargeMicrosCeil(CappedMax(c), p) <= b
      BY <1>1, <3>1, <3>3, CeilingAtMost
    <3> QED BY <1>1, <3>1, <3>4, CeilingType
  <2>6. Freeze(c) \in 1..c.available
    <3>1. Freeze(c) = IF InputHold(c) + ChargeMicrosCeil(CappedMax(c), p) < 1 THEN 1
                      ELSE InputHold(c) + ChargeMicrosCeil(CappedMax(c), p)
      BY DEF Freeze, p
    <3>2. c.available = b + InputHold(c)
      BY <1>1 DEF b
    <3> QED BY <1>1, <2>5, <3>1, <3>2
  <2>7. ASSUME CappedMax(c) < RequestedMax(c)
        PROVE  InputHold(c) + ChargeMicrosCeil(CappedMax(c) + 1, p) > c.available
    <3>1. CappedMax(c) = Affordable(c) /\ Affordable(c) < MaxOutputTokens
      BY <2>3, <2>7 DEF CappedMax
    <3>2. MicrosPerMillion * b < (CappedMax(c) + 1) * p
      BY <1>1, <2>1, <2>2, <3>1, Budget
    <3>3. PICK k \in Nat : k = CappedMax(c) + 1
      BY <2>3, <3>1
    <3>4. b < ChargeMicrosCeil(k, p) /\ ChargeMicrosCeil(k, p) \in Nat
      BY <1>1, <3>2, <3>3, CeilingAbove, CeilingType
    <3>5. b < ChargeMicrosCeil(CappedMax(c) + 1, p) /\ ChargeMicrosCeil(CappedMax(c) + 1, p) \in Nat
      BY <3>3, <3>4
    <3> QED BY <1>1, <3>5 DEF b
  <2> QED BY <2>4, <2>6, <2>7 DEF p
<1> QED BY <1>2, <1>3

LEMMA RejectedFor ==
  ASSUME NEW c \in Calls, ~ Accepts(c), c.available >= Threshold
  PROVE  LET token == ChargeMicrosCeil(1, c.price.output)
         IN  InputHold(c) + (IF token < 1 THEN 1 ELSE token) > c.available
<1> DEFINE token == ChargeMicrosCeil(1, c.price.output)
           p == c.price.output
<1>1. /\ token \in Nat /\ InputHold(c) \in Nat /\ c.available \in Int
      /\ p \in Nat /\ token = ChargeMicrosCeil(1, p)
  BY CallType, Ceiling
<1>2. CASE InputHold(c) >= c.available
  BY <1>1, <1>2
<1>3. CASE InputHold(c) < c.available
  <2>1. PICK b \in Nat : b = c.available - InputHold(c)
    BY <1>1, <1>3
  <2>2. p # 0 => Affordable(c) = MaxTokensForBudget(b, p)
    BY <2>1 DEF Affordable
  <2>3. Affordable(c) \in Nat
    <3>1. CASE p = 0
      BY <3>1, CallType DEF Affordable
    <3>2. CASE p # 0
      BY <1>1, <2>2, <3>2, Budget
    <3> QED BY <3>1, <3>2
  <2>4. Affordable(c) = 0
    <3>1. ASSUME Affordable(c) >= 1 PROVE FALSE
      BY <1>1, <1>3, <3>1, FreezeFits DEF Accepts
    <3> QED BY <2>3, <3>1
  <2>5. p # 0
    BY <2>4, CallType DEF Affordable
  <2> HIDE DEF p, token
  <2>6. MicrosPerMillion * b < 1 * p
    <3>1. p \in Nat \ {0} /\ MaxTokensForBudget(b, p) = 0
      BY <1>1, <2>2, <2>4, <2>5
    <3>2. b * MicrosPerMillion < (MaxTokensForBudget(b, p) + 1) * p
      BY <2>1, <3>1, BudgetExceeded
    <3>3. (MaxTokensForBudget(b, p) + 1) * p = p /\ b * MicrosPerMillion = MicrosPerMillion * b
          /\ 1 * p = p
      BY <2>1, <3>1
    <3> QED BY <3>2, <3>3
  <2>7. b < ChargeMicrosCeil(1, p)
    BY <1>1, <2>1, <2>6, CeilingAbove
  <2>8. InputHold(c) + token > c.available
    BY <1>1, <2>1, <2>7
  <2> QED BY <1>1, <2>8 DEF token, p
<1> QED BY <1>1, <1>2, <1>3

-----------------------------------------------------------------------------
(***************************************************************************)
(* The behaviour: what was planned is what ComputeHold said, and what was     *)
(* charged is what the usage costs.                                          *)
(***************************************************************************)
PlanOf == [ok |-> TRUE, amount |-> Freeze(call), maxTokens |-> CappedMax(call)]

Inv ==
  /\ TypeOK
  /\ stage = "rejected" => ~ Accepts(call)
  /\ Planned => Accepts(call) /\ plan = PlanOf
  /\ stage = "charged" => charge = ChargeMicros(usage.input, usage.output, usage.price)

LEMMA ChargeType ==
  ASSUME NEW u \in Usages
  PROVE  ChargeMicros(u.input, u.output, u.price) \in Nat
<1>1. u.input \in Nat /\ u.output \in Nat /\ u.price \in [input : Nat, output : Nat]
  BY DEF Usages
<1>2. PICK n \in Nat : n = u.input * u.price.input + u.output * u.price.output
  BY <1>1
<1>3. n \div MicrosPerMillion \in Int /\ 0 <= n \div MicrosPerMillion
  BY <1>2, Quotient, QuotientAtLeast
<1> QED BY <1>2, <1>3 DEF ChargeMicros

LEMMA Invariant == Spec => []Inv
<1>1. Init => Inv
  <2> SUFFICES ASSUME Init PROVE Inv
    OBVIOUS
  <2>1. call.price \in Prices
    BY DEF Init, Calls
  <2> QED BY <2>1 DEF Init, Inv, TypeOK, Rejected, NoUsage, Usages, Planned
<1>2. Inv /\ [Next]_vars => Inv'
  <2> SUFFICES ASSUME Inv, [Next]_vars PROVE Inv'
    OBVIOUS
  <2>1. CASE Reserve
    <3>1. CASE Accepts(call)
      <4>1. Freeze(call) \in 1..call.available /\ CappedMax(call) \in 1..RequestedMax(call)
            /\ RequestedMax(call) \in 1..MaxOutputTokens
        BY <3>1, FreezeFits, CallType DEF Accepts, Inv, TypeOK
      <4>2. plan' = PlanOf /\ stage' = "called" /\ UNCHANGED <<call, usage, charge>>
        BY <2>1, <3>1 DEF Reserve, ComputeHold, PlanOf
      <4>3. PlanOf' = PlanOf /\ Accepts(call)'
        BY <3>1, <4>2 DEF PlanOf
      <4>4. Freeze(call) \in Nat /\ CappedMax(call) \in Nat
        BY <4>1
      <4>5. TypeOK'
        BY <4>2, <4>4 DEF Inv, TypeOK, PlanOf
      <4> QED BY <4>2, <4>3, <4>5 DEF Inv, Planned
    <3>2. CASE ~ Accepts(call)
      <4>1. plan' = Rejected /\ stage' = "rejected" /\ UNCHANGED <<call, usage, charge>>
        BY <2>1, <3>2 DEF Reserve, ComputeHold, Rejected
      <4>2. ~ Accepts(call)'
        BY <3>2, <4>1
      <4> QED BY <4>1, <4>2 DEF Inv, TypeOK, Planned, Rejected
    <3> QED BY <3>1, <3>2
  <2>2. ASSUME NEW input \in Nat, NEW output \in Nat, NEW price \in Prices,
               stage = "called", Process(input, output, price)
        PROVE  Inv'
    <3> DEFINE u == [input |-> input, output |-> output, price |-> price]
    <3>1. usage' = u /\ charge' = ChargeMicros(input, output, price) /\ stage' = "charged"
          /\ UNCHANGED <<call, plan>>
      BY <2>2 DEF Process
    <3>2. u \in Usages
      BY DEF Usages
    <3>3. charge' \in Nat
      BY <3>1, <3>2, ChargeType
    <3>4. TypeOK'
      BY <3>1, <3>2, <3>3 DEF Inv, TypeOK
    <3>5. Accepts(call) /\ plan = PlanOf
      BY <2>2 DEF Process, Inv, Planned
    <3>6. Accepts(call)' /\ plan' = PlanOf'
      BY <3>1, <3>5 DEF PlanOf
    <3> QED BY <3>1, <3>2, <3>4, <3>6 DEF Inv, Planned
  <2>3. CASE Answered
    <3>1. PICK cancelled \in BOOLEAN, input \in InputCounts, output \in OutputCounts,
               streamed \in StreamedRunes, price \in Prices :
            Process(BilledInput(input, cancelled), BilledOutput(output, streamed), price)
      BY <2>3 DEF Answered
    <3>2. input \in Nat /\ output \in Nat /\ streamed \in Nat
      OBVIOUS
    <3>3. EstimateTokens(call.runes) \in Nat
      BY CallType DEF Inv, TypeOK
    <3>4. EstimateTokens(streamed) \in Nat
      BY <3>2 DEF EstimateTokens
    <3>5. BilledInput(input, cancelled) \in Nat /\ BilledOutput(output, streamed) \in Nat
      BY <3>2, <3>3, <3>4 DEF BilledInput, BilledOutput
    <3> QED BY <2>2, <2>3, <3>1, <3>5 DEF Answered
  <2>4. CASE UNCHANGED vars
    <3>1. PlanOf' = PlanOf /\ Accepts(call)' = Accepts(call)
      BY <2>4 DEF PlanOf, vars
    <3> QED BY <2>4, <3>1 DEF Inv, TypeOK, Planned, vars
  <2> QED BY <2>1, <2>3, <2>4 DEF Next
<1> QED BY <1>1, <1>2, PTL DEF Spec

\* A plan, a usage and a charge are natural numbers, rejected calls included.
THEOREM TypeCorrect == Spec => []TypeOK
<1>1. Inv => TypeOK
  BY DEF Inv
<1> QED BY <1>1, Invariant, PTL

\* Every plan the planner makes, PlaceHold's conditional UPDATE accepts.
THEOREM PlansArePlaceable == Spec => []PlanPlaceable
<1>1. Inv => PlanPlaceable
  BY FreezeFits DEF Inv, PlanPlaceable, Planned, Accepts, PlanOf, TypeOK
<1> QED BY <1>1, Invariant, PTL

\* The output cap is clamped no more than the balance demands.
THEOREM PlansAreMaximal == Spec => []PlanMaximal
<1>1. Inv => PlanMaximal
  BY FreezeFits DEF Inv, PlanMaximal, Planned, Accepts, PlanOf, TypeOK
<1> QED BY <1>1, Invariant, PTL

\* Nobody who can pay for the input and a token is turned away.
THEOREM RejectionsAreJustified == Spec => []RejectionJustified
<1>1. Inv => RejectionJustified
  BY RejectedFor DEF Inv, RejectionJustified, TypeOK
<1> QED BY <1>1, Invariant, PTL

-----------------------------------------------------------------------------
(***************************************************************************)
(* One floor against two ceilings.                                           *)
(***************************************************************************)

\* What usage within in and out costs, and what the two ceilings cover.
LEMMA FloorUnderCeilings ==
  ASSUME NEW in \in Nat, NEW out \in Nat, NEW i \in 0..in, NEW o \in 0..out,
         NEW price \in [input : Nat, output : Nat]
  PROVE  ChargeMicros(i, o, price)
         <= ChargeMicrosCeil(in, price.input) + ChargeMicrosCeil(out, price.output)
<1> DEFINE ci == ChargeMicrosCeil(in, price.input)
           co == ChargeMicrosCeil(out, price.output)
           m == MicrosPerMillion
<1>1. ci \in Nat /\ co \in Nat /\ in * price.input <= m * ci /\ out * price.output <= m * co
  BY Ceiling
<1>2. m \in Nat \ {0}
  OBVIOUS
<1>3. /\ i * price.input <= in * price.input /\ o * price.output <= out * price.output
      /\ i * price.input \in Nat /\ o * price.output \in Nat
      /\ in * price.input \in Nat /\ out * price.output \in Nat
  BY ProductGrows
<1>4. PICK n \in Nat : n = i * price.input + o * price.output
  BY <1>3
<1> HIDE DEF ci, co, m
<1>5. m * (ci + co + 1) = m * ci + m * co + m /\ m * ci \in Nat /\ m * co \in Nat
  BY <1>1, <1>2
<1>6. PICK k \in Int : k = ci + co
  BY <1>1
<1>7. n < m * (k + 1)
  BY <1>1, <1>2, <1>3, <1>4, <1>5, <1>6
<1>8. n \div m <= ci + co
  BY <1>2, <1>4, <1>6, <1>7, QuotientAtMost
<1> QED BY <1>4, <1>8 DEF ChargeMicros, ci, co, m

\* Usage of all of in and out misses the ceilings by at most two micros.
LEMMA FloorNearCeilings ==
  ASSUME NEW in \in Nat, NEW out \in Nat, NEW price \in [input : Nat, output : Nat]
  PROVE  ChargeMicrosCeil(in, price.input) + ChargeMicrosCeil(out, price.output) - 2
         <= ChargeMicros(in, out, price)
<1> DEFINE ci == ChargeMicrosCeil(in, price.input)
           co == ChargeMicrosCeil(out, price.output)
           m == MicrosPerMillion
           x == in * price.input
           y == out * price.output
<1>1. ci \in Nat /\ co \in Nat /\ m * ci < x + m /\ m * co < y + m
  BY Ceiling
<1>2. m \in Nat \ {0} /\ x \in Nat /\ y \in Nat
  OBVIOUS
<1> HIDE DEF ci, co, m, x, y
<1>3. m * (ci + co - 2) = m * ci + m * co - 2 * m /\ m * ci \in Nat /\ m * co \in Nat
  BY <1>1, <1>2
<1>4. m * (ci + co - 2) <= x + y
  BY <1>1, <1>2, <1>3
<1>5. ci + co - 2 <= (x + y) \div m
  BY <1>1, <1>2, <1>4, QuotientAtLeast
<1> QED BY <1>5 DEF ChargeMicros, ci, co, m, x, y

\* The ceiling of a sum is within the sum of the ceilings.
LEMMA CeilingsAdd ==
  ASSUME NEW a \in Nat, NEW b \in Nat, NEW p \in Nat
  PROVE  ChargeMicrosCeil(a + b, p) <= ChargeMicrosCeil(a, p) + ChargeMicrosCeil(b, p)
<1> DEFINE ca == ChargeMicrosCeil(a, p)
           cb == ChargeMicrosCeil(b, p)
           m == MicrosPerMillion
<1>1. ca \in Nat /\ cb \in Nat /\ a * p <= m * ca /\ b * p <= m * cb
  BY Ceiling
<1>2. m \in Nat \ {0} /\ a * p \in Nat /\ b * p \in Nat
  OBVIOUS
<1>3. (a + b) * p = a * p + b * p
  OBVIOUS
<1> HIDE DEF ca, cb, m
<1>4. m * (ca + cb) = m * ca + m * cb /\ m * ca \in Nat /\ m * cb \in Nat
  BY <1>1, <1>2
<1>5. (a + b) * p <= m * (ca + cb)
  BY <1>1, <1>2, <1>3, <1>4
<1>6. PICK k \in Int : k = ca + cb
  BY <1>1
<1>7. a + b \in Nat
  OBVIOUS
<1>8. ChargeMicrosCeil(a + b, p) <= k
  BY <1>5, <1>6, <1>7, CeilingAtMost DEF m
<1> QED BY <1>6, <1>8 DEF ca, cb

\* Freeze and output beyond the cap cover every charge whose input is within
\* the estimate, at the price planned, whatever the provider counted and
\* however long the text of a cut stream was.
THEOREM ChargesAreCovered == Spec => []ChargeCovered
<1>1. Inv => ChargeCovered
  <2> SUFFICES ASSUME Inv, stage = "charged", usage.price = call.price,
                      usage.input <= EstimateInputTokens(call.runes)
               PROVE  charge <= plan.amount + ChargeMicrosCeil(BeyondCap, call.price.output)
    BY DEF ChargeCovered
  <2> DEFINE in == EstimateInputTokens(call.runes)
             cap == CappedMax(call)
             over == BeyondCap
             p == call.price
  <2>1. plan.amount = Freeze(call) /\ plan.maxTokens = cap /\ call \in Calls
        /\ charge = ChargeMicros(usage.input, usage.output, p) /\ Accepts(call)
    BY DEF Inv, Planned, PlanOf, TypeOK
  <2>2. usage.input \in Nat /\ usage.output \in Nat
    BY DEF Inv, TypeOK, Usages
  <2>3. cap \in Nat /\ in \in Nat /\ p \in [input : Nat, output : Nat]
    BY <2>1, FreezeFits, CallType DEF Accepts, Calls
  <2>4. over \in Nat /\ usage.output <= cap + over
    BY <2>1, <2>2, <2>3 DEF BeyondCap
  <2>5. InputHold(call) = ChargeMicrosCeil(in, p.input)
    BY DEF InputHold
  <2>6. Freeze(call) >= InputHold(call) + ChargeMicrosCeil(cap, p.output)
    <3>1. InputHold(call) \in Nat /\ ChargeMicrosCeil(cap, p.output) \in Nat
      BY <2>1, <2>3, CallType, CeilingType
    <3> QED BY <3>1 DEF Freeze
  <2> HIDE DEF in, cap, over, p
  <2>7. usage.input \in 0..in /\ usage.output \in 0..(cap + over) /\ cap + over \in Nat
    BY <2>2, <2>3, <2>4 DEF in
  <2>8. charge <= ChargeMicrosCeil(in, p.input) + ChargeMicrosCeil(cap + over, p.output)
    BY <2>1, <2>3, <2>7, FloorUnderCeilings
  <2>9. ChargeMicrosCeil(cap + over, p.output)
        <= ChargeMicrosCeil(cap, p.output) + ChargeMicrosCeil(over, p.output)
    BY <2>3, <2>4, CeilingsAdd
  <2>10. /\ ChargeMicrosCeil(in, p.input) \in Nat /\ ChargeMicrosCeil(cap + over, p.output) \in Nat
         /\ ChargeMicrosCeil(cap, p.output) \in Nat /\ ChargeMicrosCeil(over, p.output) \in Nat
         /\ charge \in Nat /\ Freeze(call) \in Nat
    <3>1. Freeze(call) \in Nat /\ charge \in Nat
      BY <2>1 DEF Inv, TypeOK
    <3> QED BY <2>3, <2>4, <2>7, <3>1, CeilingType
  <2>11. charge <= Freeze(call) + ChargeMicrosCeil(over, p.output)
    BY <2>5, <2>6, <2>8, <2>9, <2>10
  <2> QED BY <2>1, <2>11 DEF over, p
<1> QED BY <1>1, Invariant, PTL

\* The freeze exceeds the charge of a call that used all of it by two at most.
THEOREM FreezesAreTight == Spec => []FreezeTight
<1>1. Inv => FreezeTight
  <2> SUFFICES ASSUME Inv, stage = "charged", usage.price = call.price,
                      usage.input = EstimateInputTokens(call.runes),
                      usage.output = plan.maxTokens
               PROVE  plan.amount - charge <= 2
    BY DEF FreezeTight
  <2>1. plan.amount = Freeze(call) /\ plan.maxTokens = CappedMax(call) /\ call \in Calls
        /\ charge = ChargeMicros(EstimateInputTokens(call.runes), CappedMax(call), call.price)
        /\ Accepts(call)
    BY DEF Inv, Planned, PlanOf, TypeOK
  <2>2. /\ CappedMax(call) \in Nat /\ EstimateInputTokens(call.runes) \in Nat
        /\ call.price \in [input : Nat, output : Nat]
    BY <2>1, FreezeFits, CallType DEF Accepts, Calls
  <2>3. InputHold(call) + ChargeMicrosCeil(CappedMax(call), call.price.output) - 2 <= charge
    BY <2>1, <2>2, FloorNearCeilings DEF InputHold
  <2>4. InputHold(call) \in Nat /\ ChargeMicrosCeil(CappedMax(call), call.price.output) \in Nat
        /\ charge \in Nat
    BY <2>1, <2>2, CallType, CeilingType DEF Inv, TypeOK
  <2> QED BY <2>1, <2>3, <2>4 DEF Freeze
<1> QED BY <1>1, Invariant, PTL
=============================================================================
