-------------------------- MODULE MandateDecision --------------------------
(***************************************************************************)
(* What the Dodo webhook decides from what it has read: which mandate an      *)
(* organization keeps, which ones it cancels, under which key it grants, and  *)
(* which refund status wins.  A plan is its sort order, 0 when it is unknown  *)
(* or there is none.                                                          *)
(***************************************************************************)
EXTENDS Naturals

CONSTANT NoSub       \* the empty subscription id

NoPlan == 0
Known(plan) == plan # NoPlan

\* subscriptionPersistAction: the first case that applies.
subscriptionPersistAction(stored, incoming, plan, previous, storedPlan) ==
  CASE incoming = NoSub -> "keep"
    [] stored = incoming -> IF Known(plan) /\ plan < previous THEN "stale" ELSE "keep"
    [] ~Known(plan) -> IF stored = NoSub /\ previous = 0 THEN "adopt" ELSE "defer"
    [] Known(storedPlan) /\ plan > storedPlan -> "adopt"
    [] plan > previous \/ (stored = NoSub /\ plan >= previous) -> "adopt"
    [] OTHER -> "stale"

pickHigherPlan(plan, previous) ==
  IF Known(plan) /\ (~Known(previous) \/ plan > previous) THEN plan ELSE previous

\* refs maps the subscriptions that have an invoice to the plan on the latest.
mergePriorSubscriptionIDs(stored, incoming, refs) ==
  ({stored} \cup DOMAIN refs) \ {NoSub, incoming}

staleInvoiceIDs(incoming, current, refs) ==
  {s \in DOMAIN refs \ {incoming} : Known(current) /\ Known(refs[s]) /\ refs[s] < current}

\* The idempotency key of a grant, of the same shape whatever it names.
LegacyKey(sub, period) == <<"legacy", sub, NoPlan, period>>

\* As if the two events of the first charge had keys of their own.
grantKeyPerEvent(sub, plan, current, type, period, legacyGranted) ==
  IF Known(plan) /\ ~(plan = current /\ legacyGranted) THEN <<type, sub, plan, period>> ELSE LegacyKey(sub, period)

subscriptionGrantKey(sub, plan, current, type, period, legacyGranted) ==
  CASE sub = NoSub -> <<type, NoSub, NoPlan, period>>
    [] sub # NoSub /\ (~Known(plan) \/ (plan = current /\ legacyGranted)) -> LegacyKey(sub, period)
    [] OTHER -> <<"period", sub, plan, period>>

\* What a refund event says of the payment, joined with what GetPayment answers.
normalizeRefundStatus(isPartial) == IF isPartial THEN "partial" ELSE "full"

mergeRefundStatus(fromEvent, fromPayment) ==
  IF "full" \in {fromEvent, fromPayment} THEN "full" ELSE "partial"
=============================================================================
