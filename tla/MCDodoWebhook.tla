--------------------------- MODULE MCDodoWebhook ---------------------------
(***************************************************************************)
(* A trial and an upgrade to starter, each bought in a checkout of its own.   *)
(***************************************************************************)
EXTENDS DodoWebhook, TLC

CONSTANTS trial, starter, p1, p2

Ev(type, s, p, names, first, partial) ==
  [type |-> type, sub |-> s, pay |-> p, plan |-> IF s = trial THEN 2 ELSE 3,
   names |-> names, first |-> first, partial |-> partial]

MCSubs == {trial, starter}
MCPlanOf == trial :> 2 @@ starter :> 3
MCPaidAt == p1 :> 1 @@ p2 :> 2

TrialActive == Ev("active", trial, NoPay, TRUE, TRUE, FALSE)
TrialRenewed == Ev("renewed", trial, NoPay, TRUE, FALSE, FALSE)
StarterActive == Ev("active", starter, NoPay, TRUE, TRUE, FALSE)
StarterLookedUp == Ev("active", starter, NoPay, FALSE, TRUE, FALSE)
StarterRenewed == Ev("renewed", starter, NoPay, TRUE, TRUE, FALSE)
StarterChanged == [Ev("plan_changed", starter, NoPay, TRUE, FALSE, FALSE) EXCEPT !.plan = 1]
StarterCharge == Ev("payment", starter, p2, FALSE, TRUE, FALSE)
OneTimePayment == Ev("payment", NoSub, p1, TRUE, FALSE, FALSE)
OneTimeLookedUp == [OneTimePayment EXCEPT !.names = FALSE]
PartialRefund == Ev("refund", starter, p2, TRUE, FALSE, TRUE)
FullRefund == Ev("refund", starter, p2, TRUE, FALSE, FALSE)

MCHistories ==
  {{TrialActive, StarterActive, StarterRenewed},
   {TrialRenewed, StarterActive, StarterCharge},
   {StarterCharge, StarterChanged},
   {TrialActive, StarterLookedUp},
   {TrialActive, OneTimePayment},
   {TrialActive, OneTimeLookedUp},
   {StarterCharge, PartialRefund, FullRefund}}

Symmetry == Permutations(Handlers)
MCEvents == UNION MCHistories
=============================================================================
