----------------------------- MODULE MCHoldPlan -----------------------------
(***************************************************************************)
(* A small price list for HoldPlan: a free model, models priced on one side    *)
(* only, and prices below, at and above one micro a token.                     *)
(***************************************************************************)
EXTENDS HoldPlan

SmallPrices ==
  { [input |-> i, output |-> o] : i \in {0, 2, 7}, o \in {0, 1, 4, 5} }

\* A wallet of a few tokens of this model, and a call that asks for five.
OnePrice == { [input |-> 2, output |-> 4] }

SmallBalances == -1..14

\* No cap named, and caps below and above the ceiling.
SmallRequests == {-1, 0, 1, 5, 9}
=============================================================================
