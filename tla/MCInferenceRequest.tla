------------------------- MODULE MCInferenceRequest -------------------------
(***************************************************************************)
(* Two calls of one organization that takes one at a time, one of them from   *)
(* the playground by a user whose own bucket holds a single token.            *)
(***************************************************************************)
EXTENDS InferenceRequest, TLC

CONSTANTS c1, c2, u1

OneUser == c1 :> u1 @@ c2 :> u1
=============================================================================
