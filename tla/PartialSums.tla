---------------------------- MODULE PartialSums ----------------------------
(***************************************************************************)
(* SUM(...) over numbered rows, as the accounting queries of the billing    *)
(* repository use it.  It is a recursive function over an initial segment   *)
(* of the naturals and not a fold of the community modules because          *)
(* PartialSumsTheorems proves facts about it.                               *)
(***************************************************************************)
EXTENDS Integers

\* partial[i] is f[1] + ... + f[i].
Partials(f, n) ==
  LET partial[i \in 0..n] == IF i = 0 THEN 0 ELSE partial[i-1] + f[i]
  IN  partial

\* f[1] + ... + f[n].
SumTo(f, n) == Partials(f, n)[n]
=============================================================================
