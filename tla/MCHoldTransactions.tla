------------------------- MODULE MCHoldTransactions -------------------------
(***************************************************************************)
(* Small sets of transactions for HoldTransactions.                          *)
(***************************************************************************)
EXTENDS HoldTransactions

CONSTANTS acme, globex

Tx(id, kind, of, amount) == [id |-> id, kind |-> kind, of |-> of, amount |-> amount]

\* Two calls of one organization: the first is recorded twice, the sweeper
\* and a second grant run meanwhile.
TwoCalls ==
  { Tx(1, "grant", 1, 4), Tx(2, "place", 1, 2), Tx(3, "place", 2, 2),
    Tx(4, "record", 1, 3), Tx(5, "record", 1, 3), Tx(6, "record", 2, 1),
    Tx(7, "sweep", 0, 0), Tx(8, "grant", 2, 1) }

\* Two organizations: a grant delivered twice, a released and a recorded call,
\* a job without a hold, and a sweep over both.
Mixed ==
  { Tx(1, "grant", 1, 4), Tx(2, "grant", 1, 4), Tx(3, "grant", 2, 3),
    Tx(4, "place", 1, 2), Tx(5, "place", 2, 2), Tx(6, "release", 1, 0),
    Tx(7, "record", 2, 3), Tx(8, "record", 3, 1), Tx(9, "sweep", 0, 0) }

MixedOrgOf == <<acme, globex, acme>>
MixedGrantOrg == <<acme, globex>>

OneOrgOf == [r \in Requests |-> acme]
OneGrantOrg == [g \in Grants |-> acme]
=============================================================================
