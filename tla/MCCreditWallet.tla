--------------------------- MODULE MCCreditWallet ---------------------------
(***************************************************************************)
(* Small instances of CreditWallet for TLC.                                  *)
(***************************************************************************)
EXTENDS CreditWallet

CONSTANTS acme, globex

\* Two requests race on one wallet.
RaceOrgOf == <<acme, acme>>
RaceGrantOrg == <<acme>>

\* Three requests on one wallet, each charged what its hold froze: only a
\* charge that comes after its hold was reclaimed can overdraw it.
LateOrgOf == <<acme, acme, acme>>

\* Two wallets with a request each.
TwoOrgOf == <<acme, globex>>
TwoGrantOrg == <<acme, globex>>
=============================================================================
