--------------------------- MODULE CreditAccount ---------------------------
(***************************************************************************)
(* What the wallet promises, without holds, retries or queues: an            *)
(* organization's credit is what was granted to it less what its requests     *)
(* cost, a grant key is honoured once, and a request is charged once.         *)
(***************************************************************************)
EXTENDS Integers

CONSTANTS Orgs, Requests, Grants, OrgOf, GrantOrg, Charges, GrantAmounts

VARIABLES
  credit,   \* what an organization owns, frozen by a hold or not
  granted,  \* grant honoured for a key, 0 when none was
  charged   \* what a request was charged, 0 when it was not

vars == <<credit, granted, charged>>

Init ==
  /\ credit = [o \in Orgs |-> 0]
  /\ granted = [g \in Grants |-> 0]
  /\ charged = [r \in Requests |-> 0]

Grant(g, amount) ==
  /\ granted[g] = 0
  /\ granted' = [granted EXCEPT ![g] = amount]
  /\ credit' = [credit EXCEPT ![GrantOrg[g]] = @ + amount]
  /\ UNCHANGED charged

Charge(r, amount) ==
  /\ charged[r] = 0
  /\ charged' = [charged EXCEPT ![r] = amount]
  /\ credit' = [credit EXCEPT ![OrgOf[r]] = @ - amount]
  /\ UNCHANGED granted

Next ==
  \/ \E g \in Grants, amount \in GrantAmounts : Grant(g, amount)
  \/ \E r \in Requests, amount \in Charges : Charge(r, amount)

Spec == Init /\ [][Next]_vars
=============================================================================
