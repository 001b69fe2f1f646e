------------------------- MODULE CreditWalletProofs -------------------------
(***************************************************************************)
(* What CreditWallet guarantees for every number of organizations, requests   *)
(* and grants, and every set of amounts.                                      *)
(***************************************************************************)
EXTENDS CreditWallet, PartialSumsTheorems

USE WalletAssumption

(***************************************************************************)
(* The type invariant.                                                       *)
(***************************************************************************)

\* The sums of the accounting queries are integers, those of naturals naturals.
LEMMA TotalsType ==
  ASSUME TypeOK, NEW o \in Orgs
  PROVE  /\ OpenTotal(o) \in Nat /\ ExpiredTotal(o) \in Nat
         /\ UsageTotal(o) \in Nat /\ GrantTotal(o) \in Nat
<1>1. ASSUME NEW S, NEW amount \in [Requests -> Nat]
      PROVE  SumTo(AmountsOf(o, S, amount), NumRequests) \in Nat
  <2>1. \A i \in 1..NumRequests : AmountsOf(o, S, amount)[i] \in Nat
    BY DEF AmountsOf, Requests
  <2> QED BY <2>1, SumNat
<1>2. GrantTotal(o) \in Nat
  <2>1. \A i \in 1..NumGrants : GrantsOf(o)[i] \in Nat
    BY DEF GrantsOf, TypeOK, Grants
  <2> QED BY <2>1, SumNat DEF GrantTotal
<1> QED
  BY <1>1, <1>2 DEF OpenTotal, ExpiredTotal, UsageTotal, TypeOK

\* Every variable keeps its type: balances are integers (remaining may be
\* negative), ledger rows and freezes are naturals.
THEOREM TypeCorrect == Spec => []TypeOK
<1>1. Init => TypeOK
  BY DEF Init, TypeOK, Phases
<1>2. TypeOK /\ [Next]_vars => TypeOK'
  <2> SUFFICES ASSUME TypeOK, [Next]_vars PROVE TypeOK'
    OBVIOUS
  <2> USE DEF TypeOK, Phases, balances, holds, ledger, handler, queue
  <2>1. ASSUME NEW g \in Grants, NEW amount \in GrantAmounts, GrantCredits(g, amount)
        PROVE  TypeOK'
    BY <2>1 DEF GrantCredits
  <2>2. ASSUME NEW r \in Requests, NEW amount \in HoldAmounts, PlaceHold(r, amount)
        PROVE  TypeOK'
    <3>1. AfterReclaim(OrgOf[r]) \in Int /\ amount \in Nat
      BY TotalsType DEF AfterReclaim
    <3> QED BY <2>2, <3>1 DEF PlaceHold
  <2>3. ASSUME NEW r \in Requests, RejectHold(r) PROVE TypeOK'
    BY <2>3 DEF RejectHold
  <2>4. ASSUME NEW r \in Requests, DispatchFails(r) PROVE TypeOK'
    BY <2>4 DEF DispatchFails
  <2>5. ASSUME NEW r \in Requests, NEW s \in {"success", "error"}, DispatchReturns(r, s)
        PROVE  TypeOK'
    BY <2>5 DEF DispatchReturns
  <2>6. ASSUME NEW r \in Requests, ReleaseHold(r) PROVE TypeOK'
    BY <2>6 DEF ReleaseHold, Settled, Refund
  <2>7. ASSUME NEW r \in Requests, AbandonHold(r) PROVE TypeOK'
    BY <2>7 DEF AbandonHold
  <2>8. ASSUME NEW r \in Requests, NEW amount \in Charges \cup {0}, Record(r, amount)
        PROVE  /\ remaining' \in [Orgs -> Int] /\ used' \in [Orgs -> Int]
               /\ usageRow' \in [Requests -> Nat] /\ logged' \in [Requests -> BOOLEAN]
               /\ hold' \in [Requests -> {"none", "open", "settled"}]
               /\ backing' \in [Requests -> Nat]
               /\ UNCHANGED <<granted, grantRow, frozen, expired, status>>
    BY <2>8 DEF Record, Settled, Refund
  <2>9. ASSUME NEW r \in Requests, NEW amount \in Charges \cup {0}, SettleInHandler(r, amount)
        PROVE  TypeOK'
    BY <2>8, <2>9 DEF SettleInHandler
  <2>10. ASSUME NEW r \in Requests, SettleInHandlerFails(r) PROVE TypeOK'
    BY <2>10 DEF SettleInHandlerFails
  <2>11. ASSUME NEW r \in Requests, Publish(r) PROVE TypeOK'
    BY <2>11 DEF Publish
  <2>12. ASSUME NEW r \in Requests, Receive(r) PROVE TypeOK'
    BY <2>12 DEF Receive
  <2>13. ASSUME NEW r \in Requests, NEW amount \in Charges \cup {0}, Consume(r, amount)
         PROVE  TypeOK'
    BY <2>8, <2>13 DEF Consume
  <2>14. ASSUME NEW r \in Requests, ConsumeFails(r) PROVE TypeOK'
    BY <2>14 DEF ConsumeFails
  <2>15. ASSUME NEW r \in Requests, Redrive(r) PROVE TypeOK'
    BY <2>15 DEF Redrive
  <2>16. ASSUME NEW r \in Requests, Expire(r) PROVE TypeOK'
    BY <2>16 DEF Expire
  <2>19. ASSUME NEW r \in Requests, Delete(r) PROVE TypeOK'
    BY <2>19 DEF Delete
  <2>17. ASSUME NEW S \in SUBSET Orgs, ReleaseExpiredHolds(S) PROVE TypeOK'
    <3>1. \A o \in Orgs : AfterReclaim(o) \in Int
      BY TotalsType DEF AfterReclaim
    <3> QED BY <2>17, <3>1 DEF ReleaseExpiredHolds
  <2>18. CASE UNCHANGED vars
    BY <2>18 DEF vars
  <2> QED
    BY <2>1, <2>2, <2>3, <2>4, <2>5, <2>6, <2>7, <2>9, <2>10, <2>11, <2>12, <2>13,
       <2>14, <2>15, <2>16, <2>17, <2>18, <2>19
    DEF Next, HandlerStep, ConsumerStep, Sweep
<1> QED BY <1>1, <1>2, PTL DEF Spec

-----------------------------------------------------------------------------
(***************************************************************************)
(* How the steps move the sums.                                              *)
(***************************************************************************)

\* Settling a hold takes its freeze out of its organization's open holds.
LEMMA OpenAfterSettle ==
  ASSUME TypeOK, TypeOK', NEW r \in Requests, NEW o \in Orgs,
         hold' = Settled(r), frozen' = frozen
  PROVE  OpenTotal(o)' = OpenTotal(o) - (IF o = OrgOf[r] /\ Applies(r) THEN frozen[r] ELSE 0)
<1> DEFINE f == AmountsOf(o, {q \in Requests : IsOpen(q)}, frozen)
           g == AmountsOf(o, {q \in Requests : hold'[q] = "open"}, frozen)
<1>1. r \in 1..NumRequests /\ NumRequests \in Nat
  BY DEF Requests
<1>2. \A i \in 1..NumRequests : f[i] \in Int /\ g[i] \in Int
  BY DEF TypeOK, AmountsOf, Requests
<1>3. \A i \in 1..NumRequests : i # r => g[i] = f[i]
  BY DEF TypeOK, AmountsOf, Requests, Settled, IsOpen
<1>4. g[r] = 0 /\ f[r] = IF o = OrgOf[r] /\ Applies(r) THEN frozen[r] ELSE 0
  BY DEF TypeOK, AmountsOf, Settled, Applies, IsOpen
<1> HIDE DEF f, g
<1>5. SumTo(g, NumRequests) = SumTo(f, NumRequests) + g[r] - f[r]
  BY <1>1, <1>2, <1>3, SumUpdate
<1>6. SumTo(f, NumRequests) \in Int /\ f[r] \in Int
  BY <1>1, <1>2, SumType
<1>7. OpenTotal(o) = SumTo(f, NumRequests) /\ OpenTotal(o)' = SumTo(g, NumRequests)
  BY DEF OpenTotal, IsOpen, AmountsOf, f, g
<1> QED BY <1>4, <1>5, <1>6, <1>7

\* Reclaiming moves what expired out of the open holds.
LEMMA OpenAfterReclaim ==
  ASSUME TypeOK, TypeOK', NEW S \in SUBSET Orgs, NEW o \in Orgs,
         hold' = [r \in Requests |-> IF r \in ReclaimedIn(S) THEN "settled" ELSE hold[r]],
         frozen' = frozen
  PROVE  OpenTotal(o)' = OpenTotal(o) - (IF o \in S THEN ExpiredTotal(o) ELSE 0)
<1> DEFINE f == AmountsOf(o, {q \in Requests : IsOpen(q)}, frozen)
           g == AmountsOf(o, {q \in Requests : hold'[q] = "open"}, frozen)
           e == AmountsOf(o, {q \in Requests : Reclaimable(q)}, frozen)
           z == [q \in Requests |-> 0]
<1>1. \A i \in 1..NumRequests : f[i] \in Int /\ g[i] \in Int /\ e[i] \in Int /\ z[i] \in Int
  BY DEF TypeOK, AmountsOf, Requests
<1>2. NumRequests \in Nat
  OBVIOUS
<1>3. OpenTotal(o) = SumTo(f, NumRequests) /\ OpenTotal(o)' = SumTo(g, NumRequests)
      /\ ExpiredTotal(o) = SumTo(e, NumRequests)
  BY DEF OpenTotal, ExpiredTotal, IsOpen, AmountsOf
<1>4. SumTo(f, NumRequests) \in Int /\ SumTo(g, NumRequests) \in Int
      /\ SumTo(e, NumRequests) \in Int
  BY <1>1, <1>2, SumType
<1>5. CASE o \in S
  <2>1. ASSUME NEW i \in 1..NumRequests PROVE g[i] + e[i] = f[i] + z[i]
    <3>1. i \in Requests /\ frozen[i] \in Nat /\ z[i] = 0
      BY DEF TypeOK, Requests
    <3>2. f[i] = IF OrgOf[i] = o /\ hold[i] = "open" THEN frozen[i] ELSE 0
      BY <3>1 DEF AmountsOf, IsOpen
    <3>3. e[i] = IF OrgOf[i] = o /\ hold[i] = "open" /\ expired[i] THEN frozen[i] ELSE 0
      BY <3>1 DEF AmountsOf, Reclaimable
    <3>4. g[i] = IF OrgOf[i] = o /\ hold[i] = "open" /\ ~ expired[i] THEN frozen[i] ELSE 0
      BY <1>5, <3>1 DEF AmountsOf, ReclaimedIn, Reclaimable
    <3> HIDE DEF f, g, e, z
    <3> QED BY <3>1, <3>2, <3>3, <3>4
  <2>2. \A i \in 1..NumRequests : z[i] \in Nat /\ z[i] = 0
    BY DEF Requests
  <2> HIDE DEF f, g, e, z
  <2>3. SumTo(g, NumRequests) + SumTo(e, NumRequests) = SumTo(f, NumRequests) + SumTo(z, NumRequests)
    BY <1>1, <1>2, <2>1, SumExchange
  <2>4. SumTo(z, NumRequests) = 0
    BY <1>2, <2>2, SumOfNone
  <2> QED BY <1>3, <1>4, <1>5, <2>3, <2>4
<1>6. CASE o \notin S
  <2>1. \A i \in 1..NumRequests : g[i] = f[i]
    BY <1>6 DEF TypeOK, AmountsOf, Requests, IsOpen, ReclaimedIn
  <2> HIDE DEF f, g
  <2>2. SumTo(g, NumRequests) = SumTo(f, NumRequests)
    BY <1>1, <1>2, <2>1, SumSame
  <2> QED BY <1>3, <1>4, <1>6, <2>2
<1> QED BY <1>5, <1>6

\* Placing a hold reclaims and freezes.
LEMMA OpenAfterPlace ==
  ASSUME TypeOK, TypeOK', NEW r \in Requests, NEW amount \in Nat, NEW o \in Orgs,
         hold[r] = "none",
         hold' = [q \in Requests |-> IF q = r THEN "open"
                                      ELSE IF q \in ReclaimedIn({OrgOf[r]}) THEN "settled" ELSE hold[q]],
         frozen' = [frozen EXCEPT ![r] = amount]
  PROVE  OpenTotal(o)' = OpenTotal(o) +
           (IF o = OrgOf[r] THEN amount - ExpiredTotal(o) ELSE 0)
<1> DEFINE f == AmountsOf(o, {q \in Requests : IsOpen(q)}, frozen)
           g == AmountsOf(o, {q \in Requests : hold'[q] = "open"}, frozen')
           e == AmountsOf(o, {q \in Requests : Reclaimable(q)}, frozen)
           d == [q \in Requests |-> IF q = r THEN amount ELSE 0]
<1>1. /\ \A i \in 1..NumRequests : f[i] \in Int /\ g[i] \in Int
      /\ \A i \in 1..NumRequests : e[i] \in Int /\ d[i] \in Int
  <2>1. frozen' \in [Requests -> Nat] /\ frozen \in [Requests -> Nat]
    BY DEF TypeOK
  <2> QED BY <2>1 DEF AmountsOf, Requests
<1>2. NumRequests \in Nat /\ r \in 1..NumRequests
  BY DEF Requests
<1>3. OpenTotal(o) = SumTo(f, NumRequests) /\ OpenTotal(o)' = SumTo(g, NumRequests)
      /\ ExpiredTotal(o) = SumTo(e, NumRequests)
  BY DEF OpenTotal, ExpiredTotal, IsOpen, AmountsOf
<1>4. SumTo(f, NumRequests) \in Int /\ SumTo(g, NumRequests) \in Int
      /\ SumTo(e, NumRequests) \in Int
  BY <1>1, <1>2, SumType
<1>5. CASE o = OrgOf[r]
  <2>1. ASSUME NEW i \in 1..NumRequests PROVE g[i] + e[i] = f[i] + d[i]
    <3>1. i \in Requests /\ frozen[i] \in Nat /\ d[i] = IF i = r THEN amount ELSE 0
      BY DEF TypeOK, Requests
    <3>2. f[i] = IF OrgOf[i] = o /\ hold[i] = "open" THEN frozen[i] ELSE 0
      BY <3>1 DEF AmountsOf, IsOpen
    <3>3. e[i] = IF OrgOf[i] = o /\ hold[i] = "open" /\ expired[i] THEN frozen[i] ELSE 0
      BY <3>1 DEF AmountsOf, Reclaimable
    <3>4. CASE i = r
      <4>1. g[i] = amount /\ f[i] = 0 /\ e[i] = 0
        BY <1>5, <3>1, <3>2, <3>3, <3>4 DEF AmountsOf, TypeOK
      <4> HIDE DEF f, g, e, d
      <4> QED BY <3>1, <3>4, <4>1
    <3>5. CASE i # r
      <4>1. g[i] = IF OrgOf[i] = o /\ hold[i] = "open" /\ ~ expired[i] THEN frozen[i] ELSE 0
        BY <1>5, <3>1, <3>5 DEF AmountsOf, ReclaimedIn, Reclaimable, TypeOK
      <4> HIDE DEF f, g, e, d
      <4> QED BY <3>1, <3>2, <3>3, <3>5, <4>1
    <3> QED BY <3>4, <3>5
  <2>2. d[r] = amount /\ \A i \in 1..NumRequests : i # r => d[i] = 0
    BY DEF Requests
  <2> HIDE DEF f, g, e, d
  <2>3. SumTo(g, NumRequests) + SumTo(e, NumRequests) = SumTo(f, NumRequests) + SumTo(d, NumRequests)
    BY <1>1, <1>2, <2>1, SumExchange
  <2>4. SumTo(d, NumRequests) = amount
    BY <1>2, <2>2, SumOfOne
  <2> QED BY <1>3, <1>4, <1>5, <2>3, <2>4
<1>6. CASE o # OrgOf[r]
  <2>1. \A i \in 1..NumRequests : g[i] = f[i]
    BY <1>6 DEF TypeOK, AmountsOf, Requests, IsOpen, ReclaimedIn
  <2> HIDE DEF f, g
  <2>2. SumTo(g, NumRequests) = SumTo(f, NumRequests)
    BY <1>1, <1>2, <2>1, SumSame
  <2> QED BY <1>3, <1>4, <1>6, <2>2
<1> QED BY <1>5, <1>6

\* A usage row that goes from 0 to x raises its organization's usage by x.
LEMMA UsageAfterRow ==
  ASSUME TypeOK, NEW r \in Requests, NEW o \in Orgs, NEW x \in Nat,
         usageRow' = [usageRow EXCEPT ![r] = x]
  PROVE  UsageTotal(o)' = UsageTotal(o) + (IF o = OrgOf[r] THEN x - usageRow[r] ELSE 0)
<1> DEFINE f == AmountsOf(o, Requests, usageRow)
           g == AmountsOf(o, Requests, usageRow')
<1>1. r \in 1..NumRequests /\ NumRequests \in Nat
  BY DEF Requests
<1>2. \A i \in 1..NumRequests : f[i] \in Int /\ g[i] \in Int
  BY DEF TypeOK, AmountsOf, Requests
<1>3. \A i \in 1..NumRequests : i # r => g[i] = f[i]
  BY DEF TypeOK, AmountsOf, Requests
<1>4. g[r] = (IF o = OrgOf[r] THEN x ELSE 0) /\ f[r] = (IF o = OrgOf[r] THEN usageRow[r] ELSE 0)
      /\ usageRow[r] \in Nat
  BY DEF TypeOK, AmountsOf
<1> HIDE DEF f, g
<1>5. SumTo(g, NumRequests) = SumTo(f, NumRequests) + g[r] - f[r]
  BY <1>1, <1>2, <1>3, SumUpdate
<1>6. SumTo(f, NumRequests) \in Int
  BY <1>1, <1>2, SumType
<1>7. UsageTotal(o) = SumTo(f, NumRequests) /\ UsageTotal(o)' = SumTo(g, NumRequests)
  BY DEF UsageTotal, AmountsOf, f, g
<1> QED BY <1>4, <1>5, <1>6, <1>7

\* An inserted grant row raises its organization's grants by as much.
LEMMA GrantsAfterRow ==
  ASSUME TypeOK, NEW k \in Grants, NEW o \in Orgs, NEW x \in Nat,
         grantRow[k] = 0, grantRow' = [grantRow EXCEPT ![k] = x]
  PROVE  GrantTotal(o)' = GrantTotal(o) + (IF o = GrantOrg[k] THEN x ELSE 0)
<1> DEFINE f == GrantsOf(o)
           g == [q \in Grants |-> IF GrantOrg[q] = o THEN grantRow'[q] ELSE 0]
<1>1. k \in 1..NumGrants /\ NumGrants \in Nat
  BY DEF Grants
<1>2. \A i \in 1..NumGrants : f[i] \in Int /\ g[i] \in Int
  BY DEF TypeOK, GrantsOf, Grants
<1>3. \A i \in 1..NumGrants : i # k => g[i] = f[i]
  BY DEF TypeOK, GrantsOf, Grants
<1>4. g[k] = (IF o = GrantOrg[k] THEN x ELSE 0) /\ f[k] = 0
  BY DEF TypeOK, GrantsOf
<1> HIDE DEF f, g
<1>5. SumTo(g, NumGrants) = SumTo(f, NumGrants) + g[k] - f[k]
  BY <1>1, <1>2, <1>3, SumUpdate
<1>6. SumTo(f, NumGrants) \in Int
  BY <1>1, <1>2, SumType
<1>7. GrantTotal(o) = SumTo(f, NumGrants) /\ GrantTotal(o)' = SumTo(g, NumGrants)
  BY DEF GrantTotal, GrantsOf, f, g
<1> QED BY <1>4, <1>5, <1>6, <1>7

\* The uncovered part of one request is what moves the uncovered total.
LEMMA UncoveredType ==
  ASSUME TypeOK, NEW o \in Orgs
  PROVE  UncoveredTotal(o) \in Nat /\ \A r \in Requests : Uncovered(r) \in Nat
<1> DEFINE f == [r \in Requests |-> IF OrgOf[r] = o THEN Uncovered(r) ELSE 0]
<1>1. \A r \in Requests : Uncovered(r) \in Nat
  BY DEF Uncovered, TypeOK
<1>2. \A i \in 1..NumRequests : f[i] \in Nat
  BY <1>1 DEF Requests
<1> HIDE DEF f
<1>3. SumTo(f, NumRequests) \in Nat
  BY <1>2, SumNat
<1> QED BY <1>1, <1>3 DEF UncoveredTotal, f

ChargesOnly(r) ==
  \A q \in Requests : q # r => usageRow'[q] = usageRow[q] /\ backing'[q] = backing[q]

LEMMA UncoveredAfter ==
  ASSUME TypeOK, TypeOK', NEW r \in Requests, NEW o \in Orgs, ChargesOnly(r)
  PROVE  UncoveredTotal(o)' = UncoveredTotal(o) +
           (IF o = OrgOf[r] THEN Uncovered(r)' - Uncovered(r) ELSE 0)
<1> DEFINE f == [q \in Requests |-> IF OrgOf[q] = o THEN Uncovered(q) ELSE 0]
           g == [q \in Requests |-> IF OrgOf[q] = o THEN Uncovered(q)' ELSE 0]
<1>1. r \in 1..NumRequests /\ NumRequests \in Nat
  BY DEF Requests
<1>2. \A q \in Requests : Uncovered(q) \in Int /\ Uncovered(q)' \in Int
  BY DEF Uncovered, TypeOK
<1>3. \A q \in Requests : q # r => Uncovered(q)' = Uncovered(q)
  BY DEF ChargesOnly, Uncovered
<1>4. \A i \in 1..NumRequests : f[i] \in Int /\ g[i] \in Int
  BY <1>2 DEF Requests
<1>5. \A i \in 1..NumRequests : i # r => g[i] = f[i]
  BY <1>3 DEF Requests
<1>6. g[r] = (IF o = OrgOf[r] THEN Uncovered(r)' ELSE 0) /\ f[r] = (IF o = OrgOf[r] THEN Uncovered(r) ELSE 0)
  OBVIOUS
<1>7. UncoveredTotal(o) = SumTo(f, NumRequests) /\ UncoveredTotal(o)' = SumTo(g, NumRequests)
  BY DEF UncoveredTotal
<1> HIDE DEF f, g
<1>8. SumTo(g, NumRequests) = SumTo(f, NumRequests) + g[r] - f[r]
  BY <1>1, <1>4, <1>5, SumUpdate
<1>9. SumTo(f, NumRequests) \in Int
  BY <1>1, <1>4, SumType
<1> QED BY <1>2, <1>6, <1>7, <1>8, <1>9

-----------------------------------------------------------------------------
(***************************************************************************)
(* The inductive invariant.  LedgerAligned and CreditConserved need           *)
(* ChargeBacked (a charged request has no open hold, so settling an open one   *)
(* inserts its ledger row), which needs ChargeOrder.                           *)
(***************************************************************************)
Accounts == LedgerAligned /\ CreditConserved /\ OverdraftBounded
IInv == TypeOK /\ Accounts /\ ChargeBacked /\ ChargeOrder

\* With its rows as they were, the account of o is in order if what it may
\* spend moved with what its open holds freeze, and did not go down uncovered.
LEMMA AccountStep ==
  ASSUME TypeOK, TypeOK', Accounts,
         UNCHANGED <<used, granted, grantRow, usageRow, backing>>,
         \A o \in Orgs : remaining'[o] + OpenTotal(o)' = remaining[o] + OpenTotal(o),
         \A o \in Orgs : remaining'[o] >= remaining[o] \/ remaining'[o] >= 0
  PROVE  Accounts'
<1>1. ASSUME NEW o \in Orgs
      PROVE  /\ UsageTotal(o)' = UsageTotal(o) /\ GrantTotal(o)' = GrantTotal(o)
             /\ UncoveredTotal(o)' = UncoveredTotal(o)
  BY DEF UsageTotal, GrantTotal, UncoveredTotal, Uncovered, AmountsOf, GrantsOf
<1>2. LedgerAligned'
  BY <1>1 DEF Accounts, LedgerAligned
<1>3. CreditConserved'
  <2> SUFFICES ASSUME NEW o \in Orgs
               PROVE  remaining'[o] = granted'[o] - used'[o] - OpenTotal(o)'
    BY DEF CreditConserved
  <2>1. remaining[o] = granted[o] - used[o] - OpenTotal(o)
    BY DEF Accounts, CreditConserved
  <2>2. remaining[o] \in Int /\ remaining'[o] \in Int /\ granted[o] \in Int /\ used[o] \in Int
    BY DEF TypeOK
  <2>3. OpenTotal(o) \in Int /\ OpenTotal(o)' \in Int
    <3>1. OpenTotal(o) \in Nat
      BY TotalsType
    <3>2. (TypeOK /\ o \in Orgs => OpenTotal(o) \in Nat)'
      BY TotalsType, PTL
    <3> QED BY <3>1, <3>2
  <2> QED BY <2>1, <2>2, <2>3
<1>4. OverdraftBounded'
  <2> SUFFICES ASSUME NEW o \in Orgs PROVE remaining'[o] + UncoveredTotal(o)' >= 0
    BY DEF OverdraftBounded
  <2>1. remaining[o] + UncoveredTotal(o) >= 0
    BY DEF Accounts, OverdraftBounded
  <2>2. remaining[o] \in Int /\ remaining'[o] \in Int /\ UncoveredTotal(o) \in Nat
    BY UncoveredType DEF TypeOK
  <2> QED BY <1>1, <2>1, <2>2
<1> QED BY <1>2, <1>3, <1>4 DEF Accounts

LEMMA QuietAccounts ==
  ASSUME TypeOK, TypeOK', Accounts, UNCHANGED <<balances, hold, frozen, backing, ledger>>
  PROVE  Accounts'
<1>1. \A o \in Orgs : OpenTotal(o)' = OpenTotal(o) /\ remaining'[o] = remaining[o] /\ remaining[o] \in Int
  BY DEF OpenTotal, AmountsOf, IsOpen, balances, TypeOK
<1>2. UNCHANGED <<used, granted, grantRow, usageRow, backing>>
  BY DEF balances, ledger
<1>3. \A o \in Orgs : remaining'[o] >= remaining[o]
  BY <1>1
<1> QED BY <1>1, <1>2, <1>3, AccountStep

LEMMA PlaceAccounts ==
  ASSUME TypeOK, TypeOK', Accounts, ChargeOrder,
         NEW r \in Requests, NEW amount \in HoldAmounts, PlaceHold(r, amount)
  PROVE  Accounts'
<1> DEFINE w == OrgOf[r]
<1>1. w \in Orgs /\ amount \in Nat
  OBVIOUS
<1>2. hold[r] = "none" /\ frozen' = [frozen EXCEPT ![r] = amount]
      /\ hold' = [q \in Requests |-> IF q = r THEN "open"
                                       ELSE IF q \in ReclaimedIn({OrgOf[r]}) THEN "settled" ELSE hold[q]]
  BY DEF PlaceHold, ChargeOrder
<1>3. \A o \in Orgs : OpenTotal(o)' = OpenTotal(o) + (IF o = w THEN amount - ExpiredTotal(o) ELSE 0)
  BY <1>1, <1>2, OpenAfterPlace
<1>4. /\ remaining' = [remaining EXCEPT ![w] = AfterReclaim(w) - amount]
      /\ AfterReclaim(w) >= amount
  BY DEF PlaceHold, CanFreeze
<1>5. \A o \in Orgs : remaining[o] \in Int /\ OpenTotal(o) \in Nat /\ ExpiredTotal(o) \in Nat
  BY TotalsType DEF TypeOK
<1>6. remaining \in [Orgs -> Int]
  BY DEF TypeOK
<1> HIDE DEF w
<1>7. ASSUME NEW o \in Orgs
      PROVE  /\ remaining'[o] + OpenTotal(o)' = remaining[o] + OpenTotal(o)
             /\ remaining'[o] >= remaining[o] \/ remaining'[o] >= 0
  <2>1. CASE o = w
    <3>1. remaining'[o] = AfterReclaim(o) - amount /\ AfterReclaim(o) >= amount
      BY <1>1, <1>4, <1>6, <2>1
    <3> QED BY <1>1, <1>3, <1>5, <2>1, <3>1 DEF AfterReclaim
  <2>2. CASE o # w
    <3>1. remaining'[o] = remaining[o]
      BY <1>4, <1>6, <2>2
    <3> QED BY <1>3, <1>5, <2>2, <3>1
  <2> QED BY <2>1, <2>2
<1>8. UNCHANGED <<used, granted, grantRow, usageRow, backing>>
  BY DEF PlaceHold, ledger
<1> QED BY <1>7, <1>8, AccountStep

LEMMA SweepAccounts ==
  ASSUME TypeOK, TypeOK', Accounts, NEW S \in SUBSET Orgs, ReleaseExpiredHolds(S)
  PROVE  Accounts'
<1>1. \A o \in Orgs : OpenTotal(o)' = OpenTotal(o) - (IF o \in S THEN ExpiredTotal(o) ELSE 0)
  BY OpenAfterReclaim DEF ReleaseExpiredHolds
<1>2. \A o \in Orgs : remaining'[o] = IF o \in S THEN remaining[o] + ExpiredTotal(o) ELSE remaining[o]
  BY DEF ReleaseExpiredHolds, AfterReclaim
<1>3. \A o \in Orgs : remaining[o] \in Int /\ OpenTotal(o) \in Nat /\ ExpiredTotal(o) \in Nat
  BY TotalsType DEF TypeOK
<1>4. UNCHANGED <<used, granted, grantRow, usageRow, backing>>
  BY DEF ReleaseExpiredHolds, ledger
<1>5. \A o \in Orgs : /\ remaining'[o] + OpenTotal(o)' = remaining[o] + OpenTotal(o)
                     /\ remaining'[o] >= remaining[o]
  BY <1>1, <1>2, <1>3
<1> QED BY <1>4, <1>5, AccountStep

LEMMA ReleaseAccounts ==
  ASSUME TypeOK, TypeOK', Accounts, NEW r \in Requests, ReleaseHold(r)
  PROVE  Accounts'
<1> DEFINE w == OrgOf[r]
           back == IF Applies(r) THEN frozen[r] ELSE 0
<1>1. w \in Orgs /\ back \in Nat
  BY DEF TypeOK
<1>2. \A o \in Orgs : OpenTotal(o)' = OpenTotal(o) - (IF o = w THEN back ELSE 0)
  BY OpenAfterSettle DEF ReleaseHold
<1>3. remaining' = [remaining EXCEPT ![w] = remaining[w] + back]
  <2>1. Refund(r, 0) = back
    BY DEF Refund, TypeOK
  <2>2. remaining' = [remaining EXCEPT ![w] = remaining[w] + Refund(r, 0)]
    BY DEF ReleaseHold
  <2> HIDE DEF back, w
  <2> QED BY <2>1, <2>2
<1>4. remaining \in [Orgs -> Int] /\ \A o \in Orgs : OpenTotal(o) \in Nat
  BY TotalsType DEF TypeOK
<1>5. UNCHANGED <<used, granted, grantRow, usageRow, backing>>
  BY DEF ReleaseHold, ledger
<1> HIDE DEF w, back
<1>6. \A o \in Orgs : remaining'[o] = remaining[o] + (IF o = w THEN back ELSE 0)
  BY <1>1, <1>3, <1>4
<1>7. \A o \in Orgs : /\ remaining'[o] + OpenTotal(o)' = remaining[o] + OpenTotal(o)
                     /\ remaining'[o] >= remaining[o]
  BY <1>1, <1>2, <1>4, <1>6
<1> QED BY <1>5, <1>7, AccountStep

LEMMA GrantAccounts ==
  ASSUME TypeOK, TypeOK', Accounts, NEW g \in Grants, NEW amount \in GrantAmounts,
         GrantCredits(g, amount)
  PROVE  Accounts'
<1>1. CASE ~ GrantInserts(g)
  BY <1>1, QuietAccounts DEF GrantCredits, balances, holds, ledger
<1>2. CASE GrantInserts(g)
  <2> DEFINE w == GrantOrg[g]
  <2>1. w \in Orgs /\ amount \in Nat
    OBVIOUS
  <2>2. /\ granted' = [granted EXCEPT ![w] = granted[w] + amount]
        /\ remaining' = [remaining EXCEPT ![w] = remaining[w] + amount]
        /\ grantRow' = [grantRow EXCEPT ![g] = amount] /\ grantRow[g] = 0
        /\ UNCHANGED <<used, usageRow, hold, frozen, backing>>
    BY <1>2 DEF GrantCredits, GrantInserts, holds
  <2>3. granted \in [Orgs -> Int] /\ remaining \in [Orgs -> Int]
    BY DEF TypeOK
  <2>4. ASSUME NEW o \in Orgs
        PROVE  /\ OpenTotal(o)' = OpenTotal(o) /\ UsageTotal(o)' = UsageTotal(o)
               /\ UncoveredTotal(o)' = UncoveredTotal(o)
    BY <2>2 DEF OpenTotal, UsageTotal, UncoveredTotal, Uncovered, AmountsOf, IsOpen
  <2>5. \A o \in Orgs : GrantTotal(o)' = GrantTotal(o) + (IF o = w THEN amount ELSE 0)
    BY <2>1, <2>2, GrantsAfterRow
  <2> HIDE DEF w
  <2>6. \A o \in Orgs : /\ granted'[o] = granted[o] + (IF o = w THEN amount ELSE 0)
                       /\ remaining'[o] = remaining[o] + (IF o = w THEN amount ELSE 0)
    BY <2>1, <2>2, <2>3
  <2>7. \A o \in Orgs : /\ OpenTotal(o) \in Int /\ UncoveredTotal(o) \in Int /\ used[o] \in Int
                       /\ granted[o] \in Int /\ remaining[o] \in Int /\ GrantTotal(o) \in Int
    BY TotalsType, UncoveredType DEF TypeOK
  <2>8. LedgerAligned'
    BY <2>2, <2>4, <2>5, <2>6 DEF Accounts, LedgerAligned
  <2>9. CreditConserved'
    BY <2>1, <2>2, <2>4, <2>6, <2>7 DEF Accounts, CreditConserved
  <2>10. OverdraftBounded'
    BY <2>1, <2>2, <2>4, <2>6, <2>7 DEF Accounts, OverdraftBounded
  <2> QED BY <2>8, <2>9, <2>10 DEF Accounts
<1> QED BY <1>1, <1>2

\* Recording moves a balance by what it books and by the freeze it gives back,
\* and books what it inserts in the ledger.
LEMMA RecordAccounts ==
  ASSUME TypeOK, TypeOK', Accounts, ChargeBacked, ChargeOrder,
         NEW r \in Requests, NEW amount \in Charges \cup {0}, Record(r, amount)
  PROVE  Accounts'
<1> DEFINE w == OrgOf[r]
           booked == IF Applies(r) \/ LedgerInserts(r, amount) THEN amount ELSE 0
           back == IF Applies(r) THEN frozen[r] ELSE 0
<1>1. w \in Orgs /\ amount \in Nat /\ booked \in Nat /\ back \in Nat
  BY DEF TypeOK
<1>2. Applies(r) \/ LedgerInserts(r, amount) => usageRow[r] = 0 /\ backing[r] = 0
  BY DEF Applies, LedgerInserts, ChargeBacked, ChargeOrder, TypeOK
<1>3. usageRow' = [usageRow EXCEPT ![r] = usageRow[r] + booked]
  <2>1. usageRow' = [usageRow EXCEPT ![r] = IF LedgerInserts(r, amount) THEN amount ELSE usageRow[r]]
    BY DEF Record
  <2>2. (IF LedgerInserts(r, amount) THEN amount ELSE usageRow[r]) = usageRow[r] + booked
    BY <1>1, <1>2 DEF LedgerInserts, TypeOK
  <2> HIDE DEF booked
  <2> QED BY <2>1, <2>2
<1>4. used' = [used EXCEPT ![w] = used[w] + booked]
  <2>1. used' = [used EXCEPT ![w] = used[w] + IF Applies(r) THEN amount ELSE IF Debits(r, amount) THEN amount ELSE 0]
    BY DEF Record
  <2>2. (IF Applies(r) THEN amount ELSE IF Debits(r, amount) THEN amount ELSE 0) = booked
    BY DEF Debits
  <2> HIDE DEF booked, w
  <2> QED BY <2>1, <2>2
<1>5. remaining' = [remaining EXCEPT ![w] = remaining[w] + back - booked]
  <2>1. remaining' = [remaining EXCEPT ![w] =
          remaining[w] + Refund(r, amount) - (IF Debits(r, amount) THEN amount ELSE 0)]
    BY DEF Record
  <2>2. remaining[w] + Refund(r, amount) - (IF Debits(r, amount) THEN amount ELSE 0)
        = remaining[w] + back - booked
    <3>1. remaining[w] \in Int /\ frozen[r] \in Nat
      BY <1>1 DEF TypeOK
    <3> HIDE DEF w
    <3> QED BY <1>1, <3>1 DEF Refund, Debits
  <2> HIDE DEF booked, back, w
  <2> QED BY <2>1, <2>2
<1>6. \A o \in Orgs : OpenTotal(o)' = OpenTotal(o) - (IF o = w THEN back ELSE 0)
  BY OpenAfterSettle DEF Record
<1>7. \A o \in Orgs : UsageTotal(o)' = UsageTotal(o) + (IF o = w THEN booked ELSE 0)
  <2>1. usageRow[r] \in Nat
    BY DEF TypeOK
  <2> HIDE DEF booked
  <2> SUFFICES ASSUME NEW o \in Orgs
               PROVE  UsageTotal(o)' = UsageTotal(o) + (IF o = w THEN booked ELSE 0)
    OBVIOUS
  <2>2. PICK x \in Nat : x = usageRow[r] + booked
    BY <1>1, <2>1
  <2>3. UsageTotal(o)' = UsageTotal(o) + (IF o = OrgOf[r] THEN x - usageRow[r] ELSE 0)
    BY <1>3, <2>2, UsageAfterRow
  <2>4. x - usageRow[r] = booked
    BY <1>1, <2>1, <2>2
  <2> QED BY <2>3, <2>4
<1>8. Uncovered(r)' >= Uncovered(r) + booked - back
  <2>1. backing'[r] = IF LedgerInserts(r, amount) /\ Applies(r) THEN frozen[r] ELSE backing[r]
    BY DEF Record, TypeOK
  <2>2. usageRow'[r] = usageRow[r] + booked
    BY <1>3 DEF TypeOK
  <2>3. usageRow[r] \in Nat /\ backing[r] \in Nat /\ frozen[r] \in Nat
    BY DEF TypeOK
  <2>4. CASE Applies(r) /\ LedgerInserts(r, amount)
    BY <1>1, <1>2, <2>1, <2>2, <2>3, <2>4 DEF Uncovered
  <2>5. CASE Applies(r) /\ ~ LedgerInserts(r, amount)
    <3>1. amount = 0
      BY <1>1, <1>2, <2>5 DEF LedgerInserts
    <3> QED BY <1>1, <1>2, <2>1, <2>2, <2>3, <2>5, <3>1 DEF Uncovered
  <2>6. CASE ~ Applies(r)
    <3>1. back = 0 /\ backing'[r] = backing[r]
      BY <2>1, <2>6
    <3>2. booked = 0 \/ (usageRow[r] = 0 /\ backing[r] = 0)
      BY <1>2
    <3> HIDE DEF back, booked
    <3> QED BY <1>1, <2>2, <2>3, <3>1, <3>2 DEF Uncovered
  <2> QED BY <2>4, <2>5, <2>6
<1>9. \A o \in Orgs : UncoveredTotal(o)' = UncoveredTotal(o) + (IF o = w THEN Uncovered(r)' - Uncovered(r) ELSE 0)
  <2>1. ChargesOnly(r)
    BY DEF Record, TypeOK, ChargesOnly
  <2> QED BY <2>1, UncoveredAfter
<1>10. \A o \in Orgs : /\ OpenTotal(o) \in Int /\ UncoveredTotal(o) \in Int /\ used[o] \in Int
                       /\ granted[o] \in Int /\ remaining[o] \in Int /\ UsageTotal(o) \in Int
  BY TotalsType, UncoveredType DEF TypeOK
<1>11. Uncovered(r) \in Int /\ Uncovered(r)' \in Int
  BY DEF Uncovered, TypeOK
<1>12. granted' = granted /\ grantRow' = grantRow
  BY DEF Record
<1>13. used \in [Orgs -> Int] /\ remaining \in [Orgs -> Int]
  BY DEF TypeOK
<1> HIDE DEF w, booked, back
<1>14. \A o \in Orgs : /\ used'[o] = used[o] + (IF o = w THEN booked ELSE 0)
                       /\ remaining'[o] = remaining[o] + (IF o = w THEN back - booked ELSE 0)
  BY <1>1, <1>4, <1>5, <1>13
<1>15. LedgerAligned'
  <2>1. \A o \in Orgs : GrantTotal(o)' = GrantTotal(o)
    BY <1>12 DEF GrantTotal, GrantsOf
  <2> QED BY <1>7, <1>12, <1>14, <2>1 DEF Accounts, LedgerAligned
<1>16. CreditConserved'
  BY <1>1, <1>6, <1>10, <1>12, <1>14 DEF Accounts, CreditConserved
<1>17. OverdraftBounded'
  <2> SUFFICES ASSUME NEW o \in Orgs PROVE remaining'[o] + UncoveredTotal(o)' >= 0
    BY DEF OverdraftBounded
  <2>1. remaining[o] + UncoveredTotal(o) >= 0
    BY DEF Accounts, OverdraftBounded
  <2> QED BY <1>1, <1>8, <1>9, <1>10, <1>11, <1>14, <2>1
<1> QED BY <1>15, <1>16, <1>17 DEF Accounts

-----------------------------------------------------------------------------
(***************************************************************************)
(* The order of a request's life.                                            *)
(***************************************************************************)

Order == ChargeBacked /\ ChargeOrder

\* Nothing a request's order depends on has changed.
LEMMA QuietOrder ==
  ASSUME TypeOK, Order, UNCHANGED <<usageRow, logged, hold, backing, status>>,
         \A r \in Requests : phase'[r] \in {"new", "held"} => phase'[r] = phase[r]
  PROVE  Order'
BY DEF Order, ChargeBacked, ChargeOrder, IsOpen

LEMMA PlaceOrder ==
  ASSUME TypeOK, Order, NEW r \in Requests, NEW amount \in HoldAmounts, PlaceHold(r, amount)
  PROVE  Order'
<1>1. phase[r] = "new" /\ phase' \in [Requests -> Phases] /\ phase'[r] # "new"
      /\ \A q \in Requests : q # r => phase'[q] = phase[q]
  BY DEF PlaceHold, TypeOK, Phases
<1>2. \A q \in Requests : q # r => hold'[q] = hold[q] \/ (hold[q] = "open" /\ hold'[q] = "settled")
  BY DEF PlaceHold, TypeOK, ReclaimedIn, Reclaimable
<1>3. UNCHANGED <<usageRow, logged, backing, status>>
  BY DEF PlaceHold, ledger
<1>4. usageRow[r] = 0 /\ status[r] = "none"
  BY <1>1 DEF Order, ChargeBacked, ChargeOrder, TypeOK
<1>5. ChargeBacked'
  BY <1>2, <1>3, <1>4 DEF Order, ChargeBacked, IsOpen
<1>6. ChargeOrder'
  BY <1>1, <1>2, <1>3, <1>4 DEF Order, ChargeOrder
<1> QED BY <1>5, <1>6 DEF Order

LEMMA ReturnOrder ==
  ASSUME TypeOK, Order, NEW r \in Requests, NEW s \in {"success", "error"}, DispatchReturns(r, s)
  PROVE  Order'
<1>1. phase[r] = "held" /\ phase'[r] = "answered" /\ \A q \in Requests : q # r =>
        phase'[q] = phase[q] /\ status'[q] = status[q]
  BY DEF DispatchReturns, TypeOK
<1>2. UNCHANGED <<usageRow, logged, backing, hold>>
  BY DEF DispatchReturns, ledger, holds
<1>3. usageRow[r] = 0
  BY <1>1 DEF Order, ChargeBacked, ChargeOrder, TypeOK
<1>4. ChargeBacked'
  BY <1>1, <1>2, <1>3 DEF Order, ChargeBacked, IsOpen
<1>5. ChargeOrder'
  BY <1>1, <1>2 DEF Order, ChargeOrder
<1> QED BY <1>4, <1>5 DEF Order

LEMMA SettleOrder ==
  ASSUME TypeOK, Order, NEW r \in Requests, hold' = Settled(r),
         UNCHANGED <<usageRow, logged, backing, status>>,
         \A q \in Requests : phase'[q] \in {"new", "held"} => phase'[q] = phase[q]
  PROVE  Order'
<1>1. \A q \in Requests : hold'[q] = hold[q] \/ (hold[q] = "open" /\ hold'[q] = "settled")
  BY DEF Settled, Applies, IsOpen, TypeOK
<1>2. ChargeBacked'
  BY <1>1 DEF Order, ChargeBacked, IsOpen
<1>3. ChargeOrder'
  BY <1>1 DEF Order, ChargeOrder
<1> QED BY <1>2, <1>3 DEF Order

LEMMA SweepOrder ==
  ASSUME TypeOK, Order, NEW S \in SUBSET Orgs, ReleaseExpiredHolds(S)
  PROVE  Order'
<1>1. \A q \in Requests : hold'[q] = hold[q] \/ (hold[q] = "open" /\ hold'[q] = "settled")
  BY DEF ReleaseExpiredHolds, ReclaimedIn, Reclaimable
<1>2. UNCHANGED <<usageRow, logged, backing, status, phase>>
  BY DEF ReleaseExpiredHolds, ledger, handler
<1>3. ChargeBacked'
  BY <1>1, <1>2 DEF Order, ChargeBacked, IsOpen
<1>4. ChargeOrder'
  BY <1>1, <1>2 DEF Order, ChargeOrder
<1> QED BY <1>3, <1>4 DEF Order

LEMMA RecordOrder ==
  ASSUME TypeOK, Order, NEW r \in Requests, NEW amount \in Charges \cup {0}, Record(r, amount),
         \A q \in Requests : phase'[q] \in {"new", "held"} => phase'[q] = phase[q]
  PROVE  Order'
<1>1. \A q \in Requests : q # r => /\ usageRow'[q] = usageRow[q] /\ logged'[q] = logged[q]
                                   /\ hold'[q] = hold[q] /\ backing'[q] = backing[q]
  BY DEF Record, Settled, TypeOK
<1>2. status' = status /\ logged'[r]
  BY DEF Record, TypeOK
<1>3. hold'[r] = (IF hold[r] = "open" THEN "settled" ELSE hold[r])
  BY DEF Record, Settled, Applies, IsOpen, TypeOK
<1>4. CASE LedgerInserts(r, amount)
  <2>1. amount > 0 /\ usageRow'[r] = amount
    BY <1>4 DEF Record, LedgerInserts, TypeOK
  <2>2. status[r] = "success"
    BY <2>1 DEF Record, Priced
  <2>3. ChargeBacked'
    BY <1>1, <1>2, <1>3, <2>2 DEF Order, ChargeBacked, IsOpen
  <2>4. ChargeOrder'
    BY <1>1, <1>2, <1>3, <2>1 DEF Order, ChargeOrder
  <2> QED BY <2>3, <2>4 DEF Order
<1>5. CASE ~ LedgerInserts(r, amount)
  <2>1. usageRow'[r] = usageRow[r] /\ backing'[r] = backing[r]
    BY <1>5 DEF Record, TypeOK
  <2>2. ChargeBacked'
    BY <1>1, <1>2, <1>3, <2>1 DEF Order, ChargeBacked, IsOpen
  <2>3. ChargeOrder'
    BY <1>1, <1>2, <1>3, <2>1 DEF Order, ChargeOrder
  <2> QED BY <2>2, <2>3 DEF Order
<1> QED BY <1>4, <1>5

-----------------------------------------------------------------------------
(***************************************************************************)
(* The invariant holds initially and every step keeps it.                    *)
(***************************************************************************)
LEMMA InitInv == Init => IInv
<1> SUFFICES ASSUME Init PROVE IInv
  OBVIOUS
<1>1. TypeOK
  BY DEF Init, TypeOK, Phases
<1>2. Order
  BY DEF Init, Order, ChargeBacked, ChargeOrder
<1>3. ASSUME NEW o \in Orgs
      PROVE  OpenTotal(o) = 0 /\ UsageTotal(o) = 0 /\ GrantTotal(o) = 0
  <2>1. \A i \in 1..NumRequests : AmountsOf(o, {r \in Requests : IsOpen(r)}, frozen)[i] = 0
    BY DEF Init, AmountsOf, IsOpen, Requests
  <2>2. \A i \in 1..NumRequests : AmountsOf(o, Requests, usageRow)[i] = 0
    BY DEF Init, AmountsOf, Requests
  <2>3. \A i \in 1..NumGrants : GrantsOf(o)[i] = 0
    BY DEF Init, GrantsOf, Grants
  <2> QED BY <2>1, <2>2, <2>3, SumOfNone DEF OpenTotal, UsageTotal, GrantTotal
<1>4. \A o \in Orgs : remaining[o] = 0 /\ used[o] = 0 /\ granted[o] = 0
  BY DEF Init
<1>5. LedgerAligned /\ CreditConserved
  BY <1>3, <1>4 DEF LedgerAligned, CreditConserved
<1>6. OverdraftBounded
  BY <1>1, <1>4, UncoveredType DEF OverdraftBounded
<1> QED BY <1>1, <1>2, <1>5, <1>6 DEF IInv, Accounts, Order

LEMMA NextInv == IInv /\ TypeOK' /\ [Next]_vars => IInv'
<1> SUFFICES ASSUME IInv, TypeOK', [Next]_vars PROVE Accounts' /\ Order'
  BY DEF IInv, Order
<1> USE DEF IInv, Order
<1>1. ASSUME NEW g \in Grants, NEW amount \in GrantAmounts, GrantCredits(g, amount)
      PROVE  Accounts' /\ Order'
  BY <1>1, GrantAccounts, QuietOrder DEF GrantCredits, holds, handler
<1>2. ASSUME NEW r \in Requests, NEW amount \in HoldAmounts, PlaceHold(r, amount)
      PROVE  Accounts' /\ Order'
  BY <1>2, PlaceAccounts, PlaceOrder
<1>3. ASSUME NEW r \in Requests,
             RejectHold(r) \/ DispatchFails(r) \/ AbandonHold(r) \/ SettleInHandlerFails(r)
               \/ Publish(r) \/ Receive(r) \/ ConsumeFails(r) \/ Delete(r) \/ Redrive(r) \/ Expire(r)
      PROVE  Accounts' /\ Order'
  <2>1. UNCHANGED <<balances, hold, frozen, backing, ledger, status>>
        /\ \A q \in Requests : phase'[q] \in {"new", "held"} => phase'[q] = phase[q]
    BY <1>3 DEF RejectHold, DispatchFails, AbandonHold, SettleInHandlerFails, Publish, Receive,
                ConsumeFails, Delete, Redrive, Expire, holds, handler, TypeOK
  <2> QED BY <2>1, QuietAccounts, QuietOrder DEF ledger
<1>4. ASSUME NEW r \in Requests, NEW s \in {"success", "error"}, DispatchReturns(r, s)
      PROVE  Accounts' /\ Order'
  <2>1. UNCHANGED <<balances, hold, frozen, backing, ledger>>
    BY <1>4 DEF DispatchReturns, holds
  <2> QED BY <1>4, <2>1, QuietAccounts, ReturnOrder
<1>5. ASSUME NEW r \in Requests, ReleaseHold(r) PROVE Accounts' /\ Order'
  <2>1. hold' = Settled(r) /\ UNCHANGED <<usageRow, logged, backing, status>>
        /\ \A q \in Requests : phase'[q] \in {"new", "held"} => phase'[q] = phase[q]
    BY <1>5 DEF ReleaseHold, ledger, TypeOK
  <2> QED BY <1>5, <2>1, ReleaseAccounts, SettleOrder
<1>6. ASSUME NEW r \in Requests, NEW amount \in Charges \cup {0}, SettleInHandler(r, amount)
      PROVE  Accounts' /\ Order'
  <2>1. Record(r, amount) /\ \A q \in Requests : phase'[q] \in {"new", "held"} => phase'[q] = phase[q]
    BY <1>6 DEF SettleInHandler, TypeOK
  <2> QED BY <2>1, RecordAccounts, RecordOrder
<1>7. ASSUME NEW r \in Requests, NEW amount \in Charges \cup {0}, Consume(r, amount)
      PROVE  Accounts' /\ Order'
  <2>1. Record(r, amount) /\ \A q \in Requests : phase'[q] \in {"new", "held"} => phase'[q] = phase[q]
    BY <1>7 DEF Consume, TypeOK
  <2> QED BY <2>1, RecordAccounts, RecordOrder
<1>8. ASSUME NEW S \in SUBSET Orgs, ReleaseExpiredHolds(S) PROVE Accounts' /\ Order'
  BY <1>8, SweepAccounts, SweepOrder
<1>9. CASE UNCHANGED vars
  BY <1>9, QuietAccounts, QuietOrder DEF vars, balances, holds, ledger, handler
<1> QED
  BY <1>1, <1>2, <1>3, <1>4, <1>5, <1>6, <1>7, <1>8, <1>9
  DEF Next, HandlerStep, ConsumerStep, Sweep

\* The inductive invariant holds in every reachable state.
THEOREM Inductive == Spec => []IInv
<1>1. Init => IInv
  BY InitInv
<1>2. IInv /\ TypeOK' /\ [Next]_vars => IInv'
  BY NextInv
<1> QED BY <1>1, <1>2, TypeCorrect, PTL DEF Spec

\* The cached totals of a wallet equal its ledger rows.
THEOREM LedgerIsAligned == Spec => []LedgerAligned
<1>1. IInv => LedgerAligned
  BY DEF IInv, Accounts
<1> QED BY <1>1, Inductive, PTL

\* No step creates or loses credit.
THEOREM CreditIsConserved == Spec => []CreditConserved
<1>1. IInv => CreditConserved
  BY DEF IInv, Accounts
<1> QED BY <1>1, Inductive, PTL

\* A wallet is overdrawn by no more than uncovered charges, however many
\* requests freeze at once.
THEOREM OverdraftIsBounded == Spec => []OverdraftBounded
<1>1. IInv => OverdraftBounded
  BY DEF IInv, Accounts
<1> QED BY <1>1, Inductive, PTL

\* A charged request succeeded, is logged and freezes nothing any more.
THEOREM ChargesAreBacked == Spec => []ChargeBacked
<1>1. IInv => ChargeBacked
  BY DEF IInv
<1> QED BY <1>1, Inductive, PTL

\* The consumer deletes no message whose job is not in the log: a job is lost by
\* a publish that fails or left in the DLQ.
THEOREM DeletedJobsAreRecorded == Spec => []DeletedIsRecorded
<1> DEFINE DInv == DeletedIsRecorded /\ ProcessedIsRecorded
<1>1. Init => DInv
  BY DEF Init, DeletedIsRecorded, ProcessedIsRecorded
<1>2. TypeOK /\ DInv /\ [Next]_vars => DInv'
  <2> SUFFICES ASSUME TypeOK, DInv, [Next]_vars PROVE DInv'
    OBVIOUS
  <2> USE DEF DeletedIsRecorded, ProcessedIsRecorded
  <2>1. /\ message \in [Requests -> {"none", "queued", "deleted", "dlq"}]
        /\ logged \in [Requests -> BOOLEAN]
        /\ processed \in [Requests -> Nat]
    BY DEF TypeOK
  <2>2. ASSUME NEW r \in Requests,
               Publish(r) \/ Redrive(r)
        PROVE  DInv'
    BY <2>1, <2>2 DEF Publish, Redrive, ledger
  <2>3. ASSUME NEW r \in Requests, NEW amount \in Charges \cup {0},
               SettleInHandler(r, amount) \/ Consume(r, amount)
        PROVE  DInv'
    BY <2>1, <2>3 DEF SettleInHandler, Consume, Record, queue
  <2>4. ASSUME NEW r \in Requests, Delete(r) PROVE DInv'
    <3>1. processed[r] > 0 /\ logged[r] /\ logged' = logged
      BY <2>4 DEF Delete, ledger
    <3>2. /\ \A q \in Requests : processed'[q] > 0 => processed[q] > 0
          /\ \A q \in Requests : message'[q] = "deleted" => q = r \/ message[q] = "deleted"
      BY <2>1, <2>4 DEF Delete
    <3> QED BY <3>1, <3>2
  <2>5. ASSUME NEW r \in Requests,
               \/ RejectHold(r) \/ DispatchFails(r) \/ AbandonHold(r) \/ SettleInHandlerFails(r)
               \/ Receive(r) \/ ConsumeFails(r) \/ Expire(r) \/ ReleaseHold(r)
               \/ \E s \in {"success", "error"} : DispatchReturns(r, s)
               \/ \E amount \in HoldAmounts : PlaceHold(r, amount)
        PROVE  UNCHANGED <<message, processed, logged>>
    BY <2>5 DEF RejectHold, DispatchFails, AbandonHold, SettleInHandlerFails, Receive, ConsumeFails,
                Expire, ReleaseHold, DispatchReturns, PlaceHold, ledger, queue
  <2>6. ASSUME \/ \E g \in Grants, amount \in GrantAmounts : GrantCredits(g, amount)
               \/ \E S \in SUBSET Orgs : ReleaseExpiredHolds(S)
               \/ UNCHANGED vars
        PROVE  UNCHANGED <<message, processed, logged>>
    BY <2>6 DEF GrantCredits, ReleaseExpiredHolds, ledger, queue, vars
  <2>7. CASE UNCHANGED <<message, processed, logged>>
    BY <2>7
  <2> QED
    BY <2>2, <2>3, <2>4, <2>5, <2>6, <2>7 DEF Next, HandlerStep, ConsumerStep, Sweep
<1> QED BY <1>1, <1>2, TypeCorrect, PTL DEF Spec

-----------------------------------------------------------------------------
(***************************************************************************)
(* Steps: what is settled or written stays so, and every step is a step of    *)
(* the abstract account.                                                     *)
(***************************************************************************)

\* A settled hold and a written ledger row are final.
THEOREM SettlementIsFinal == Spec => SettlementFinal
<1> DEFINE Final == /\ \A r \in Requests : hold[r] = "settled" =>
                         hold'[r] = "settled" /\ frozen'[r] = frozen[r]
                    /\ \A r \in Requests : usageRow[r] # 0 => usageRow'[r] = usageRow[r]
                    /\ \A g \in Grants : grantRow[g] # 0 => grantRow'[g] = grantRow[g]
<1>1. IInv /\ [Next]_vars => Final
  <2> SUFFICES ASSUME IInv, [Next]_vars PROVE Final
    OBVIOUS
  <2> USE DEF IInv, TypeOK
  <2>1. ASSUME NEW g \in Grants, NEW amount \in GrantAmounts, GrantCredits(g, amount)
        PROVE  Final
    BY <2>1 DEF GrantCredits, GrantInserts, holds
  <2>2. ASSUME NEW r \in Requests, NEW amount \in HoldAmounts, PlaceHold(r, amount) PROVE Final
    <3>1. hold[r] = "none"
      BY <2>2 DEF PlaceHold, ChargeOrder
    <3>2. \A q \in Requests : hold[q] = "settled" => hold'[q] = "settled" /\ frozen'[q] = frozen[q]
      BY <2>2, <3>1 DEF PlaceHold
    <3> QED BY <2>2, <3>2 DEF PlaceHold, ledger
  <2>3. ASSUME NEW r \in Requests,
               RejectHold(r) \/ DispatchFails(r) \/ AbandonHold(r) \/ SettleInHandlerFails(r)
                 \/ Publish(r) \/ Receive(r) \/ ConsumeFails(r) \/ Delete(r) \/ Redrive(r) \/ Expire(r)
                 \/ \E s \in {"success", "error"} : DispatchReturns(r, s)
        PROVE  Final
    <3>1. UNCHANGED <<hold, frozen, usageRow, grantRow>>
      BY <2>3 DEF RejectHold, DispatchFails, AbandonHold, SettleInHandlerFails, Publish, Receive,
                  ConsumeFails, Delete, Redrive, Expire, DispatchReturns, holds, ledger
    <3> QED BY <3>1
  <2>4. ASSUME NEW r \in Requests, ReleaseHold(r) PROVE Final
    BY <2>4 DEF ReleaseHold, Settled, Applies, IsOpen, ledger
  <2>5. ASSUME NEW r \in Requests, NEW amount \in Charges \cup {0}, Record(r, amount) PROVE Final
    BY <2>5 DEF Record, Settled, Applies, IsOpen, LedgerInserts
  <2>6. ASSUME NEW S \in SUBSET Orgs, ReleaseExpiredHolds(S) PROVE Final
    BY <2>6 DEF ReleaseExpiredHolds, ledger
  <2>7. CASE UNCHANGED vars
    BY <2>7 DEF vars, holds, ledger
  <2> HIDE DEF Final
  <2> QED
    BY <2>1, <2>2, <2>3, <2>4, <2>5, <2>6, <2>7
    DEF Next, HandlerStep, ConsumerStep, Sweep, SettleInHandler, Consume
<1> QED BY <1>1, Inductive, PTL DEF Spec, SettlementFinal

\* Spendable and frozen credit is what the ledger says was granted and not used.
LEMMA CreditIsLedger ==
  ASSUME IInv, NEW o \in Orgs
  PROVE  remaining[o] + OpenTotal(o) = GrantTotal(o) - UsageTotal(o)
<1>1. OpenTotal(o) \in Int /\ remaining[o] \in Int /\ GrantTotal(o) \in Int /\ UsageTotal(o) \in Int
  BY TotalsType DEF IInv, TypeOK
<1>2. remaining[o] = granted[o] - used[o] - OpenTotal(o) /\ used[o] = UsageTotal(o)
      /\ granted[o] = GrantTotal(o)
  BY DEF IInv, Accounts, LedgerAligned, CreditConserved
<1> QED BY <1>1, <1>2

\* Hence the mapped credit moves with the ledger's rows only.
LEMMA CreditAfter ==
  ASSUME IInv, IInv', NEW o \in Orgs
  PROVE  /\ remaining[o] + OpenTotal(o) = GrantTotal(o) - UsageTotal(o)
         /\ (remaining[o] + OpenTotal(o))' = (GrantTotal(o) - UsageTotal(o))'
         /\ GrantTotal(o) \in Int /\ UsageTotal(o) \in Int
<1>1. (IInv /\ o \in Orgs => remaining[o] + OpenTotal(o) = GrantTotal(o) - UsageTotal(o))'
  BY CreditIsLedger, PTL
<1>2. o' = o
  OBVIOUS
<1> QED BY <1>1, CreditIsLedger, TotalsType DEF IInv

LEMMA SameRows ==
  ASSUME IInv, IInv', UNCHANGED <<grantRow, usageRow>>
  PROVE  UNCHANGED Account!vars
<1>1. ASSUME NEW o \in Orgs
      PROVE  (remaining[o] + OpenTotal(o))' = remaining[o] + OpenTotal(o)
  <2>1. GrantTotal(o)' = GrantTotal(o) /\ UsageTotal(o)' = UsageTotal(o)
    BY DEF GrantTotal, UsageTotal, GrantsOf, AmountsOf
  <2> QED BY <2>1, CreditAfter
<1> QED BY <1>1 DEF Account!vars

LEMMA InsertedGrant ==
  ASSUME IInv, IInv', NEW g \in Grants, NEW amount \in GrantAmounts,
         grantRow[g] = 0, grantRow' = [grantRow EXCEPT ![g] = amount], UNCHANGED usageRow
  PROVE  Account!Grant(g, amount)
<1> DEFINE credit == [o \in Orgs |-> remaining[o] + OpenTotal(o)]
<1>1. ASSUME NEW o \in Orgs
      PROVE  (remaining[o] + OpenTotal(o))'
             = IF o = GrantOrg[g] THEN credit[GrantOrg[g]] + amount ELSE credit[o]
  <2>1. GrantTotal(o)' = GrantTotal(o) + (IF o = GrantOrg[g] THEN amount ELSE 0)
    BY GrantsAfterRow DEF IInv
  <2>2. UsageTotal(o)' = UsageTotal(o)
    BY DEF UsageTotal, AmountsOf
  <2> QED BY <2>1, <2>2, CreditAfter
<1>2. credit' = [credit EXCEPT ![GrantOrg[g]] = credit[GrantOrg[g]] + amount]
  BY <1>1
<1> QED BY <1>2 DEF Account!Grant

LEMMA InsertedCharge ==
  ASSUME IInv, IInv', NEW r \in Requests, NEW amount \in Charges,
         usageRow[r] = 0, usageRow' = [usageRow EXCEPT ![r] = amount], UNCHANGED grantRow
  PROVE  Account!Charge(r, amount)
<1> DEFINE credit == [o \in Orgs |-> remaining[o] + OpenTotal(o)]
<1>1. ASSUME NEW o \in Orgs
      PROVE  (remaining[o] + OpenTotal(o))'
             = IF o = OrgOf[r] THEN credit[OrgOf[r]] - amount ELSE credit[o]
  <2>1. UsageTotal(o)' = UsageTotal(o) + (IF o = OrgOf[r] THEN amount ELSE 0)
    <3>1. amount \in Nat /\ amount - usageRow[r] = amount
      OBVIOUS
    <3>2. UsageTotal(o)' = UsageTotal(o) + (IF o = OrgOf[r] THEN amount - usageRow[r] ELSE 0)
      BY <3>1, UsageAfterRow DEF IInv
    <3> QED BY <3>1, <3>2
  <2>2. GrantTotal(o)' = GrantTotal(o)
    BY DEF GrantTotal, GrantsOf
  <2>3. credit[o] = GrantTotal(o) - UsageTotal(o)
    BY CreditAfter
  <2>4. (remaining[o] + OpenTotal(o))' = GrantTotal(o) - UsageTotal(o)'
    BY <2>2, CreditAfter
  <2>5. GrantTotal(o) \in Int /\ UsageTotal(o) \in Int /\ amount \in Nat
    BY CreditAfter
  <2> HIDE DEF credit
  <2> QED BY <2>1, <2>3, <2>4, <2>5
<1>2. credit' = [credit EXCEPT ![OrgOf[r]] = credit[OrgOf[r]] - amount]
  BY <1>1
<1> QED BY <1>2 DEF Account!Charge

\* Every step of the wallet is a grant, a charge or nothing to the account:
\* holds, retries, duplicate deliveries and sweeps are invisible to it.
THEOREM WalletImplementsAccount == Spec => ImplementsAccount
<1>1. Init => Account!Init
  <2> SUFFICES ASSUME Init PROVE Account!Init
    OBVIOUS
  <2>1. \A o \in Orgs : OpenTotal(o) = 0
    <3> SUFFICES ASSUME NEW o \in Orgs PROVE OpenTotal(o) = 0
      OBVIOUS
    <3>1. \A i \in 1..NumRequests : AmountsOf(o, {r \in Requests : IsOpen(r)}, frozen)[i] = 0
      BY DEF Init, AmountsOf, IsOpen, Requests
    <3> QED BY <3>1, SumOfNone DEF OpenTotal
  <2> QED BY <2>1 DEF Init, Account!Init
<1>2. IInv /\ IInv' /\ [Next]_vars => [Account!Next]_(Account!vars)
  <2> SUFFICES ASSUME IInv, IInv', [Next]_vars PROVE [Account!Next]_(Account!vars)
    OBVIOUS
  <2>1. ASSUME NEW g \in Grants, NEW amount \in GrantAmounts, GrantCredits(g, amount)
        PROVE  [Account!Next]_(Account!vars)
    BY <2>1, InsertedGrant, SameRows DEF GrantCredits, GrantInserts, Account!Next
  <2>2. ASSUME NEW r \in Requests, NEW amount \in Charges \cup {0}, Record(r, amount)
        PROVE  [Account!Next]_(Account!vars)
    <3>1. CASE LedgerInserts(r, amount)
      <4>1. amount \in Charges /\ usageRow[r] = 0
        BY <2>2, <3>1 DEF Record, Priced, LedgerInserts
      <4>2. usageRow' = [usageRow EXCEPT ![r] = amount] /\ grantRow' = grantRow
        BY <2>2, <3>1 DEF Record
      <4> QED BY <4>1, <4>2, InsertedCharge DEF Account!Next
    <3>2. CASE ~ LedgerInserts(r, amount)
      <4>1. UNCHANGED <<grantRow, usageRow>>
        BY <2>2, <3>2 DEF Record, IInv, TypeOK
      <4> QED BY <4>1, SameRows
    <3> QED BY <3>1, <3>2
  <2>3. ASSUME UNCHANGED ledger PROVE [Account!Next]_(Account!vars)
    BY <2>3, SameRows DEF ledger
  <2>4. ASSUME NEW r \in Requests,
               RejectHold(r) \/ DispatchFails(r) \/ ReleaseHold(r) \/ AbandonHold(r)
                 \/ SettleInHandlerFails(r) \/ Publish(r) \/ Receive(r) \/ ConsumeFails(r)
                 \/ Delete(r) \/ Redrive(r) \/ Expire(r)
                 \/ (\E amount \in HoldAmounts : PlaceHold(r, amount))
                 \/ (\E s \in {"success", "error"} : DispatchReturns(r, s))
        PROVE  UNCHANGED ledger
    BY <2>4 DEF RejectHold, DispatchFails, ReleaseHold, AbandonHold, SettleInHandlerFails, Publish,
                Receive, ConsumeFails, Delete, Redrive, Expire, PlaceHold, DispatchReturns
  <2>5. ASSUME Sweep \/ UNCHANGED vars PROVE UNCHANGED ledger
    BY <2>5 DEF Sweep, ReleaseExpiredHolds, vars
  <2> QED
    BY <2>1, <2>2, <2>3, <2>4, <2>5
    DEF Next, HandlerStep, ConsumerStep, SettleInHandler, Consume
<1> QED BY <1>1, <1>2, Inductive, PTL DEF Spec, ImplementsAccount, Account!Spec
=============================================================================
