---------------------------- MODULE CreditWallet ----------------------------
(***************************************************************************)
(* The prepaid credit wallets of organizations: grants, the hold each        *)
(* inference call freezes before the provider is called, and the settlement  *)
(* of that hold when usage is recorded.  One action is one committed          *)
(* database transaction (every one of them serializes on its organization     *)
(* row), one step of the request's handler, or one step of the SQS queue that *)
(* retries a settlement the handler could not commit.                         *)
(*                                                                           *)
(* Requests are numbered; request r has at most one hold, one billing job     *)
(* (NewIdempotencyKey is called once per RecordUsage) and so one row          *)
(* "usage:<key>" in the ledger.  Amounts are in micros.                       *)
(***************************************************************************)
EXTENDS PartialSums, FiniteSets

CONSTANTS
  Orgs,          \* organizations
  NumRequests,   \* requests are 1..NumRequests
  NumGrants,     \* grant idempotency keys are 1..NumGrants
  OrgOf,         \* organization of a request
  GrantOrg,      \* organization a grant key names
  Legacy,        \* requests whose job may predate holds
  HoldAmounts,   \* what the hold planner may freeze
  Charges,       \* what chargeMicros may price a successful call at
  GrantAmounts,  \* what a plan grants
  Threshold,     \* low balance threshold
  MaxReceives    \* maxReceiveCount of the queue (bound: external redrive policy)

Requests == 1..NumRequests
Grants == 1..NumGrants

ASSUME WalletAssumption ==
  /\ NumRequests \in Nat /\ NumGrants \in Nat
  /\ OrgOf \in [Requests -> Orgs] /\ GrantOrg \in [Grants -> Orgs]
  /\ Legacy \subseteq Requests
  /\ HoldAmounts \subseteq Nat \ {0}
  /\ Charges \subseteq Nat
  /\ GrantAmounts \subseteq Nat \ {0}
  /\ Threshold \in Nat \ {0}
  /\ MaxReceives \in Nat \ {0}

VARIABLES
  remaining, used, granted, \* organizations.credits_*_micros
  grantRow,    \* credit_ledger 'grant' row of a key, 0 when there is none
  usageRow,    \* credit_ledger 'usage' row of a request, 0 when there is none
  logged,      \* the request's inference_requests row exists
  hold,        \* credit_holds row: "none", "open" (settled_at IS NULL), "settled"
  frozen,      \* credit_holds.amount_micros
  expired,     \* expires_at < now()
  backing,     \* history: freeze given back by the transaction that charged
  phase,       \* where the request's handler is
  status,      \* Job.Status, "none" until the provider has answered
  message,     \* the job in SQS
  receipts,    \* received copies a consumer is still working on
  processed,   \* copies whose job it has recorded and not yet deleted
  receives     \* ApproximateReceiveCount

balances == <<remaining, used, granted>>
holds    == <<hold, frozen, expired, backing>>
ledger   == <<grantRow, usageRow, logged>>
handler  == <<phase, status>>
queue    == <<message, receipts, processed, receives>>
vars     == <<balances, holds, ledger, handler, queue>>

Phases == {"new", "held", "failed", "answered", "unpublished", "done"}

TypeOK ==
  /\ remaining \in [Orgs -> Int]
  /\ used \in [Orgs -> Int]
  /\ granted \in [Orgs -> Int]
  /\ grantRow \in [Grants -> Nat]
  /\ usageRow \in [Requests -> Nat]
  /\ logged \in [Requests -> BOOLEAN]
  /\ hold \in [Requests -> {"none", "open", "settled"}]
  /\ frozen \in [Requests -> Nat]
  /\ expired \in [Requests -> BOOLEAN]
  /\ backing \in [Requests -> Nat]
  /\ phase \in [Requests -> Phases]
  /\ status \in [Requests -> {"none", "success", "error"}]
  /\ message \in [Requests -> {"none", "queued", "deleted", "dlq"}]
  /\ receipts \in [Requests -> Nat]
  /\ processed \in [Requests -> Nat]
  /\ receives \in [Requests -> Nat]

(***************************************************************************)
(* Accounting queries.                                                       *)
(***************************************************************************)
IsOpen(r) == hold[r] = "open"
Reclaimable(r) == hold[r] = "open" /\ expired[r]

\* amount[r] for the requests r of o in S, nothing for the others.
AmountsOf(o, S, amount) == [r \in Requests |-> IF OrgOf[r] = o /\ r \in S THEN amount[r] ELSE 0]
GrantsOf(o) == [g \in Grants |-> IF GrantOrg[g] = o THEN grantRow[g] ELSE 0]

OpenTotal(o)    == SumTo(AmountsOf(o, {r \in Requests : IsOpen(r)}, frozen), NumRequests)
ExpiredTotal(o) == SumTo(AmountsOf(o, {r \in Requests : Reclaimable(r)}, frozen), NumRequests)
UsageTotal(o)   == SumTo(AmountsOf(o, Requests, usageRow), NumRequests)
GrantTotal(o)   == SumTo(GrantsOf(o), NumGrants)

-----------------------------------------------------------------------------
(***************************************************************************)
(* Initially wallets are empty, and the jobs of some Legacy requests wait in *)
(* the queue without a hold.                                                 *)
(***************************************************************************)
Init ==
  /\ remaining = [o \in Orgs |-> 0]
  /\ used = [o \in Orgs |-> 0]
  /\ granted = [o \in Orgs |-> 0]
  /\ grantRow = [g \in Grants |-> 0]
  /\ usageRow = [r \in Requests |-> 0]
  /\ logged = [r \in Requests |-> FALSE]
  /\ hold = [r \in Requests |-> "none"]
  /\ frozen = [r \in Requests |-> 0]
  /\ expired = [r \in Requests |-> FALSE]
  /\ backing = [r \in Requests |-> 0]
  /\ \E published \in SUBSET Legacy :
       /\ phase = [r \in Requests |-> IF r \in published THEN "done" ELSE "new"]
       /\ status \in [Requests -> {"none", "success", "error"}]
       /\ \A r \in Requests : status[r] = "none" <=> r \notin published
       /\ message = [r \in Requests |-> IF r \in published THEN "queued" ELSE "none"]
  /\ receipts = [r \in Requests |-> 0]
  /\ processed = [r \in Requests |-> 0]
  /\ receives = [r \in Requests |-> 0]

(***************************************************************************)
(* GrantOn: the ledger insert conflicts on the idempotency key, and only an   *)
(* inserted row moves the balance.                                            *)
(***************************************************************************)
\* Mutant: the insert does not conflict on the idempotency key.
GrantAlwaysInserts(g) == TRUE

GrantInserts(g) == grantRow[g] = 0

GrantCredits(g, amount) ==
  /\ IF GrantInserts(g)
     THEN /\ grantRow' = [grantRow EXCEPT ![g] = amount]
          /\ granted' = [granted EXCEPT ![GrantOrg[g]] = @ + amount]
          /\ remaining' = [remaining EXCEPT ![GrantOrg[g]] = @ + amount]
     ELSE UNCHANGED <<grantRow, granted, remaining>>
  /\ UNCHANGED <<used, usageRow, logged, holds, handler, queue>>

(***************************************************************************)
(* reclaimExpiredHoldsTx: settle the expired open holds of the organizations  *)
(* in S and give their freeze back.                                           *)
(***************************************************************************)
\* Mutants: the organization filter is lost; only answered calls are reclaimed.
ReclaimedAnywhere(S) == {r \in Requests : Reclaimable(r)}
ReclaimedAnswered(S) == {r \in Requests : OrgOf[r] \in S /\ Reclaimable(r) /\ status[r] # "none"}

ReclaimedIn(S) == {r \in Requests : OrgOf[r] \in S /\ Reclaimable(r)}
AfterReclaim(o) == remaining[o] + ExpiredTotal(o)

(***************************************************************************)
(* PlaceHold commits: reclaim, plan against what is then available, freeze.   *)
(* The commit may be reported to the handler as an error, or the process may  *)
(* die on it: the hold is then open and nobody knows its id.                  *)
(***************************************************************************)
\* Mutant: only the threshold is compared with the balance.
CanFreezeAtThreshold(available, amount) == available >= Threshold

CanFreeze(available, amount) == available >= amount /\ available >= Threshold

PlaceHold(r, amount) ==
  LET o == OrgOf[r] IN
  /\ phase[r] = "new"
  /\ CanFreeze(AfterReclaim(o), amount)
  /\ remaining' = [remaining EXCEPT ![o] = AfterReclaim(o) - amount]
  /\ hold' = [q \in Requests |-> IF q = r THEN "open"
                                 ELSE IF q \in ReclaimedIn({o}) THEN "settled" ELSE hold[q]]
  /\ frozen' = [frozen EXCEPT ![r] = amount]
  /\ \E p \in {"held", "done"} : phase' = [phase EXCEPT ![r] = p]
  /\ UNCHANGED <<used, granted, ledger, expired, backing, status, queue>>

\* Low credits, a planner error or a database error: the transaction, the
\* reclaim in it included, is rolled back.
RejectHold(r) ==
  /\ phase[r] = "new"
  /\ phase' = [phase EXCEPT ![r] = "done"]
  /\ UNCHANGED <<balances, holds, ledger, status, queue>>

(***************************************************************************)
(* The provider call: dispatch fails, or a ChatResult with a 2xx status or    *)
(* another one comes back.                                                    *)
(***************************************************************************)
DispatchFails(r) ==
  /\ phase[r] = "held"
  /\ phase' = [phase EXCEPT ![r] = "failed"]
  /\ UNCHANGED <<balances, holds, ledger, status, queue>>

DispatchReturns(r, s) ==
  /\ phase[r] = "held"
  /\ phase' = [phase EXCEPT ![r] = "answered"]
  /\ status' = [status EXCEPT ![r] = s]
  /\ UNCHANGED <<balances, holds, ledger, queue>>

(***************************************************************************)
(* settleHoldTx(hold of r, actual): an open hold is settled, its unused part  *)
(* returned and the actual spend booked; a settled one is left alone.         *)
(***************************************************************************)
\* Mutant: settled_at is not looked at.
AppliesAgain(r) == hold[r] # "none"

Applies(r) == IsOpen(r)
Settled(r) == [hold EXCEPT ![r] = IF Applies(r) THEN "settled" ELSE @]
Refund(r, actual) == IF Applies(r) THEN frozen[r] - actual ELSE 0

ReleaseHold(r) ==
  /\ phase[r] = "failed"
  /\ phase' = [phase EXCEPT ![r] = "done"]
  /\ hold' = Settled(r)
  /\ remaining' = [remaining EXCEPT ![OrgOf[r]] = @ + Refund(r, 0)]
  /\ UNCHANGED <<used, granted, ledger, frozen, expired, backing, status, queue>>

\* The handler only logs a release that fails; so does a process that dies.
AbandonHold(r) ==
  /\ phase[r] \in {"held", "failed", "answered", "unpublished"}
  /\ phase' = [phase EXCEPT ![r] = "done"]
  /\ UNCHANGED <<balances, holds, ledger, status, queue>>

(***************************************************************************)
(* Process and Record for the job of r, priced at amount (the price is read   *)
(* again by every attempt).  The ledger row is inserted once; the hold is     *)
(* settled for the actual spend, or, when nothing was open and this attempt   *)
(* inserted the row, the spend is taken from the balance directly.            *)
(***************************************************************************)
\* Mutant: failed calls are priced too.
PricedWhateverStatus(r, amount) == amount \in Charges \cup {0}

Priced(r, amount) == IF status[r] = "success" THEN amount \in Charges ELSE amount = 0
\* Mutant: the ledger insert overwrites on conflict.
LedgerOverwrites(r, amount) == amount > 0

LedgerInserts(r, amount) == amount > 0 /\ usageRow[r] = 0
\* Mutants: a retry debits again; a job without a hold is not debited.
DebitsEachRetry(r, amount) == ~ Applies(r) /\ amount > 0
DebitsSettledHolds(r, amount) == hold[r] = "settled" /\ LedgerInserts(r, amount)

Debits(r, amount) == ~ Applies(r) /\ LedgerInserts(r, amount)

Record(r, amount) ==
  LET o == OrgOf[r]
      direct == IF Debits(r, amount) THEN amount ELSE 0
      booked == IF Applies(r) THEN amount ELSE direct
  IN
  /\ Priced(r, amount)
  /\ logged' = [logged EXCEPT ![r] = TRUE]
  /\ usageRow' = [usageRow EXCEPT ![r] = IF LedgerInserts(r, amount) THEN amount ELSE @]
  /\ hold' = Settled(r)
  /\ backing' = [backing EXCEPT ![r] = IF LedgerInserts(r, amount) /\ Applies(r) THEN frozen[r] ELSE @]
  /\ remaining' = [remaining EXCEPT ![o] = @ + Refund(r, amount) - direct]
  /\ used' = [used EXCEPT ![o] = @ + booked]
  /\ UNCHANGED <<granted, grantRow, frozen, expired, status>>

(***************************************************************************)
(* ReliableEnqueuer: settle in the handler; whatever it reports as an error,  *)
(* committed or not, goes to SQS.  A publish that fails loses the job.        *)
(***************************************************************************)
SettleInHandler(r, amount) ==
  /\ phase[r] = "answered"
  /\ Record(r, amount)
  /\ \E p \in {"done", "unpublished"} : phase' = [phase EXCEPT ![r] = p]
  /\ UNCHANGED queue

SettleInHandlerFails(r) ==
  /\ phase[r] = "answered"
  /\ phase' = [phase EXCEPT ![r] = "unpublished"]
  /\ UNCHANGED <<balances, holds, ledger, status, queue>>

Publish(r) ==
  /\ phase[r] = "unpublished"
  /\ phase' = [phase EXCEPT ![r] = "done"]
  /\ message' = [message EXCEPT ![r] = "queued"]
  /\ UNCHANGED <<balances, holds, ledger, status, receipts, processed, receives>>

(***************************************************************************)
(* The consumer: receive a copy, process it, and delete the message once the  *)
(* job is recorded.  The visibility timeout makes a message receivable again  *)
(* while an earlier copy is still worked on; a failed or killed consumer and  *)
(* a failed delete leave the message where it is, and a delete finds nothing  *)
(* when the message is gone.                                                  *)
(***************************************************************************)
Receive(r) ==
  /\ message[r] = "queued"
  /\ receives[r] < MaxReceives
  /\ receives' = [receives EXCEPT ![r] = @ + 1]
  /\ receipts' = [receipts EXCEPT ![r] = @ + 1]
  /\ UNCHANGED <<balances, holds, ledger, handler, message, processed>>

Consume(r, amount) ==
  /\ receipts[r] > 0
  /\ Record(r, amount)
  /\ receipts' = [receipts EXCEPT ![r] = @ - 1]
  /\ processed' = [processed EXCEPT ![r] = @ + 1]
  /\ UNCHANGED <<message, receives, phase>>

\* Mutant: a job that failed is deleted like one that was processed.
ConsumeFailsOn(r) ==
  /\ receipts[r] > 0
  /\ receipts' = [receipts EXCEPT ![r] = @ - 1]
  /\ processed' = [processed EXCEPT ![r] = @ + 1]
  /\ UNCHANGED <<balances, holds, ledger, handler, message, receives>>

ConsumeFails(r) ==
  /\ receipts[r] > 0
  /\ receipts' = [receipts EXCEPT ![r] = @ - 1]
  /\ UNCHANGED <<balances, holds, ledger, handler, message, processed, receives>>

Delete(r) ==
  /\ processed[r] > 0
  /\ processed' = [processed EXCEPT ![r] = @ - 1]
  /\ message' \in {message, [message EXCEPT ![r] = IF @ = "queued" THEN "deleted" ELSE @]}
  /\ UNCHANGED <<balances, holds, ledger, handler, receipts, receives>>

\* The redrive policy moves a message received too often to the DLQ.
Redrive(r) ==
  /\ message[r] = "queued"
  /\ receives[r] = MaxReceives
  /\ message' = [message EXCEPT ![r] = "dlq"]
  /\ UNCHANGED <<balances, holds, ledger, handler, receipts, processed, receives>>

(***************************************************************************)
(* The clock passes expires_at of an open hold, and the sweeper reclaims in   *)
(* one transaction for the organizations it could lock (SKIP LOCKED).         *)
(***************************************************************************)
Expire(r) ==
  /\ IsOpen(r) /\ ~ expired[r]
  /\ expired' = [expired EXCEPT ![r] = TRUE]
  /\ UNCHANGED <<balances, hold, frozen, backing, ledger, handler, queue>>

ReleaseExpiredHolds(S) ==
  /\ S # {} /\ \A o \in S : ReclaimedIn({o}) # {}
  /\ hold' = [r \in Requests |-> IF r \in ReclaimedIn(S) THEN "settled" ELSE hold[r]]
  /\ remaining' = [o \in Orgs |-> IF o \in S THEN AfterReclaim(o) ELSE remaining[o]]
  /\ UNCHANGED <<used, granted, ledger, frozen, expired, backing, handler, queue>>

-----------------------------------------------------------------------------
HandlerStep(r) ==
  \/ \E amount \in HoldAmounts : PlaceHold(r, amount)
  \/ RejectHold(r)
  \/ DispatchFails(r)
  \/ \E s \in {"success", "error"} : DispatchReturns(r, s)
  \/ ReleaseHold(r)
  \/ AbandonHold(r)
  \/ \E amount \in Charges \cup {0} : SettleInHandler(r, amount)
  \/ SettleInHandlerFails(r)
  \/ Publish(r)

ConsumerStep(r) ==
  \/ Receive(r)
  \/ \E amount \in Charges \cup {0} : Consume(r, amount)
  \/ ConsumeFails(r)
  \/ Delete(r)
  \/ Redrive(r)

Sweep == \E S \in SUBSET Orgs : ReleaseExpiredHolds(S)

Next ==
  \/ \E g \in Grants, amount \in GrantAmounts : GrantCredits(g, amount)
  \/ \E r \in Requests : HandlerStep(r) \/ ConsumerStep(r) \/ Expire(r)
  \/ Sweep

Spec == Init /\ [][Next]_vars

(***************************************************************************)
(* Fairness.  Time passes, and the reclaimer ticks every minute in both       *)
(* processes.  It skips an organization whose row is locked at that moment; a *)
(* row lock lasts for a transaction, so it is taken not to be skipped for     *)
(* ever.  Handlers, consumers and the queue promise nothing: each may stop    *)
(* at any point.                                                              *)
(***************************************************************************)
Fairness ==
  /\ \A r \in Requests : WF_vars(Expire(r))
  /\ \A o \in Orgs : WF_vars(\E S \in SUBSET Orgs : o \in S /\ ReleaseExpiredHolds(S))

FairSpec == Spec /\ Fairness

-----------------------------------------------------------------------------
(***************************************************************************)
(* Properties.                                                               *)
(***************************************************************************)

\* Record's comment: remaining and used stay aligned with the ledger.  The
\* cached totals of every organization equal its ledger rows, whatever was
\* retried, delivered twice or settled after the sweeper.
LedgerAligned ==
  \A o \in Orgs : used[o] = UsageTotal(o) /\ granted[o] = GrantTotal(o)

\* No credit is created or lost by freezing, releasing, reclaiming or settling:
\* what is spendable is what was granted, less what was used, less what open
\* holds freeze.
CreditConserved ==
  \A o \in Orgs : remaining[o] = granted[o] - used[o] - OpenTotal(o)

\* A charge is final and backed: a charged request succeeded, is logged (a
\* crash cannot charge without a log), and holds no frozen credit any more.
ChargeBacked ==
  \A r \in Requests : usageRow[r] > 0 =>
    status[r] = "success" /\ logged[r] /\ ~ IsOpen(r)

\* What a charge took from the wallet beyond the freeze it gave back: all of
\* it when its hold was already settled, the tokens beyond the freeze when it was not.
Uncovered(r) == IF usageRow[r] > backing[r] THEN usageRow[r] - backing[r] ELSE 0

UncoveredTotal(o) ==
  SumTo([r \in Requests |-> IF OrgOf[r] = o THEN Uncovered(r) ELSE 0], NumRequests)

\* However many requests run at once, a wallet is overdrawn by no more than
\* what late or underestimated charges took: the freeze itself never
\* overdraws it.
OverdraftBounded ==
  \A o \in Orgs : remaining[o] + UncoveredTotal(o) >= 0

\* What makes the accounting inductive: before its provider has answered a
\* request has no status, before it is placed it has no hold, and only a charge
\* is backed.
ChargeOrder ==
  \A r \in Requests :
    /\ phase[r] \in {"new", "held"} => status[r] = "none"
    /\ phase[r] = "new" => hold[r] = "none"
    /\ usageRow[r] = 0 => backing[r] = 0

\* The consumer deletes a message only after its job was recorded: whichever of
\* its copies failed, came late or were processed twice, no usage is dropped.
DeletedIsRecorded ==
  \A r \in Requests : message[r] = "deleted" => logged[r]

\* What makes it inductive: a copy about to be deleted was recorded.
ProcessedIsRecorded ==
  \A r \in Requests : processed[r] > 0 => logged[r]

\* Settlement and the ledger are append-only: a settled hold never reopens or
\* changes its amount, and a written row is never rewritten.
SettlementFinal ==
  [][ /\ \A r \in Requests : hold[r] = "settled" =>
           hold'[r] = "settled" /\ frozen'[r] = frozen[r]
      /\ \A r \in Requests : usageRow[r] # 0 => usageRow'[r] = usageRow[r]
      /\ \A g \in Grants : grantRow[g] # 0 => grantRow'[g] = grantRow[g] ]_vars

\* Migration 0023: a crash cannot lock a wallet for ever.  Every hold is
\* settled in the end, whatever its handler and its job went through.
HoldsSettle ==
  \A r \in Requests : hold[r] = "open" ~> hold[r] = "settled"

\* Migration 0016: remaining may go negative "for the single request that
\* crosses the low-credits threshold": a wallet that is overdrawn is not
\* drawn on again.
SingleRequestOverdraws ==
  [][ \A o \in Orgs : remaining[o] < 0 => remaining'[o] >= remaining[o] ]_vars

\* Reservation is invisible: the wallet implements an account that grants and
\* charges once, whose credit is the spendable part and the frozen part.
Account == INSTANCE CreditAccount WITH
  credit  <- [o \in Orgs |-> remaining[o] + OpenTotal(o)],
  granted <- grantRow,
  charged <- usageRow

ImplementsAccount == Account!Spec
=============================================================================
