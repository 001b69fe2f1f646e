-------------------------- MODULE HoldTransactions --------------------------
(***************************************************************************)
(* The wallet's transactions one statement at a time, under the row locks     *)
(* PostgreSQL takes for them at READ COMMITTED.  CreditWallet takes each for    *)
(* one atomic step; here they interleave, wait for each other, fail half way   *)
(* and deadlock.                                                             *)
(*                                                                           *)
(* On an organization row an INSERT of a child row takes a key share lock     *)
(* (its foreign key), an UPDATE of the balances a no-key lock, SELECT FOR      *)
(* UPDATE the exclusive one.  An INSERT with ON CONFLICT DO NOTHING waits for   *)
(* a transaction that has inserted its key and not ended.  What a transaction  *)
(* writes is visible when it commits.                                         *)
(***************************************************************************)
EXTENDS PartialSums

CONSTANTS
  Orgs, Grants,
  NumRequests,       \* requests are 1..NumRequests
  OrgOf, GrantOrg,   \* organization of a request, of a grant key
  Legacy,            \* requests whose job names no hold
  Txs,               \* transactions [id, kind, of, amount], kind one of place,
                     \* release, record, grant and sweep
  Threshold,         \* low balance threshold
  None

Requests == 1..NumRequests
Kinds == {"place", "release", "record", "grant", "sweep"}

\* A call places one hold, and names it in what it releases; a Legacy job comes
\* from before there were holds.
ASSUME TransactionsAssumption ==
  /\ NumRequests \in Nat
  /\ OrgOf \in [Requests -> Orgs] /\ GrantOrg \in [Grants -> Orgs]
  /\ None \notin Txs
  /\ \A t \in Txs :
       /\ t.kind \in Kinds /\ t.amount \in Nat
       /\ t.kind \in {"place", "release", "record"} => t.of \in Requests
       /\ t.kind \in {"place", "release"} => t.of \notin Legacy
       /\ t.kind = "place" => \A u \in Txs \ {t} : u.kind = "place" => u.of # t.of
       /\ t.kind = "grant" => t.of \in Grants

VARIABLES
  remaining, used,   \* organizations.credits_*_micros
  grantRow,          \* credit_ledger 'grant' row of a key, 0 when there is none
  usageRow,          \* credit_ledger 'usage' row of a request, 0 when there is none
  logged,            \* inference_requests row of a request
  hold, frozen,      \* credit_holds row of a request
  expired,           \* expires_at < now()
  at,                \* the statement a transaction has reached
  inFlight,          \* unique keys a transaction has inserted
  lock,              \* its lock on an organization row
  holder             \* transaction that has locked a hold row

tables == <<remaining, used, grantRow, usageRow, logged, hold, frozen>>
locks  == <<inFlight, lock, holder>>
vars   == <<tables, expired, at, locks>>

Modes == {"none", "share", "nokey", "update"}

TypeOK ==
  /\ remaining \in [Orgs -> Int] /\ used \in [Orgs -> Nat]
  /\ grantRow \in [Grants -> Nat] /\ usageRow \in [Requests -> Nat]
  /\ logged \in [Requests -> BOOLEAN]
  /\ hold \in [Requests -> {"none", "open", "settled"}]
  /\ frozen \in [Requests -> Nat] /\ expired \in [Requests -> BOOLEAN]
  /\ at \in [Txs -> {"idle", "requested", "ledgered", "locked", "settling", "committed", "rolledback"}]
  /\ inFlight \in [Txs -> SUBSET {"request", "usage", "grant"}]
  /\ lock \in [Orgs -> [Txs -> Modes]]
  /\ holder \in [Requests -> Txs \cup {None}]

-----------------------------------------------------------------------------
(***************************************************************************)
(* What a transaction's next statement needs, and who is in its way.          *)
(***************************************************************************)
OrgOfTx(t) == IF t.kind = "grant" THEN GrantOrg[t.of] ELSE OrgOf[t.of]

Conflicts(m, n) ==
  \/ m = "update" /\ n # "none"
  \/ n = "update" /\ m # "none"
  \/ m = "nokey" /\ n = "nokey"

Lockers(o, t, mode) == {u \in Txs \ {t} : Conflicts(mode, lock[o][u])}

\* The ledger key of a transaction, and the row it conflicts with.
LedgerKey(t) == IF t.kind = "grant" THEN "grant" ELSE "usage"
LedgerRow(t) == IF t.kind = "grant" THEN grantRow[t.of] ELSE usageRow[t.of]

\* Mutant: the ledger key is looked up first, no unique index enforces it.
InsertersUnindexed(t, key) == {}

KeyInserters(t, key) == {u \in Txs \ {t} : key \in inFlight[u] /\ u.of = t.of}

\* INSERT INTO inference_requests, then INSERT INTO credit_ledger.
AtRequest(t) == t.kind = "record" /\ at[t] = "idle"
AtLedger(t)  == \/ t.kind = "record" /\ at[t] = "requested"
                \/ t.kind = "grant" /\ at[t] = "idle"

InsertsRequest(t) == ~ logged[t.of]
InsertsLedger(t)  == t.amount > 0 /\ LedgerRow(t) = 0
Inserted(t)       == LedgerKey(t) \in inFlight[t]

\* SELECT ... FOR UPDATE, or the bare UPDATE of a grant and of a job without a
\* hold, which only a fresh ledger row makes necessary.
SettlesHold(t) == t.kind = "record" /\ t.of \notin Legacy
AtOrg(t) == \/ t.kind \in {"place", "release"} /\ at[t] = "idle"
            \/ t.kind \in {"record", "grant"} /\ at[t] = "ledgered"

\* Mutant: a grant reads the balance FOR UPDATE before it adds to it.
OrgModeForUpdate(t) ==
  IF t.kind \in {"place", "release"} \/ Inserted(t) \/ SettlesHold(t)
  THEN "update" ELSE "none"

OrgMode(t) ==
  IF t.kind \in {"place", "release"} \/ SettlesHold(t) THEN "update"
  ELSE IF Inserted(t) THEN "nokey" ELSE "none"

\* Hold rows a transaction that has the organization goes on to lock.
Reclaimable(o) == {r \in Requests : OrgOf[r] = o /\ hold[r] = "open" /\ expired[r]}

\* Mutant: the sweep reclaims in every organization, locked or skipped.
HoldRowsAnywhere(t) ==
  CASE t.kind = "sweep" -> UNION {Reclaimable(o) : o \in Orgs}
    [] t.kind = "place" -> Reclaimable(OrgOfTx(t))
    [] OTHER -> {t.of}

HoldRows(t) ==
  CASE t.kind = "sweep" -> UNION {Reclaimable(o) : o \in {p \in Orgs : lock[p][t] = "update"}}
    [] t.kind = "place" -> Reclaimable(OrgOfTx(t))
    [] OTHER -> {t.of}

Blockers(t) ==
  CASE AtRequest(t) ->
         KeyInserters(t, "request")
           \cup (IF InsertsRequest(t) THEN Lockers(OrgOfTx(t), t, "share") ELSE {})
    [] AtLedger(t) ->
         (IF t.amount > 0 THEN KeyInserters(t, LedgerKey(t)) ELSE {})
           \cup (IF InsertsLedger(t) THEN Lockers(OrgOfTx(t), t, "share") ELSE {})
    [] AtOrg(t) -> Lockers(OrgOfTx(t), t, OrgMode(t))
    [] at[t] = "locked" -> {holder[r] : r \in HoldRows(t)} \ {t, None}
    [] OTHER -> {}

-----------------------------------------------------------------------------
Init ==
  /\ remaining = [o \in Orgs |-> 0] /\ used = [o \in Orgs |-> 0]
  /\ grantRow = [g \in Grants |-> 0] /\ usageRow = [r \in Requests |-> 0]
  /\ logged = [r \in Requests |-> FALSE]
  /\ hold = [r \in Requests |-> "none"] /\ frozen = [r \in Requests |-> 0]
  /\ expired = [r \in Requests |-> FALSE]
  /\ at = [t \in Txs |-> "idle"]
  /\ inFlight = [t \in Txs |-> {}]
  /\ lock = [o \in Orgs |-> [t \in Txs |-> "none"]]
  /\ holder = [r \in Requests |-> None]

\* A call settles or releases the hold it placed.
Ready(t) == t.kind \in {"release", "record"} => hold[t.of] # "none" \/ t.of \in Legacy

Reaches(t, statement) == at' = [at EXCEPT ![t] = statement]

\* A statement that locks keeps the stronger of two locks: the modes are
\* taken in the order share, nokey, update.
Takes(t, mode) ==
  lock' = IF mode = "none" THEN lock ELSE [lock EXCEPT ![OrgOfTx(t)][t] = mode]

InsertRequest(t) ==
  /\ AtRequest(t) /\ Ready(t) /\ Blockers(t) = {}
  /\ IF InsertsRequest(t)
     THEN /\ inFlight' = [inFlight EXCEPT ![t] = @ \cup {"request"}]
          /\ Takes(t, "share")
     ELSE UNCHANGED <<inFlight, lock>>
  /\ Reaches(t, "requested")
  /\ UNCHANGED <<tables, expired, holder>>

InsertLedger(t) ==
  /\ AtLedger(t) /\ Blockers(t) = {}
  /\ IF InsertsLedger(t)
     THEN /\ inFlight' = [inFlight EXCEPT ![t] = @ \cup {LedgerKey(t)}]
          /\ Takes(t, "share")
     ELSE UNCHANGED <<inFlight, lock>>
  /\ Reaches(t, "ledgered")
  /\ UNCHANGED <<tables, expired, holder>>

LockOrg(t) ==
  /\ AtOrg(t) /\ Ready(t) /\ Blockers(t) = {}
  /\ Takes(t, OrgMode(t))
  /\ Reaches(t, IF t.kind = "grant" \/ t.of \in Legacy THEN "settling" ELSE "locked")
  /\ UNCHANGED <<tables, expired, inFlight, holder>>

\* FOR UPDATE SKIP LOCKED: the organizations with expired holds that nobody
\* has locked.
LockSweep(t) ==
  /\ t.kind = "sweep" /\ at[t] = "idle"
  /\ lock' = [o \in Orgs |->
       IF Reclaimable(o) # {} /\ Lockers(o, t, "update") = {} THEN [lock[o] EXCEPT ![t] = "update"]
       ELSE lock[o]]
  /\ Reaches(t, "locked")
  /\ UNCHANGED <<tables, expired, inFlight, holder>>

LockHolds(t) ==
  /\ at[t] = "locked" /\ Blockers(t) = {}
  /\ holder' = [r \in Requests |-> IF r \in HoldRows(t) THEN t ELSE holder[r]]
  /\ Reaches(t, "settling")
  /\ UNCHANGED <<tables, expired, inFlight, lock>>

(***************************************************************************)
(* The writes and the commit.  A transaction that ends drops its locks.       *)
(***************************************************************************)

\* Mutant: no deferred Rollback, an error leaves the transaction open.
EndsOnCommit(t, outcome) ==
  /\ Reaches(t, outcome)
  /\ IF outcome = "rolledback" THEN UNCHANGED locks
     ELSE /\ inFlight' = [inFlight EXCEPT ![t] = {}]
          /\ lock' = [o \in Orgs |-> [lock[o] EXCEPT ![t] = "none"]]
          /\ holder' = [r \in Requests |-> IF holder[r] = t THEN None ELSE holder[r]]
  /\ UNCHANGED expired

Ends(t, outcome) ==
  /\ Reaches(t, outcome)
  /\ inFlight' = [inFlight EXCEPT ![t] = {}]
  /\ lock' = [o \in Orgs |-> [lock[o] EXCEPT ![t] = "none"]]
  /\ holder' = [r \in Requests |-> IF holder[r] = t THEN None ELSE holder[r]]
  /\ UNCHANGED expired

Locked(t) == {r \in Requests : holder[r] = t}

\* amount[r] for the requests r in S, nothing for the others.
AmountsOf(S, amount) == [r \in Requests |-> IF r \in S THEN amount[r] ELSE 0]
Sum(S) == SumTo(AmountsOf(S, frozen), NumRequests)

\* PlaceHold: the reclaimed freeze is available to the new hold.
CommitPlace(t) ==
  LET o == OrgOf[t.of]
      available == remaining[o] + Sum(Locked(t))
  IN
  /\ t.kind = "place" /\ at[t] = "settling"
  /\ available >= t.amount /\ available >= Threshold
  /\ remaining' = [remaining EXCEPT ![o] = available - t.amount]
  /\ hold' = [r \in Requests |-> IF r = t.of THEN "open"
                                 ELSE IF r \in Locked(t) THEN "settled" ELSE hold[r]]
  /\ frozen' = [frozen EXCEPT ![t.of] = t.amount]
  /\ Ends(t, "committed")
  /\ UNCHANGED <<used, grantRow, usageRow, logged>>

\* What settleHoldTx gives back of the freeze, and the spend it books or, for
\* want of an open hold, debitUsageTx does when the ledger row is fresh.  The
\* hold row is read once it is locked.
Open(t)   == hold[t.of] = "open"
Actual(t) == IF t.kind = "release" THEN 0 ELSE t.amount

\* Mutant: a settled hold is given back again.
ReturnedAgain(t) == frozen[t.of]

Returned(t) == IF Open(t) THEN frozen[t.of] ELSE 0

\* Mutants: usage changes by the spend net of the freeze; nothing is debited
\* once the hold is gone; every delivery debits.
BookedNet(t)    == IF Open(t) \/ Inserted(t) THEN Actual(t) - frozen[t.of] ELSE 0
BookedOnHold(t) == IF Open(t) THEN Actual(t) ELSE 0
BookedAgain(t)  == Actual(t)

Booked(t) == IF Open(t) \/ Inserted(t) THEN Actual(t) ELSE 0

CommitSettle(t) ==
  /\ t.kind \in {"release", "record"} /\ at[t] = "settling"
  /\ hold' = [hold EXCEPT ![t.of] = IF Open(t) THEN "settled" ELSE @]
  /\ remaining' = [remaining EXCEPT ![OrgOf[t.of]] = @ + Returned(t) - Booked(t)]
  /\ used' = [used EXCEPT ![OrgOf[t.of]] = @ + Booked(t)]
  /\ logged' = [logged EXCEPT ![t.of] = @ \/ t.kind = "record"]
  /\ usageRow' = [usageRow EXCEPT ![t.of] = IF Inserted(t) THEN t.amount ELSE @]
  /\ Ends(t, "committed")
  /\ UNCHANGED <<grantRow, frozen>>

CommitGrant(t) ==
  LET amount == IF Inserted(t) THEN t.amount ELSE 0 IN
  /\ t.kind = "grant" /\ at[t] = "settling"
  /\ grantRow' = [grantRow EXCEPT ![t.of] = @ + amount]
  /\ remaining' = [remaining EXCEPT ![GrantOrg[t.of]] = @ + amount]
  /\ Ends(t, "committed")
  /\ UNCHANGED <<used, usageRow, logged, hold, frozen>>

CommitSweep(t) ==
  /\ t.kind = "sweep" /\ at[t] = "settling"
  /\ hold' = [r \in Requests |-> IF r \in Locked(t) THEN "settled" ELSE hold[r]]
  /\ remaining' = [o \in Orgs |-> remaining[o] + Sum({r \in Locked(t) : OrgOf[r] = o})]
  /\ Ends(t, "committed")
  /\ UNCHANGED <<used, grantRow, usageRow, logged, frozen>>

\* Too few credits, a failing statement, a cancelled context, a killed process.
Active(t) == at[t] \notin {"idle", "committed", "rolledback"}
Rollback(t) ==
  /\ Active(t)
  /\ Ends(t, "rolledback")
  /\ UNCHANGED tables

\* PostgreSQL's deadlock detector rolls a transaction of a wait cycle back.
WaitCycle(D) ==
  /\ D # {}
  /\ \A t \in D : Active(t) /\ Blockers(t) \cap D # {}
  /\ \A t \in D : \E u \in D : t \in Blockers(u)
BreakDeadlock == \E D \in SUBSET {t \in Txs : Active(t)} : WaitCycle(D) /\ \E t \in D : Rollback(t)

Expire(r) ==
  /\ hold[r] = "open" /\ ~ expired[r]
  /\ expired' = [expired EXCEPT ![r] = TRUE]
  /\ UNCHANGED <<tables, at, locks>>

-----------------------------------------------------------------------------
Statement(t) ==
  \/ InsertRequest(t) \/ InsertLedger(t)
  \/ LockOrg(t) \/ LockSweep(t) \/ LockHolds(t)
  \/ CommitPlace(t) \/ CommitSettle(t) \/ CommitGrant(t) \/ CommitSweep(t)

Next ==
  \/ \E t \in Txs : Statement(t) \/ Rollback(t)
  \/ BreakDeadlock
  \/ \E r \in Requests : Expire(r)

Spec == Init /\ [][Next]_vars

\* A transaction that waits for nobody runs on to its end; PlaceHold rolls back
\* what it cannot afford; PostgreSQL looks for deadlocks again and again.
Fairness ==
  /\ \A t \in Txs :
       WF_vars(Active(t) /\ (Statement(t) \/ (t.kind = "place" /\ at[t] = "settling" /\ Rollback(t))))
  /\ WF_vars(BreakDeadlock)

FairSpec == Spec /\ Fairness

-----------------------------------------------------------------------------
(***************************************************************************)
(* Properties.                                                               *)
(***************************************************************************)
OpenTotal(o)  == Sum({r \in Requests : OrgOf[r] = o /\ hold[r] = "open"})
UsageTotal(o) == SumTo(AmountsOf({r \in Requests : OrgOf[r] = o}, usageRow), NumRequests)

\* Statement by statement, under these locks, the transactions implement the
\* account that grants and charges once: no read is stale when it is used.
Account == INSTANCE CreditAccount WITH
  credit       <- [o \in Orgs |-> remaining[o] + OpenTotal(o)],
  granted      <- grantRow,
  charged      <- usageRow,
  Charges      <- {t.amount : t \in {u \in Txs : u.kind = "record"}} \ {0},
  GrantAmounts <- {t.amount : t \in {u \in Txs : u.kind = "grant"}}

ImplementsAccount == Account!Spec

\* The cached usage of an organization is its usage ledger.
UsedIsLedger == \A o \in Orgs : used[o] = UsageTotal(o)

\* settleHoldTx: the lock order is organization then hold.  Whoever has a hold
\* row has its organization row exclusively, so hold rows are never waited for.
HoldUnderOrg ==
  \A r \in Requests, t \in Txs : holder[r] = t => lock[OrgOf[r]][t] = "update"

\* Placing, releasing, granting and sweeping never deadlock with anything:
\* a wait cycle consists of transactions that record usage.
OnlyRecordsDeadlock ==
  \A D \in SUBSET {t \in Txs : Active(t)} : WaitCycle(D) => \A t \in D : t.kind = "record"

\* Every transaction ends, deadlocked or not.
TransactionsEnd ==
  \A t \in Txs : Active(t) ~> ~ Active(t)

\* settleHoldTx: "Lock order is organization then hold, matching PlaceHold and
\* the sweeper, so concurrent settle/reclaim cannot deadlock".
NoDeadlock == \A D \in SUBSET {t \in Txs : Active(t)} : ~ WaitCycle(D)
=============================================================================
