----------------------- MODULE HoldTransactionsProofs -----------------------
(***************************************************************************)
(* The locks and the rows of the wallet's transactions, for any organizations *)
(* and any transactions on them: who waits for whom and who can be in a        *)
(* deadlock, and that what commits adds up to the account of CreditAccount.    *)
(***************************************************************************)
EXTENDS HoldTransactions, PartialSumsTheorems

USE TransactionsAssumption DEF Kinds, Modes

(***************************************************************************)
(* The inductive invariant.                                                   *)
(***************************************************************************)
LockTypes ==
  /\ at \in [Txs -> {"idle", "requested", "ledgered", "locked", "settling", "committed", "rolledback"}]
  /\ inFlight \in [Txs -> SUBSET {"request", "usage", "grant"}]
  /\ lock \in [Orgs -> [Txs -> Modes]]
  /\ holder \in [Requests -> Txs \cup {None}]

\* The locks on an organization row are compatible.
Compatible == \A o \in Orgs, t, u \in Txs : t # u => ~ Conflicts(lock[o][t], lock[o][u])

\* What the statement that a transaction has reached says of its locks.
TxOrder(t) ==
  /\ at[t] \in {"requested", "ledgered"} => t.kind \in {"record", "grant"}
  /\ at[t] = "requested" => t.kind = "record"
  /\ at[t] = "locked" => t.kind # "grant"
  /\ at[t] = "locked" /\ t.kind # "sweep" => lock[OrgOfTx(t)][t] = "update"
  /\ at[t] \in {"idle", "requested"} => ~ Inserted(t)
  /\ at[t] = "ledgered" /\ Inserted(t) => lock[OrgOfTx(t)][t] # "none"
  /\ t.kind = "grant" => inFlight[t] \subseteq {"grant"}
  /\ \A o \in Orgs : /\ t.kind = "grant" => lock[o][t] # "update"
                     /\ lock[o][t] = "nokey" => at[t] = "settling"
  /\ \A r \in Requests : holder[r] = t => at[t] = "settling" /\ lock[OrgOf[r]][t] = "update"

LockInv == LockTypes /\ Compatible /\ \A t \in Txs : TxOrder(t)

\* The organization of a transaction that has one.
LEMMA OrgOfTxType ==
  ASSUME NEW t \in Txs, t.kind # "sweep"
  PROVE  OrgOfTx(t) \in Orgs /\ (t.kind # "grant" => t.of \in Requests /\ OrgOfTx(t) = OrgOf[t.of])
BY DEF OrgOfTx

\* Two locks conflict whichever was asked for first.
LEMMA ConflictsBothWays ==
  ASSUME NEW m \in Modes, NEW n \in Modes
  PROVE  Conflicts(m, n) <=> Conflicts(n, m)
BY DEF Conflicts

LEMMA LockInit == Init => LockInv
<1> SUFFICES ASSUME Init PROVE LockInv
  OBVIOUS
<1>1. LockTypes
  BY DEF Init, LockTypes
<1>2. Compatible
  BY DEF Init, Compatible, Conflicts
<1>3. ASSUME NEW t \in Txs PROVE TxOrder(t)
  BY DEF Init, TxOrder, Inserted
<1> QED BY <1>1, <1>2, <1>3 DEF LockInv

(***************************************************************************)
(* Steps.                                                                     *)
(***************************************************************************)

\* A lock that nobody's lock conflicts with can be taken.
LEMMA TakesKeeps ==
  ASSUME LockInv, NEW t \in Txs, t.kind # "sweep", NEW mode \in Modes, Takes(t, mode),
         mode # "none" => Lockers(OrgOfTx(t), t, mode) = {}
  PROVE  /\ lock' \in [Orgs -> [Txs -> Modes]]
         /\ \A o \in Orgs : \A u \in Txs \ {t} : lock'[o][u] = lock[o][u]
         /\ mode = "none" => lock' = lock
         /\ mode # "none" => /\ lock'[OrgOfTx(t)][t] = mode
                             /\ \A o \in Orgs \ {OrgOfTx(t)} : lock'[o] = lock[o]
         /\ Compatible'
<1>1. lock \in [Orgs -> [Txs -> Modes]] /\ OrgOfTx(t) \in Orgs
  BY OrgOfTxType DEF LockInv, LockTypes
<1>2. CASE mode = "none"
  <2>1. lock' = lock
    BY <1>2 DEF Takes
  <2> QED BY <1>1, <1>2, <2>1 DEF LockInv, Compatible
<1>3. CASE mode # "none"
  <2> DEFINE new == [lock[OrgOfTx(t)] EXCEPT ![t] = mode]
  <2>1. new \in [Txs -> Modes] /\ new[t] = mode
        /\ \A u \in Txs \ {t} : new[u] = lock[OrgOfTx(t)][u]
    BY <1>1
  <2>2. lock' = [lock EXCEPT ![OrgOfTx(t)] = new]
    BY <1>1, <1>3 DEF Takes
  <2> HIDE DEF new
  <2>3. /\ lock' \in [Orgs -> [Txs -> Modes]] /\ lock'[OrgOfTx(t)] = new
        /\ \A o \in Orgs \ {OrgOfTx(t)} : lock'[o] = lock[o]
    BY <1>1, <2>1, <2>2
  <2>4. ASSUME NEW u \in Txs \ {t}
        PROVE  ~ Conflicts(mode, lock[OrgOfTx(t)][u]) /\ ~ Conflicts(lock[OrgOfTx(t)][u], mode)
    <3>1. ~ Conflicts(mode, lock[OrgOfTx(t)][u])
      BY <1>3 DEF Lockers
    <3> QED BY <1>1, <3>1, ConflictsBothWays
  <2>5. Compatible'
    <3> SUFFICES ASSUME NEW o \in Orgs, NEW u \in Txs, NEW v \in Txs, u # v
                 PROVE  ~ Conflicts(lock'[o][u], lock'[o][v])
      BY DEF Compatible, Conflicts
    <3>1. ~ Conflicts(lock[o][u], lock[o][v])
      BY DEF LockInv, Compatible
    <3>2. CASE o # OrgOfTx(t)
      BY <2>3, <3>1, <3>2
    <3>3. CASE o = OrgOfTx(t)
      BY <2>1, <2>3, <2>4, <3>1, <3>3
    <3> QED BY <3>2, <3>3
  <2> QED BY <1>3, <2>1, <2>3, <2>5
<1> QED BY <1>2, <1>3

\* What another transaction's step leaves true of one.
LEMMA OthersOrder ==
  ASSUME LockInv, LockTypes', NEW t \in Txs,
         \A u \in Txs \ {t} :
           /\ at'[u] = at[u] /\ inFlight'[u] = inFlight[u]
           /\ \A o \in Orgs : lock'[o][u] = lock[o][u]
           /\ \A r \in Requests : holder'[r] = u => holder[r] = u
  PROVE  \A u \in Txs \ {t} : TxOrder(u)'
<1> SUFFICES ASSUME NEW u \in Txs \ {t} PROVE TxOrder(u)'
  OBVIOUS
<1>1. /\ TxOrder(u) /\ at'[u] = at[u] /\ inFlight'[u] = inFlight[u]
      /\ \A o \in Orgs : lock'[o][u] = lock[o][u]
      /\ \A r \in Requests : holder'[r] = u => holder[r] = u
  BY DEF LockInv
<1>2. u.kind # "sweep" => OrgOfTx(u) \in Orgs /\ lock'[OrgOfTx(u)][u] = lock[OrgOfTx(u)][u]
  BY <1>1, OrgOfTxType
<1>3. at[u] = "ledgered" => u.kind # "sweep"
  BY <1>1 DEF TxOrder
<1>4. \A r \in Requests : OrgOf[r] \in Orgs
  OBVIOUS
<1>5. Inserted(u)' <=> Inserted(u)
  BY <1>1 DEF Inserted, LedgerKey
<1> QED BY <1>1, <1>2, <1>3, <1>4, <1>5 DEF TxOrder, OrgOfTx

\* A transaction that locks no hold row at this step has none.
LEMMA NoHoldRows ==
  ASSUME LockInv, NEW t \in Txs, at[t] # "settling"
  PROVE  /\ \A r \in Requests : holder[r] # t
         /\ \A o \in Orgs : lock[o][t] # "nokey"
BY DEF LockInv, TxOrder

LEMMA RequestKeeps ==
  ASSUME LockInv, NEW t \in Txs, InsertRequest(t)
  PROVE  LockInv'
<1>1. /\ t.kind = "record" /\ at[t] = "idle" /\ Blockers(t) = {}
      /\ at' = [at EXCEPT ![t] = "requested"] /\ holder' = holder
  BY DEF InsertRequest, AtRequest, Reaches
<1>2. LockTypes /\ TxOrder(t) /\ \A r \in Requests : holder[r] # t
  BY <1>1, NoHoldRows DEF LockInv
<1>3. PICK mode \in {"none", "share"} :
        Takes(t, mode) /\ (mode # "none" => Lockers(OrgOfTx(t), t, mode) = {})
  <2>1. CASE InsertsRequest(t)
    <3>1. Lockers(OrgOfTx(t), t, "share") = {}
      <4>0. AtRequest(t) /\ ~ AtLedger(t) /\ ~ AtOrg(t) /\ at[t] # "locked"
        BY <1>1 DEF AtRequest, AtLedger, AtOrg
      <4>1. Blockers(t) = KeyInserters(t, "request") \cup Lockers(OrgOfTx(t), t, "share")
        BY <2>1, <4>0 DEF Blockers
      <4> QED BY <1>1, <4>1
    <3> QED BY <2>1, <3>1 DEF InsertRequest
  <2>2. CASE ~ InsertsRequest(t)
    BY <2>2 DEF InsertRequest, Takes
  <2> QED BY <2>1, <2>2
<1>4. mode \in Modes
  OBVIOUS
<1>5. /\ lock' \in [Orgs -> [Txs -> Modes]]
      /\ \A o \in Orgs : \A u \in Txs \ {t} : lock'[o][u] = lock[o][u]
      /\ mode = "none" => lock' = lock
      /\ mode # "none" => /\ lock'[OrgOfTx(t)][t] = mode
                          /\ \A o \in Orgs \ {OrgOfTx(t)} : lock'[o] = lock[o]
      /\ Compatible'
  BY <1>1, <1>3, <1>4, TakesKeeps
<1>6. inFlight' \in [Txs -> SUBSET {"request", "usage", "grant"}]
      /\ \A u \in Txs \ {t} : inFlight'[u] = inFlight[u]
  BY <1>2 DEF InsertRequest, LockTypes
<1>7. LockTypes' /\ at'[t] = "requested" /\ \A u \in Txs \ {t} : at'[u] = at[u]
  BY <1>1, <1>2, <1>5, <1>6 DEF LockTypes
<1>8. \A u \in Txs \ {t} : TxOrder(u)'
  BY <1>1, <1>5, <1>6, <1>7, OthersOrder
<1>9. \A o \in Orgs : lock'[o][t] # "nokey"
  BY <1>1, <1>2, <1>3, <1>5, NoHoldRows
<1>10. ~ Inserted(t)'
  BY <1>1, <1>2 DEF InsertRequest, TxOrder, Inserted, LedgerKey, LockTypes
<1>11. TxOrder(t)'
  BY <1>1, <1>2, <1>7, <1>9, <1>10 DEF TxOrder
<1> QED BY <1>5, <1>7, <1>8, <1>11 DEF LockInv

LEMMA LedgerKeeps ==
  ASSUME LockInv, NEW t \in Txs, InsertLedger(t)
  PROVE  LockInv'
<1>1. /\ at[t] \in {"idle", "requested"} /\ t.kind \in {"record", "grant"} /\ Blockers(t) = {}
      /\ at' = [at EXCEPT ![t] = "ledgered"] /\ holder' = holder
      /\ AtLedger(t) /\ ~ AtRequest(t)
  BY DEF InsertLedger, AtLedger, AtRequest, Reaches
<1>2. /\ LockTypes /\ TxOrder(t) /\ (\A r \in Requests : holder[r] # t)
      /\ OrgOfTx(t) \in Orgs
  BY <1>1, NoHoldRows, OrgOfTxType DEF LockInv
<1>3. InsertsLedger(t) => Lockers(OrgOfTx(t), t, "share") = {}
  <2> SUFFICES ASSUME InsertsLedger(t) PROVE Lockers(OrgOfTx(t), t, "share") = {}
    OBVIOUS
  <2>0. AtLedger(t) /\ ~ AtRequest(t) /\ ~ AtOrg(t) /\ at[t] # "locked"
    BY <1>1 DEF AtOrg
  <2>1. Blockers(t) = (IF t.amount > 0 THEN KeyInserters(t, LedgerKey(t)) ELSE {})
                        \cup Lockers(OrgOfTx(t), t, "share")
    BY <2>0 DEF Blockers
  <2> QED BY <1>1, <2>1
<1>4. PICK mode \in {"none", "share"} :
        /\ Takes(t, mode)
        /\ mode # "none" => Lockers(OrgOfTx(t), t, mode) = {}
        /\ mode = "none" => inFlight' = inFlight
        /\ mode # "none" => inFlight' = [inFlight EXCEPT ![t] = @ \cup {LedgerKey(t)}]
  <2>1. CASE InsertsLedger(t)
    BY <1>3, <2>1 DEF InsertLedger
  <2>2. CASE ~ InsertsLedger(t)
    BY <2>2 DEF InsertLedger, Takes
  <2> QED BY <2>1, <2>2
<1>5. mode \in Modes
  OBVIOUS
<1>6. /\ lock' \in [Orgs -> [Txs -> Modes]]
      /\ \A o \in Orgs : \A u \in Txs \ {t} : lock'[o][u] = lock[o][u]
      /\ mode = "none" => lock' = lock
      /\ mode # "none" => /\ lock'[OrgOfTx(t)][t] = mode
                          /\ \A o \in Orgs \ {OrgOfTx(t)} : lock'[o] = lock[o]
      /\ Compatible'
  BY <1>1, <1>4, <1>5, TakesKeeps
<1>7. LedgerKey(t) \in {"usage", "grant"} /\ (t.kind = "grant" => LedgerKey(t) = "grant")
  BY DEF LedgerKey
<1>8. /\ inFlight' \in [Txs -> SUBSET {"request", "usage", "grant"}]
      /\ \A u \in Txs \ {t} : inFlight'[u] = inFlight[u]
      /\ inFlight'[t] \subseteq inFlight[t] \cup {LedgerKey(t)}
  BY <1>2, <1>4, <1>7 DEF LockTypes
<1>9. LockTypes' /\ at'[t] = "ledgered" /\ \A u \in Txs \ {t} : at'[u] = at[u]
  BY <1>1, <1>2, <1>6, <1>8 DEF LockTypes
<1>10. \A u \in Txs \ {t} : TxOrder(u)'
  BY <1>1, <1>6, <1>8, <1>9, OthersOrder
<1>11. Inserted(t)' => lock'[OrgOfTx(t)][t] # "none"
  <2>1. CASE mode = "none"
    BY <1>1, <1>2, <1>4, <2>1 DEF TxOrder, Inserted
  <2>2. CASE mode # "none"
    BY <1>6, <2>2
  <2> QED BY <2>1, <2>2
<1>12. TxOrder(t)'
  <2>1. t.kind = "grant" => inFlight'[t] \subseteq {"grant"}
    BY <1>2, <1>7, <1>8 DEF TxOrder
  <2>2. \A o \in Orgs : (t.kind = "grant" => lock'[o][t] # "update") /\ lock'[o][t] # "nokey"
    BY <1>1, <1>2, <1>4, <1>6, NoHoldRows DEF TxOrder
  <2> QED BY <1>1, <1>2, <1>9, <1>11, <2>1, <2>2 DEF TxOrder
<1> QED BY <1>6, <1>9, <1>10, <1>12 DEF LockInv

\* Whom a transaction waits for, by the statement it has reached.
LEMMA BlockersAt ==
  ASSUME NEW t \in Txs
  PROVE  /\ AtOrg(t) => Blockers(t) = Lockers(OrgOfTx(t), t, OrgMode(t))
         /\ at[t] = "locked" => Blockers(t) = {holder[r] : r \in HoldRows(t)} \ {t, None}
         /\ at[t] \in {"settling", "committed", "rolledback"} => Blockers(t) = {}
<1>1. ASSUME AtOrg(t) PROVE Blockers(t) = Lockers(OrgOfTx(t), t, OrgMode(t))
  <2>1. AtOrg(t) /\ ~ AtRequest(t) /\ ~ AtLedger(t) /\ at[t] # "locked"
    BY <1>1 DEF AtOrg, AtRequest, AtLedger
  <2> QED BY <2>1 DEF Blockers
<1>2. ASSUME at[t] = "locked" PROVE Blockers(t) = {holder[r] : r \in HoldRows(t)} \ {t, None}
  <2>1. ~ AtOrg(t) /\ ~ AtRequest(t) /\ ~ AtLedger(t)
    BY <1>2 DEF AtOrg, AtRequest, AtLedger
  <2> QED BY <1>2, <2>1 DEF Blockers
<1>3. ASSUME at[t] \in {"settling", "committed", "rolledback"} PROVE Blockers(t) = {}
  <2>1. ~ AtOrg(t) /\ ~ AtRequest(t) /\ ~ AtLedger(t) /\ at[t] # "locked"
    BY <1>3 DEF AtOrg, AtRequest, AtLedger
  <2> QED BY <2>1 DEF Blockers
<1> QED BY <1>1, <1>2, <1>3

LEMMA LockOrgKeeps ==
  ASSUME LockInv, NEW t \in Txs, LockOrg(t)
  PROVE  LockInv'
<1> DEFINE next == IF t.kind = "grant" \/ t.of \in Legacy THEN "settling" ELSE "locked"
<1>1. /\ AtOrg(t) /\ Blockers(t) = {} /\ at' = [at EXCEPT ![t] = next]
      /\ inFlight' = inFlight /\ holder' = holder /\ Takes(t, OrgMode(t))
      /\ t.kind # "sweep" /\ at[t] \in {"idle", "ledgered"}
  BY DEF LockOrg, AtOrg, Reaches
<1>2. /\ LockTypes /\ TxOrder(t) /\ (\A r \in Requests : holder[r] # t)
      /\ OrgOfTx(t) \in Orgs /\ \A o \in Orgs : lock[o][t] # "nokey"
  BY <1>1, NoHoldRows, OrgOfTxType DEF LockInv
<1>3. OrgMode(t) \in Modes /\ Lockers(OrgOfTx(t), t, OrgMode(t)) = {}
  BY <1>1, BlockersAt DEF OrgMode
<1>4. /\ lock' \in [Orgs -> [Txs -> Modes]]
      /\ \A o \in Orgs : \A u \in Txs \ {t} : lock'[o][u] = lock[o][u]
      /\ OrgMode(t) = "none" => lock' = lock
      /\ OrgMode(t) # "none" => /\ lock'[OrgOfTx(t)][t] = OrgMode(t)
                                /\ \A o \in Orgs \ {OrgOfTx(t)} : lock'[o] = lock[o]
      /\ Compatible'
  BY <1>1, <1>3, TakesKeeps
<1>5. next \in {"settling", "locked"}
  OBVIOUS
<1>6. next = "locked" => t.kind # "grant" /\ OrgMode(t) = "update"
  BY <1>1 DEF OrgMode, SettlesHold
<1>7. t.kind = "grant" => OrgMode(t) # "update"
  BY DEF OrgMode, SettlesHold
<1>8. OrgMode(t) = "nokey" => next = "settling"
  BY <1>6
<1> HIDE DEF next
<1>9. LockTypes' /\ at'[t] = next /\ \A u \in Txs \ {t} : at'[u] = at[u]
  BY <1>1, <1>2, <1>4, <1>5 DEF LockTypes
<1>10. \A u \in Txs \ {t} : TxOrder(u)'
  BY <1>1, <1>4, <1>9, OthersOrder
<1>11. next = "locked" => lock'[OrgOfTx(t)][t] = "update"
  BY <1>4, <1>6
<1>12. \A o \in Orgs : /\ t.kind = "grant" => lock'[o][t] # "update"
                       /\ lock'[o][t] = "nokey" => next = "settling"
  BY <1>2, <1>4, <1>7, <1>8 DEF TxOrder
<1>13. TxOrder(t)'
  BY <1>1, <1>2, <1>5, <1>6, <1>9, <1>11, <1>12 DEF TxOrder
<1> QED BY <1>4, <1>9, <1>10, <1>13 DEF LockInv

LEMMA LockSweepKeeps ==
  ASSUME LockInv, NEW t \in Txs, LockSweep(t)
  PROVE  LockInv'
<1>1. /\ t.kind = "sweep" /\ at[t] = "idle" /\ at' = [at EXCEPT ![t] = "locked"]
      /\ inFlight' = inFlight /\ holder' = holder
      /\ lock' = [o \in Orgs |->
           IF Reclaimable(o) # {} /\ Lockers(o, t, "update") = {} THEN [lock[o] EXCEPT ![t] = "update"]
           ELSE lock[o]]
  BY DEF LockSweep, Reaches
<1>2. /\ LockTypes /\ TxOrder(t) /\ (\A r \in Requests : holder[r] # t)
      /\ \A o \in Orgs : lock[o][t] # "nokey"
  BY <1>1, NoHoldRows DEF LockInv
<1>3. lock \in [Orgs -> [Txs -> Modes]]
  BY <1>2 DEF LockTypes
<1>4. \A o \in Orgs : \/ lock'[o] = lock[o]
                      \/ lock'[o] = [lock[o] EXCEPT ![t] = "update"] /\ Lockers(o, t, "update") = {}
  BY <1>1
<1>5. /\ lock' \in [Orgs -> [Txs -> Modes]]
      /\ \A o \in Orgs : \A u \in Txs \ {t} : lock'[o][u] = lock[o][u]
      /\ \A o \in Orgs : lock'[o][t] # "nokey"
  <2>1. ASSUME NEW o \in Orgs
        PROVE  /\ lock'[o] \in [Txs -> Modes] /\ lock'[o][t] # "nokey"
               /\ \A u \in Txs \ {t} : lock'[o][u] = lock[o][u]
    <3>1. CASE lock'[o] = lock[o]
      BY <1>2, <1>3, <3>1
    <3>2. CASE lock'[o] = [lock[o] EXCEPT ![t] = "update"]
      <4>1. lock[o] \in [Txs -> Modes]
        BY <1>3
      <4> QED BY <3>2, <4>1
    <3> QED BY <1>4, <3>1, <3>2
  <2> QED BY <1>1, <2>1
<1>6. Compatible'
  <2> SUFFICES ASSUME NEW o \in Orgs, NEW u \in Txs, NEW v \in Txs, u # v
               PROVE  ~ Conflicts(lock'[o][u], lock'[o][v])
    BY DEF Compatible, Conflicts
  <2>1. ~ Conflicts(lock[o][u], lock[o][v])
    BY DEF LockInv, Compatible
  <2>2. CASE lock'[o] = lock[o]
    BY <2>1, <2>2
  <2>3. CASE lock'[o] = [lock[o] EXCEPT ![t] = "update"] /\ Lockers(o, t, "update") = {}
    <3>1. \A w \in Txs \ {t} : lock[o][w] = "none"
      BY <1>3, <2>3 DEF Lockers, Conflicts
    <3> QED BY <1>3, <2>3, <3>1 DEF Conflicts
  <2> QED BY <1>4, <2>2, <2>3
<1>7. LockTypes' /\ at'[t] = "locked" /\ \A u \in Txs \ {t} : at'[u] = at[u]
  BY <1>1, <1>2, <1>5 DEF LockTypes
<1>8. \A u \in Txs \ {t} : TxOrder(u)'
  BY <1>1, <1>5, <1>7, OthersOrder
<1>9. TxOrder(t)'
  BY <1>1, <1>2, <1>5, <1>7 DEF TxOrder
<1> QED BY <1>6, <1>7, <1>8, <1>9 DEF LockInv

\* The hold rows a transaction goes on to lock are of organizations it has.
LEMMA HoldRowsUnderOrg ==
  ASSUME LockInv, NEW t \in Txs, at[t] = "locked", NEW r \in HoldRows(t)
  PROVE  r \in Requests /\ lock[OrgOf[r]][t] = "update"
<1>1. TxOrder(t) /\ t.kind # "grant"
  BY DEF LockInv, TxOrder
<1>2. CASE t.kind = "sweep"
  <2>1. PICK o \in Orgs : lock[o][t] = "update" /\ r \in Reclaimable(o)
    BY <1>2 DEF HoldRows
  <2> QED BY <2>1 DEF Reclaimable
<1>3. CASE t.kind = "place"
  BY <1>1, <1>3 DEF HoldRows, Reclaimable, TxOrder
<1>4. CASE t.kind \notin {"sweep", "place"}
  <2>1. r = t.of /\ t.kind \in {"release", "record"}
    BY <1>1, <1>4 DEF HoldRows
  <2> QED BY <1>1, <1>4, <2>1, OrgOfTxType DEF TxOrder
<1> QED BY <1>2, <1>3, <1>4

LEMMA LockHoldsKeeps ==
  ASSUME LockInv, NEW t \in Txs, LockHolds(t)
  PROVE  LockInv'
<1>1. /\ at[t] = "locked" /\ at' = [at EXCEPT ![t] = "settling"]
      /\ inFlight' = inFlight /\ lock' = lock
      /\ holder' = [r \in Requests |-> IF r \in HoldRows(t) THEN t ELSE holder[r]]
  BY DEF LockHolds, Reaches
<1>2. LockTypes /\ TxOrder(t) /\ Compatible
  BY DEF LockInv
<1>3. LockTypes' /\ at'[t] = "settling" /\ \A u \in Txs \ {t} : at'[u] = at[u]
  BY <1>1, <1>2 DEF LockTypes
<1>4. \A u \in Txs \ {t} : \A r \in Requests : holder'[r] = u => holder[r] = u
  BY <1>1
<1>5. \A u \in Txs \ {t} : TxOrder(u)'
  BY <1>1, <1>3, <1>4, OthersOrder
<1>6. \A r \in Requests : holder'[r] = t => lock'[OrgOf[r]][t] = "update"
  BY <1>1, HoldRowsUnderOrg, NoHoldRows
<1>7. TxOrder(t)'
  BY <1>1, <1>2, <1>3, <1>6 DEF TxOrder
<1>8. Compatible'
  BY <1>1, <1>2 DEF Compatible
<1> QED BY <1>3, <1>5, <1>7, <1>8 DEF LockInv

\* The end of a transaction drops its locks.
LEMMA EndsKeeps ==
  ASSUME LockInv, NEW t \in Txs, NEW outcome \in {"committed", "rolledback"}, Ends(t, outcome)
  PROVE  LockInv'
<1>1. /\ at' = [at EXCEPT ![t] = outcome] /\ inFlight' = [inFlight EXCEPT ![t] = {}]
      /\ lock' = [o \in Orgs |-> [lock[o] EXCEPT ![t] = "none"]]
      /\ holder' = [r \in Requests |-> IF holder[r] = t THEN None ELSE holder[r]]
  BY DEF Ends, Reaches
<1>2. LockTypes /\ Compatible
  BY DEF LockInv
<1>3. /\ lock' \in [Orgs -> [Txs -> Modes]]
      /\ \A o \in Orgs : lock'[o][t] = "none" /\ \A u \in Txs \ {t} : lock'[o][u] = lock[o][u]
  BY <1>1, <1>2 DEF LockTypes
<1>4. LockTypes' /\ at'[t] = outcome /\ inFlight'[t] = {}
      /\ \A u \in Txs \ {t} : at'[u] = at[u] /\ inFlight'[u] = inFlight[u]
  BY <1>1, <1>2, <1>3 DEF LockTypes
<1>5. \A r \in Requests : holder'[r] # t
  BY <1>1
<1>6. \A u \in Txs \ {t} : TxOrder(u)'
  <2>1. \A u \in Txs \ {t} :
          /\ at'[u] = at[u] /\ inFlight'[u] = inFlight[u]
          /\ \A o \in Orgs : lock'[o][u] = lock[o][u]
          /\ \A r \in Requests : holder'[r] = u => holder[r] = u
    BY <1>1, <1>3, <1>4
  <2> QED BY <1>4, <2>1, OthersOrder
<1>7. TxOrder(t)'
  BY <1>3, <1>4, <1>5 DEF TxOrder, Inserted
<1>8. Compatible'
  <2> SUFFICES ASSUME NEW o \in Orgs, NEW u \in Txs, NEW v \in Txs, u # v
               PROVE  ~ Conflicts(lock'[o][u], lock'[o][v])
    BY DEF Compatible, Conflicts
  <2>1. ~ Conflicts(lock[o][u], lock[o][v])
    BY <1>2 DEF Compatible
  <2> QED BY <1>3, <2>1 DEF Conflicts
<1> QED BY <1>4, <1>6, <1>7, <1>8 DEF LockInv

LEMMA LockNext == LockInv /\ [Next]_vars => LockInv'
<1> SUFFICES ASSUME LockInv, [Next]_vars PROVE LockInv'
  OBVIOUS
<1>1. ASSUME NEW t \in Txs, Rollback(t) PROVE LockInv'
  BY <1>1, EndsKeeps DEF Rollback
<1>2. ASSUME NEW t \in Txs, CommitPlace(t) \/ CommitSettle(t) \/ CommitGrant(t) \/ CommitSweep(t)
      PROVE  LockInv'
  <2>1. Ends(t, "committed")
    BY <1>2 DEF CommitPlace, CommitSettle, CommitGrant, CommitSweep
  <2> QED BY <2>1, EndsKeeps
<1>3. ASSUME NEW t \in Txs, Statement(t) PROVE LockInv'
  BY <1>2, <1>3, RequestKeeps, LedgerKeeps, LockOrgKeeps, LockSweepKeeps, LockHoldsKeeps DEF Statement
<1>4. CASE BreakDeadlock
  <2>1. PICK t \in Txs : Rollback(t)
    BY <1>4 DEF BreakDeadlock
  <2> QED BY <1>1, <2>1
<1>5. ASSUME UNCHANGED <<at, locks>> PROVE LockInv'
  BY <1>5 DEF LockInv, LockTypes, Compatible, Conflicts, TxOrder, Inserted, locks
<1>6. CASE \E r \in Requests : Expire(r)
  BY <1>5, <1>6 DEF Expire
<1>7. CASE UNCHANGED vars
  BY <1>5, <1>7 DEF vars
<1> QED BY <1>1, <1>3, <1>4, <1>6, <1>7 DEF Next

\* The locks of every transaction are those of the statement it has reached: the
\* inductive invariant.
THEOREM LockInvariant == Spec => []LockInv
BY LockInit, LockNext, PTL DEF Spec

(***************************************************************************)
(* Lock order.                                                                *)
(***************************************************************************)

\* Whoever has a hold row has its organization's row exclusively.
THEOREM HoldsAreUnderOrgs == Spec => []HoldUnderOrg
<1>1. LockInv => HoldUnderOrg
  BY DEF LockInv, TxOrder, HoldUnderOrg
<1> QED BY <1>1, LockInvariant, PTL

\* So no transaction ever waits for a hold row.
LEMMA HoldRowsAreFree ==
  ASSUME LockInv, NEW t \in Txs, at[t] = "locked"
  PROVE  Blockers(t) = {}
<1>1. ASSUME NEW r \in HoldRows(t), holder[r] # t, holder[r] # None PROVE FALSE
  <2>1. r \in Requests /\ lock[OrgOf[r]][t] = "update" /\ OrgOf[r] \in Orgs
    BY HoldRowsUnderOrg
  <2>2. PICK u \in Txs \ {t} : holder[r] = u
    BY <1>1, <2>1 DEF LockInv, LockTypes
  <2>3. lock[OrgOf[r]][u] = "update"
    BY <2>1, <2>2 DEF LockInv, TxOrder
  <2> QED BY <2>1, <2>2, <2>3 DEF LockInv, Compatible, Conflicts
<1> QED BY <1>1, BlockersAt

\* A transaction in a wait cycle waits for one that is in it too.
LEMMA InCycle ==
  ASSUME NEW D \in SUBSET {t \in Txs : Active(t)}, WaitCycle(D), NEW t \in D
  PROVE  /\ t \in Txs /\ Active(t) /\ \E u \in D : u \in Blockers(t)
         /\ \E u \in D : t \in Blockers(u)
BY DEF WaitCycle

\* A transaction that waits is one that inserts or goes for its organization.
LEMMA WaitsEarly ==
  ASSUME LockInv, NEW t \in Txs, Active(t), Blockers(t) # {}
  PROVE  at[t] \in {"requested", "ledgered"} /\ t.kind \in {"record", "grant"}
<1>1. at[t] \notin {"locked", "settling", "committed", "rolledback", "idle"}
  BY HoldRowsAreFree, BlockersAt DEF Active
<1>2. at[t] \in {"requested", "ledgered"}
  BY <1>1 DEF LockInv, LockTypes
<1> QED BY <1>2 DEF LockInv, TxOrder

(***************************************************************************)
(* A grant never is in a wait cycle: what it waits for has the organization's *)
(* row without being exclusive, or it would not have let the grant insert its *)
(* key, and who has such a lock is about to commit.                           *)
(***************************************************************************)
LEMMA GrantsDoNotDeadlock ==
  ASSUME LockInv, NEW D \in SUBSET {t \in Txs : Active(t)}, WaitCycle(D), NEW t \in D
  PROVE  t.kind # "grant"
<1> SUFFICES ASSUME t.kind = "grant" PROVE FALSE
  OBVIOUS
<1>1. t \in Txs /\ Active(t)
  BY InCycle
<1>2. PICK u \in D : u \in Blockers(t)
  BY InCycle
<1>3. u \in Txs /\ Active(u) /\ Blockers(u) # {}
  BY InCycle
<1>4. at[t] = "ledgered"
  BY <1>1, <1>2, WaitsEarly DEF LockInv, TxOrder
<1>5. AtOrg(t) /\ OrgOfTx(t) \in Orgs /\ ~ SettlesHold(t)
  BY <1>1, <1>4, OrgOfTxType DEF AtOrg, SettlesHold
<1>6. u # t /\ Conflicts(OrgMode(t), lock[OrgOfTx(t)][u])
  BY <1>1, <1>2, <1>5, BlockersAt DEF Lockers
<1>7. OrgMode(t) = "nokey" /\ Inserted(t)
  BY <1>5, <1>6 DEF OrgMode, Conflicts, LockInv, LockTypes
<1>8. lock[OrgOfTx(t)][u] \in {"nokey", "update"}
  BY <1>6, <1>7 DEF Conflicts
<1>9. lock[OrgOfTx(t)][t] # "none"
  BY <1>1, <1>4, <1>7 DEF LockInv, TxOrder
<1>10. lock[OrgOfTx(t)][u] # "update"
  BY <1>1, <1>3, <1>5, <1>6, <1>9 DEF LockInv, Compatible, Conflicts
<1>11. at[u] = "settling"
  BY <1>3, <1>5, <1>8, <1>10 DEF LockInv, TxOrder
<1> QED BY <1>3, <1>11, BlockersAt

\* Only recordings of usage can wait for each other in a circle.
THEOREM RecordsAloneDeadlock == Spec => []OnlyRecordsDeadlock
<1>1. LockInv => OnlyRecordsDeadlock
  <2> SUFFICES ASSUME LockInv, NEW D \in SUBSET {t \in Txs : Active(t)}, WaitCycle(D), NEW t \in D
               PROVE  t.kind = "record"
    BY DEF OnlyRecordsDeadlock
  <2>1. t \in Txs /\ Active(t) /\ Blockers(t) # {}
    BY InCycle
  <2>2. t.kind \in {"record", "grant"}
    BY <2>1, WaitsEarly
  <2> QED BY <2>2, GrantsDoNotDeadlock
<1> QED BY <1>1, LockInvariant, PTL

-----------------------------------------------------------------------------
(***************************************************************************)
(* The rows.  What makes the statements of different transactions add up is   *)
(* what each of them knows, when it commits, of the rows it read before.      *)
(***************************************************************************)
RowTypes ==
  /\ remaining \in [Orgs -> Int] /\ used \in [Orgs -> Nat]
  /\ grantRow \in [Grants -> Nat] /\ usageRow \in [Requests -> Nat]
  /\ logged \in [Requests -> BOOLEAN]
  /\ hold \in [Requests -> {"none", "open", "settled"}]
  /\ frozen \in [Requests -> Nat] /\ expired \in [Requests -> BOOLEAN]

\* A call has placed no hold before its PlaceHold commits, and some hold once it
\* is recorded; a record that inserted no ledger row has found one; a ledger row
\* in flight is not in the table yet.
KnowsRows(t) ==
  /\ t.kind = "place" /\ at[t] # "committed" => hold[t.of] = "none"
  /\ t.kind = "record" /\ at[t] # "idle" => hold[t.of] # "none" \/ t.of \in Legacy
  /\ t.kind = "record" /\ at[t] \in {"ledgered", "locked", "settling"} /\ t.amount > 0 =>
       Inserted(t) \/ usageRow[t.of] # 0
  /\ Inserted(t) => t.kind \in {"record", "grant"} /\ t.amount > 0 /\ LedgerRow(t) = 0

\* Who settles a hold has its row, and who reclaims it has found it open.
HasRows(t) ==
  /\ t.kind \in {"release", "record"} /\ at[t] = "settling" => t.of \in Legacy \/ holder[t.of] = t
  /\ t.kind \in {"place", "sweep"} =>
       \A r \in Locked(t) : hold[r] = "open" /\ (t.kind = "place" => OrgOf[r] = OrgOf[t.of])

\* A charged request has no open hold, and a Legacy one has none at all.
ChargedRow(r) ==
  /\ r \in Legacy => hold[r] = "none"
  /\ usageRow[r] # 0 /\ r \notin Legacy => hold[r] = "settled"

\* Two transactions do not have the same ledger key in flight.
KeysUnique ==
  \A t, u \in Txs : t # u /\ t.of = u.of /\ LedgerKey(t) = LedgerKey(u) => ~ (Inserted(t) /\ Inserted(u))

RowInv ==
  /\ RowTypes /\ KeysUnique /\ UsedIsLedger
  /\ \A t \in Txs : KnowsRows(t) /\ HasRows(t)
  /\ \A r \in Requests : ChargedRow(r)

HIDE TransactionsAssumption

(***************************************************************************)
(* Sums over sets of requests.                                                *)
(***************************************************************************)
Total(S, amount) == SumTo(AmountsOf(S, amount), NumRequests)

LEMMA TotalType ==
  ASSUME NEW S, NEW amount \in [Requests -> Nat]
  PROVE  Total(S, amount) \in Nat
<1>1. \A i \in 1..NumRequests : AmountsOf(S, amount)[i] \in Nat
  BY DEF AmountsOf, Requests
<1> QED BY <1>1, SumNat, TransactionsAssumption DEF Total

\* A part of the rows can be added up on its own.
LEMMA TotalSplits ==
  ASSUME NEW amount \in [Requests -> Nat], NEW S, NEW A, A \subseteq S
  PROVE  Total(S, amount) = Total(A, amount) + Total(S \ A, amount)
<1> DEFINE f == AmountsOf(A, amount)
           g == AmountsOf(S \ A, amount)
           h == AmountsOf(S, amount)
<1>1. \A i \in 1..NumRequests : f[i] \in Int /\ g[i] \in Int /\ h[i] = f[i] + g[i]
  BY DEF AmountsOf, Requests
<1> HIDE DEF f, g, h
<1>2. NumRequests \in Nat
  BY TransactionsAssumption
<1>3. SumTo(h, NumRequests) = SumTo(f, NumRequests) + SumTo(g, NumRequests)
  BY <1>1, <1>2, SumAdds
<1> QED BY <1>3 DEF Total, f, g, h

\* A total is that of the rows it is about.
LEMMA TotalSame ==
  ASSUME NEW amount \in [Requests -> Nat], NEW next \in [Requests -> Nat], NEW S, NEW T,
         \A r \in Requests : (r \in S <=> r \in T) /\ (r \in S => next[r] = amount[r])
  PROVE  Total(T, next) = Total(S, amount)
<1>1. \A i \in 1..NumRequests :
        AmountsOf(S, amount)[i] \in Int /\ AmountsOf(T, next)[i] = AmountsOf(S, amount)[i]
  BY DEF AmountsOf, Requests
<1> QED BY <1>1, SumSame, TransactionsAssumption DEF Total

\* A row that comes in, or whose amount changes, changes the total by as much.
LEMMA TotalAfterRow ==
  ASSUME NEW amount \in [Requests -> Nat], NEW next \in [Requests -> Nat], NEW S, NEW T,
         NEW r \in Requests,
         \A q \in Requests \ {r} : (q \in S <=> q \in T) /\ (q \in S => next[q] = amount[q])
  PROVE  Total(T, next) = Total(S, amount)
           + (IF r \in T THEN next[r] ELSE 0) - (IF r \in S THEN amount[r] ELSE 0)
<1> DEFINE f == AmountsOf(S, amount)
           g == AmountsOf(T, next)
<1>1. \A i \in 1..NumRequests : f[i] \in Int /\ g[i] \in Int
  BY DEF AmountsOf, Requests
<1>2. \A i \in 1..NumRequests : i # r => g[i] = f[i]
  BY DEF AmountsOf, Requests
<1>3. /\ g[r] = (IF r \in T THEN next[r] ELSE 0)
      /\ f[r] = (IF r \in S THEN amount[r] ELSE 0)
      /\ r \in 1..NumRequests /\ NumRequests \in Nat
  BY TransactionsAssumption DEF AmountsOf, Requests
<1> HIDE DEF f, g
<1>4. SumTo(g, NumRequests) = SumTo(f, NumRequests) + g[r] - f[r]
  BY <1>1, <1>2, <1>3, SumUpdate
<1> QED BY <1>3, <1>4 DEF Total, f, g

LEMMA NoTotal ==
  ASSUME NEW amount, NEW S, \A r \in Requests : r \in S => amount[r] = 0
  PROVE  Total(S, amount) = 0
<1>1. \A i \in 1..NumRequests : AmountsOf(S, amount)[i] = 0
  BY DEF AmountsOf, Requests
<1> QED BY <1>1, SumOfNone, TransactionsAssumption DEF Total

\* The sums of the model as totals.
OpenRows(o) == {r \in Requests : OrgOf[r] = o /\ hold[r] = "open"}
RowsOf(o)   == {r \in Requests : OrgOf[r] = o}

LEMMA SumsAreTotals ==
  ASSUME NEW o
  PROVE  /\ OpenTotal(o) = Total(OpenRows(o), frozen) /\ UsageTotal(o) = Total(RowsOf(o), usageRow)
         /\ OpenTotal(o)' = Total(OpenRows(o)', frozen') /\ UsageTotal(o)' = Total(RowsOf(o), usageRow')
<1>1. OpenTotal(o) = Total(OpenRows(o), frozen) /\ OpenTotal(o)' = Total(OpenRows(o)', frozen')
  BY DEF OpenTotal, Sum, Total, OpenRows
<1>2. UsageTotal(o) = Total(RowsOf(o), usageRow) /\ UsageTotal(o)' = Total(RowsOf(o), usageRow')
  BY DEF UsageTotal, Total, RowsOf
<1> QED BY <1>1, <1>2

LEMMA SumsType ==
  ASSUME RowTypes
  PROVE  /\ \A S : Sum(S) \in Nat
         /\ \A o \in Orgs : OpenTotal(o) \in Nat /\ UsageTotal(o) \in Nat
BY TotalType, SumsAreTotals DEF RowTypes, Sum, Total

\* What of an organization's frozen credit stays frozen when the holds in S are
\* settled, and a new hold of r is placed.
LEMMA OpenAfterReclaim ==
  ASSUME RowTypes, RowTypes', NEW o \in Orgs, NEW S \in SUBSET Requests,
         \A r \in S : hold[r] = "open",
         \A r \in RowsOf(o) : /\ hold'[r] = IF r \in S THEN "settled" ELSE hold[r]
                              /\ hold'[r] = "open" => frozen'[r] = frozen[r]
  PROVE  OpenTotal(o)' = OpenTotal(o) - Sum({r \in S : OrgOf[r] = o})
<1> DEFINE A == {r \in S : OrgOf[r] = o}
<1>1. A \subseteq OpenRows(o)
  BY DEF OpenRows
<1>2. Total(OpenRows(o), frozen) = Total(A, frozen) + Total(OpenRows(o) \ A, frozen)
  BY <1>1, TotalSplits DEF RowTypes
<1>3. Total(OpenRows(o)', frozen') = Total(OpenRows(o) \ A, frozen)
  <2>1. \A r \in Requests : /\ r \in OpenRows(o) \ A <=> r \in OpenRows(o)'
                            /\ r \in OpenRows(o) \ A => frozen'[r] = frozen[r]
    BY DEF OpenRows, RowsOf
  <2> HIDE DEF A
  <2> QED BY <2>1, TotalSame DEF RowTypes
<1>4. Total(A, frozen) \in Nat /\ Total(OpenRows(o) \ A, frozen) \in Nat
  BY TotalType DEF RowTypes
<1> HIDE DEF A
<1>5. OpenTotal(o)' = OpenTotal(o) - Sum(A)
  BY <1>2, <1>3, <1>4, SumsAreTotals DEF Sum, Total
<1> QED BY <1>5 DEF A

LEMMA OpenAfterPlace ==
  ASSUME RowTypes, RowTypes', NEW r \in Requests, NEW S \in SUBSET Requests,
         hold[r] = "none", \A q \in S : hold[q] = "open" /\ OrgOf[q] = OrgOf[r],
         frozen'[r] \in Nat, \A q \in Requests \ {r} : frozen'[q] = frozen[q],
         \A q \in Requests :
           hold'[q] = IF q = r THEN "open" ELSE IF q \in S THEN "settled" ELSE hold[q]
  PROVE  \A o \in Orgs :
           OpenTotal(o)' = OpenTotal(o) + (IF o = OrgOf[r] THEN frozen'[r] - Sum(S) ELSE 0)
<1> SUFFICES ASSUME NEW o \in Orgs
             PROVE  OpenTotal(o)' = OpenTotal(o) + (IF o = OrgOf[r] THEN frozen'[r] - Sum(S) ELSE 0)
  OBVIOUS
<1>1. frozen \in [Requests -> Nat] /\ frozen' \in [Requests -> Nat] /\ r \notin S
  BY DEF RowTypes
<1>2. CASE o = OrgOf[r]
  <2> DEFINE R == OpenRows(o) \ S
  <2>1. S \subseteq OpenRows(o)
    BY <1>2 DEF OpenRows
  <2>2. Total(OpenRows(o), frozen) = Total(S, frozen) + Total(R, frozen)
    BY <1>1, <2>1, TotalSplits
  <2>3. r \in OpenRows(o)' /\ r \notin R
    BY <1>1, <1>2 DEF OpenRows
  <2>4. \A q \in Requests \ {r} : /\ q \in R <=> q \in OpenRows(o)'
                                  /\ q \in R => frozen'[q] = frozen[q]
    BY <1>1 DEF OpenRows
  <2> HIDE DEF R
  <2>5. Total(OpenRows(o)', frozen') = Total(R, frozen) + frozen'[r]
    <3>1. Total(OpenRows(o)', frozen') = Total(R, frozen)
            + (IF r \in OpenRows(o)' THEN frozen'[r] ELSE 0) - (IF r \in R THEN frozen[r] ELSE 0)
      BY <1>1, <2>4, TotalAfterRow
    <3> QED BY <1>1, <2>3, <3>1, TotalType
  <2>6. Total(S, frozen) \in Nat /\ Total(R, frozen) \in Nat
    BY <1>1, TotalType
  <2>7. /\ OpenTotal(o)' = Total(OpenRows(o)', frozen') /\ OpenTotal(o) = Total(OpenRows(o), frozen)
        /\ Sum(S) = Total(S, frozen)
    BY SumsAreTotals DEF Sum, Total
  <2> QED BY <1>2, <2>2, <2>5, <2>6, <2>7
<1>3. CASE o # OrgOf[r]
  <2>1. \A q \in Requests : /\ q \in OpenRows(o) <=> q \in OpenRows(o)'
                            /\ q \in OpenRows(o) => frozen'[q] = frozen[q]
    BY <1>1, <1>3 DEF OpenRows
  <2>2. OpenTotal(o)' = OpenTotal(o)
    BY <1>1, <2>1, TotalSame, SumsAreTotals
  <2> QED BY <1>3, <2>2, SumsType
<1> QED BY <1>2, <1>3

\* Settling the hold of one request gives its freeze back.
LEMMA OpenAfterSettle ==
  ASSUME RowTypes, RowTypes', NEW r \in Requests, frozen' = frozen,
         \A q \in Requests : hold'[q] = IF q = r /\ hold[q] = "open" THEN "settled" ELSE hold[q]
  PROVE  \A o \in Orgs :
           OpenTotal(o)' = OpenTotal(o)
             - (IF o = OrgOf[r] /\ hold[r] = "open" THEN frozen[r] ELSE 0)
<1> SUFFICES ASSUME NEW o \in Orgs
             PROVE  OpenTotal(o)' = OpenTotal(o)
                      - (IF o = OrgOf[r] /\ hold[r] = "open" THEN frozen[r] ELSE 0)
  OBVIOUS
<1>1. frozen \in [Requests -> Nat] /\ hold \in [Requests -> {"none", "open", "settled"}]
  BY DEF RowTypes
<1>2. /\ \A q \in Requests \ {r} : /\ q \in OpenRows(o) <=> q \in OpenRows(o)'
                                   /\ q \in OpenRows(o) => frozen'[q] = frozen[q]
      /\ r \notin OpenRows(o)' /\ (r \in OpenRows(o) <=> o = OrgOf[r] /\ hold[r] = "open")
  BY <1>1 DEF OpenRows
<1>3. Total(OpenRows(o)', frozen') = Total(OpenRows(o), frozen)
        + 0 - (IF r \in OpenRows(o) THEN frozen[r] ELSE 0)
  BY <1>1, <1>2, TotalAfterRow
<1>4. Total(OpenRows(o), frozen) \in Nat
  BY <1>1, TotalType
<1> QED BY <1>1, <1>2, <1>3, <1>4, SumsAreTotals

\* A fresh usage row is the usage its organization gains.
LEMMA UsageAfterRow ==
  ASSUME RowTypes, RowTypes', NEW r \in Requests,
         usageRow[r] = 0, \A q \in Requests \ {r} : usageRow'[q] = usageRow[q]
  PROVE  \A o \in Orgs : UsageTotal(o)' = UsageTotal(o) + (IF o = OrgOf[r] THEN usageRow'[r] ELSE 0)
<1> SUFFICES ASSUME NEW o \in Orgs
             PROVE  UsageTotal(o)' = UsageTotal(o) + (IF o = OrgOf[r] THEN usageRow'[r] ELSE 0)
  OBVIOUS
<1>1. /\ usageRow \in [Requests -> Nat] /\ usageRow' \in [Requests -> Nat]
      /\ r \in RowsOf(o) <=> o = OrgOf[r]
  BY DEF RowTypes, RowsOf
<1>2. Total(RowsOf(o), usageRow') = Total(RowsOf(o), usageRow)
        + (IF r \in RowsOf(o) THEN usageRow'[r] ELSE 0) - (IF r \in RowsOf(o) THEN usageRow[r] ELSE 0)
  BY <1>1, TotalAfterRow
<1>3. Total(RowsOf(o), usageRow) \in Nat
  BY <1>1, TotalType
<1> QED BY <1>1, <1>2, <1>3, SumsAreTotals

(***************************************************************************)
(* The rows stay in order, step by step.                                      *)
(***************************************************************************)
LEMMA TxFacts ==
  ASSUME NEW t \in Txs
  PROVE  /\ t.kind \in {"place", "release", "record", "grant", "sweep"} /\ t.amount \in Nat
         /\ t.kind \in {"place", "release", "record"} => t.of \in Requests /\ OrgOf[t.of] \in Orgs
         /\ t.kind \in {"place", "release"} => t.of \notin Legacy
         /\ t.kind = "place" => \A u \in Txs \ {t} : u.kind = "place" => u.of # t.of
         /\ t.kind = "grant" => t.of \in Grants /\ GrantOrg[t.of] \in Orgs
BY TransactionsAssumption

LEMMA RowInit == Init => RowInv
<1> SUFFICES ASSUME Init PROVE RowInv
  OBVIOUS
<1>1. RowTypes
  BY DEF Init, RowTypes
<1>2. UsedIsLedger
  <2> SUFFICES ASSUME NEW o \in Orgs PROVE used[o] = UsageTotal(o)
    BY DEF UsedIsLedger
  <2>1. \A r \in Requests : r \in RowsOf(o) => usageRow[r] = 0
    BY DEF Init
  <2>2. Total(RowsOf(o), usageRow) = 0
    BY <2>1, NoTotal
  <2> QED BY <2>2, SumsAreTotals DEF Init
<1>3. ASSUME NEW t \in Txs PROVE KnowsRows(t) /\ HasRows(t) /\ ~ Inserted(t)
  <2>1. \A r \in Requests : holder[r] # t
    BY TransactionsAssumption DEF Init
  <2>2. ~ Inserted(t) /\ at[t] = "idle" /\ Locked(t) = {}
    BY <2>1 DEF Init, Inserted, Locked
  <2>3. t.kind = "place" => hold[t.of] = "none"
    BY TxFacts DEF Init
  <2> QED BY <2>2, <2>3 DEF KnowsRows, HasRows
<1>4. KeysUnique
  BY <1>3 DEF KeysUnique
<1>5. \A r \in Requests : ChargedRow(r)
  BY DEF Init, ChargedRow
<1> QED BY <1>1, <1>2, <1>3, <1>4, <1>5 DEF RowInv

\* What a transaction knows and has depends on its own progress and its rows.
Others(t) ==
  \A u \in Txs \ {t} : /\ at'[u] = at[u] /\ inFlight'[u] = inFlight[u]
                       /\ \A r \in Requests : holder'[r] = u <=> holder[r] = u

LEMMA OthersSame ==
  ASSUME NEW t \in Txs, Others(t), NEW u \in Txs \ {t}
  PROVE  /\ at'[u] = at[u] /\ (Inserted(u)' <=> Inserted(u)) /\ Locked(u)' = Locked(u)
         /\ \A r \in Requests : holder'[r] = u <=> holder[r] = u
BY DEF Others, Inserted, LedgerKey, Locked

LEMMA KeysStayUnique ==
  ASSUME KeysUnique, NEW t \in Txs, Others(t),
         Inserted(t)' => \/ Inserted(t)
                         \/ \A u \in Txs \ {t} :
                              u.of = t.of /\ LedgerKey(u) = LedgerKey(t) => ~ Inserted(u)
  PROVE  KeysUnique'
<1> SUFFICES ASSUME NEW u \in Txs, NEW v \in Txs, u # v, u.of = v.of, LedgerKey(u) = LedgerKey(v),
                    Inserted(u)', Inserted(v)'
             PROVE  FALSE
  BY DEF KeysUnique, LedgerKey
<1>1. CASE u # t /\ v # t
  BY <1>1, OthersSame DEF KeysUnique
<1>2. CASE u = t
  BY <1>2, OthersSame DEF KeysUnique
<1>3. CASE v = t
  BY <1>3, OthersSame DEF KeysUnique
<1> QED BY <1>1, <1>2, <1>3

\* A step that writes no row.
LEMMA QuietKeeps ==
  ASSUME RowInv, NEW t \in Txs, Others(t), UNCHANGED tables, expired' \in [Requests -> BOOLEAN],
         KnowsRows(t)', HasRows(t)', KeysUnique'
  PROVE  RowInv'
<1>1. UNCHANGED <<remaining, used, grantRow, usageRow, logged, hold, frozen>>
  BY DEF tables
<1>2. RowTypes'
  BY <1>1 DEF RowInv, RowTypes
<1>3. UsedIsLedger'
  <2>1. UsedIsLedger
    BY DEF RowInv
  <2> QED BY <1>1, <2>1 DEF UsedIsLedger, UsageTotal, AmountsOf
<1>4. \A r \in Requests : ChargedRow(r)'
  BY <1>1 DEF RowInv, ChargedRow
<1>5. ASSUME NEW u \in Txs \ {t} PROVE KnowsRows(u)' /\ HasRows(u)'
  <2>1. KnowsRows(u) /\ HasRows(u)
    BY DEF RowInv
  <2>2. LedgerRow(u)' = LedgerRow(u)
    BY <1>1 DEF LedgerRow
  <2>3. KnowsRows(u)'
    BY <1>1, <2>1, <2>2, OthersSame DEF KnowsRows
  <2>4. HasRows(u)'
    <3>1. t.kind = t.kind /\ u.kind \in {"release", "record"} => u.of \in Requests
      BY TxFacts
    <3> QED BY <1>1, <2>1, <3>1, OthersSame DEF HasRows
  <2> QED BY <2>3, <2>4
<1> QED BY <1>2, <1>3, <1>4, <1>5 DEF RowInv

LEMMA RequestKeepsRows ==
  ASSUME LockInv, LockInv', RowInv, NEW t \in Txs, InsertRequest(t)
  PROVE  RowInv'
<1>1. /\ t.kind = "record" /\ at[t] = "idle" /\ Ready(t) /\ UNCHANGED <<tables, expired, holder>>
      /\ at' = [at EXCEPT ![t] = "requested"]
      /\ inFlight' = inFlight \/ inFlight' = [inFlight EXCEPT ![t] = @ \cup {"request"}]
  BY DEF InsertRequest, AtRequest, Reaches
<1>2. LockTypes /\ ~ Inserted(t) /\ KnowsRows(t)
  BY <1>1 DEF LockInv, TxOrder, RowInv
<1>3. Others(t) /\ at'[t] = "requested" /\ ~ Inserted(t)'
  BY <1>1, <1>2 DEF Others, LockTypes, Inserted, LedgerKey
<1>4. UNCHANGED hold
  BY <1>1 DEF tables
<1>5. KnowsRows(t)' /\ HasRows(t)'
  BY <1>1, <1>2, <1>3, <1>4 DEF KnowsRows, HasRows, Ready
<1>6. KeysUnique'
  BY <1>3, KeysStayUnique DEF RowInv
<1>7. expired' \in [Requests -> BOOLEAN]
  BY <1>1 DEF RowInv, RowTypes
<1> QED BY <1>1, <1>3, <1>5, <1>6, <1>7, QuietKeeps

LEMMA LedgerKeepsRows ==
  ASSUME LockInv, LockInv', RowInv, NEW t \in Txs, InsertLedger(t)
  PROVE  RowInv'
<1>1. /\ AtLedger(t) /\ Blockers(t) = {} /\ UNCHANGED <<tables, expired, holder>>
      /\ at' = [at EXCEPT ![t] = "ledgered"]
      /\ IF InsertsLedger(t) THEN inFlight' = [inFlight EXCEPT ![t] = @ \cup {LedgerKey(t)}]
         ELSE inFlight' = inFlight
      /\ t.kind \in {"record", "grant"} /\ at[t] \in {"idle", "requested"} /\ ~ AtRequest(t)
  BY DEF InsertLedger, AtLedger, AtRequest, Reaches
<1>2. LockTypes /\ ~ Inserted(t) /\ KnowsRows(t) /\ t.amount \in Nat
  BY <1>1, TxFacts DEF LockInv, TxOrder, RowInv
<1>3. Others(t) /\ at'[t] = "ledgered" /\ (Inserted(t)' <=> InsertsLedger(t))
  BY <1>1, <1>2 DEF Others, LockTypes, Inserted, LedgerKey
<1>4. UNCHANGED <<hold, usageRow, grantRow>> /\ LedgerRow(t)' = LedgerRow(t)
  BY <1>1 DEF tables, LedgerRow
<1>5. t.kind = "record" => at[t] # "idle"
  BY <1>1 DEF AtRequest
<1>6. t.kind = "record" => LedgerRow(t) = usageRow[t.of]
  BY DEF LedgerRow
<1>7. KnowsRows(t)'
  BY <1>1, <1>2, <1>3, <1>4, <1>5, <1>6 DEF KnowsRows, InsertsLedger
<1>8. HasRows(t)'
  BY <1>1, <1>3 DEF HasRows
<1>9. InsertsLedger(t) => KeyInserters(t, LedgerKey(t)) = {}
  <2> SUFFICES ASSUME InsertsLedger(t) PROVE KeyInserters(t, LedgerKey(t)) = {}
    OBVIOUS
  <2>1. AtLedger(t) /\ ~ AtRequest(t) /\ ~ AtOrg(t) /\ at[t] # "locked"
    BY <1>1 DEF AtOrg
  <2>2. Blockers(t) = (IF t.amount > 0 THEN KeyInserters(t, LedgerKey(t)) ELSE {})
                        \cup Lockers(OrgOfTx(t), t, "share")
    BY <2>1 DEF Blockers
  <2> QED BY <1>1, <2>2 DEF InsertsLedger
<1>10. KeysUnique'
  <2>1. ASSUME InsertsLedger(t), NEW u \in Txs \ {t}, u.of = t.of, LedgerKey(u) = LedgerKey(t)
        PROVE  ~ Inserted(u)
    BY <1>9, <2>1 DEF KeyInserters, Inserted
  <2> QED BY <1>3, <2>1, KeysStayUnique DEF RowInv
<1>11. expired' \in [Requests -> BOOLEAN]
  BY <1>1 DEF RowInv, RowTypes
<1> QED BY <1>1, <1>3, <1>7, <1>8, <1>10, <1>11, QuietKeeps

LEMMA LockOrgKeepsRows ==
  ASSUME LockInv, LockInv', RowInv, NEW t \in Txs, LockOrg(t)
  PROVE  RowInv'
<1> DEFINE next == IF t.kind = "grant" \/ t.of \in Legacy THEN "settling" ELSE "locked"
<1>1. /\ AtOrg(t) /\ UNCHANGED <<tables, expired, inFlight, holder>>
      /\ at' = [at EXCEPT ![t] = next]
  BY DEF LockOrg, Reaches
<1>2. /\ LockTypes /\ KnowsRows(t) /\ HasRows(t) /\ t.kind # "sweep"
      /\ t.kind \in {"record", "grant"} => at[t] = "ledgered"
      /\ t.kind = "place" => at[t] = "idle"
  BY <1>1 DEF LockInv, RowInv, AtOrg
<1>3. Others(t) /\ at'[t] = next /\ (Inserted(t)' <=> Inserted(t)) /\ Locked(t)' = Locked(t)
  BY <1>1, <1>2 DEF Others, LockTypes, Inserted, LedgerKey, Locked
<1>4. next \in {"settling", "locked"} /\ (next = "settling" => t.kind = "grant" \/ t.of \in Legacy)
  OBVIOUS
<1> HIDE DEF next
<1>5. UNCHANGED <<hold, usageRow, grantRow>> /\ LedgerRow(t)' = LedgerRow(t)
  BY <1>1 DEF tables, LedgerRow
<1>6. KnowsRows(t)'
  BY <1>2, <1>3, <1>4, <1>5 DEF KnowsRows
<1>7. HasRows(t)'
  BY <1>2, <1>3, <1>4, <1>5 DEF HasRows
<1>8. KeysUnique'
  BY <1>3, KeysStayUnique DEF RowInv
<1>9. expired' \in [Requests -> BOOLEAN]
  BY <1>1 DEF RowInv, RowTypes
<1> QED BY <1>1, <1>3, <1>6, <1>7, <1>8, <1>9, QuietKeeps

LEMMA LockSweepKeepsRows ==
  ASSUME LockInv, LockInv', RowInv, NEW t \in Txs, LockSweep(t)
  PROVE  RowInv'
<1>1. /\ t.kind = "sweep" /\ UNCHANGED <<tables, expired, inFlight, holder>>
      /\ at' = [at EXCEPT ![t] = "locked"]
  BY DEF LockSweep, Reaches
<1>2. LockTypes /\ KnowsRows(t) /\ HasRows(t)
  BY DEF LockInv, RowInv
<1>3. Others(t) /\ (Inserted(t)' <=> Inserted(t)) /\ Locked(t)' = Locked(t)
  BY <1>1, <1>2 DEF Others, LockTypes, Inserted, LedgerKey, Locked
<1>4. UNCHANGED <<hold, usageRow, grantRow>>
  BY <1>1 DEF tables
<1>5. KnowsRows(t)' /\ HasRows(t)'
  BY <1>1, <1>2, <1>3, <1>4 DEF KnowsRows, HasRows
<1>6. KeysUnique'
  BY <1>3, KeysStayUnique DEF RowInv
<1>7. expired' \in [Requests -> BOOLEAN]
  BY <1>1 DEF RowInv, RowTypes
<1> QED BY <1>1, <1>3, <1>5, <1>6, <1>7, QuietKeeps

LEMMA LockHoldsKeepsRows ==
  ASSUME LockInv, LockInv', RowInv, NEW t \in Txs, LockHolds(t)
  PROVE  RowInv'
<1>1. /\ at[t] = "locked" /\ Blockers(t) = {} /\ UNCHANGED <<tables, expired, inFlight>>
      /\ at' = [at EXCEPT ![t] = "settling"]
      /\ holder' = [r \in Requests |-> IF r \in HoldRows(t) THEN t ELSE holder[r]]
  BY DEF LockHolds, Reaches
<1>2. /\ LockTypes /\ KnowsRows(t) /\ t.kind # "grant"
      /\ \A r \in Requests : holder[r] # t
  BY <1>1, NoHoldRows DEF LockInv, TxOrder, RowInv
<1>3. \A r \in HoldRows(t) : holder[r] \in {t, None}
  BY <1>1, BlockersAt
<1>4. Others(t) /\ at'[t] = "settling" /\ (Inserted(t)' <=> Inserted(t))
  <2>1. ASSUME NEW u \in Txs \ {t}, NEW r \in Requests PROVE holder'[r] = u <=> holder[r] = u
    <3>1. u # t /\ u # None
      BY TransactionsAssumption
    <3> QED BY <1>1, <1>3, <3>1
  <2> QED BY <1>1, <1>2, <2>1 DEF Others, LockTypes, Inserted, LedgerKey
<1>5. UNCHANGED <<hold, usageRow, grantRow>> /\ LedgerRow(t)' = LedgerRow(t)
  BY <1>1 DEF tables, LedgerRow
<1>6. KnowsRows(t)'
  BY <1>1, <1>2, <1>4, <1>5 DEF KnowsRows
<1>7. Locked(t)' = {r \in Requests : r \in HoldRows(t)}
  BY <1>1, <1>2 DEF Locked
<1>8. HasRows(t)'
  <2>1. CASE t.kind \in {"release", "record"}
    <3>1. HoldRows(t) = {t.of} /\ t.of \in Requests
      BY <2>1, TxFacts DEF HoldRows
    <3> QED BY <1>1, <2>1, <3>1 DEF HasRows
  <2>2. CASE t.kind = "place"
    <3>1. HoldRows(t) = Reclaimable(OrgOf[t.of])
      BY <2>2 DEF HoldRows, OrgOfTx
    <3> QED BY <1>5, <1>7, <2>2, <3>1 DEF HasRows, Reclaimable
  <2>3. CASE t.kind = "sweep"
    <3>1. \A r \in HoldRows(t) : hold[r] = "open"
      BY <2>3 DEF HoldRows, Reclaimable
    <3> QED BY <1>5, <1>7, <2>3, <3>1 DEF HasRows
  <2> QED BY <1>2, <2>1, <2>2, <2>3, TxFacts
<1>9. KeysUnique'
  BY <1>4, KeysStayUnique DEF RowInv
<1>10. expired' \in [Requests -> BOOLEAN]
  BY <1>1 DEF RowInv, RowTypes
<1> QED BY <1>1, <1>4, <1>6, <1>8, <1>9, <1>10, QuietKeeps

\* A transaction that ends has nothing in flight and no hold row.
LEMMA EndedTx ==
  ASSUME LockInv, RowInv, NEW t \in Txs, NEW outcome \in {"committed", "rolledback"}, Ends(t, outcome)
  PROVE  /\ Others(t) /\ at'[t] = outcome /\ ~ Inserted(t)' /\ Locked(t)' = {}
         /\ HasRows(t)' /\ KeysUnique' /\ expired' = expired
<1>1. /\ at' = [at EXCEPT ![t] = outcome] /\ inFlight' = [inFlight EXCEPT ![t] = {}]
      /\ holder' = [r \in Requests |-> IF holder[r] = t THEN None ELSE holder[r]]
      /\ expired' = expired
  BY DEF Ends, Reaches
<1>2. LockTypes
  BY DEF LockInv
<1>3. \A u \in Txs : u # None
  BY TransactionsAssumption
<1>4. \A r \in Requests : \A u \in Txs : holder'[r] = u <=> holder[r] = u /\ u # t
  BY <1>1, <1>3
<1>5. Others(t) /\ at'[t] = outcome /\ ~ Inserted(t)' /\ Locked(t)' = {}
  BY <1>1, <1>2, <1>4 DEF Others, LockTypes, Inserted, Locked
<1>6. HasRows(t)'
  BY <1>5 DEF HasRows
<1>7. KeysUnique'
  BY <1>5, KeysStayUnique DEF RowInv
<1> QED BY <1>1, <1>5, <1>6, <1>7

LEMMA RollbackKeepsRows ==
  ASSUME LockInv, RowInv, NEW t \in Txs, Rollback(t)
  PROVE  RowInv'
<1>1. Ends(t, "rolledback") /\ UNCHANGED tables /\ at[t] \notin {"idle", "committed", "rolledback"}
  BY DEF Rollback, Active
<1>2. /\ Others(t) /\ at'[t] = "rolledback" /\ ~ Inserted(t)' /\ HasRows(t)' /\ KeysUnique'
      /\ expired' = expired
  BY <1>1, EndedTx
<1>3. KnowsRows(t) /\ UNCHANGED hold
  BY <1>1 DEF RowInv, tables
<1>4. KnowsRows(t)'
  BY <1>1, <1>2, <1>3 DEF KnowsRows
<1>5. expired' \in [Requests -> BOOLEAN]
  BY <1>2 DEF RowInv, RowTypes
<1> QED BY <1>1, <1>2, <1>4, <1>5, QuietKeeps

(***************************************************************************)
(* The commits.                                                               *)
(***************************************************************************)

\* A commit that adds no usage row, and undoes no hold another transaction is
\* about to settle or to place.
LEMMA OthersKeepRows ==
  ASSUME LockInv, RowInv, NEW t \in Txs, Others(t), NEW u \in Txs \ {t},
         u.of \in Requests /\ hold[u.of] = "none" /\ u.kind = "place" => hold'[u.of] = "none",
         u.of \in Requests /\ hold[u.of] # "none" => hold'[u.of] # "none",
         u.kind = "record" /\ usageRow[u.of] # 0 => usageRow'[u.of] # 0,
         Inserted(u) => LedgerRow(u)' = LedgerRow(u),
         \A r \in Locked(u) : hold[r] = "open" => hold'[r] = "open"
  PROVE  KnowsRows(u)' /\ HasRows(u)'
<1>1. KnowsRows(u) /\ HasRows(u)
  BY DEF RowInv
<1>2. /\ at'[u] = at[u] /\ (Inserted(u)' <=> Inserted(u)) /\ Locked(u)' = Locked(u)
      /\ \A r \in Requests : holder'[r] = u <=> holder[r] = u
  BY OthersSame
<1>3. u.kind \in {"place", "record", "release"} => u.of \in Requests
  BY TxFacts
<1>4. KnowsRows(u)'
  BY <1>1, <1>2, <1>3 DEF KnowsRows
<1>5. HasRows(u)'
  BY <1>1, <1>2, <1>3 DEF HasRows
<1> QED BY <1>4, <1>5

LEMMA PlaceKeepsRows ==
  ASSUME LockInv, RowInv, NEW t \in Txs, CommitPlace(t)
  PROVE  RowInv'
<1> DEFINE o == OrgOf[t.of]
           available == remaining[o] + Sum(Locked(t))
<1>1. /\ t.kind = "place" /\ at[t] = "settling" /\ Ends(t, "committed")
      /\ remaining' = [remaining EXCEPT ![o] = available - t.amount]
      /\ hold' = [r \in Requests |-> IF r = t.of THEN "open"
                                     ELSE IF r \in Locked(t) THEN "settled" ELSE hold[r]]
      /\ frozen' = [frozen EXCEPT ![t.of] = t.amount]
      /\ UNCHANGED <<used, grantRow, usageRow, logged>>
  BY DEF CommitPlace
<1>2. /\ Others(t) /\ at'[t] = "committed" /\ ~ Inserted(t)' /\ HasRows(t)' /\ KeysUnique'
      /\ expired' = expired
  BY <1>1, EndedTx
<1>3. /\ t.of \in Requests /\ t.of \notin Legacy /\ o \in Orgs /\ t.amount \in Nat
      /\ \A u \in Txs \ {t} : u.kind = "place" => u.of # t.of
  BY <1>1, TxFacts
<1>4. /\ RowTypes /\ UsedIsLedger /\ KnowsRows(t) /\ HasRows(t)
      /\ \A r \in Requests : ChargedRow(r)
  BY DEF RowInv
<1>5. hold[t.of] = "none" /\ \A r \in Locked(t) : r \in Requests /\ hold[r] = "open"
  BY <1>1, <1>4 DEF KnowsRows, HasRows, Locked
<1>6. available \in Int
  BY <1>3, <1>4, SumsType DEF RowTypes
<1> HIDE DEF o, available
<1>7. RowTypes'
  <2>1. hold' \in [Requests -> {"none", "open", "settled"}]
    BY <1>1, <1>4 DEF RowTypes
  <2> QED BY <1>1, <1>2, <1>3, <1>4, <1>6, <2>1 DEF RowTypes
<1>8. UsedIsLedger'
  BY <1>1, <1>4 DEF UsedIsLedger, UsageTotal
<1>9. ASSUME NEW r \in Requests PROVE ChargedRow(r)'
  <2>1. ChargedRow(r) /\ usageRow'[r] = usageRow[r]
    BY <1>1, <1>4
  <2> QED BY <1>1, <1>3, <1>5, <2>1 DEF ChargedRow
<1>10. KnowsRows(t)'
  BY <1>1, <1>2 DEF KnowsRows
<1>11. ASSUME NEW u \in Txs \ {t} PROVE KnowsRows(u)' /\ HasRows(u)'
  <2>1. u.of \in Requests /\ hold[u.of] = "none" /\ u.kind = "place" => hold'[u.of] = "none"
    BY <1>1, <1>3, <1>5
  <2>2. u.of \in Requests /\ hold[u.of] # "none" => hold'[u.of] # "none"
    BY <1>1
  <2>3. LedgerRow(u)' = LedgerRow(u) /\ usageRow' = usageRow
    BY <1>1 DEF LedgerRow
  <2>4. \A r \in Locked(u) : hold[r] = "open" => hold'[r] = "open"
    BY <1>1, <1>5 DEF Locked
  <2> QED BY <1>2, <2>1, <2>2, <2>3, <2>4, OthersKeepRows
<1> QED BY <1>2, <1>7, <1>8, <1>9, <1>10, <1>11 DEF RowInv

\* What is booked is the ledger row that goes in with it: an open hold of a
\* recorded request means that nobody has charged it before.
LEMMA SettleBooks ==
  ASSUME RowInv, NEW t \in Txs, t.kind \in {"release", "record"}, at[t] = "settling"
  PROVE  Booked(t) = IF Inserted(t) THEN t.amount ELSE 0
<1>1. /\ t.of \in Requests /\ t.amount \in Nat /\ KnowsRows(t) /\ ChargedRow(t.of)
  BY TxFacts DEF RowInv
<1>2. CASE t.kind = "release"
  BY <1>1, <1>2 DEF KnowsRows, Booked, Actual
<1>3. CASE t.kind = "record"
  <2>1. Open(t) /\ ~ Inserted(t) => t.amount = 0
    BY <1>1, <1>3 DEF KnowsRows, ChargedRow, Open
  <2> QED BY <1>3, <2>1 DEF Booked, Actual
<1> QED BY <1>2, <1>3

LEMMA SettleKeepsRows ==
  ASSUME LockInv, RowInv, NEW t \in Txs, CommitSettle(t)
  PROVE  RowInv'
<1> DEFINE o == OrgOf[t.of]
<1>1. /\ t.kind \in {"release", "record"} /\ at[t] = "settling" /\ Ends(t, "committed")
      /\ hold' = [hold EXCEPT ![t.of] = IF Open(t) THEN "settled" ELSE @]
      /\ remaining' = [remaining EXCEPT ![o] = @ + Returned(t) - Booked(t)]
      /\ used' = [used EXCEPT ![o] = @ + Booked(t)]
      /\ logged' = [logged EXCEPT ![t.of] = @ \/ t.kind = "record"]
      /\ usageRow' = [usageRow EXCEPT ![t.of] = IF Inserted(t) THEN t.amount ELSE @]
      /\ UNCHANGED <<grantRow, frozen>>
  BY DEF CommitSettle
<1>2. /\ Others(t) /\ at'[t] = "committed" /\ ~ Inserted(t)' /\ HasRows(t)' /\ KeysUnique'
      /\ expired' = expired
  BY <1>1, EndedTx
<1>3. t.of \in Requests /\ o \in Orgs /\ t.amount \in Nat
  BY <1>1, TxFacts
<1>4. /\ RowTypes /\ UsedIsLedger /\ KnowsRows(t) /\ HasRows(t) /\ KeysUnique
      /\ \A r \in Requests : ChargedRow(r)
  BY DEF RowInv
<1>5. Inserted(t) => t.kind = "record" /\ t.amount > 0 /\ usageRow[t.of] = 0
  BY <1>1, <1>4 DEF KnowsRows, LedgerRow
<1>6. Booked(t) = (IF Inserted(t) THEN t.amount ELSE 0)
  BY <1>1, <1>3, <1>4, <1>5, SettleBooks
<1>7. Booked(t) \in Nat /\ Returned(t) \in Nat
  BY <1>3, <1>4, <1>6 DEF Returned, RowTypes
<1> HIDE DEF o
<1>8. RowTypes'
  <2>1. hold' \in [Requests -> {"none", "open", "settled"}] /\ usageRow' \in [Requests -> Nat]
        /\ logged' \in [Requests -> BOOLEAN]
    BY <1>1, <1>3, <1>4 DEF RowTypes
  <2>2. remaining' \in [Orgs -> Int] /\ used' \in [Orgs -> Nat]
    BY <1>1, <1>3, <1>4, <1>7 DEF RowTypes
  <2> QED BY <1>1, <1>2, <1>4, <2>1, <2>2 DEF RowTypes
<1>9. UsedIsLedger'
  <2> SUFFICES ASSUME NEW p \in Orgs PROVE used'[p] = UsageTotal(p)'
    BY DEF UsedIsLedger
  <2>1. used[p] = UsageTotal(p) /\ UsageTotal(p) \in Nat
    BY <1>4, SumsType DEF UsedIsLedger
  <2>2. used'[p] = used[p] + (IF p = o THEN Booked(t) ELSE 0)
    BY <1>1, <1>3, <1>4, <1>7 DEF RowTypes
  <2>3. CASE Inserted(t)
    <3>1. /\ usageRow[t.of] = 0 /\ usageRow'[t.of] = Booked(t)
          /\ \A q \in Requests \ {t.of} : usageRow'[q] = usageRow[q]
      BY <1>1, <1>3, <1>4, <1>5, <1>6, <2>3 DEF RowTypes
    <3>2. UsageTotal(p)' = UsageTotal(p) + (IF p = OrgOf[t.of] THEN usageRow'[t.of] ELSE 0)
      BY <1>3, <1>4, <1>8, <3>1, UsageAfterRow
    <3> QED BY <2>1, <2>2, <3>1, <3>2 DEF o
  <2>4. CASE ~ Inserted(t)
    <3>1. usageRow' = usageRow
      BY <1>1, <1>3, <1>4, <2>4 DEF RowTypes
    <3>2. UsageTotal(p)' = UsageTotal(p)
      BY <3>1 DEF UsageTotal
    <3> QED BY <1>6, <2>1, <2>2, <2>4, <3>2
  <2> QED BY <2>3, <2>4
<1>10. ASSUME NEW r \in Requests PROVE ChargedRow(r)'
  <2>1. ChargedRow(r)
    BY <1>4
  <2>2. CASE r # t.of
    BY <1>1, <1>3, <1>4, <2>1, <2>2 DEF ChargedRow, RowTypes
  <2>3. CASE r = t.of
    <3>1. hold'[r] = (IF hold[r] = "open" THEN "settled" ELSE hold[r])
      BY <1>1, <1>3, <1>4, <2>3 DEF RowTypes, Open
    <3>2. r \in Legacy => hold'[r] = "none"
      BY <2>1, <3>1 DEF ChargedRow
    <3>3. ASSUME usageRow'[r] # 0, r \notin Legacy PROVE hold'[r] = "settled"
      <4>1. CASE usageRow[r] # 0
        BY <2>1, <3>1, <3>3, <4>1 DEF ChargedRow
      <4>2. CASE usageRow[r] = 0
        <5>1. Inserted(t)
          BY <1>1, <1>3, <1>4, <2>3, <3>3, <4>2 DEF RowTypes
        <5>2. hold[r] # "none"
          BY <1>1, <1>4, <1>5, <2>3, <3>3, <5>1 DEF KnowsRows
        <5> QED BY <1>4, <3>1, <5>2 DEF RowTypes
      <4> QED BY <4>1, <4>2
    <3> QED BY <3>2, <3>3 DEF ChargedRow
  <2> QED BY <2>2, <2>3
<1>11. /\ \A r \in Requests : hold'[r] = (IF r = t.of /\ hold[r] = "open" THEN "settled" ELSE hold[r])
       /\ \A r \in Requests : usageRow'[r] = (IF r = t.of /\ Inserted(t) THEN t.amount ELSE usageRow[r])
  BY <1>1, <1>3, <1>4 DEF RowTypes, Open
<1>12. KnowsRows(t)'
  <2>1. t.kind = "record" => hold[t.of] # "none" \/ t.of \in Legacy
    BY <1>1, <1>4 DEF KnowsRows
  <2> QED BY <1>1, <1>2, <1>3, <1>11, <2>1 DEF KnowsRows
<1>13. ASSUME NEW u \in Txs \ {t} PROVE KnowsRows(u)' /\ HasRows(u)'
  <2>1. u.of \in Requests /\ hold[u.of] = "none" /\ u.kind = "place" => hold'[u.of] = "none"
    BY <1>11
  <2>2. u.of \in Requests /\ hold[u.of] # "none" => hold'[u.of] # "none"
    BY <1>11
  <2>3. u.kind = "record" /\ usageRow[u.of] # 0 => usageRow'[u.of] # 0
    BY <1>5, <1>11, TxFacts
  <2>4. Inserted(u) => LedgerRow(u)' = LedgerRow(u)
    <3> SUFFICES ASSUME Inserted(u) PROVE LedgerRow(u)' = LedgerRow(u)
      OBVIOUS
    <3>1. u.kind \in {"record", "grant"}
      BY DEF RowInv, KnowsRows
    <3>2. CASE u.kind = "grant"
      BY <1>1, <3>2 DEF LedgerRow
    <3>3. CASE u.kind = "record"
      <4>1. u.of \in Requests
        BY <3>3, TxFacts
      <4>2. ~ (u.of = t.of /\ Inserted(t))
        BY <1>1, <1>4, <1>5, <3>3 DEF KeysUnique, LedgerKey
      <4> QED BY <1>11, <3>3, <4>1, <4>2 DEF LedgerRow
    <3> QED BY <3>1, <3>2, <3>3
  <2>5. \A r \in Locked(u) : hold[r] = "open" => hold'[r] = "open"
    <3> SUFFICES ASSUME NEW r \in Locked(u), hold[r] = "open" PROVE hold'[r] = "open"
      OBVIOUS
    <3>1. r \in Requests /\ holder[r] = u
      BY DEF Locked
    <3>2. r # t.of
      BY <1>1, <1>4, <3>1 DEF HasRows, ChargedRow
    <3> QED BY <1>11, <3>1, <3>2
  <2> QED BY <1>2, <2>1, <2>2, <2>3, <2>4, <2>5, OthersKeepRows
<1> QED BY <1>2, <1>8, <1>9, <1>10, <1>12, <1>13 DEF RowInv

LEMMA GrantKeepsRows ==
  ASSUME LockInv, RowInv, NEW t \in Txs, CommitGrant(t)
  PROVE  RowInv'
<1> DEFINE amount == IF Inserted(t) THEN t.amount ELSE 0
<1>1. /\ t.kind = "grant" /\ at[t] = "settling" /\ Ends(t, "committed")
      /\ grantRow' = [grantRow EXCEPT ![t.of] = @ + amount]
      /\ remaining' = [remaining EXCEPT ![GrantOrg[t.of]] = @ + amount]
      /\ UNCHANGED <<used, usageRow, logged, hold, frozen>>
  BY DEF CommitGrant
<1>2. /\ Others(t) /\ at'[t] = "committed" /\ ~ Inserted(t)' /\ HasRows(t)' /\ KeysUnique'
      /\ expired' = expired
  BY <1>1, EndedTx
<1>3. t.of \in Grants /\ GrantOrg[t.of] \in Orgs /\ t.amount \in Nat /\ amount \in Nat
  BY <1>1, TxFacts
<1>4. /\ RowTypes /\ UsedIsLedger /\ KeysUnique /\ \A r \in Requests : ChargedRow(r)
  BY DEF RowInv
<1>5. ~ Inserted(t) => amount = 0
  OBVIOUS
<1> HIDE DEF amount
<1>6. RowTypes'
  BY <1>1, <1>2, <1>3, <1>4 DEF RowTypes
<1>7. UsedIsLedger'
  BY <1>1, <1>4 DEF UsedIsLedger, UsageTotal
<1>8. \A r \in Requests : ChargedRow(r)'
  BY <1>1, <1>4 DEF ChargedRow
<1>9. KnowsRows(t)'
  BY <1>1, <1>2 DEF KnowsRows
<1>10. ASSUME NEW u \in Txs \ {t} PROVE KnowsRows(u)' /\ HasRows(u)'
  <2>1. Inserted(u) => LedgerRow(u)' = LedgerRow(u)
    <3> SUFFICES ASSUME Inserted(u) PROVE LedgerRow(u)' = LedgerRow(u)
      OBVIOUS
    <3>1. CASE u.kind # "grant"
      BY <1>1, <3>1 DEF LedgerRow
    <3>2. CASE u.kind = "grant"
      <4>1. u.of \in Grants
        BY <3>2, TxFacts
      <4>2. ~ (u.of = t.of /\ Inserted(t))
        BY <1>1, <1>4, <3>2 DEF KeysUnique, LedgerKey
      <4>3. grantRow'[u.of] = grantRow[u.of]
        BY <1>1, <1>3, <1>4, <1>5, <4>1, <4>2 DEF RowTypes
      <4> QED BY <3>2, <4>3 DEF LedgerRow
    <3> QED BY <3>1, <3>2
  <2>2. hold' = hold /\ usageRow' = usageRow
    BY <1>1
  <2> QED BY <1>2, <2>1, <2>2, OthersKeepRows
<1> QED BY <1>2, <1>6, <1>7, <1>8, <1>9, <1>10 DEF RowInv

LEMMA SweepKeepsRows ==
  ASSUME LockInv, RowInv, NEW t \in Txs, CommitSweep(t)
  PROVE  RowInv'
<1>1. /\ t.kind = "sweep" /\ at[t] = "settling" /\ Ends(t, "committed")
      /\ hold' = [r \in Requests |-> IF r \in Locked(t) THEN "settled" ELSE hold[r]]
      /\ remaining' = [o \in Orgs |-> remaining[o] + Sum({r \in Locked(t) : OrgOf[r] = o})]
      /\ UNCHANGED <<used, grantRow, usageRow, logged, frozen>>
  BY DEF CommitSweep
<1>2. /\ Others(t) /\ at'[t] = "committed" /\ ~ Inserted(t)' /\ HasRows(t)' /\ KeysUnique'
      /\ expired' = expired
  BY <1>1, EndedTx
<1>3. /\ RowTypes /\ UsedIsLedger /\ HasRows(t) /\ \A r \in Requests : ChargedRow(r)
  BY DEF RowInv
<1>4. \A r \in Locked(t) : hold[r] = "open"
  BY <1>1, <1>3 DEF HasRows
<1>5. RowTypes'
  <2>1. \A o \in Orgs : Sum({r \in Locked(t) : OrgOf[r] = o}) \in Nat
    BY <1>3, SumsType
  <2>2. remaining' \in [Orgs -> Int]
    BY <1>1, <1>3, <2>1 DEF RowTypes
  <2>3. hold' \in [Requests -> {"none", "open", "settled"}]
    BY <1>1, <1>3 DEF RowTypes
  <2> QED BY <1>1, <1>2, <1>3, <2>2, <2>3 DEF RowTypes
<1>6. UsedIsLedger'
  BY <1>1, <1>3 DEF UsedIsLedger, UsageTotal
<1>7. ASSUME NEW r \in Requests PROVE ChargedRow(r)'
  <2>1. ChargedRow(r) /\ usageRow'[r] = usageRow[r]
    BY <1>1, <1>3
  <2> QED BY <1>1, <1>4, <2>1 DEF ChargedRow
<1>8. KnowsRows(t)'
  BY <1>1, <1>2 DEF KnowsRows
<1>9. ASSUME NEW u \in Txs \ {t} PROVE KnowsRows(u)' /\ HasRows(u)'
  <2>1. \A r \in Requests : hold[r] = "none" <=> hold'[r] = "none"
    BY <1>1, <1>4
  <2>2. LedgerRow(u)' = LedgerRow(u) /\ usageRow' = usageRow
    BY <1>1 DEF LedgerRow
  <2>3. \A r \in Locked(u) : hold[r] = "open" => hold'[r] = "open"
    BY <1>1 DEF Locked
  <2> QED BY <1>2, <2>1, <2>2, <2>3, OthersKeepRows
<1> QED BY <1>2, <1>5, <1>6, <1>7, <1>8, <1>9 DEF RowInv

LEMMA RowNext == LockInv /\ LockInv' /\ RowInv /\ [Next]_vars => RowInv'
<1> SUFFICES ASSUME LockInv, LockInv', RowInv, [Next]_vars PROVE RowInv'
  OBVIOUS
<1>1. ASSUME NEW t \in Txs, Statement(t) PROVE RowInv'
  BY <1>1, RequestKeepsRows, LedgerKeepsRows, LockOrgKeepsRows, LockSweepKeepsRows,
     LockHoldsKeepsRows, PlaceKeepsRows, SettleKeepsRows, GrantKeepsRows, SweepKeepsRows
  DEF Statement
<1>2. CASE BreakDeadlock
  BY <1>2, RollbackKeepsRows DEF BreakDeadlock
<1>3. ASSUME UNCHANGED <<tables, at, locks>>, expired' \in [Requests -> BOOLEAN] PROVE RowInv'
  <2>1. /\ UNCHANGED <<remaining, used, grantRow, usageRow, logged, hold, frozen>>
        /\ UNCHANGED <<at, inFlight, lock, holder>>
    BY <1>3 DEF tables, locks
  <2>2. UsedIsLedger'
    BY <2>1 DEF RowInv, UsedIsLedger, UsageTotal
  <2> QED
    BY <1>3, <2>1, <2>2
    DEF RowInv, RowTypes, KnowsRows, HasRows, ChargedRow, KeysUnique, Inserted, LedgerRow,
        LedgerKey, Locked
<1>4. ASSUME NEW r \in Requests, Expire(r) PROVE RowInv'
  BY <1>3, <1>4 DEF Expire, RowInv, RowTypes
<1>5. CASE UNCHANGED vars
  BY <1>3, <1>5 DEF vars, RowInv, RowTypes
<1> QED BY <1>1, <1>2, <1>4, <1>5, RollbackKeepsRows DEF Next

\* The locks and the rows of every transaction are in order: the inductive invariant
\* behind the three theorems below.
THEOREM RowsInvariant == Spec => [](LockInv /\ RowInv)
<1>1. Init => LockInv /\ RowInv
  BY LockInit, RowInit
<1>2. (LockInv /\ RowInv) /\ [Next]_vars => (LockInv /\ RowInv)'
  BY LockNext, RowNext
<1> QED BY <1>1, <1>2, PTL DEF Spec

\* Every variable keeps its type, the spend of an organization never being negative.
THEOREM TypeCorrect == Spec => []TypeOK
<1>1. LockInv /\ RowInv => TypeOK
  BY DEF LockInv, LockTypes, RowInv, RowTypes, TypeOK
<1> QED BY <1>1, RowsInvariant, PTL

\* However the statements of deliveries, sweeps and releases interleave, what an
\* organization has used is the sum of its usage rows.
THEOREM UsageIsLedger == Spec => []UsedIsLedger
<1>1. LockInv /\ RowInv => UsedIsLedger
  BY DEF RowInv
<1> QED BY <1>1, RowsInvariant, PTL

(***************************************************************************)
(* The transactions implement the account of CreditAccount: a commit is a     *)
(* grant, a charge or nothing to it, and no other statement is visible.       *)
(***************************************************************************)
Credit(o) == remaining[o] + OpenTotal(o)

\* A step that leaves what every organization owns, and its ledger, as they are.
LEMMA AccountStutters ==
  ASSUME UNCHANGED <<grantRow, usageRow>>, \A o \in Orgs : Credit(o)' = Credit(o)
  PROVE  UNCHANGED Account!vars
BY DEF Credit, Account!vars

LEMMA QuietForAccount ==
  ASSUME UNCHANGED tables
  PROVE  UNCHANGED Account!vars
<1>1. UNCHANGED <<remaining, grantRow, usageRow, hold, frozen>>
  BY DEF tables
<1>2. \A o \in Orgs : Credit(o)' = Credit(o)
  BY <1>1 DEF Credit, OpenTotal, Sum
<1> QED BY <1>1, <1>2, AccountStutters

LEMMA PlaceForAccount ==
  ASSUME RowInv, RowInv', NEW t \in Txs, CommitPlace(t)
  PROVE  UNCHANGED Account!vars
<1> DEFINE S == Locked(t)
           org == OrgOf[t.of]
           available == remaining[org] + Sum(S)
<1>1. /\ t.kind = "place" /\ at[t] = "settling"
      /\ remaining' = [remaining EXCEPT ![org] = available - t.amount]
      /\ hold' = [r \in Requests |-> IF r = t.of THEN "open" ELSE IF r \in S THEN "settled" ELSE hold[r]]
      /\ frozen' = [frozen EXCEPT ![t.of] = t.amount]
      /\ UNCHANGED <<grantRow, usageRow>>
  BY DEF CommitPlace
<1>2. t.of \in Requests /\ org \in Orgs /\ t.amount \in Nat
  BY <1>1, TxFacts
<1>3. RowTypes /\ RowTypes' /\ KnowsRows(t) /\ HasRows(t)
  BY DEF RowInv
<1>4. /\ S \in SUBSET Requests /\ hold[t.of] = "none"
      /\ \A q \in S : hold[q] = "open" /\ OrgOf[q] = OrgOf[t.of]
  BY <1>1, <1>3 DEF KnowsRows, HasRows, Locked
<1> HIDE DEF S
<1>5. /\ frozen'[t.of] = t.amount /\ \A q \in Requests \ {t.of} : frozen'[q] = frozen[q]
      /\ \A q \in Requests :
           hold'[q] = IF q = t.of THEN "open" ELSE IF q \in S THEN "settled" ELSE hold[q]
  BY <1>1, <1>2, <1>3 DEF RowTypes
<1>6. \A o \in Orgs :
        OpenTotal(o)' = OpenTotal(o) + (IF o = OrgOf[t.of] THEN frozen'[t.of] - Sum(S) ELSE 0)
  BY <1>2, <1>3, <1>4, <1>5, OpenAfterPlace
<1>7. \A o \in Orgs : Credit(o)' = Credit(o)
  <2> SUFFICES ASSUME NEW o \in Orgs PROVE Credit(o)' = Credit(o)
    OBVIOUS
  <2>1. remaining'[o] = remaining[o] + (IF o = org THEN Sum(S) - t.amount ELSE 0)
    <3>1. Sum(S) \in Nat /\ remaining \in [Orgs -> Int]
      BY <1>3, SumsType DEF RowTypes
    <3> QED BY <1>1, <1>2, <3>1
  <2>2. Sum(S) \in Nat /\ OpenTotal(o) \in Nat /\ remaining[o] \in Int
    BY <1>3, SumsType DEF RowTypes
  <2> QED BY <1>2, <1>5, <1>6, <2>1, <2>2 DEF Credit
<1> QED BY <1>1, <1>7, AccountStutters

LEMMA SweepForAccount ==
  ASSUME RowInv, RowInv', NEW t \in Txs, CommitSweep(t)
  PROVE  UNCHANGED Account!vars
<1> DEFINE S == Locked(t)
<1>1. /\ t.kind = "sweep"
      /\ hold' = [r \in Requests |-> IF r \in S THEN "settled" ELSE hold[r]]
      /\ remaining' = [o \in Orgs |-> remaining[o] + Sum({r \in S : OrgOf[r] = o})]
      /\ UNCHANGED <<grantRow, usageRow, frozen>>
  BY DEF CommitSweep
<1>2. /\ RowTypes /\ RowTypes' /\ S \in SUBSET Requests /\ \A r \in S : hold[r] = "open"
  BY <1>1 DEF RowInv, HasRows, Locked
<1> HIDE DEF S
<1>3. \A o \in Orgs : Credit(o)' = Credit(o)
  <2> SUFFICES ASSUME NEW o \in Orgs PROVE Credit(o)' = Credit(o)
    OBVIOUS
  <2>1. \A r \in RowsOf(o) : /\ hold'[r] = IF r \in S THEN "settled" ELSE hold[r]
                             /\ hold'[r] = "open" => frozen'[r] = frozen[r]
    BY <1>1 DEF RowsOf
  <2>2. OpenTotal(o)' = OpenTotal(o) - Sum({r \in S : OrgOf[r] = o})
    BY <1>2, <2>1, OpenAfterReclaim
  <2>3. remaining'[o] = remaining[o] + Sum({r \in S : OrgOf[r] = o})
    BY <1>1
  <2>4. Sum({r \in S : OrgOf[r] = o}) \in Nat /\ OpenTotal(o) \in Nat /\ remaining[o] \in Int
    BY <1>2, SumsType DEF RowTypes
  <2> QED BY <2>2, <2>3, <2>4 DEF Credit
<1> QED BY <1>1, <1>3, AccountStutters

\* A transaction that inserted its ledger row charges or grants it; the others
\* move credit between what is spendable and what is frozen at most.
LEMMA SettleMovesCredit ==
  ASSUME RowInv, RowInv', NEW t \in Txs, CommitSettle(t)
  PROVE  \A o \in Orgs : Credit(o)' = Credit(o) - (IF o = OrgOf[t.of] THEN Booked(t) ELSE 0)
<1> DEFINE org == OrgOf[t.of]
<1>1. /\ t.kind \in {"release", "record"} /\ at[t] = "settling"
      /\ hold' = [hold EXCEPT ![t.of] = IF Open(t) THEN "settled" ELSE @]
      /\ remaining' = [remaining EXCEPT ![org] = @ + Returned(t) - Booked(t)]
      /\ frozen' = frozen
  BY DEF CommitSettle
<1>2. t.of \in Requests /\ org \in Orgs /\ t.amount \in Nat /\ RowTypes /\ RowTypes'
  BY <1>1, TxFacts DEF RowInv
<1>3. Booked(t) \in Nat /\ Returned(t) \in Nat
  BY <1>1, <1>2, SettleBooks DEF Returned, RowTypes
<1>4. \A q \in Requests : hold'[q] = IF q = t.of /\ hold[q] = "open" THEN "settled" ELSE hold[q]
  BY <1>1, <1>2 DEF RowTypes, Open
<1>5. \A o \in Orgs : OpenTotal(o)' = OpenTotal(o)
        - (IF o = OrgOf[t.of] /\ hold[t.of] = "open" THEN frozen[t.of] ELSE 0)
  BY <1>1, <1>2, <1>4, OpenAfterSettle
<1>6. Returned(t) = IF hold[t.of] = "open" THEN frozen[t.of] ELSE 0
  BY DEF Returned, Open
<1> SUFFICES ASSUME NEW o \in Orgs
             PROVE  Credit(o)' = Credit(o) - (IF o = OrgOf[t.of] THEN Booked(t) ELSE 0)
  OBVIOUS
<1>7. remaining'[o] = remaining[o] + (IF o = org THEN Returned(t) - Booked(t) ELSE 0)
      /\ remaining[o] \in Int
  BY <1>1, <1>2, <1>3 DEF RowTypes
<1>8. OpenTotal(o) \in Nat /\ frozen[t.of] \in Nat
  BY <1>2, SumsType DEF RowTypes
<1> QED BY <1>3, <1>5, <1>6, <1>7, <1>8 DEF Credit

LEMMA SettleForAccount ==
  ASSUME RowInv, RowInv', NEW t \in Txs, CommitSettle(t)
  PROVE  [Account!Next]_(Account!vars)
<1>1. /\ t.kind \in {"release", "record"} /\ at[t] = "settling" /\ grantRow' = grantRow
      /\ usageRow' = [usageRow EXCEPT ![t.of] = IF Inserted(t) THEN t.amount ELSE @]
  BY DEF CommitSettle
<1>2. t.of \in Requests /\ t.amount \in Nat /\ RowTypes /\ KnowsRows(t) /\ OrgOf[t.of] \in Orgs
  BY <1>1, TxFacts DEF RowInv
<1>3. Booked(t) = IF Inserted(t) THEN t.amount ELSE 0
  BY <1>1, SettleBooks
<1>4. \A o \in Orgs : Credit(o) \in Int
  <2> SUFFICES ASSUME NEW o \in Orgs PROVE Credit(o) \in Int
    OBVIOUS
  <2>1. OpenTotal(o) \in Nat /\ remaining[o] \in Int
    BY <1>2, SumsType DEF RowTypes
  <2> QED BY <2>1 DEF Credit
<1>5. CASE Inserted(t)
  <2>1. t.kind = "record" /\ t.amount > 0 /\ usageRow[t.of] = 0
    BY <1>1, <1>2, <1>5 DEF KnowsRows, LedgerRow
  <2>2. t.amount \in {u.amount : u \in {v \in Txs : v.kind = "record"}} \ {0}
    BY <1>2, <2>1
  <2>3. usageRow' = [usageRow EXCEPT ![t.of] = t.amount]
    BY <1>1, <1>5
  <2>4. [o \in Orgs |-> Credit(o)']
        = [[o \in Orgs |-> Credit(o)] EXCEPT ![OrgOf[t.of]] = @ - t.amount]
    BY <1>2, <1>3, <1>4, <1>5, SettleMovesCredit
  <2>5. Account!Charge(t.of, t.amount)
    BY <1>1, <2>1, <2>3, <2>4 DEF Account!Charge, Credit
  <2> QED BY <1>2, <2>2, <2>5 DEF Account!Next
<1>6. CASE ~ Inserted(t)
  <2>1. \A o \in Orgs : Credit(o)' = Credit(o)
    BY <1>3, <1>4, <1>6, SettleMovesCredit
  <2>2. usageRow' = usageRow
    BY <1>1, <1>2, <1>6 DEF RowTypes
  <2> QED BY <1>1, <2>1, <2>2, AccountStutters
<1> QED BY <1>5, <1>6

LEMMA GrantForAccount ==
  ASSUME RowInv, RowInv', NEW t \in Txs, CommitGrant(t)
  PROVE  [Account!Next]_(Account!vars)
<1> DEFINE amount == IF Inserted(t) THEN t.amount ELSE 0
<1>1. /\ t.kind = "grant" /\ at[t] = "settling"
      /\ grantRow' = [grantRow EXCEPT ![t.of] = @ + amount]
      /\ remaining' = [remaining EXCEPT ![GrantOrg[t.of]] = @ + amount]
      /\ UNCHANGED <<used, usageRow, logged, hold, frozen>>
  BY DEF CommitGrant
<1>2. /\ t.of \in Grants /\ GrantOrg[t.of] \in Orgs /\ t.amount \in Nat /\ amount \in Nat
      /\ RowTypes /\ KnowsRows(t)
  BY <1>1, TxFacts DEF RowInv
<1>3. amount = IF Inserted(t) THEN t.amount ELSE 0
  OBVIOUS
<1> HIDE DEF amount
<1>4. \A o \in Orgs : OpenTotal(o)' = OpenTotal(o)
  BY <1>1 DEF OpenTotal, Sum
<1>5. ASSUME NEW o \in Orgs
      PROVE  /\ Credit(o) \in Int
             /\ Credit(o)' = Credit(o) + (IF o = GrantOrg[t.of] THEN amount ELSE 0)
  <2>1. OpenTotal(o) \in Nat /\ remaining[o] \in Int
    BY <1>2, SumsType DEF RowTypes
  <2>2. remaining'[o] = remaining[o] + (IF o = GrantOrg[t.of] THEN amount ELSE 0)
    BY <1>1, <1>2 DEF RowTypes
  <2> QED BY <1>2, <1>4, <2>1, <2>2 DEF Credit
<1>6. CASE Inserted(t)
  <2>1. amount = t.amount /\ grantRow[t.of] = 0
    BY <1>1, <1>2, <1>3, <1>6 DEF KnowsRows, LedgerRow
  <2>2. grantRow' = [grantRow EXCEPT ![t.of] = t.amount]
    <3>1. grantRow[t.of] + amount = t.amount
      BY <1>2, <2>1
    <3> QED BY <1>1, <3>1
  <2>3. [o \in Orgs |-> Credit(o)']
        = [[o \in Orgs |-> Credit(o)] EXCEPT ![GrantOrg[t.of]] = @ + t.amount]
    BY <1>2, <1>5, <2>1
  <2>4. Account!Grant(t.of, t.amount)
    BY <1>1, <2>1, <2>2, <2>3 DEF Account!Grant, Credit
  <2>5. t.amount \in {u.amount : u \in {v \in Txs : v.kind = "grant"}}
    BY <1>1
  <2> QED BY <1>2, <2>4, <2>5 DEF Account!Next
<1>7. CASE ~ Inserted(t)
  <2>1. grantRow' = grantRow
    BY <1>1, <1>2, <1>3, <1>7 DEF RowTypes
  <2>2. \A o \in Orgs : Credit(o)' = Credit(o)
    BY <1>3, <1>5, <1>7
  <2> QED BY <1>1, <2>1, <2>2, AccountStutters
<1> QED BY <1>6, <1>7

\* Statement by statement, under the locks PostgreSQL takes for them, the wallet's
\* transactions implement the account that grants a key once and charges a request
\* once: no balance or hold is stale when it is written.
THEOREM TransactionsImplementAccount == Spec => ImplementsAccount
<1>1. Init => Account!Init
  <2> SUFFICES ASSUME Init PROVE Account!Init
    OBVIOUS
  <2>1. \A o \in Orgs : OpenTotal(o) = 0
    <3> SUFFICES ASSUME NEW o \in Orgs PROVE OpenTotal(o) = 0
      OBVIOUS
    <3>1. \A r \in Requests : r \in OpenRows(o) => frozen[r] = 0
      BY DEF Init
    <3> QED BY <3>1, NoTotal, SumsAreTotals
  <2> QED BY <2>1 DEF Init, Account!Init
<1>2. RowInv /\ RowInv' /\ [Next]_vars => [Account!Next]_(Account!vars)
  <2> SUFFICES ASSUME RowInv, RowInv', [Next]_vars PROVE [Account!Next]_(Account!vars)
    OBVIOUS
  <2>1. ASSUME NEW t \in Txs, Statement(t) PROVE [Account!Next]_(Account!vars)
    <3>1. CASE InsertRequest(t) \/ InsertLedger(t) \/ LockOrg(t) \/ LockSweep(t) \/ LockHolds(t)
      <4>1. UNCHANGED tables
        BY <3>1 DEF InsertRequest, InsertLedger, LockOrg, LockSweep, LockHolds
      <4> QED BY <4>1, QuietForAccount
    <3> QED
      BY <2>1, <3>1, PlaceForAccount, SweepForAccount, SettleForAccount, GrantForAccount
      DEF Statement
  <2>2. ASSUME NEW t \in Txs, Rollback(t) PROVE [Account!Next]_(Account!vars)
    BY <2>2, QuietForAccount DEF Rollback
  <2>3. CASE BreakDeadlock
    BY <2>2, <2>3 DEF BreakDeadlock
  <2>4. CASE (\E r \in Requests : Expire(r)) \/ UNCHANGED vars
    <3>1. UNCHANGED tables
      BY <2>4 DEF Expire, vars
    <3> QED BY <3>1, QuietForAccount
  <2> QED BY <2>1, <2>2, <2>3, <2>4 DEF Next
<1> QED BY <1>1, <1>2, RowsInvariant, PTL DEF Spec, ImplementsAccount, Account!Spec
=============================================================================
