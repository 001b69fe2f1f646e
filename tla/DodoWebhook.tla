---------------------------- MODULE DodoWebhook ----------------------------
(***************************************************************************)
(* One organization's checkouts, subscriptions, payments and refunds at the   *)
(* payment provider, and the webhook that turns the provider's events into    *)
(* credits, a plan, a mandate and invoices.  The provider delivers an event   *)
(* until it is answered 200: in any order, again after any failure, and while *)
(* other deliveries are being handled.  Every write, every call that changes  *)
(* something at the provider and every decision is a step of its own; the     *)
(* reads one decision is made from are one step.                              *)
(***************************************************************************)
EXTENDS MandateDecision, FiniteSets

CONSTANTS
  Subs, PlanOf,      \* subscriptions, and the plan each is sold for
  Payments, PaidAt,
  NoPay, NoInvoice, NoEvent,
  Events,            \* the events the provider may send
  Histories,         \* the sets of them that one history of the organization has
  Handlers,          \* deliveries handled at a time
  Legacy,            \* subscriptions that may have been granted under the old key
  MaxMonth,          \* bound on the calendar
  MaxFailures        \* bound on failed deliveries

SubscriptionTypes == {"active", "renewed", "plan_changed"}

\* names: the metadata of the payload identifies the organization and the plan.
\* first: sent when the subscription is bought, not by a later charge.
EventType ==
  [type : SubscriptionTypes \cup {"payment", "refund"}, sub : Subs \cup {NoSub},
   pay : Payments \cup {NoPay}, plan : Nat, names : BOOLEAN, first : BOOLEAN, partial : BOOLEAN]

OneTime(e) == e.type = "payment" /\ e.sub = NoSub

RefundStatus == {"", "partial", "full"}
Invoice == [plan : Nat, refund : RefundStatus, sub : Subs \cup {NoSub}]

ASSUME WebhookAssumption ==
  /\ PlanOf \in [Subs -> Nat \ {0}] /\ PaidAt \in [Payments -> Nat]
  /\ NoSub \notin Subs /\ NoPay \notin Payments /\ NoInvoice \notin Invoice
  /\ Events \subseteq EventType /\ NoEvent \notin Events
  /\ \A e \in Events : e.plan # NoPlan
  \* a payment is for one product, hence one plan
  /\ \A e, f \in Events : OneTime(e) /\ OneTime(f) /\ e.pay = f.pay => e.plan = f.plan
  /\ \A e \in Events : IF e.type \in SubscriptionTypes THEN e.sub # NoSub ELSE e.pay # NoPay
  /\ Histories \subseteq SUBSET Events /\ Legacy \subseteq Subs
  /\ MaxMonth \in Nat /\ MaxFailures \in Nat

VARIABLES
  month,
  history,      \* the events of this history
  checkout,     \* a subscription's checkout session
  live,         \* the mandates that go on charging
  sent,         \* the events the provider has sent
  outstanding,  \* the ones it will deliver (again)
  plan,         \* organizations.plan_slug
  stored,       \* organizations.dodo_subscription_id
  ledger,       \* grants in credit_ledger
  invoices,
  task,         \* what each handler is doing
  failures,
  upset         \* history: what happened that the decisions do not allow for

provider == <<month, history, checkout, live, sent>>
database == <<plan, stored, ledger, invoices>>
vars == <<provider, database, outstanding, task, failures, upset>>

Rest ==
  [pc |-> "idle", ev |-> NoEvent, plan |-> NoPlan, previous |-> NoPlan, period |-> 0,
   prior |-> NoSub, todo |-> {}, status |-> "", fetched |-> FALSE, failed |-> FALSE]

Busy(h) == task[h].pc # "idle"
Quiet == outstanding = {} /\ \A h \in Handlers : ~Busy(h)

Keys == {"legacy", "period", "payment"} \X (Subs \cup Payments) \X Nat \X Nat
Grants == [key : Keys, sub : Subs \cup {NoSub}, plan : Nat, month : Nat]
Places == {"idle", "deciding", "granting", "attaching", "persisting", "storing", "sweeping",
           "replacing", "cancelling", "invoicing", "refunding", "updating", "closing"}

TypeOK ==
  /\ month \in Nat /\ failures \in Nat
  /\ checkout \in [Subs -> {"none", "open", "paid"}]
  /\ live \in SUBSET Subs /\ history \in Histories
  /\ sent \in SUBSET Events /\ outstanding \in SUBSET sent
  /\ plan \in Nat /\ stored \in Subs \cup {NoSub}
  /\ ledger \in SUBSET Grants
  /\ invoices \in [Payments -> {NoInvoice} \cup Invoice]
  /\ task \in [Handlers ->
       [pc : Places, ev : Events \cup {NoEvent}, plan : Nat, previous : Nat, period : Nat,
        prior : Subs \cup {NoSub}, todo : SUBSET Subs, status : RefundStatus,
        fetched : BOOLEAN, failed : BOOLEAN]]
  /\ upset \in SUBSET {"overlap", "blind", "dead", "lag"}

\* A new organization, or one that bought s before grant keys named the plan.
LegacyGrant(s) == [key |-> LegacyKey(s, 0), sub |-> s, plan |-> PlanOf[s], month |-> 0]

Init ==
  /\ month = 0 /\ failures = 0 /\ upset = {} /\ history \in Histories
  /\ sent = {} /\ outstanding = {}
  /\ invoices = [p \in Payments |-> NoInvoice]
  /\ task = [h \in Handlers |-> Rest]
  /\ \/ /\ checkout = [s \in Subs |-> "none"]
        /\ live = {} /\ plan = NoPlan /\ stored = NoSub /\ ledger = {}
     \/ \E s \in Legacy :
          /\ checkout = [t \in Subs |-> IF t = s THEN "paid" ELSE "none"]
          /\ live = {s} /\ plan = PlanOf[s] /\ stored = s /\ ledger = {LegacyGrant(s)}

-----------------------------------------------------------------------------
(***************************************************************************)
(* The customer and the provider.                                             *)
(***************************************************************************)
NextMonth ==
  /\ month < MaxMonth
  /\ month' = month + 1
  /\ UNCHANGED <<history, checkout, live, sent, database, outstanding, task, failures, upset>>

\* CreateCheckout: planChangeError refuses the plan the organization has, and a lower one.
CreateCheckout(s) ==
  /\ checkout[s] = "none" /\ \E e \in history : e.sub = s /\ e.first
  /\ plan = NoPlan \/ PlanOf[s] > plan
  /\ checkout' = [checkout EXCEPT ![s] = "open"]
  /\ UNCHANGED <<month, history, live, sent, database, outstanding, task, failures, upset>>

Send(events) == sent' = sent \cup events /\ outstanding' = outstanding \cup events

Pay(s) ==
  /\ checkout[s] = "open"
  /\ checkout' = [checkout EXCEPT ![s] = "paid"]
  /\ live' = live \cup {s}
  /\ Send({e \in history : e.sub = s /\ e.first})
  /\ UNCHANGED <<month, history, database, task, failures, upset>>

\* A live mandate is charged again, a one-time payment is made, a payment is refunded.
Happens(e) ==
  CASE e.type = "refund" -> \E f \in sent : f.pay = e.pay /\ f.type = "payment"
    [] e.type = "payment" /\ e.sub = NoSub -> TRUE
    [] OTHER -> e.sub \in live /\ checkout[e.sub] = "paid"

SendLater(e) ==
  /\ ~e.first /\ e \notin sent
  /\ Happens(e)
  /\ Send({e})
  /\ UNCHANGED <<month, history, checkout, live, database, task, failures, upset>>

\* GetPayment and LatestSubscriptionPayment answer with any state the payment has been in.
Refunded(p, partial) == \E e \in sent : e.type = "refund" /\ e.pay = p /\ e.partial = partial
Truth(p) == IF Refunded(p, FALSE) THEN "full" ELSE IF Refunded(p, TRUE) THEN "partial" ELSE ""
Answers(p) == {""} \cup {Truth(p)} \cup (IF Refunded(p, TRUE) THEN {"partial"} ELSE {})
Lag(p, status) == IF status \in {"", Truth(p)} THEN {} ELSE {"lag"}

-----------------------------------------------------------------------------
(***************************************************************************)
(* What the handlers read.                                                    *)
(***************************************************************************)
Billed == {p \in Payments : invoices[p] # NoInvoice}

\* SubscriptionsForOrg: the plan on the latest invoice of each subscription.
invoiceSubscriptionRefs ==
  [s \in {invoices[p].sub : p \in Billed} \ {NoSub} |->
     LET latest == CHOOSE p \in Billed :
                     /\ invoices[p].sub = s
                     /\ \A q \in Billed : invoices[q].sub = s => PaidAt[q] <= PaidAt[p]
     IN invoices[latest].plan]

storedPlanOrder ==
  IF stored \in DOMAIN invoiceSubscriptionRefs THEN invoiceSubscriptionRefs[stored] ELSE NoPlan

persistDecision(t) ==
  subscriptionPersistAction(stored, t.ev.sub, t.plan, t.previous, storedPlanOrder)

\* resolveGrant and the look-ups behind it, which fail without an error.
resolveGrant(e) == IF e.names THEN {e.plan} ELSE {e.plan, NoPlan}

IsCharge(e) == e.type = "payment" /\ e.sub # NoSub

-----------------------------------------------------------------------------
(***************************************************************************)
(* The first reads of a handler.  A failed read of the organization's plan    *)
(* counts as no plan.                                                         *)
(***************************************************************************)
Blind(pc, previous) == pc \in {"deciding", "persisting"} /\ previous # plan

Started(h, e, pc, resolved, previous, status, fetched) ==
  /\ task' = [task EXCEPT ![h] =
       [Rest EXCEPT !.pc = pc, !.ev = e, !.plan = resolved, !.previous = previous,
                    !.period = month, !.status = status, !.fetched = fetched]]
  /\ upset' = upset
       \cup (IF \E g \in Handlers \ {h} : Busy(g) THEN {"overlap"} ELSE {})
       \cup (IF Blind(pc, previous) THEN {"blind"} ELSE {})
  /\ failures' = IF Blind(pc, previous) THEN failures + 1 ELSE failures
  /\ failures' <= MaxFailures
  /\ UNCHANGED <<provider, database, outstanding>>

ReceiveSubscription(h, e) ==
  /\ e.type \in SubscriptionTypes
  /\ \E resolved \in resolveGrant(e), previous \in {plan, NoPlan} :
       Started(h, e, "deciding", resolved, previous, "", FALSE)

ReceiveCharge(h, e) ==
  /\ IsCharge(e)
  /\ \E resolved \in resolveGrant(e), previous \in {plan, NoPlan} :
       Started(h, e, "persisting", resolved, previous, "", FALSE)

\* A payment whose plan is not found is granted what its metadata says, without a plan.
ReceivePayment(h, e) ==
  /\ OneTime(e)
  /\ \E resolved \in resolveGrant(e) : Started(h, e, "granting", resolved, NoPlan, "", FALSE)

\* Without an organization, or credits, the event is answered 200 and nothing is granted;
\* of a payment the invoice may still be saved, when another look-up finds whose it is.
ReceiveUnknown(h, e) ==
  /\ ~e.names /\ e.type # "refund"
  /\ \/ Started(h, e, "closing", NoPlan, NoPlan, "", FALSE)
     \/ e.type = "payment" /\ Started(h, e, "invoicing", NoPlan, NoPlan, "", FALSE)

ReceiveRefund(h, e) ==
  /\ e.type = "refund"
  /\ LET own == normalizeRefundStatus(e.partial)
     IN \/ Started(h, e, "refunding", e.plan, NoPlan, own, FALSE)
        \/ \E answer \in Answers(e.pay) :
             Started(h, e, "refunding", e.plan, NoPlan, mergeRefundStatus(own, answer), TRUE)

Receive(h) ==
  /\ ~Busy(h)
  /\ \E e \in outstanding :
       \/ ReceiveSubscription(h, e) \/ ReceiveCharge(h, e) \/ ReceivePayment(h, e)
       \/ ReceiveUnknown(h, e) \/ ReceiveRefund(h, e)

At(h, pc) == task[h].pc = pc
GoTo(h, pc) == task' = [task EXCEPT ![h].pc = pc]

(***************************************************************************)
(* handleSubscriptionGrant: a stale or deferred mandate is finished without a *)
(* grant, and so is one whose plan is unknown.                                *)
(***************************************************************************)
Decide(h) ==
  LET t == task[h]
      grants == persistDecision(t) \in {"keep", "adopt"} /\ Known(t.plan)
  IN /\ At(h, "deciding")
     /\ GoTo(h, IF grants THEN "granting" ELSE "persisting")
     /\ UNCHANGED <<provider, database, outstanding, failures, upset>>

HasIdempotencyKey(key) == \E g \in ledger : g.key = key

GrantKey(t) ==
  IF OneTime(t.ev)
  THEN <<"payment", t.ev.pay, NoPlan, 0>>
  ELSE subscriptionGrantKey(t.ev.sub, t.plan, t.previous, t.ev.type, t.period,
                            HasIdempotencyKey(LegacyKey(t.ev.sub, t.period)))

GrantCredits(h) ==
  LET t == task[h]
      row == [key |-> GrantKey(t), sub |-> t.ev.sub, plan |-> t.plan, month |-> t.period]
  IN /\ At(h, "granting")
     /\ ledger' = IF HasIdempotencyKey(row.key) THEN ledger ELSE ledger \cup {row}
     /\ GoTo(h, IF OneTime(t.ev) THEN "invoicing" ELSE "attaching")
     /\ UNCHANGED <<provider, plan, stored, invoices, outstanding, failures, upset>>

\* SetPlanSlugIfHigher, one conditional UPDATE.
SetPlanSlugIfHigher(incoming) == plan' = IF plan <= incoming THEN incoming ELSE plan

AttachPlan(h) ==
  LET t == task[h]
  IN /\ At(h, "attaching")
     /\ SetPlanSlugIfHigher(t.plan)
     /\ GoTo(h, IF OneTime(t.ev) THEN "closing" ELSE "persisting")
     /\ UNCHANGED <<provider, stored, ledger, invoices, outstanding, failures, upset>>

\* As if a stale mandate were left alone.
PersistWithoutCancel(h) ==
  LET t == task[h]
      action == persistDecision(t)
  IN /\ At(h, "persisting")
     /\ task' = [task EXCEPT ![h] = [t EXCEPT
          !.pc = CASE action = "keep" -> "sweeping" [] action = "adopt" -> "storing" [] OTHER -> "invoicing",
          !.prior = IF action = "adopt" THEN stored ELSE NoSub]]
     /\ UNCHANGED <<provider, database, outstanding, failures, upset>>

(***************************************************************************)
(* persistSubscription decides again, from what is stored now, and an         *)
(* adoption is written in a statement of its own.                             *)
(***************************************************************************)
PersistSubscription(h) ==
  LET t == task[h]
      action == persistDecision(t)
  IN /\ At(h, "persisting")
     /\ task' = [task EXCEPT ![h] = [t EXCEPT
          !.pc = CASE action = "keep" -> "sweeping" [] action = "adopt" -> "storing"
                   [] action = "stale" -> "cancelling" [] action = "defer" -> "invoicing",
          !.prior = IF action = "adopt" THEN stored ELSE NoSub,
          !.todo = IF action = "stale" THEN {t.ev.sub} ELSE {}]]
     /\ UNCHANGED <<provider, database, outstanding, failures, upset>>

\* Nothing asks whether the mandate is still alive.
SetDodoSubscriptionID(h) ==
  LET s == task[h].ev.sub
  IN /\ At(h, "storing")
     /\ stored' = s
     /\ upset' = IF s \in live THEN upset ELSE upset \cup {"dead"}
     /\ GoTo(h, "replacing")
     /\ UNCHANGED <<provider, plan, ledger, invoices, outstanding, failures>>

Cancelling(t, todo) ==
  [t EXCEPT !.pc = IF todo = {} THEN "invoicing" ELSE "cancelling", !.todo = todo]

\* cancelPriorSubscriptions, cancelLowerPlanSubscriptions: whom to cancel.
FindLeftovers(h) ==
  LET t == task[h]
      todo == IF t.pc = "replacing"
              THEN mergePriorSubscriptionIDs(t.prior, t.ev.sub, invoiceSubscriptionRefs)
              ELSE staleInvoiceIDs(t.ev.sub, pickHigherPlan(t.plan, t.previous), invoiceSubscriptionRefs)
  IN /\ t.pc \in {"replacing", "sweeping"}
     /\ task' = [task EXCEPT ![h] = Cancelling(t, todo)]
     /\ UNCHANGED <<provider, database, outstanding, failures, upset>>

CancelSubscription(h) ==
  LET t == task[h]
  IN /\ At(h, "cancelling")
     /\ \E s \in t.todo :
          /\ live' = live \ {s}
          /\ task' = [task EXCEPT ![h] = Cancelling(t, t.todo \ {s})]
     /\ UNCHANGED <<month, history, checkout, sent, database, outstanding, failures, upset>>

(***************************************************************************)
(* recordInvoice and recordSubscriptionInvoice.  Upsert keeps what a later    *)
(* record leaves empty.  A subscription event saves the invoice of a payment  *)
(* the provider lists, or none.                                               *)
(***************************************************************************)
Or(new, empty, old) == IF new = empty THEN old ELSE new

Upsert(p, incoming, status, sub) ==
  invoices' = [invoices EXCEPT ![p] =
    IF @ = NoInvoice
    THEN [plan |-> incoming, refund |-> status, sub |-> sub]
    ELSE [plan |-> Or(incoming, NoPlan, @.plan), refund |-> Or(status, "", @.refund),
          sub |-> Or(sub, NoSub, @.sub)]]

PaymentsOf(s) == {e.pay : e \in {f \in sent : f.sub = s /\ f.type = "payment"}}
AfterInvoice(t) == IF OneTime(t.ev) /\ Known(t.plan) THEN "attaching" ELSE "closing"

RecordInvoice(h) ==
  LET t == task[h]
      payments == IF t.ev.type \in SubscriptionTypes THEN PaymentsOf(t.ev.sub) ELSE {t.ev.pay}
  IN /\ At(h, "invoicing")
     /\ \E p \in payments : \E status \in IF t.status = "" THEN Answers(p) ELSE {t.status} :
          /\ Upsert(p, t.plan, status, t.ev.sub)
          /\ upset' = upset \cup Lag(p, status)
     /\ GoTo(h, AfterInvoice(t))
     /\ UNCHANGED <<provider, plan, stored, ledger, outstanding, failures>>

NoPaymentListed(h) ==
  /\ At(h, "invoicing") /\ task[h].ev.type \in SubscriptionTypes
  /\ GoTo(h, "closing")
  /\ UNCHANGED <<provider, database, outstanding, failures, upset>>

\* A one-time payment gets its plan, if it has one, even when its invoice could not be saved.
InvoiceFails(h) ==
  /\ At(h, "invoicing") /\ AfterInvoice(task[h]) = "attaching"
  /\ failures < MaxFailures /\ failures' = failures + 1
  /\ task' = [task EXCEPT ![h] = [@ EXCEPT !.pc = "attaching", !.failed = TRUE]]
  /\ UNCHANGED <<provider, database, outstanding, upset>>

\* As if the status on the invoice were not looked at.
ReadNoStatus(h) ==
  LET t == task[h]
  IN /\ At(h, "refunding")
     /\ IF invoices[t.ev.pay] # NoInvoice THEN GoTo(h, "updating")
        ELSE IF t.fetched /\ t.ev.names THEN GoTo(h, "invoicing")
        ELSE task' = [task EXCEPT ![h] = Rest]
     /\ UNCHANGED <<provider, database, outstanding, failures, upset>>

(***************************************************************************)
(* handleRefundSucceeded reads the invoice, then writes its refund status; it *)
(* creates the invoice from the payment, or leaves the event for later.       *)
(***************************************************************************)
ReadInvoice(h) ==
  LET t == task[h]
      existing == invoices[t.ev.pay]
  IN /\ At(h, "refunding")
     /\ IF existing # NoInvoice
        THEN GoTo(h, IF existing.refund = "full" THEN "closing" ELSE "updating")
        ELSE IF t.fetched /\ t.ev.names THEN GoTo(h, "invoicing")
        ELSE task' = [task EXCEPT ![h] = Rest]
     /\ UNCHANGED <<provider, database, outstanding, failures, upset>>

UpdateRefundStatus(h) ==
  LET t == task[h]
  IN /\ At(h, "updating")
     /\ invoices' = [invoices EXCEPT ![t.ev.pay].refund = t.status]
     /\ GoTo(h, "closing")
     /\ UNCHANGED <<provider, plan, stored, ledger, outstanding, failures, upset>>

-----------------------------------------------------------------------------
\* The controller answers 200 and the provider stops delivering, or it answers 500.
Answer(h) ==
  /\ At(h, "closing")
  /\ outstanding' = IF task[h].failed THEN outstanding ELSE outstanding \ {task[h].ev}
  /\ task' = [task EXCEPT ![h] = Rest]
  /\ UNCHANGED <<provider, database, failures, upset>>

\* Any step may fail, the process may die, the answer may be lost.
Fail(h) ==
  /\ Busy(h)
  /\ failures < MaxFailures /\ failures' = failures + 1
  /\ task' = [task EXCEPT ![h] = Rest]
  /\ UNCHANGED <<provider, database, outstanding, upset>>

Step(h) ==
  \/ Receive(h) \/ Decide(h) \/ GrantCredits(h) \/ AttachPlan(h) \/ PersistSubscription(h)
  \/ SetDodoSubscriptionID(h) \/ FindLeftovers(h) \/ CancelSubscription(h) \/ RecordInvoice(h)
  \/ NoPaymentListed(h) \/ InvoiceFails(h) \/ ReadInvoice(h) \/ UpdateRefundStatus(h) \/ Answer(h)

Next ==
  \/ \E h \in Handlers : Step(h) \/ Fail(h)
  \/ \E s \in Subs : CreateCheckout(s) \/ Pay(s)
  \/ \E e \in history : SendLater(e)
  \/ NextMonth
  \/ Quiet /\ UNCHANGED vars

Spec == Init /\ [][Next]_vars

-----------------------------------------------------------------------------
(***************************************************************************)
(* A subscription is granted its plan at most once a month, however many of   *)
(* its events tell of the charge, how often and in what order they come.  A   *)
(* month granted under the old key, which does not name the plan, is granted  *)
(* again under the new one only when the organization has been on a better    *)
(* plan since, or when the read of its plan fails and is taken for "no plan". *)
(***************************************************************************)
MonthGrantedOnce ==
  "blind" \notin upset =>
    \A g, k \in ledger :
      g.sub # NoSub /\ g.sub = k.sub /\ g.plan = k.plan /\ g.month = k.month =>
        g = k \/ (g.sub \in Legacy /\ g.plan < plan)

(***************************************************************************)
(* When every event has been answered 200: the organization's plan is one it  *)
(* was granted, or paid for in a payment that was granted without its plan,   *)
(* and the best one, save for a plan that had to be looked up (the look-up    *)
(* may fail when the event comes again); unless deliveries overlapped, a      *)
(* mandate that goes on charging was granted, if a subscription event told of *)
(* it that names its organization and plan, and the stored mandate is alive,  *)
(* or of a plan the organization has left, or was dead when it was stored.    *)
(* Grant, plan, mandate, cancellations and invoice are separate commits.      *)
(***************************************************************************)
Granted(s) == \E g \in ledger : g.sub = s
Tells(e, s) == e.sub = s /\ e.type \in SubscriptionTypes
Pays(e, g) == OneTime(e) /\ g.key = <<"payment", e.pay, NoPlan, 0>>
Buys(g, p) == g.plan = p \/ (g.plan = NoPlan /\ \E e \in sent : Pays(e, g) /\ e.plan = p)
LookedUp(g) == \E e \in sent : (Tells(e, g.sub) \/ Pays(e, g)) /\ ~e.names /\ e.plan = g.plan
Left(s) == \E e \in sent : e.sub = s /\ e.plan < plan

PaidForWhenQuiet ==
  Quiet =>
    /\ plan # NoPlan => \E g \in ledger : Buys(g, plan)
    /\ \A g \in ledger : g.plan <= plan \/ LookedUp(g)
    /\ "overlap" \notin upset =>
         \A s \in live : (\E e \in sent : Tells(e, s) /\ e.names) => Granted(s)
    /\ {"overlap", "dead"} \cap upset = {} /\ stored # NoSub => stored \in live \/ Left(stored)

(***************************************************************************)
(* A full refund is never taken back to a partial one, except by deliveries   *)
(* that overlap (the status is read and then written) and by an invoice saved *)
(* again from an answer of the provider that is behind.                       *)
(***************************************************************************)
FullRefundStays ==
  [][upset' \cap {"overlap", "lag"} = {} =>
       \A p \in Billed : invoices[p].refund = "full" => invoices'[p].refund = "full"]_vars
=============================================================================
