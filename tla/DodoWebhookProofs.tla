------------------------- MODULE DodoWebhookProofs -------------------------
(***************************************************************************)
(* Grants and refunds of the webhook for any events, delivered in any order   *)
(* and any number of times, with any number of handlers and failures.         *)
(***************************************************************************)
EXTENDS DodoWebhook, TLAPS

(***************************************************************************)
(* The inductive invariant.                                                   *)
(***************************************************************************)

\* What the place of a delivery says of its event, and of the invoice it read.
TaskOrder(h) ==
  LET t == task[h]
  IN /\ t.pc # "idle" => t.ev \in sent
     /\ t.pc = "deciding" => t.ev.type \in SubscriptionTypes
     /\ t.pc = "granting" => OneTime(t.ev) \/ (t.ev.type \in SubscriptionTypes /\ Known(t.plan))
     /\ t.pc = "attaching" => OneTime(t.ev) \/ t.ev.type \in SubscriptionTypes
     /\ t.pc \in {"persisting", "storing"} => t.ev.sub # NoSub
     /\ t.pc \in {"refunding", "updating"} => t.ev.type = "refund"
     /\ t.status # "" => t.ev.type = "refund"
     /\ t.pc # "idle" /\ t.status = "full" => Refunded(t.ev.pay, FALSE)
     /\ t.pc = "updating" =>
          /\ invoices[t.ev.pay] # NoInvoice
          /\ "overlap" \notin upset => invoices[t.ev.pay].refund # "full"

\* Until deliveries overlap there is one at a time.
OneAtATime == "overlap" \notin upset => \A g, h \in Handlers : Busy(g) /\ Busy(h) => g = h

\* An invoice that is fully refunded was.
RefundsHappened == \A p \in Billed : invoices[p].refund = "full" => Refunded(p, FALSE)

\* A grant for a subscription has the new key, or is the one from before it.
PeriodKey(g) == <<"period", g.sub, g.plan, g.month>>
KeyOrder(g) == g.sub # NoSub => g.key = PeriodKey(g) \/ (g.sub \in Legacy /\ g = LegacyGrant(g.sub))

IInv ==
  /\ TypeOK
  /\ \A h \in Handlers : TaskOrder(h)
  /\ OneAtATime
  /\ RefundsHappened
  /\ \A g \in ledger : KeyOrder(g)

(***************************************************************************)
(* Types.                                                                     *)
(***************************************************************************)
Task == [pc : Places, ev : Events \cup {NoEvent}, plan : Nat, previous : Nat, period : Nat,
         prior : Subs \cup {NoSub}, todo : SUBSET Subs, status : RefundStatus,
         fetched : BOOLEAN, failed : BOOLEAN]

\* An event the provider sent is an event.
LEMMA SentType ==
  ASSUME TypeOK, NEW e \in sent
  PROVE  /\ e \in Events /\ e.type \in SubscriptionTypes \cup {"payment", "refund"}
         /\ e.sub \in Subs \cup {NoSub} /\ e.pay \in Payments \cup {NoPay}
         /\ e.plan \in Nat \ {0} /\ e.names \in BOOLEAN /\ e.partial \in BOOLEAN
         /\ e.type \in SubscriptionTypes => e.sub \in Subs
         /\ e.type \notin SubscriptionTypes => e.pay \in Payments
<1>1. e \in Events /\ e \in EventType
  BY WebhookAssumption DEF TypeOK
<1>2. e.plan # NoPlan /\ IF e.type \in SubscriptionTypes THEN e.sub # NoSub ELSE e.pay # NoPay
  BY <1>1, WebhookAssumption
<1> QED BY <1>1, <1>2 DEF EventType, NoPlan

\* A delivery that goes on is well typed.
LEMMA GoType ==
  ASSUME TypeOK, NEW h \in Handlers, NEW p \in Places
  PROVE  /\ task[h] \in Task /\ [task[h] EXCEPT !.pc = p] \in Task
         /\ GoTo(h, p) => task' = [task EXCEPT ![h] = [task[h] EXCEPT !.pc = p]]
<1>1. task \in [Handlers -> Task] /\ task[h] \in Task
  BY DEF TypeOK, Task
<1>2. [task[h] EXCEPT !.pc = p] \in Task
  BY <1>1 DEF Task
<1> QED BY <1>1, <1>2 DEF GoTo

\* So is one at rest.
LEMMA RestType == Rest \in Task /\ Rest.pc = "idle" /\ Rest.status = ""
BY DEF Rest, Task, Places, NoPlan, RefundStatus

\* A delivery that starts is well typed, and knows its event.
LEMMA StartType ==
  ASSUME TypeOK, NEW h \in Handlers, NEW e \in sent, NEW p \in Places, NEW r \in Nat, NEW v \in Nat,
         NEW s \in RefundStatus, Started(h, e, p, r, v, s, TRUE) \/ Started(h, e, p, r, v, s, FALSE)
  PROVE  /\ TypeOK'
         /\ task'[h].pc = p /\ task'[h].ev = e /\ task'[h].plan = r /\ task'[h].status = s
         /\ task'[h].previous = v
         /\ \A g \in Handlers \ {h} : task'[g] = task[g]
<1>1. task \in [Handlers -> Task] /\ month \in Nat /\ e \in Events
  BY SentType DEF TypeOK, Task
<1>0. PICK f \in BOOLEAN : Started(h, e, p, r, v, s, f)
  OBVIOUS
<1> DEFINE t == [Rest EXCEPT !.pc = p, !.ev = e, !.plan = r, !.previous = v,
                    !.period = month, !.status = s, !.fetched = f]
<1>2. t \in Task /\ t.pc = p /\ t.ev = e /\ t.plan = r /\ t.status = s /\ t.previous = v
  BY <1>1, RestType DEF Task, Rest
<1>3. task' = [task EXCEPT ![h] = t]
  BY <1>0 DEF Started
<1> HIDE DEF t
<1>4. task' \in [Handlers -> Task] /\ task'[h] = t /\ \A g \in Handlers \ {h} : task'[g] = task[g]
  BY <1>1, <1>2, <1>3
<1>5. failures' \in Nat /\ upset' \in SUBSET {"overlap", "blind", "dead", "lag"}
  BY <1>0 DEF Started, TypeOK
<1>6. UNCHANGED <<month, history, checkout, live, sent, plan, stored, ledger, invoices, outstanding>>
  BY <1>0 DEF Started, provider, database
<1> QED BY <1>2, <1>4, <1>5, <1>6 DEF TypeOK, Task

(***************************************************************************)
(* The steps keep the types, one lemma for each kind of step.                 *)
(***************************************************************************)

\* The customer and the provider.
LEMMA OutsideType ==
  ASSUME TypeOK,
         NextMonth \/ (\E s \in Subs : CreateCheckout(s) \/ Pay(s)) \/ \E e \in history : SendLater(e)
  PROVE  /\ TypeOK' /\ sent \subseteq sent'
         /\ UNCHANGED <<database, task, upset>>
<1> USE DEF provider, database
<1>0. history \subseteq Events
  BY WebhookAssumption DEF TypeOK
<1>1. CASE NextMonth BY <1>1 DEF NextMonth, TypeOK
<1>2. ASSUME NEW s \in Subs, CreateCheckout(s)
      PROVE  /\ TypeOK' /\ sent \subseteq sent' /\ UNCHANGED <<database, task, upset>>
  BY <1>2 DEF CreateCheckout, TypeOK
<1>3. ASSUME NEW s \in Subs, Pay(s)
      PROVE  /\ TypeOK' /\ sent \subseteq sent' /\ UNCHANGED <<database, task, upset>>
  BY <1>0, <1>3 DEF Pay, Send, TypeOK
<1>4. ASSUME NEW e \in history, SendLater(e)
      PROVE  /\ TypeOK' /\ sent \subseteq sent' /\ UNCHANGED <<database, task, upset>>
  BY <1>0, <1>4 DEF SendLater, Send, TypeOK
<1> QED BY <1>1, <1>2, <1>3, <1>4

\* A step of a delivery, t being what is left of it.
LEMMA TaskType ==
  ASSUME TypeOK, NEW h \in Handlers, NEW t \in Task, task' = [task EXCEPT ![h] = t],
         UNCHANGED <<month, history, checkout, sent>>,
         live' \in SUBSET Subs, outstanding' \in SUBSET sent, failures' \in Nat,
         plan' \in Nat, stored' \in Subs \cup {NoSub}, ledger' \in SUBSET Grants,
         invoices' \in [Payments -> {NoInvoice} \cup Invoice],
         upset' \in SUBSET {"overlap", "blind", "dead", "lag"}
  PROVE  /\ TypeOK'
         /\ \A g \in Handlers \ {h} : task'[g] = task[g]
         /\ task'[h] = t
<1>1. task \in [Handlers -> Task]
  BY DEF TypeOK, Task
<1>2. task' \in [Handlers -> Task]
  BY <1>1
<1> QED BY <1>1, <1>2 DEF TypeOK, Task

(***************************************************************************)
(* What a step at one delivery leaves true of the others.                     *)
(***************************************************************************)
LEMMA Others ==
  ASSUME IInv, TypeOK', NEW h \in Handlers,
         \A g \in Handlers \ {h} : task'[g] = task[g],
         sent \subseteq sent', upset \subseteq upset',
         \A p \in Billed : invoices'[p] # NoInvoice,
         Busy(h) \/ invoices' = invoices
  PROVE  \A g \in Handlers \ {h} : TaskOrder(g)'
<1> SUFFICES ASSUME NEW g \in Handlers \ {h}
             PROVE  TaskOrder(g)'
  OBVIOUS
<1>1. TaskOrder(g) /\ task'[g] = task[g]
  BY DEF IInv
<1>2. \A p : Refunded(p, FALSE) => Refunded(p, FALSE)'
  BY DEF Refunded
<1>3. ASSUME task[g].pc = "updating"
      PROVE  /\ invoices'[task[g].ev.pay] # NoInvoice
             /\ "overlap" \notin upset' => invoices'[task[g].ev.pay].refund # "full"
  <2>1. task[g].ev \in sent /\ task[g].ev.type = "refund" /\ invoices[task[g].ev.pay] # NoInvoice
    BY <1>1, <1>3 DEF TaskOrder
  <2>2. task[g].ev.pay \in Billed
    BY <2>1, SentType DEF Billed, IInv, SubscriptionTypes
  <2>3. ASSUME "overlap" \notin upset' PROVE invoices'[task[g].ev.pay].refund # "full"
    <3>1. "overlap" \notin upset /\ Busy(g)
      BY <1>3, <2>3 DEF Busy
    <3>2. ~Busy(h)
      BY <3>1 DEF IInv, OneAtATime
    <3> QED BY <1>1, <1>3, <3>1, <3>2 DEF TaskOrder
  <2> QED BY <2>2, <2>3
<1>4. task[g].pc # "idle" => task[g].ev \in sent'
  BY <1>1 DEF TaskOrder
<1> QED BY <1>1, <1>2, <1>3, <1>4 DEF TaskOrder

\* A delivery being handled stays the only one.
LEMMA Alone ==
  ASSUME IInv, NEW h \in Handlers, Busy(h), upset \subseteq upset',
         \A g \in Handlers \ {h} : task'[g] = task[g]
  PROVE  OneAtATime'
BY DEF IInv, OneAtATime, Busy

\* Refunds only come to be.
LEMMA RefundsStayTrue ==
  ASSUME IInv, sent \subseteq sent', UNCHANGED invoices
  PROVE  RefundsHappened'
BY DEF IInv, RefundsHappened, Refunded, Billed

(***************************************************************************)
(* Each step of a delivery keeps the invariant.                               *)
(***************************************************************************)

\* What the two refund statuses are joined to is what happened.
LEMMA MergedStatus ==
  ASSUME TypeOK, NEW e \in sent, e.type = "refund", NEW answer \in Answers(e.pay)
  PROVE  /\ normalizeRefundStatus(e.partial) \in RefundStatus
         /\ mergeRefundStatus(normalizeRefundStatus(e.partial), answer) \in RefundStatus
         /\ normalizeRefundStatus(e.partial) = "full" => Refunded(e.pay, FALSE)
         /\ mergeRefundStatus(normalizeRefundStatus(e.partial), answer) = "full"
              => Refunded(e.pay, FALSE)
<1>1. normalizeRefundStatus(e.partial) = "full" => Refunded(e.pay, FALSE)
  BY SentType DEF normalizeRefundStatus, Refunded
<1>2. answer = "full" => Refunded(e.pay, FALSE)
  BY DEF Answers, Truth
<1>3. normalizeRefundStatus(e.partial) \in RefundStatus
  BY DEF normalizeRefundStatus, RefundStatus
<1>4. mergeRefundStatus(normalizeRefundStatus(e.partial), answer) = "full"
        => normalizeRefundStatus(e.partial) = "full" \/ answer = "full"
  BY DEF mergeRefundStatus
<1>5. mergeRefundStatus(normalizeRefundStatus(e.partial), answer) \in RefundStatus
  BY DEF mergeRefundStatus, RefundStatus
<1> QED BY <1>1, <1>2, <1>3, <1>4, <1>5

\* The event e may start at the place p.
Fit(e, p, r, v, s) ==
  /\ e \in sent /\ p \in Places \ {"attaching", "storing", "updating"}
  /\ r \in Nat /\ v \in Nat /\ s \in RefundStatus
  /\ p = "deciding" => e.type \in SubscriptionTypes
  /\ p = "granting" => OneTime(e)
  /\ p = "persisting" => e.sub # NoSub
  /\ p = "refunding" \/ s # "" => e.type = "refund"
  /\ s = "full" => Refunded(e.pay, FALSE)

Starting(h, e, p, r, v, s) == \E f \in BOOLEAN : Started(h, e, p, r, v, s, f)

\* A delivery that starts at a place its event is fit for.
LEMMA StartKeeps ==
  ASSUME IInv, NEW h \in Handlers, ~Busy(h), NEW e, NEW p, NEW r, NEW v, NEW s,
         Fit(e, p, r, v, s), Starting(h, e, p, r, v, s)
  PROVE  IInv'
<1>0. /\ TypeOK /\ e \in sent /\ p \in Places /\ r \in Nat /\ v \in Nat /\ s \in RefundStatus
      /\ Started(h, e, p, r, v, s, TRUE) \/ Started(h, e, p, r, v, s, FALSE)
  BY DEF IInv, Fit, Starting
<1>1. /\ TypeOK' /\ task'[h].pc = p /\ task'[h].ev = e /\ task'[h].status = s
      /\ \A g \in Handlers \ {h} : task'[g] = task[g]
  BY <1>0, StartType
<1>2. sent' = sent /\ ledger' = ledger /\ invoices' = invoices
  BY DEF Starting, Started, provider, database
<1>3. upset \subseteq upset' /\ ((\E g \in Handlers \ {h} : Busy(g)) => "overlap" \in upset')
  BY DEF Starting, Started
<1>4. TaskOrder(h)'
  BY <1>1, <1>2 DEF TaskOrder, Fit, Refunded, OneTime
<1>5. \A g \in Handlers : TaskOrder(g)'
  <2>1. \A q \in Billed : invoices'[q] # NoInvoice
    BY <1>2 DEF Billed
  <2>2. sent \subseteq sent' /\ (Busy(h) \/ invoices' = invoices)
    BY <1>2
  <2>3. \A g \in Handlers \ {h} : TaskOrder(g)'
    BY <1>1, <1>3, <2>1, <2>2, Others
  <2> QED BY <1>4, <2>3
<1>6. OneAtATime'
  BY <1>1, <1>3 DEF OneAtATime, Busy
<1> QED BY <1>1, <1>2, <1>5, <1>6, RefundsStayTrue DEF IInv

LEMMA ReceiveKeeps ==
  ASSUME IInv, NEW h \in Handlers, Receive(h)
  PROVE  IInv'
<1>0. TypeOK /\ ~Busy(h) /\ plan \in Nat /\ NoPlan \in Nat /\ "" \in RefundStatus
  BY DEF IInv, TypeOK, Receive, NoPlan, RefundStatus
<1>1. PICK e \in outstanding :
        \/ ReceiveSubscription(h, e) \/ ReceiveCharge(h, e) \/ ReceivePayment(h, e)
        \/ ReceiveUnknown(h, e) \/ ReceiveRefund(h, e)
  BY DEF Receive
<1>2. e \in sent /\ e.plan \in Nat /\ resolveGrant(e) \subseteq Nat
  <2>1. e \in sent
    BY <1>0 DEF TypeOK
  <2>2. e.plan \in Nat
    BY <1>0, <2>1, SentType
  <2> QED BY <1>0, <2>1, <2>2 DEF resolveGrant
<1>3. ASSUME NEW p, NEW r, NEW v, NEW s, Fit(e, p, r, v, s), Starting(h, e, p, r, v, s)
      PROVE  IInv'
  BY <1>0, <1>3, StartKeeps
<1>4. CASE ReceiveSubscription(h, e)
  <2>1. PICK r \in resolveGrant(e), v \in {plan, NoPlan} : Started(h, e, "deciding", r, v, "", FALSE)
    BY <1>4 DEF ReceiveSubscription
  <2>2. Fit(e, "deciding", r, v, "")
    BY <1>0, <1>2, <1>4 DEF ReceiveSubscription, Fit, Places
  <2> QED BY <1>3, <2>1, <2>2 DEF Starting
<1>5. CASE ReceiveCharge(h, e)
  <2>1. PICK r \in resolveGrant(e), v \in {plan, NoPlan} : Started(h, e, "persisting", r, v, "", FALSE)
    BY <1>5 DEF ReceiveCharge
  <2>2. Fit(e, "persisting", r, v, "")
    BY <1>0, <1>2, <1>5 DEF ReceiveCharge, IsCharge, Fit, Places
  <2> QED BY <1>3, <2>1, <2>2 DEF Starting
<1>6. CASE ReceivePayment(h, e)
  <2>1. PICK r \in resolveGrant(e) : Started(h, e, "granting", r, NoPlan, "", FALSE)
    BY <1>6 DEF ReceivePayment
  <2>2. Fit(e, "granting", r, NoPlan, "")
    BY <1>0, <1>2, <1>6 DEF ReceivePayment, Fit, Places
  <2> QED BY <1>3, <2>1, <2>2 DEF Starting
<1>7. CASE ReceiveUnknown(h, e)
  <2>1. PICK p \in {"closing", "invoicing"} : Started(h, e, p, NoPlan, NoPlan, "", FALSE)
    BY <1>7 DEF ReceiveUnknown
  <2>2. Fit(e, p, NoPlan, NoPlan, "")
    BY <1>0, <1>2 DEF Fit, Places
  <2> QED BY <1>3, <2>1, <2>2 DEF Starting
<1>8. CASE ReceiveRefund(h, e)
  <2> DEFINE own == normalizeRefundStatus(e.partial)
  <2>1. e.type = "refund" /\ "refunding" \in Places
    BY <1>8 DEF ReceiveRefund, Places
  <2>2. CASE Started(h, e, "refunding", e.plan, NoPlan, own, FALSE)
    <3>1. "" \in Answers(e.pay)
      BY DEF Answers
    <3>2. own \in RefundStatus /\ (own = "full" => Refunded(e.pay, FALSE))
      BY <1>0, <1>2, <2>1, <3>1, MergedStatus
    <3>3. Fit(e, "refunding", e.plan, NoPlan, own)
      BY <1>0, <1>2, <2>1, <3>2 DEF Fit
    <3> QED BY <1>3, <2>2, <3>3 DEF Starting
  <2>3. CASE \E answer \in Answers(e.pay) :
               Started(h, e, "refunding", e.plan, NoPlan, mergeRefundStatus(own, answer), TRUE)
    <3>1. PICK answer \in Answers(e.pay) :
            Started(h, e, "refunding", e.plan, NoPlan, mergeRefundStatus(own, answer), TRUE)
      BY <2>3
    <3> DEFINE status == mergeRefundStatus(own, answer)
    <3>2. status \in RefundStatus /\ (status = "full" => Refunded(e.pay, FALSE))
      BY <1>0, <1>2, <2>1, MergedStatus
    <3>3. Fit(e, "refunding", e.plan, NoPlan, status)
      BY <1>0, <1>2, <2>1, <3>2 DEF Fit
    <3> QED BY <1>3, <3>1, <3>3 DEF Starting
  <2> QED BY <1>8, <2>2, <2>3 DEF ReceiveRefund
<1> QED BY <1>1, <1>4, <1>5, <1>6, <1>7, <1>8

\* The delivery at h may go on as t, or has ended.
Fits(h, t) ==
  /\ t \in Task
  /\ t = Rest \/ (t.ev = task[h].ev /\ t.status = task[h].status)
  /\ t.pc # "deciding"
  /\ t.pc = "granting" => OneTime(t.ev) \/ (t.ev.type \in SubscriptionTypes /\ Known(t.plan))
  /\ t.pc = "attaching" => OneTime(t.ev) \/ t.ev.type \in SubscriptionTypes
  /\ t.pc \in {"persisting", "storing"} => t.ev.sub # NoSub
  /\ t.pc \in {"refunding", "updating"} => t.ev.type = "refund"
  /\ t.pc = "updating" =>
       invoices[t.ev.pay] # NoInvoice /\ invoices[t.ev.pay].refund # "full"

\* What the invariant says of a delivery being handled.
LEMMA AtWork ==
  ASSUME IInv, NEW h \in Handlers, Busy(h)
  PROVE  /\ TypeOK /\ TaskOrder(h) /\ task[h] \in Task /\ task[h].ev \in sent
         /\ task[h].ev.type \in SubscriptionTypes => task[h].ev.sub \in Subs
         /\ task[h].ev.type \notin SubscriptionTypes => task[h].ev.pay \in Payments
<1>1. TypeOK /\ TaskOrder(h) /\ task[h] \in Task
  BY DEF IInv, TypeOK, Task
<1>2. task[h].ev \in sent
  BY <1>1 DEF TaskOrder, Busy
<1> QED BY <1>1, <1>2, SentType

\* A step of one delivery.
LEMMA StepKeeps ==
  ASSUME IInv, NEW h \in Handlers, Busy(h), NEW t, Fits(h, t), task' = [task EXCEPT ![h] = t],
         UNCHANGED <<month, history, checkout, sent>>,
         live' \in SUBSET Subs, outstanding' \in SUBSET sent, failures' \in Nat,
         plan' \in Nat, stored' \in Subs \cup {NoSub},
         ledger' \in SUBSET Grants, \A g \in ledger' : KeyOrder(g),
         invoices' \in [Payments -> {NoInvoice} \cup Invoice],
         \A p \in Billed : invoices'[p] # NoInvoice, RefundsHappened',
         upset \subseteq upset', upset' \in SUBSET {"overlap", "blind", "dead", "lag"},
         t.pc = "updating" => UNCHANGED invoices
  PROVE  IInv'
<1>1. TypeOK /\ TaskOrder(h) /\ task[h].ev \in sent /\ t \in Task
  BY AtWork DEF Fits
<1>2. /\ TypeOK' /\ task'[h] = t
      /\ \A g \in Handlers \ {h} : task'[g] = task[g]
  BY <1>1, TaskType
<1>3. TaskOrder(h)'
  <2>1. CASE t = Rest
    <3>1. task'[h].pc = "idle" /\ task'[h].status = ""
      BY <1>2, <2>1, RestType
    <3> QED BY <3>1 DEF TaskOrder
  <2>2. CASE t.ev = task[h].ev /\ t.status = task[h].status
    <3>1. t.ev \in sent' /\ sent' = sent
      BY <1>1, <2>2
    <3>2. t.status # "" => t.ev.type = "refund"
      BY <1>1, <2>2 DEF TaskOrder
    <3>3. t.status = "full" => Refunded(t.ev.pay, FALSE)'
      BY <1>1, <2>2, <3>1 DEF TaskOrder, Busy, Refunded
    <3> QED BY <1>2, <3>1, <3>2, <3>3 DEF TaskOrder, Fits, OneTime
  <2> QED BY <2>1, <2>2 DEF Fits
<1>4. \A g \in Handlers : TaskOrder(g)'
  <2>1. sent \subseteq sent'
    OBVIOUS
  <2>2. \A g \in Handlers \ {h} : TaskOrder(g)'
    BY <1>2, <2>1, Others
  <2> QED BY <1>3, <2>2
<1>5. OneAtATime'
  BY <1>2, Alone
<1> QED BY <1>2, <1>4, <1>5 DEF IInv

\* A step of one delivery that neither grants nor touches an invoice.
LEMMA MoveKeeps ==
  ASSUME IInv, NEW h \in Handlers, Busy(h), NEW t, Fits(h, t), task' = [task EXCEPT ![h] = t],
         UNCHANGED <<month, history, checkout, sent, ledger, invoices, upset>>,
         live' \in SUBSET Subs, outstanding' \in SUBSET sent, failures' \in Nat,
         plan' \in Nat, stored' \in Subs \cup {NoSub}
  PROVE  IInv'
<1>1. TypeOK
  BY DEF IInv
<1>2. /\ ledger' \in SUBSET Grants /\ upset' \in SUBSET {"overlap", "blind", "dead", "lag"}
      /\ invoices' \in [Payments -> {NoInvoice} \cup Invoice]
  BY <1>1 DEF TypeOK
<1>3. /\ \A g \in ledger' : KeyOrder(g)
      /\ \A p \in Billed : invoices'[p] # NoInvoice
  BY DEF IInv, Billed
<1>4. RefundsHappened'
  BY RefundsStayTrue
<1>5. upset \subseteq upset' /\ UNCHANGED invoices /\ UNCHANGED <<month, history, checkout, sent>>
  OBVIOUS
<1> QED BY <1>2, <1>3, <1>4, <1>5, StepKeeps

\* So a delivery may move on by GoTo.
LEMMA GoKeeps ==
  ASSUME IInv, NEW h \in Handlers, Busy(h), NEW p \in Places \ {"deciding"}, GoTo(h, p),
         p = "granting" =>
           task[h].ev.type \in SubscriptionTypes /\ Known(task[h].plan),
         p \in {"persisting", "storing"} => task[h].ev.sub # NoSub,
         p = "updating" =>
           /\ task[h].ev.type = "refund" /\ invoices[task[h].ev.pay] # NoInvoice
           /\ invoices[task[h].ev.pay].refund # "full",
         p \notin {"attaching", "refunding"},
         UNCHANGED <<month, history, checkout, live, sent, ledger, invoices, outstanding, upset, failures>>,
         plan' \in Nat, stored' \in Subs \cup {NoSub}
  PROVE  IInv'
<1> DEFINE t == [task[h] EXCEPT !.pc = p]
<1>1. TypeOK /\ task[h] \in Task
  BY AtWork
<1>2. t \in Task /\ task' = [task EXCEPT ![h] = t]
  BY <1>1, GoType
<1>3. t.pc = p /\ t.ev = task[h].ev /\ t.status = task[h].status /\ t.plan = task[h].plan
  BY <1>1 DEF Task
<1> HIDE DEF t
<1>4. Fits(h, t)
  BY <1>2, <1>3 DEF Fits
<1>5. live' \in SUBSET Subs /\ outstanding' \in SUBSET sent /\ failures' \in Nat
  BY <1>1 DEF TypeOK
<1> QED BY <1>2, <1>4, <1>5, MoveKeeps

LEMMA DecideKeeps ==
  ASSUME IInv, NEW h \in Handlers, Decide(h)
  PROVE  IInv'
<1>1. Busy(h) /\ task[h].pc = "deciding"
  BY DEF Decide, At, Busy
<1>2. task[h].ev.type \in SubscriptionTypes /\ task[h].ev.sub # NoSub
  BY <1>1, AtWork, WebhookAssumption DEF TaskOrder
<1>3. PICK p \in {"granting", "persisting"} : GoTo(h, p) /\ (p = "granting" => Known(task[h].plan))
  BY DEF Decide
<1>4. plan' \in Nat /\ stored' \in Subs \cup {NoSub}
  BY <1>1, AtWork DEF Decide, database, TypeOK
<1>5. UNCHANGED <<month, history, checkout, live, sent, ledger, invoices, outstanding, upset, failures>>
  BY DEF Decide, provider, database
<1>6. p \in Places \ {"deciding"}
  BY DEF Places
<1> QED BY <1>1, <1>2, <1>3, <1>4, <1>5, <1>6, GoKeeps

LEMMA AttachKeeps ==
  ASSUME IInv, NEW h \in Handlers, AttachPlan(h)
  PROVE  IInv'
<1>1. Busy(h) /\ task[h].pc = "attaching"
  BY DEF AttachPlan, At, Busy
<1>2. PICK p \in {"closing", "persisting"} : GoTo(h, p) /\ (p = "persisting" => ~OneTime(task[h].ev))
  BY DEF AttachPlan
<1>3. p = "persisting" => task[h].ev.sub # NoSub
  BY <1>1, <1>2, AtWork, WebhookAssumption DEF TaskOrder
<1>4. plan' \in Nat
  <2>1. plan \in Nat /\ task[h].plan \in Nat
    BY <1>1, AtWork DEF TypeOK, Task
  <2> QED BY <2>1 DEF AttachPlan, SetPlanSlugIfHigher
<1>5. stored' \in Subs \cup {NoSub}
  BY <1>1, AtWork DEF AttachPlan, TypeOK
<1>6. UNCHANGED <<month, history, checkout, live, sent, ledger, invoices, outstanding, upset, failures>>
  BY DEF AttachPlan, provider
<1>7. p \in Places \ {"deciding"}
  BY DEF Places
<1> QED BY <1>1, <1>2, <1>3, <1>4, <1>5, <1>6, <1>7, GoKeeps

LEMMA StoreKeeps ==
  ASSUME IInv, NEW h \in Handlers, SetDodoSubscriptionID(h)
  PROVE  IInv'
<1> DEFINE t == [task[h] EXCEPT !.pc = "replacing"]
<1>1. Busy(h) /\ task[h].pc = "storing" /\ GoTo(h, "replacing") /\ "replacing" \in Places
  BY DEF SetDodoSubscriptionID, At, Busy, Places
<1>2. TypeOK /\ task[h] \in Task /\ task[h].ev.sub \in Subs \cup {NoSub}
  BY <1>1, AtWork, SentType
<1>3. t \in Task /\ task' = [task EXCEPT ![h] = t]
  BY <1>1, <1>2, GoType
<1>4. t.pc = "replacing" /\ t.ev = task[h].ev /\ t.status = task[h].status
  BY <1>2 DEF Task
<1> HIDE DEF t
<1>5. Fits(h, t) /\ t.pc # "updating"
  BY <1>3, <1>4 DEF Fits
<1>6. UNCHANGED <<month, history, checkout, live, sent, plan, ledger, invoices, outstanding, failures>>
  BY DEF SetDodoSubscriptionID, provider
<1>7. stored' \in Subs \cup {NoSub}
  BY <1>2 DEF SetDodoSubscriptionID
<1>8. upset \subseteq upset' /\ upset' \in SUBSET {"overlap", "blind", "dead", "lag"}
  BY <1>2 DEF SetDodoSubscriptionID, TypeOK
<1>9. /\ live' \in SUBSET Subs /\ outstanding' \in SUBSET sent /\ failures' \in Nat
      /\ plan' \in Nat /\ ledger' \in SUBSET Grants
      /\ invoices' \in [Payments -> {NoInvoice} \cup Invoice]
  BY <1>2, <1>6 DEF TypeOK
<1>10. /\ \A g \in ledger' : KeyOrder(g)
       /\ \A q \in Billed : invoices'[q] # NoInvoice
       /\ UNCHANGED <<month, history, checkout, sent>>
  BY <1>6 DEF IInv, Billed
<1>11. RefundsHappened'
  BY <1>6, RefundsStayTrue
<1> QED BY <1>1, <1>3, <1>5, <1>7, <1>8, <1>9, <1>10, <1>11, StepKeeps

LEMMA NoPaymentKeeps ==
  ASSUME IInv, NEW h \in Handlers, NoPaymentListed(h)
  PROVE  IInv'
<1>1. Busy(h) /\ GoTo(h, "closing") /\ "closing" \in Places \ {"deciding"}
  BY DEF NoPaymentListed, At, Busy, Places
<1>2. plan' \in Nat /\ stored' \in Subs \cup {NoSub}
  BY <1>1, AtWork DEF NoPaymentListed, database, TypeOK
<1>3. UNCHANGED <<month, history, checkout, live, sent, ledger, invoices, outstanding, upset, failures>>
  BY DEF NoPaymentListed, provider, database
<1> QED BY <1>1, <1>2, <1>3, GoKeeps

\* The decision is one of four.
LEMMA Actions ==
  ASSUME NEW t
  PROVE  persistDecision(t) \in {"keep", "adopt", "stale", "defer"}
BY DEF persistDecision, subscriptionPersistAction

LEMMA PersistKeeps ==
  ASSUME IInv, NEW h \in Handlers, PersistSubscription(h)
  PROVE  IInv'
<1> DEFINE t == task[h]
           action == persistDecision(t)
           pc == CASE action = "keep" -> "sweeping" [] action = "adopt" -> "storing"
                   [] action = "stale" -> "cancelling" [] action = "defer" -> "invoicing"
           prior == IF action = "adopt" THEN stored ELSE NoSub
           todo == IF action = "stale" THEN {t.ev.sub} ELSE {}
           next == [t EXCEPT !.pc = pc, !.prior = prior, !.todo = todo]
<1>1. /\ Busy(h) /\ t.pc = "persisting" /\ task' = [task EXCEPT ![h] = next]
      /\ UNCHANGED <<provider, database, outstanding, failures, upset>>
  BY DEF PersistSubscription, At, Busy
<1>2. TypeOK /\ t \in Task /\ t.ev.sub \in Subs
  BY <1>1, AtWork, SentType DEF TaskOrder
<1>3. pc \in {"sweeping", "storing", "cancelling", "invoicing"}
  <2>1. action \in {"keep", "adopt", "stale", "defer"}
    BY Actions
  <2> HIDE DEF action
  <2> QED BY <2>1
<1>4. prior \in Subs \cup {NoSub} /\ todo \in SUBSET Subs
  BY <1>2 DEF TypeOK
<1> HIDE DEF pc, prior, todo, action
<1>5. next \in Task /\ next.pc = pc /\ next.ev = t.ev /\ next.status = t.status
  BY <1>2, <1>3, <1>4 DEF Task, Places
<1> HIDE DEF next
<1>6. Fits(h, next)
  BY <1>2, <1>3, <1>5, WebhookAssumption DEF Fits
<1>7. UNCHANGED <<month, history, checkout, sent, ledger, invoices, upset>>
  BY <1>1 DEF provider, database
<1>8. /\ live' \in SUBSET Subs /\ outstanding' \in SUBSET sent /\ failures' \in Nat
      /\ plan' \in Nat /\ stored' \in Subs \cup {NoSub}
  BY <1>1, <1>2 DEF provider, database, TypeOK
<1> QED BY <1>1, <1>6, <1>7, <1>8, MoveKeeps

\* A delivery that has subscriptions to cancel, or has cancelled them.
LEMMA CancellingFits ==
  ASSUME IInv, NEW h \in Handlers, Busy(h), NEW todo \in SUBSET Subs
  PROVE  Fits(h, Cancelling(task[h], todo))
<1> DEFINE pc == IF todo = {} THEN "invoicing" ELSE "cancelling"
           next == [task[h] EXCEPT !.pc = pc, !.todo = todo]
<1>1. task[h] \in Task
  BY AtWork
<1>2. pc \in {"invoicing", "cancelling"}
  OBVIOUS
<1> HIDE DEF pc
<1>3. next \in Task /\ next.pc = pc /\ next.ev = task[h].ev /\ next.status = task[h].status
  BY <1>1, <1>2 DEF Task, Places
<1>4. Cancelling(task[h], todo) = next
  BY DEF Cancelling, pc
<1> HIDE DEF next
<1> QED BY <1>2, <1>3, <1>4 DEF Fits

LEMMA SweepKeeps ==
  ASSUME IInv, NEW h \in Handlers, FindLeftovers(h) \/ CancelSubscription(h)
  PROVE  IInv'
<1>1. Busy(h)
  BY DEF FindLeftovers, CancelSubscription, At, Busy
<1>2. TypeOK /\ task[h] \in Task
  BY <1>1, AtWork
<1>3. DOMAIN invoiceSubscriptionRefs \subseteq Subs
  <2>1. \A p \in Billed : invoices[p].sub \in Subs \cup {NoSub}
    BY <1>2 DEF TypeOK, Billed, Invoice
  <2> QED BY <2>1 DEF invoiceSubscriptionRefs
<1>4. PICK todo \in SUBSET Subs : task' = [task EXCEPT ![h] = Cancelling(task[h], todo)]
  <2>1. CASE FindLeftovers(h)
    <3> DEFINE todo == IF task[h].pc = "replacing"
                       THEN mergePriorSubscriptionIDs(task[h].prior, task[h].ev.sub, invoiceSubscriptionRefs)
                       ELSE staleInvoiceIDs(task[h].ev.sub, pickHigherPlan(task[h].plan, task[h].previous),
                                            invoiceSubscriptionRefs)
    <3>1. task[h].prior \in Subs \cup {NoSub}
      BY <1>2 DEF Task
    <3>2. todo \in SUBSET Subs
      BY <1>3, <3>1 DEF mergePriorSubscriptionIDs, staleInvoiceIDs
    <3> QED BY <2>1, <3>2 DEF FindLeftovers
  <2>2. CASE CancelSubscription(h)
    <3>1. task[h].todo \in SUBSET Subs
      BY <1>2 DEF Task
    <3> QED BY <2>2, <3>1 DEF CancelSubscription
  <2> QED BY <2>1, <2>2
<1>5. Fits(h, Cancelling(task[h], todo))
  BY <1>1, CancellingFits
<1>6. UNCHANGED <<month, history, checkout, sent, ledger, invoices, upset>>
  BY DEF FindLeftovers, CancelSubscription, provider, database
<1>7. /\ live' \in SUBSET Subs /\ outstanding' \in SUBSET sent /\ failures' \in Nat
      /\ plan' \in Nat /\ stored' \in Subs \cup {NoSub}
  BY <1>2 DEF FindLeftovers, CancelSubscription, provider, database, TypeOK
<1> QED BY <1>1, <1>4, <1>5, <1>6, <1>7, MoveKeeps

LEMMA EndKeeps ==
  ASSUME IInv, NEW h \in Handlers, Answer(h) \/ Fail(h) \/ InvoiceFails(h)
  PROVE  IInv'
<1>1. Busy(h)
  BY DEF Answer, Fail, InvoiceFails, At, Busy
<1>2. TypeOK /\ task[h] \in Task
  BY <1>1, AtWork
<1>3. PICK t : Fits(h, t) /\ task' = [task EXCEPT ![h] = t]
  <2>1. CASE Answer(h) \/ Fail(h)
    <3>1. Fits(h, Rest)
      BY RestType DEF Fits
    <3> QED BY <2>1, <3>1 DEF Answer, Fail
  <2>2. CASE InvoiceFails(h)
    <3> DEFINE t == [task[h] EXCEPT !.pc = "attaching", !.failed = TRUE]
    <3>1. task' = [task EXCEPT ![h] = t] /\ OneTime(task[h].ev)
      BY <1>2, <2>2 DEF InvoiceFails, AfterInvoice
    <3>2. t \in Task /\ t.pc = "attaching" /\ t.ev = task[h].ev /\ t.status = task[h].status
      BY <1>2 DEF Task, Places
    <3> HIDE DEF t
    <3>3. Fits(h, t)
      BY <3>1, <3>2 DEF Fits
    <3> QED BY <3>1, <3>3
  <2> QED BY <2>1, <2>2
<1>4. UNCHANGED <<month, history, checkout, sent, ledger, invoices, upset>>
  BY DEF Answer, Fail, InvoiceFails, provider, database
<1>5. /\ live' \in SUBSET Subs /\ outstanding' \in SUBSET sent /\ failures' \in Nat
      /\ plan' \in Nat /\ stored' \in Subs \cup {NoSub}
  BY <1>2 DEF Answer, Fail, InvoiceFails, provider, database, TypeOK
<1> QED BY <1>1, <1>3, <1>4, <1>5, MoveKeeps

LEMMA ReadKeeps ==
  ASSUME IInv, NEW h \in Handlers, ReadInvoice(h)
  PROVE  IInv'
<1>1. Busy(h) /\ task[h].pc = "refunding"
  BY DEF ReadInvoice, At, Busy
<1>2. TypeOK /\ task[h].ev.type = "refund"
  BY <1>1, AtWork DEF TaskOrder
<1>3. UNCHANGED <<month, history, checkout, live, sent, ledger, invoices, outstanding, upset, failures>>
  BY DEF ReadInvoice, provider, database
<1>4. /\ live' \in SUBSET Subs /\ outstanding' \in SUBSET sent /\ failures' \in Nat
      /\ plan' \in Nat /\ stored' \in Subs \cup {NoSub}
  BY <1>2 DEF ReadInvoice, provider, database, TypeOK
<1>5. CASE GoTo(h, "closing") \/ GoTo(h, "invoicing")
  <2>1. {"closing", "invoicing"} \subseteq Places \ {"deciding"}
    BY DEF Places
  <2> QED BY <1>1, <1>3, <1>4, <1>5, <2>1, GoKeeps
<1>6. CASE /\ GoTo(h, "updating") /\ invoices[task[h].ev.pay] # NoInvoice
           /\ invoices[task[h].ev.pay].refund # "full"
  <2>1. "updating" \in Places \ {"deciding"}
    BY DEF Places
  <2> QED BY <1>1, <1>2, <1>3, <1>4, <1>6, <2>1, GoKeeps
<1>7. CASE task' = [task EXCEPT ![h] = Rest]
  <2>1. Fits(h, Rest)
    BY RestType DEF Fits
  <2>2. UNCHANGED <<month, history, checkout, sent, ledger, invoices, upset>>
    BY <1>3
  <2> QED BY <1>1, <1>4, <1>7, <2>1, <2>2, MoveKeeps
<1> QED BY <1>5, <1>6, <1>7 DEF ReadInvoice

(***************************************************************************)
(* A grant.  A legacy key is used again only when the ledger has it, and then *)
(* nothing is added to the ledger.                                            *)
(***************************************************************************)
LEMMA GrantAdds ==
  ASSUME IInv, NEW h \in Handlers, GrantCredits(h)
  PROVE  ledger' \in SUBSET Grants /\ \A g \in ledger' : KeyOrder(g)
<1> DEFINE t == task[h]
           row == [key |-> GrantKey(t), sub |-> t.ev.sub, plan |-> t.plan, month |-> t.period]
<1>1. Busy(h) /\ t.pc = "granting"
  BY DEF GrantCredits, At, Busy
<1>2. /\ TypeOK /\ t \in Task /\ t.ev \in sent
      /\ OneTime(t.ev) \/ (t.ev.type \in SubscriptionTypes /\ Known(t.plan))
      /\ t.ev.type \in SubscriptionTypes => t.ev.sub \in Subs
      /\ t.ev.type \notin SubscriptionTypes => t.ev.pay \in Payments
  BY <1>1, AtWork DEF TaskOrder
<1>3. t.plan \in Nat /\ t.period \in Nat /\ t.ev.sub \in Subs \cup {NoSub}
  BY <1>2, SentType DEF Task
<1>4. CASE HasIdempotencyKey(GrantKey(t))
  BY <1>2, <1>4 DEF GrantCredits, IInv, TypeOK
<1>5. CASE ~HasIdempotencyKey(GrantKey(t))
  <2>1. ledger' = ledger \cup {row}
    BY <1>5 DEF GrantCredits
  <2>2. row \in Grants /\ KeyOrder(row)
    <3>1. CASE OneTime(t.ev)
      <4>1. GrantKey(t) = <<"payment", t.ev.pay, NoPlan, 0>> /\ t.ev.pay \in Payments
        BY <1>2, <3>1 DEF GrantKey, OneTime, SubscriptionTypes
      <4>2. GrantKey(t) \in Keys
        BY <4>1 DEF Keys, NoPlan
      <4>3. t.ev.sub = NoSub
        BY <3>1 DEF OneTime
      <4> QED BY <1>3, <4>2, <4>3 DEF Grants, KeyOrder
    <3>2. CASE ~OneTime(t.ev)
      <4>1. t.ev.sub \in Subs /\ t.ev.sub # NoSub /\ Known(t.plan)
        BY <1>2, <3>2, WebhookAssumption
      <4> DEFINE granted == HasIdempotencyKey(LegacyKey(t.ev.sub, t.period))
      <4>2. GrantKey(t) = subscriptionGrantKey(t.ev.sub, t.plan, t.previous, t.ev.type, t.period, granted)
        BY <3>2 DEF GrantKey
      <4>3. ~(t.plan = t.previous /\ granted)
        <5>1. SUFFICES ASSUME t.plan = t.previous /\ granted PROVE FALSE
          OBVIOUS
        <5>2. GrantKey(t) = LegacyKey(t.ev.sub, t.period)
          BY <4>1, <4>2, <5>1 DEF subscriptionGrantKey
        <5> QED BY <1>5, <5>1, <5>2
      <4> HIDE DEF granted
      <4>4. GrantKey(t) = <<"period", t.ev.sub, t.plan, t.period>>
        BY <4>1, <4>2, <4>3 DEF subscriptionGrantKey
      <4>5. GrantKey(t) \in Keys
        BY <1>3, <4>1, <4>4 DEF Keys
      <4> QED BY <1>3, <4>4, <4>5 DEF Grants, KeyOrder, PeriodKey
    <3> QED BY <3>1, <3>2
  <2> QED BY <1>2, <2>1, <2>2 DEF IInv, TypeOK
<1> QED BY <1>4, <1>5

LEMMA GrantKeeps ==
  ASSUME IInv, NEW h \in Handlers, GrantCredits(h)
  PROVE  IInv'
<1> DEFINE p == IF OneTime(task[h].ev) THEN "invoicing" ELSE "attaching"
           t == [task[h] EXCEPT !.pc = p]
<1>1. Busy(h) /\ task[h].pc = "granting" /\ GoTo(h, p)
  BY DEF GrantCredits, At, Busy
<1>2. /\ TypeOK /\ task[h] \in Task
      /\ p = "attaching" => task[h].ev.type \in SubscriptionTypes
  BY <1>1, AtWork DEF TaskOrder
<1>3. p \in {"invoicing", "attaching"} /\ p \in Places
  BY DEF Places
<1> HIDE DEF p
<1>4. t \in Task /\ task' = [task EXCEPT ![h] = t]
  BY <1>1, <1>2, <1>3, GoType
<1>5. t.pc = p /\ t.ev = task[h].ev /\ t.status = task[h].status /\ t.plan = task[h].plan
  BY <1>2 DEF Task
<1> HIDE DEF t
<1>6. Fits(h, t)
  BY <1>2, <1>3, <1>4, <1>5 DEF Fits
<1>7. UNCHANGED <<month, history, checkout, live, sent, plan, stored, invoices, outstanding, failures, upset>>
  BY DEF GrantCredits, provider
<1>8. /\ live' \in SUBSET Subs /\ outstanding' \in SUBSET sent /\ failures' \in Nat
      /\ plan' \in Nat /\ stored' \in Subs \cup {NoSub}
      /\ upset' \in SUBSET {"overlap", "blind", "dead", "lag"}
      /\ invoices' \in [Payments -> {NoInvoice} \cup Invoice]
  BY <1>2, <1>7 DEF TypeOK
<1>9. \A q \in Billed : invoices'[q] # NoInvoice
  BY <1>7 DEF Billed
<1>10. RefundsHappened'
  BY <1>7, RefundsStayTrue
<1>11. ledger' \in SUBSET Grants /\ \A g \in ledger' : KeyOrder(g)
  BY GrantAdds
<1>12. /\ UNCHANGED <<month, history, checkout, sent>>
       /\ UNCHANGED invoices /\ upset \subseteq upset'
  BY <1>7
<1> QED BY <1>1, <1>4, <1>6, <1>8, <1>9, <1>10, <1>11, <1>12, StepKeeps

(***************************************************************************)
(* An invoice that is saved.                                                  *)
(***************************************************************************)

\* What RecordInvoice picks: the payment is one the provider told of, and the
\* status one that happened.
LEMMA RecordPicks ==
  ASSUME IInv, NEW h \in Handlers, RecordInvoice(h)
  PROVE  \E p \in Payments : \E status \in RefundStatus :
            /\ Upsert(p, task[h].plan, status, task[h].ev.sub)
            /\ upset' = upset \cup Lag(p, status)
            /\ status = "full" => Refunded(p, FALSE)
<1> DEFINE t == task[h]
           payments == IF t.ev.type \in SubscriptionTypes THEN PaymentsOf(t.ev.sub) ELSE {t.ev.pay}
<1>1. Busy(h)
  BY DEF RecordInvoice, At, Busy
<1>2. /\ TypeOK /\ t \in Task /\ TaskOrder(h)
      /\ t.ev.type \notin SubscriptionTypes => t.ev.pay \in Payments
  BY <1>1, AtWork
<1>3. PICK p \in payments : \E status \in IF t.status = "" THEN Answers(p) ELSE {t.status} :
        /\ Upsert(p, t.plan, status, t.ev.sub)
        /\ upset' = upset \cup Lag(p, status)
  BY DEF RecordInvoice
<1>4. p \in Payments
  <2>1. CASE t.ev.type \in SubscriptionTypes
    <3>1. PICK f \in sent : f.type = "payment" /\ p = f.pay
      BY <1>3, <2>1 DEF PaymentsOf
    <3> QED BY <1>2, <3>1, SentType DEF SubscriptionTypes
  <2>2. CASE t.ev.type \notin SubscriptionTypes
    BY <1>2, <1>3, <2>2
  <2> QED BY <2>1, <2>2
<1>5. PICK status \in IF t.status = "" THEN Answers(p) ELSE {t.status} :
        /\ Upsert(p, t.plan, status, t.ev.sub)
        /\ upset' = upset \cup Lag(p, status)
  BY <1>3
<1>6. status \in RefundStatus /\ (status = "full" => Refunded(p, FALSE))
  <2>1. CASE t.status = ""
    BY <1>5, <2>1 DEF Answers, Truth, RefundStatus
  <2>2. CASE t.status # ""
    <3>1. status = t.status /\ t.ev.type = "refund" /\ t.status \in RefundStatus
      BY <1>2, <1>5, <2>2 DEF TaskOrder, Task
    <3>2. p = t.ev.pay
      BY <1>3, <3>1 DEF SubscriptionTypes
    <3> QED BY <1>1, <1>2, <3>1, <3>2 DEF TaskOrder, Busy
  <2> QED BY <2>1, <2>2
<1> QED BY <1>4, <1>5, <1>6

\* The invoice after Upsert.
LEMMA UpsertDoes ==
  ASSUME TypeOK, RefundsHappened, NEW p \in Payments, NEW n \in Nat, NEW status \in RefundStatus,
         NEW s \in Subs \cup {NoSub}, Upsert(p, n, status, s), sent' = sent,
         status = "full" => Refunded(p, FALSE)
  PROVE  /\ invoices' \in [Payments -> {NoInvoice} \cup Invoice]
         /\ \A q \in Billed : invoices'[q] # NoInvoice
         /\ RefundsHappened'
         /\ \A q \in Billed \ {p} : invoices'[q] = invoices[q]
         /\ p \in Billed => invoices'[p].refund = Or(status, "", invoices[p].refund)
<1> DEFINE new == IF invoices[p] = NoInvoice
                  THEN [plan |-> n, refund |-> status, sub |-> s]
                  ELSE [plan |-> Or(n, NoPlan, invoices[p].plan),
                        refund |-> Or(status, "", invoices[p].refund),
                        sub |-> Or(s, NoSub, invoices[p].sub)]
<1>1. invoices \in [Payments -> {NoInvoice} \cup Invoice]
  BY DEF TypeOK
<1>2. invoices' = [invoices EXCEPT ![p] = new]
  BY <1>1 DEF Upsert
<1>3. /\ new \in Invoice
      /\ new.refund = "full" => Refunded(p, FALSE)
      /\ invoices[p] # NoInvoice => new.refund = Or(status, "", invoices[p].refund)
  <2>1. CASE invoices[p] = NoInvoice
    BY <2>1 DEF Invoice
  <2>2. CASE invoices[p] # NoInvoice
    <3>1. invoices[p] \in Invoice /\ (invoices[p].refund = "full" => Refunded(p, FALSE))
      BY <1>1, <2>2 DEF RefundsHappened, Billed
    <3> QED BY <2>2, <3>1 DEF Invoice, Or
  <2> QED BY <2>1, <2>2
<1> HIDE DEF new
<1>4. /\ invoices' \in [Payments -> {NoInvoice} \cup Invoice]
      /\ invoices'[p] = new /\ \A q \in Payments \ {p} : invoices'[q] = invoices[q]
  BY <1>1, <1>2, <1>3
<1>5. \A q \in Billed : invoices'[q] # NoInvoice
  BY <1>3, <1>4, WebhookAssumption DEF Billed
<1>6. RefundsHappened'
  <2> SUFFICES ASSUME NEW q \in Payments, invoices'[q] # NoInvoice, invoices'[q].refund = "full"
               PROVE  Refunded(q, FALSE)'
    BY DEF RefundsHappened, Billed
  <2>1. Refunded(q, FALSE)
    BY <1>3, <1>4 DEF RefundsHappened, Billed
  <2> QED BY <2>1 DEF Refunded
<1> QED BY <1>3, <1>4, <1>5, <1>6 DEF Billed

LEMMA RecordKeeps ==
  ASSUME IInv, NEW h \in Handlers, RecordInvoice(h)
  PROVE  IInv'
<1> DEFINE p == AfterInvoice(task[h])
           t == [task[h] EXCEPT !.pc = p]
<1>1. Busy(h) /\ GoTo(h, p)
  BY DEF RecordInvoice, At, Busy
<1>2. /\ TypeOK /\ RefundsHappened /\ task[h] \in Task /\ task[h].ev \in sent
      /\ p \in {"attaching", "closing"} /\ (p = "attaching" => OneTime(task[h].ev))
  BY <1>1, AtWork DEF IInv, AfterInvoice
<1>3. p \in Places
  BY <1>2 DEF Places
<1> HIDE DEF p
<1>4. t \in Task /\ task' = [task EXCEPT ![h] = t]
  BY <1>1, <1>2, <1>3, GoType
<1>5. t.pc = p /\ t.ev = task[h].ev /\ t.status = task[h].status /\ t.plan = task[h].plan
  BY <1>2 DEF Task
<1> HIDE DEF t
<1>6. Fits(h, t)
  BY <1>2, <1>4, <1>5 DEF Fits
<1>7. UNCHANGED <<month, history, checkout, live, sent, plan, stored, ledger, outstanding, failures>>
  BY DEF RecordInvoice, provider
<1>8. PICK q \in Payments, status \in RefundStatus :
        /\ Upsert(q, task[h].plan, status, task[h].ev.sub)
        /\ upset' = upset \cup Lag(q, status)
        /\ status = "full" => Refunded(q, FALSE)
  BY RecordPicks
<1>9. task[h].plan \in Nat /\ task[h].ev.sub \in Subs \cup {NoSub} /\ sent' = sent
  BY <1>2, <1>7, SentType DEF Task
<1>10. /\ invoices' \in [Payments -> {NoInvoice} \cup Invoice]
       /\ \A r \in Billed : invoices'[r] # NoInvoice
       /\ RefundsHappened'
  BY <1>2, <1>8, <1>9, UpsertDoes
<1>11. upset \subseteq upset' /\ upset' \in SUBSET {"overlap", "blind", "dead", "lag"}
  BY <1>2, <1>8 DEF Lag, TypeOK
<1>12. /\ live' \in SUBSET Subs /\ outstanding' \in SUBSET sent /\ failures' \in Nat
       /\ plan' \in Nat /\ stored' \in Subs \cup {NoSub} /\ ledger' \in SUBSET Grants
  BY <1>2, <1>7 DEF TypeOK
<1>13. /\ \A g \in ledger' : KeyOrder(g)
       /\ UNCHANGED <<month, history, checkout, sent>> /\ t.pc # "updating"
  BY <1>2, <1>5, <1>7 DEF IInv
<1> QED BY <1>1, <1>4, <1>6, <1>10, <1>11, <1>12, <1>13, StepKeeps

LEMMA UpdateKeeps ==
  ASSUME IInv, NEW h \in Handlers, UpdateRefundStatus(h)
  PROVE  IInv'
<1> DEFINE t == [task[h] EXCEPT !.pc = "closing"]
           p == task[h].ev.pay
<1>1. Busy(h) /\ task[h].pc = "updating" /\ GoTo(h, "closing") /\ "closing" \in Places
  BY DEF UpdateRefundStatus, At, Busy, Places
<1>2. /\ TypeOK /\ RefundsHappened /\ task[h] \in Task /\ p \in Payments /\ invoices[p] # NoInvoice
      /\ task[h].status = "full" => Refunded(p, FALSE)
  BY <1>1, AtWork DEF IInv, TaskOrder, SubscriptionTypes
<1>3. t \in Task /\ task' = [task EXCEPT ![h] = t]
  BY <1>1, <1>2, GoType
<1>4. t.pc = "closing" /\ t.ev = task[h].ev /\ t.status = task[h].status
  BY <1>2 DEF Task
<1> HIDE DEF t
<1>5. Fits(h, t)
  BY <1>3, <1>4 DEF Fits
<1>6. UNCHANGED <<month, history, checkout, live, sent, plan, stored, ledger, outstanding, failures, upset>>
  BY DEF UpdateRefundStatus, provider
<1>7. /\ invoices' \in [Payments -> {NoInvoice} \cup Invoice]
      /\ invoices'[p] # NoInvoice /\ invoices'[p].refund = task[h].status
      /\ \A q \in Payments \ {p} : invoices'[q] = invoices[q]
  <2> DEFINE new == [invoices[p] EXCEPT !.refund = task[h].status]
  <2>1. invoices \in [Payments -> {NoInvoice} \cup Invoice] /\ invoices[p] \in Invoice
    BY <1>2 DEF TypeOK
  <2>2. new \in Invoice /\ new.refund = task[h].status /\ new # NoInvoice
    BY <1>2, <2>1, WebhookAssumption DEF Invoice, Task
  <2>3. invoices' = [invoices EXCEPT ![p] = new]
    BY <2>1 DEF UpdateRefundStatus
  <2> HIDE DEF new
  <2> QED BY <1>2, <2>1, <2>2, <2>3
<1>8. \A q \in Billed : invoices'[q] # NoInvoice
  BY <1>7 DEF Billed
<1>9. RefundsHappened'
  <2> SUFFICES ASSUME NEW q \in Payments, invoices'[q] # NoInvoice, invoices'[q].refund = "full"
               PROVE  Refunded(q, FALSE)'
    BY DEF RefundsHappened, Billed
  <2>1. Refunded(q, FALSE)
    BY <1>2, <1>7 DEF RefundsHappened, Billed
  <2> QED BY <1>6, <2>1 DEF Refunded
<1>10. /\ live' \in SUBSET Subs /\ outstanding' \in SUBSET sent /\ failures' \in Nat
       /\ plan' \in Nat /\ stored' \in Subs \cup {NoSub} /\ ledger' \in SUBSET Grants
       /\ upset' \in SUBSET {"overlap", "blind", "dead", "lag"}
  BY <1>2, <1>6 DEF TypeOK
<1>11. /\ \A g \in ledger' : KeyOrder(g)
       /\ UNCHANGED <<month, history, checkout, sent>> /\ t.pc # "updating" /\ upset \subseteq upset'
  BY <1>4, <1>6 DEF IInv
<1> QED BY <1>1, <1>3, <1>5, <1>7, <1>8, <1>9, <1>10, <1>11, StepKeeps

(***************************************************************************)
(* The invariant.                                                             *)
(***************************************************************************)
LEMMA OutsideKeeps ==
  ASSUME IInv,
         NextMonth \/ (\E s \in Subs : CreateCheckout(s) \/ Pay(s)) \/ \E e \in history : SendLater(e)
  PROVE  IInv' /\ UNCHANGED <<database, task, upset>>
<1>1. TypeOK
  BY DEF IInv
<1>2. TypeOK' /\ sent \subseteq sent' /\ UNCHANGED <<database, task, upset>>
  BY <1>1, OutsideType
<1>3. UNCHANGED <<ledger, invoices, task, upset>>
  BY <1>2 DEF database
<1>4. \A h \in Handlers : TaskOrder(h)'
  <2> SUFFICES ASSUME NEW h \in Handlers PROVE TaskOrder(h)'
    OBVIOUS
  <2>1. TaskOrder(h) /\ (\A p : Refunded(p, FALSE) => Refunded(p, FALSE)')
    BY <1>2 DEF IInv, Refunded
  <2> QED BY <1>2, <1>3, <2>1 DEF TaskOrder
<1>5. OneAtATime' /\ \A g \in ledger' : KeyOrder(g)
  BY <1>3 DEF IInv, OneAtATime, Busy
<1>6. RefundsHappened'
  BY <1>2, <1>3, RefundsStayTrue
<1> QED BY <1>2, <1>4, <1>5, <1>6 DEF IInv

LEMMA InitHolds == Init => IInv
<1> SUFFICES ASSUME Init PROVE IInv
  OBVIOUS
<1>1. /\ month = 0 /\ failures = 0 /\ upset = {} /\ history \in Histories
      /\ sent = {} /\ outstanding = {} /\ invoices = [p \in Payments |-> NoInvoice]
      /\ task = [h \in Handlers |-> Rest]
  BY DEF Init
<1>2. /\ checkout \in [Subs -> {"none", "open", "paid"}] /\ live \in SUBSET Subs
      /\ plan \in Nat /\ stored \in Subs \cup {NoSub}
      /\ ledger \in SUBSET Grants /\ \A g \in ledger : KeyOrder(g)
  <2>1. CASE /\ checkout = [s \in Subs |-> "none"]
             /\ live = {} /\ plan = NoPlan /\ stored = NoSub /\ ledger = {}
    BY <2>1 DEF NoPlan
  <2>2. ASSUME NEW s \in Legacy,
               checkout = [t \in Subs |-> IF t = s THEN "paid" ELSE "none"],
               live = {s}, plan = PlanOf[s], stored = s, ledger = {LegacyGrant(s)}
        PROVE  /\ checkout \in [Subs -> {"none", "open", "paid"}] /\ live \in SUBSET Subs
               /\ plan \in Nat /\ stored \in Subs \cup {NoSub}
               /\ ledger \in SUBSET Grants /\ \A g \in ledger : KeyOrder(g)
    <3>1. s \in Subs /\ PlanOf[s] \in Nat
      BY WebhookAssumption
    <3>2. LegacyKey(s, 0) \in Keys
      BY <3>1 DEF LegacyKey, Keys, NoPlan
    <3>3. LegacyGrant(s) \in Grants /\ LegacyGrant(s).sub = s
      BY <3>1, <3>2 DEF LegacyGrant, Grants
    <3> QED BY <2>2, <3>1, <3>3 DEF KeyOrder
  <2> QED BY <2>1, <2>2 DEF Init
<1>3. TypeOK
  BY <1>1, <1>2, RestType DEF TypeOK, Task
<1>4. \A h \in Handlers : task[h].pc = "idle" /\ task[h].status = ""
  BY <1>1, RestType
<1>5. (\A h \in Handlers : TaskOrder(h)) /\ OneAtATime
  BY <1>4 DEF TaskOrder, OneAtATime, Busy
<1>6. RefundsHappened
  BY <1>1 DEF RefundsHappened, Billed
<1> QED BY <1>2, <1>3, <1>5, <1>6 DEF IInv

LEMMA NextHolds == IInv /\ [Next]_vars => IInv'
<1> SUFFICES ASSUME IInv, [Next]_vars PROVE IInv'
  OBVIOUS
<1>1. CASE UNCHANGED vars
  <2>1. UNCHANGED <<month, history, checkout, live, sent, plan, stored, ledger, invoices,
                    outstanding, task, failures, upset>>
    BY <1>1 DEF vars, provider, database
  <2>2. TypeOK'
    BY <2>1 DEF IInv, TypeOK
  <2>3. \A h \in Handlers : TaskOrder(h)'
    BY <2>1 DEF IInv, TaskOrder, Refunded
  <2>4. OneAtATime' /\ \A g \in ledger' : KeyOrder(g)
    BY <2>1 DEF IInv, OneAtATime, Busy
  <2>5. RefundsHappened'
    BY <2>1, RefundsStayTrue
  <2> QED BY <2>2, <2>3, <2>4, <2>5 DEF IInv
<1>2. ASSUME NEW h \in Handlers, Step(h) \/ Fail(h)
      PROVE  IInv'
  BY <1>2, ReceiveKeeps, DecideKeeps, GrantKeeps, AttachKeeps, PersistKeeps, StoreKeeps, SweepKeeps,
     RecordKeeps, NoPaymentKeeps, EndKeeps, ReadKeeps, UpdateKeeps DEF Step
<1>3. CASE NextMonth \/ (\E s \in Subs : CreateCheckout(s) \/ Pay(s)) \/ \E e \in history : SendLater(e)
  BY <1>3, OutsideKeeps
<1> QED BY <1>1, <1>2, <1>3 DEF Next

\* What the webhook does to the organization stays what the handlers think it is:
\* the inductive invariant, which every theorem below follows from.
THEOREM WebhookInvariant == Spec => []IInv
BY InitHolds, NextHolds, PTL DEF Spec

\* Every variable keeps its type, a delivery's record and the ledger's rows included.
THEOREM TypeCorrect == Spec => []TypeOK
<1>1. IInv => TypeOK
  BY DEF IInv
<1> QED BY <1>1, WebhookInvariant, PTL

(***************************************************************************)
(* A month of a subscription is granted once, whatever arrives, fails,        *)
(* overlaps or reads a stale plan, unless it is the month in which the        *)
(* subscription was granted under the old key.                                *)
(***************************************************************************)
OldKeyMonth(g) == g.sub \in Legacy /\ g.month = 0

OnceUnderNewKeys ==
  \A g, k \in ledger :
    g.sub # NoSub /\ g.sub = k.sub /\ g.plan = k.plan /\ g.month = k.month /\ ~OldKeyMonth(g) => g = k

THEOREM GrantsUnderNewKeys == Spec => []OnceUnderNewKeys
<1>1. IInv => OnceUnderNewKeys
  <2> SUFFICES ASSUME IInv, NEW g \in ledger, NEW k \in ledger,
                      g.sub # NoSub, g.sub = k.sub, g.plan = k.plan, g.month = k.month, ~OldKeyMonth(g)
               PROVE  g = k
    BY DEF OnceUnderNewKeys
  <2>1. \A s : LegacyGrant(s).month = 0
    BY DEF LegacyGrant
  <2>2. ~OldKeyMonth(k)
    BY DEF OldKeyMonth
  <2>3. g.key = PeriodKey(g) /\ k.key = PeriodKey(k)
    BY <2>1, <2>2 DEF IInv, KeyOrder, OldKeyMonth
  <2>4. g.key = k.key
    BY <2>3 DEF PeriodKey
  <2>5. g \in Grants /\ k \in Grants
    BY DEF IInv, TypeOK
  <2> QED BY <2>4, <2>5 DEF Grants
<1> QED BY <1>1, WebhookInvariant, PTL

(***************************************************************************)
(* A full refund stays: deliveries one at a time, and answers of the provider *)
(* that are not behind, never make it a partial one.                          *)
(***************************************************************************)
THEOREM RefundsStay == Spec => FullRefundStays
<1> DEFINE Stays == upset' \cap {"overlap", "lag"} = {} =>
                      \A p \in Billed : invoices[p].refund = "full" => invoices'[p].refund = "full"
<1>1. ASSUME IInv, NEW h \in Handlers, RecordInvoice(h) PROVE Stays
  <2>1. Busy(h)
    BY <1>1 DEF RecordInvoice, At, Busy
  <2>2. /\ TypeOK /\ RefundsHappened /\ task[h].plan \in Nat
        /\ task[h].ev.sub \in Subs \cup {NoSub} /\ sent' = sent
    BY <1>1, <2>1, AtWork, SentType DEF IInv, Task, RecordInvoice, provider
  <2>3. PICK q \in Payments, status \in RefundStatus :
          /\ Upsert(q, task[h].plan, status, task[h].ev.sub)
          /\ upset' = upset \cup Lag(q, status)
          /\ status = "full" => Refunded(q, FALSE)
    BY <1>1, RecordPicks
  <2>4. /\ \A r \in Billed \ {q} : invoices'[r] = invoices[r]
        /\ q \in Billed => invoices'[q].refund = Or(status, "", invoices[q].refund)
    BY <2>2, <2>3, UpsertDoes
  <2>5. ASSUME upset' \cap {"overlap", "lag"} = {}, q \in Billed, invoices[q].refund = "full"
        PROVE  invoices'[q].refund = "full"
    <3>1. status \in {"", Truth(q)}
      BY <2>3, <2>5 DEF Lag
    <3>2. Truth(q) = "full"
      BY <2>2, <2>5 DEF RefundsHappened, Truth
    <3> QED BY <2>4, <2>5, <3>1, <3>2 DEF Or
  <2> QED BY <2>4, <2>5
<1>2. ASSUME IInv, NEW h \in Handlers, UpdateRefundStatus(h) PROVE Stays
  <2>1. task[h].pc = "updating" /\ TaskOrder(h) /\ UNCHANGED upset
    BY <1>2 DEF UpdateRefundStatus, At, IInv
  <2>2. invoices' = [invoices EXCEPT ![task[h].ev.pay].refund = task[h].status]
    BY <1>2 DEF UpdateRefundStatus
  <2>3. invoices \in [Payments -> {NoInvoice} \cup Invoice]
    BY <1>2 DEF IInv, TypeOK
  <2> QED BY <2>1, <2>2, <2>3 DEF TaskOrder, Billed
<1>3. ASSUME IInv, [Next]_vars, UNCHANGED invoices PROVE Stays
  BY <1>3
<1>4. IInv /\ [Next]_vars =>
        \/ UNCHANGED invoices
        \/ \E h \in Handlers : RecordInvoice(h) \/ UpdateRefundStatus(h)
  <2> SUFFICES ASSUME IInv, [Next]_vars
               PROVE  \/ UNCHANGED invoices
                      \/ \E h \in Handlers : RecordInvoice(h) \/ UpdateRefundStatus(h)
    OBVIOUS
  <2>1. ASSUME NEW h \in Handlers, Step(h) \/ Fail(h), ~RecordInvoice(h), ~UpdateRefundStatus(h)
        PROVE  UNCHANGED invoices
    BY <2>1, ZenonT(60) DEF Step, Fail, Receive, ReceiveSubscription, ReceiveCharge, ReceivePayment, ReceiveUnknown,
       ReceiveRefund, Started, Decide, GrantCredits, AttachPlan, PersistSubscription,
       SetDodoSubscriptionID, FindLeftovers, CancelSubscription, NoPaymentListed, InvoiceFails,
       ReadInvoice, Answer, provider, database
  <2>2. CASE UNCHANGED vars
    BY <2>2 DEF vars, database
  <2>3. CASE NextMonth \/ (\E s \in Subs : CreateCheckout(s) \/ Pay(s)) \/ \E e \in history : SendLater(e)
    BY <2>3, OutsideKeeps DEF database
  <2> QED BY <2>1, <2>2, <2>3 DEF Next
<1>5. IInv /\ [Next]_vars => [Stays]_vars
  BY <1>1, <1>2, <1>3, <1>4
<1> QED BY <1>5, WebhookInvariant, PTL DEF Spec, FullRefundStays

(***************************************************************************)
(* What the organization has when every event was answered.  An event is      *)
(* answered at the end of its delivery only, so each step leaves behind what  *)
(* the next ones and the answer rely on.                                      *)
(***************************************************************************)
Names(e) == e.type \in SubscriptionTypes /\ e.names
PaidNamed(e) == Names(e) \/ (OneTime(e) /\ e.names)
HasPlan(p) == p = NoPlan \/ \E g \in ledger : Buys(g, p)
Settled(s) == Granted(s) \/ s \notin live

\* A delivery's plan is its event's, and is granted before it is attached; the plan it
\* read is one the organization has had.
PaidTask(h) ==
  LET t == task[h]
  IN Busy(h) =>
       /\ t.previous <= plan /\ HasPlan(t.previous)
       /\ t.plan = t.ev.plan \/ (t.plan = NoPlan /\ ~t.ev.names)
       /\ OneTime(t.ev) => t.pc \in {"granting", "invoicing", "attaching", "closing"}
       /\ t.pc \in {"attaching", "invoicing"} /\ OneTime(t.ev) => HasPlan(t.plan)
       /\ t.pc = "attaching" /\ t.ev.type \in SubscriptionTypes => HasPlan(t.plan) /\ Granted(t.ev.sub)
       /\ t.pc \notin {"deciding", "granting", "attaching"} /\ Names(t.ev) => t.ev.plan <= plan
       /\ t.pc = "closing" /\ OneTime(t.ev) /\ t.ev.names => t.ev.plan <= plan

\* Alone, a delivery decides twice alike: a mandate it keeps it has granted, a mandate it
\* cancels is not the stored one, unless the organization has left its plan.
AloneTask(h) ==
  LET t == task[h]
  IN /\ t.pc \in {"sweeping", "replacing"} => stored = t.ev.sub
     /\ t.pc = "cancelling" /\ stored \in t.todo => Left(stored)
     /\ t.pc = "persisting" /\ Names(t.ev) => Granted(t.ev.sub) \/ persistDecision(t) = "stale"
     /\ t.pc \in {"storing", "sweeping", "replacing"} /\ Names(t.ev) => Granted(t.ev.sub)
     /\ t.pc = "cancelling" /\ Names(t.ev) => Settled(t.ev.sub) \/ t.ev.sub \in t.todo
     /\ t.pc \in {"invoicing", "closing"} /\ Names(t.ev) => Settled(t.ev.sub)

\* Every grant but a legacy one is of an event, and until that is answered its plan may
\* not have reached the organization.
Source(g) ==
  IF g.sub = NoSub
  THEN \E e \in sent : Pays(e, g) /\ (g.plan = e.plan \/ (g.plan = NoPlan /\ ~e.names))
  ELSE g.plan <= plan \/ \E e \in sent : Tells(e, g.sub) /\ e.plan = g.plan

\* What an answered event has left.
EventPaid(e) ==
  /\ PaidNamed(e) => e.plan <= plan
  /\ "overlap" \notin upset /\ Names(e) => Settled(e.sub)

StoredAlive ==
  {"overlap", "dead"} \cap upset = {} /\ stored # NoSub => stored \in live \/ Left(stored)

PaidInv ==
  /\ \A h \in Handlers : PaidTask(h)
  /\ "overlap" \notin upset => \A h \in Handlers : Busy(h) => AloneTask(h)
  /\ HasPlan(plan)
  /\ \A g \in ledger : Source(g)
  /\ \A e \in sent \ outstanding : EventPaid(e)
  /\ \A e \in sent : e.type \in SubscriptionTypes => checkout[e.sub] = "paid"
  /\ StoredAlive

\* When nothing is left to answer, that is what the property asks.
LEMMA PaidMeans == IInv /\ PaidInv => PaidForWhenQuiet
<1> SUFFICES ASSUME IInv, PaidInv, Quiet
             PROVE  /\ plan # NoPlan => \E g \in ledger : Buys(g, plan)
                    /\ \A g \in ledger : g.plan <= plan \/ LookedUp(g)
                    /\ "overlap" \notin upset =>
                         \A s \in live : (\E e \in sent : Tells(e, s) /\ e.names) => Granted(s)
                    /\ StoredAlive
  BY DEF PaidForWhenQuiet, StoredAlive
<1>1. \A e \in sent : EventPaid(e)
  BY DEF PaidInv, Quiet
<1>2. \A g \in ledger : g.plan <= plan \/ LookedUp(g)
  <2>1. plan \in Nat /\ NoPlan = 0
    BY DEF IInv, TypeOK, NoPlan
  <2>2. ASSUME NEW g \in ledger PROVE g.plan <= plan \/ LookedUp(g)
    <3>1. Source(g)
      BY DEF PaidInv
    <3>2. CASE g.sub = NoSub
      BY <1>1, <2>1, <3>1, <3>2 DEF Source, EventPaid, PaidNamed, Pays, LookedUp
    <3>3. CASE g.sub # NoSub
      BY <1>1, <3>1, <3>3 DEF Source, EventPaid, PaidNamed, Names, LookedUp, Tells
    <3> QED BY <3>2, <3>3
  <2> QED BY <2>2
<1>3. "overlap" \notin upset =>
        \A s \in live : (\E e \in sent : Tells(e, s) /\ e.names) => Granted(s)
  BY <1>1 DEF EventPaid, Names, Settled, Tells
<1> QED BY <1>2, <1>3 DEF PaidInv, HasPlan, Buys, Pays

LEMMA PaidInit == Init => PaidInv
<1> SUFFICES ASSUME Init PROVE PaidInv
  OBVIOUS
<1>1. sent = {} /\ \A h \in Handlers : ~Busy(h)
  BY RestType DEF Init, Busy
<1>2. HasPlan(plan) /\ StoredAlive /\ \A g \in ledger : Source(g)
  <2>1. CASE /\ checkout = [s \in Subs |-> "none"]
             /\ live = {} /\ plan = NoPlan /\ stored = NoSub /\ ledger = {}
    BY <2>1 DEF HasPlan, Buys, Pays, StoredAlive
  <2>2. ASSUME NEW s \in Legacy, live = {s}, plan = PlanOf[s], stored = s, ledger = {LegacyGrant(s)}
        PROVE  HasPlan(plan) /\ StoredAlive /\ \A g \in ledger : Source(g)
    <3>1. s \in Subs /\ PlanOf[s] \in Nat /\ s # NoSub
      BY WebhookAssumption
    <3>2. LegacyGrant(s).plan = plan /\ LegacyGrant(s).sub = s
      BY <2>2 DEF LegacyGrant
    <3>3. \A g \in ledger : Source(g)
      BY <2>2, <3>1, <3>2 DEF Source
    <3> QED BY <2>2, <3>2, <3>3 DEF HasPlan, Buys, Pays, StoredAlive
  <2> QED BY <2>1, <2>2 DEF Init
<1> QED BY <1>1, <1>2 DEF PaidInv, PaidTask

(***************************************************************************)
(* What a step of one delivery leaves true of the rest.                       *)
(***************************************************************************)

\* Nothing granted, sent or attached is taken back.
Grows == plan <= plan' /\ ledger \subseteq ledger' /\ sent \subseteq sent' /\ upset \subseteq upset'

LEMMA Types ==
  ASSUME IInv
  PROVE  /\ plan \in Nat /\ \A h \in Handlers : task[h].plan \in Nat /\ task[h].previous \in Nat
         /\ \A e \in sent : e.plan \in Nat \ {0}
         /\ \A g \in ledger : g.plan \in Nat
         /\ \A e \in sent : e.type \in SubscriptionTypes => e.sub # NoSub
<1>1. TypeOK /\ \A h \in Handlers : task[h] \in Task
  BY DEF IInv, TypeOK, Task
<1>2. \A e \in sent : e.plan \in Nat \ {0} /\ (e.type \in SubscriptionTypes => e.sub # NoSub)
  BY <1>1, SentType, WebhookAssumption
<1> QED BY <1>1, <1>2 DEF TypeOK, Task, Grants

LEMMA GrowsKeeps ==
  ASSUME IInv, IInv', Grows
  PROVE  /\ \A p \in Nat : HasPlan(p) => HasPlan(p)'
         /\ \A s : Granted(s) => Granted(s)'
         /\ \A s : Left(s) => Left(s)'
         /\ \A p \in Nat : p <= plan => p <= plan'
         /\ \A g \in ledger : Source(g) => Source(g)'
<1>1. plan \in Nat /\ plan' \in Nat /\ \A e \in sent : e.plan \in Nat
  BY Types DEF IInv, TypeOK
<1>2. (\A s : Left(s) => Left(s)') /\ \A p \in Nat : p <= plan => p <= plan'
  BY <1>1 DEF Left, Grows
<1>3. ASSUME NEW g \in ledger, Source(g) PROVE Source(g)'
  <2>1. g.plan \in Nat
    BY Types
  <2>2. CASE g.sub = NoSub
    BY <1>3, <2>2 DEF Source, Grows, Pays
  <2>3. CASE g.sub # NoSub
    BY <1>2, <1>3, <2>1, <2>3 DEF Source, Grows, Tells
  <2> QED BY <2>2, <2>3
<1> QED BY <1>2, <1>3 DEF Grows, HasPlan, Buys, Pays, Granted

LEMMA OthersPaid ==
  ASSUME IInv, IInv', PaidInv, Grows, NEW g \in Handlers, task'[g] = task[g]
  PROVE  PaidTask(g)'
<1>1. /\ task[g].previous \in Nat /\ task[g].plan \in Nat
      /\ Busy(g) => task[g].ev.plan \in Nat
  BY Types DEF IInv, TaskOrder, Busy
<1>2. PaidTask(g)
  BY DEF PaidInv
<1>3. /\ \A p \in Nat : HasPlan(p) => HasPlan(p)'
      /\ \A s : Granted(s) => Granted(s)'
      /\ \A p \in Nat : p <= plan => p <= plan'
  BY GrowsKeeps
<1> QED BY <1>1, <1>2, <1>3 DEF PaidTask, Busy

\* A step of the delivery at h.
LEMMA PaidStep ==
  ASSUME IInv, IInv', PaidInv, Grows, NEW h \in Handlers, Busy(h),
         \A g \in Handlers \ {h} : task'[g] = task[g],
         UNCHANGED <<checkout, sent>>, live' \subseteq live,
         \A g \in ledger' \ ledger : Source(g)',
         \A e \in sent : e \in outstanding \ outstanding' => EventPaid(e)',
         HasPlan(plan)', PaidTask(h)',
         "overlap" \notin upset' /\ Busy(h)' => AloneTask(h)',
         StoredAlive'
  PROVE  PaidInv'
<1>1. \A g \in Handlers : PaidTask(g)'
  BY OthersPaid
<1>2. ASSUME "overlap" \notin upset', NEW g \in Handlers, Busy(g)'
      PROVE  AloneTask(g)'
  <2>1. CASE g = h
    BY <1>2, <2>1
  <2>2. CASE g # h
    <3>1. task'[g] = task[g] /\ "overlap" \notin upset
      BY <1>2, <2>2 DEF Grows
    <3>2. Busy(g)
      BY <1>2, <3>1 DEF Busy
    <3> QED BY <2>2, <3>1, <3>2 DEF IInv, OneAtATime
  <2> QED BY <2>1, <2>2
<1>3. ASSUME NEW e \in sent', e \notin outstanding'
      PROVE  EventPaid(e)'
  <2>1. CASE e \in outstanding
    BY <1>3, <2>1
  <2>2. CASE e \notin outstanding
    <3>1. EventPaid(e) /\ e.plan \in Nat /\ e \in sent
      BY <2>2, Types DEF PaidInv
    <3>2. PaidNamed(e) => e.plan <= plan'
      BY <3>1, GrowsKeeps DEF EventPaid
    <3>3. "overlap" \notin upset' /\ Names(e) => Settled(e.sub)'
      BY <3>1, GrowsKeeps DEF EventPaid, Settled, Grows
    <3> QED BY <3>2, <3>3 DEF EventPaid
  <2> QED BY <2>1, <2>2
<1>4. \A g \in ledger' : Source(g)'
  BY GrowsKeeps DEF PaidInv
<1>5. \A e \in sent' : e.type \in SubscriptionTypes => checkout'[e.sub] = "paid"
  BY DEF PaidInv
<1> QED BY <1>1, <1>2, <1>3, <1>4, <1>5 DEF PaidInv

\* One that leaves the organization, the ledger and the mandates alone.
LEMMA PaidMove ==
  ASSUME IInv, IInv', PaidInv, NEW h \in Handlers, Busy(h),
         \A g \in Handlers \ {h} : task'[g] = task[g],
         UNCHANGED <<checkout, sent, live, plan, stored, ledger>>, upset \subseteq upset',
         \A e \in sent : e \in outstanding \ outstanding' => EventPaid(e)',
         PaidTask(h)',
         "overlap" \notin upset' /\ Busy(h)' => AloneTask(h)'
  PROVE  PaidInv'
<1>1. Grows /\ live' \subseteq live /\ UNCHANGED <<checkout, sent>>
  BY Types DEF Grows
<1>2. HasPlan(plan)'
  BY DEF PaidInv, HasPlan, Buys, Pays
<1>3. StoredAlive'
  BY DEF PaidInv, StoredAlive, Left
<1>4. \A g \in ledger' \ ledger : Source(g)'
  OBVIOUS
<1> QED BY <1>1, <1>2, <1>3, <1>4, PaidStep

\* Going on changes the place alone.
LEMMA Went ==
  ASSUME IInv, NEW h \in Handlers, NEW p \in Places, GoTo(h, p)
  PROVE  /\ \A g \in Handlers \ {h} : task'[g] = task[g]
         /\ task'[h].pc = p /\ task'[h].ev = task[h].ev /\ task'[h].plan = task[h].plan
         /\ task'[h].previous = task[h].previous
<1>1. TypeOK /\ task[h] \in Task
  BY DEF IInv, TypeOK, Task
<1> DEFINE t == [task[h] EXCEPT !.pc = p]
<1>2. t \in Task /\ task' = [task EXCEPT ![h] = t] /\ task \in [Handlers -> Task]
  BY <1>1, GoType DEF TypeOK, Task
<1>3. t.pc = p /\ t.ev = task[h].ev /\ t.plan = task[h].plan /\ t.previous = task[h].previous
  BY <1>1 DEF Task
<1> HIDE DEF t
<1> QED BY <1>2, <1>3

\* What the decisions rest on.
LEMMA Decisions ==
  ASSUME NEW t, t.plan \in Nat, t.previous \in Nat, t.ev.sub # NoSub
  PROVE  /\ persistDecision(t) = "keep" => stored = t.ev.sub
         /\ persistDecision(t) = "defer" => t.plan = NoPlan
         /\ persistDecision(t) = "stale" =>
              /\ t.plan # NoPlan /\ t.plan <= t.previous
              /\ stored = t.ev.sub => t.plan < t.previous
BY DEF persistDecision, subscriptionPersistAction, Known, NoPlan

LEMMA SameDecision ==
  ASSUME NEW h \in Handlers, UNCHANGED <<stored, invoices>>,
         task'[h].ev = task[h].ev, task'[h].plan = task[h].plan, task'[h].previous = task[h].previous
  PROVE  persistDecision(task[h])' = persistDecision(task[h])
<1>1. storedPlanOrder' = storedPlanOrder
  BY DEF storedPlanOrder, invoiceSubscriptionRefs, Billed
<1> QED BY <1>1 DEF persistDecision

(***************************************************************************)
(* The steps.                                                                 *)
(***************************************************************************)
LEMMA PaidDecide ==
  ASSUME IInv, IInv', PaidInv, NEW h \in Handlers, Decide(h)
  PROVE  PaidInv'
<1>1. Busy(h) /\ task[h].pc = "deciding"
  BY DEF Decide, At, Busy
<1>2. UNCHANGED <<checkout, sent, live, plan, stored, ledger, outstanding, upset, invoices>>
  BY DEF Decide, provider, database
<1>3. PICK p \in {"granting", "persisting"} :
        GoTo(h, p) /\ (p = "persisting" /\ Known(task[h].plan) => persistDecision(task[h]) \notin {"keep", "adopt"})
  BY DEF Decide
<1>4. p \in Places
  BY DEF Places
<1>5. /\ \A g \in Handlers \ {h} : task'[g] = task[g]
      /\ task'[h].pc = p /\ task'[h].ev = task[h].ev /\ task'[h].plan = task[h].plan
      /\ task'[h].previous = task[h].previous
  BY <1>3, <1>4, Went
<1>6. /\ PaidTask(h) /\ task[h].ev \in sent /\ task[h].ev.type \in SubscriptionTypes
      /\ task[h].plan \in Nat /\ task[h].previous \in Nat /\ plan \in Nat
      /\ task[h].ev.plan \in Nat \ {0} /\ task[h].ev.sub # NoSub
  BY <1>1, Types, AtWork DEF PaidInv, TaskOrder
<1>7. p = "persisting" /\ Names(task[h].ev) => persistDecision(task[h]) = "stale"
  <2> SUFFICES ASSUME p = "persisting", Names(task[h].ev) PROVE persistDecision(task[h]) = "stale"
    OBVIOUS
  <2>1. Known(task[h].plan)
    BY <1>1, <1>6 DEF PaidTask, Names, Known, NoPlan
  <2>2. persistDecision(task[h]) \in {"stale", "defer"}
    BY <1>3, <2>1, Actions
  <2> QED BY <1>6, <2>1, <2>2, Decisions DEF Known
<1>8. PaidTask(h)'
  <2>1. p = "persisting" /\ Names(task[h].ev) => task[h].ev.plan <= plan
    <3> SUFFICES ASSUME p = "persisting", Names(task[h].ev) PROVE task[h].ev.plan <= plan
      OBVIOUS
    <3>1. task[h].plan <= task[h].previous
      BY <1>6, <1>7, Decisions
    <3>2. task[h].plan = task[h].ev.plan /\ task[h].previous <= plan
      BY <1>1, <1>6 DEF PaidTask, Names
    <3> QED BY <1>6, <3>1, <3>2
  <2> QED BY <1>1, <1>2, <1>5, <1>6, <2>1 DEF PaidTask, Busy, HasPlan, Buys, Pays, Granted
<1>9. AloneTask(h)'
  BY <1>2, <1>5, <1>7, SameDecision DEF AloneTask
<1>10. upset \subseteq upset' /\ \A e \in sent : e \in outstanding \ outstanding' => EventPaid(e)'
  BY <1>2
<1> QED BY <1>1, <1>2, <1>5, <1>8, <1>9, <1>10, PaidMove

LEMMA PaidAttach ==
  ASSUME IInv, IInv', PaidInv, NEW h \in Handlers, AttachPlan(h)
  PROVE  PaidInv'
<1> DEFINE p == IF OneTime(task[h].ev) THEN "closing" ELSE "persisting"
<1>1. Busy(h) /\ task[h].pc = "attaching" /\ GoTo(h, p)
  BY DEF AttachPlan, At, Busy
<1>2. /\ UNCHANGED <<checkout, sent, live, stored, ledger, outstanding, upset>>
      /\ plan' = IF plan <= task[h].plan THEN task[h].plan ELSE plan
  BY DEF AttachPlan, SetPlanSlugIfHigher, provider
<1>3. p \in Places
  BY DEF Places
<1>4. /\ \A g \in Handlers \ {h} : task'[g] = task[g]
      /\ task'[h].pc = p /\ task'[h].ev = task[h].ev /\ task'[h].plan = task[h].plan
      /\ task'[h].previous = task[h].previous
  BY <1>1, <1>3, Went
<1>5. /\ PaidTask(h) /\ task[h].ev \in sent
      /\ OneTime(task[h].ev) \/ task[h].ev.type \in SubscriptionTypes
      /\ task[h].plan \in Nat /\ task[h].previous \in Nat /\ plan \in Nat /\ task[h].ev.plan \in Nat
  BY <1>1, Types, AtWork DEF PaidInv, TaskOrder
<1>6. Grows
  BY <1>2, <1>5 DEF Grows
<1>7. HasPlan(task[h].plan) /\ (task[h].ev.type \in SubscriptionTypes => Granted(task[h].ev.sub))
  BY <1>1, <1>5 DEF PaidTask
<1>8. HasPlan(plan)'
  BY <1>2, <1>7 DEF PaidInv, HasPlan, Buys, Pays
<1>9. PaidTask(h)'
  <2>1. task[h].plan <= plan' /\ task[h].previous <= plan' /\ HasPlan(task[h].previous)
    BY <1>1, <1>2, <1>5 DEF PaidTask
  <2>2. task[h].plan = task[h].ev.plan \/ (task[h].plan = NoPlan /\ ~task[h].ev.names)
    BY <1>1, <1>5 DEF PaidTask
  <2>3. p \in {"closing", "persisting"} /\ (p = "persisting" => ~OneTime(task[h].ev))
    OBVIOUS
  <2> HIDE DEF p
  <2> QED BY <1>2, <1>4, <2>1, <2>2, <2>3 DEF PaidTask, HasPlan, Buys, Pays, Names
<1>10. AloneTask(h)'
  <2>1. p = "persisting" \/ (p = "closing" /\ ~Names(task[h].ev))
    BY DEF Names, OneTime, SubscriptionTypes
  <2> HIDE DEF p
  <2> QED BY <1>2, <1>4, <1>5, <1>7, <2>1 DEF AloneTask, Granted, Names, OneTime, SubscriptionTypes
<1>11. StoredAlive'
  BY <1>2, <1>6, GrowsKeeps DEF PaidInv, StoredAlive
<1>12. /\ UNCHANGED <<checkout, sent>> /\ live' \subseteq live
       /\ \A g \in ledger' \ ledger : Source(g)'
       /\ \A e \in sent : e \in outstanding \ outstanding' => EventPaid(e)'
  BY <1>2
<1> QED BY <1>1, <1>4, <1>6, <1>8, <1>9, <1>10, <1>11, <1>12, PaidStep

LEMMA PaidPersist ==
  ASSUME IInv, IInv', PaidInv, NEW h \in Handlers, PersistSubscription(h)
  PROVE  PaidInv'
<1> DEFINE t == task[h]
           action == persistDecision(t)
           pc == CASE action = "keep" -> "sweeping" [] action = "adopt" -> "storing"
                   [] action = "stale" -> "cancelling" [] action = "defer" -> "invoicing"
           prior == IF action = "adopt" THEN stored ELSE NoSub
           todo == IF action = "stale" THEN {t.ev.sub} ELSE {}
           next == [t EXCEPT !.pc = pc, !.prior = prior, !.todo = todo]
<1>1. /\ Busy(h) /\ t.pc = "persisting" /\ task' = [task EXCEPT ![h] = next]
  BY DEF PersistSubscription, At, Busy
<1>2. UNCHANGED <<checkout, sent, live, plan, stored, ledger, outstanding, upset>>
  BY DEF PersistSubscription, provider, database
<1>3. /\ task \in [Handlers -> Task] /\ t \in Task /\ PaidTask(h) /\ t.ev \in sent
      /\ t.plan \in Nat /\ t.previous \in Nat /\ plan \in Nat
      /\ t.ev.plan \in Nat /\ t.ev.sub # NoSub
  BY <1>1, Types, AtWork DEF PaidInv, TaskOrder, TypeOK, Task
<1>4. action \in {"keep", "adopt", "stale", "defer"}
  BY Actions
<1>5. /\ action = "keep" => stored = t.ev.sub
      /\ action = "defer" => t.plan = NoPlan
      /\ action = "stale" => t.plan # NoPlan /\ (stored = t.ev.sub => t.plan < t.previous)
  BY <1>3, Decisions
<1>6. t.plan = t.ev.plan \/ (t.plan = NoPlan /\ ~t.ev.names)
  BY <1>1, <1>3 DEF PaidTask
<1>7. action = "stale" /\ stored = t.ev.sub => Left(stored)
  BY <1>1, <1>3, <1>5, <1>6 DEF PaidTask, Left
<1>8. "overlap" \notin upset /\ Names(t.ev) => Granted(t.ev.sub) \/ action = "stale"
  BY <1>1 DEF PaidInv, AloneTask
<1> HIDE DEF action
<1>9. /\ pc \in {"sweeping", "storing", "cancelling", "invoicing"}
      /\ pc = "sweeping" => action = "keep"
      /\ pc = "cancelling" <=> action = "stale"
  BY <1>4
<1>10. pc = "cancelling" => todo = {t.ev.sub}
  BY <1>9
<1> HIDE DEF pc, prior, todo
<1>11. next.pc = pc /\ next.ev = t.ev /\ next.plan = t.plan /\ next.previous = t.previous /\ next.todo = todo
  BY <1>3 DEF Task
<1> HIDE DEF next
<1>12. /\ task'[h].pc = pc /\ task'[h].ev = t.ev /\ task'[h].plan = t.plan
       /\ task'[h].previous = t.previous /\ task'[h].todo = todo
       /\ \A g \in Handlers \ {h} : task'[g] = task[g]
  BY <1>1, <1>3, <1>11
<1>13. PaidTask(h)'
  <2>1. ~OneTime(t.ev)
    BY <1>3 DEF OneTime
  <2> QED BY <1>1, <1>2, <1>3, <1>9, <1>12, <2>1 DEF PaidTask, HasPlan, Buys, Pays, Granted
<1>14. "overlap" \notin upset' => AloneTask(h)'
  <2> SUFFICES ASSUME "overlap" \notin upset PROVE AloneTask(h)'
    BY <1>2
  <2>1. pc = "cancelling" /\ stored' \in task'[h].todo => Left(stored)'
    BY <1>2, <1>7, <1>9, <1>10, <1>12 DEF Left
  <2> QED BY <1>2, <1>5, <1>8, <1>9, <1>10, <1>12, <2>1 DEF AloneTask, Granted, Settled
<1>15. upset \subseteq upset' /\ \A e \in sent : e \in outstanding \ outstanding' => EventPaid(e)'
  BY <1>2
<1> QED BY <1>1, <1>2, <1>12, <1>13, <1>14, <1>15, PaidMove

LEMMA PaidStore ==
  ASSUME IInv, IInv', PaidInv, NEW h \in Handlers, SetDodoSubscriptionID(h)
  PROVE  PaidInv'
<1>1. Busy(h) /\ task[h].pc = "storing" /\ GoTo(h, "replacing") /\ "replacing" \in Places
  BY DEF SetDodoSubscriptionID, At, Busy, Places
<1>2. /\ UNCHANGED <<checkout, sent, live, plan, ledger, outstanding>>
      /\ stored' = task[h].ev.sub
      /\ upset' = IF task[h].ev.sub \in live THEN upset ELSE upset \cup {"dead"}
  BY DEF SetDodoSubscriptionID, provider
<1>3. /\ \A g \in Handlers \ {h} : task'[g] = task[g]
      /\ task'[h].pc = "replacing" /\ task'[h].ev = task[h].ev /\ task'[h].plan = task[h].plan
      /\ task'[h].previous = task[h].previous
  BY <1>1, Went
<1>4. PaidTask(h) /\ ("overlap" \notin upset => AloneTask(h)) /\ plan \in Nat
  BY <1>1, Types DEF PaidInv
<1>5. Grows /\ upset \subseteq upset'
  BY <1>2, <1>4 DEF Grows
<1>6. HasPlan(plan)'
  BY <1>2 DEF PaidInv, HasPlan, Buys, Pays
<1>7. PaidTask(h)'
  BY <1>1, <1>2, <1>3, <1>4 DEF PaidTask, Busy, HasPlan, Buys, Pays
<1>8. "overlap" \notin upset' => AloneTask(h)'
  BY <1>1, <1>2, <1>3, <1>4, <1>5 DEF AloneTask, Granted
<1>9. StoredAlive'
  BY <1>2 DEF StoredAlive
<1>10. /\ UNCHANGED <<checkout, sent>> /\ live' \subseteq live
       /\ \A g \in ledger' \ ledger : Source(g)'
       /\ \A e \in sent : e \in outstanding \ outstanding' => EventPaid(e)'
  BY <1>2
<1> QED BY <1>1, <1>3, <1>5, <1>6, <1>7, <1>8, <1>9, <1>10, PaidStep

\* Who is left to cancel, and nothing else, is what a delivery has learned.
CancelsNext(h, todo) == task' = [task EXCEPT ![h] = Cancelling(task[h], todo)]

LEMMA Cancels ==
  ASSUME IInv, NEW h \in Handlers, Busy(h), NEW todo \in SUBSET Subs, CancelsNext(h, todo)
  PROVE  /\ \A g \in Handlers \ {h} : task'[g] = task[g]
         /\ task'[h].pc \in {"invoicing", "cancelling"}
         /\ task'[h].pc = "invoicing" => todo = {}
         /\ task'[h].ev = task[h].ev /\ task'[h].plan = task[h].plan
         /\ task'[h].previous = task[h].previous /\ task'[h].todo = todo
<1>1. task \in [Handlers -> Task] /\ task[h] \in Task
  BY AtWork DEF TypeOK, Task
<1> DEFINE pc == IF todo = {} THEN "invoicing" ELSE "cancelling"
           next == [task[h] EXCEPT !.pc = pc, !.todo = todo]
<1>2. Cancelling(task[h], todo) = next
  BY DEF Cancelling
<1>3. /\ next.pc = pc /\ next.ev = task[h].ev /\ next.plan = task[h].plan
      /\ next.previous = task[h].previous /\ next.todo = todo
  BY <1>1 DEF Task
<1> HIDE DEF next
<1> QED BY <1>1, <1>2, <1>3 DEF CancelsNext

LEMMA PaidFind ==
  ASSUME IInv, IInv', PaidInv, NEW h \in Handlers, FindLeftovers(h)
  PROVE  PaidInv'
<1>1. Busy(h) /\ task[h].pc \in {"replacing", "sweeping"}
  BY DEF FindLeftovers, Busy
<1>2. UNCHANGED <<checkout, sent, live, plan, stored, ledger, outstanding, upset>>
  BY DEF FindLeftovers, provider, database
<1>3. PICK todo \in SUBSET Subs :
        CancelsNext(h, todo) /\ task[h].ev.sub \notin todo
  <2> DEFINE todo == IF task[h].pc = "replacing"
                     THEN mergePriorSubscriptionIDs(task[h].prior, task[h].ev.sub, invoiceSubscriptionRefs)
                     ELSE staleInvoiceIDs(task[h].ev.sub, pickHigherPlan(task[h].plan, task[h].previous),
                                          invoiceSubscriptionRefs)
  <2>1. TypeOK /\ task[h].prior \in Subs \cup {NoSub}
    BY <1>1, AtWork DEF Task
  <2>2. \A q \in Billed : invoices[q].sub \in Subs \cup {NoSub}
    BY <2>1 DEF TypeOK, Billed, Invoice
  <2>3. DOMAIN invoiceSubscriptionRefs \subseteq Subs
    BY <2>2 DEF invoiceSubscriptionRefs
  <2>4. todo \in SUBSET Subs /\ task[h].ev.sub \notin todo
    BY <2>1, <2>3 DEF mergePriorSubscriptionIDs, staleInvoiceIDs
  <2> QED BY <2>4 DEF FindLeftovers, CancelsNext
<1>4. /\ \A g \in Handlers \ {h} : task'[g] = task[g]
      /\ task'[h].pc \in {"invoicing", "cancelling"}
      /\ task'[h].ev = task[h].ev /\ task'[h].plan = task[h].plan
      /\ task'[h].previous = task[h].previous /\ task'[h].todo = todo
  BY <1>1, <1>3, Cancels
<1>5. /\ PaidTask(h) /\ ("overlap" \notin upset => AloneTask(h))
  BY <1>1 DEF PaidInv
<1>6. PaidTask(h)'
  BY <1>1, <1>2, <1>4, <1>5 DEF PaidTask, Busy, HasPlan, Buys, Pays
<1>7. "overlap" \notin upset' => AloneTask(h)'
  BY <1>1, <1>2, <1>3, <1>4, <1>5 DEF AloneTask, Granted, Settled
<1>8. upset \subseteq upset' /\ \A e \in sent : e \in outstanding \ outstanding' => EventPaid(e)'
  BY <1>2
<1> QED BY <1>1, <1>2, <1>4, <1>6, <1>7, <1>8, PaidMove

LEMMA PaidCancel ==
  ASSUME IInv, IInv', PaidInv, NEW h \in Handlers, CancelSubscription(h)
  PROVE  PaidInv'
<1>1. Busy(h) /\ task[h].pc = "cancelling" /\ task[h].todo \in SUBSET Subs
  BY AtWork DEF CancelSubscription, At, Busy, Task
<1>2. UNCHANGED <<checkout, sent, plan, stored, ledger, outstanding, upset>>
  BY DEF CancelSubscription, database
<1>3. PICK s \in task[h].todo, todo \in SUBSET Subs :
        /\ live' = live \ {s} /\ todo = task[h].todo \ {s}
        /\ CancelsNext(h, todo)
  BY <1>1 DEF CancelSubscription, CancelsNext
<1>4. /\ \A g \in Handlers \ {h} : task'[g] = task[g]
      /\ task'[h].pc \in {"invoicing", "cancelling"}
      /\ task'[h].pc = "invoicing" => todo = {}
      /\ task'[h].ev = task[h].ev /\ task'[h].plan = task[h].plan
      /\ task'[h].previous = task[h].previous /\ task'[h].todo = todo
  BY <1>1, <1>3, Cancels
<1>5. PaidTask(h) /\ ("overlap" \notin upset => AloneTask(h)) /\ plan \in Nat
  BY <1>1, Types DEF PaidInv
<1>6. Grows
  BY <1>2, <1>5 DEF Grows
<1>7. HasPlan(plan)'
  BY <1>2 DEF PaidInv, HasPlan, Buys, Pays
<1>8. PaidTask(h)'
  BY <1>1, <1>2, <1>4, <1>5 DEF PaidTask, Busy, HasPlan, Buys, Pays
<1>9. "overlap" \notin upset' => AloneTask(h)'
  <2> SUFFICES ASSUME "overlap" \notin upset PROVE AloneTask(h)'
    BY <1>2
  <2>1. stored \in task[h].todo => Left(stored)'
    BY <1>1, <1>2, <1>5 DEF AloneTask, Left
  <2>2. Names(task[h].ev) => Settled(task[h].ev.sub)' \/ task[h].ev.sub \in todo
    <3> DEFINE sub == task[h].ev.sub
    <3>1. Names(task[h].ev) => Granted(sub) \/ sub \notin live \/ sub \in task[h].todo
      BY <1>1, <1>2, <1>5 DEF AloneTask, Settled
    <3>2. Granted(sub) => Granted(sub)'
      BY <1>2, <1>4 DEF Granted
    <3>3. sub \notin live \/ sub = s => sub \notin live'
      BY <1>3
    <3> HIDE DEF sub
    <3>4. sub \in task[h].todo => sub = s \/ sub \in todo
      BY <1>3
    <3>5. Names(task[h].ev) => Granted(sub)' \/ sub \notin live' \/ sub \in todo
      BY <3>1, <3>2, <3>3, <3>4
    <3> QED BY <1>4, <3>5 DEF Settled, sub
  <2> QED BY <1>2, <1>3, <1>4, <2>1, <2>2 DEF AloneTask
<1>10. StoredAlive'
  <2> SUFFICES ASSUME {"overlap", "dead"} \cap upset = {}, stored # NoSub
               PROVE  stored \in live' \/ Left(stored)'
    BY <1>2 DEF StoredAlive
  <2>1. Left(stored) => Left(stored)'
    BY <1>2 DEF Left
  <2>2. stored = s => Left(stored)
    BY <1>1, <1>5 DEF AloneTask
  <2> QED BY <1>3, <2>1, <2>2 DEF PaidInv, StoredAlive
<1>11. /\ UNCHANGED <<checkout, sent>> /\ live' \subseteq live
       /\ \A g \in ledger' \ ledger : Source(g)'
       /\ \A e \in sent : e \in outstanding \ outstanding' => EventPaid(e)'
  BY <1>2, <1>3
<1> QED BY <1>1, <1>4, <1>6, <1>7, <1>8, <1>9, <1>10, <1>11, PaidStep

\* A one-time payment is for one plan.
LEMMA OnePlan ==
  ASSUME NEW e \in Events, NEW f \in Events, OneTime(e), OneTime(f), e.pay = f.pay
  PROVE  e.plan = f.plan
BY WebhookAssumption

\* What a grant adds has a source, and whatever key was there already is a grant of the
\* same plan to the same subscription.
LEMMA GrantFinds ==
  ASSUME IInv, PaidInv, NEW h \in Handlers, Busy(h), task[h].pc = "granting",
         NEW k \in ledger, k.key = GrantKey(task[h])
  PROVE  /\ HasPlan(task[h].plan)
         /\ task[h].ev.type \in SubscriptionTypes => Granted(task[h].ev.sub)
<1> DEFINE t == task[h]
<1>1. /\ t.ev \in sent
      /\ OneTime(t.ev) \/ (t.ev.type \in SubscriptionTypes /\ Known(t.plan))
      /\ t.ev.type \in SubscriptionTypes => t.ev.sub # NoSub
      /\ KeyOrder(k) /\ Source(k) /\ sent \subseteq Events
  BY Types, AtWork DEF IInv, TaskOrder, PaidInv, TypeOK
<1>2. PaidTask(h)
  BY DEF PaidInv
<1>3. k.sub # NoSub => k.key[1] \in {"period", "legacy"} /\ k.key[2] = k.sub
  <2>1. PeriodKey(k)[1] = "period" /\ PeriodKey(k)[2] = k.sub
    BY DEF PeriodKey
  <2>2. LegacyGrant(k.sub).key[1] = "legacy" /\ LegacyGrant(k.sub).key[2] = k.sub
    BY DEF LegacyGrant, LegacyKey
  <2> QED BY <1>1, <2>1, <2>2 DEF KeyOrder
<1>4. k.sub = NoSub => k.key[1] = "payment"
  BY <1>1 DEF Source, Pays
<1>5. CASE OneTime(t.ev)
  <2>1. GrantKey(t) = <<"payment", t.ev.pay, NoPlan, 0>> /\ t.ev.type \notin SubscriptionTypes
    BY <1>5 DEF GrantKey, OneTime, SubscriptionTypes
  <2>2. k.key[1] = "payment" /\ k.key[2] = t.ev.pay
    BY <2>1
  <2>3. k.sub = NoSub
    BY <1>3, <2>2
  <2>4. PICK e \in sent :
          /\ OneTime(e) /\ k.key = <<"payment", e.pay, NoPlan, 0>>
          /\ k.plan = e.plan \/ k.plan = NoPlan
    BY <1>1, <2>3 DEF Source, Pays
  <2>5. e.pay = t.ev.pay
    BY <2>2, <2>4
  <2>6. t.ev.plan = e.plan
    BY <1>1, <1>5, <2>4, <2>5, OnePlan
  <2>7. t.plan = t.ev.plan \/ t.plan = NoPlan
    BY <1>2, <1>5 DEF PaidTask
  <2> QED BY <2>1, <2>4, <2>6, <2>7 DEF HasPlan, Buys, Pays
<1>6. CASE ~OneTime(t.ev)
  <2> DEFINE granted == HasIdempotencyKey(LegacyKey(t.ev.sub, t.period))
  <2>1. GrantKey(t) = subscriptionGrantKey(t.ev.sub, t.plan, t.previous, t.ev.type, t.period, granted)
    BY <1>6 DEF GrantKey
  <2>2. t.ev.sub # NoSub /\ Known(t.plan)
    BY <1>1, <1>6
  <2> HIDE DEF granted
  <2>3. \/ GrantKey(t) = LegacyKey(t.ev.sub, t.period) /\ t.plan = t.previous
        \/ GrantKey(t) = <<"period", t.ev.sub, t.plan, t.period>>
    BY <2>1, <2>2 DEF subscriptionGrantKey
  <2>4. CASE GrantKey(t) = LegacyKey(t.ev.sub, t.period) /\ t.plan = t.previous
    <3>1. k.key[1] = "legacy" /\ k.key[2] = t.ev.sub
      BY <2>4 DEF LegacyKey
    <3>2. k.sub = t.ev.sub
      BY <1>3, <1>4, <3>1
    <3>3. HasPlan(t.previous)
      BY <1>2 DEF PaidTask
    <3> QED BY <2>4, <3>2, <3>3 DEF Granted
  <2>5. CASE GrantKey(t) = <<"period", t.ev.sub, t.plan, t.period>>
    <3>1. k.key[1] = "period" /\ k.key[2] = t.ev.sub /\ k.key[3] = t.plan
      BY <2>5
    <3>2. k.sub = t.ev.sub /\ k.sub # NoSub
      BY <1>3, <1>4, <3>1
    <3>3. k.key = PeriodKey(k)
      <4>1. LegacyGrant(k.sub).key[1] = "legacy"
        BY DEF LegacyGrant, LegacyKey
      <4> QED BY <1>1, <3>1, <3>2, <4>1 DEF KeyOrder
    <3>4. k.plan = t.plan
      BY <3>1, <3>3 DEF PeriodKey
    <3> QED BY <3>2, <3>4 DEF Granted, HasPlan, Buys, Pays
  <2> QED BY <2>3, <2>4, <2>5
<1> QED BY <1>5, <1>6

LEMMA PaidGrant ==
  ASSUME IInv, IInv', PaidInv, NEW h \in Handlers, GrantCredits(h)
  PROVE  PaidInv'
<1> DEFINE t == task[h]
           p == IF OneTime(t.ev) THEN "invoicing" ELSE "attaching"
           row == [key |-> GrantKey(t), sub |-> t.ev.sub, plan |-> t.plan, month |-> t.period]
<1>1. Busy(h) /\ t.pc = "granting" /\ GoTo(h, p)
  BY DEF GrantCredits, At, Busy
<1>2. UNCHANGED <<checkout, live, sent, plan, stored, outstanding, upset>>
  BY DEF GrantCredits, provider
<1>3. p \in Places /\ p \in {"invoicing", "attaching"} /\ (p = "attaching" <=> ~OneTime(t.ev))
  BY DEF Places
<1> HIDE DEF p
<1>4. /\ \A g \in Handlers \ {h} : task'[g] = task[g]
      /\ task'[h].pc = p /\ task'[h].ev = t.ev /\ task'[h].plan = t.plan
      /\ task'[h].previous = t.previous
  BY <1>1, <1>3, Went
<1>5. /\ t.ev \in sent
      /\ OneTime(t.ev) \/ (t.ev.type \in SubscriptionTypes /\ Known(t.plan))
      /\ PaidTask(h) /\ plan \in Nat
  BY <1>1, Types, AtWork DEF TaskOrder, PaidInv
<1>6. \/ ledger' = ledger /\ HasIdempotencyKey(GrantKey(t))
      \/ ledger' = ledger \cup {row}
  BY DEF GrantCredits
<1>7. /\ HasPlan(t.plan)' 
      /\ t.ev.type \in SubscriptionTypes => Granted(t.ev.sub)'
  <2>1. CASE ledger' = ledger /\ HasIdempotencyKey(GrantKey(t))
    <3>1. PICK k \in ledger : k.key = GrantKey(t)
      BY <2>1 DEF HasIdempotencyKey
    <3>2. HasPlan(t.plan) /\ (t.ev.type \in SubscriptionTypes => Granted(t.ev.sub))
      BY <1>1, <3>1, GrantFinds
    <3> QED BY <1>2, <1>4, <2>1, <3>2 DEF HasPlan, Buys, Pays, Granted
  <2>2. CASE ledger' = ledger \cup {row}
    <3>1. row \in ledger' /\ row.plan = t.plan /\ row.sub = t.ev.sub
      BY <2>2
    <3> HIDE DEF row
    <3> QED BY <1>4, <3>1 DEF HasPlan, Buys, Pays, Granted
  <2> QED BY <1>6, <2>1, <2>2
<1>8. \A g \in ledger' \ ledger : Source(g)'
  <2> SUFFICES ASSUME NEW g \in ledger', g \notin ledger PROVE Source(g)'
    OBVIOUS
  <2>1. g.sub = t.ev.sub /\ g.plan = t.plan /\ g.key = GrantKey(t)
    BY <1>6
  <2> HIDE DEF row
  <2>2. t.plan = t.ev.plan \/ (t.plan = NoPlan /\ ~t.ev.names /\ ~Known(t.plan))
    BY <1>1, <1>5 DEF PaidTask, Known
  <2>3. CASE OneTime(t.ev)
    <3>1. GrantKey(t) = <<"payment", t.ev.pay, NoPlan, 0>> /\ t.ev.sub = NoSub
      BY <2>3 DEF GrantKey, OneTime
    <3> QED BY <1>2, <1>5, <2>1, <2>2, <2>3, <3>1 DEF Source, Pays
  <2>4. CASE ~OneTime(t.ev)
    <3>1. t.ev.sub # NoSub /\ Tells(t.ev, t.ev.sub) /\ t.plan = t.ev.plan
      BY <1>5, <2>2, <2>4, Types DEF Tells
    <3> QED BY <1>2, <1>5, <2>1, <3>1 DEF Source
  <2> QED BY <2>3, <2>4
<1>9. Grows /\ HasPlan(plan)'
  BY <1>2, <1>5, <1>6 DEF Grows, HasPlan, Buys, Pays, PaidInv
<1>10. PaidTask(h)'
  <2>1. t.previous <= plan' /\ HasPlan(t.previous)'
    BY <1>1, <1>2, <1>4, <1>5, <1>6 DEF PaidTask, HasPlan, Buys, Pays
  <2>2. t.plan = t.ev.plan \/ (t.plan = NoPlan /\ ~t.ev.names)
    BY <1>1, <1>5 DEF PaidTask
  <2>3. p = "invoicing" => ~Names(t.ev)
    BY <1>3 DEF Names, OneTime, SubscriptionTypes
  <2> QED BY <1>3, <1>4, <1>7, <2>1, <2>2, <2>3 DEF PaidTask, Busy, HasPlan, Buys, Pays, Granted
<1>11. AloneTask(h)'
  <2>1. p = "invoicing" => ~Names(t.ev)
    BY <1>3 DEF Names, OneTime, SubscriptionTypes
  <2> QED BY <1>3, <1>4, <2>1 DEF AloneTask
<1>12. StoredAlive'
  BY <1>2 DEF PaidInv, StoredAlive, Left
<1>13. /\ UNCHANGED <<checkout, sent>> /\ live' \subseteq live
       /\ \A e \in sent : e \in outstanding \ outstanding' => EventPaid(e)'
  BY <1>2
<1> QED BY <1>1, <1>4, <1>8, <1>9, <1>10, <1>11, <1>12, <1>13, PaidStep

LEMMA PaidInvoice ==
  ASSUME IInv, IInv', PaidInv, NEW h \in Handlers, RecordInvoice(h) \/ NoPaymentListed(h) \/ InvoiceFails(h)
  PROVE  PaidInv'
<1> DEFINE t == task[h]
<1>1. Busy(h) /\ t.pc = "invoicing" /\ t \in Task /\ task \in [Handlers -> Task] /\ t.ev \in sent
  <2>1. Busy(h) /\ t.pc = "invoicing"
    BY DEF RecordInvoice, NoPaymentListed, InvoiceFails, At, Busy
  <2> QED BY <2>1, AtWork DEF TypeOK, Task
<1>2. UNCHANGED <<checkout, sent, live, plan, stored, ledger, outstanding>> /\ upset \subseteq upset'
  BY DEF RecordInvoice, NoPaymentListed, InvoiceFails, provider, database
<1>3. /\ \A g \in Handlers \ {h} : task'[g] = task[g]
      /\ task'[h].pc \in {"attaching", "closing"}
      /\ task'[h].pc = "attaching" => OneTime(t.ev)
      /\ task'[h].pc = "closing" => ~OneTime(t.ev) \/ ~Known(t.plan)
      /\ task'[h].ev = t.ev /\ task'[h].plan = t.plan /\ task'[h].previous = t.previous
  <2>1. CASE RecordInvoice(h)
    <3> DEFINE p == AfterInvoice(t)
    <3>1. p \in Places /\ GoTo(h, p)
      BY <2>1 DEF RecordInvoice, AfterInvoice, Places
    <3>2. /\ p \in {"attaching", "closing"} /\ (p = "attaching" => OneTime(t.ev))
          /\ p = "closing" => ~OneTime(t.ev) \/ ~Known(t.plan)
      BY DEF AfterInvoice
    <3> HIDE DEF p
    <3> QED BY <3>1, <3>2, Went
  <2>2. CASE NoPaymentListed(h)
    <3>1. "closing" \in Places /\ GoTo(h, "closing") /\ ~OneTime(t.ev)
      BY <2>2 DEF NoPaymentListed, Places, OneTime, SubscriptionTypes
    <3> QED BY <3>1, Went
  <2>3. CASE InvoiceFails(h)
    <3> DEFINE n == [t EXCEPT !.pc = "attaching", !.failed = TRUE]
    <3>1. task' = [task EXCEPT ![h] = n] /\ OneTime(t.ev)
      BY <1>1, <2>3 DEF InvoiceFails, AfterInvoice
    <3>2. n.pc = "attaching" /\ n.ev = t.ev /\ n.plan = t.plan /\ n.previous = t.previous
      BY <1>1 DEF Task
    <3> HIDE DEF n
    <3> QED BY <1>1, <3>1, <3>2
  <2> QED BY <2>1, <2>2, <2>3
<1>4. PaidTask(h) /\ ("overlap" \notin upset => AloneTask(h))
  BY <1>1 DEF PaidInv
<1>5. OneTime(t.ev) => t.ev.type \notin SubscriptionTypes
  BY DEF OneTime, SubscriptionTypes
<1>6. t.ev.plan # NoPlan
  BY <1>1, Types DEF NoPlan
<1>7. PaidTask(h)'
  BY <1>1, <1>2, <1>3, <1>4, <1>5, <1>6 DEF PaidTask, Busy, HasPlan, Buys, Pays, Known, Names
<1>8. "overlap" \notin upset' => AloneTask(h)'
  BY <1>1, <1>2, <1>3, <1>4, <1>5 DEF AloneTask, Settled, Granted, Names
<1>9. \A e \in sent : e \in outstanding \ outstanding' => EventPaid(e)'
  BY <1>2
<1> QED BY <1>1, <1>2, <1>3, <1>7, <1>8, <1>9, PaidMove

LEMMA PaidRefund ==
  ASSUME IInv, IInv', PaidInv, NEW h \in Handlers, ReadInvoice(h) \/ UpdateRefundStatus(h)
  PROVE  PaidInv'
<1> DEFINE t == task[h]
<1>1. /\ Busy(h) /\ t.pc \in {"refunding", "updating"} /\ t.ev.type = "refund"
      /\ task \in [Handlers -> Task]
  <2>1. Busy(h) /\ t.pc \in {"refunding", "updating"}
    BY DEF ReadInvoice, UpdateRefundStatus, At, Busy
  <2> QED BY <2>1, AtWork DEF TypeOK, Task, TaskOrder
<1>2. UNCHANGED <<checkout, sent, live, plan, stored, ledger, outstanding, upset>>
  BY DEF ReadInvoice, UpdateRefundStatus, provider, database
<1>3. \/ task' = [task EXCEPT ![h] = Rest]
      \/ \E p \in {"closing", "updating", "invoicing"} : GoTo(h, p)
  BY DEF ReadInvoice, UpdateRefundStatus
<1>4. /\ \A g \in Handlers \ {h} : task'[g] = task[g]
      /\ \/ task'[h].pc = "idle"
         \/ /\ task'[h].pc \in {"closing", "updating", "invoicing"} /\ task'[h].ev = t.ev
            /\ task'[h].plan = t.plan /\ task'[h].previous = t.previous
  <2>1. CASE task' = [task EXCEPT ![h] = Rest]
    BY <1>1, <2>1, RestType
  <2>2. CASE \E p \in {"closing", "updating", "invoicing"} : GoTo(h, p)
    <3>1. PICK p \in {"closing", "updating", "invoicing"} : GoTo(h, p)
      BY <2>2
    <3>2. p \in Places
      BY DEF Places
    <3> QED BY <3>1, <3>2, Went
  <2> QED BY <1>3, <2>1, <2>2
<1>5. ~OneTime(t.ev) /\ ~Names(t.ev) /\ t.ev.type \notin SubscriptionTypes
  BY <1>1 DEF OneTime, Names, SubscriptionTypes
<1>6. PaidTask(h)
  BY DEF PaidInv
<1>7. PaidTask(h)'
  BY <1>1, <1>2, <1>4, <1>5, <1>6 DEF PaidTask, Busy, HasPlan, Buys, Pays
<1>8. Busy(h)' => AloneTask(h)'
  BY <1>4, <1>5 DEF AloneTask, Busy
<1>9. upset \subseteq upset' /\ \A e \in sent : e \in outstanding \ outstanding' => EventPaid(e)'
  BY <1>2
<1> QED BY <1>1, <1>2, <1>4, <1>7, <1>8, <1>9, PaidMove

LEMMA PaidEnd ==
  ASSUME IInv, IInv', PaidInv, NEW h \in Handlers, Answer(h) \/ Fail(h)
  PROVE  PaidInv'
<1>1. /\ Busy(h) /\ task \in [Handlers -> Task] /\ task' = [task EXCEPT ![h] = Rest]
  <2>1. Busy(h) /\ task' = [task EXCEPT ![h] = Rest]
    BY DEF Answer, Fail, At, Busy
  <2> QED BY <2>1, AtWork DEF TypeOK, Task
<1>2. UNCHANGED <<checkout, sent, live, plan, stored, ledger, upset>>
  BY DEF Answer, Fail, provider, database
<1>3. ~Busy(h)' /\ \A g \in Handlers \ {h} : task'[g] = task[g]
  BY <1>1, RestType DEF Busy
<1>4. ASSUME NEW e \in sent, e \in outstanding, e \notin outstanding'
      PROVE  EventPaid(e)'
  <2>1. e = task[h].ev /\ task[h].pc = "closing"
    BY <1>4 DEF Answer, Fail, At
  <2>2. PaidTask(h) /\ ("overlap" \notin upset => AloneTask(h))
    BY <1>1 DEF PaidInv
  <2>3. PaidNamed(e) => e.plan <= plan'
    BY <1>1, <1>2, <2>1, <2>2 DEF PaidTask, PaidNamed
  <2>4. "overlap" \notin upset' /\ Names(e) => Settled(e.sub)
    BY <1>2, <2>1, <2>2 DEF AloneTask
  <2> QED BY <1>2, <2>3, <2>4 DEF EventPaid, Settled, Granted
<1>5. PaidTask(h)' /\ upset \subseteq upset'
  BY <1>2, <1>3 DEF PaidTask
<1> QED BY <1>1, <1>2, <1>3, <1>4, <1>5, PaidMove

\* A delivery that starts knows its event's plan, if the event names it, and a plan that
\* the organization has had.
LEMMA PaidReceive ==
  ASSUME IInv, IInv', PaidInv, NEW h \in Handlers, Receive(h)
  PROVE  PaidInv'
<1>1. TypeOK /\ ~Busy(h) /\ plan \in Nat /\ NoPlan \in Nat
  BY DEF IInv, TypeOK, Receive, NoPlan
<1>2. PICK e \in outstanding :
        \/ ReceiveSubscription(h, e) \/ ReceiveCharge(h, e) \/ ReceivePayment(h, e)
        \/ ReceiveUnknown(h, e) \/ ReceiveRefund(h, e)
  BY DEF Receive
<1>3. e \in sent /\ e.plan \in Nat \ {0} /\ e.names \in BOOLEAN
  BY <1>1, SentType, Types DEF TypeOK
<1>4. PICK p \in Places, r \in {e.plan, NoPlan}, v \in {plan, NoPlan}, s \in RefundStatus :
        /\ Started(h, e, p, r, v, s, TRUE) \/ Started(h, e, p, r, v, s, FALSE)
        /\ r = e.plan \/ ~e.names
        /\ \/ p = "deciding" /\ e.type \in SubscriptionTypes
           \/ p = "persisting" /\ IsCharge(e)
           \/ p = "granting" /\ OneTime(e)
           \/ p \in {"closing", "invoicing"} /\ r = NoPlan /\ ~e.names
           \/ p = "refunding" /\ e.type = "refund"
  <2>1. {"deciding", "persisting", "granting", "closing", "invoicing", "refunding"} \subseteq Places
        /\ "" \in RefundStatus
    BY DEF Places, RefundStatus
  <2>2. CASE ReceiveSubscription(h, e)
    BY <2>1, <2>2, Zenon DEF ReceiveSubscription, resolveGrant
  <2>3. CASE ReceiveCharge(h, e)
    BY <2>1, <2>3, Zenon DEF ReceiveCharge, resolveGrant
  <2>4. CASE ReceivePayment(h, e)
    BY <2>1, <2>4, Zenon DEF ReceivePayment, resolveGrant
  <2>5. CASE ReceiveUnknown(h, e)
    BY <2>1, <2>5, Zenon DEF ReceiveUnknown
  <2>6. CASE ReceiveRefund(h, e)
    <3>1. e.type = "refund"
      BY <2>6 DEF ReceiveRefund
    <3>2. \E status \in RefundStatus :
            \/ Started(h, e, "refunding", e.plan, NoPlan, status, TRUE)
            \/ Started(h, e, "refunding", e.plan, NoPlan, status, FALSE)
      <4>1. normalizeRefundStatus(e.partial) \in RefundStatus
        BY DEF normalizeRefundStatus, RefundStatus
      <4>2. \A answer : mergeRefundStatus(normalizeRefundStatus(e.partial), answer) \in RefundStatus
        BY DEF mergeRefundStatus, RefundStatus
      <4> QED BY <2>6, <4>1, <4>2, Zenon DEF ReceiveRefund
    <3> QED BY <2>1, <3>1, <3>2
  <2> QED BY <1>2, <2>2, <2>3, <2>4, <2>5, <2>6
<1>5. /\ task'[h].pc = p /\ task'[h].ev = e /\ task'[h].plan = r /\ task'[h].previous = v
      /\ \A g \in Handlers \ {h} : task'[g] = task[g]
  <2>1. r \in Nat /\ v \in Nat
    BY <1>1, <1>3
  <2>2. /\ TypeOK /\ e \in sent /\ p \in Places /\ r \in Nat /\ v \in Nat /\ s \in RefundStatus
        /\ Started(h, e, p, r, v, s, TRUE) \/ Started(h, e, p, r, v, s, FALSE)
    BY <1>1, <1>3, <1>4, <2>1
  <2> QED BY <2>2, StartType
<1>6. /\ UNCHANGED <<checkout, sent, live, plan, stored, ledger, outstanding>> /\ upset \subseteq upset'
      /\ (\E g \in Handlers \ {h} : Busy(g)) => "overlap" \in upset'
  BY <1>4 DEF Started, provider, database
<1>7. Grows
  BY <1>1, <1>6 DEF Grows
<1>8. HasPlan(v)
  BY DEF PaidInv, HasPlan, Buys, Pays
<1>9. PaidTask(h)'
  <2>1. v <= plan'
    BY <1>1, <1>6 DEF NoPlan
  <2> QED BY <1>4, <1>5, <1>6, <1>8, <2>1
     DEF PaidTask, Busy, HasPlan, Buys, Pays, Names, OneTime, IsCharge, SubscriptionTypes
<1>10. AloneTask(h)'
  BY <1>4, <1>5, <1>6 DEF AloneTask, Names, IsCharge, SubscriptionTypes
<1>11. \A g \in Handlers : PaidTask(g)'
  BY <1>5, <1>7, <1>9, OthersPaid
<1>12. ASSUME "overlap" \notin upset', NEW g \in Handlers, Busy(g)' PROVE AloneTask(g)'
  BY <1>5, <1>6, <1>10, <1>12 DEF Busy
<1>13. ASSUME NEW f \in sent', f \notin outstanding' PROVE EventPaid(f)'
  BY <1>6, <1>13 DEF PaidInv, EventPaid, Settled, Granted
<1>14. StoredAlive' /\ HasPlan(plan)'
  BY <1>6 DEF PaidInv, StoredAlive, Left, HasPlan, Buys, Pays
<1>15. \A g \in ledger' : Source(g)'
  BY <1>6, <1>7, GrowsKeeps DEF PaidInv
<1>16. \A f \in sent' : f.type \in SubscriptionTypes => checkout'[f.sub] = "paid"
  BY <1>6 DEF PaidInv
<1> QED BY <1>11, <1>12, <1>13, <1>14, <1>15, <1>16 DEF PaidInv

\* The customer and the provider: a mandate comes alive before any event tells of it.
LEMMA PaidOutside ==
  ASSUME IInv, IInv', PaidInv,
         NextMonth \/ (\E s \in Subs : CreateCheckout(s) \/ Pay(s)) \/ \E e \in history : SendLater(e)
  PROVE  PaidInv'
<1>1. UNCHANGED <<plan, stored, ledger, invoices, task, upset>> /\ sent \subseteq sent'
  <2>1. UNCHANGED <<database, task, upset>> /\ sent \subseteq sent'
    BY OutsideType DEF IInv
  <2> QED BY <2>1 DEF database
<1>2. Grows
  BY <1>1, Types DEF Grows
<1>3. /\ \A e \in sent' \ outstanding' : e \in sent \ outstanding
      /\ live \subseteq live'
      /\ \A e \in sent : e.type \in SubscriptionTypes /\ e.sub \in live' => e.sub \in live
      /\ \A e \in sent' : e.type \in SubscriptionTypes => checkout'[e.sub] = "paid"
  <2>1. CASE NextMonth
    BY <2>1 DEF NextMonth, PaidInv
  <2>2. ASSUME NEW s \in Subs, CreateCheckout(s)
        PROVE  <1>3!1 /\ <1>3!2 /\ <1>3!3 /\ <1>3!4
    <3>1. \A e \in sent : e.type \in SubscriptionTypes => checkout'[e.sub] = "paid"
      BY <2>2 DEF CreateCheckout, PaidInv, IInv, TypeOK
    <3> QED BY <2>2, <3>1 DEF CreateCheckout
  <2>3. ASSUME NEW s \in Subs, Pay(s)
        PROVE  <1>3!1 /\ <1>3!2 /\ <1>3!3 /\ <1>3!4
    <3>1. /\ live' = live \cup {s} /\ checkout[s] = "open" /\ checkout'[s] = "paid"
          /\ \A r \in Subs : checkout[r] = "paid" => checkout'[r] = "paid"
      BY <2>3 DEF Pay, IInv, TypeOK
    <3>2. \A e \in sent : e.type \in SubscriptionTypes => e.sub # s /\ checkout'[e.sub] = "paid"
      <4>1. \A e \in sent : e.type \in SubscriptionTypes => e.sub \in Subs
        BY SentType DEF IInv
      <4> QED BY <3>1, <4>1 DEF PaidInv
    <3>3. \A e \in sent' : e \in sent \/ e.sub = s
      BY <2>3 DEF Pay, Send
    <3>4. \A e \in sent' \ outstanding' : e \in sent \ outstanding
      BY <2>3 DEF Pay, Send
    <3> QED BY <3>1, <3>2, <3>3, <3>4
  <2>4. ASSUME NEW e \in history, SendLater(e)
        PROVE  <1>3!1 /\ <1>3!2 /\ <1>3!3 /\ <1>3!4
    <3>1. /\ UNCHANGED <<live, checkout>> /\ sent' = sent \cup {e} /\ outstanding' = outstanding \cup {e}
      BY <2>4 DEF SendLater, Send
    <3>2. e.type \in SubscriptionTypes => checkout[e.sub] = "paid"
      BY <2>4 DEF SendLater, Happens, SubscriptionTypes
    <3> QED BY <3>1, <3>2 DEF PaidInv
  <2> QED BY <2>1, <2>2, <2>3, <2>4
<1>4. \A h \in Handlers : PaidTask(h)'
  BY <1>1, <1>2, OthersPaid
<1>5. \A e \in sent : Names(e) => (Settled(e.sub) => Settled(e.sub)')
  BY <1>1, <1>3 DEF Names, Settled, Granted
<1>6. ASSUME "overlap" \notin upset', NEW h \in Handlers, Busy(h)' PROVE AloneTask(h)'
  <2>1. AloneTask(h) /\ task[h].ev \in sent /\ task'[h] = task[h]
    BY <1>1, <1>6, AtWork DEF PaidInv, Busy
  <2>2. persistDecision(task[h])' = persistDecision(task[h])
    BY <1>1, SameDecision
  <2>3. Left(stored) => Left(stored)'
    BY <1>1 DEF Left
  <2>4. Names(task[h].ev) => (Settled(task[h].ev.sub) => Settled(task[h].ev.sub)')
    BY <1>5, <2>1
  <2> QED BY <1>1, <2>1, <2>2, <2>3, <2>4 DEF AloneTask, Granted
<1>7. \A e \in sent' \ outstanding' : EventPaid(e)'
  BY <1>1, <1>3, <1>5 DEF PaidInv, EventPaid
<1>8. StoredAlive' /\ HasPlan(plan)'
  BY <1>1, <1>3 DEF PaidInv, StoredAlive, Left, HasPlan, Buys, Pays
<1>9. \A g \in ledger' : Source(g)'
  BY <1>1, <1>2, GrowsKeeps DEF PaidInv
<1> QED BY <1>3, <1>4, <1>6, <1>7, <1>8, <1>9 DEF PaidInv

LEMMA PaidNext == IInv /\ IInv' /\ PaidInv /\ [Next]_vars => PaidInv'
<1> SUFFICES ASSUME IInv, IInv', PaidInv, [Next]_vars PROVE PaidInv'
  OBVIOUS
<1>1. CASE UNCHANGED vars
  <2>1. UNCHANGED <<month, history, checkout, live, sent, plan, stored, ledger, invoices,
                    outstanding, task, failures, upset>>
    BY <1>1 DEF vars, provider, database
  <2>2. Grows
    BY <2>1, Types DEF Grows
  <2>3. \A h \in Handlers : PaidTask(h)'
    BY <2>1, <2>2, OthersPaid
  <2>4. ASSUME "overlap" \notin upset', NEW h \in Handlers, Busy(h)' PROVE AloneTask(h)'
    <3>1. AloneTask(h) /\ task'[h] = task[h] /\ persistDecision(task[h])' = persistDecision(task[h])
      BY <2>1, <2>4, SameDecision DEF PaidInv, Busy
    <3> QED BY <2>1, <3>1 DEF AloneTask, Granted, Settled, Left
  <2>5. \A e \in sent' \ outstanding' : EventPaid(e)'
    BY <2>1 DEF PaidInv, EventPaid, Settled, Granted
  <2>6. StoredAlive' /\ HasPlan(plan)'
    BY <2>1 DEF PaidInv, StoredAlive, Left, HasPlan, Buys, Pays
  <2>7. \A g \in ledger' : Source(g)'
    BY <2>1, <2>2, GrowsKeeps DEF PaidInv
  <2>8. \A e \in sent' : e.type \in SubscriptionTypes => checkout'[e.sub] = "paid"
    BY <2>1 DEF PaidInv
  <2> QED BY <2>3, <2>4, <2>5, <2>6, <2>7, <2>8 DEF PaidInv
<1>2. ASSUME NEW h \in Handlers, Step(h) \/ Fail(h)
      PROVE  PaidInv'
  BY <1>2, PaidReceive, PaidDecide, PaidGrant, PaidAttach, PaidPersist, PaidStore, PaidFind, PaidCancel,
     PaidInvoice, PaidRefund, PaidEnd DEF Step
<1>3. CASE NextMonth \/ (\E s \in Subs : CreateCheckout(s) \/ Pay(s)) \/ \E e \in history : SendLater(e)
  BY <1>3, PaidOutside
<1> QED BY <1>1, <1>2, <1>3 DEF Next

\* What a delivery has done so far, and what an answered event has left behind: the
\* inductive invariant of the commits that one event is made of.
THEOREM EventsPaid == Spec => [](IInv /\ PaidInv)
<1>1. Init => IInv /\ PaidInv
  BY InitHolds, PaidInit
<1>2. IInv /\ PaidInv /\ [Next]_vars => (IInv /\ PaidInv)'
  BY NextHolds, PaidNext
<1> QED BY <1>1, <1>2, PTL DEF Spec

\* When every event was answered the organization is on the best plan it was granted,
\* the mandates that charge were granted, and the stored one charges: for any events,
\* in any order, with failures between any two commits.
THEOREM PaidWhenQuiet == Spec => []PaidForWhenQuiet
BY PaidMeans, EventsPaid, PTL

(***************************************************************************)
(* The month granted under the old key.  Until the read of the organization's *)
(* plan fails, the plan has never been below the one granted under that key,  *)
(* and what a delivery read of it is not below either: the key it takes       *)
(* differs from the old one only when what it read was above.                 *)
(***************************************************************************)
Old(g) == g.sub \in Legacy /\ g = LegacyGrant(g.sub)
Choosing(h) == task[h].pc \in {"deciding", "granting"} /\ ~OneTime(task[h].ev)
SameMonth(g, k) == k.sub = g.sub /\ k.plan = g.plan /\ k.month = g.month

OldGrant(g) ==
  /\ g.plan <= plan
  /\ \A h \in Handlers : Choosing(h) => g.plan <= task[h].previous
  /\ \A k \in ledger : SameMonth(g, k) => k = g \/ g.plan < plan

OldInv == "blind" \notin upset => \A g \in ledger : Old(g) => OldGrant(g)

LEMMA OldMeans == IInv /\ OldInv => MonthGrantedOnce
<1> SUFFICES ASSUME IInv, OldInv, "blind" \notin upset, NEW g \in ledger, NEW k \in ledger,
                    g.sub # NoSub, g.sub = k.sub, g.plan = k.plan, g.month = k.month, g # k
             PROVE  g.sub \in Legacy /\ g.plan < plan
  BY DEF MonthGrantedOnce
<1>1. KeyOrder(g) /\ KeyOrder(k) /\ g \in Grants /\ k \in Grants
  BY DEF IInv, TypeOK
<1>2. CASE Old(g)
  BY <1>2 DEF OldInv, OldGrant, SameMonth, Old
<1>3. CASE Old(k)
  BY <1>3 DEF OldInv, OldGrant, SameMonth, Old
<1>4. CASE ~Old(g) /\ ~Old(k)
  <2>1. g.key = PeriodKey(g) /\ k.key = PeriodKey(k)
    BY <1>1, <1>4 DEF KeyOrder, Old
  <2>2. g.key = k.key
    BY <2>1 DEF PeriodKey
  <2> QED BY <1>1, <2>2 DEF Grants
<1> QED BY <1>2, <1>3, <1>4

LEMMA OldInit == Init => OldInv
<1> SUFFICES ASSUME Init, NEW g \in ledger, Old(g) PROVE OldGrant(g)
  BY DEF OldInv
<1>1. \A h \in Handlers : ~Choosing(h)
  BY RestType DEF Init, Choosing
<1>2. PICK s \in Legacy : plan = PlanOf[s] /\ ledger = {LegacyGrant(s)}
  BY DEF Init
<1>3. g.plan = plan /\ PlanOf[s] \in Nat
  BY <1>2, WebhookAssumption DEF LegacyGrant
<1> QED BY <1>1, <1>2, <1>3 DEF OldGrant

\* Every step but one that adds to the ledger.
LEMMA OldMove ==
  ASSUME IInv, OldInv, plan' \in Nat, plan <= plan', ledger' = ledger, upset \subseteq upset',
         \A h \in Handlers : Choosing(h)' /\ "blind" \notin upset' =>
           \/ Choosing(h) /\ task'[h].previous = task[h].previous
           \/ task'[h].previous = plan
  PROVE  OldInv'
<1> SUFFICES ASSUME "blind" \notin upset', NEW g \in ledger, Old(g) PROVE OldGrant(g)'
  BY DEF OldInv, Old
<1>1. OldGrant(g) /\ g.plan \in Nat /\ plan \in Nat
  BY Types DEF OldInv
<1>2. g.plan <= plan' /\ (g.plan < plan => g.plan < plan')
  BY <1>1 DEF OldGrant
<1>3. \A h \in Handlers : Choosing(h)' => g.plan <= task'[h].previous
  BY <1>1 DEF OldGrant
<1> QED BY <1>1, <1>2, <1>3 DEF OldGrant, SameMonth

LEMMA OldReceive ==
  ASSUME IInv, OldInv, NEW h \in Handlers, Receive(h)
  PROVE  OldInv'
<1>1. PICK e \in outstanding :
        \/ ReceiveSubscription(h, e) \/ ReceiveCharge(h, e) \/ ReceivePayment(h, e)
        \/ ReceiveUnknown(h, e) \/ ReceiveRefund(h, e)
  BY DEF Receive
<1>2. TypeOK /\ e \in sent /\ e.plan \in Nat /\ resolveGrant(e) \subseteq Nat /\ plan \in Nat /\ NoPlan \in Nat
  <2>1. TypeOK /\ e \in sent /\ plan \in Nat /\ NoPlan \in Nat
    BY DEF IInv, TypeOK, NoPlan
  <2>2. e.plan \in Nat
    BY <2>1, SentType
  <2> QED BY <2>1, <2>2 DEF resolveGrant
<1>3. ASSUME NEW p \in Places, NEW r \in Nat, NEW v \in Nat, NEW s \in RefundStatus, NEW f \in BOOLEAN,
             Started(h, e, p, r, v, s, f),
             p = "deciding" \/ OneTime(e) \/ p \notin {"deciding", "granting"}
      PROVE  OldInv'
  <2>1. /\ task'[h].pc = p /\ task'[h].ev = e /\ task'[h].previous = v
        /\ \A g \in Handlers \ {h} : task'[g] = task[g]
    <3>1. Started(h, e, p, r, v, s, TRUE) \/ Started(h, e, p, r, v, s, FALSE)
      BY <1>3
    <3> QED BY <1>2, <3>1, StartType
  <2>2. /\ UNCHANGED <<plan, ledger>> /\ upset \subseteq upset'
        /\ p = "deciding" /\ v # plan => "blind" \in upset'
    BY <1>3 DEF Started, Blind, database
  <2>3. \A g \in Handlers : Choosing(g)' /\ "blind" \notin upset' =>
           \/ Choosing(g) /\ task'[g].previous = task[g].previous
           \/ task'[g].previous = plan
    BY <1>3, <2>1, <2>2 DEF Choosing
  <2> QED BY <1>2, <2>2, <2>3, OldMove
<1>4. "deciding" \in Places /\ "granting" \in Places /\ "persisting" \in Places /\ "closing" \in Places
      /\ "invoicing" \in Places /\ "refunding" \in Places /\ "" \in RefundStatus
  BY DEF Places, RefundStatus
<1>5. CASE ReceiveSubscription(h, e)
  BY <1>2, <1>3, <1>4, <1>5 DEF ReceiveSubscription
<1>6. CASE ReceiveCharge(h, e)
  BY <1>2, <1>3, <1>4, <1>6 DEF ReceiveCharge
<1>7. CASE ReceivePayment(h, e)
  BY <1>2, <1>3, <1>4, <1>7 DEF ReceivePayment
<1>8. CASE ReceiveUnknown(h, e)
  BY <1>2, <1>3, <1>4, <1>8 DEF ReceiveUnknown
<1>9. CASE ReceiveRefund(h, e)
  <2> DEFINE own == normalizeRefundStatus(e.partial)
  <2>1. "" \in Answers(e.pay) /\ e.type = "refund"
    BY <1>9 DEF Answers, ReceiveRefund
  <2>2. own \in RefundStatus /\ \A answer \in Answers(e.pay) : mergeRefundStatus(own, answer) \in RefundStatus
    BY <1>2, <2>1, MergedStatus
  <2>3. \/ Started(h, e, "refunding", e.plan, NoPlan, own, FALSE)
        \/ \E answer \in Answers(e.pay) :
             Started(h, e, "refunding", e.plan, NoPlan, mergeRefundStatus(own, answer), TRUE)
    BY <1>9 DEF ReceiveRefund
  <2> HIDE DEF own
  <2> QED BY <1>2, <1>3, <1>4, <2>2, <2>3
<1> QED BY <1>1, <1>5, <1>6, <1>7, <1>8, <1>9

\* The month is granted under another key than the old one only when the delivery has
\* read a plan above the one granted under the old one.
LEMMA OldAdds ==
  ASSUME IInv, PaidInv, OldInv, NEW h \in Handlers, Busy(h), task[h].pc = "granting",
         NEW g \in ledger, Old(g), g.sub = task[h].ev.sub, g.plan = task[h].plan,
         g.month = task[h].period, ~HasIdempotencyKey(GrantKey(task[h])), "blind" \notin upset
  PROVE  g.plan < plan
<1> DEFINE t == task[h]
           granted == HasIdempotencyKey(LegacyKey(t.ev.sub, t.period))
<1>1. /\ g.sub # NoSub /\ ~OneTime(t.ev)
      /\ g.key = LegacyKey(t.ev.sub, t.period)
  BY WebhookAssumption DEF Old, LegacyGrant, OneTime
<1>2. granted
  BY <1>1 DEF HasIdempotencyKey
<1>3. /\ GrantKey(t) = subscriptionGrantKey(t.ev.sub, t.plan, t.previous, t.ev.type, t.period, granted)
      /\ Known(t.plan)
  BY <1>1, AtWork DEF GrantKey, TaskOrder
<1>4. t.plan # t.previous
  <2>1. SUFFICES ASSUME t.plan = t.previous PROVE FALSE
    OBVIOUS
  <2>2. GrantKey(t) = LegacyKey(t.ev.sub, t.period)
    BY <1>1, <1>2, <1>3, <2>1 DEF subscriptionGrantKey
  <2> QED BY <1>2, <2>2
<1>5. g.plan <= t.previous /\ t.previous <= plan
  BY <1>1 DEF OldInv, OldGrant, Choosing, PaidInv, PaidTask
<1>6. g.plan \in Nat /\ t.previous \in Nat /\ plan \in Nat
  BY Types
<1> QED BY <1>4, <1>5, <1>6

LEMMA OldGrants ==
  ASSUME IInv, PaidInv, OldInv, NEW h \in Handlers, GrantCredits(h)
  PROVE  OldInv'
<1> DEFINE t == task[h]
           p == IF OneTime(t.ev) THEN "invoicing" ELSE "attaching"
           row == [key |-> GrantKey(t), sub |-> t.ev.sub, plan |-> t.plan, month |-> t.period]
<1>1. Busy(h) /\ t.pc = "granting" /\ GoTo(h, p)
  BY DEF GrantCredits, At, Busy
<1>2. UNCHANGED <<plan, upset>>
  BY DEF GrantCredits
<1>3. p \in Places /\ p \in {"invoicing", "attaching"}
  BY DEF Places
<1> HIDE DEF p
<1>4. task'[h].pc = p /\ \A g \in Handlers \ {h} : task'[g] = task[g]
  BY <1>1, <1>3, Went
<1>5. \A g \in Handlers : Choosing(g)' => Choosing(g) /\ task'[g].previous = task[g].previous
  BY <1>3, <1>4 DEF Choosing
<1>6. CASE ledger' = ledger
  BY <1>2, <1>5, <1>6, OldMove, Types
<1>7. CASE ledger' = ledger \cup {row} /\ ~HasIdempotencyKey(GrantKey(t))
  <2> SUFFICES ASSUME "blind" \notin upset, NEW g \in ledger', Old(g) PROVE OldGrant(g)'
    BY <1>2 DEF OldInv, Old
  <2>1. g \in ledger
    <3>1. SUFFICES ASSUME g = row PROVE FALSE
      BY <1>7
    <3>2. g.sub # NoSub /\ g.key = LegacyKey(g.sub, 0) /\ g.sub = t.ev.sub
      BY <3>1, WebhookAssumption DEF Old, LegacyGrant
    <3>3. /\ GrantKey(t) = LegacyKey(t.ev.sub, 0) /\ ~OneTime(t.ev) /\ Known(t.plan)
      BY <1>1, <3>1, <3>2, AtWork DEF OneTime, TaskOrder
    <3> DEFINE granted == HasIdempotencyKey(LegacyKey(t.ev.sub, t.period))
    <3>4. GrantKey(t) = subscriptionGrantKey(t.ev.sub, t.plan, t.previous, t.ev.type, t.period, granted)
      BY <3>3 DEF GrantKey
    <3>5. granted => GrantKey(t) # LegacyKey(t.ev.sub, t.period)
      BY <1>7
    <3> HIDE DEF granted
    <3>6. GrantKey(t) = <<"period", t.ev.sub, t.plan, t.period>>
      BY <3>2, <3>3, <3>4, <3>5 DEF subscriptionGrantKey
    <3> QED BY <3>3, <3>6 DEF LegacyKey
  <2>2. OldGrant(g)
    BY <2>1 DEF OldInv
  <2>3. \A k \in ledger' : SameMonth(g, k) => k = g \/ g.plan < plan
    <3>1. SameMonth(g, row) => g.plan < plan
      BY <1>1, <1>7, <2>1, OldAdds DEF SameMonth
    <3> QED BY <1>7, <2>2, <3>1 DEF OldGrant
  <2> QED BY <1>2, <1>5, <2>2, <2>3 DEF OldGrant
<1> QED BY <1>6, <1>7 DEF GrantCredits

\* Any other step of a delivery leads away from the grant, or on to it.
LEMMA OldSteps ==
  ASSUME IInv, IInv', OldInv, NEW h \in Handlers, Step(h) \/ Fail(h), ~Receive(h), ~GrantCredits(h)
  PROVE  OldInv'
<1>1. /\ task \in [Handlers -> Task] /\ plan \in Nat /\ plan' \in Nat
      /\ task[h].plan \in Nat /\ Rest.pc = "idle"
  BY Types, RestType DEF IInv, TypeOK, Task
<1>2. UNCHANGED ledger /\ upset \subseteq upset'
  <2>1. CASE RecordInvoice(h)
    BY <2>1 DEF RecordInvoice
  <2>2. CASE ~RecordInvoice(h)
    BY <2>2, ZenonT(60) DEF Step, Fail, Decide, AttachPlan, PersistSubscription,
       SetDodoSubscriptionID, FindLeftovers, CancelSubscription, NoPaymentListed, InvoiceFails,
       ReadInvoice, UpdateRefundStatus, Answer, database
  <2> QED BY <2>1, <2>2
<1>3. plan <= plan'
  <2>1. CASE AttachPlan(h)
    BY <1>1, <2>1 DEF AttachPlan, SetPlanSlugIfHigher
  <2>2. CASE ~AttachPlan(h)
    <3>1. UNCHANGED plan
      BY <2>2, ZenonT(60) DEF Step, Fail, Decide, PersistSubscription,
         SetDodoSubscriptionID, FindLeftovers, CancelSubscription, RecordInvoice, NoPaymentListed, InvoiceFails,
         ReadInvoice, UpdateRefundStatus, Answer, database
    <3> QED BY <1>1, <3>1
  <2> QED BY <2>1, <2>2
<1>4. \A g \in Handlers : Choosing(g)' => Choosing(g) /\ task'[g].previous = task[g].previous
  <2>1. CASE Decide(h)
    <3>1. task[h].pc = "deciding" /\ \E p \in {"granting", "persisting"} : GoTo(h, p)
      BY <2>1 DEF Decide, At
    <3>2. "granting" \in Places /\ "persisting" \in Places
      BY DEF Places
    <3> QED BY <3>1, <3>2, Went DEF Choosing
  <2>2. CASE ~Decide(h)
    <3>1. PICK t : task' = [task EXCEPT ![h] = t] /\ t.pc \notin {"deciding", "granting"}
      <4>1. ASSUME NEW p \in Places \ {"deciding", "granting"}, GoTo(h, p)
            PROVE  \E t : task' = [task EXCEPT ![h] = t] /\ t.pc \notin {"deciding", "granting"}
        <5>1. [task[h] EXCEPT !.pc = p] \in Task /\ task' = [task EXCEPT ![h] = [task[h] EXCEPT !.pc = p]]
          BY <4>1, GoType DEF IInv
        <5>2. [task[h] EXCEPT !.pc = p].pc = p
          BY <1>1 DEF Task
        <5> QED BY <4>1, <5>1, <5>2
      <4>2. CASE \/ AttachPlan(h) \/ SetDodoSubscriptionID(h) \/ RecordInvoice(h)
                 \/ NoPaymentListed(h) \/ UpdateRefundStatus(h)
        <5>1. \E p \in {"closing", "persisting", "replacing", "attaching"} : GoTo(h, p)
          BY <4>2 DEF AttachPlan, SetDodoSubscriptionID, RecordInvoice, AfterInvoice, NoPaymentListed, UpdateRefundStatus
        <5>2. {"closing", "persisting", "replacing", "attaching"} \subseteq Places \ {"deciding", "granting"}
          BY DEF Places
        <5> QED BY <4>1, <5>1, <5>2
      <4>3. CASE PersistSubscription(h)
        <5> DEFINE action == persistDecision(task[h])
                   pc == CASE action = "keep" -> "sweeping" [] action = "adopt" -> "storing"
                           [] action = "stale" -> "cancelling" [] action = "defer" -> "invoicing"
                   next == [task[h] EXCEPT !.pc = pc, !.prior = IF action = "adopt" THEN stored ELSE NoSub,
                                           !.todo = IF action = "stale" THEN {task[h].ev.sub} ELSE {}]
        <5>1. task' = [task EXCEPT ![h] = next]
          BY <4>3 DEF PersistSubscription
        <5>2. action \in {"keep", "adopt", "stale", "defer"}
          BY Actions
        <5> HIDE DEF action
        <5>3. pc \notin {"deciding", "granting"}
          BY <5>2
        <5>4. next.pc = pc
          BY <1>1 DEF Task
        <5> HIDE DEF pc, next
        <5> QED BY <5>1, <5>3, <5>4
      <4>4. ASSUME NEW todo, task' = [task EXCEPT ![h] = Cancelling(task[h], todo)]
            PROVE  \E t : task' = [task EXCEPT ![h] = t] /\ t.pc \notin {"deciding", "granting"}
        <5> DEFINE pc == IF todo = {} THEN "invoicing" ELSE "cancelling"
                   next == [task[h] EXCEPT !.pc = pc, !.todo = todo]
        <5>1. task' = [task EXCEPT ![h] = next]
          BY <4>4 DEF Cancelling
        <5>2. next.pc = pc /\ pc \notin {"deciding", "granting"}
          BY <1>1 DEF Task
        <5> HIDE DEF next
        <5> QED BY <5>1, <5>2
      <4>5. CASE FindLeftovers(h)
        BY <4>4, <4>5 DEF FindLeftovers
      <4>6. CASE CancelSubscription(h)
        BY <4>4, <4>6 DEF CancelSubscription
      <4>7. CASE InvoiceFails(h)
        <5> DEFINE next == [task[h] EXCEPT !.pc = "attaching", !.failed = TRUE]
        <5>1. task' = [task EXCEPT ![h] = next]
          BY <4>7 DEF InvoiceFails
        <5>2. next.pc = "attaching"
          BY <1>1 DEF Task
        <5> HIDE DEF next
        <5> QED BY <5>1, <5>2
      <4>8. CASE ReadInvoice(h)
        <5>1. \/ task' = [task EXCEPT ![h] = Rest]
              \/ \E p \in {"closing", "updating", "invoicing"} : GoTo(h, p)
          BY <4>8 DEF ReadInvoice
        <5>2. {"closing", "updating", "invoicing"} \subseteq Places \ {"deciding", "granting"}
          BY DEF Places
        <5> QED BY <1>1, <4>1, <5>1, <5>2
      <4>9. CASE Answer(h) \/ Fail(h)
        BY <1>1, <4>9 DEF Answer, Fail
      <4> QED BY <2>2, <4>2, <4>3, <4>4, <4>5, <4>6, <4>7, <4>8, <4>9 DEF Step
    <3> QED BY <1>1, <3>1 DEF Choosing
  <2> QED BY <2>1, <2>2
<1> QED BY <1>1, <1>2, <1>3, <1>4, OldMove

LEMMA OldNext == IInv /\ IInv' /\ PaidInv /\ OldInv /\ [Next]_vars => OldInv'
<1> SUFFICES ASSUME IInv, IInv', PaidInv, OldInv, [Next]_vars PROVE OldInv'
  OBVIOUS
<1>1. ASSUME UNCHANGED <<plan, ledger, task, upset>> PROVE OldInv'
  BY <1>1, Types, OldMove DEF Choosing
<1>2. CASE UNCHANGED vars
  BY <1>1, <1>2 DEF vars, database
<1>3. ASSUME NEW h \in Handlers, Step(h) \/ Fail(h)
      PROVE  OldInv'
  BY <1>3, OldReceive, OldGrants, OldSteps
<1>4. CASE NextMonth \/ (\E s \in Subs : CreateCheckout(s) \/ Pay(s)) \/ \E e \in history : SendLater(e)
  BY <1>1, <1>4, OutsideKeeps DEF database
<1> QED BY <1>2, <1>3, <1>4 DEF Next

\* A month of a subscription is granted once, and a month granted under the old key again
\* only to an organization that has been on a better plan, or after a failed read of its
\* plan: for any events in any order, with any overlap and any failures.
THEOREM MonthIsGrantedOnce == Spec => []MonthGrantedOnce
<1>1. Init => OldInv
  BY OldInit
<1>2. IInv /\ IInv' /\ PaidInv /\ OldInv /\ [Next]_vars => OldInv'
  BY OldNext
<1>3. IInv /\ OldInv => MonthGrantedOnce
  BY OldMeans
<1> QED BY <1>1, <1>2, <1>3, EventsPaid, PTL DEF Spec
=============================================================================
