----------------------- MODULE InferenceRequestProofs -----------------------
(***************************************************************************)
(* What holds of the calls of an organization for every limit, every burst    *)
(* and rate, and any number of calls and crashes.                             *)
(***************************************************************************)
EXTENDS InferenceRequest, FiniteSetTheorems, TLAPS

USE LimiterAssumption, CallsAssumption

(***************************************************************************)
(* The type invariant.                                                        *)
(***************************************************************************)

\* A bucket that is looked at stays a bucket.
LEMMA RefilledType ==
  ASSUME NEW b \in Bucket, NEW burst \in Nat, NEW rate \in Nat, clock \in Nat, b.last <= clock
  PROVE  /\ Refilled(b, burst, rate) \in Bucket
         /\ Take(Refilled(b, burst, rate)) \in Bucket
<1>1. rate * (clock - b.last) \in Nat
  BY DEF Bucket
<1>2. Refilled(b, burst, rate) \in Bucket
  BY <1>1 DEF Refilled, Bucket
<1> QED BY <1>2 DEF Take, Bucket

\* No bucket was looked at in the future.
Past == rpm.last <= clock /\ \A u \in Users : playground[u].last <= clock

\* A call that asks for a slot keeps the limiter's types.
LEMMA LimiterAsked ==
  ASSUME TypeOK, Past, NEW u \in Users, NEW p \in BOOLEAN, Allow(u, p) \/ Refuse(u, p)
  PROVE  LimiterTypeOK' /\ Past'
<1> USE DEF TypeOK, LimiterTypeOK
<1> DEFINE org == Refilled(rpm, Burst, Rate)
           own == Refilled(playground[u], PlayBurst, PlayRate)
<1>1. org \in Bucket /\ Take(org) \in Bucket /\ own \in Bucket /\ Take(own) \in Bucket
  BY RefilledType DEF Past
<1>2. org.last = clock /\ Take(org).last = clock /\ own.last = clock /\ Take(own).last = clock
  BY DEF Refilled, Take
<1> HIDE DEF org, own
<1>3. CASE Allow(u, p)
  <2>1. /\ rpm' = Take(org) /\ inflight' = inflight + 1 /\ taken' = taken + Unit
        /\ clock' = clock /\ since' = since
        /\ playground' = IF p THEN [playground EXCEPT ![u] = Take(own)] ELSE playground
    BY <1>3 DEF Allow, org, own
  <2> QED BY <1>1, <1>2, <2>1 DEF Past
<1>4. CASE Refuse(u, p)
  <2>1. /\ rpm' = rpm \/ rpm' = org
        /\ clock' = clock /\ since' = since /\ inflight' = inflight /\ taken' = taken
        /\ playground' = IF p THEN [playground EXCEPT ![u] = own] ELSE playground
    BY <1>4 DEF Refuse, org, own
  <2> QED BY <1>1, <1>2, <2>1 DEF Past
<1> QED BY <1>3, <1>4

\* So does everything else that happens to it.
LEMMA LimiterMoves ==
  ASSUME TypeOK, Past, Release \/ Restart \/ Tick
  PROVE  LimiterTypeOK' /\ Past'
<1> USE DEF TypeOK, LimiterTypeOK, Past
<1>1. CASE Release BY <1>1 DEF Release
<1>2. CASE Restart BY <1>2 DEF Restart, NewBucket, Bucket
<1>3. CASE Tick BY <1>3 DEF Tick, Bucket
<1> QED BY <1>1, <1>2, <1>3

\* The same of a step that leaves the limiter alone.
LEMMA LimiterStutter ==
  ASSUME TypeOK, Past, UNCHANGED limiter
  PROVE  LimiterTypeOK' /\ Past'
BY DEF TypeOK, LimiterTypeOK, Past, limiter

(***************************************************************************)
(* What the place of a handler says of its call.                              *)
(***************************************************************************)
Before == {"new", "refused", "admitted", "resolved"}

CallOrder(c) ==
  /\ pc[c] \in Before =>
       hold[c] = "none" /\ ~holdID[c] /\ answer[c] = "none" /\ jobs[c] = {} /\ ~reached[c]
  /\ pc[c] \in {"held", "answered", "failing", "writing"} => holdID[c]
  /\ pc[c] \in {"answered", "writing"} => HasResult(c)
  /\ pc[c] = "held" => answer[c] = "none"
  /\ pc[c] = "failing" => answer[c] = "failed"
  /\ HasResult(c) => holdID[c]
  /\ holdID[c] => hold[c] # "none"
  /\ reached[c] => hold[c] # "none"
  /\ hold[c] = "billed" => jobs[c] = {"success"}
  /\ jobs[c] # {} => pc[c] = "done" /\ jobs[c] = {answer[c]} /\ holdID[c] /\ hold[c] # "open"
  /\ pc[c] = "done" /\ HasResult(c) => jobs[c] = {answer[c]}

Order == \A c \in Calls : CallOrder(c)

\* At the start no call has gone anywhere.
LEMMA TypeInit == Init => TypeOK /\ Past /\ Order
BY DEF Init, LimiterInit, TypeOK, LimiterTypeOK, Bucket, Past, Places, Answers, Order, CallOrder, Before, HasResult

\* Every step of the calls keeps the types.
LEMMA TypeStep == TypeOK /\ Past /\ Order /\ [Next]_vars => TypeOK' /\ Past'
<1> SUFFICES ASSUME TypeOK, Past, Order, [Next]_vars PROVE TypeOK' /\ Past'
  OBVIOUS
<1> USE DEF Move, Places, Answers, calls
<1>1. ASSUME NEW c \in Calls, AcquireRateLimit(c) \/ RateLimited(c) PROVE TypeOK' /\ Past'
  <2>1. UserOf[c] \in Users /\ (c \in Playground) \in BOOLEAN
    OBVIOUS
  <2>2. Allow(UserOf[c], c \in Playground) \/ Refuse(UserOf[c], c \in Playground)
    BY <1>1 DEF AcquireRateLimit, RateLimited
  <2>3. LimiterTypeOK' /\ Past'
    BY <2>1, <2>2, LimiterAsked
  <2> QED BY <1>1, <2>3 DEF AcquireRateLimit, RateLimited, TypeOK
<1>2. ASSUME NEW c \in Calls,
             ResolveModel(c) \/ PlaceHold(c) \/ PlaceHoldFails(c) \/ Dispatch(c) \/ DispatchPanics(c)
      PROVE  TypeOK' /\ Past'
  <2> USE DEF ResolveModel, PlaceHold, PlaceHoldFails, Dispatch, DispatchPanics
  <2>1. LimiterTypeOK' /\ Past'
    BY <1>2, LimiterStutter
  <2>2. CASE ResolveModel(c) BY <2>1, <2>2 DEF TypeOK
  <2>3. CASE PlaceHold(c) BY <2>1, <2>3 DEF TypeOK
  <2>4. CASE PlaceHoldFails(c) BY <2>1, <2>4 DEF TypeOK
  <2>5. CASE Dispatch(c) BY <2>1, <2>5 DEF TypeOK
  <2>6. CASE DispatchPanics(c) BY <2>1, <2>6 DEF TypeOK
  <2> QED BY <1>2, <2>2, <2>3, <2>4, <2>5, <2>6
<1>3. ASSUME NEW c \in Calls, ReleaseHold(c) \/ ReturnResult(c) \/ RecordUsage(c) \/ Sweep(c)
      PROVE  TypeOK' /\ Past'
  <2> USE DEF ReleaseHold, ReturnResult, RecordUsage, Sweep
  <2>1. LimiterTypeOK' /\ Past'
    BY <1>3, LimiterStutter
  <2>2. CASE ReleaseHold(c) BY <2>1, <2>2 DEF TypeOK
  <2>3. CASE ReturnResult(c) BY <2>1, <2>3 DEF TypeOK
  <2>4. CASE Sweep(c) BY <2>1, <2>4 DEF TypeOK
  <2>5. CASE RecordUsage(c)
    <3>1. answer[c] \in {"success", "error"}
      BY <2>5 DEF Order, CallOrder, HasResult
    <3> QED BY <2>1, <2>5, <3>1 DEF TypeOK, JobStatus
  <2> QED BY <1>3, <2>2, <2>3, <2>4, <2>5
<1>4. ASSUME NEW c \in Calls, ReleaseSlot(c) PROVE TypeOK' /\ Past'
  <2>1. LimiterTypeOK' /\ Past'
    BY <1>4, LimiterMoves DEF ReleaseSlot
  <2> QED BY <1>4, <2>1 DEF ReleaseSlot, TypeOK
<1>5. CASE Crash
  <2>1. LimiterTypeOK' /\ Past'
    BY <1>5, LimiterMoves DEF Crash
  <2> QED BY <1>5, <2>1 DEF Crash, TypeOK
<1>6. CASE TimePasses
  <2>1. LimiterTypeOK' /\ Past'
    BY <1>6, LimiterMoves DEF TimePasses
  <2> QED BY <1>6, <2>1 DEF TimePasses, TypeOK
<1>7. CASE UNCHANGED vars
  <2>1. LimiterTypeOK' /\ Past'
    BY <1>7, LimiterStutter DEF vars
  <2> QED BY <1>7, <2>1 DEF vars, TypeOK
<1> QED BY <1>1, <1>2, <1>3, <1>4, <1>5, <1>6, <1>7 DEF Next, Step, AllEnded

\* Every step keeps what the place of a handler says.
LEMMA OrderStep == TypeOK /\ Order /\ [Next]_vars => Order'
<1> SUFFICES ASSUME TypeOK, Order, [Next]_vars PROVE Order'
  OBVIOUS
<1> USE DEF TypeOK, Before, CallOrder, HasResult, Answers
<1>1. ASSUME NEW c \in Calls, Step(c) \/ Sweep(c),
             NEW d \in Calls, d # c
      PROVE  CallOrder(d)'
  <2>1. /\ pc'[d] = pc[d] /\ hold'[d] = hold[d] /\ holdID'[d] = holdID[d]
        /\ answer'[d] = answer[d] /\ jobs'[d] = jobs[d] /\ reached'[d] = reached[d]
    BY <1>1 DEF Step, Move, AcquireRateLimit, RateLimited, ResolveModel, PlaceHold, PlaceHoldFails,
                Dispatch, DispatchPanics, ReleaseHold, ReturnResult, ReleaseSlot, RecordUsage, Sweep
  <2>2. CallOrder(d)
    BY DEF Order
  <2> QED BY <2>1, <2>2
<1>2. ASSUME NEW c \in Calls, Step(c) \/ Sweep(c)
      PROVE  CallOrder(c)'
  <2>0. CallOrder(c)
    BY DEF Order
  <2> USE DEF Move
  <2>1. CASE AcquireRateLimit(c) BY <2>0, <2>1 DEF AcquireRateLimit
  <2>2. CASE RateLimited(c) BY <2>0, <2>2 DEF RateLimited
  <2>3. CASE ResolveModel(c) BY <2>0, <2>3 DEF ResolveModel
  <2>4. CASE PlaceHold(c) BY <2>0, <2>4 DEF PlaceHold
  <2>5. CASE PlaceHoldFails(c) BY <2>0, <2>5 DEF PlaceHoldFails
  <2>6. CASE Dispatch(c) BY <2>0, <2>6 DEF Dispatch
  <2>7. CASE DispatchPanics(c) BY <2>0, <2>7 DEF DispatchPanics
  <2>8. CASE ReleaseHold(c) BY <2>0, <2>8 DEF ReleaseHold
  <2>9. CASE ReturnResult(c) BY <2>0, <2>9 DEF ReturnResult
  <2>10. CASE ReleaseSlot(c) BY <2>0, <2>10 DEF ReleaseSlot
  <2>11. CASE RecordUsage(c)
    <3>1. /\ pc[c] = "writing" /\ pc'[c] = "done" /\ holdID[c] /\ jobs[c] = {}
          /\ answer[c] \in {"success", "error"}
      BY <2>0, <2>11 DEF RecordUsage
    <3>2. /\ jobs'[c] = {answer[c]} /\ answer'[c] = answer[c] /\ holdID'[c] /\ reached'[c] = reached[c]
          /\ hold'[c] = IF answer[c] = "success" THEN "billed" ELSE "released"
      BY <2>11, <3>1 DEF RecordUsage, JobStatus
    <3> QED BY <2>0, <3>1, <3>2
  <2>12. CASE Sweep(c) BY <2>0, <2>12 DEF Sweep
  <2> QED BY <1>2, <2>1, <2>2, <2>3, <2>4, <2>5, <2>6, <2>7, <2>8, <2>9, <2>10, <2>11, <2>12 DEF Step
<1>3. CASE Crash
  <2>1. ASSUME NEW c \in Calls PROVE CallOrder(c)'
    <3>1. CallOrder(c)
      BY DEF Order
    <3>2. pc'[c] \in {pc[c], "dead"} /\ (pc[c] = "done" => pc'[c] = "done")
      BY <1>3 DEF Crash, Ended
    <3> QED BY <1>3, <3>1, <3>2 DEF Crash
  <2> QED BY <2>1 DEF Order
<1>4. CASE TimePasses \/ UNCHANGED vars
  BY <1>4 DEF TimePasses, vars, calls, Order
<1> QED BY <1>1, <1>2, <1>3, <1>4 DEF Next, AllEnded, Order

\* The inductive invariant of the handlers.
IInv == TypeOK /\ Past /\ Order

\* It holds in every state of every behaviour of Chat, Converse and their controllers.
THEOREM HandlerInvariant == Spec => []IInv
<1>1. Init => IInv
  BY TypeInit DEF IInv
<1>2. IInv /\ [Next]_vars => IInv'
  BY TypeStep, OrderStep DEF IInv
<1> QED BY <1>1, <1>2, PTL DEF Spec

\* Every variable of the limiter and of the calls keeps its type.
THEOREM TypeCorrect == Spec => []TypeOK
<1>1. IInv => TypeOK
  BY DEF IInv
<1> QED BY <1>1, HandlerInvariant, PTL

\* The provider is called with a hold only, and a call is charged once, when it
\* had a 2xx answer and only then; a handler that ends has recorded its answer.
THEOREM HoldsHandedOver == Spec => []HoldHandedOver
<1>1. IInv => HoldHandedOver
  BY DEF IInv, Order, CallOrder, HoldHandedOver
<1> QED BY <1>1, HandlerInvariant, PTL

(***************************************************************************)
(* The limiter's count.                                                       *)
(***************************************************************************)

\* The count moves with the set of the calls that hold a slot.
LEMMA HoldersStep ==
  ASSUME TypeOK, NEW c \in Calls
  PROVE  /\ Cardinality(Holders) \in Nat
         /\ ~slot[c] /\ slot' = [slot EXCEPT ![c] = TRUE] =>
              Cardinality(Holders') = Cardinality(Holders) + 1
         /\ slot[c] /\ slot' = [slot EXCEPT ![c] = FALSE] =>
              /\ Cardinality(Holders) > 0
              /\ Cardinality(Holders') = Cardinality(Holders) - 1
<1>1. IsFiniteSet(Holders) /\ IsFiniteSet(Holders \ {c})
  <2>1. Holders \subseteq Calls /\ Holders \ {c} \subseteq Calls
    BY DEF Holders
  <2> QED BY <2>1, FS_Subset
<1>2. Cardinality(Holders) \in Nat /\ Cardinality(Holders \ {c}) \in Nat
  BY <1>1, FS_CardinalityType
<1>3. ASSUME ~slot[c], slot' = [slot EXCEPT ![c] = TRUE]
      PROVE  Cardinality(Holders') = Cardinality(Holders) + 1
  <2>1. Holders' = Holders \cup {c} /\ c \notin Holders
    BY <1>3 DEF Holders, TypeOK
  <2> QED BY <1>1, <2>1, FS_AddElement
<1>4. ASSUME slot[c], slot' = [slot EXCEPT ![c] = FALSE]
      PROVE  /\ Cardinality(Holders) > 0
             /\ Cardinality(Holders') = Cardinality(Holders) - 1
  <2>1. Holders' = Holders \ {c} /\ c \in Holders
    BY <1>4 DEF Holders, TypeOK
  <2>2. Cardinality(Holders \ {c}) = Cardinality(Holders) - 1
    BY <1>1, <2>1, FS_RemoveElement
  <2> QED BY <1>2, <2>1, <2>2
<1> QED BY <1>2, <1>3, <1>4

\* No call that is not between its admission and its return has a slot, and the
\* count is that of the slots, through errors, panics and restarts.
THEOREM SlotsAreCalls == Spec => []SlotsMatchCalls
<1>1. Init => SlotsMatchCalls
  <2> SUFFICES ASSUME Init PROVE SlotsMatchCalls
    OBVIOUS
  <2>1. Holders = {}
    BY DEF Init, Holders
  <2> QED BY <2>1, FS_EmptySet DEF Init, LimiterInit, SlotsMatchCalls, Inside
<1>2. TypeOK /\ SlotsMatchCalls /\ [Next]_vars => SlotsMatchCalls'
  <2> SUFFICES ASSUME TypeOK, SlotsMatchCalls, [Next]_vars PROVE SlotsMatchCalls'
    OBVIOUS
  <2> USE DEF SlotsMatchCalls, Inside, Move
  <2>1. ASSUME NEW c \in Calls, AcquireRateLimit(c) PROVE SlotsMatchCalls'
    <3>1. ~slot[c] /\ slot' = [slot EXCEPT ![c] = TRUE] /\ pc' = [pc EXCEPT ![c] = "admitted"]
      BY <2>1 DEF AcquireRateLimit
    <3>2. inflight' = inflight + 1 /\ inflight < Max
      BY <2>1 DEF AcquireRateLimit, Allow, Full, TypeOK, LimiterTypeOK
    <3>3. Cardinality(Holders') = Cardinality(Holders) + 1
      BY <3>1, HoldersStep
    <3>4. \A d \in Calls : slot'[d] <=> Inside(d)'
      BY <3>1 DEF TypeOK
    <3> QED BY <3>2, <3>3, <3>4 DEF Holders, TypeOK, LimiterTypeOK
  <2>2. ASSUME NEW c \in Calls, ReleaseSlot(c) PROVE SlotsMatchCalls'
    <3>1. slot[c] /\ slot' = [slot EXCEPT ![c] = FALSE] /\ pc'[c] \in {"writing", "done"}
          /\ \A d \in Calls \ {c} : pc'[d] = pc[d]
      BY <2>2 DEF ReleaseSlot, TypeOK
    <3>2. Cardinality(Holders) > 0 /\ Cardinality(Holders') = Cardinality(Holders) - 1
      BY <3>1, HoldersStep
    <3>3. inflight' = inflight - 1
      BY <2>2, <3>2 DEF ReleaseSlot, Release
    <3>4. \A d \in Calls : slot'[d] <=> Inside(d)'
      BY <3>1 DEF TypeOK
    <3> QED BY <3>2, <3>3, <3>4 DEF TypeOK, LimiterTypeOK
  <2>3. ASSUME NEW c \in Calls,
               \/ RateLimited(c) \/ ResolveModel(c) \/ PlaceHold(c) \/ PlaceHoldFails(c) \/ Dispatch(c)
               \/ DispatchPanics(c) \/ ReleaseHold(c) \/ ReturnResult(c) \/ RecordUsage(c) \/ Sweep(c)
        PROVE  SlotsMatchCalls'
    <3>1. slot' = slot /\ inflight' = inflight
      BY <2>3 DEF RateLimited, Refuse, ResolveModel, PlaceHold, PlaceHoldFails, Dispatch, DispatchPanics,
                  ReleaseHold, ReturnResult, RecordUsage, Sweep, limiter
    <3>2. \A d \in Calls : Inside(d)' <=> Inside(d)
      BY <2>3 DEF RateLimited, ResolveModel, PlaceHold, PlaceHoldFails, Dispatch, DispatchPanics,
                  ReleaseHold, ReturnResult, RecordUsage, Sweep, TypeOK
    <3>3. Holders' = Holders
      BY <3>1 DEF Holders
    <3> QED BY <3>1, <3>2, <3>3
  <2>4. CASE Crash
    <3>1. Holders' = {} /\ inflight' = 0
      BY <2>4 DEF Crash, Restart, Holders
    <3>2. \A d \in Calls : ~slot'[d] /\ ~Inside(d)'
      BY <2>4 DEF Crash, Ended, TypeOK
    <3> QED BY <3>1, <3>2, FS_EmptySet
  <2>5. CASE TimePasses \/ UNCHANGED vars
    <3>1. inflight' = inflight /\ UNCHANGED calls
      BY <2>5 DEF TimePasses, Tick, vars, limiter
    <3> QED BY <3>1 DEF calls, Holders
  <2> QED BY <2>1, <2>2, <2>3, <2>4, <2>5 DEF Next, Step, AllEnded
<1> QED BY <1>1, <1>2, TypeCorrect, PTL DEF Spec

(***************************************************************************)
(* The rate.                                                                  *)
(***************************************************************************)

\* What was taken and what is left is no more than the bucket and its refills.
Metered ==
  /\ since <= rpm.last /\ rpm.last <= clock
  /\ rpm.tokens + taken <= Burst + Rate * (rpm.last - since)

\* A refill adds at most the rate for the time since the last one.
LEMMA RefillMetered ==
  ASSUME TypeOK, Metered
  PROVE  LET org == Refilled(rpm, Burst, Rate)
         IN /\ org \in Bucket /\ org.last = clock
            /\ org.tokens + taken <= Burst + Rate * (clock - since)
            /\ since <= clock
<1> USE DEF TypeOK, LimiterTypeOK, Bucket
<1> DEFINE org == Refilled(rpm, Burst, Rate)
           now == Rate * (clock - rpm.last)
           then == Rate * (rpm.last - since)
<1>1. now \in Nat /\ then \in Nat /\ now + then = Rate * (clock - since)
  <2>1. clock - rpm.last \in Nat /\ rpm.last - since \in Nat
        /\ (clock - rpm.last) + (rpm.last - since) = clock - since
    BY DEF Metered
  <2>2. \A r, x, y \in Nat : r * x \in Nat /\ r * y \in Nat /\ r * x + r * y = r * (x + y)
    OBVIOUS
  <2> QED BY <2>1, <2>2
<1>2. org \in Bucket /\ org.last = clock /\ org.tokens <= rpm.tokens + now
  BY <1>1 DEF Refilled
<1> HIDE DEF now, then, org
<1>3. rpm.tokens + taken <= Burst + then
  BY DEF Metered, then
<1>4. org.tokens + taken <= Burst + (now + then)
  BY <1>1, <1>2, <1>3
<1>5. since <= clock
  BY DEF Metered
<1> QED BY <1>1, <1>2, <1>4, <1>5 DEF org

\* An organization's calls in the life of a process stay within a full bucket
\* and the refills of that time, whoever makes them.
THEOREM RateIsBounded == Spec => []RateBounded
<1>1. Init => Metered
  BY DEF Init, LimiterInit, Metered
<1>2. TypeOK /\ Metered /\ [Next]_vars => Metered'
  <2> SUFFICES ASSUME TypeOK, Metered, [Next]_vars PROVE Metered'
    OBVIOUS
  <2> DEFINE org == Refilled(rpm, Burst, Rate)
  <2>0. /\ org \in Bucket /\ org.last = clock
        /\ org.tokens + taken <= Burst + Rate * (clock - since)
        /\ since <= clock
    BY RefillMetered
  <2> HIDE DEF org
  <2>1. ASSUME NEW c \in Calls, AcquireRateLimit(c) PROVE Metered'
    <3>1. rpm' = Take(org) /\ Available(org) /\ taken' = taken + Unit /\ UNCHANGED <<clock, since>>
      BY <2>1 DEF AcquireRateLimit, Allow, org
    <3>2. rpm'.last = clock /\ rpm'.tokens = org.tokens - Unit
      BY <2>0, <3>1 DEF Take, Available, Bucket
    <3>3. rpm'.tokens + taken' = org.tokens + taken
      BY <2>0, <3>1, <3>2 DEF Bucket, TypeOK, LimiterTypeOK
    <3> QED BY <2>0, <3>1, <3>2, <3>3 DEF Metered, TypeOK, LimiterTypeOK
  <2>2. ASSUME NEW c \in Calls, RateLimited(c) PROVE Metered'
    <3>1. rpm' \in {rpm, org} /\ UNCHANGED <<clock, since, taken>>
      BY <2>2 DEF RateLimited, Refuse, org
    <3> QED BY <2>0, <3>1 DEF Metered, TypeOK, LimiterTypeOK
  <2>3. CASE Crash
    <3>1. taken' = 0 /\ since' = clock /\ clock' = clock /\ rpm'.last = clock /\ rpm'.tokens = Burst
      BY <2>3 DEF Crash, Restart, NewBucket
    <3> QED BY <3>1 DEF Metered, TypeOK, LimiterTypeOK
  <2>4. CASE TimePasses
    BY <2>4 DEF TimePasses, Tick, Metered, TypeOK, LimiterTypeOK, Bucket
  <2>5. ASSUME NEW c \in Calls,
               \/ ResolveModel(c) \/ PlaceHold(c) \/ PlaceHoldFails(c) \/ Dispatch(c) \/ DispatchPanics(c)
               \/ ReleaseHold(c) \/ ReturnResult(c) \/ ReleaseSlot(c) \/ RecordUsage(c) \/ Sweep(c)
        PROVE  Metered'
    <3>1. UNCHANGED <<clock, rpm, taken, since>>
      BY <2>5 DEF ResolveModel, PlaceHold, PlaceHoldFails, Dispatch, DispatchPanics, ReleaseHold,
                  ReturnResult, ReleaseSlot, Release, RecordUsage, Sweep, limiter
    <3> QED BY <3>1 DEF Metered
  <2>6. CASE UNCHANGED vars
    BY <2>6 DEF vars, limiter, Metered
  <2> QED BY <2>1, <2>2, <2>3, <2>4, <2>5, <2>6 DEF Next, Step, AllEnded
<1>3. TypeOK /\ Metered => RateBounded
  <2> SUFFICES ASSUME TypeOK, Metered PROVE RateBounded
    OBVIOUS
  <2>1. /\ Refilled(rpm, Burst, Rate).tokens \in Nat
        /\ Refilled(rpm, Burst, Rate).tokens + taken <= Burst + Rate * (clock - since)
    BY RefillMetered DEF Bucket
  <2>2. Rate * (clock - since) \in Int /\ taken \in Nat
    BY DEF TypeOK, LimiterTypeOK
  <2> QED BY <2>1, <2>2 DEF RateBounded
<1> QED BY <1>1, <1>2, <1>3, TypeCorrect, PTL DEF Spec
=============================================================================
