-------------------------- MODULE InferenceRequest --------------------------
(***************************************************************************)
(* The calls of one organization in one API process, from the limiter to the  *)
(* job that settles their hold: Service.Chat and Service.Converse, which run  *)
(* the same steps, and the controllers around them.  What the wallet does     *)
(* with a hold is CreditWallet; what the provider says is StreamRelay.        *)
(***************************************************************************)
EXTENDS RateLimiter, FiniteSets

CONSTANTS
  Calls,
  UserOf,        \* the user of a call
  Playground,    \* the calls made from the playground
  MaxClock,      \* bound on the clock
  MaxCrashes     \* bound on crashes of the process

ASSUME CallsAssumption ==
  /\ IsFiniteSet(Calls)
  /\ UserOf \in [Calls -> Users]
  /\ Playground \subseteq Calls
  /\ MaxClock \in Nat /\ MaxCrashes \in Nat

VARIABLES
  pc,        \* where the handler of a call is
  slot,      \* the call's Reservation has not been released
  hold,      \* the credit_holds row of the call
  holdID,    \* the handler knows the hold's id
  answer,    \* what dispatch returned: a 2xx result, another result, an error
  jobs,      \* the statuses of the jobs enqueued for the call
  reached,   \* history: the provider was called
  crashes

calls == <<pc, slot, hold, holdID, answer, jobs, reached, crashes>>
vars  == <<limiter, calls>>

\* refused: 429 before anything; returning: leaving Chat, its slot to give back.
Places == {"new", "refused", "admitted", "resolved", "held", "answered", "failing",
           "returning", "writing", "done", "dead"}
Answers == {"none", "success", "error", "failed"}

TypeOK ==
  /\ LimiterTypeOK
  /\ pc \in [Calls -> Places]
  /\ slot \in [Calls -> BOOLEAN]
  /\ hold \in [Calls -> {"none", "open", "released", "billed"}]
  /\ holdID \in [Calls -> BOOLEAN]
  /\ answer \in [Calls -> Answers]
  /\ jobs \in [Calls -> SUBSET {"success", "error"}]
  /\ reached \in [Calls -> BOOLEAN]
  /\ crashes \in Nat

Init ==
  /\ LimiterInit
  /\ pc = [c \in Calls |-> "new"]
  /\ slot = [c \in Calls |-> FALSE]
  /\ hold = [c \in Calls |-> "none"]
  /\ holdID = [c \in Calls |-> FALSE]
  /\ answer = [c \in Calls |-> "none"]
  /\ jobs = [c \in Calls |-> {}]
  /\ reached = [c \in Calls |-> FALSE]
  /\ crashes = 0

Move(c, from, to) == pc[c] = from /\ pc' = [pc EXCEPT ![c] = to]

-----------------------------------------------------------------------------
(***************************************************************************)
(* acquireRateLimit.                                                          *)
(***************************************************************************)
AcquireRateLimit(c) ==
  /\ Move(c, "new", "admitted")
  /\ Allow(UserOf[c], c \in Playground)
  /\ slot' = [slot EXCEPT ![c] = TRUE]
  /\ UNCHANGED <<hold, holdID, answer, jobs, reached, crashes>>

RateLimited(c) ==
  /\ Move(c, "new", "refused")
  /\ Refuse(UserOf[c], c \in Playground)
  /\ UNCHANGED <<slot, hold, holdID, answer, jobs, reached, crashes>>

\* A model that is not found, or that another provider serves, ends the call.
ResolveModel(c) ==
  /\ \E to \in {"resolved", "returning"} : Move(c, "admitted", to)
  /\ UNCHANGED <<limiter, slot, hold, holdID, answer, jobs, reached, crashes>>

(***************************************************************************)
(* placeHold: a hold, low credits, or an error, which may hide a commit.      *)
(***************************************************************************)
PlaceHold(c) ==
  /\ Move(c, "resolved", "held")
  /\ hold' = [hold EXCEPT ![c] = "open"]
  /\ holdID' = [holdID EXCEPT ![c] = TRUE]
  /\ UNCHANGED <<limiter, slot, answer, jobs, reached, crashes>>

PlaceHoldFails(c) ==
  /\ Move(c, "resolved", "returning")
  /\ \E h \in {"none", "open"} : hold' = [hold EXCEPT ![c] = h]
  /\ UNCHANGED <<limiter, slot, holdID, answer, jobs, reached, crashes>>

(***************************************************************************)
(* The provider answers, or the call of it fails (the client hung up, the     *)
(* timeout fired, nothing could be read), or decoding panics and only the     *)
(* deferred release runs.                                                     *)
(***************************************************************************)
Dispatch(c) ==
  /\ \E a \in {"success", "error", "failed"} :
       /\ Move(c, "held", IF a = "failed" THEN "failing" ELSE "answered")
       /\ answer' = [answer EXCEPT ![c] = a]
  /\ reached' = [reached EXCEPT ![c] = TRUE]
  /\ UNCHANGED <<limiter, slot, hold, holdID, jobs, crashes>>

DispatchPanics(c) ==
  /\ Move(c, "held", "returning")
  /\ reached' = [reached EXCEPT ![c] = TRUE]
  /\ UNCHANGED <<limiter, slot, hold, holdID, answer, jobs, crashes>>

\* releaseHold, on a context that outlives the request; its error is only logged.
ReleaseHold(c) ==
  /\ Move(c, "failing", "returning")
  /\ \E h \in {hold[c], "released"} : hold' = [hold EXCEPT ![c] = h]
  /\ UNCHANGED <<limiter, slot, holdID, answer, jobs, reached, crashes>>

ReturnResult(c) ==
  /\ Move(c, "answered", "returning")
  /\ UNCHANGED <<limiter, slot, hold, holdID, answer, jobs, reached, crashes>>

\* The deferred release, on every way out of Chat.
HasResult(c) == answer[c] \in {"success", "error"}

\* As if an early return forgot the slot.
ReleaseSlotOfResults(c) ==
  /\ Move(c, "returning", IF HasResult(c) THEN "writing" ELSE "done")
  /\ IF HasResult(c) THEN Release ELSE UNCHANGED limiter
  /\ slot' = [slot EXCEPT ![c] = FALSE]
  /\ UNCHANGED <<hold, holdID, answer, jobs, reached, crashes>>

ReleaseSlot(c) ==
  /\ Move(c, "returning", IF HasResult(c) THEN "writing" ELSE "done")
  /\ Release
  /\ slot' = [slot EXCEPT ![c] = FALSE]
  /\ UNCHANGED <<hold, holdID, answer, jobs, reached, crashes>>

\* As if every answer were a success.
JobStatusAccepted(c) == "success"

(***************************************************************************)
(* The controller writes a buffered body and RecordUsage enqueues one job,    *)
(* which settles the hold it names: charged when the status was 2xx.          *)
(***************************************************************************)
JobStatus(c) == answer[c]

RecordUsage(c) ==
  /\ Move(c, "writing", "done")
  /\ jobs' = [jobs EXCEPT ![c] = @ \cup {JobStatus(c)}]
  /\ hold' = [hold EXCEPT ![c] = IF holdID[c] THEN (IF JobStatus(c) = "success" THEN "billed" ELSE "released") ELSE @]
  /\ UNCHANGED <<limiter, slot, holdID, answer, reached, crashes>>

-----------------------------------------------------------------------------
\* The process dies with everything in its memory.
Ended(c) == pc[c] \in {"refused", "done", "dead"}

Crash ==
  /\ crashes < MaxCrashes
  /\ crashes' = crashes + 1
  /\ pc' = [c \in Calls |-> IF pc[c] = "new" \/ Ended(c) THEN pc[c] ELSE "dead"]
  /\ slot' = [c \in Calls |-> FALSE]
  /\ Restart
  /\ UNCHANGED <<hold, holdID, answer, jobs, reached>>

\* ReleaseExpiredHolds: a hold nobody settles any more.
Sweep(c) ==
  /\ hold[c] = "open"
  /\ hold' = [hold EXCEPT ![c] = "released"]
  /\ UNCHANGED <<limiter, pc, slot, holdID, answer, jobs, reached, crashes>>

TimePasses ==
  /\ clock < MaxClock
  /\ Tick
  /\ UNCHANGED calls

AllEnded == (\A c \in Calls : Ended(c) /\ hold[c] # "open") /\ UNCHANGED vars

Step(c) ==
  \/ AcquireRateLimit(c) \/ RateLimited(c) \/ ResolveModel(c)
  \/ PlaceHold(c) \/ PlaceHoldFails(c)
  \/ Dispatch(c) \/ DispatchPanics(c) \/ ReleaseHold(c) \/ ReturnResult(c)
  \/ ReleaseSlot(c) \/ RecordUsage(c)

Next == (\E c \in Calls : Step(c) \/ Sweep(c)) \/ Crash \/ TimePasses \/ AllEnded

\* A handler runs to its end once a request has come in: the provider's client
\* and the routes have timeouts.  The sweeper comes by every minute.
Goes(c) == pc[c] # "new" /\ Step(c)

Spec == Init /\ [][Next]_vars /\ \A c \in Calls : WF_vars(Goes(c)) /\ WF_vars(Sweep(c))

-----------------------------------------------------------------------------
(***************************************************************************)
(* The limiter's count is the number of calls inside Chat that it admitted,   *)
(* and stays within the organization's limit: no way out of a call, by an     *)
(* error, a panic or a crash, keeps a slot or gives one back twice.           *)
(***************************************************************************)
Holders == {c \in Calls : slot[c]}
Inside(c) == pc[c] \in {"admitted", "resolved", "held", "answered", "failing", "returning"}

SlotsMatchCalls ==
  /\ inflight = Cardinality(Holders)
  /\ inflight <= Max
  /\ \A c \in Calls : slot[c] <=> Inside(c)

(***************************************************************************)
(* In the life of a process an organization is never admitted more often than *)
(* a full bucket and what time has added to it since.                         *)
(***************************************************************************)
RateBounded == taken <= Burst + Rate * (clock - since)

(***************************************************************************)
(* The provider is never called without a hold; a call is charged when it had *)
(* a 2xx answer and only then, by one job; and a handler that ends leaves its *)
(* hold to the sweeper only when it never had an answer to record.            *)
(***************************************************************************)
HoldHandedOver ==
  \A c \in Calls :
    /\ reached[c] => hold[c] # "none"
    /\ hold[c] = "billed" => jobs[c] = {"success"}
    /\ jobs[c] # {} => jobs[c] = {answer[c]} /\ holdID[c] /\ pc[c] = "done" /\ hold[c] # "open"
    /\ pc[c] = "done" /\ HasResult(c) => jobs[c] = {answer[c]}

(***************************************************************************)
(* However calls end, the slots come back and no credit stays frozen.         *)
(***************************************************************************)
EverythingReturns == <>[](inflight = 0 /\ \A c \in Calls : hold[c] # "open")
=============================================================================
