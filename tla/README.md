# Orbit API: TLA+ models, checks and proofs

Orbit resells inference: an organization buys credits, calls models over HTTP (native, OpenAI
or Anthropic dialect), and is charged from a prepaid wallet. What has to be right is the money:
nobody spends credits twice, no call is charged twice or for a failure, no crash freezes a
wallet for ever, and a payment event is honoured once. This directory models that core, checks
it with TLC on small instances and proves its main properties with TLAPS for every instance.

## Running it

    tlc -workers 2 -config CreditWallet_Race.cfg MCCreditWallet
    tlapm CreditWalletProofs.tla

`PROJECT.json` lists every run, theorem and mutant, maps each definition to the source lines it
models, and lists the hazards of the code with the properties aimed at them.

## The system

Two processes share one PostgreSQL database: `cmd/http` (the API, a hold reclaimer and the
synchronous half of billing) and `cmd/billing` (a consumer of the SQS billing queue, and a second
reclaimer). Both restart when they die.

| component | state | operations | what is hard | what makes it correct | module |
|---|---|---|---|---|---|
| credit wallet (`repositories/billing`) | `organizations.credits_*`, `credit_ledger`, `credit_holds`, `inference_requests` | GrantOn, PlaceHold, ReleaseHold, ReleaseExpiredHolds, Record | concurrent transactions, retries after an unknown commit, settlement after expiry | balances equal the ledger, one charge a request, one grant a key, bounded overdraft | `CreditWallet`, `HoldTransactions` |
| settlement pipeline (`services/billing`) | SQS messages, receipts, receive counts | Enqueue, Publish, Receive, Process, Delete, redrive | at-least-once delivery, lost publishes, visibility timeout | a job is deleted only once it is recorded | `CreditWallet` |
| hold planner and pricing | none | EstimateInputTokens, ComputeHold, chargeMicros | rounding, clamping, boundaries | a plan fits, is maximal, covers its charge | `HoldPlan` |
| inference handler (`services/inference`, `controller/inference`, `controller/compat`) | one call | acquireRateLimit, placeHold, dispatch, releaseHold, RecordUsage | errors, panics and crashes between a slot, a hold and a job | slot and hold come back, one job a call, charged only after a 2xx answer | `InferenceRequest`, `CreditWallet` |
| rate limiter (`limiter`) | token buckets and in-flight count of an organization, in memory | Allow, Release, refill | concurrent Allow and Release, three limits checked before any is taken, restarts | in-flight equals the calls inside, calls stay within burst and rate | `RateLimiter` |
| stream relay (`eventstream.go`, `mantle_stream.go`, `service.go`) | position in a stream, gathered text, error flags | readAWSEventStreamFrame, relayBedrockStream, responsesStreamAdapter | provider failure after 200, client hang-up, headers of any type | billing agrees with the outcome | `StreamRelay`, `EventStream` |
| stream sinks and compat translation (`compat/*`) | flags of a sink | HandleFrame, Close, request and response conversion | unfinished blocks, lazy starts, kept back tool results | well-formed wire, one terminal event, conversation kept | `StreamSinks`, `CompatRequest`, `StreamRelay` |
| Dodo webhook (`services/webhook/dodo.go`) | plan slug, stored mandate, invoices, grants | subscription, payment and refund events | retried, reordered, concurrent events; several commits an event; a clock month in a key | one grant a subscription month, live mandates were granted, full refunds stay full | `DodoWebhook`, `MandateDecision` |
| checkout | checkout sessions at the provider | CreateCheckout | plan read before a later webhook | no second purchase of the current or a lower plan | `DodoWebhook` |
| organizations, members, user sync | users, organizations, memberships, welcome grants | Sync, Create, AddMember | count and insert under advisory locks, concurrent first syncs | limits hold, one default organization and one signup grant a user | `OrgMembership` |
| API keys, auth, blocklist | keys, blocked domains and the process's copy of them | Clerk, Authenticate, Create, Delete, reload | a list that is ten seconds old | who is barred gets nothing | `OrgMembership` |
| queries, catalogue, plans, mail, logging, routes, migrations, seed | - | reads and I/O | - | - | not modelled |

A call runs like this. `Chat` takes a limiter slot, resolves the model, and `PlaceHold` freezes
an upper bound of the cost while it has the organization row locked, reclaiming expired holds
first. The provider is called. An error before there is a result releases the hold; a result, good
or bad, goes to `RecordUsage`, which builds one job with a fresh idempotency key. `ReliableEnqueuer`
processes the job at once and publishes it to SQS only if that fails. `Process` reads the price
again and calls `Record`: log row, ledger row and settlement of the hold in one transaction. A
consumer does the same for published jobs. A ticker in both processes reclaims expired holds.

The money comes in through `checkout` (a session at the payment provider, Dodo) and the webhook.
An event of a subscription decides what to do with its mandate, grants the month, raises the plan,
stores the mandate, cancels earlier ones and saves the invoice; each is a commit of its own, and an
error answers 500 so that the provider sends the event again. The organizations those credits
belong to are made by the sync after sign-in, or by a request, under PostgreSQL advisory locks.

## Modules

| module | what it is |
|---|---|
| `CreditAccount` | abstract: an account that grants once per key and charges once per request |
| `CreditWallet` | holds, settlement, queue and sweeper; an action is a committed transaction or a step of a handler or of the queue |
| `HoldTransactions` | the same transactions one statement at a time under row locks, with rollbacks and deadlocks |
| `HoldPlan` | the arithmetic of a hold and of its charge |
| `PartialSums` | `SUM(...)` over numbered rows, as a recursive function |
| `RateLimiter` | buckets and in-flight count of one organization |
| `InferenceRequest` | extends `RateLimiter`: calls from the limiter to the job that settles their hold |
| `EventStream` | Bedrock's binary frames and header blocks |
| `StreamSinks` | what the native, OpenAI and Anthropic sinks write for a frame and on Close |
| `CompatRequest` | conversations into Converse messages and Responses items, and answers back |
| `StreamRelay` | extends the three: one dispatched call, frame by frame, to its bytes and its bill |
| `MandateDecision` | what the webhook decides from what it read: mandates, grant keys, refund statuses |
| `DodoWebhook` | extends it: events, deliveries and their commits, checkout, the provider |
| `OrgMembership` | users, organizations, members, keys, welcome credits, block list |
| `PartialSumsTheorems`, `CreditWalletProofs`, `HoldPlanProofs`, `HoldTransactionsProofs`, `InferenceRequestProofs`, `StreamRelayProofs`, `DodoWebhookProofs`, `OrgMembershipProofs` | theorems |
| `MC*` | constants for TLC |

They compose along what they share. `InferenceRequest` decides when a hold is placed, released or
handed to a job; what the wallet then does is `CreditWallet`, and how, statement by statement,
`HoldTransactions`; how much is `HoldPlan`; which answer a call had is `StreamRelay`. A grant of
`DodoWebhook` or a welcome of `OrgMembership` is `GrantCredits` of `CreditWallet`.

**CreditWallet.** `remaining`, `used`, `granted` are the columns of `organizations`; `grantRow`
and `usageRow` are the ledger's rows by idempotency key (0 for none: the table's CHECK keeps
amounts positive); `hold`, `frozen`, `expired` are a request's `credit_holds` row; `logged` its
`inference_requests` row. `phase` and `status` are the handler's control state, `message`,
`receipts`, `receives` the queue; `processed` counts the copies a consumer has recorded and not yet
deleted, since `Record` commits before `DeleteMessage` (`Consume`, `Delete`) and either may fail. `backing` is a history variable: the freeze the charging
transaction gave back. Transactions are atomic here because every one that moves a balance
serializes on its organization row; `HoldTransactions` is the model that does not assume it. A
commit whose outcome the caller does not learn is in `PlaceHold` (the hold is open and its id
lost) and `SettleInHandler` (recorded, and published as well). A dead process is `AbandonHold`. The
price is a choice of every attempt, since `Process` reads it each time. `Legacy` requests have a
job in the queue and no hold, the branch of `Record` for jobs from before migration 0023.

**HoldTransactions.** A transaction is `[id, kind, of, amount]` and moves through `at`. `lock`
gives its mode on an organization row: key share (the foreign key of a child row it inserts),
no-key (a bare UPDATE), update (SELECT FOR UPDATE). `inFlight` are unique keys it inserted and has
not committed, which an `ON CONFLICT DO NOTHING` of the same key waits for. Writes appear at commit.
`Blockers` says whom the next statement waits for; `WaitCycle` is a deadlock and `BreakDeadlock` is
PostgreSQL aborting one of it. These three and `Conflicts` are external: they are PostgreSQL's
rules, applied to the statements of this code. The unique key's wait and the foreign key's wait of
one INSERT are taken together; whoever has a row exclusively waits for nobody, so no cycle is lost.

**HoldPlan.** One call: `Reserve` runs `ComputeHold` on a locked balance, `Answered` prices its usage
at the price of the moment it is processed. Usage is what the provider reported or, for a stream
without a usage frame, an estimate of the text it relayed (`BilledOutput`); the prompt of one that
was cut is then billed by its unpadded estimate (`BilledInput`). Neither the report nor the text is bounded by
the `max_tokens` that was sent, so `ChargeCovered` says what a charge takes beyond its freeze: at most
the price of the output beyond the cap (`BeyondCap`). Integers have no width: the code
multiplies a balance by 10^6 in an int64, so the model is the code for balances below 9.2 * 10^12
micros (9.2 million dollars).

**RateLimiter, InferenceRequest.** `rpm`, `playground`, `inflight` are the fields of an
organization's limiter; a token is cut into `Unit` parts so that a refill is a whole number, and a
bucket is refilled when it is looked at, as in the code. Organizations share no state, so there is
one. `pc` is the place of a call's handler in `Chat`/`Converse` and its controller (the same steps
in each), `slot` its unreleased `Reservation`, `hold` its `credit_holds` row, `holdID` whether the
handler learned the id, `jobs` what it enqueued. A placed hold reported as an error, a provider
that fails, a decode panic (only the deferred `Release` runs), a failed `releaseHold` and a crash
of the process are steps. `RecordUsage` is one step here; how it may fail is `CreditWallet`.

**StreamRelay, EventStream, StreamSinks, CompatRequest.** `upstream` is where the provider is in
its answer; a step reads one frame (Bedrock) or event (Mantle's Responses, which `adapter`, the
`responsesStreamAdapter`, turns into the same frames) or gives one of `pending` to the sink.
`failed` is `streamErr`, `streamed` the text gathered for an estimate, `wire` what the client got.
Headers in front of the ones the relay looks for are of every type of the format and really
decoded, byte by byte (`EventStream`), since a wrong width would turn an exception into content.
Contents are a kind and an id. `Filter`, `Overlay` and the recursive function `HeadersFrom` stand
where one would expect `SelectSeq`, `@@` and a loop: the provers cannot unfold the first two.
`AskedIds` and `AnsweredIds` are what the client and the provider said, save what the code drops:
empty texts, images, system and developer messages (they go to another field), and items that are
neither messages nor calls.

**DodoWebhook, MandateDecision.** `task[h]` is a delivery in handler `h`: its place between two
commits and what it read before. `live` are the mandates that charge, `outstanding` the events the
provider will still deliver, `ledger` the grants by key, `plan` and `stored` the organization's
columns. A plan is its sort order. `Receive` reads everything the decision is made of, with the
outcomes of the reads that the code tolerates: a failed read of the organization counts as no plan
(the code does so), an unresolvable plan is 0. Every write may be followed by a failure (`Fail`),
after which the event is outstanding again. A one-time payment that names its organization while its
plan cannot be resolved grants the credits of its metadata without a plan (`ReceivePayment`), as the
code does. `upset` records what a property excepts: deliveries
that `overlap`, a `blind` read of the organization, an answer of the provider that `lag`s behind, a
mandate that was `dead` when it was stored (it was cancelled while its grant was retried).

**OrgMembership.** `creatorLock` and `membersLock` are the advisory locks, `task[h]` a request of a
user and its place; what a transaction wrote is seen when it commits. `domains` is the table of
blocked domains (as the users it matches) and `list` the process's copy, reloaded every ten
seconds; a failed query falls back to it. `Restart` is a new process: its list is empty until a load
succeeds, and what was running is rolled back. `barred` is a history variable: who was on the list
before having a row. A restart takes those without a row out of it, since the code then lets them in
when the query fails before the list is loaded; a row that was marked blocked stays.

## Runs

| run | instance | shows |
|---|---|---|
| `wallet_race` | 1 organization, 2 requests (one possibly without a hold), 1 grant key, 1 million states | all safety properties of the wallet, and that it implements `CreditAccount` |
| `wallet_two_orgs` | 2 organizations with a request and a grant each, fair | a sweep does not mix wallets, a job without a hold is debited; holds settle |
| `wallet_overdraft` | 1 organization, 3 requests with holds and charges of 2, a grant of 2 | violated: two calls whose holds were reclaimed are charged late, the second to an overdrawn wallet |
| `hold_sizing` | 12 price pairs, 4 prompts, 5 caps, balances -1..14, 1.2 million states | the arithmetic, every boundary of it at a small scale |
| `hold_whole_wallet` | a request of 5 tokens, balances 3 and 4, a ceiling of 6 | violated: a request below the ceiling is clamped to the balance and freezes all of it |
| `tx_two_calls` | 8 transactions of one organization, fair | locks serialize the transactions, only recordings deadlock, all end |
| `tx_mixed` | 9 transactions of two organizations | concurrent duplicate grants, release, a job without a hold, a sweep over both |
| `tx_deadlock` | as `tx_two_calls` | violated: two recordings deadlock |
| `stream_wire` | one call of each dialect at each provider, buffered or streamed, 40 thousand states | what is billed is what happened; the wire is well formed; no content is lost |
| `inference_calls` | 2 calls, 1 slot, 41 thousand states, fair | slots and holds come back however calls end |
| `webhook_events` | 7 histories, 2 handlers, 2.3 million states | one grant a month, live mandates granted, full refunds stay |
| `membership` | 3 users, 2 handlers, 2 organizations, 0.4 million states | limits, one welcome, barred users |

Bounds. `NumRequests = 2` is what a race needs: one request that overdraws, expires or is recorded
late, and one that draws on the same wallet. The amounts make the cases: holds of 1 and 2 with
charges of 0, 1 and 3 give refunds, exact fits, free calls and extra input; a grant of 2 or 4 makes
the second hold fit or not. `MaxReceives = 2` allows two copies of a message to be worked on at
once, a redelivery after a failed delete, and the DLQ. In `hold_sizing` prices are quoted for 4
tokens instead of a million, so every remainder of both ceilings occurs, and prices are below, at
and above one micro a token. Output counts and relayed texts reach from nothing to more than the
ceiling (`OutputCounts`, `StreamedRunes`), input counts to either side of the estimate. Time is a flag: a hold expires at any moment after it was placed. The
theorems cover what these bounds leave out.

`stream_wire`: two blocks of at most two deltas open, continue, interleave and are cut at any
frame; every header type precedes the headers looked for, filled with zeros and with the tag of a
string; conversations have up to three messages (parallel tool calls, then their results, then a
message). `inference_calls`: one slot for two calls, a playground bucket of a single token, three
ticks and one crash: a call is refused by each of the three limits and admitted after the other
returned. `webhook_events`: a trial bought under an old key or not, its upgrade told by two events or
by a charge alone, a change back to a lower plan, a plan that has to be looked up, by a
subscription's event and by a one-time payment, a one-time payment that names its plan, a partial and a full refund; two handlers for overlap, one month boundary, one failure (of
a commit or of a read) in a history. The histories have no subscription whose month is granted under
both keys: that exception of `MonthGrantedOnce` is met by the theorem alone. `membership`: an organization has room for one more member or
none, two users race for it, the third is invited; `mix` splits the requests over four histories;
one domain gets blocked.

Deadlock checking is off for `HoldPlan` (a call ends charged or rejected) and
`HoldTransactions` (every transaction ends); the wallet never stops, since a grant can always be
retried.

Fairness. In `CreditWallet` only two things: time passes, and the sweep comes to each organization. A
process sweeps every minute and skips an organization whose row is locked at that moment
(`SKIP LOCKED`); locks last for a transaction, so `HoldsSettle` *assumes* that none is skipped for ever
and does not show it. Consumers and the queue get none, for nothing here promises that a job is
recorded in the end: a job that keeps failing ends in the DLQ by SQS's redrive rule. Handlers get
no fairness: a process may die anywhere, so no property says that a call is charged in the end. In
`InferenceRequest`: a handler runs on once its request has come in (the provider's client and the
routes have timeouts, and a database error is one of its steps), and the sweeper comes by every
minute; a crash is not fair, and what it leaves is what the sweeper is for. In `HoldTransactions`:
a transaction that waits for nobody goes on, and PostgreSQL's deadlock detector runs. Nothing makes
a transaction start.

## Where code and comments differ

1. Migration 0016 lets `remaining` go negative "for the single request that crosses the
   low-credits threshold". A request whose expired hold was reclaimed is charged all of its cost
   when its job comes, whatever the balance is. In the run two of them are: the first charge takes the
   wallet below zero, the second further (`SingleRequestOverdraws`). What does hold is
   `OverdraftBounded`.
2. `MaxOutputTokens` "bounds a hold so one request cannot freeze an entire wallet". When the
   balance affords fewer tokens than a call asks for, `ComputeHold` clamps to it and freezes all, the
   ceiling never coming into play (`OneRequestLeavesCredit`).
3. `settleHoldTx`: "Lock order is organization then hold [...] so concurrent settle/reclaim cannot
   deadlock". That order holds (`HoldUnderOrg`), and settle against reclaim is safe, but `Record`
   inserts child rows first and holds a key share lock when it asks for the row exclusively: two
   recordings of one organization deadlock (`NoDeadlock`). PostgreSQL aborts one and the queue
   retries it, so no money is lost (`ImplementsAccount`, `TransactionsEnd`); nothing else ever
   deadlocks (`OnlyRecordsDeadlock`).

The models say more about the code than the three runs above quote. TLC shows those that name a
definition or an exception when the one is checked or the other removed; the rest was met while
translating the code:

- A body that ends right after the 12 bytes of a prelude is a clean end (`io.ReadFull` gives a bare
  `io.EOF`, `eventstream.go:121`) and is billed, though the comment at line 95 says `io.EOF` is
  returned only between frames (`TruncationRefunded`).
- A cancelled stream that had only tool-call arguments is billed no output (`LandedIsBilled`); the comment
  at `service.go:101` says that tokens that landed are billed.
- `dodo.go:141`: a failed read of the organization becomes "no plan". A month may then be granted under a
  second key, when the first is the legacy one, or a stale mandate adopted (`"blind"`).
- Two adoptions that overlap can leave no live mandate, or two (`"overlap"`).
- A failure after `SetDodoSubscriptionID` and before the cancellation leaves the old mandate charging
  when no invoice names it. A failure after `attachPlan` when the stored mandate has no invoice makes the retry
  "stale", and it cancels the upgrade that was just paid.
- A charge handled again after the end of its month is granted again, since the key holds the month of processing.
- An event whose organization cannot be resolved, or a subscription event whose plan cannot be, is
  answered 200 and grants nothing. A one-time payment without a plan grants the credits of its metadata
  (`dodo.go:405`); if it comes again and the look-up succeeds, the plan is attached and nothing more is granted.
- After a restart the list of blocked domains is empty until a load succeeds, and a failed first load is
  only logged (`reload.go:35`); a query that fails meanwhile lets in who was barred before (`Restart`).
- A call whose provider goes beyond `max_tokens`, or whose relayed text does, is charged more than its
  freeze (`BeyondCap`).
- A partial refund that is handled together with the full one, or an invoice saved from an
  answer that is behind, turns a full refund into a partial one (`"overlap"`, `"lag"`).
- A truncated tool call stops with another reason when streamed (`mantle_stream.go:192`) than when
  buffered (`mantle.go:306`); the OpenAI sink ends a failed stream with `finish_reason` stop; a cap below
  16 tokens is sent as 4096 (`mantle.go:125`).

## What is proved

For any sets of organizations, requests, grants and amounts that satisfy `WalletAssumption`:
types (a theorem only, no run asks for them), `LedgerAligned`, `CreditConserved`, `OverdraftBounded`, `ChargeBacked`, `DeletedIsRecorded`,
`SettlementFinal` (an action property) and `WalletImplementsAccount` (refinement). For any price
list, balance and cap that satisfy `PlanAssumption`: `PlanPlaceable`, `PlanMaximal`,
`RejectionJustified`, `ChargeCovered`, `FreezeTight` and types. For any calls, buckets and limits
(`LimiterAssumption`, `CallsAssumption`): `SlotsMatchCalls`, `HoldHandedOver`, types, and the rate
(`RateBounded`). For answers of any length, any usage reports and any headers in front of those
the relay looks for, well-formed or of an unknown type (`RelayAssumption`, `HeadersAssumption`):
`OutcomeIsTrue`, `TextIsBilled` and `WireWellFormed`; and for conversations and answers of any
length and any roles, kinds and ids (`ConversationsAssumption`: they have the fields their format
has, and a function call one id): `ConversationKept`. For any set of transactions over any organizations and any number of requests
(`TransactionsAssumption`: a call places one hold, a job without a hold releases none, amounts are
natural numbers): types, `HoldUnderOrg`, `OnlyRecordsDeadlock`, `UsedIsLedger` and
`TransactionsImplementAccount` (refinement). For any users, plans, organizations and handlers
(`MembershipAssumption`: limits grow with the plan, and the free plan has one organization of one
member): `WithinPlan`, `WelcomedOnce`, `BarredGetNothing`, types. For any events, histories,
handlers and failures (`WebhookAssumption`: subscriptions have plans, a payment is for one plan):
types, `MonthGrantedOnce`, `PaidForWhenQuiet`, `FullRefundStays`.

*The wallet.* The accounting equations are not inductive alone. Settling an open hold books the
spend even if no ledger row is inserted, so alignment needs to know that a request with an open hold
has no row yet: that is `ChargeBacked`. It in turn needs `ChargeOrder`: a request that is not yet
placed has no hold, one that is not answered has no status. `IInv == TypeOK /\ Accounts /\
ChargeBacked /\ ChargeOrder` is inductive. Every action falls into a few shapes (nothing, place,
release, sweep, grant, record), with a lemma for each shape about the accounts and one about the
order. How a step moves a total comes from `PartialSumsTheorems`: a sum changes by what its changed
terms change (`SumUpdate`), and moving part of one sum into another keeps their total
(`SumExchange`), which is what reclaiming does. Sums are a recursive function because that is
what the provers can define and unfold; its existence and equation are proved there by induction on
sets. The refinement takes `credit` as `remaining + OpenTotal`: by `CreditConserved` that is grants
less usage, which changes only when a ledger row appears.

*The planner.* `Ceiling` and `Quotient` characterize both roundings by inequalities; `Budget` shows
that the quotient of the remaining budget, rounded up again as a price, still fits it, and one
token more does not.

*A deleted message.* `DeletedIsRecorded` needs `ProcessedIsRecorded`: a
copy counted in `processed` is one whose `Record` committed, and `logged` never shrinks.

*The calls.* `IInv == TypeOK /\ Past /\ Order`: buckets are never ahead of the clock, and the
place of a handler says what it has (a slot inside `Chat`, a hold before dispatch, no job before the
end). The count of slots is the cardinality of `Holders`; one admission adds one element, one return
removes it, and a restart empties both. For the rate, `Metered` bounds what was taken plus what the
bucket still has by the burst and the refills so far.

*The relay.* `FlagIsTrue`: while it runs, its error flag is set exactly when the provider gave up, so
at the end the flag, the reason and the client decide the status as they should. `TextIsCounted`:
text on the wire was counted, since of all frames only a text delta makes a sink write text
(`WritesText`) and Close writes none.

*The headers.* A frame is read as what it is, or as broken, whatever headers come first
(`FrameIsRead`, on which all theorems of the relay rest). `parseEventStreamHeaders` is a recursive
function over the positions of a block; it exists because a header ends behind its start
(`WholeIsAhead`, `HeadersExist`). For two blocks `a` and `c`, induction from the end shows that in
`a \o c` the part of `c` is read as in `c` alone (`BehindHeaders`), and then that a well-formed `a`
adds its headers, which those of `c` replace (`FrontHeaders`, `HeadersStayInStep`). A header of an
unknown type in front makes the frame broken (`UnknownHeader`). A block that swallows the one behind it
by a wrong length is neither: the assumption leaves it out, and the checksum of a frame makes it
the provider's own doing.

*The wire.* `WireWellFormed` speaks of the past of a stream, so the inductive `WireInv` says what the
sink, the adapter and the frames still pending have to do with it. `Well` is the property, event by
event, in a form that a write extends (`WellExtends`). `SinkTells`: what the sink remembers is what is on
the wire (the role was sent if and only if it says so, the blocks it has open are those announced and
not ended). `QueueReady`: every pending frame may be given to the sink after those before it, and giving
one leaves the later ones ready (`StaysReady`), since the frames that one event of the provider becomes
are about the block of that event or end the stream. Where the frames come from decides that they
start ready: Bedrock's blocks are counted by the place of the provider (`BedrockInv`), and the
adapter's are numbered by itself, each open one announced (`MantleInv`). The blocks an end closes are
closed in the order of their indices, which exists for any finite set of them (`SortedExists`). At every
end but a broken connection the sink's Close or the error frame writes the end (`EndIsWell`).

*The conversations.* `BodyInv`: a request in the handler's hands is one that may be asked, an
answer one that may be given. The rest is about the translations, for sequences of any length.
Nearly every one of them gives each element a sequence and joins these: `FlatMap`, of which facts
are proved once (it joins what is appended, composes, keeps types) and used for filters, contents,
ids and items. OpenAI's translation and the items of a Responses message are folds; `FoldLeft` is
shown to be the last of a chain of accumulators, so an invariant of the chain holds of its end. For OpenAI
it says that the ids of the messages made and of the results kept back are those asked so far, that
every message has content and a role the provider knows, and that two messages of results are never
adjacent; for Responses, that the items made and the texts gathered are the contents so far.

*The locks.* `LockInv == LockTypes /\ Compatible /\ TxOrder`: locks on a row never conflict, and
the locks of a transaction are those of the statements it has run. So hold rows are never waited
for, a transaction at its first lock holds nothing anybody waits for, and a grant's only wait is
for one that is about to commit. Who is in a circle of waiting therefore has a key share lock and
wants the row exclusively: a recording.

*The rows.* `UsedIsLedger` and the refinement are about what a transaction read in one statement and
relies on in a later one. `RowInv` says of each that it is still so: a placement's hold row does
not exist before it commits, a recording that inserted no ledger row has found one, a ledger key is in
flight in one transaction only (`KeysUnique`), the holds a sweep or a placement has locked are still
open, and a charged request has no open hold (`ChargedRow`). `LockInv` gives it, since nobody else
writes those rows meanwhile. A commit then changes the rows as the action of `CreditAccount` does, or not
at all when the key was there; every other statement is a stutter. The sums are those of
`PartialSumsTheorems`, over numbered requests.

*Membership.* `IInv == TypeOK /\ OrgOrder /\ TaskOrder /\ WithinPlan /\ WelcomedOnce` with facts
about who is outside and who has keys for the block list. A request that has counted under a lock
is its only owner until it ends, so what it counted is still what is there when it inserts; plans
only rise, so a limit that was met stays met. `WelcomedOnce` needs that the membership is looked up
again under the creator's lock. `BarredGetNothing` needs that a barred user without a row is on the
list: what fills `barred` fills the list, and a restart, which empties it, takes such users out of
`barred`.

*The webhook.* `IInv` has the types, `TaskOrder(h)` (what a delivery has read by its place),
`OneAtATime` (until something overlaps at most one handler is busy), `RefundsHappened` (an invoice
that says full belongs to a payment refunded in full) and `KeyOrder`: a grant's key is made of what
it grants, or is the legacy row there was at the start, and a legacy key is used again only when
the ledger has it, so that nothing is added. Two grants of a month have then the same key and are
one row (`GrantsUnderNewKeys`). For the month granted under the old key, `OldInv`: until a read of the
organization fails, its plan was never below that grant's, nor is what a delivery read of it; so a new key
for the same month is made only when the plan read was above.

`PaidForWhenQuiet` is about the end of many deliveries, so `PaidInv` says what each commit leaves: what
a delivery has done so far is what its answer relies on (`PaidTask`), every grant is of an event that is
outstanding or has brought its plan (`Source`), and an event that was answered has left its plan
attached and its mandate granted or dead (`EventPaid`). Between reading for the decision and
persisting it a delivery decides twice, from two reads; alone, it decides alike (`AloneTask`).

These two properties except what the code does not give, each exception with an execution behind it:

- `"overlap"`: one delivery decides that its mandate is stale, another records an invoice, the first
  decides again and adopts the mandate, which was never granted.
- `"dead"`: a mandate is cancelled while the event that grants it fails; its retry stores it all the same.
- `LookedUp`: an event or a one-time payment that does not name its plan has it looked up; if that fails when the event comes
  again after its grant, the plan granted is never attached.
- `g.plan < plan`: with `a` of plan 2 granted under the old key and `b` of plan 3, a change of `b` to
  plan 1 lets a renewal of `a` be adopted while the organization is still on 3, and its month is granted again
  under the new key.

Induction over data has the form of a set: to show that every sequence, or every position, has a
property, take the set of those that have it (`SetInduction`, `SeqInduction`). The library's own
induction theorems take an operator, which the provers cannot instantiate.

Only model-checked: liveness (`HoldsSettle`, `TransactionsEnd`, `EverythingReturns`), since TLAPS does not reach fairness; and the three violations, which need a
behaviour and not a proof.

## Not modelled

Text, formatting and logging; `Worker` (used by tests only); `ReclaimExpiredForOrg` (no caller); the
balances' width. An organization is never deleted.

Of the compat translation: images, tool schemas, sampling parameters and the names of fields. Of
the webhook: signatures, decoding, more than one organization. The provider's refund statuses are
taken to be "partial" and "full"; plans to have distinct sort orders; an event that names its
organization and plan to do so in its metadata; subscription events to name a subscription,
payments and refunds a payment (others are answered 200 and change nothing, `dodo.go:254`,
`dodo.go:305`). The size of an Indian e-mandate (`checkout/mandate.go`) is arithmetic nothing reads
back.

Of users and organizations: renaming, lists, the welcome mail. An organization has one active
key here; expiry and last use of keys are left out. A blocked user's row may still be added
to an organization (`AddMember` looks the invitee up by mail address and does not ask whether he is
blocked); `BarredGetNothing` is about what such a user gets by himself, and `active` is what he
never becomes.

Reads, pagination, the catalogue, plan queries, configuration, routes, health, mail, migrations and
seed are I/O and static data; they hold no state that an interleaving could break.
