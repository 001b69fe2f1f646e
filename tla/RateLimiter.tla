---------------------------- MODULE RateLimiter ----------------------------
(***************************************************************************)
(* The in-memory limiter of one organization: a token bucket of requests, one *)
(* more for each user of the playground, and a count of calls in flight.      *)
(* Every operation runs under the organization's mutex.  Tokens are counted   *)
(* in parts, Unit to a token; a bucket is refilled when it is looked at.      *)
(***************************************************************************)
EXTENDS Integers

CONSTANTS
  Users,
  Max,              \* organization.concurrent, raised to 1 by NewMemory
  Unit,             \* parts of one token
  Burst, Rate,      \* the organization's bucket: parts it holds, parts a tick adds
  PlayBurst, PlayRate

ASSUME LimiterAssumption ==
  /\ Max \in Nat \ {0} /\ Unit \in Nat \ {0}
  /\ Burst \in Nat /\ Burst >= Unit /\ PlayBurst \in Nat /\ PlayBurst >= Unit
  /\ Rate \in Nat \ {0} /\ PlayRate \in Nat \ {0}

VARIABLES
  clock,
  rpm,         \* the organization's bucket
  playground,  \* the buckets of its users
  inflight,
  taken, since \* history: parts taken from rpm, and when this process started

limiter == <<clock, rpm, playground, inflight, taken, since>>

Bucket == [tokens : Nat, last : Nat]

LimiterTypeOK ==
  /\ clock \in Nat /\ inflight \in Nat /\ taken \in Nat /\ since \in Nat
  /\ rpm \in Bucket /\ playground \in [Users -> Bucket]

NewBucket(burst) == [tokens |-> burst, last |-> clock]

\* NewMemory, and the buckets state and playgroundBucket make on first use.
LimiterInit ==
  /\ clock = 0 /\ inflight = 0 /\ taken = 0 /\ since = 0
  /\ rpm = [tokens |-> Burst, last |-> 0]
  /\ playground = [u \in Users |-> [tokens |-> PlayBurst, last |-> 0]]

Refilled(b, burst, rate) ==
  LET filled == b.tokens + rate * (clock - b.last)
  IN [tokens |-> IF filled > burst THEN burst ELSE filled, last |-> clock]

Available(b) == b.tokens >= Unit
Take(b) == [b EXCEPT !.tokens = IF @ >= Unit THEN @ - Unit ELSE @]

\* As if the last slot were one more.
FullAbove == inflight > Max

Full == inflight >= Max

(***************************************************************************)
(* Allow: the playground's bucket, the organization's, the calls in flight,   *)
(* in this order, and nothing is taken unless all three admit the call.       *)
(***************************************************************************)
Allow(user, fromPlayground) ==
  LET org == Refilled(rpm, Burst, Rate)
      own == Refilled(playground[user], PlayBurst, PlayRate)
  IN /\ fromPlayground => Available(own)
     /\ Available(org)
     /\ ~Full
     /\ rpm' = Take(org)
     /\ playground' = IF fromPlayground THEN [playground EXCEPT ![user] = Take(own)] ELSE playground
     /\ inflight' = inflight + 1
     /\ taken' = taken + Unit
     /\ UNCHANGED <<clock, since>>

Refuse(user, fromPlayground) ==
  LET org == Refilled(rpm, Burst, Rate)
      own == Refilled(playground[user], PlayBurst, PlayRate)
      outOfOwn == fromPlayground /\ ~Available(own)
  IN /\ outOfOwn \/ ~Available(org) \/ Full
     /\ playground' = IF fromPlayground THEN [playground EXCEPT ![user] = own] ELSE playground
     /\ rpm' = IF outOfOwn THEN rpm ELSE org
     /\ UNCHANGED <<clock, inflight, taken, since>>

\* Reservation.Release, the first time it is called.
Release ==
  /\ inflight' = IF inflight > 0 THEN inflight - 1 ELSE inflight
  /\ UNCHANGED <<clock, rpm, playground, taken, since>>

\* The limiter of a process that starts again.
Restart ==
  /\ inflight' = 0 /\ taken' = 0 /\ since' = clock
  /\ rpm' = NewBucket(Burst)
  /\ playground' = [u \in Users |-> NewBucket(PlayBurst)]
  /\ UNCHANGED clock

Tick ==
  /\ clock' = clock + 1
  /\ UNCHANGED <<rpm, playground, inflight, taken, since>>
=============================================================================
