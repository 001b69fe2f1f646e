--------------------------- MODULE OrgMembership ---------------------------
(***************************************************************************)
(* Users, organizations, members and API keys, and the requests that make     *)
(* them: the sync after sign-in that creates a user with a default            *)
(* organization and its welcome credits, the creation of organizations, the   *)
(* adding of members, and the block list.  Transactions run READ COMMITTED;   *)
(* what a transaction wrote is seen when it commits.                          *)
(***************************************************************************)
EXTENDS Naturals, FiniteSets

CONSTANTS
  Users, NoUser,
  Handlers,        \* requests handled at a time
  Plans,           \* sort orders of the plans; 0 is no plan
  Unlimited,
  OrgLimit, MemberLimit,   \* plans.max_organizations, plans.max_members_per_org
  Orgs,            \* bound on the organizations, which are numbered
  Kinds, Mixes,    \* kinds of requests, "block" for a domain; what one history has
  MaxBlocked       \* bound on the users whose domain gets blocked

NoHandler == "none"

ASSUME MembershipAssumption ==
  /\ NoUser \notin Users /\ NoHandler \notin Handlers
  /\ Plans \subseteq Nat /\ 0 \in Plans
  /\ Unlimited \notin Nat
  /\ OrgLimit \in [Plans -> Nat \cup {Unlimited}] /\ OrgLimit[0] = 1
  /\ MemberLimit \in [Plans -> Nat \cup {Unlimited}] /\ MemberLimit[0] = 1
  /\ \A limit \in {OrgLimit, MemberLimit} : \A p, q \in Plans :
       p <= q /\ limit[q] # Unlimited => limit[p] # Unlimited /\ limit[p] <= limit[q]
  /\ Orgs \subseteq Nat \ {0} /\ IsFiniteSet(Orgs)
  /\ IsFiniteSet(Users)
  /\ Kinds = {"sync", "create", "add", "key", "deleteKey", "block"} /\ Mixes \subseteq SUBSET Kinds
  /\ MaxBlocked \in Nat

VARIABLES
  users,         \* the users table: no row, active, blocked
  creator,       \* organizations.created_by
  plan,          \* organizations.plan_slug
  default,       \* the default organizations
  members,       \* organization_members: the admins and the others of an organization
  welcome,       \* ledger rows of welcome credits: their key's user, their organization
  key,           \* who created an organization's active API key, if it has one
  domains,       \* users whose email domain is in blocked_domains
  list,          \* the copy of it in the API process
  creatorLock, membersLock,  \* the advisory locks
  task,
  mix,           \* what this history has
  barred         \* history: users the process knew as blocked before they had a row;
                 \* a restart forgets those who still have none

tables == <<users, creator, plan, default, members, welcome, key>>
locks  == <<creatorLock, membersLock>>
blocks == <<domains, list, barred, mix>>
vars   == <<tables, locks, blocks, task>>

Idle == [pc |-> "idle", user |-> NoUser, org |-> 0, invitee |-> NoUser, blocked |-> FALSE]
Places == {"idle", "sync", "signup", "signupTx", "ensure", "ensureLock", "ensureTx", "ensureInsert",
           "create", "createTx", "createInsert", "add", "addLock", "addTx", "addInsert",
           "key", "deleteKey"}

TypeOK ==
  /\ users \in [Users -> {"none", "active", "blocked"}]
  /\ creator \in [Orgs -> Users \cup {NoUser}]
  /\ plan \in [Orgs -> Plans]
  /\ default \in SUBSET Orgs
  /\ members \in [Orgs -> [admin : SUBSET Users, member : SUBSET Users]]
  /\ welcome \in SUBSET (Users \X Orgs)
  /\ key \in [Orgs -> Users \cup {NoUser}]
  /\ mix \in Mixes
  /\ domains \in SUBSET Users /\ list \in SUBSET Users /\ barred \in SUBSET Users
  /\ creatorLock \in [Users -> Handlers \cup {NoHandler}]
  /\ membersLock \in [Orgs -> Handlers \cup {NoHandler}]
  /\ task \in [Handlers -> [pc : Places, user : Users \cup {NoUser}, org : Orgs \cup {0},
                            invitee : Users \cup {NoUser}, blocked : BOOLEAN]]

\* Users may have rows from before there were default organizations.
Init ==
  /\ users \in [Users -> {"none", "active"}]
  /\ creator = [o \in Orgs |-> NoUser]
  /\ plan = [o \in Orgs |-> 0]
  /\ default = {} /\ welcome = {}
  /\ members = [o \in Orgs |-> [admin |-> {}, member |-> {}]]
  /\ key = [o \in Orgs |-> NoUser]
  /\ mix \in Mixes
  /\ domains = {} /\ list = {} /\ barred = {}
  /\ creatorLock = [u \in Users |-> NoHandler]
  /\ membersLock = [o \in Orgs |-> NoHandler]
  /\ task = [h \in Handlers |-> Idle]

-----------------------------------------------------------------------------
MembersOf(o) == members[o].admin \cup members[o].member
HasMembership(u) == \E o \in Orgs : u \in MembersOf(o)
CreatedBy(u) == {o \in Orgs : creator[o] = u}
PlansOf(u) == {0} \cup {plan[o] : o \in CreatedBy(u)}

\* HighestPlanForCreator and entitlementFor: the limits of the creator's best plan.
HighestPlan(u, p) == p \in PlansOf(u) /\ \A q \in PlansOf(u) : q <= p
Under(n, limit) == limit = Unlimited \/ n < limit

CanCreateOrganization(u) ==
  \E p \in Plans : HighestPlan(u, p) /\ Under(Cardinality(CreatedBy(u)), OrgLimit[p])

CanAddMember(o) ==
  \E p \in Plans : HighestPlan(creator[o], p) /\ Under(Cardinality(MembersOf(o)), MemberLimit[p])

\* UserIsBlocked, and EmailDomainBlocked, which asks the list when the query fails.
UserIsBlocked(u) == users[u] = "blocked" \/ u \in list
\* As if nobody were blocked when the query fails.
DomainBlockedFailsOpen(u) == {(u \in domains), FALSE}

DomainBlocked(u) == {(u \in domains), (u \in list)}

At(h, pc) == task[h].pc = pc
Goes(h, pc) == task' = [task EXCEPT ![h].pc = pc]
Ends(h) == task' = [task EXCEPT ![h] = Idle]

Unlocked(lock, h) == [x \in DOMAIN lock |-> IF lock[x] = h THEN NoHandler ELSE lock[x]]

\* Commit and rollback give the advisory locks back.
EndTx(h) ==
  /\ Ends(h)
  /\ creatorLock' = Unlocked(creatorLock, h)
  /\ membersLock' = Unlocked(membersLock, h)

-----------------------------------------------------------------------------
(***************************************************************************)
(* The Clerk middleware: a user without a row may only sync.                  *)
(***************************************************************************)
Request(h, u, pc, o, invitee) ==
  /\ At(h, "idle")
  /\ IF users[u] = "none" THEN pc = "sync" ELSE ~UserIsBlocked(u)
  /\ task' = [task EXCEPT ![h] = [Idle EXCEPT !.pc = pc, !.user = u, !.org = o, !.invitee = invitee]]
  /\ UNCHANGED <<tables, locks, blocks>>

\* A request, or a call with a key, of a user on the list marks the row.
MarkBlocked(u) ==
  /\ users[u] = "active" /\ u \in list
  /\ users' = [users EXCEPT ![u] = "blocked"]
  /\ UNCHANGED <<creator, plan, default, members, welcome, key, locks, blocks, task>>

Requests(h) ==
  \E u \in Users :
    \/ \E pc \in {"sync", "create"} \cap mix : Request(h, u, pc, 0, NoUser)
    \/ "add" \in mix /\ \E o \in Orgs, invitee \in Users \ {u} : Request(h, u, "add", o, invitee)
    \/ \E o \in Orgs, pc \in {"key", "deleteKey"} \cap mix : Request(h, u, pc, o, NoUser)

(***************************************************************************)
(* Sync: an existing user is checked against the block list, a new one gets a *)
(* row that says whether the domain is blocked.                               *)
(***************************************************************************)
SyncNew(h) ==
  LET u == task[h].user
  IN /\ At(h, "sync") /\ users[u] = "none"
     /\ \E blocked \in DomainBlocked(u) :
          task' = [task EXCEPT ![h] = [@ EXCEPT !.pc = "signup", !.blocked = blocked]]
     /\ UNCHANGED <<tables, locks, blocks>>

SyncBlocked(h) ==
  LET u == task[h].user
  IN /\ At(h, "sync") /\ users[u] # "none"
     /\ users[u] = "blocked" \/ TRUE \in DomainBlocked(u)
     /\ users' = [users EXCEPT ![u] = "blocked"]
     /\ Ends(h)
     /\ UNCHANGED <<creator, plan, default, members, welcome, key, locks, blocks>>

SyncExisting(h) ==
  /\ At(h, "sync") /\ users[task[h].user] = "active"
  /\ FALSE \in DomainBlocked(task[h].user)
  /\ Goes(h, "ensure")
  /\ UNCHANGED <<tables, locks, blocks>>

\* As if nobody waited for the lock.
LockCreatorAtOnce(h) ==
  /\ task[h].pc \in {"signup", "ensureLock", "create"}
  /\ creatorLock' = [creatorLock EXCEPT ![task[h].user] = h]
  /\ Goes(h, CASE task[h].pc = "signup" -> "signupTx" [] task[h].pc = "create" -> "createTx"
               [] task[h].pc = "ensureLock" -> "ensureTx")
  /\ UNCHANGED <<tables, membersLock, blocks>>

LockCreator(h) ==
  LET u == task[h].user
  IN /\ task[h].pc \in {"signup", "ensureLock", "create"}
     /\ creatorLock[u] = NoHandler
     /\ creatorLock' = [creatorLock EXCEPT ![u] = h]
     /\ Goes(h, CASE task[h].pc = "signup" -> "signupTx" [] task[h].pc = "create" -> "createTx"
                  [] task[h].pc = "ensureLock" -> "ensureTx")
     /\ UNCHANGED <<tables, membersLock, blocks>>

\* CreateDefaultForUser and CreateForUser: an organization and its first admin.
Free == {o \in Orgs : creator[o] = NoUser}
NewOrg == CHOOSE o \in Free : TRUE

Create(u, o, asDefault) ==
  /\ creator' = [creator EXCEPT ![o] = u]
  /\ members' = [members EXCEPT ![o].admin = {u}]
  /\ default' = IF asDefault THEN default \cup {o} ELSE default

grantSignupCredits(u, o) ==
  welcome' = IF \E row \in welcome : row[1] = u THEN welcome ELSE welcome \cup {<<u, o>>}

\* createUserWithDefaultOrg: the second insert of a user fails on the primary key.
SignUp(h) ==
  LET u == task[h].user
  IN /\ At(h, "signupTx") /\ users[u] = "none"
     /\ users' = [users EXCEPT ![u] = IF task[h].blocked THEN "blocked" ELSE "active"]
     /\ IF task[h].blocked
        THEN UNCHANGED <<creator, members, default, welcome>>
        ELSE Free # {} /\ Create(u, NewOrg, TRUE) /\ grantSignupCredits(u, NewOrg)
     /\ EndTx(h)
     /\ UNCHANGED <<plan, key, blocks>>

\* ensureDefaultOrg looks before it takes the lock, and again under it.
EnsureLook(h) ==
  /\ At(h, "ensure")
  /\ IF HasMembership(task[h].user) THEN Ends(h) ELSE Goes(h, "ensureLock")
  /\ UNCHANGED <<tables, locks, blocks>>

\* As if the first look were enough.
EnsureUnchecked(h) ==
  /\ At(h, "ensureTx") /\ Goes(h, "ensureInsert")
  /\ UNCHANGED <<tables, locks, blocks>>

EnsureAgain(h) ==
  /\ At(h, "ensureTx")
  /\ IF HasMembership(task[h].user) THEN EndTx(h) ELSE Goes(h, "ensureInsert") /\ UNCHANGED locks
  /\ UNCHANGED <<tables, blocks>>

EnsureInsert(h) ==
  LET u == task[h].user
  IN /\ At(h, "ensureInsert") /\ Free # {}
     /\ Create(u, NewOrg, TRUE) /\ grantSignupCredits(u, NewOrg)
     /\ EndTx(h)
     /\ UNCHANGED <<users, plan, key, blocks>>

-----------------------------------------------------------------------------
\* Service.Create.
CreateCheck(h) ==
  /\ At(h, "createTx")
  /\ IF CanCreateOrganization(task[h].user)
     THEN Goes(h, "createInsert") /\ UNCHANGED locks
     ELSE EndTx(h)
  /\ UNCHANGED <<tables, blocks>>

CreateInsert(h) ==
  /\ At(h, "createInsert") /\ Free # {}
  /\ Create(task[h].user, NewOrg, FALSE)
  /\ EndTx(h)
  /\ UNCHANGED <<users, plan, welcome, key, blocks>>

\* Service.AddMember: an admin adds a user who has a row.
AddCheck(h) ==
  LET t == task[h]
  IN /\ At(h, "add")
     /\ IF t.user \in members[t.org].admin /\ users[t.invitee] # "none"
        THEN Goes(h, "addLock") ELSE Ends(h)
     /\ UNCHANGED <<tables, locks, blocks>>

LockMembers(h) ==
  LET o == task[h].org
  IN /\ At(h, "addLock") /\ membersLock[o] = NoHandler
     /\ membersLock' = [membersLock EXCEPT ![o] = h]
     /\ Goes(h, "addTx")
     /\ UNCHANGED <<tables, creatorLock, blocks>>

AddCount(h) ==
  /\ At(h, "addTx")
  /\ IF CanAddMember(task[h].org)
     THEN Goes(h, "addInsert") /\ UNCHANGED locks
     ELSE EndTx(h)
  /\ UNCHANGED <<tables, blocks>>

\* The role is the caller's choice; the insert of a member twice fails on the unique key.
AddInsert(h) ==
  LET t == task[h]
  IN /\ At(h, "addInsert")
     /\ IF t.invitee \in MembersOf(t.org)
        THEN UNCHANGED members
        ELSE \/ members' = [members EXCEPT ![t.org].admin = @ \cup {t.invitee}]
             \/ members' = [members EXCEPT ![t.org].member = @ \cup {t.invitee}]
     /\ EndTx(h)
     /\ UNCHANGED <<users, creator, plan, default, welcome, key, blocks>>

-----------------------------------------------------------------------------
\* API keys: any member creates one, an admin deletes it, and it may expire.
CreateKey(h) ==
  LET t == task[h]
  IN /\ At(h, "key")
     /\ key' = IF t.user \in MembersOf(t.org) THEN [key EXCEPT ![t.org] = t.user] ELSE key
     /\ Ends(h)
     /\ UNCHANGED <<users, creator, plan, default, members, welcome, locks, blocks>>

DeleteKey(h) ==
  LET t == task[h]
  IN /\ At(h, "deleteKey")
     /\ key' = IF t.user \in members[t.org].admin THEN [key EXCEPT ![t.org] = NoUser] ELSE key
     /\ Ends(h)
     /\ UNCHANGED <<users, creator, plan, default, members, welcome, locks, blocks>>

\* rejectBlockedKeyOwner marks the first of the key's creator and the owner who is listed.
UseKey(o) ==
  LET suspects == {u \in Users \cap {key[o], creator[o]} : users[u] = "active" /\ u \in list}
  IN /\ key[o] # NoUser
     /\ \E u \in suspects : users' = [users EXCEPT ![u] = "blocked"]
     /\ UNCHANGED <<creator, plan, default, members, welcome, key, locks, blocks, task>>

-----------------------------------------------------------------------------
\* The webhook's SetPlanSlugIfHigher, an operator's edit of the list, the reload of it.
RaisePlan(o) ==
  /\ creator[o] # NoUser
  /\ \E p \in Plans : p > plan[o] /\ plan' = [plan EXCEPT ![o] = p]
  /\ UNCHANGED <<users, creator, default, members, welcome, key, locks, blocks, task>>

BlockDomain(u) ==
  /\ "block" \in mix /\ Cardinality(domains) < MaxBlocked
  /\ domains' = domains \cup {u}
  /\ UNCHANGED <<tables, locks, list, barred, mix, task>>

Reload ==
  /\ list' = domains
  /\ barred' = barred \cup {u \in domains : users[u] = "none" /\ \A h \in Handlers : task[h].user # u}
  /\ UNCHANGED <<tables, locks, domains, mix, task>>

\* The list is in memory: the process starts again with an empty one, and stays
\* so until a load succeeds.  Its transactions are rolled back.
Restart ==
  /\ list' = {}
  /\ barred' = {u \in barred : users[u] # "none"}
  /\ task' = [h \in Handlers |-> Idle]
  /\ creatorLock' = [u \in Users |-> NoHandler]
  /\ membersLock' = [o \in Orgs |-> NoHandler]
  /\ UNCHANGED <<tables, domains, mix>>

\* Any statement may fail, and a duplicate user does: the transaction is rolled back.
Abort(h) ==
  /\ ~At(h, "idle")
  /\ EndTx(h)
  /\ UNCHANGED <<tables, blocks>>

Step(h) ==
  \/ Requests(h) \/ SyncNew(h) \/ SyncBlocked(h) \/ SyncExisting(h) \/ LockCreator(h)
  \/ SignUp(h) \/ EnsureLook(h) \/ EnsureAgain(h) \/ EnsureInsert(h)
  \/ CreateCheck(h) \/ CreateInsert(h)
  \/ AddCheck(h) \/ LockMembers(h) \/ AddCount(h) \/ AddInsert(h)
  \/ CreateKey(h) \/ DeleteKey(h) \/ Abort(h)

Next ==
  \/ \E h \in Handlers : Step(h)
  \/ \E u \in Users : MarkBlocked(u) \/ BlockDomain(u)
  \/ \E o \in Orgs : UseKey(o) \/ RaisePlan(o)
  \/ Reload \/ Restart

Spec == Init /\ [][Next]_vars

-----------------------------------------------------------------------------
(***************************************************************************)
(* However requests overlap, nobody has created more organizations, and no    *)
(* organization has more members, than the best plan of the creator allows.   *)
(* Rows are counted in one statement and inserted in another: what keeps two  *)
(* requests from both taking the last place is the advisory lock.             *)
(***************************************************************************)
AtMost(n, limit) == limit = Unlimited \/ n <= limit

OrgsWithinPlan ==
  \A u \in Users : \E p \in PlansOf(u) : AtMost(Cardinality(CreatedBy(u)), OrgLimit[p])

MembersWithinPlan ==
  \A o \in Orgs : creator[o] # NoUser =>
    \E p \in PlansOf(creator[o]) : AtMost(Cardinality(MembersOf(o)), MemberLimit[p])

WithinPlan == OrgsWithinPlan /\ MembersWithinPlan

(***************************************************************************)
(* A user is welcomed once: first requests of a user that come together, and  *)
(* the creation of an organization beside them, leave one default             *)
(* organization, with the welcome credits, and a member has a row.            *)
(***************************************************************************)
WelcomedOnce ==
  \A u \in Users :
    /\ Cardinality(CreatedBy(u) \cap default) <= 1
    /\ {row[2] : row \in {r \in welcome : r[1] = u}} = CreatedBy(u) \cap default
    /\ HasMembership(u) => users[u] # "none"

(***************************************************************************)
(* Somebody whose domain the process had on its list before the first request *)
(* never gets an organization, credits or a key: not by a sync, not when the  *)
(* query of the table fails, and not by being added to one.  A restart ends   *)
(* that for whoever has no row yet, since the list is empty until it is       *)
(* loaded again (a query that fails meanwhile lets them in); a row that was   *)
(* marked stays so.                                                           *)
(***************************************************************************)
BarredGetNothing ==
  \A u \in barred :
    /\ users[u] # "active" /\ CreatedBy(u) = {}
    /\ \A row \in welcome : row[1] # u
    /\ \A o \in Orgs : key[o] # u
=============================================================================
