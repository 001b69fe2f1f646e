------------------------ MODULE OrgMembershipProofs ------------------------
(***************************************************************************)
(* The limits of the plans, the welcome and the block list, for any number of *)
(* users, organizations, plans and requests at a time.                        *)
(***************************************************************************)
EXTENDS OrgMembership, FiniteSetTheorems, TLAPS

(***************************************************************************)
(* The inductive invariant.                                                   *)
(***************************************************************************)

\* What the place of a request says of it, of the locks and of the rows it counted.
Room(u) == \E p \in PlansOf(u) : Under(Cardinality(CreatedBy(u)), OrgLimit[p])
Seat(o) ==
  \E u \in Users : creator[o] = u /\ \E p \in PlansOf(u) : Under(Cardinality(MembersOf(o)), MemberLimit[p])

Creating == {"signupTx", "ensureTx", "ensureInsert", "createTx", "createInsert"}
Adding == {"addLock", "addTx", "addInsert"}
Newcomer == {"idle", "sync", "signup", "signupTx"}

TaskOrder(h) ==
  LET t == task[h]
  IN /\ t.pc = "idle" => t.user = NoUser
     /\ t.pc # "idle" => t.user \in Users
     /\ t.pc \notin Newcomer => users[t.user] # "none"
     /\ t.pc \in Creating => creatorLock[t.user] = h
     /\ t.pc = "ensureInsert" => CreatedBy(t.user) = {}
     /\ t.pc = "createInsert" => Room(t.user)
     /\ t.pc \in {"key", "deleteKey"} => t.org \in Orgs
     /\ t.pc \in Adding \cup {"add"} => t.org \in Orgs /\ t.invitee \in Users
     /\ t.pc \in Adding => creator[t.org] # NoUser /\ users[t.invitee] # "none"
     /\ t.pc \in {"addTx", "addInsert"} => membersLock[t.org] = h
     /\ t.pc = "addInsert" => Seat(t.org)

\* An organization is empty until it is created, and keeps its creator.
OrgOrder ==
  \A o \in Orgs :
    /\ creator[o] = NoUser => MembersOf(o) = {} /\ o \notin default
    /\ creator[o] # NoUser => creator[o] \in MembersOf(o)

IInv ==
  /\ TypeOK
  /\ OrgOrder
  /\ \A h \in Handlers : TaskOrder(h)
  /\ WithinPlan
  /\ WelcomedOnce

(***************************************************************************)
(* Limits and counts.                                                         *)
(***************************************************************************)

\* A better plan has no lower limit.
LEMMA LimitsGrow ==
  ASSUME NEW limit \in {OrgLimit, MemberLimit}, NEW p \in Plans, NEW q \in Plans, p <= q, NEW n \in Nat
  PROVE  /\ Under(n, limit[p]) => Under(n, limit[q])
         /\ AtMost(n, limit[p]) => AtMost(n, limit[q])
         /\ Under(n, limit[p]) => AtMost(n + 1, limit[p])
<1>1. limit[p] \in Nat \cup {Unlimited} /\ limit[q] \in Nat \cup {Unlimited} /\ Unlimited \notin Nat
  BY MembershipAssumption
<1>2. limit[q] # Unlimited => limit[p] # Unlimited /\ limit[p] <= limit[q]
  BY MembershipAssumption
<1> QED BY <1>1, <1>2 DEF Under, AtMost

\* Rows of a user and of an organization are finitely many.
LEMMA Countable ==
  ASSUME TypeOK
  PROVE  /\ \A u \in Users : IsFiniteSet(CreatedBy(u)) /\ Cardinality(CreatedBy(u)) \in Nat
         /\ \A o \in Orgs : IsFiniteSet(MembersOf(o)) /\ Cardinality(MembersOf(o)) \in Nat
<1>1. ASSUME NEW u \in Users PROVE IsFiniteSet(CreatedBy(u))
  <2>1. CreatedBy(u) \subseteq Orgs
    BY DEF CreatedBy
  <2> QED BY <2>1, FS_Subset, MembershipAssumption
<1>2. ASSUME NEW o \in Orgs PROVE IsFiniteSet(MembersOf(o))
  <2>1. MembersOf(o) \subseteq Users
    BY DEF MembersOf, TypeOK
  <2> QED BY <2>1, FS_Subset, MembershipAssumption
<1> QED BY <1>1, <1>2, FS_CardinalityType

\* The plans of an organization's creator are plans.
LEMMA PlansArePlans ==
  ASSUME TypeOK, NEW u
  PROVE  PlansOf(u) \subseteq Plans /\ 0 \in PlansOf(u) /\ Plans \subseteq Nat
BY MembershipAssumption DEF PlansOf, CreatedBy, TypeOK

(***************************************************************************)
(* Handlers that do not step.                                                 *)
(***************************************************************************)

\* What one step may do to the rows another request counts on: users keep their
\* rows, organizations their creator, and no plan gets worse.
Kept ==
  /\ \A u \in Users : users[u] # "none" => users'[u] # "none"
  /\ \A o \in Orgs : creator[o] # NoUser => creator'[o] = creator[o]
  /\ \A u \in Users : \A p \in PlansOf(u) : \E q \in PlansOf(u)' : p <= q

\* A step that keeps what was counted keeps the room for one more organization.
LEMMA RoomKept ==
  ASSUME TypeOK, TypeOK', Kept, NEW u \in Users, Room(u), CreatedBy(u)' = CreatedBy(u)
  PROVE  Room(u)'
<1>1. PICK p \in PlansOf(u) : Under(Cardinality(CreatedBy(u)), OrgLimit[p])
  BY DEF Room
<1>2. PICK q \in PlansOf(u)' : p <= q
  BY <1>1 DEF Kept
<1>3. p \in Plans /\ q \in Plans
  BY PlansArePlans, MembershipAssumption DEF PlansOf, CreatedBy, TypeOK
<1> QED BY <1>1, <1>2, <1>3, LimitsGrow, Countable DEF Room

\* So it does the seat for one more member.
LEMMA SeatKept ==
  ASSUME TypeOK, TypeOK', Kept, NEW o \in Orgs, creator[o] # NoUser, Seat(o),
         MembersOf(o)' = MembersOf(o)
  PROVE  Seat(o)'
<1>1. PICK u \in Users :
        creator[o] = u /\ \E p \in PlansOf(u) : Under(Cardinality(MembersOf(o)), MemberLimit[p])
  BY DEF Seat
<1>2. PICK p \in PlansOf(u) : Under(Cardinality(MembersOf(o)), MemberLimit[p])
  BY <1>1
<1>3. creator'[o] = u
  BY <1>1 DEF Kept
<1>4. PICK q \in PlansOf(u)' : p <= q
  BY <1>2 DEF Kept
<1>5. p \in Plans /\ q \in Plans
  BY PlansArePlans, MembershipAssumption DEF PlansOf, CreatedBy, TypeOK
<1>6. Under(Cardinality(MembersOf(o)), MemberLimit[q])
  BY <1>2, <1>4, <1>5, LimitsGrow, Countable
<1> QED BY <1>3, <1>4, <1>6 DEF Seat

\* A request that does not step keeps what its place says, when its locks stay
\* its own and the rows they guard are not touched.
LEMMA OthersKept ==
  ASSUME TypeOK, TypeOK', Kept, NEW g \in Handlers, TaskOrder(g), task'[g] = task[g],
         \A u \in Users : creatorLock[u] = g => creatorLock'[u] = g,
         \A o \in Orgs : membersLock[o] = g => membersLock'[o] = g,
         \A u \in Users : creatorLock[u] = g => CreatedBy(u)' = CreatedBy(u),
         \A o \in Orgs : membersLock[o] = g /\ creator[o] # NoUser => MembersOf(o)' = MembersOf(o)
  PROVE  TaskOrder(g)'
<1> DEFINE t == task[g]
<1>1. t.pc \in Places /\ t.user \in Users \cup {NoUser} /\ t.org \in Orgs \cup {0}
  BY DEF TypeOK
<1>2. t.pc \in Newcomer \/ t.user \in Users
  BY DEF TaskOrder, Newcomer
<1>3. t.pc \notin Newcomer => users'[t.user] # "none"
  BY <1>2 DEF TaskOrder, Kept
<1>4. t.pc \in Creating => t.user \in Users /\ creatorLock[t.user] = g /\ creatorLock'[t.user] = g
  BY DEF TaskOrder, Creating
<1>5. t.pc = "ensureInsert" => CreatedBy(t.user)' = {}
  <2> SUFFICES ASSUME t.pc = "ensureInsert" PROVE CreatedBy(t.user)' = {}
    OBVIOUS
  <2>1. PICK u \in Users : u = t.user
    BY <1>2 DEF Newcomer
  <2>2. CreatedBy(u)' = CreatedBy(u)
    BY <1>4, <2>1 DEF Creating
  <2>3. CreatedBy(u) = {}
    BY <2>1 DEF TaskOrder
  <2>4. t' = t
    OBVIOUS
  <2> QED BY <2>1, <2>2, <2>3, <2>4 DEF CreatedBy
<1>6. t.pc = "createInsert" => Room(t.user)'
  <2> SUFFICES ASSUME t.pc = "createInsert" PROVE Room(t.user)'
    OBVIOUS
  <2>1. PICK u \in Users : u = t.user
    BY <1>2 DEF Newcomer
  <2>2. CreatedBy(u)' = CreatedBy(u) /\ Room(u)
    BY <1>4, <2>1 DEF Creating, TaskOrder
  <2>3. Room(u)'
    BY <2>2, RoomKept
  <2> QED BY <2>1, <2>3 DEF Room, CreatedBy, PlansOf
<1>7. t.pc \in Adding => creator'[t.org] # NoUser /\ users'[t.invitee] # "none"
  <2>1. t.pc \in Adding => t.org \in Orgs /\ t.invitee \in Users /\ creator[t.org] # NoUser
    BY DEF TaskOrder
  <2> QED BY <2>1 DEF TaskOrder, Kept
<1>8. t.pc \in {"addTx", "addInsert"} => t.org \in Orgs /\ membersLock[t.org] = g /\ membersLock'[t.org] = g
  BY DEF TaskOrder, Adding
<1>9. t.pc = "addInsert" => Seat(t.org)'
  <2> SUFFICES ASSUME t.pc = "addInsert" PROVE Seat(t.org)'
    OBVIOUS
  <2>1. PICK o \in Orgs : o = t.org
    BY <1>8
  <2>2. creator[o] # NoUser /\ Seat(o)
    BY <2>1 DEF TaskOrder, Adding
  <2>3. MembersOf(o)' = MembersOf(o)
    BY <1>8, <2>1, <2>2
  <2>4. Seat(o)'
    BY <2>2, <2>3, SeatKept
  <2> QED BY <2>1, <2>4 DEF Seat, MembersOf
<1> QED
  BY <1>1, <1>2, <1>3, <1>4, <1>5, <1>6, <1>7, <1>8, <1>9 DEF TaskOrder, Newcomer, Creating, Adding

(***************************************************************************)
(* What a step does to the tables.                                            *)
(***************************************************************************)

Tables == OrgOrder /\ WithinPlan /\ WelcomedOnce
UsersStay == \A u \in Users : users[u] # "none" => users'[u] # "none"

\* Only a user's status or a key changes, or a request goes on.
LEMMA TablesStay ==
  ASSUME TypeOK, Tables, UsersStay, UNCHANGED <<creator, plan, default, members, welcome>>
  PROVE  /\ Kept /\ Tables'
         /\ \A u \in Users : CreatedBy(u)' = CreatedBy(u)
         /\ \A o \in Orgs : MembersOf(o)' = MembersOf(o)
<1>1. /\ \A u \in Users : CreatedBy(u)' = CreatedBy(u) /\ PlansOf(u)' = PlansOf(u)
      /\ \A o \in Orgs : MembersOf(o)' = MembersOf(o)
  BY DEF CreatedBy, PlansOf, MembersOf
<1>2. Kept
  <2>1. \A u \in Users : \A p \in PlansOf(u) : p <= p
    BY PlansArePlans
  <2> QED BY <1>1, <2>1 DEF Kept, UsersStay
<1>3. OrgOrder'
  BY <1>1 DEF Tables, OrgOrder
<1>4. WithinPlan'
  BY DEF Tables, WithinPlan, OrgsWithinPlan, MembersWithinPlan, PlansOf, CreatedBy, MembersOf
<1>5. WelcomedOnce'
  <2>1. \A u \in Users : HasMembership(u)' <=> HasMembership(u)
    BY <1>1 DEF HasMembership
  <2> QED BY <1>1, <2>1 DEF Tables, WelcomedOnce, UsersStay
<1> QED BY <1>1, <1>2, <1>3, <1>4, <1>5 DEF Tables

\* The plan of one organization gets better.
LEMMA PlanRaised ==
  ASSUME TypeOK, TypeOK', Tables, UNCHANGED <<users, creator, default, members, welcome>>,
         NEW o \in Orgs, NEW p \in Plans, p > plan[o], plan' = [plan EXCEPT ![o] = p]
  PROVE  /\ Kept /\ Tables'
         /\ \A u \in Users : CreatedBy(u)' = CreatedBy(u)
         /\ \A x \in Orgs : MembersOf(x)' = MembersOf(x)
<1>1. /\ \A u \in Users : CreatedBy(u)' = CreatedBy(u)
      /\ \A x \in Orgs : MembersOf(x)' = MembersOf(x)
  BY DEF CreatedBy, MembersOf
<1>2. ASSUME NEW u \in Users, NEW q \in PlansOf(u)
      PROVE  \E r \in PlansOf(u)' : q <= r
  <2>1. CASE q = 0
    BY <2>1 DEF PlansOf
  <2>2. CASE q # 0
    <3>1. PICK x \in CreatedBy(u) : q = plan[x]
      BY <1>2, <2>2 DEF PlansOf
    <3>2. x \in Orgs /\ q \in Nat /\ q <= plan'[x]
      BY <3>1, PlansArePlans DEF CreatedBy, TypeOK
    <3>3. plan'[x] \in PlansOf(u)'
      BY <1>1, <3>1 DEF PlansOf
    <3> QED BY <3>2, <3>3
  <2> QED BY <2>1, <2>2
<1>3. Kept
  BY <1>2 DEF Kept
<1>4. OrgOrder' /\ WelcomedOnce'
  <2>1. \A u \in Users : HasMembership(u)' <=> HasMembership(u)
    BY <1>1 DEF HasMembership
  <2> QED BY <1>1, <2>1 DEF Tables, OrgOrder, WelcomedOnce
<1>5. OrgsWithinPlan'
  <2> SUFFICES ASSUME NEW u \in Users
               PROVE  \E q \in PlansOf(u)' : AtMost(Cardinality(CreatedBy(u)'), OrgLimit[q])
    BY DEF OrgsWithinPlan
  <2>1. PICK q \in PlansOf(u) : AtMost(Cardinality(CreatedBy(u)), OrgLimit[q])
    BY DEF Tables, WithinPlan, OrgsWithinPlan
  <2>2. PICK r \in PlansOf(u)' : q <= r
    BY <1>2
  <2>3. q \in Plans /\ r \in Plans
    BY PlansArePlans, MembershipAssumption DEF PlansOf, CreatedBy, TypeOK
  <2>4. AtMost(Cardinality(CreatedBy(u)), OrgLimit[r])
    BY <2>1, <2>2, <2>3, LimitsGrow, Countable
  <2> QED BY <1>1, <2>2, <2>4
<1>6. MembersWithinPlan'
  <2> SUFFICES ASSUME NEW x \in Orgs, creator'[x] # NoUser
               PROVE  \E q \in PlansOf(creator[x])' : AtMost(Cardinality(MembersOf(x)'), MemberLimit[q])
    BY DEF MembersWithinPlan
  <2>1. PICK u \in Users : creator[x] = u
    BY DEF TypeOK
  <2>2. PICK q \in PlansOf(u) : AtMost(Cardinality(MembersOf(x)), MemberLimit[q])
    BY <2>1 DEF Tables, WithinPlan, MembersWithinPlan
  <2>3. PICK r \in PlansOf(u)' : q <= r
    BY <1>2
  <2>4. q \in Plans /\ r \in Plans
    BY PlansArePlans, MembershipAssumption DEF PlansOf, CreatedBy, TypeOK
  <2>5. AtMost(Cardinality(MembersOf(x)), MemberLimit[r])
    BY <2>2, <2>3, <2>4, LimitsGrow, Countable
  <2>6. r \in PlansOf(creator[x])'
    BY <2>1, <2>3 DEF PlansOf, CreatedBy
  <2> QED BY <1>1, <2>5, <2>6
<1> QED BY <1>1, <1>3, <1>4, <1>5, <1>6 DEF Tables, WithinPlan

\* A member joins an organization that has a seat left.
LEMMA MemberJoined ==
  ASSUME TypeOK, TypeOK', Tables, UNCHANGED <<users, creator, plan, default, welcome>>,
         NEW o \in Orgs, NEW v \in Users, creator[o] # NoUser, users[v] # "none", Seat(o),
         MembersOf(o)' \in {MembersOf(o), MembersOf(o) \cup {v}},
         \A x \in Orgs \ {o} : MembersOf(x)' = MembersOf(x)
  PROVE  /\ Kept /\ Tables'
         /\ \A u \in Users : CreatedBy(u)' = CreatedBy(u)
<1>1. \A u \in Users : CreatedBy(u)' = CreatedBy(u) /\ PlansOf(u)' = PlansOf(u)
  BY DEF CreatedBy, PlansOf
<1>2. Kept
  <2>1. \A u \in Users : \A p \in PlansOf(u) : p <= p
    BY PlansArePlans
  <2> QED BY <1>1, <2>1 DEF Kept
<1>3. OrgOrder'
  <2>1. \A x \in Orgs : MembersOf(x) \subseteq MembersOf(x)'
    OBVIOUS
  <2>2. \A x \in Orgs : creator[x] = NoUser => MembersOf(x)' = MembersOf(x)
    OBVIOUS
  <2> QED BY <2>1, <2>2 DEF Tables, OrgOrder
<1>4. WelcomedOnce'
  <2>1. \A u \in Users : HasMembership(u)' => HasMembership(u) \/ u = v
    BY DEF HasMembership
  <2> QED BY <1>1, <2>1 DEF Tables, WelcomedOnce
<1>5. OrgsWithinPlan'
  BY <1>1 DEF Tables, WithinPlan, OrgsWithinPlan
<1>6. MembersWithinPlan'
  <2> SUFFICES ASSUME NEW x \in Orgs, creator'[x] # NoUser
               PROVE  \E q \in PlansOf(creator[x])' : AtMost(Cardinality(MembersOf(x)'), MemberLimit[q])
    BY DEF MembersWithinPlan
  <2>1. PICK u \in Users : creator[x] = u
    BY DEF TypeOK
  <2>2. \E q \in PlansOf(u) : AtMost(Cardinality(MembersOf(x)'), MemberLimit[q])
    <3>1. PICK q \in PlansOf(u) : AtMost(Cardinality(MembersOf(x)), MemberLimit[q])
      BY <2>1 DEF Tables, WithinPlan, MembersWithinPlan
    <3>2. CASE MembersOf(x)' = MembersOf(x)
      BY <3>1, <3>2
    <3>3. CASE MembersOf(x)' # MembersOf(x)
      <4>1. x = o /\ MembersOf(x)' = MembersOf(x) \cup {v} /\ v \notin MembersOf(x)
        BY <3>3
      <4>2. Cardinality(MembersOf(x)') = Cardinality(MembersOf(x)) + 1
        BY <4>1, FS_AddElement, Countable
      <4>3. PICK r \in PlansOf(u) : Under(Cardinality(MembersOf(x)), MemberLimit[r])
        BY <2>1, <4>1 DEF Seat
      <4>4. r \in Plans /\ r <= r
        BY PlansArePlans
      <4> QED BY <4>2, <4>3, <4>4, LimitsGrow, Countable
    <3> QED BY <3>2, <3>3
  <2>3. PlansOf(u) = PlansOf(creator[x])'
    BY <2>1 DEF PlansOf, CreatedBy
  <2> QED BY <2>2, <2>3
<1> QED BY <1>1, <1>2, <1>3, <1>4, <1>5, <1>6 DEF Tables, WithinPlan

\* An organization is created: a user's first one, with the welcome, or one more
\* for which the user's plan has room.
LEMMA OrgMade ==
  ASSUME TypeOK, TypeOK', Tables, UsersStay, NEW u \in Users, NEW d \in BOOLEAN,
         Free # {}, Create(u, NewOrg, d), UNCHANGED plan, users'[u] # "none",
         \/ d /\ CreatedBy(u) = {} /\ grantSignupCredits(u, NewOrg)
         \/ ~d /\ Room(u) /\ UNCHANGED welcome
  PROVE  /\ Kept /\ Tables'
         /\ \A w \in Users \ {u} : CreatedBy(w)' = CreatedBy(w)
         /\ \A o \in Orgs : creator[o] # NoUser => MembersOf(o)' = MembersOf(o)
<1>1. PICK new \in Orgs : new = NewOrg /\ creator[new] = NoUser
  BY DEF NewOrg, Free
<1>2. /\ creator' = [creator EXCEPT ![new] = u]
      /\ default' = IF d THEN default \cup {new} ELSE default
      /\ MembersOf(new) = {} /\ new \notin default
  BY <1>1 DEF Create, Tables, OrgOrder
<1>3. MembersOf(new)' = {u} /\ \A o \in Orgs \ {new} : MembersOf(o)' = MembersOf(o)
  <2>1. members' = [members EXCEPT ![new].admin = {u}]
    BY <1>1 DEF Create
  <2> QED BY <1>2, <2>1 DEF MembersOf, TypeOK
<1>4. u # NoUser
  BY MembershipAssumption
<1>5. /\ \A w \in Users \ {u} : CreatedBy(w)' = CreatedBy(w)
      /\ CreatedBy(u)' = CreatedBy(u) \cup {new} /\ new \notin CreatedBy(u)
  BY <1>1, <1>2, <1>4, MembershipAssumption DEF CreatedBy, TypeOK
<1>6. \A w \in Users : PlansOf(w) \subseteq PlansOf(w)' /\ 0 \in PlansOf(w)'
  BY <1>5 DEF PlansOf
<1>7. Kept
  <2>1. \A w \in Users : \A p \in PlansOf(w) : p <= p
    BY PlansArePlans
  <2> QED BY <1>1, <1>2, <1>6, <2>1 DEF Kept, UsersStay
<1>8. OrgOrder'
  BY <1>1, <1>2, <1>3, <1>4 DEF Tables, OrgOrder, TypeOK
<1>9. OrgsWithinPlan'
  <2> SUFFICES ASSUME NEW w \in Users
               PROVE  \E p \in PlansOf(w)' : AtMost(Cardinality(CreatedBy(w)'), OrgLimit[p])
    BY DEF OrgsWithinPlan
  <2>1. CASE w # u
    BY <1>5, <1>6, <2>1 DEF Tables, WithinPlan, OrgsWithinPlan
  <2>2. CASE w = u /\ CreatedBy(u) = {}
    <3>1. CreatedBy(u)' = {new}
      BY <1>5, <2>2
    <3>2. Cardinality(CreatedBy(u)') = 1
      BY <3>1, FS_Singleton
    <3> QED BY <1>6, <2>2, <3>2, MembershipAssumption DEF AtMost
  <2>3. CASE w = u /\ Room(u)
    <3>1. Cardinality(CreatedBy(u)') = Cardinality(CreatedBy(u)) + 1
      BY <1>5, FS_AddElement, Countable
    <3>2. PICK p \in PlansOf(u) : Under(Cardinality(CreatedBy(u)), OrgLimit[p])
      BY <2>3 DEF Room
    <3>3. p \in Plans /\ p <= p
      BY PlansArePlans
    <3> QED BY <1>6, <2>3, <3>1, <3>2, <3>3, LimitsGrow, Countable
  <2> QED BY <2>1, <2>2, <2>3
<1>10. MembersWithinPlan'
  <2> SUFFICES ASSUME NEW o \in Orgs, creator'[o] # NoUser
               PROVE  \E p \in PlansOf(creator[o])' : AtMost(Cardinality(MembersOf(o)'), MemberLimit[p])
    BY DEF MembersWithinPlan
  <2>1. PICK w \in Users : creator'[o] = w
    BY DEF TypeOK
  <2>2. \E p \in PlansOf(w)' : AtMost(Cardinality(MembersOf(o)'), MemberLimit[p])
    <3>1. CASE o = new
      <4>1. Cardinality(MembersOf(o)') = 1
        BY <1>3, <3>1, FS_Singleton
      <4> QED BY <1>6, <4>1, MembershipAssumption DEF AtMost
    <3>2. CASE o # new
      <4>1. creator[o] = w /\ MembersOf(o)' = MembersOf(o)
        BY <1>2, <1>3, <2>1, <3>2 DEF TypeOK
      <4>2. \E p \in PlansOf(w) : AtMost(Cardinality(MembersOf(o)), MemberLimit[p])
        BY <2>1, <4>1, MembershipAssumption DEF Tables, WithinPlan, MembersWithinPlan
      <4> QED BY <1>6, <4>1, <4>2
    <3> QED BY <3>1, <3>2
  <2>3. PlansOf(w)' = PlansOf(creator[o])'
    BY <2>1 DEF PlansOf, CreatedBy
  <2> QED BY <2>2, <2>3
<1>11. WelcomedOnce'
  <2> SUFFICES ASSUME NEW w \in Users
               PROVE  /\ Cardinality(CreatedBy(w)' \cap default') <= 1
                      /\ {row[2] : row \in {r \in welcome' : r[1] = w}} = CreatedBy(w)' \cap default'
                      /\ HasMembership(w)' => users'[w] # "none"
    BY DEF WelcomedOnce
  <2>1. /\ Cardinality(CreatedBy(w) \cap default) <= 1
        /\ {row[2] : row \in {r \in welcome : r[1] = w}} = CreatedBy(w) \cap default
        /\ HasMembership(w) => users[w] # "none"
    BY DEF Tables, WelcomedOnce
  <2>2. HasMembership(w)' => users'[w] # "none"
    <3>1. HasMembership(w)' => w = u \/ HasMembership(w)
      BY <1>3 DEF HasMembership
    <3> QED BY <2>1, <3>1 DEF UsersStay
  <2>3. CASE w = u /\ d
    <3>1. CreatedBy(u) = {} /\ grantSignupCredits(u, new)
      BY <1>1, <2>3
    <3>2. \A row \in welcome : row[1] # u
      BY <2>1, <2>3, <3>1
    <3>3. welcome' = welcome \cup {<<u, new>>}
      BY <3>1, <3>2 DEF grantSignupCredits
    <3>4. {row[2] : row \in {r \in welcome' : r[1] = u}} = {new}
      <4>1. {r \in welcome' : r[1] = u} = {<<u, new>>}
        BY <3>2, <3>3
      <4>2. \A S : S = {<<u, new>>} => {row[2] : row \in S} = {new}
        OBVIOUS
      <4> QED BY <4>1, <4>2
    <3>5. CreatedBy(u)' \cap default' = {new}
      BY <1>2, <1>5, <2>3, <3>1
    <3>6. Cardinality({new}) = 1
      BY FS_Singleton
    <3> QED BY <2>2, <2>3, <3>4, <3>5, <3>6
  <2>4. CASE ~(w = u /\ d)
    <3>1. CreatedBy(w)' \cap default' = CreatedBy(w) \cap default
      BY <1>1, <1>2, <1>5, <2>4 DEF CreatedBy
    <3>2. {r \in welcome' : r[1] = w} = {r \in welcome : r[1] = w}
      BY <2>4 DEF grantSignupCredits
    <3> QED BY <2>1, <2>2, <3>1, <3>2
  <2> QED BY <2>3, <2>4
<1> QED BY <1>1, <1>2, <1>3, <1>5, <1>7, <1>8, <1>9, <1>10, <1>11 DEF Tables, WithinPlan

(***************************************************************************)
(* Every step keeps the invariant.                                            *)
(***************************************************************************)

\* A handler that runs has a user, and the organization and the invitee it needs.
LEMMA TaskUser ==
  ASSUME TypeOK, NEW h \in Handlers, TaskOrder(h), task[h].pc # "idle"
  PROVE  task[h].user \in Users
BY DEF TaskOrder

Task == [pc : Places, user : Users \cup {NoUser}, org : Orgs \cup {0},
         invitee : Users \cup {NoUser}, blocked : BOOLEAN]

\* The block list says yes or no.
LEMMA VerdictType == \A u : DomainBlocked(u) \subseteq BOOLEAN
<1> SUFFICES ASSUME NEW u PROVE DomainBlocked(u) \subseteq BOOLEAN
  OBVIOUS
<1>1. \A a, b \in BOOLEAN : {a, b} \subseteq BOOLEAN
  OBVIOUS
<1>2. (u \in domains) \in BOOLEAN /\ (u \in list) \in BOOLEAN
  OBVIOUS
<1>3. DomainBlocked(u) = {(u \in domains), (u \in list)}
  BY DEF DomainBlocked
<1>4. {(u \in domains), (u \in list)} \subseteq BOOLEAN
  BY <1>1, <1>2, Zenon
<1> QED BY <1>3, <1>4, Zenon

\* Types of what is created and of what a request becomes.
LEMMA CreateType ==
  ASSUME TypeOK, NEW u \in Users, NEW d \in BOOLEAN, Free # {}, Create(u, NewOrg, d)
  PROVE  /\ creator' \in [Orgs -> Users \cup {NoUser}]
         /\ members' \in [Orgs -> [admin : SUBSET Users, member : SUBSET Users]]
         /\ default' \in SUBSET Orgs
         /\ grantSignupCredits(u, NewOrg) => welcome' \in SUBSET (Users \X Orgs)
<1>1. NewOrg \in Orgs
  BY DEF NewOrg, Free
<1> QED BY <1>1 DEF Create, TypeOK, grantSignupCredits

\* A request that ends leaves the locks and the requests well typed.
LEMMA EndType ==
  ASSUME TypeOK, NEW h \in Handlers, EndTx(h) \/ (Ends(h) /\ UNCHANGED locks)
  PROVE  /\ creatorLock' \in [Users -> Handlers \cup {NoHandler}]
         /\ membersLock' \in [Orgs -> Handlers \cup {NoHandler}]
         /\ task' \in [Handlers -> Task]
<1>1. Idle \in Task /\ task \in [Handlers -> Task]
  BY DEF Idle, Places, Task, TypeOK
<1>2. task' = [task EXCEPT ![h] = Idle]
  BY DEF EndTx, Ends
<1>3. /\ creatorLock' \in [Users -> Handlers \cup {NoHandler}]
      /\ membersLock' \in [Orgs -> Handlers \cup {NoHandler}]
  BY DEF EndTx, Unlocked, TypeOK, locks
<1> QED BY <1>1, <1>2, <1>3

\* So does one that goes on.
LEMMA GoType ==
  ASSUME TypeOK, NEW h \in Handlers, NEW p \in Places, Goes(h, p)
  PROVE  task' \in [Handlers -> Task]
<1>1. task \in [Handlers -> Task] /\ task[h] \in Task
  BY DEF TypeOK, Task
<1>2. [task[h] EXCEPT !.pc = p] \in Task
  BY <1>1 DEF Task
<1>3. task' = [task EXCEPT ![h] = [task[h] EXCEPT !.pc = p]]
  BY <1>1 DEF Goes
<1> QED BY <1>1, <1>2, <1>3

\* Every step of a request keeps the types.
LEMMA TypeOfStep ==
  ASSUME TypeOK, NEW h \in Handlers, TaskOrder(h), Step(h)
  PROVE  TypeOK'
<1> USE DEF TypeOK, tables, locks, blocks, At, Task
<1>1. CASE Requests(h)
  <2>1. ASSUME NEW u \in Users, NEW p \in Places, NEW o \in Orgs \cup {0}, NEW v \in Users \cup {NoUser},
               Request(h, u, p, o, v)
        PROVE  TypeOK'
    <3>1. task' \in [Handlers -> Task]
      <4>1. task \in [Handlers -> Task]
        OBVIOUS
      <4>2. [Idle EXCEPT !.pc = p, !.user = u, !.org = o, !.invitee = v] \in Task
        BY DEF Idle
      <4> HIDE DEF Task, TypeOK
      <4> QED BY <2>1, <4>1, <4>2 DEF Request
    <3> QED BY <2>1, <3>1 DEF Request
  <2>2. {"sync", "create", "add", "key", "deleteKey"} \subseteq Places
    BY DEF Places
  <2> HIDE DEF TypeOK, tables, locks, blocks, At
  <2> SUFFICES ASSUME NEW u \in Users,
                      \/ \E p \in {"sync", "create"} \cap mix : Request(h, u, p, 0, NoUser)
                      \/ \E o \in Orgs, v \in Users : Request(h, u, "add", o, v)
                      \/ \E o \in Orgs, p \in {"key", "deleteKey"} \cap mix : Request(h, u, p, o, NoUser)
               PROVE  TypeOK'
    BY <1>1 DEF Requests
  <2>3. CASE \E p \in {"sync", "create"} \cap mix : Request(h, u, p, 0, NoUser)
    BY <2>1, <2>2, <2>3
  <2>4. CASE \E o \in Orgs, v \in Users : Request(h, u, "add", o, v)
    BY <2>1, <2>2, <2>4
  <2>5. CASE \E o \in Orgs, p \in {"key", "deleteKey"} \cap mix : Request(h, u, p, o, NoUser)
    BY <2>1, <2>2, <2>5
  <2> QED BY <2>3, <2>4, <2>5
<1>2. CASE SyncNew(h)
  <2>0. DomainBlocked(task[h].user) \subseteq BOOLEAN
    BY VerdictType
  <2>1. PICK blocked \in BOOLEAN : task' = [task EXCEPT ![h] = [task[h] EXCEPT !.pc = "signup", !.blocked = blocked]]
    BY <1>2, <2>0 DEF SyncNew
  <2>2. task \in [Handlers -> Task] /\ [task[h] EXCEPT !.pc = "signup", !.blocked = blocked] \in Task
    BY ZenonT(60) DEF Places
  <2>3. task' \in [Handlers -> Task]
    BY <2>1, <2>2
  <2> QED BY <1>2, <2>3 DEF SyncNew
<1>3. CASE SyncBlocked(h)
  BY <1>3, EndType DEF SyncBlocked
<1>4. CASE SyncExisting(h) \/ EnsureLook(h)
  BY <1>4, EndType, GoType DEF SyncExisting, EnsureLook, Places
<1>5. CASE LockCreator(h)
  <2>1. PICK p \in Places : Goes(h, p)
    BY <1>5 DEF LockCreator, Places
  <2> QED BY <1>5, <2>1, GoType DEF LockCreator
<1>6. CASE SignUp(h)
  <2>1. task[h].user \in Users
    BY <1>6, TaskUser DEF SignUp
  <2>2. users' \in [Users -> {"none", "active", "blocked"}]
    BY <1>6 DEF SignUp
  <2> QED BY <1>6, <2>1, <2>2, EndType, CreateType DEF SignUp
<1>7. CASE EnsureAgain(h) \/ CreateCheck(h) \/ AddCheck(h) \/ AddCount(h)
  BY <1>7, EndType, GoType DEF EnsureAgain, CreateCheck, AddCheck, AddCount, Places
<1>8. CASE EnsureInsert(h)
  <2>1. task[h].user \in Users
    BY <1>8, TaskUser DEF EnsureInsert
  <2> QED BY <1>8, <2>1, EndType, CreateType DEF EnsureInsert
<1>9. CASE CreateInsert(h)
  <2>1. task[h].user \in Users
    BY <1>9, TaskUser DEF CreateInsert
  <2> QED BY <1>9, <2>1, EndType, CreateType DEF CreateInsert
<1>10. CASE LockMembers(h)
  BY <1>10, GoType DEF LockMembers, Places
<1>11. CASE AddInsert(h)
  <2>1. task[h].invitee \in Users /\ task[h].org \in Orgs
    BY <1>11 DEF AddInsert, TaskOrder, Adding
  <2>2. members' \in [Orgs -> [admin : SUBSET Users, member : SUBSET Users]]
    BY <1>11, <2>1 DEF AddInsert
  <2> QED BY <1>11, <2>2, EndType DEF AddInsert
<1>12. CASE CreateKey(h)
  <2>1. task[h].user \in Users
    BY <1>12, TaskUser DEF CreateKey
  <2> QED BY <1>12, <2>1, EndType DEF CreateKey
<1>13. CASE DeleteKey(h)
  BY <1>13, EndType DEF DeleteKey
<1>14. CASE Abort(h)
  BY <1>14, EndType DEF Abort
<1> QED
  BY <1>1, <1>2, <1>3, <1>4, <1>5, <1>6, <1>7, <1>8, <1>9, <1>10, <1>11, <1>12, <1>13, <1>14 DEF Step

\* A step of h leaves the other requests and their locks alone.
Alone(h) ==
  \A g \in Handlers \ {h} :
    /\ task'[g] = task[g]
    /\ \A u \in Users : creatorLock[u] = g => creatorLock'[u] = g
    /\ \A o \in Orgs : membersLock[o] = g => membersLock'[o] = g

\* It changes no rows that others count under a lock.
Guarded(h) ==
  \A g \in Handlers \ {h} :
    /\ \A u \in Users : creatorLock[u] = g => CreatedBy(u)' = CreatedBy(u)
    /\ \A o \in Orgs : membersLock[o] = g /\ creator[o] # NoUser => MembersOf(o)' = MembersOf(o)

\* A step that keeps the tables, and the rows the others have counted, keeps the
\* invariant.
LEMMA Together ==
  ASSUME IInv, TypeOK', Kept, Tables', NEW h \in Handlers, Alone(h), Guarded(h), TaskOrder(h)'
  PROVE  IInv'
<1>1. ASSUME NEW g \in Handlers PROVE TaskOrder(g)'
  <2>1. CASE g = h
    BY <2>1 DEF TaskOrder, Room, Seat, CreatedBy, PlansOf, MembersOf
  <2>2. CASE g # h
    BY <2>2, OthersKept DEF IInv, Alone, Guarded
  <2> QED BY <2>1, <2>2
<1> QED BY <1>1 DEF IInv, Tables

\* A step that changes no table but the users' does.
LEMMA QuietStep ==
  ASSUME IInv, TypeOK', UsersStay, UNCHANGED <<creator, plan, default, members, welcome>>,
         NEW h \in Handlers, Alone(h), TaskOrder(h)'
  PROVE  IInv'
BY TablesStay, Together DEF IInv, Tables, Guarded

\* A request that ends gives back its own locks only.
LEMMA EndAlone ==
  ASSUME IInv, NEW h \in Handlers, EndTx(h) \/ (Ends(h) /\ UNCHANGED locks)
  PROVE  Alone(h) /\ TaskOrder(h)'
<1>1. task' = [task EXCEPT ![h] = Idle] /\ task'[h] = Idle
  BY DEF EndTx, Ends, IInv, TypeOK
<1>2. Alone(h)
  <2>1. ASSUME NEW g \in Handlers \ {h}, NEW u \in Users, creatorLock[u] = g PROVE creatorLock'[u] = g
    BY <2>1 DEF EndTx, Unlocked, locks, IInv, TypeOK
  <2>2. ASSUME NEW g \in Handlers \ {h}, NEW o \in Orgs, membersLock[o] = g PROVE membersLock'[o] = g
    BY <2>2 DEF EndTx, Unlocked, locks, IInv, TypeOK
  <2>3. \A g \in Handlers \ {h} : task'[g] = task[g]
    BY <1>1 DEF IInv, TypeOK
  <2> QED BY <2>1, <2>2, <2>3 DEF Alone
<1>3. TaskOrder(h)'
  BY <1>1 DEF TaskOrder, Idle, Newcomer, Creating, Adding
<1> QED BY <1>2, <1>3

\* A request that goes on keeps its locks.
LEMMA GoAlone ==
  ASSUME IInv, NEW h \in Handlers, NEW p, Goes(h, p), UNCHANGED locks
  PROVE  /\ Alone(h)
         /\ task'[h] = [task[h] EXCEPT !.pc = p] /\ task[h] \in Task
         /\ task'[h].pc = p /\ task'[h].user = task[h].user /\ task'[h].org = task[h].org
         /\ task'[h].invitee = task[h].invitee
BY DEF Goes, locks, Alone, IInv, TypeOK, Task

\* A new request comes in.
LEMMA RequestStep ==
  ASSUME IInv, TypeOK', NEW h \in Handlers, NEW u \in Users, NEW p, NEW o, NEW v, Request(h, u, p, o, v),
         \/ p \in {"sync", "create"}
         \/ p = "add" /\ o \in Orgs /\ v \in Users
         \/ p \in {"key", "deleteKey"} /\ o \in Orgs
  PROVE  IInv'
<1>1. /\ task'[h] = [Idle EXCEPT !.pc = p, !.user = u, !.org = o, !.invitee = v]
      /\ \A g \in Handlers \ {h} : task'[g] = task[g]
  BY DEF Request, IInv, TypeOK
<1>2. task'[h].pc = p /\ task'[h].user = u /\ task'[h].org = o /\ task'[h].invitee = v
  BY <1>1 DEF Idle
<1>3. p # "sync" => users'[u] # "none"
  BY DEF Request, tables
<1>4. TaskOrder(h)'
  BY <1>2, <1>3 DEF TaskOrder, Newcomer, Creating, Adding
<1>5. Alone(h) /\ UsersStay /\ UNCHANGED <<creator, plan, default, members, welcome>>
  BY <1>1 DEF Request, tables, locks, Alone, UsersStay
<1> QED BY <1>4, <1>5, QuietStep

\* Sync goes on.
LEMMA SyncStep ==
  ASSUME IInv, TypeOK', NEW h \in Handlers, SyncNew(h) \/ SyncBlocked(h) \/ SyncExisting(h) \/ EnsureLook(h)
  PROVE  IInv'
<1> USE DEF tables, locks, At
<1>0. TaskOrder(h) /\ task[h].user \in Users
  BY TaskUser DEF IInv, SyncNew, SyncBlocked, SyncExisting, EnsureLook
<1>1. UsersStay /\ UNCHANGED <<creator, plan, default, members, welcome>>
  BY <1>0 DEF SyncNew, SyncBlocked, SyncExisting, EnsureLook, UsersStay, IInv, TypeOK
<1>2. CASE SyncNew(h)
  <2>1. PICK b : task' = [task EXCEPT ![h] = [@ EXCEPT !.pc = "signup", !.blocked = b]]
    BY <1>2 DEF SyncNew
  <2>2. task'[h].pc = "signup" /\ task'[h].user = task[h].user
    BY <2>1 DEF IInv, TypeOK
  <2>3. \A g \in Handlers \ {h} : task'[g] = task[g]
    BY <2>1 DEF IInv, TypeOK
  <2>4. TaskOrder(h)'
    BY <1>0, <2>2 DEF TaskOrder, Newcomer, Creating, Adding
  <2>5. Alone(h)
    BY <1>2, <2>3 DEF SyncNew, Alone
  <2> QED BY <1>1, <2>4, <2>5, QuietStep
<1>3. CASE SyncBlocked(h)
  <2>1. Alone(h) /\ TaskOrder(h)'
    BY <1>3, EndAlone DEF SyncBlocked
  <2> QED BY <1>1, <2>1, QuietStep
<1>4. CASE SyncExisting(h)
  <2>1. Alone(h) /\ task'[h].pc = "ensure" /\ task'[h].user = task[h].user
    BY <1>4, GoAlone DEF SyncExisting
  <2>2. users'[task[h].user] # "none"
    BY <1>4 DEF SyncExisting
  <2>3. TaskOrder(h)'
    BY <1>0, <2>1, <2>2 DEF TaskOrder, Newcomer, Creating, Adding
  <2> QED BY <1>1, <2>1, <2>3, QuietStep
<1>5. CASE EnsureLook(h)
  <2>1. CASE Ends(h)
    <3>1. Alone(h) /\ TaskOrder(h)'
      BY <1>5, <2>1, EndAlone DEF EnsureLook
    <3> QED BY <1>1, <3>1, QuietStep
  <2>2. CASE Goes(h, "ensureLock")
    <3>1. Alone(h) /\ task'[h].pc = "ensureLock" /\ task'[h].user = task[h].user
      BY <1>5, <2>2, GoAlone DEF EnsureLook
    <3>2. users'[task[h].user] # "none"
      BY <1>0, <1>5 DEF EnsureLook, TaskOrder, Newcomer
    <3>3. TaskOrder(h)'
      BY <1>0, <3>1, <3>2 DEF TaskOrder, Newcomer, Creating, Adding
    <3> QED BY <1>1, <3>1, <3>3, QuietStep
  <2> QED BY <1>5, <2>1, <2>2 DEF EnsureLook
<1> QED BY <1>2, <1>3, <1>4, <1>5

\* A lock is taken.
LEMMA LockStep ==
  ASSUME IInv, TypeOK', NEW h \in Handlers, LockCreator(h) \/ LockMembers(h)
  PROVE  IInv'
<1> USE DEF tables, locks, At
<1>0. TaskOrder(h) /\ task[h].user \in Users
  BY TaskUser DEF IInv, LockCreator, LockMembers
<1>1. UsersStay /\ UNCHANGED <<users, creator, plan, default, members, welcome>>
  BY DEF LockCreator, LockMembers, UsersStay
<1>2. CASE LockCreator(h)
  <2>1. /\ creatorLock[task[h].user] = NoHandler /\ membersLock' = membersLock
        /\ creatorLock' = [creatorLock EXCEPT ![task[h].user] = h]
    BY <1>2 DEF LockCreator
  <2>2. PICK p \in {"signupTx", "ensureTx", "createTx"} : Goes(h, p) /\ (p # "signupTx" => task[h].pc \notin Newcomer)
    BY <1>2 DEF LockCreator, Newcomer
  <2>3. task'[h].pc = p /\ task'[h].user = task[h].user /\ \A g \in Handlers \ {h} : task'[g] = task[g]
    BY <2>2 DEF Goes, IInv, TypeOK
  <2>4. creatorLock'[task[h].user] = h
    BY <1>0, <2>1 DEF IInv, TypeOK
  <2>5. TaskOrder(h)'
    BY <1>0, <1>1, <2>2, <2>3, <2>4 DEF TaskOrder, Newcomer, Creating, Adding
  <2>6. Alone(h)
    BY <2>1, <2>3, MembershipAssumption DEF Alone, IInv, TypeOK
  <2> QED BY <1>1, <2>5, <2>6, QuietStep
<1>3. CASE LockMembers(h)
  <2>1. /\ membersLock[task[h].org] = NoHandler /\ creatorLock' = creatorLock
        /\ membersLock' = [membersLock EXCEPT ![task[h].org] = h]
        /\ Goes(h, "addTx") /\ task[h].pc = "addLock"
    BY <1>3 DEF LockMembers
  <2>2. /\ task'[h].pc = "addTx" /\ task'[h].user = task[h].user /\ task'[h].org = task[h].org
        /\ task'[h].invitee = task[h].invitee /\ \A g \in Handlers \ {h} : task'[g] = task[g]
    BY <2>1 DEF Goes, IInv, TypeOK
  <2>3. task[h].org \in Orgs /\ membersLock'[task[h].org] = h
    BY <1>0, <2>1 DEF TaskOrder, Adding, IInv, TypeOK
  <2>4. TaskOrder(h)'
    BY <1>0, <1>1, <2>1, <2>2, <2>3 DEF TaskOrder, Newcomer, Creating, Adding
  <2>5. Alone(h)
    BY <2>1, <2>2, MembershipAssumption DEF Alone, IInv, TypeOK
  <2> QED BY <1>1, <2>4, <2>5, QuietStep
<1> QED BY <1>2, <1>3

\* Rows are looked at or counted: the request ends, or goes on with what it saw.
LEMMA CheckStep ==
  ASSUME IInv, TypeOK', NEW h \in Handlers, EnsureAgain(h) \/ CreateCheck(h) \/ AddCheck(h) \/ AddCount(h)
  PROVE  IInv'
<1> USE DEF tables, At
<1>0. TaskOrder(h) /\ task[h].user \in Users
  BY TaskUser DEF IInv, EnsureAgain, CreateCheck, AddCheck, AddCount
<1>1. UsersStay /\ UNCHANGED <<users, creator, plan, default, members, welcome>>
  BY DEF EnsureAgain, CreateCheck, AddCheck, AddCount, UsersStay
<1>2. CASE EndTx(h) \/ (Ends(h) /\ UNCHANGED locks)
  BY <1>1, <1>2, EndAlone, QuietStep
<1>3. CASE EnsureAgain(h) /\ ~HasMembership(task[h].user) /\ Goes(h, "ensureInsert") /\ UNCHANGED locks
  <2>1. /\ Alone(h) /\ task'[h].pc = "ensureInsert" /\ task'[h].user = task[h].user
        /\ task[h].pc = "ensureTx" /\ creatorLock' = creatorLock
    BY <1>3, GoAlone DEF EnsureAgain, locks
  <2>2. CreatedBy(task[h].user) = {}
    BY <1>0, <1>3, MembershipAssumption DEF IInv, OrgOrder, HasMembership, CreatedBy
  <2>3. CreatedBy(task[h].user)' = {}
    BY <1>1, <2>1, <2>2 DEF CreatedBy
  <2>4. TaskOrder(h)'
    BY <1>0, <1>1, <2>1, <2>3 DEF TaskOrder, Newcomer, Creating, Adding
  <2> QED BY <1>1, <2>1, <2>4, QuietStep
<1>4. CASE CreateCheck(h) /\ CanCreateOrganization(task[h].user) /\ Goes(h, "createInsert") /\ UNCHANGED locks
  <2>1. /\ Alone(h) /\ task'[h].pc = "createInsert" /\ task'[h].user = task[h].user
        /\ task[h].pc = "createTx" /\ creatorLock' = creatorLock
    BY <1>4, GoAlone DEF CreateCheck, locks
  <2>2. Room(task[h].user)
    BY <1>4 DEF CanCreateOrganization, HighestPlan, Room
  <2>3. Room(task[h].user)'
    BY <1>1, <2>1, <2>2 DEF Room, CreatedBy, PlansOf
  <2>4. TaskOrder(h)'
    BY <1>0, <1>1, <2>1, <2>3 DEF TaskOrder, Newcomer, Creating, Adding
  <2> QED BY <1>1, <2>1, <2>4, QuietStep
<1>5. CASE /\ AddCheck(h) /\ task[h].user \in members[task[h].org].admin /\ users[task[h].invitee] # "none"
           /\ Goes(h, "addLock") /\ UNCHANGED locks
  <2>1. /\ Alone(h) /\ task'[h].pc = "addLock" /\ task'[h].user = task[h].user /\ task[h].pc = "add"
        /\ task'[h].org = task[h].org /\ task'[h].invitee = task[h].invitee
    BY <1>5, GoAlone DEF AddCheck
  <2>2. task[h].org \in Orgs /\ task[h].invitee \in Users /\ creator[task[h].org] # NoUser
    BY <1>0, <1>5, <2>1 DEF TaskOrder, IInv, OrgOrder, MembersOf
  <2>3. TaskOrder(h)'
    BY <1>0, <1>1, <1>5, <2>1, <2>2 DEF TaskOrder, Newcomer, Creating, Adding
  <2> QED BY <1>1, <2>1, <2>3, QuietStep
<1>6. CASE AddCount(h) /\ CanAddMember(task[h].org) /\ Goes(h, "addInsert") /\ UNCHANGED locks
  <2>1. /\ Alone(h) /\ task'[h].pc = "addInsert" /\ task'[h].user = task[h].user /\ task[h].pc = "addTx"
        /\ task'[h].org = task[h].org /\ task'[h].invitee = task[h].invitee /\ membersLock' = membersLock
    BY <1>6, GoAlone DEF AddCount, locks
  <2>2. task[h].org \in Orgs /\ task[h].invitee \in Users /\ creator[task[h].org] \in Users
    BY <1>0, <2>1 DEF TaskOrder, Adding, IInv, TypeOK
  <2>3. Seat(task[h].org)
    BY <1>6, <2>2 DEF CanAddMember, HighestPlan, Seat
  <2>4. Seat(task[h].org)'
    BY <1>1, <2>1, <2>3 DEF Seat, MembersOf, PlansOf, CreatedBy
  <2>5. TaskOrder(h)'
    BY <1>0, <1>1, <2>1, <2>2, <2>4 DEF TaskOrder, Newcomer, Creating, Adding
  <2> QED BY <1>1, <2>1, <2>5, QuietStep
<1> QED
  BY <1>2, <1>3, <1>4, <1>5, <1>6 DEF EnsureAgain, CreateCheck, AddCheck, AddCount

\* A request ends without an organization or a member.
LEMMA EndStep ==
  ASSUME IInv, TypeOK', NEW h \in Handlers, CreateKey(h) \/ DeleteKey(h) \/ Abort(h)
  PROVE  IInv'
<1>1. UsersStay /\ UNCHANGED <<creator, plan, default, members, welcome>>
  BY DEF CreateKey, DeleteKey, Abort, tables, UsersStay
<1>2. Alone(h) /\ TaskOrder(h)'
  BY EndAlone DEF CreateKey, DeleteKey, Abort
<1> QED BY <1>1, <1>2, QuietStep

\* An organization is inserted: the creator's lock keeps the count the request made.
LEMMA MakeStep ==
  ASSUME IInv, TypeOK', NEW h \in Handlers, SignUp(h) \/ EnsureInsert(h) \/ CreateInsert(h)
  PROVE  IInv'
<1> USE DEF At
<1>9. PICK u \in Users : u = task[h].user
  BY TaskUser DEF IInv, SignUp, EnsureInsert, CreateInsert
<1>0. TaskOrder(h) /\ u = task[h].user /\ creatorLock[u] = h
  BY <1>9 DEF IInv, SignUp, EnsureInsert, CreateInsert, TaskOrder, Creating
<1>1. Alone(h) /\ TaskOrder(h)'
  BY EndAlone DEF SignUp, EnsureInsert, CreateInsert
<1>2. UsersStay /\ UNCHANGED plan
  BY <1>0 DEF SignUp, EnsureInsert, CreateInsert, UsersStay, IInv, TypeOK
<1>3. Tables
  BY DEF IInv, Tables
<1>4. ASSUME NEW d \in BOOLEAN, Free # {}, Create(u, NewOrg, d), users'[u] # "none",
             \/ d /\ CreatedBy(u) = {} /\ grantSignupCredits(u, NewOrg)
             \/ ~d /\ Room(u) /\ UNCHANGED welcome
      PROVE  IInv'
  <2>1. /\ Kept /\ Tables'
        /\ \A x \in Users \ {u} : CreatedBy(x)' = CreatedBy(x)
        /\ \A o \in Orgs : creator[o] # NoUser => MembersOf(o)' = MembersOf(o)
    BY <1>2, <1>3, <1>4, OrgMade DEF IInv
  <2>2. Guarded(h)
    BY <1>0, <2>1 DEF Guarded
  <2> QED BY <1>1, <2>1, <2>2, Together
<1>5. CASE SignUp(h)
  <2>1. CASE task[h].blocked
    <3>1. UNCHANGED <<creator, plan, default, members, welcome>>
      BY <1>5, <2>1 DEF SignUp
    <3> QED BY <1>1, <1>2, <3>1, QuietStep
  <2>2. CASE ~task[h].blocked
    <3>1. Free # {} /\ Create(u, NewOrg, TRUE) /\ grantSignupCredits(u, NewOrg)
      BY <1>0, <1>5, <2>2 DEF SignUp
    <3>2. users'[u] # "none" /\ users[u] = "none"
      BY <1>0, <1>5 DEF SignUp, IInv, TypeOK
    <3>3. CreatedBy(u) = {}
      BY ZenonT(60), <1>0, <3>2, MembershipAssumption DEF IInv, WelcomedOnce, OrgOrder, HasMembership, CreatedBy
    <3> QED BY <1>4, <3>1, <3>2, <3>3
  <2> QED BY <2>1, <2>2
<1>6. CASE EnsureInsert(h)
  <2>1. Free # {} /\ Create(u, NewOrg, TRUE) /\ grantSignupCredits(u, NewOrg) /\ users'[u] # "none"
    BY <1>0, <1>6 DEF EnsureInsert, TaskOrder, Newcomer
  <2>2. CreatedBy(u) = {}
    BY <1>0, <1>6 DEF EnsureInsert, TaskOrder
  <2> QED BY <1>4, <2>1, <2>2
<1>7. CASE CreateInsert(h)
  <2>1. Free # {} /\ Create(u, NewOrg, FALSE) /\ UNCHANGED welcome /\ users'[u] # "none"
    BY <1>0, <1>7 DEF CreateInsert, TaskOrder, Newcomer
  <2>2. Room(u)
    BY <1>0, <1>7 DEF CreateInsert, TaskOrder
  <2> QED BY <1>4, <2>1, <2>2
<1> QED BY <1>5, <1>6, <1>7

\* A member is inserted: the organization's lock keeps the count.
LEMMA AddStep ==
  ASSUME IInv, TypeOK', NEW h \in Handlers, AddInsert(h)
  PROVE  IInv'
<1> DEFINE o == task[h].org
           v == task[h].invitee
<1>0. /\ TaskOrder(h) /\ o \in Orgs /\ v \in Users /\ membersLock[o] = h
      /\ creator[o] # NoUser /\ users[v] # "none" /\ Seat(o)
  BY DEF IInv, AddInsert, At, TaskOrder, Adding
<1>1. Alone(h) /\ TaskOrder(h)'
  BY EndAlone DEF AddInsert
<1>2. Tables /\ UNCHANGED <<users, creator, plan, default, welcome>>
  BY DEF IInv, Tables, AddInsert
<1>3. PICK x \in Orgs, w \in Users : x = o /\ w = v
  BY <1>0
<1>4. /\ MembersOf(x)' \in {MembersOf(x), MembersOf(x) \cup {w}}
      /\ \A y \in Orgs \ {x} : MembersOf(y)' = MembersOf(y)
  BY <1>3 DEF AddInsert, MembersOf, IInv, TypeOK
<1> HIDE DEF o, v
<1>5. /\ Kept /\ Tables' /\ \A u \in Users : CreatedBy(u)' = CreatedBy(u)
  BY <1>0, <1>2, <1>3, <1>4, MemberJoined DEF IInv
<1>6. Guarded(h)
  BY <1>0, <1>3, <1>4, <1>5 DEF Guarded
<1> QED BY <1>1, <1>5, <1>6, Together

\* Every step of a request keeps the invariant.
LEMMA HandlerStep ==
  ASSUME IInv, NEW h \in Handlers, Step(h)
  PROVE  IInv'
<1>1. TypeOK'
  BY TypeOfStep DEF IInv
<1>2. CASE Requests(h)
  <2> SUFFICES ASSUME NEW u \in Users,
                      \/ \E p \in {"sync", "create"} : Request(h, u, p, 0, NoUser)
                      \/ \E o \in Orgs, v \in Users : Request(h, u, "add", o, v)
                      \/ \E o \in Orgs, p \in {"key", "deleteKey"} : Request(h, u, p, o, NoUser)
               PROVE  IInv'
    BY <1>2 DEF Requests
  <2>1. CASE \E p \in {"sync", "create"} : Request(h, u, p, 0, NoUser)
    BY <1>1, <2>1, RequestStep
  <2>2. CASE \E o \in Orgs, v \in Users : Request(h, u, "add", o, v)
    BY <1>1, <2>2, RequestStep
  <2>3. CASE \E o \in Orgs, p \in {"key", "deleteKey"} : Request(h, u, p, o, NoUser)
    BY <1>1, <2>3, RequestStep
  <2> QED BY <2>1, <2>2, <2>3
<1> QED BY <1>1, <1>2, SyncStep, LockStep, CheckStep, EndStep, MakeStep, AddStep DEF Step

\* Steps of nobody's request: the tables stay, or a plan gets better.
LEMMA OtherStep ==
  ASSUME IInv,
         \/ \E u \in Users : MarkBlocked(u) \/ BlockDomain(u)
         \/ \E o \in Orgs : UseKey(o) \/ RaisePlan(o)
         \/ Reload \/ UNCHANGED vars
  PROVE  IInv'
<1> USE DEF tables, locks, blocks
<1>1. TypeOK'
  <2> USE DEF IInv, TypeOK
  <2>1. ASSUME NEW u \in Users, MarkBlocked(u) \/ BlockDomain(u) PROVE TypeOK'
    BY <2>1 DEF MarkBlocked, BlockDomain
  <2>2. ASSUME NEW o \in Orgs, UseKey(o) PROVE TypeOK'
    BY <2>2 DEF UseKey
  <2>3. ASSUME NEW o \in Orgs, RaisePlan(o) PROVE TypeOK'
    BY <2>3 DEF RaisePlan
  <2>4. CASE Reload \/ UNCHANGED vars
    BY <2>4 DEF Reload, vars
  <2> HIDE DEF IInv, TypeOK
  <2> QED BY <2>1, <2>2, <2>3, <2>4
<1>2. UNCHANGED <<task, creatorLock, membersLock>>
  BY DEF MarkBlocked, BlockDomain, UseKey, RaisePlan, Reload, vars
<1>3. /\ Kept /\ Tables'
      /\ \A u \in Users : CreatedBy(u)' = CreatedBy(u)
      /\ \A o \in Orgs : MembersOf(o)' = MembersOf(o)
  <2>1. TypeOK /\ Tables
    BY DEF IInv, Tables
  <2>2. ASSUME NEW o \in Orgs, RaisePlan(o)
        PROVE  /\ Kept /\ Tables'
               /\ \A u \in Users : CreatedBy(u)' = CreatedBy(u)
               /\ \A x \in Orgs : MembersOf(x)' = MembersOf(x)
    BY <1>1, <2>1, <2>2, PlanRaised DEF RaisePlan
  <2>3. CASE \/ \E u \in Users : MarkBlocked(u) \/ BlockDomain(u)
             \/ \E o \in Orgs : UseKey(o)
             \/ Reload \/ UNCHANGED vars
    <3>1. UsersStay /\ UNCHANGED <<creator, plan, default, members, welcome>>
      BY <2>1, <2>3 DEF MarkBlocked, BlockDomain, UseKey, Reload, vars, UsersStay, TypeOK
    <3> QED BY <2>1, <3>1, TablesStay
  <2> QED BY <2>2, <2>3
<1>4. \A h \in Handlers : TaskOrder(h)'
  BY <1>1, <1>2, <1>3, OthersKept DEF IInv
<1> QED BY <1>1, <1>3, <1>4 DEF IInv, Tables

\* A restart leaves the tables, no request and no lock.
LEMMA RestartStep == IInv /\ Restart => IInv'
<1> SUFFICES ASSUME IInv, Restart PROVE IInv'
  OBVIOUS
<1>1. TypeOK'
  BY MembershipAssumption DEF IInv, TypeOK, Restart, tables, Idle, Places
<1>2. UsersStay /\ UNCHANGED <<creator, plan, default, members, welcome>>
  BY DEF IInv, TypeOK, Restart, tables, UsersStay
<1>3. Kept /\ Tables'
  BY <1>2, TablesStay DEF IInv, Tables
<1>4. \A h \in Handlers : TaskOrder(h)'
  BY DEF Restart, TaskOrder, Idle, Newcomer, Creating, Adding
<1> QED BY <1>1, <1>3, <1>4 DEF IInv, Tables

\* There are no organizations at the start.
LEMMA MembershipInit == Init => IInv
<1> SUFFICES ASSUME Init PROVE IInv
  OBVIOUS
<1>1. TypeOK
  BY MembershipAssumption DEF Init, TypeOK, Idle, Places
<1>2. /\ \A u \in Users : CreatedBy(u) = {} /\ PlansOf(u) = {0} /\ ~HasMembership(u)
      /\ \A o \in Orgs : MembersOf(o) = {}
  BY MembershipAssumption DEF Init, CreatedBy, PlansOf, MembersOf, HasMembership
<1>3. Cardinality({}) = 0 /\ \A limit \in {1, Unlimited} : AtMost(0, limit)
  BY FS_EmptySet DEF AtMost
<1>4. WithinPlan
  <2>1. OrgLimit[0] = 1 /\ \A u \in Users : Cardinality(CreatedBy(u)) = 0
    BY <1>2, <1>3, MembershipAssumption
  <2>2. OrgsWithinPlan
    BY <1>2, <2>1 DEF OrgsWithinPlan, AtMost
  <2>3. MembersWithinPlan
    BY DEF MembersWithinPlan, Init
  <2> QED BY <2>2, <2>3 DEF WithinPlan
<1>5. WelcomedOnce
  <2> SUFFICES ASSUME NEW u \in Users
               PROVE  /\ Cardinality(CreatedBy(u) \cap default) <= 1
                      /\ {row[2] : row \in {r \in welcome : r[1] = u}} = CreatedBy(u) \cap default
    BY <1>2 DEF WelcomedOnce
  <2>1. CreatedBy(u) \cap default = {} /\ welcome = {}
    BY DEF Init
  <2> QED BY <1>3, <2>1
<1> QED BY <1>1, <1>2, <1>4, <1>5 DEF IInv, Init, OrgOrder, TaskOrder, Idle, Newcomer, Creating, Adding

\* The invariant holds in every state of every behaviour.
THEOREM MembershipInvariant == Spec => []IInv
<1>1. IInv /\ [Next]_vars => IInv'
  BY HandlerStep, OtherStep, RestartStep DEF Next
<1> QED BY <1>1, MembershipInit, PTL DEF Spec

\* Every table, lock and request keeps its type.
THEOREM TypeCorrect == Spec => []TypeOK
<1>1. IInv => TypeOK
  BY DEF IInv
<1> QED BY <1>1, MembershipInvariant, PTL

\* Nobody gets more organizations, and no organization more members, than the
\* best plan of the creator allows, however many requests count and insert at once.
THEOREM LimitsHold == Spec => []WithinPlan
<1>1. IInv => WithinPlan
  BY DEF IInv
<1> QED BY <1>1, MembershipInvariant, PTL

\* A user has at most one default organization, the one the welcome went to.
THEOREM WelcomeIsOnce == Spec => []WelcomedOnce
<1>1. IInv => WelcomedOnce
  BY DEF IInv
<1> QED BY <1>1, MembershipInvariant, PTL

(***************************************************************************)
(* The block list.                                                            *)
(***************************************************************************)

\* A user on the list before the first request stays on it, or has a row that is
\* marked; such a user's request can only be a sync that is to create a blocked row.
Outside(u) ==
  /\ u \in domains /\ (u \in list \/ users[u] = "blocked")
  /\ users[u] # "active" /\ CreatedBy(u) = {}
  /\ \A row \in welcome : row[1] # u
  /\ \A o \in Orgs : key[o] # u
  /\ \A h \in Handlers : task[h].user = u =>
       /\ task[h].pc \in {"sync", "signup", "signupTx"}
       /\ task[h].pc # "sync" => task[h].blocked

KeyHolders == \A o \in Orgs : key[o] # NoUser => users[key[o]] # "none"

BarredInv == KeyHolders /\ \A u \in barred : Outside(u)

\* Keys are created by users who have a row.
LEMMA KeysStep == IInv /\ KeyHolders /\ [Next]_vars => KeyHolders'
<1> SUFFICES ASSUME IInv, KeyHolders, [Next]_vars PROVE KeyHolders'
  OBVIOUS
<1> USE DEF tables, locks, blocks, At
<1>1. TypeOK /\ \A h \in Handlers : task[h].pc \notin Newcomer => task[h].user \in Users /\ users[task[h].user] # "none"
  BY DEF IInv, TaskOrder, Newcomer
<1>2. UsersStay
  <2>1. ASSUME NEW h \in Handlers, SignUp(h) \/ SyncBlocked(h) PROVE UsersStay
    BY <1>1, <2>1 DEF SignUp, SyncBlocked, UsersStay, TypeOK
  <2>2. ASSUME NEW u \in Users, MarkBlocked(u) PROVE UsersStay
    BY <1>1, <2>2 DEF MarkBlocked, UsersStay, TypeOK
  <2>3. ASSUME NEW o \in Orgs, UseKey(o) PROVE UsersStay
    BY <1>1, <2>3 DEF UseKey, UsersStay, TypeOK
  <2>4. \/ users' = users
        \/ \E h \in Handlers : SignUp(h) \/ SyncBlocked(h)
        \/ \E u \in Users : MarkBlocked(u)
        \/ \E o \in Orgs : UseKey(o)
    BY ZenonT(60) DEF Next, Step, Requests, Request, SyncNew, SyncExisting, LockCreator, EnsureLook, EnsureAgain,
           EnsureInsert, CreateCheck, CreateInsert, AddCheck, LockMembers, AddCount, AddInsert, CreateKey,
           DeleteKey, Abort, BlockDomain, RaisePlan, Reload, Restart, vars
  <2>5. CASE users' = users
    BY <2>5 DEF UsersStay
  <2> QED BY <2>1, <2>2, <2>3, <2>4, <2>5
<1>3. \/ key' = key
      \/ \E h \in Handlers : CreateKey(h) \/ DeleteKey(h)
  BY ZenonT(60) DEF Next, Step, Requests, Request, SyncNew, SyncBlocked, SyncExisting, LockCreator,
         SignUp, EnsureLook, EnsureAgain, EnsureInsert, CreateCheck, CreateInsert, AddCheck, LockMembers,
         AddCount, AddInsert, Abort, MarkBlocked, BlockDomain, UseKey, RaisePlan, Reload, Restart, vars
<1>4. ASSUME NEW h \in Handlers, CreateKey(h) PROVE KeyHolders'
  BY <1>1, <1>4 DEF CreateKey, KeyHolders, Newcomer, TypeOK
<1>5. ASSUME NEW h \in Handlers, DeleteKey(h) PROVE KeyHolders'
  BY <1>1, <1>5 DEF DeleteKey, KeyHolders, TypeOK
<1>6. CASE key' = key
  BY <1>1, <1>2, <1>6 DEF KeyHolders, UsersStay, TypeOK
<1> QED BY <1>3, <1>4, <1>5, <1>6

\* A new organization is that of the user who asked.
LEMMA CreateOther ==
  ASSUME TypeOK, NEW u \in Users, NEW w \in Users, u # w, NEW d, Free # {}, Create(w, NewOrg, d)
  PROVE  CreatedBy(u) = {} => CreatedBy(u)' = {}
<1>1. NewOrg \in Orgs
  BY DEF NewOrg, Free
<1> QED BY <1>1 DEF Create, CreatedBy, TypeOK

\* The block list has only one answer for somebody on both its copies.
LEMMA BarredVerdict ==
  ASSUME NEW u, u \in domains, u \in list
  PROVE  \A b \in DomainBlocked(u) : b = TRUE
<1>1. (u \in domains) = TRUE /\ (u \in list) = TRUE
  OBVIOUS
<1>2. DomainBlocked(u) = {(u \in domains), (u \in list)}
  BY DEF DomainBlocked
<1>3. DomainBlocked(u) = {TRUE, TRUE}
  BY <1>1, <1>2, Zenon
<1> QED BY <1>3, Zenon

\* Nothing reaches a user who is outside, unless a restart empties the list
\* before there is a row to mark.
LEMMA OutsideStep ==
  ASSUME IInv, NEW u \in Users, Outside(u), [Next]_vars, Restart => users[u] # "none"
  PROVE  Outside(u)'
<1> USE DEF tables, locks, blocks, At
<1>1. TypeOK /\ u # NoUser
  BY MembershipAssumption DEF IInv
<1>2. \A h \in Handlers : task[h].pc \notin {"idle", "sync", "signup", "signupTx"} =>
        task[h].user \in Users \ {u}
  BY DEF IInv, TaskOrder, Outside, Newcomer
<1>3. ASSUME NEW h \in Handlers, Step(h)
      PROVE  users'[u] # "active" /\ (users[u] = "blocked" => users'[u] = "blocked")
  <2>1. CASE SignUp(h)
    <3>1. task[h].user = u => task[h].blocked
      BY <2>1 DEF Outside, SignUp
    <3> QED BY <1>1, <2>1, <3>1 DEF SignUp, Outside, TypeOK
  <2>2. CASE SyncBlocked(h)
    BY <1>1, <2>2 DEF SyncBlocked, Outside, TypeOK
  <2>3. CASE ~SignUp(h) /\ ~SyncBlocked(h)
    <3>1. users' = users
      BY <1>3, <2>3 DEF Step, Requests, Request, SyncNew, SyncExisting, LockCreator,
         EnsureLook, EnsureAgain, EnsureInsert, CreateCheck, CreateInsert, AddCheck, LockMembers,
         AddCount, AddInsert, CreateKey, DeleteKey, Abort
    <3> QED BY <3>1 DEF Outside
  <2> QED BY <2>1, <2>2, <2>3
<1>4. ASSUME NEW h \in Handlers, Step(h)
      PROVE  CreatedBy(u)' = {} /\ \A row \in welcome' : row[1] # u
  <2>1. CASE \/ SignUp(h) /\ ~task[h].blocked
             \/ EnsureInsert(h) \/ CreateInsert(h)
    <3>1. PICK w \in Users \ {u} : w = task[h].user
      <4>1. task[h].user \in Users
        BY <2>1, TaskUser DEF IInv, SignUp, EnsureInsert, CreateInsert
      <4>2. task[h].user # u
        BY <2>1 DEF Outside, SignUp, EnsureInsert, CreateInsert
      <4> QED BY <4>1, <4>2
    <3>2. /\ Free # {} /\ \E d \in BOOLEAN : Create(w, NewOrg, d)
          /\ welcome' = welcome \/ grantSignupCredits(w, NewOrg)
      BY <2>1, <3>1 DEF SignUp, EnsureInsert, CreateInsert
    <3>3. CreatedBy(u)' = {}
      BY <1>1, <3>1, <3>2, CreateOther DEF Outside
    <3>4. welcome' \subseteq welcome \cup {<<w, NewOrg>>}
      BY <3>2 DEF grantSignupCredits
    <3> QED BY <3>1, <3>3, <3>4 DEF Outside
  <2>2. CASE ~(SignUp(h) /\ ~task[h].blocked) /\ ~EnsureInsert(h) /\ ~CreateInsert(h)
    <3>1. creator' = creator /\ welcome' = welcome
      BY <1>4, <2>2 DEF Step, Requests, Request, SyncNew, SyncBlocked, SyncExisting, LockCreator,
         SignUp, EnsureLook, EnsureAgain, CreateCheck, AddCheck, LockMembers,
         AddCount, AddInsert, CreateKey, DeleteKey, Abort
    <3> QED BY <3>1 DEF Outside, CreatedBy
  <2> QED BY <2>1, <2>2
<1>5. ASSUME NEW h \in Handlers, Step(h)
      PROVE  \A o \in Orgs : key'[o] # u
  <2>1. CASE CreateKey(h)
    BY <1>1, <1>2, <2>1 DEF CreateKey, Outside, TypeOK
  <2>2. CASE DeleteKey(h)
    BY <1>1, <2>2 DEF DeleteKey, Outside, TypeOK
  <2>3. CASE ~CreateKey(h) /\ ~DeleteKey(h)
    <3>1. key' = key
      BY <1>5, <2>3 DEF Step, Requests, Request, SyncNew, SyncBlocked, SyncExisting, LockCreator, SignUp,
         EnsureInsert, CreateInsert, EnsureLook, EnsureAgain, CreateCheck, AddCheck, LockMembers,
         AddCount, AddInsert, Abort
    <3> QED BY <3>1 DEF Outside
  <2> QED BY <2>1, <2>2, <2>3
<1>6. ASSUME NEW h \in Handlers, Step(h)
      PROVE  \A g \in Handlers : task'[g].user = u =>
               /\ task'[g].pc \in {"sync", "signup", "signupTx"}
               /\ task'[g].pc # "sync" => task'[g].blocked
  <2>1. \A g \in Handlers \ {h} : task'[g] = task[g]
    BY <1>1, <1>6 DEF Step, Requests, Request, SyncNew, SyncBlocked, SyncExisting, LockCreator, SignUp,
       EnsureInsert, CreateInsert, EnsureLook, EnsureAgain, CreateCheck, AddCheck, LockMembers,
       AddCount, AddInsert, CreateKey, DeleteKey, Abort, EndTx, Ends, Goes, TypeOK
  <2>2. CASE Requests(h)
    <3>0. PICK w \in Users : \E p, o, v : Request(h, w, p, o, v)
      BY <2>2 DEF Requests
    <3>1. PICK p, o, v : Request(h, w, p, o, v)
      BY <3>0
    <3>2. task'[h] = [Idle EXCEPT !.pc = p, !.user = w, !.org = o, !.invitee = v]
      BY <1>1, <3>1 DEF Request, TypeOK
    <3>3. task'[h].pc = p /\ task'[h].user = w
      BY <3>2 DEF Idle
    <3>4. w = u => p = "sync"
      BY <1>1, <3>0, <3>1 DEF Request, UserIsBlocked, Outside, TypeOK
    <3> QED BY <2>1, <3>3, <3>4 DEF Outside
  <2>3. CASE SyncNew(h)
    <3>1. PICK b \in DomainBlocked(task[h].user) :
            task' = [task EXCEPT ![h] = [@ EXCEPT !.pc = "signup", !.blocked = b]]
      BY <2>3 DEF SyncNew
    <3>2. task'[h].pc = "signup" /\ task'[h].user = task[h].user /\ task'[h].blocked = b
      BY <1>1, <3>1 DEF TypeOK
    <3>3. task[h].user = u => b = TRUE
      BY <2>3, <3>1, BarredVerdict DEF SyncNew, Outside
    <3>4. task'[h].user = u => task'[h].blocked
      BY <3>2, <3>3
    <3> QED BY <2>1, <3>2, <3>4 DEF Outside
  <2>4. CASE LockCreator(h)
    <3>1. PICK p : Goes(h, p) /\ (task[h].pc = "signup" => p = "signupTx")
      BY <2>4 DEF LockCreator
    <3>2. task'[h].pc = p /\ task'[h].user = task[h].user /\ task'[h].blocked = task[h].blocked
      BY <1>1, <3>1 DEF Goes, TypeOK
    <3>3. task[h].user = u => task[h].pc = "signup" /\ task[h].blocked
      BY <2>4 DEF LockCreator, Outside
    <3> QED BY <2>1, <3>1, <3>2, <3>3 DEF Outside
  <2>5. CASE EndTx(h) \/ Ends(h)
    <3>1. task'[h] = Idle
      BY <1>1, <2>5 DEF EndTx, Ends, TypeOK
    <3> QED BY <1>1, <2>1, <3>1 DEF Idle, Outside
  <2>6. CASE \/ SyncExisting(h)
             \/ (\E p : Goes(h, p)) /\ task[h].pc \notin {"idle", "sync", "signup", "signupTx"}
    <3>1. task[h].user # u
      BY <1>2, <2>6 DEF SyncExisting, Outside
    <3>2. PICK p : Goes(h, p)
      BY <2>6 DEF SyncExisting
    <3>3. task'[h].user = task[h].user
      BY <1>1, <3>2 DEF Goes, TypeOK
    <3> QED BY <2>1, <3>1, <3>3 DEF Outside
  <2> QED BY <1>6, <2>2, <2>3, <2>4, <2>5, <2>6
          DEF Step, SyncBlocked, SignUp, EnsureLook, EnsureAgain, EnsureInsert, CreateCheck, CreateInsert,
              AddCheck, LockMembers, AddCount, AddInsert, CreateKey, DeleteKey, Abort
<1>7. ASSUME NEW h \in Handlers, Step(h) PROVE Outside(u)'
  <2>1. domains' = domains /\ list' = list
    BY <1>7 DEF Step, Requests, Request, SyncNew, SyncBlocked, SyncExisting, LockCreator,
       SignUp, EnsureLook, EnsureAgain, EnsureInsert, CreateCheck, CreateInsert, AddCheck, LockMembers,
       AddCount, AddInsert, CreateKey, DeleteKey, Abort
  <2>2. u \in domains' /\ (u \in list' \/ users'[u] = "blocked")
    BY <1>3, <1>7, <2>1 DEF Outside
  <2> QED BY <1>3, <1>4, <1>5, <1>6, <1>7, <2>2 DEF Outside, CreatedBy
<1>8. ASSUME \/ \E w \in Users : MarkBlocked(w) \/ BlockDomain(w)
             \/ \E o \in Orgs : UseKey(o) \/ RaisePlan(o)
             \/ Reload \/ UNCHANGED vars
      PROVE  Outside(u)'
  <2>1. /\ UNCHANGED <<creator, welcome, key, task>>
        /\ users'[u] # "active" /\ (users[u] = "blocked" => users'[u] = "blocked")
    BY <1>1, <1>8 DEF MarkBlocked, BlockDomain, UseKey, RaisePlan, Reload, vars, Outside, TypeOK
  <2>2. u \in domains' /\ (u \in list => u \in list')
    BY <1>8 DEF MarkBlocked, BlockDomain, UseKey, RaisePlan, Reload, vars, Outside
  <2> QED BY <2>1, <2>2 DEF Outside, CreatedBy
<1>9. CASE Restart
  <2>1. users[u] = "blocked"
    BY <1>1, <1>9 DEF Outside, TypeOK
  <2>2. UNCHANGED <<users, creator, welcome, key, domains>> /\ \A h \in Handlers : task'[h] = Idle
    BY <1>9 DEF Restart
  <2> QED BY <1>1, <2>1, <2>2 DEF Outside, CreatedBy, Idle
<1> QED BY <1>7, <1>8, <1>9 DEF Next

\* A user becomes barred before there is anything of theirs.
LEMMA BarredStep == IInv /\ BarredInv /\ [Next]_vars => BarredInv'
<1> SUFFICES ASSUME IInv, BarredInv, [Next]_vars PROVE BarredInv'
  OBVIOUS
<1>1. KeyHolders'
  BY KeysStep DEF BarredInv
<1>2. ASSUME NEW u \in barred, Restart => users[u] # "none" PROVE Outside(u)'
  <2>1. u \in Users
    BY DEF IInv, TypeOK
  <2> QED BY <1>2, <2>1, OutsideStep DEF BarredInv
<1>3. ASSUME Reload, NEW u \in domains, users[u] = "none", \A h \in Handlers : task[h].user # u
      PROVE  Outside(u)'
  <2>1. u \in Users /\ u # NoUser
    BY MembershipAssumption DEF IInv, TypeOK
  <2>2. CreatedBy(u) = {}
    BY <1>3, <2>1 DEF IInv, WelcomedOnce, OrgOrder, HasMembership, CreatedBy
  <2>3. \A row \in welcome : row[1] # u
    <3>1. {row[2] : row \in {r \in welcome : r[1] = u}} = {}
      BY <2>1, <2>2 DEF IInv, WelcomedOnce
    <3> QED BY <3>1
  <2>4. \A o \in Orgs : key[o] # u
    BY <1>3, <2>1 DEF BarredInv, KeyHolders
  <2>5. UNCHANGED <<users, creator, welcome, key, task, domains>> /\ list' = domains
    BY <1>3 DEF Reload, tables
  <2> QED BY <1>3, <2>2, <2>3, <2>4, <2>5 DEF Outside, CreatedBy
<1>4. CASE barred' = barred /\ ~Restart
  BY <1>1, <1>2, <1>4 DEF BarredInv
<1>5. CASE Reload /\ ~Restart
  <2>1. barred' = barred \cup {u \in domains : users[u] = "none" /\ \A h \in Handlers : task[h].user # u}
    BY <1>5 DEF Reload
  <2> QED BY <1>1, <1>2, <1>3, <1>5, <2>1 DEF BarredInv
<1>6. CASE Restart
  BY <1>1, <1>2, <1>6 DEF Restart, BarredInv
<1>7. barred' = barred \/ Reload \/ Restart
  BY ZenonT(60) DEF blocks, Next, Step, Requests, Request, SyncNew, SyncBlocked, SyncExisting, LockCreator,
         SignUp, EnsureLook, EnsureAgain, EnsureInsert, CreateCheck, CreateInsert, AddCheck, LockMembers,
         AddCount, AddInsert, CreateKey, DeleteKey, Abort, MarkBlocked, BlockDomain, UseKey, RaisePlan, vars
<1> QED BY <1>4, <1>5, <1>6, <1>7

\* Who is on the block list before the first request never becomes active and
\* gets no organization, no credits and no key, unless the process restarts, and
\* its list is empty, before that request marked a row: a marked row is for good.
THEOREM BarredStayOut == Spec => []BarredGetNothing
<1>1. Init => BarredInv
  BY DEF Init, BarredInv, KeyHolders
<1>2. BarredInv => BarredGetNothing
  BY DEF BarredInv, Outside, BarredGetNothing
<1> QED BY <1>1, <1>2, BarredStep, MembershipInvariant, PTL DEF Spec
=============================================================================
