-------------------------- MODULE AdminRbacProofs --------------------------
(***************************************************************************)
(* Proofs about AdminRbac, for any number of admins, roles, permissions    *)
(* and requests: IndInv is inductive, and with it there is always an       *)
(* active superuser, the advisory lock is only a second line of defence,   *)
(* open sessions have the power they were started with, and a superuser is *)
(* touched only by a superuser.                                            *)
(***************************************************************************)
EXTENDS AdminRbac, FiniteSetTheorems, TLAPS

-----------------------------------------------------------------------------
(* Operators.                                                              *)

\* The idle request is a request.
LEMMA IdleType == Idle \in RequestState
<1>1. [x \in Role |-> NoRole("unused")] \in [Role -> RoleRow]
  BY DEF NoRole, RoleRow
<1> QED BY <1>1 DEF Idle, RequestState, Stages, Ops

\* The power of an admin depends on his row and on the roles he has.
LEMMA PowerSame ==
  ASSUME NEW a \in Admin, admins'[a] = admins[a],
         \A x \in admins[a].roles : roles'[x] = roles[x]
  PROVE  Power(a)' = Power(a)
BY DEF Power

LEMMA PowerType ==
  ASSUME TypeOK, NEW a \in Admin
  PROVE  Power(a) \in PowerSet
<1>1. admins[a] \in AdminRow
  BY DEF TypeOK
<1> QED BY <1>1 DEF Power, PowerSet, AdminRow

-----------------------------------------------------------------------------
(* Steps that only change what requests have read and locked.              *)

\* A request moves on without a commit.
LEMMA QuietStep ==
  ASSUME IndInv, NEW r \in Request, NEW q \in RequestState,
         requests' = [requests EXCEPT ![r] = q],
         UNCHANGED <<admins, roles, sessions>>,
         RequestOK(r)',
         \A p \in Request \ {r} : /\ requests[p].locked \cap q.locked = {}
                                  /\ requests[p].held \cap q.held = {}
  PROVE  IndInv'
<1>1. TypeOK'
  BY DEF IndInv, TypeOK
<1>2. RowsOK' /\ AtLeastOneSuperuser' /\ SessionPowerCurrent'
  BY DEF IndInv, RowsOK, AtLeastOneSuperuser, SessionPowerCurrent, Superusers, Rules, Power
<1>3. requests'[r] = q /\ \A p \in Request \ {r} : requests'[p] = requests[p]
  BY DEF IndInv, TypeOK
<1>4. LocksExclusive'
  BY <1>3 DEF IndInv, LocksExclusive
<1>5. ASSUME NEW p \in Request PROVE RequestOK(p)'
  <2>1. CASE p = r
    BY <2>1
  <2>2. CASE p # r
    <3>1. requests'[p] = requests[p]
      BY <1>3, <2>2
    <3>2. RequestOK(p)
      BY DEF IndInv
    <3> QED BY <3>1, <3>2 DEF RequestOK, Rules, Reduction, Authorized, NeedsActor, Members, Affected
  <2> QED BY <2>1, <2>2
<1> QED BY <1>1, <1>2, <1>4, <1>5 DEF IndInv

\* Requests that are left alone, or end, stay in order when others commit: a
\* row that changes is not locked by anybody else, and a role that is given is
\* not held by anybody else.
LEMMA OthersStep ==
  ASSUME IndInv,
         \A p \in Request : requests'[p] = requests[p] \/ requests'[p] = Idle,
         \A a \in Admin, p \in Request :
           requests'[p] # Idle /\ a \in requests[p].locked => admins'[a] = admins[a],
         \A a \in Admin, p \in Request :
           requests'[p] # Idle => (admins'[a].roles \ admins[a].roles) \cap requests[p].held = {}
  PROVE  LocksExclusive' /\ \A p \in Request : RequestOK(p)'
<1>1. LocksExclusive'
  BY DEF IndInv, LocksExclusive, Idle
<1>2. ASSUME NEW p \in Request PROVE RequestOK(p)'
  <2>1. CASE requests'[p] = Idle
    BY <2>1 DEF RequestOK, Idle, AccountOps, SuperOps, StatusOps, CreateOps, RoleOps
  <2>2. CASE requests'[p] # Idle
    <3> DEFINE q == requests[p]
    <3>1. requests'[p] = q
      BY <2>2
    <3>2. q \in RequestState /\ RequestOK(p)
      BY DEF IndInv, TypeOK
    <3>3. q.locked \subseteq Admin /\ q.targets \subseteq Admin /\ q.chosen \subseteq Role
      BY <3>2 DEF RequestState
    <3>4. \A a \in q.locked : admins'[a] = admins[a]
      BY <2>2, <3>3
    <3>5. \A a \in Admin : (admins'[a].roles \ admins[a].roles) \cap q.held = {}
      BY <2>2
    <3>6. Affected(p)' = Affected(p) /\ Affected(p) \subseteq q.chosen
      BY <3>1 DEF Affected
    <3>7. q.stage \in {"members", "empty"} => q.held = q.chosen
      BY <3>2 DEF RequestOK
    <3>8. q.stage = "members" => Members(Affected(p))' \subseteq q.locked
      BY <3>2, <3>5, <3>6, <3>7 DEF RequestOK, Members
    <3>9. q.stage = "empty" => Members(q.chosen)' = {}
      <4> SUFFICES ASSUME q.stage = "empty" PROVE Members(q.chosen)' = {}
        OBVIOUS
      <4>1. Members(q.chosen) = {} /\ q.held = q.chosen
        BY <3>2, <3>7 DEF RequestOK
      <4>2. \A a \in Admin : admins[a].roles \cap q.chosen = {}
        BY <4>1 DEF Members
      <4>3. \A a \in Admin : admins'[a].roles \cap q.chosen = {}
        BY <4>1, <4>2, <3>5
      <4>4. q.chosen' = q.chosen
        BY <3>1
      <4> QED BY <4>3, <4>4 DEF Members
    <3>10. q.op \in AccountOps /\ q.stage # "started" => Reduction(p)' = Reduction(p)
                                                       /\ NeedsActor(p)' = NeedsActor(p)
      <4> SUFFICES ASSUME q.op \in AccountOps, q.stage # "started"
                   PROVE  Reduction(p)' = Reduction(p) /\ NeedsActor(p)' = NeedsActor(p)
        OBVIOUS
      <4>1. q.targets \subseteq q.locked
        BY <3>2 DEF RequestOK
      <4>2. \A a \in q.targets : admins'[a] = admins[a]
        BY <4>1, <3>4
      <4> QED BY <3>1, <4>2 DEF Reduction, NeedsActor, Rules
    <3>11. Rules(q.actor) /\ q.actor \in q.locked => Rules(q.actor)'
      BY <3>1, <3>4 DEF Rules
    <3>12. \A a \in q.locked : admins'[a].exists
      BY <3>2, <3>4 DEF RequestOK
    <3>13. q.stage = "chosen" /\ q.op \in {"assign", "createSuper"} => Authorized(p)'
      BY <3>1, <3>2, <3>10 DEF RequestOK, Authorized, AccountOps, NeedsActor
    <3> QED BY <3>1, <3>2, <3>8, <3>9, <3>10, <3>11, <3>12, <3>13, SMTT(30) DEF RequestOK
  <2> QED BY <2>1, <2>2
<1> QED BY <1>1, <1>2
-----------------------------------------------------------------------------
(* The steps before a commit.                                              *)

LEMMA StartStep ==
  ASSUME IndInv, NEW r \in Request, NEW a \in Admin, NEW op \in Ops \ {"none"},
         NEW payload \in Payloads(op), Start(r, a, op, payload)
  PROVE  IndInv'
<1> DEFINE seen == [x \in Role |-> IF op \in RoleOps /\ x \in admins[a].roles
                                   THEN roles[x] ELSE NoRole("unused")]
           q == [Idle EXCEPT !.stage = "started", !.op = op, !.actor = a,
                             !.targets = payload.targets, !.chosen = payload.chosen,
                             !.grants = payload.grants, !.seen = seen]
<1>1. /\ payload.targets \in SUBSET Admin
      /\ payload.chosen \in SUBSET Role
      /\ payload.grants \in SUBSET Permission
  BY DEF Payloads, AccountOps, CreateOps, StatusOps, SuperOps, RoleOps, Ops
<1>2. seen \in [Role -> RoleRow]
  <2>1. \A x \in Role : roles[x] \in RoleRow
    BY DEF IndInv, TypeOK
  <2>2. NoRole("unused") \in RoleRow
    BY DEF NoRole, RoleRow
  <2> QED BY <2>1, <2>2
<1>3. requests' = [requests EXCEPT ![r] = q] /\ UNCHANGED <<admins, roles, sessions>>
  BY DEF Start
<1> HIDE DEF seen
<1>4. q \in RequestState
  BY <1>1, <1>2, IdleType DEF RequestState, Stages
<1>5. /\ q.stage = "started" /\ q.actor = a /\ q.targets = payload.targets
      /\ q.locked = {} /\ q.held = {}
  <2>1. Idle.locked = {} /\ Idle.held = {}
    BY DEF Idle
  <2> QED BY <2>1, IdleType DEF RequestState
<1> HIDE DEF q
<1>6. requests'[r] = q
  BY <1>3 DEF IndInv, TypeOK
<1>7. a \notin payload.targets
  BY DEF Start
<1>8. RequestOK(r)'
  BY <1>5, <1>6, <1>7 DEF RequestOK
<1> QED BY <1>3, <1>4, <1>5, <1>8, QuietStep

\* What the other quiet steps have in common: the request before.
LEMMA RequestFacts ==
  ASSUME IndInv, NEW r \in Request
  PROVE  /\ requests[r] \in RequestState
         /\ RequestOK(r)
         /\ \A p \in Request \ {r} : /\ requests[p].locked \cap requests[r].locked = {}
                                     /\ requests[p].held \cap requests[r].held = {}
         /\ \A q : [requests EXCEPT ![r] = q][r] = q
BY DEF IndInv, TypeOK, LocksExclusive

LEMMA LockActorStep ==
  ASSUME IndInv, NEW r \in Request, LockActor(r)
  PROVE  IndInv'
<1> DEFINE q == [requests[r] EXCEPT !.locked = @ \cup {requests[r].actor}]
<1>1. requests' = [requests EXCEPT ![r] = q] /\ UNCHANGED <<admins, roles, sessions>>
  BY DEF LockActor
<1>2. /\ requests[r] \in RequestState
      /\ RequestOK(r)
      /\ \A p \in Request \ {r} : /\ requests[p].locked \cap requests[r].locked = {}
                                  /\ requests[p].held \cap requests[r].held = {}
      /\ requests'[r] = q
  BY <1>1, RequestFacts
<1>3. /\ requests[r].stage \in {"started", "locked"}
      /\ requests[r].actor \in Admin
      /\ NeedsActor(r)
      /\ Rules(requests[r].actor)
      /\ AdminFree(r, requests[r].actor)
  BY <1>2 DEF LockActor, RequestOK
<1>4. requests[r].op \in AccountOps \cup CreateOps
  BY <1>2 DEF LockActor, RequestOK, AccountOps
<1>5. q \in RequestState
  BY <1>2, <1>3 DEF RequestState
<1>6. Reduction(r)' = Reduction(r)
  BY <1>1, <1>2 DEF Reduction, Rules
<1>7. RequestOK(r)'
  BY <1>1, <1>2, <1>3, <1>4, <1>6 DEF RequestOK, Rules, AccountOps, SuperOps, StatusOps, CreateOps, RoleOps
<1>8. \A p \in Request \ {r} : /\ requests[p].locked \cap q.locked = {}
                               /\ requests[p].held \cap q.held = {}
  BY <1>2, <1>3 DEF AdminFree, RequestState
<1> QED BY <1>1, <1>5, <1>7, <1>8, QuietStep

LEMMA LockTargetsStep ==
  ASSUME IndInv, NEW r \in Request, LockTargets(r)
  PROVE  IndInv'
<1> DEFINE T == requests[r].targets
           q == [requests[r] EXCEPT !.stage = "locked", !.locked = @ \cup T,
                                    !.fewer = Reduction(r)]
<1>1. requests' = [requests EXCEPT ![r] = q] /\ UNCHANGED <<admins, roles, sessions>>
  BY DEF LockTargets
<1>2. /\ requests[r] \in RequestState
      /\ RequestOK(r)
      /\ \A p \in Request \ {r} : /\ requests[p].locked \cap requests[r].locked = {}
                                  /\ requests[p].held \cap requests[r].held = {}
      /\ requests'[r] = q
  BY <1>1, RequestFacts
<1>3. /\ requests[r].stage = "started"
      /\ requests[r].op \in AccountOps
      /\ \A a \in T : admins[a].exists /\ AdminFree(r, a)
  BY DEF LockTargets
<1>4. Reduction(r) \subseteq T /\ Reduction(r)' = Reduction(r)
  BY <1>1, <1>2 DEF Reduction, Rules
<1>5. q \in RequestState
  BY <1>2, <1>4 DEF RequestState, Stages
<1>6. RequestOK(r)'
  BY <1>1, <1>2, <1>3, <1>4 DEF RequestOK, Rules, RequestState, AccountOps, SuperOps, StatusOps, CreateOps, RoleOps
<1>7. \A p \in Request \ {r} : /\ requests[p].locked \cap q.locked = {}
                               /\ requests[p].held \cap q.held = {}
  BY <1>2, <1>3 DEF AdminFree, RequestState
<1> QED BY <1>1, <1>5, <1>6, <1>7, QuietStep

\* The advisory lock and the count only move the request to its next stage.
LEMMA GuardStep ==
  ASSUME IndInv, NEW r \in Request, LockGuard(r) \/ CountSuperusers(r) \/ ReadRoles(r) \/ CountMembers(r)
  PROVE  IndInv'
<1>1. PICK stage \in {"guarded", "counted", "chosen", "empty"} :
        /\ requests' = [requests EXCEPT ![r].stage = stage]
        /\ \/ stage = "guarded" /\ LockGuard(r)
           \/ stage = "counted" /\ CountSuperusers(r)
           \/ stage = "chosen" /\ ReadRoles(r)
           \/ stage = "empty" /\ CountMembers(r)
  BY DEF LockGuard, CountSuperusers, ReadRoles, CountMembers
<1> DEFINE q == [requests[r] EXCEPT !.stage = stage]
<1>2. requests' = [requests EXCEPT ![r] = q] /\ UNCHANGED <<admins, roles, sessions>>
  BY <1>1 DEF LockGuard, CountSuperusers, ReadRoles, CountMembers
<1>3. /\ requests[r] \in RequestState
      /\ RequestOK(r)
      /\ \A p \in Request \ {r} : /\ requests[p].locked \cap requests[r].locked = {}
                                  /\ requests[p].held \cap requests[r].held = {}
      /\ requests'[r] = q
  BY <1>2, RequestFacts
<1>4. q \in RequestState
  BY <1>1, <1>3 DEF RequestState, Stages
<1>5. /\ Reduction(r)' = Reduction(r)
      /\ Authorized(r)' = Authorized(r)
      /\ NeedsActor(r)' = NeedsActor(r)
      /\ Members(requests[r].chosen)' = Members(requests[r].chosen)
  BY <1>2, <1>3 DEF Reduction, Rules, Authorized, NeedsActor, Members
<1>6. Rules(requests[r].actor)' = Rules(requests[r].actor)
  BY <1>2, <1>3 DEF Rules
<1>7. RequestOK(r)'
  <2>1. CASE stage = "guarded" /\ LockGuard(r)
    <3>1. /\ requests[r].stage = "locked"
          /\ Authorized(r)
          /\ requests[r].fewer = Reduction(r) /\ Reduction(r) # {}
      BY <2>1, <1>3 DEF LockGuard, RequestOK
    <3>2. NeedsActor(r)
      BY <3>1 DEF Reduction, Rules, NeedsActor
    <3>3. requests[r].actor \in requests[r].locked
      BY <3>1, <3>2 DEF Authorized
    <3> QED BY <2>1, <3>1, <3>3, <1>2, <1>3, <1>5, <1>6 DEF RequestOK
  <2>2. CASE stage = "counted" /\ CountSuperusers(r)
    BY <2>2, <1>2, <1>3, <1>5, <1>6 DEF RequestOK, CountSuperusers
  <2>3. CASE stage = "chosen" /\ ReadRoles(r)
    BY <2>3, <1>2, <1>3, <1>5, <1>6 DEF RequestOK, ReadRoles, AccountOps, CreateOps, RoleOps, SuperOps, StatusOps
  <2>4. CASE stage = "empty" /\ CountMembers(r)
    BY <2>4, <1>2, <1>3, <1>5, <1>6 DEF RequestOK, CountMembers, RoleOps, AccountOps, CreateOps, SuperOps, StatusOps
  <2> QED BY <1>1, <2>1, <2>2, <2>3, <2>4
<1>8. q.locked = requests[r].locked /\ q.held = requests[r].held
  BY <1>3 DEF RequestState
<1> QED BY <1>2, <1>3, <1>4, <1>7, <1>8, QuietStep
LEMMA LockRolesStep ==
  ASSUME IndInv, NEW r \in Request, LockRoles(r)
  PROVE  IndInv'
<1> DEFINE X == requests[r].chosen
           seen == [x \in Role |-> IF x \in X /\ requests[r].seen[x].state = "unused"
                                   THEN roles[x] ELSE requests[r].seen[x]]
           q == [requests[r] EXCEPT !.stage = "held", !.held = X, !.seen = seen]
<1>1. requests' = [requests EXCEPT ![r] = q] /\ UNCHANGED <<admins, roles, sessions>>
  BY DEF LockRoles
<1>2. /\ requests[r] \in RequestState
      /\ RequestOK(r)
      /\ \A p \in Request \ {r} : /\ requests[p].locked \cap requests[r].locked = {}
                                  /\ requests[p].held \cap requests[r].held = {}
      /\ requests'[r] = q
  BY <1>1, RequestFacts
<1>3. /\ requests[r].stage = "started"
      /\ requests[r].op \in RoleOps
      /\ \A x \in X : RoleFree(r, x)
  BY DEF LockRoles
<1>4. seen \in [Role -> RoleRow]
  <2>1. \A x \in Role : roles[x] \in RoleRow /\ requests[r].seen[x] \in RoleRow
    BY <1>2 DEF IndInv, TypeOK, RequestState
  <2> QED BY <2>1
<1> HIDE DEF seen
<1>5. q \in RequestState
  BY <1>2, <1>4 DEF RequestState, Stages
<1>6. q.locked = {} /\ q.held = X /\ q.chosen = X /\ q.stage = "held" /\ q.op = requests[r].op
      /\ q.actor = requests[r].actor /\ q.targets = requests[r].targets
  BY <1>2, <1>3 DEF RequestState, RequestOK
<1> HIDE DEF q
<1>7. RequestOK(r)'
  BY <1>2, <1>3, <1>6 DEF RequestOK, AccountOps, SuperOps, StatusOps, CreateOps, RoleOps
<1>8. \A p \in Request \ {r} : /\ requests[p].locked \cap q.locked = {}
                               /\ requests[p].held \cap q.held = {}
  BY <1>3, <1>6 DEF RoleFree
<1> QED BY <1>1, <1>5, <1>7, <1>8, QuietStep

LEMMA LockMembersStep ==
  ASSUME IndInv, NEW r \in Request, LockMembers(r)
  PROVE  IndInv'
<1> DEFINE M == Members(Affected(r))
           q == [requests[r] EXCEPT !.stage = "members", !.locked = M]
<1>1. requests' = [requests EXCEPT ![r] = q] /\ UNCHANGED <<admins, roles, sessions>>
  BY DEF LockMembers
<1>2. /\ requests[r] \in RequestState
      /\ RequestOK(r)
      /\ \A p \in Request \ {r} : /\ requests[p].locked \cap requests[r].locked = {}
                                  /\ requests[p].held \cap requests[r].held = {}
      /\ requests'[r] = q
  BY <1>1, RequestFacts
<1>3. /\ requests[r].stage = "held"
      /\ requests[r].op # "deleteRole"
      /\ \A a \in M : AdminFree(r, a)
  BY DEF LockMembers
<1>4. M \subseteq Admin /\ \A a \in M : admins[a].exists
  BY DEF Members, IndInv, RowsOK
<1>5. q \in RequestState
  BY <1>2, <1>4 DEF RequestState, Stages
<1>6. q.locked = M /\ q.held = requests[r].held /\ q.chosen = requests[r].chosen
      /\ q.stage = "members" /\ q.op = requests[r].op
      /\ q.actor = requests[r].actor /\ q.targets = requests[r].targets
      /\ q.grants = requests[r].grants /\ q.seen = requests[r].seen
  BY <1>2 DEF RequestState
<1>7. Members(Affected(r))' = M
  BY <1>1, <1>2, <1>6 DEF Members, Affected
<1> HIDE DEF q, M
<1>8. RequestOK(r)'
  BY <1>1, <1>2, <1>3, <1>4, <1>6, <1>7 DEF RequestOK, AccountOps, SuperOps, StatusOps, CreateOps, RoleOps
<1>9. \A p \in Request \ {r} : /\ requests[p].locked \cap q.locked = {}
                               /\ requests[p].held \cap q.held = {}
  BY <1>2, <1>3, <1>6 DEF AdminFree, RequestState
<1> QED BY <1>1, <1>5, <1>8, <1>9, QuietStep

-----------------------------------------------------------------------------
(* The commits.                                                            *)

\* A request that ends is idle and the others are as they were.
LEMMA FinishStep ==
  ASSUME IndInv, NEW r \in Request, Finish(r)
  PROVE  /\ requests' \in [Request -> RequestState]
         /\ requests'[r] = Idle
         /\ \A p \in Request : requests'[p] = requests[p] \/ requests'[p] = Idle
         /\ \A p \in Request : requests'[p] # Idle => p # r /\ requests'[p] = requests[p]
BY IdleType DEF Finish, IndInv, TypeOK

\* The rows of admins stay well formed; what is locked by r is locked by no other.
LEMMA LockedByOthers ==
  ASSUME IndInv, NEW r \in Request, NEW p \in Request, p # r, NEW a \in requests[p].locked
  PROVE  a \notin requests[r].locked /\ admins[a].exists
BY DEF IndInv, LocksExclusive, RequestOK

LEMMA ChangedType ==
  ASSUME NEW row \in AdminRow, NEW op
  PROVE  /\ Changed(row, op) \in AdminRow
         /\ Changed(row, op).exists = row.exists
         /\ Changed(row, op).roles = row.roles
         /\ Changed(row, op).super => op = "grant" \/ row.super
BY Zenon DEF Changed, AdminRow

LEMMA CommitAccountsStep ==
  ASSUME IndInv, NEW r \in Request, CommitAccounts(r)
  PROVE  IndInv'
<1> DEFINE op == requests[r].op
           T == {a \in requests[r].targets : op = "endAll" \/ Changed(admins[a], op) # admins[a]}
<1>1. /\ requests[r].stage \in {"locked", "counted"}
      /\ op \in SuperOps \cup StatusOps \cup {"endAll"}
      /\ Authorized(r)
      /\ admins' = [a \in Admin |-> IF a \in T THEN Changed(admins[a], op) ELSE admins[a]]
      /\ sessions' = [a \in Admin |-> IF a \in T THEN {} ELSE sessions[a]]
      /\ Finish(r)
      /\ roles' = roles
  BY DEF CommitAccounts
<1>2. requests[r] \in RequestState /\ RequestOK(r) /\ op \in AccountOps
  BY <1>1 DEF IndInv, TypeOK, AccountOps
<1>3. /\ requests[r].targets \subseteq requests[r].locked
      /\ requests[r].targets \subseteq Admin
      /\ requests[r].actor \in Admin \ requests[r].targets
  BY <1>1, <1>2 DEF RequestOK, RequestState
<1>4. T \subseteq requests[r].targets
  OBVIOUS
<1> HIDE DEF T
<1>5. \A a \in T : a \in Admin /\ admins[a].exists
  BY <1>2, <1>3, <1>4 DEF RequestOK
<1>6. \A a \in Admin : /\ admins'[a] \in AdminRow
                       /\ admins'[a].exists = admins[a].exists
                       /\ admins'[a].roles = admins[a].roles
                       /\ a \notin T => admins'[a] = admins[a] /\ sessions'[a] = sessions[a]
                       /\ a \in T => sessions'[a] = {}
  <2> SUFFICES ASSUME NEW a \in Admin
               PROVE  /\ admins'[a] \in AdminRow
                      /\ admins'[a].exists = admins[a].exists
                      /\ admins'[a].roles = admins[a].roles
                      /\ a \notin T => admins'[a] = admins[a] /\ sessions'[a] = sessions[a]
                      /\ a \in T => sessions'[a] = {}
    OBVIOUS
  <2>1. admins[a] \in AdminRow
    BY DEF IndInv, TypeOK
  <2>2. admins'[a] = IF a \in T THEN Changed(admins[a], op) ELSE admins[a]
    BY <1>1
  <2>3. sessions'[a] = IF a \in T THEN {} ELSE sessions[a]
    BY <1>1
  <2> QED BY <2>1, <2>2, <2>3, ChangedType
<1>7. TypeOK'
  <2>1. sessions \in [Admin -> SUBSET PowerSet] /\ roles \in [Role -> RoleRow]
    BY DEF IndInv, TypeOK
  <2>2. admins' \in [Admin -> AdminRow]
    BY <1>1, <1>6
  <2>3. sessions' \in [Admin -> SUBSET PowerSet]
    BY <1>1, <2>1
  <2> QED BY <2>1, <2>2, <2>3, <1>1, FinishStep DEF TypeOK
<1>8. LocksExclusive' /\ \A p \in Request : RequestOK(p)'
  <2>1. \A p \in Request : requests'[p] = requests[p] \/ requests'[p] = Idle
    BY <1>1, FinishStep
  <2>2. ASSUME NEW a \in Admin, NEW p \in Request, requests'[p] # Idle, a \in requests[p].locked
        PROVE  admins'[a] = admins[a]
    <3>1. p # r
      BY <2>2, <1>1, FinishStep
    <3>2. a \notin requests[r].locked
      BY <2>2, <3>1, LockedByOthers
    <3> QED BY <3>2, <1>3, <1>4, <1>6
  <2>3. \A a \in Admin : admins'[a].roles \ admins[a].roles = {}
    BY <1>6
  <2> QED BY <2>1, <2>2, <2>3, OthersStep
<1>9. RowsOK'
  <2>1. \A a \in Admin : ~admins[a].exists => a \notin T
    BY <1>5
  <2> QED BY <2>1, <1>1, <1>6 DEF RowsOK, IndInv
<1>10. AtLeastOneSuperuser'
  <2>1. CASE \E a \in requests[r].targets : admins[a].super
    <3>1. requests[r].actor \in requests[r].locked
      BY <2>1, <1>1 DEF Authorized, NeedsActor
    <3>2. Rules(requests[r].actor)
      BY <3>1, <1>2 DEF RequestOK
    <3>3. admins'[requests[r].actor] = admins[requests[r].actor]
      BY <1>3, <1>4, <1>6
    <3> DEFINE w == requests[r].actor
    <3>4. w \in Admin /\ admins'[w].exists /\ admins'[w].active /\ admins'[w].super
      BY <3>2, <3>3, <1>3 DEF Rules
    <3> HIDE DEF w
    <3> QED BY <3>4 DEF AtLeastOneSuperuser, Superusers, Rules
  <2>2. CASE \A a \in requests[r].targets : ~admins[a].super
    <3>1. PICK w \in Admin : Rules(w)
      BY DEF IndInv, AtLeastOneSuperuser, Superusers
    <3>2. w \notin T
      BY <3>1, <2>2, <1>4 DEF Rules
    <3> QED BY <3>1, <3>2, <1>6 DEF AtLeastOneSuperuser, Superusers, Rules
  <2> QED BY <2>1, <2>2
<1>11. SessionPowerCurrent'
  <2> SUFFICES ASSUME NEW a \in Admin, NEW p \in sessions'[a] PROVE p = Power(a)'
    BY DEF SessionPowerCurrent
  <2>1. admins'[a] = admins[a] /\ p \in sessions[a]
    BY <1>6
  <2>2. Power(a)' = Power(a)
    BY <2>1, <1>1, PowerSame
  <2> QED BY <2>1, <2>2 DEF IndInv, SessionPowerCurrent
<1> QED BY <1>7, <1>8, <1>9, <1>10, <1>11 DEF IndInv
LEMMA CommitAssignStep ==
  ASSUME IndInv, NEW r \in Request, CommitAssign(r)
  PROVE  IndInv'
<1> DEFINE T == requests[r].targets
           X == requests[r].chosen
<1>1. /\ requests[r].stage = "chosen"
      /\ requests[r].op = "assign"
      /\ \A a \in T : \A x \in X \ admins[a].roles : RoleGiven(r, x)
      /\ admins' = [a \in Admin |-> IF a \in T THEN [admins[a] EXCEPT !.roles = X] ELSE admins[a]]
      /\ sessions' = [a \in Admin |-> IF a \in T THEN {} ELSE sessions[a]]
      /\ Finish(r)
      /\ roles' = roles
  BY DEF CommitAssign
<1>2. requests[r] \in RequestState /\ RequestOK(r)
  BY DEF IndInv, TypeOK
<1>3. T \subseteq requests[r].locked /\ T \subseteq Admin /\ X \subseteq Role
  BY <1>1, <1>2 DEF RequestOK, RequestState, AccountOps
<1>4. \A a \in T : admins[a].exists
  BY <1>2, <1>3 DEF RequestOK
<1> HIDE DEF T, X
<1>5. \A a \in Admin : /\ admins'[a] \in AdminRow
                       /\ admins'[a].exists = admins[a].exists
                       /\ admins'[a].active = admins[a].active
                       /\ admins'[a].super = admins[a].super
                       /\ a \notin T => admins'[a] = admins[a] /\ sessions'[a] = sessions[a]
                       /\ a \in T => sessions'[a] = {} /\ admins'[a].roles = X
  <2> SUFFICES ASSUME NEW a \in Admin
               PROVE  /\ admins'[a] \in AdminRow
                      /\ admins'[a].exists = admins[a].exists
                      /\ admins'[a].active = admins[a].active
                      /\ admins'[a].super = admins[a].super
                      /\ a \notin T => admins'[a] = admins[a] /\ sessions'[a] = sessions[a]
                      /\ a \in T => sessions'[a] = {} /\ admins'[a].roles = X
    OBVIOUS
  <2>1. admins[a] \in AdminRow
    BY DEF IndInv, TypeOK
  <2>2. admins'[a] = IF a \in T THEN [admins[a] EXCEPT !.roles = X] ELSE admins[a]
    BY <1>1
  <2>3. sessions'[a] = IF a \in T THEN {} ELSE sessions[a]
    BY <1>1
  <2>4. X \in SUBSET Role
    BY <1>3
  <2> QED BY <2>1, <2>2, <2>3, <2>4 DEF AdminRow
<1>6. TypeOK'
  <2>1. sessions \in [Admin -> SUBSET PowerSet] /\ roles \in [Role -> RoleRow]
    BY DEF IndInv, TypeOK
  <2>2. admins' \in [Admin -> AdminRow]
    BY <1>1, <1>5
  <2>3. sessions' \in [Admin -> SUBSET PowerSet]
    BY <1>1, <2>1
  <2> QED BY <2>1, <2>2, <2>3, <1>1, FinishStep DEF TypeOK
<1>7. LocksExclusive' /\ \A p \in Request : RequestOK(p)'
  <2>1. \A p \in Request : requests'[p] = requests[p] \/ requests'[p] = Idle
    BY <1>1, FinishStep
  <2>2. ASSUME NEW a \in Admin, NEW p \in Request, requests'[p] # Idle, a \in requests[p].locked
        PROVE  admins'[a] = admins[a]
    <3>1. p # r
      BY <2>2, <1>1, FinishStep
    <3>2. a \notin requests[r].locked
      BY <2>2, <3>1, LockedByOthers
    <3> QED BY <3>2, <1>3, <1>5
  <2>3. ASSUME NEW a \in Admin, NEW p \in Request, requests'[p] # Idle
        PROVE  (admins'[a].roles \ admins[a].roles) \cap requests[p].held = {}
    <3>1. p \in Request \ {r}
      BY <2>3, <1>1, FinishStep
    <3>2. CASE a \in T
      BY <3>1, <3>2, <1>1, <1>5 DEF RoleGiven, RoleFree
    <3>3. CASE a \notin T
      BY <3>3, <1>5
    <3> QED BY <3>2, <3>3
  <2> QED BY <2>1, <2>2, <2>3, OthersStep
<1>8. RowsOK'
  <2>1. ASSUME NEW a \in Admin, NEW x \in admins'[a].roles PROVE roles'[x].state = "live"
    <3>1. a \in T => x \in X
      BY <2>1, <1>5
    <3> QED BY <3>1, <1>1, <1>5 DEF RowsOK, IndInv, RoleGiven
  <2>2. \A a \in Admin : ~admins[a].exists => a \notin T
    BY <1>4
  <2> QED BY <2>1, <2>2, <1>5 DEF RowsOK, IndInv
<1>9. AtLeastOneSuperuser'
  <2>1. PICK w \in Admin : Rules(w)
    BY DEF IndInv, AtLeastOneSuperuser, Superusers
  <2> QED BY <2>1, <1>5 DEF AtLeastOneSuperuser, Superusers, Rules
<1>10. SessionPowerCurrent'
  <2> SUFFICES ASSUME NEW a \in Admin, NEW p \in sessions'[a] PROVE p = Power(a)'
    BY DEF SessionPowerCurrent
  <2>1. admins'[a] = admins[a] /\ p \in sessions[a]
    BY <1>5
  <2>2. Power(a)' = Power(a)
    BY <2>1, <1>1, PowerSame
  <2> QED BY <2>1, <2>2 DEF IndInv, SessionPowerCurrent
<1> QED BY <1>6, <1>7, <1>8, <1>9, <1>10 DEF IndInv

LEMMA CommitCreateStep ==
  ASSUME IndInv, NEW r \in Request, NEW active \in BOOLEAN, CommitCreate(r, active)
  PROVE  IndInv'
<1> DEFINE T == requests[r].targets
           X == requests[r].chosen
           super == requests[r].op = "createSuper"
           row == [exists |-> TRUE, active |-> active, super |-> super, roles |-> X]
<1>1. /\ \A a \in T : ~admins[a].exists
      /\ \A x \in X : RoleGiven(r, x)
      /\ admins' = [a \in Admin |-> IF a \in T THEN row ELSE admins[a]]
      /\ Finish(r)
      /\ roles' = roles /\ sessions' = sessions
  BY DEF CommitCreate
<1>2. requests[r] \in RequestState
  BY DEF IndInv, TypeOK
<1>3. T \subseteq Admin /\ X \in SUBSET Role
  BY <1>2 DEF RequestState
<1>4. super \in BOOLEAN
  OBVIOUS
<1> HIDE DEF T, X, super
<1>5. row \in AdminRow /\ row.exists /\ row.roles = X
  BY <1>3, <1>4 DEF AdminRow
<1> HIDE DEF row
<1>6. \A a \in Admin : /\ admins'[a] \in AdminRow
                       /\ a \notin T => admins'[a] = admins[a]
                       /\ a \in T => admins'[a] = row /\ ~admins[a].exists
  <2>1. \A a \in Admin : admins[a] \in AdminRow
    BY DEF IndInv, TypeOK
  <2> QED BY <1>1, <1>5, <2>1
<1>7. TypeOK'
  <2>1. sessions \in [Admin -> SUBSET PowerSet] /\ roles \in [Role -> RoleRow]
    BY DEF IndInv, TypeOK
  <2>2. admins' \in [Admin -> AdminRow]
    BY <1>1, <1>6
  <2> QED BY <2>1, <2>2, <1>1, FinishStep DEF TypeOK
<1>8. LocksExclusive' /\ \A p \in Request : RequestOK(p)'
  <2>1. \A p \in Request : requests'[p] = requests[p] \/ requests'[p] = Idle
    BY <1>1, FinishStep
  <2>2. ASSUME NEW a \in Admin, NEW p \in Request, requests'[p] # Idle, a \in requests[p].locked
        PROVE  admins'[a] = admins[a]
    <3>1. admins[a].exists
      BY <2>2 DEF IndInv, RequestOK
    <3> QED BY <3>1, <1>6
  <2>3. ASSUME NEW a \in Admin, NEW p \in Request, requests'[p] # Idle
        PROVE  (admins'[a].roles \ admins[a].roles) \cap requests[p].held = {}
    <3>1. p \in Request \ {r}
      BY <2>3, <1>1, FinishStep
    <3>2. CASE a \in T
      BY <3>1, <3>2, <1>1, <1>5, <1>6 DEF RoleGiven, RoleFree
    <3>3. CASE a \notin T
      BY <3>3, <1>6
    <3> QED BY <3>2, <3>3
  <2> QED BY <2>1, <2>2, <2>3, OthersStep
<1>9. RowsOK'
  <2>1. ASSUME NEW a \in Admin, NEW x \in admins'[a].roles PROVE roles'[x].state = "live"
    <3>1. a \in T => x \in X
      BY <2>1, <1>5, <1>6
    <3> QED BY <3>1, <1>1, <1>6 DEF RowsOK, IndInv, RoleGiven
  <2>2. \A a \in Admin : ~admins'[a].exists => a \notin T
    BY <1>5, <1>6
  <2> QED BY <2>1, <2>2, <1>1, <1>6 DEF RowsOK, IndInv
<1>10. AtLeastOneSuperuser'
  <2>1. PICK w \in Admin : Rules(w)
    BY DEF IndInv, AtLeastOneSuperuser, Superusers
  <2>2. admins'[w] = admins[w]
    BY <2>1, <1>6 DEF Rules
  <2> QED BY <2>1, <2>2 DEF AtLeastOneSuperuser, Superusers, Rules
<1>11. SessionPowerCurrent'
  <2> SUFFICES ASSUME NEW a \in Admin, NEW p \in sessions[a] PROVE p = Power(a)'
    BY <1>1 DEF SessionPowerCurrent
  <2>1. admins'[a] = admins[a]
    BY <1>6 DEF IndInv, RowsOK
  <2>2. Power(a)' = Power(a)
    BY <2>1, <1>1, PowerSame
  <2> QED BY <2>1, <2>2 DEF IndInv, SessionPowerCurrent
<1> QED BY <1>7, <1>8, <1>9, <1>10, <1>11 DEF IndInv

\* Steps that change roles that nobody has, or end the sessions of those who do.
LEMMA RolesStep ==
  ASSUME IndInv, NEW r \in Request, Finish(r), admins' = admins,
         roles' \in [Role -> RoleRow],
         \A x \in Role : roles'[x] # roles[x] =>
            /\ roles[x].state = "live" => roles'[x].state = "live"
            /\ \A a \in Admin : x \in admins[a].roles => sessions'[a] = {},
         sessions' \in [Admin -> SUBSET PowerSet],
         \A a \in Admin : sessions'[a] \subseteq sessions[a]
  PROVE  IndInv'
<1>1. TypeOK'
  BY FinishStep DEF TypeOK, IndInv
<1>2. LocksExclusive' /\ \A p \in Request : RequestOK(p)'
  <2>1. \A p \in Request : requests'[p] = requests[p] \/ requests'[p] = Idle
    BY FinishStep
  <2>2. \A a \in Admin : admins'[a] = admins[a] /\ admins'[a].roles \ admins[a].roles = {}
    OBVIOUS
  <2> QED BY <2>1, <2>2, OthersStep
<1>3. \A a \in Admin : admins[a].roles \subseteq Role
  BY DEF IndInv, TypeOK, AdminRow
<1>4. RowsOK'
  BY <1>3 DEF RowsOK, IndInv
<1>5. AtLeastOneSuperuser'
  BY DEF AtLeastOneSuperuser, Superusers, Rules, IndInv
<1>6. SessionPowerCurrent'
  <2> SUFFICES ASSUME NEW a \in Admin, NEW p \in sessions'[a] PROVE p = Power(a)'
    BY DEF SessionPowerCurrent
  <2>1. \A x \in admins[a].roles : roles'[x] = roles[x]
    BY <1>3
  <2>2. Power(a)' = Power(a)
    BY <2>1, PowerSame
  <2> QED BY <2>2 DEF IndInv, SessionPowerCurrent
<1> QED BY <1>1, <1>2, <1>4, <1>5, <1>6 DEF IndInv
LEMMA CreateRoleStep ==
  ASSUME IndInv, NEW r \in Request, NEW active \in BOOLEAN, CreateRole(r, active)
  PROVE  IndInv'
<1> DEFINE X == requests[r].chosen
           row == [NoRole("live") EXCEPT !.active = active]
<1>1. /\ \A x \in X : roles[x].state = "unused"
      /\ roles' = [x \in Role |-> IF x \in X THEN row ELSE roles[x]]
      /\ Finish(r)
      /\ admins' = admins /\ sessions' = sessions
  BY DEF CreateRole
<1>2. row = [state |-> "live", active |-> active, grants |-> {}]
  BY DEF NoRole
<1>3. row \in RoleRow
  BY <1>2 DEF RoleRow
<1> HIDE DEF row, X
<1>4. \A x \in Role : roles[x] \in RoleRow
  BY DEF IndInv, TypeOK
<1>5. roles' \in [Role -> RoleRow]
  BY <1>1, <1>3, <1>4
<1>6. ASSUME NEW x \in Role, roles'[x] # roles[x]
      PROVE  roles[x].state = "unused" /\ \A a \in Admin : x \notin admins[a].roles
  BY <1>1, <1>6 DEF IndInv, RowsOK
<1>7. sessions' \in [Admin -> SUBSET PowerSet]
  BY <1>1 DEF IndInv, TypeOK
<1> QED BY <1>1, <1>5, <1>6, <1>7, RolesStep

LEMMA CommitRolesStep ==
  ASSUME IndInv, NEW r \in Request, CommitRoles(r)
  PROVE  IndInv'
<1> DEFINE A == Affected(r)
           op == requests[r].op
           new(x) == IF op = "permit" THEN Permitted(r, x)
                     ELSE [roles[x] EXCEPT !.active = op = "activate"]
<1>1. /\ requests[r].stage = "members"
      /\ roles' = [x \in Role |-> IF x \notin A THEN roles[x] ELSE new(x)]
      /\ sessions' = [a \in Admin |-> IF a \in requests[r].locked THEN {} ELSE sessions[a]]
      /\ Finish(r)
      /\ admins' = admins
  BY DEF CommitRoles
<1>2. requests[r] \in RequestState /\ RequestOK(r)
  BY DEF IndInv, TypeOK
<1>3. \A x \in Role : roles[x] \in RoleRow /\ requests[r].seen[x] \in RoleRow
  BY <1>2 DEF IndInv, TypeOK, RequestState
<1>4. \A x \in Role : new(x) \in RoleRow /\ new(x).state = roles[x].state
  <2> SUFFICES ASSUME NEW x \in Role
               PROVE  new(x) \in RoleRow /\ new(x).state = roles[x].state
    OBVIOUS
  <2>1. requests[r].grants \subseteq Permission
    BY <1>2 DEF RequestState
  <2>2. Permitted(r, x) \in RoleRow /\ Permitted(r, x).state = roles[x].state
    BY <1>3, <2>1 DEF Permitted, RoleRow
  <2> DEFINE on == op = "activate"
  <2>3. on \in BOOLEAN
    OBVIOUS
  <2> HIDE DEF on
  <2>4. roles[x] \in RoleRow
    BY <1>3
  <2>5. [roles[x] EXCEPT !.active = on] \in RoleRow
        /\ [roles[x] EXCEPT !.active = on].state = roles[x].state
    BY ONLY <2>3, <2>4, Zenon DEF RoleRow
  <2> QED BY <2>2, <2>5 DEF on
<1> HIDE DEF new
<1>5. roles' \in [Role -> RoleRow]
  BY <1>1, <1>3, <1>4
<1>6. ASSUME NEW x \in Role, roles'[x] # roles[x]
      PROVE  /\ roles[x].state = "live" => roles'[x].state = "live"
             /\ \A a \in Admin : x \in admins[a].roles => sessions'[a] = {}
  <2>1. x \in A /\ roles'[x] = new(x)
    BY <1>1, <1>6
  <2>2. \A a \in Admin : x \in admins[a].roles => a \in requests[r].locked
    BY <2>1, <1>1, <1>2 DEF RequestOK, Members
  <2> QED BY <2>1, <2>2, <1>1, <1>4
<1>7. sessions' \in [Admin -> SUBSET PowerSet]
  <2>1. sessions \in [Admin -> SUBSET PowerSet]
    BY DEF IndInv, TypeOK
  <2> QED BY <1>1, <2>1
<1>8. \A a \in Admin : sessions'[a] \subseteq sessions[a]
  BY <1>1
<1> QED BY <1>1, <1>5, <1>6, <1>7, <1>8, RolesStep

\* Nobody has a role that is being deleted, so that no row of admins changes.
LEMMA DeleteChangesNoAdmin ==
  ASSUME IndInv, NEW r \in Request, CommitDelete(r)
  PROVE  /\ admins' = admins
         /\ \A a \in Admin : admins[a].roles \cap requests[r].chosen = {}
<1> DEFINE X == requests[r].chosen
<1>1. requests[r].stage = "empty" /\ RequestOK(r)
  BY DEF CommitDelete, IndInv
<1>2. \A a \in Admin : admins[a].roles \cap X = {}
  BY <1>1 DEF RequestOK, Members
<1>3. admins' = [a \in Admin |-> [admins[a] EXCEPT !.roles = @ \ X]]
  BY DEF CommitDelete
<1>4. ASSUME NEW a \in Admin PROVE [admins[a] EXCEPT !.roles = @ \ X] = admins[a]
  <2>1. admins[a] \in AdminRow /\ admins[a].roles \ X = admins[a].roles
    BY <1>2 DEF IndInv, TypeOK
  <2> QED BY <2>1 DEF AdminRow
<1>5. admins = [a \in Admin |-> admins[a]]
  BY DEF IndInv, TypeOK
<1>6. admins' = [a \in Admin |-> admins[a]]
  BY <1>3, <1>4
<1> QED BY <1>2, <1>5, <1>6

LEMMA CommitDeleteStep ==
  ASSUME IndInv, NEW r \in Request, CommitDelete(r)
  PROVE  IndInv'
<1> DEFINE X == requests[r].chosen
           row == NoRole("deleted")
<1>1. /\ roles' = [x \in Role |-> IF x \in X THEN row ELSE roles[x]]
      /\ Finish(r)
      /\ admins' = admins /\ sessions' = sessions
      /\ \A a \in Admin : admins[a].roles \cap X = {}
  BY DeleteChangesNoAdmin DEF CommitDelete
<1>2. row \in RoleRow
  BY DEF NoRole, RoleRow
<1> HIDE DEF row, X
<1>3. \A x \in Role : roles[x] \in RoleRow
  BY DEF IndInv, TypeOK
<1>4. roles' \in [Role -> RoleRow]
  BY <1>1, <1>2, <1>3
<1>5. sessions' \in [Admin -> SUBSET PowerSet]
  BY <1>1 DEF IndInv, TypeOK
<1>6. \A a \in Admin : admins[a].roles \subseteq Role
  BY DEF IndInv, TypeOK, AdminRow
<1>7. LocksExclusive' /\ \A p \in Request : RequestOK(p)'
  <2>1. \A p \in Request : requests'[p] = requests[p] \/ requests'[p] = Idle
    BY <1>1, FinishStep
  <2>2. \A a \in Admin : admins'[a] = admins[a] /\ admins'[a].roles \ admins[a].roles = {}
    BY <1>1
  <2> QED BY <2>1, <2>2, OthersStep
<1>8. RowsOK'
  BY <1>1, <1>6 DEF RowsOK, IndInv
<1>9. AtLeastOneSuperuser'
  BY <1>1 DEF AtLeastOneSuperuser, Superusers, Rules, IndInv
<1>10. SessionPowerCurrent'
  <2> SUFFICES ASSUME NEW a \in Admin, NEW p \in sessions[a] PROVE p = Power(a)'
    BY <1>1 DEF SessionPowerCurrent
  <2>1. \A x \in admins[a].roles : roles'[x] = roles[x]
    BY <1>1, <1>6
  <2>2. Power(a)' = Power(a)
    BY <2>1, <1>1, PowerSame
  <2> QED BY <2>2 DEF IndInv, SessionPowerCurrent
<1>11. TypeOK'
  BY <1>1, <1>4, <1>5, FinishStep DEF TypeOK, IndInv
<1> QED BY <1>7, <1>8, <1>9, <1>10, <1>11 DEF IndInv

LEMMA AbortStep ==
  ASSUME IndInv, NEW r \in Request, Abort(r)
  PROVE  IndInv'
<1>1. Finish(r) /\ admins' = admins /\ roles' = roles /\ sessions' = sessions
  BY DEF Abort
<1>2. roles' \in [Role -> RoleRow] /\ sessions' \in [Admin -> SUBSET PowerSet]
  BY <1>1 DEF IndInv, TypeOK
<1> QED BY <1>1, <1>2, RolesStep

-----------------------------------------------------------------------------
(* The steps that are not an admin's request.                              *)

LEMMA LoginStep ==
  ASSUME IndInv, NEW a \in Admin, Login(a)
  PROVE  IndInv'
<1>1. /\ admins[a].exists
      /\ sessions' = [sessions EXCEPT ![a] = @ \cup {Power(a)}]
      /\ admins' = admins /\ roles' = roles /\ requests' = requests
  BY DEF Login
<1>2. Power(a) \in PowerSet
  BY PowerType DEF IndInv
<1>3. sessions \in [Admin -> SUBSET PowerSet]
  BY DEF IndInv, TypeOK
<1>4. \A b \in Admin : Power(b)' = Power(b)
  BY <1>1, PowerSame
<1>5. TypeOK'
  BY <1>1, <1>2, <1>3 DEF IndInv, TypeOK
<1>6. RowsOK'
  BY <1>1, <1>3 DEF IndInv, RowsOK
<1>7. SessionPowerCurrent'
  BY <1>1, <1>3, <1>4 DEF IndInv, SessionPowerCurrent
<1>8. AtLeastOneSuperuser' /\ LocksExclusive'
  BY <1>1 DEF IndInv, AtLeastOneSuperuser, Superusers, Rules, LocksExclusive
<1>9. \A p \in Request : RequestOK(p)'
  <2>1. \A b \in Admin : admins'[b] = admins[b] /\ admins'[b].roles \ admins[b].roles = {}
    BY <1>1
  <2> QED BY <1>1, <2>1, OthersStep
<1> QED BY <1>5, <1>6, <1>7, <1>8, <1>9 DEF IndInv

LEMMA InitialAdminStep ==
  ASSUME IndInv, NEW a \in Admin, InitialAdmin(a)
  PROVE  IndInv'
<1>1. /\ \A q \in Request : a \notin requests[q].locked
      /\ admins' = [admins EXCEPT ![a].exists = TRUE, ![a].active = TRUE, ![a].super = TRUE]
      /\ sessions' = [sessions EXCEPT ![a] = {}]
      /\ roles' = roles /\ requests' = requests
  BY NoneAssumption DEF InitialAdmin, AdminFree
<1>2. /\ admins \in [Admin -> AdminRow]
      /\ sessions \in [Admin -> SUBSET PowerSet]
      /\ roles \in [Role -> RoleRow]
      /\ requests \in [Request -> RequestState]
  BY DEF IndInv, TypeOK
<1> DEFINE row == [admins[a] EXCEPT !.exists = TRUE, !.active = TRUE, !.super = TRUE]
<1>3. /\ row \in AdminRow
      /\ row.exists /\ row.active /\ row.super
      /\ row.roles = admins[a].roles
  BY <1>2 DEF AdminRow
<1>4. admins' = [admins EXCEPT ![a] = row]
  BY <1>1, <1>2
<1> HIDE DEF row
<1>5. /\ admins'[a] = row
      /\ \A b \in Admin \ {a} : admins'[b] = admins[b] /\ sessions'[b] = sessions[b]
      /\ sessions'[a] = {}
  BY <1>1, <1>2, <1>4
<1>6. TypeOK'
  BY <1>1, <1>2, <1>3, <1>4 DEF TypeOK
<1>7. RowsOK'
  <2>1. \A b \in Admin : admins'[b].roles = admins[b].roles /\ (~admins'[b].exists => b # a)
    BY <1>3, <1>5
  <2>2. \A b \in Admin : ~admins'[b].exists => admins'[b] = admins[b] /\ sessions'[b] = sessions[b]
    BY <2>1, <1>5
  <2> QED BY <2>1, <2>2, <1>1 DEF IndInv, RowsOK
<1>8. LocksExclusive' /\ \A p \in Request : RequestOK(p)'
  <2>1. \A b \in Admin : admins'[b].roles \ admins[b].roles = {}
    BY <1>3, <1>5
  <2>2. \A b \in Admin, p \in Request : b \in requests[p].locked => admins'[b] = admins[b]
    BY <1>1, <1>5
  <2> QED BY <1>1, <2>1, <2>2, OthersStep
<1>9. AtLeastOneSuperuser'
  <2>1. admins'[a].exists /\ admins'[a].active /\ admins'[a].super
    BY <1>3, <1>5
  <2> QED BY <2>1 DEF AtLeastOneSuperuser, Superusers, Rules
<1>10. SessionPowerCurrent'
  <2> SUFFICES ASSUME NEW b \in Admin, NEW p \in sessions'[b] PROVE p = Power(b)'
    BY DEF SessionPowerCurrent
  <2>1. b # a /\ p \in sessions[b]
    BY <1>5
  <2>2. Power(b)' = Power(b)
    BY <2>1, <1>1, <1>5, PowerSame
  <2> QED BY <2>1, <2>2 DEF IndInv, SessionPowerCurrent
<1> QED BY <1>6, <1>7, <1>8, <1>9, <1>10 DEF IndInv

-----------------------------------------------------------------------------
(* The theorems.                                                           *)

LEMMA InitInv == Init => IndInv
<1> SUFFICES ASSUME Init PROVE IndInv
  OBVIOUS
<1>1. PICK root \in Admin :
        admins = [a \in Admin |-> IF a = root
                                  THEN [exists |-> TRUE, active |-> TRUE, super |-> TRUE, roles |-> {}]
                                  ELSE NoAdmin]
  BY DEF Init
<1>2. /\ roles = [x \in Role |-> NoRole("unused")]
      /\ sessions = [a \in Admin |-> {}]
      /\ requests = [r \in Request |-> Idle]
  BY DEF Init
<1>4. admins \in [Admin -> AdminRow]
  BY <1>1 DEF NoAdmin, AdminRow
<1>5. roles \in [Role -> RoleRow]
  BY <1>2 DEF NoRole, RoleRow
<1>6. TypeOK
  BY <1>2, <1>4, <1>5, IdleType DEF TypeOK
<1>7. \A a \in Admin : admins[a].roles = {} /\ (~admins[a].exists => ~admins[a].super)
  BY <1>1 DEF NoAdmin
<1>8. RowsOK
  BY <1>2, <1>7 DEF RowsOK
<1>9. LocksExclusive
  BY <1>2 DEF LocksExclusive, Idle
<1>10. \A r \in Request : RequestOK(r)
  BY <1>2 DEF RequestOK, Idle, AccountOps, SuperOps, StatusOps, CreateOps, RoleOps
<1>11. AtLeastOneSuperuser
  BY <1>1 DEF AtLeastOneSuperuser, Superusers, Rules
<1>12. SessionPowerCurrent
  BY <1>2 DEF SessionPowerCurrent
<1> QED BY <1>6, <1>8, <1>9, <1>10, <1>11, <1>12 DEF IndInv

LEMMA NextInv == IndInv /\ [Next]_vars => IndInv'
<1> SUFFICES ASSUME IndInv, [Next]_vars PROVE IndInv'
  OBVIOUS
<1>1. ASSUME NEW r \in Request, RequestStep(r) PROVE IndInv'
  <2>1. CASE \E a \in Admin, op \in Ops \ {"none"} :
               \E payload \in Payloads(op) : Start(r, a, op, payload)
    BY <2>1, StartStep
  <2>2. CASE AccountStep(r)
    BY <2>2, LockActorStep, LockTargetsStep, GuardStep, CommitAccountsStep, CommitAssignStep,
       CommitCreateStep DEF AccountStep
  <2>3. CASE RoleStep(r)
    BY <2>3, CreateRoleStep, LockRolesStep, LockMembersStep, CommitRolesStep, GuardStep,
       CommitDeleteStep DEF RoleStep
  <2>4. CASE Abort(r)
    BY <2>4, AbortStep
  <2> QED BY <1>1, <2>1, <2>2, <2>3, <2>4 DEF RequestStep
<1>2. ASSUME NEW a \in Admin, Login(a) \/ InitialAdmin(a) PROVE IndInv'
  BY <1>2, LoginStep, InitialAdminStep
<1>3. CASE UNCHANGED vars
  BY <1>3 DEF vars, IndInv, TypeOK, RowsOK, LocksExclusive, RequestOK, AtLeastOneSuperuser,
     SessionPowerCurrent, Superusers, Rules, Power, Reduction, Authorized, NeedsActor, Members, Affected
<1> QED BY <1>1, <1>2, <1>3 DEF Next

\* The inductive invariant holds in every reachable state.
THEOREM Invariance == Spec => []IndInv
BY InitInv, NextInv, PTL DEF Spec

\* There is always an active superuser.
THEOREM SuperuserTheorem == Spec => []AtLeastOneSuperuser
<1>1. IndInv => AtLeastOneSuperuser
  BY DEF IndInv
<1> QED BY <1>1, Invariance, PTL

\* Open sessions have exactly the power they were started with.
THEOREM PowerTheorem == Spec => []SessionPowerCurrent
<1>1. IndInv => SessionPowerCurrent
  BY DEF IndInv
<1> QED BY <1>1, Invariance, PTL

\* The count under the advisory lock never refuses: the superusers a request
\* removes and its actor, who stays, are all counted.
THEOREM GuardTheorem == Spec => []GuardNeverRefuses
<1>1. IndInv => GuardNeverRefuses
  <2> SUFFICES ASSUME IndInv, NEW r \in Request, requests[r].stage = "guarded"
               PROVE  Cardinality(Superusers) > Cardinality(requests[r].fewer)
    BY DEF GuardNeverRefuses
  <2> DEFINE actor == requests[r].actor
             fewer == requests[r].fewer
  <2>1. RequestOK(r) /\ requests[r] \in RequestState
    BY DEF IndInv, TypeOK
  <2>2. actor \in Superusers \ fewer
    BY <2>1 DEF RequestOK, Reduction, Superusers
  <2>3. fewer \subseteq Superusers
    BY <2>1 DEF RequestOK, Reduction, Superusers, RequestState
  <2>4. IsFiniteSet(Superusers)
    BY FiniteAssumption, FS_Subset DEF Superusers
  <2>5. Cardinality(fewer) <= Cardinality(Superusers)
        /\ (Cardinality(fewer) = Cardinality(Superusers) => fewer = Superusers)
    BY <2>3, <2>4, FS_Subset
  <2>6. IsFiniteSet(fewer) /\ fewer # Superusers
    BY <2>2, <2>3, <2>4, FS_Subset
  <2>7. Cardinality(fewer) \in Nat /\ Cardinality(Superusers) \in Nat
    BY <2>4, <2>6, FS_CardinalityType
  <2> QED BY <2>5, <2>6, <2>7
<1> QED BY <1>1, Invariance, PTL
\* What has to hold when the row of a superuser changes.
LEMMA Touched ==
  ASSUME IndInv, NEW r \in Request, RequestOK(r), NEW a \in requests[r].targets,
         requests[r].op \in AccountOps \cup CreateOps, requests[r].stage # "idle",
         Authorized(r), NeedsActor(r),
         \A b \in Admin \ requests[r].targets : admins'[b] = admins[b]
  PROVE  LET actor == requests[r].actor IN
           actor \in Admin \ {a} /\ Rules(actor) /\ admins'[actor] = admins[actor]
BY DEF RequestOK, Authorized

LEMMA TouchedStep ==
  ASSUME IndInv, NEW r \in Request, NEW a \in Admin,
         admins'[a] # admins[a], admins[a].super \/ admins'[a].super,
         \/ CommitAccounts(r)
         \/ CommitAssign(r)
         \/ \E active \in BOOLEAN : CommitCreate(r, active)
  PROVE  LET actor == requests[r].actor IN
           actor \in Admin \ {a} /\ Rules(actor) /\ admins'[actor] = admins[actor]
<1> DEFINE T == requests[r].targets
           op == requests[r].op
<1>1. RequestOK(r) /\ \A b \in Admin : admins[b] \in AdminRow
  BY DEF IndInv, TypeOK
<1>2. CASE CommitAccounts(r)
  <2>1. /\ op \in SuperOps \cup StatusOps \cup {"endAll"}
        /\ requests[r].stage \in {"locked", "counted"}
        /\ Authorized(r)
        /\ \A b \in Admin : admins'[b] = admins[b] \/ (b \in T /\ admins'[b] = Changed(admins[b], op))
    BY <1>2 DEF CommitAccounts
  <2>2. a \in T /\ admins'[a] = Changed(admins[a], op)
    BY <2>1
  <2>3. op = "grant" \/ admins[a].super
    BY <2>2, <1>1, ChangedType
  <2>4. NeedsActor(r)
    BY <2>2, <2>3 DEF NeedsActor, SuperOps
  <2> QED BY <2>1, <2>2, <2>4, <1>1, Touched DEF AccountOps
<1>3. CASE CommitAssign(r)
  <2>1. /\ op = "assign"
        /\ requests[r].stage = "chosen"
        /\ admins' = [b \in Admin |-> IF b \in T THEN [admins[b] EXCEPT !.roles = requests[r].chosen]
                                                 ELSE admins[b]]
    BY <1>3 DEF CommitAssign
  <2>2. /\ a \in T
        /\ admins'[a] = [admins[a] EXCEPT !.roles = requests[r].chosen]
        /\ \A b \in Admin \ T : admins'[b] = admins[b]
    BY <2>1
  <2>3. admins[a].super
    BY <2>2, <1>1 DEF AdminRow
  <2>4. NeedsActor(r) /\ Authorized(r)
    BY <2>1, <2>2, <2>3, <1>1 DEF NeedsActor, RequestOK
  <2> QED BY <2>1, <2>2, <2>4, <1>1, Touched DEF AccountOps
<1>4. ASSUME NEW active \in BOOLEAN, CommitCreate(r, active)
      PROVE  LET actor == requests[r].actor IN
               actor \in Admin \ {a} /\ Rules(actor) /\ admins'[actor] = admins[actor]
  <2>1. /\ op \in CreateOps
        /\ requests[r].stage = "chosen"
        /\ \A b \in T : ~admins[b].exists
        /\ admins' = [b \in Admin |-> IF b \in T THEN [exists |-> TRUE, active |-> active,
                                                       super |-> op = "createSuper",
                                                       roles |-> requests[r].chosen]
                                                 ELSE admins[b]]
    BY <1>4 DEF CommitCreate
  <2>2. /\ a \in T /\ ~admins[a].exists
        /\ admins'[a].super = (op = "createSuper")
        /\ \A b \in Admin \ T : admins'[b] = admins[b]
    BY <2>1
  <2>3. op = "createSuper"
    BY <2>2 DEF IndInv, RowsOK
  <2>4. NeedsActor(r) /\ Authorized(r)
    BY <2>1, <2>3, <1>1 DEF NeedsActor, RequestOK
  <2> QED BY <2>1, <2>2, <2>4, <1>1, Touched
<1> QED BY <1>2, <1>3, <1>4

\* Only an active superuser changes a superuser's row, or the mark.
THEOREM TouchedTheorem == Spec => SuperuserTouchedBySuperuser
<1> DEFINE A(r, a, actor) ==
             /\ requests[r].actor = actor
             /\ requests'[r] # requests[r]
             /\ admins'[a] # admins[a]
             /\ admins[a].super \/ admins'[a].super
             => actor # a /\ Rules(actor) /\ Rules(actor)'
<1>1. ASSUME IndInv, [Next]_vars, NEW r \in Request, NEW a \in Admin, NEW actor \in Admin
      PROVE  A(r, a, actor)
  <2> SUFFICES ASSUME requests[r].actor = actor, requests'[r] # requests[r],
                      admins'[a] # admins[a], admins[a].super \/ admins'[a].super
               PROVE  actor # a /\ Rules(actor) /\ Rules(actor)'
    OBVIOUS
  <2>1. PICK p \in Request : RequestStep(p)
    BY <1>1 DEF Next, Login, InitialAdmin, vars
  <2>2. CASE CommitAccounts(p) \/ CommitAssign(p) \/ \E active \in BOOLEAN : CommitCreate(p, active)
    <3>1. Finish(p)
      BY <2>2 DEF CommitAccounts, CommitAssign, CommitCreate
    <3>2. p = r
      BY <3>1, <1>1 DEF Finish, IndInv, TypeOK
    <3>3. actor \in Admin \ {a} /\ Rules(actor) /\ admins'[actor] = admins[actor]
      BY <2>2, <3>2, <1>1, TouchedStep
    <3> QED BY <3>3 DEF Rules
  <2>3. CASE CommitDelete(p)
    BY <2>3, <1>1, DeleteChangesNoAdmin
  <2>4. CASE ~(CommitAccounts(p) \/ CommitAssign(p) \/ CommitDelete(p)
               \/ \E active \in BOOLEAN : CommitCreate(p, active))
    BY <2>1, <2>4 DEF RequestStep, AccountStep, RoleStep, Start, LockActor, LockTargets, LockGuard,
       CountSuperusers, ReadRoles, CreateRole, LockRoles, LockMembers, CommitRoles, CountMembers, Abort
  <2> QED BY <2>2, <2>3, <2>4
<1>2. IndInv /\ [Next]_vars => [\A r \in Request, a, actor \in Admin : A(r, a, actor)]_vars
  BY <1>1
<1> QED BY <1>2, Invariance, PTL DEF Spec, SuperuserTouchedBySuperuser
=============================================================================
