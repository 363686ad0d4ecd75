----------------------------- MODULE AdminRbac -----------------------------
(***************************************************************************)
(* Administrators, roles and superusers: the operations of one admin on    *)
(* others and on roles, each a transaction on PostgreSQL at READ COMMITTED *)
(* that locks rows, checks them, and commits.                              *)
(*                                                                         *)
(* Three things serialise them: the row lock of each admin touched, the    *)
(* row lock of each role touched (an INSERT into admin_roles waits for it  *)
(* through the foreign key), and the advisory lock of the operations that  *)
(* reduce the number of active superusers.                                 *)
(*                                                                         *)
(* How sessions are opened, rotated and revoked is AuthSessions; here an   *)
(* admin's open sessions are just the powers they were opened with.        *)
(***************************************************************************)
EXTENDS Naturals, FiniteSets

CONSTANTS
  Admin,       \* identifiers of admins
  Role,        \* identifiers of roles
  Permission,  \* permissions a role may carry
  Request,     \* concurrent requests
  None         \* no admin and no request

ASSUME FiniteAssumption == IsFiniteSet(Admin)

ASSUME NoneAssumption == None \notin Admin /\ None \notin Request

VARIABLES
  admins,      \* rows of admins, with their rows of admin_roles
  roles,       \* rows of roles, with their rows of role_permissions
  sessions,    \* the powers that the open sessions of each admin started with
  requests     \* requests in flight

vars == <<admins, roles, sessions, requests>>

-----------------------------------------------------------------------------

AdminRow == [exists: BOOLEAN, active: BOOLEAN, super: BOOLEAN, roles: SUBSET Role]

RoleRow == [state: {"unused", "live", "deleted"}, active: BOOLEAN,
            grants: SUBSET Permission]

NoAdmin == [exists |-> FALSE, active |-> FALSE, super |-> FALSE, roles |-> {}]
NoRole(state) == [state |-> state, active |-> FALSE, grants |-> {}]

\* What a request of this admin may do, as get_current_admin computes it.
PowerSet == [active: BOOLEAN, super: BOOLEAN, permissions: SUBSET Permission]

Power(a) ==
  [active |-> admins[a].active,
   super |-> admins[a].super,
   permissions |->
     IF admins[a].super THEN Permission
     ELSE {p \in Permission : \E x \in admins[a].roles : roles[x].active /\ p \in roles[x].grants}]

SuperOps == {"grant", "drop"}
StatusOps == {"enable", "disable"}
AccountOps == SuperOps \cup StatusOps \cup {"endAll", "assign"}
CreateOps == {"create", "createSuper"}
RoleOps == {"activate", "deactivate", "permit", "deleteRole"}
Ops == AccountOps \cup CreateOps \cup RoleOps \cup {"none", "createRole"}

Stages == {"idle", "started", "locked", "guarded", "counted", "chosen", "held",
           "members", "empty"}

\* targets, chosen and grants are the payload; locked and held the row locks on
\* admins and roles; fewer the active superusers among the targets who will not
\* be afterwards; seen the roles in the request's ORM session.
RequestState == [stage: Stages, op: Ops, actor: Admin \cup {None}, targets: SUBSET Admin,
                 chosen: SUBSET Role, grants: SUBSET Permission,
                 locked: SUBSET Admin, fewer: SUBSET Admin,
                 held: SUBSET Role, seen: [Role -> RoleRow]]

Idle == [stage |-> "idle", op |-> "none", actor |-> None, targets |-> {}, chosen |-> {},
         grants |-> {}, locked |-> {}, fewer |-> {}, held |-> {}, seen |-> [x \in Role |-> NoRole("unused")]]

TypeOK ==
  /\ admins   \in [Admin -> AdminRow]
  /\ roles    \in [Role -> RoleRow]
  /\ sessions \in [Admin -> SUBSET PowerSet]
  /\ requests \in [Request -> RequestState]

\* The initial admin has been created by its script, and nothing else.
Init ==
  /\ \E root \in Admin :
       admins = [a \in Admin |-> IF a = root
                                 THEN [exists |-> TRUE, active |-> TRUE, super |-> TRUE,
                                       roles |-> {}]
                                 ELSE NoAdmin]
  /\ roles    = [x \in Role |-> NoRole("unused")]
  /\ sessions = [a \in Admin |-> {}]
  /\ requests = [r \in Request |-> Idle]

-----------------------------------------------------------------------------
(* Locks and checks.                                                       *)

\* Mutants: a read that does not ask for the row lock.
NoAdminLock(r, a) == TRUE
NoRoleLock(r, x) == TRUE

AdminFree(r, a) == \A q \in Request \ {r} : a \notin requests[q].locked
RoleFree(r, x) == \A q \in Request \ {r} : x \notin requests[q].held

\* An active superuser.
Rules(a) == admins[a].exists /\ admins[a].active /\ admins[a].super

Superusers == {a \in Admin : Rules(a)}

\* Mutant: the handler does not look at the target.
NeedsActorOnPaper(r) == requests[r].op \in SuperOps \cup {"createSuper"}

\* The operations that only an active superuser may do: those about being one,
\* and those on a target that is one.
NeedsActor(r) ==
  \/ requests[r].op \in SuperOps \cup {"createSuper"}
  \/ \E a \in requests[r].targets : admins[a].super

Authorized(r) == NeedsActor(r) => requests[r].actor \in requests[r].locked

\* What the loaded targets say about how many superusers the request removes.
Reduction(r) ==
  {a \in requests[r].targets : Rules(a) /\ requests[r].op \in {"drop", "disable"}}

Members(X) == {a \in Admin : admins[a].roles \cap X # {}}

Finish(r) == requests' = [requests EXCEPT ![r] = Idle]

-----------------------------------------------------------------------------

\* What the endpoint of each operation accepts.  Nobody is his own target.
Payloads(op) ==
  LET One(S) == {T \in SUBSET S : Cardinality(T) = 1}
      Some(S) == SUBSET S \ {{}}
  IN [targets: CASE op \in StatusOps -> Some(Admin)
                 [] op \in (AccountOps \cup CreateOps) \ StatusOps -> One(Admin)
                 [] OTHER -> {{}},
      chosen: CASE op \in {"permit", "createRole"} -> One(Role)
                [] op \in RoleOps \ {"permit"} -> Some(Role)
                [] op \in CreateOps \cup {"assign"} -> SUBSET Role
                [] OTHER -> {{}},
      grants: IF op = "permit" THEN SUBSET Permission ELSE {{}}]

\* A signed-in admin with a permission for the operation.  Authentication loads
\* the roles of the actor into the request's ORM session, where only the
\* operations on roles meet them again.
Start(r, a, op, payload) ==
  /\ requests[r].stage = "idle"
  /\ sessions[a] # {} /\ admins[a].active
  /\ IF op \in SuperOps THEN admins[a].super ELSE Power(a).permissions # {}
  /\ a \notin payload.targets
  /\ requests' = [requests EXCEPT ![r] =
       [Idle EXCEPT !.stage = "started", !.op = op, !.actor = a,
                    !.targets = payload.targets, !.chosen = payload.chosen,
                    !.grants = payload.grants,
                    !.seen = [x \in Role |-> IF op \in RoleOps /\ x \in admins[a].roles
                                             THEN roles[x] ELSE NoRole("unused")]]]
  /\ UNCHANGED <<admins, roles, sessions>>

\* _require_actor_superuser: the actor's own row is locked and read afresh.
LockActor(r) ==
  LET a == requests[r].actor IN
  /\ requests[r].stage = IF requests[r].op \in SuperOps \cup CreateOps
                         THEN "started" ELSE "locked"
  /\ NeedsActor(r)
  /\ a \notin requests[r].locked
  /\ AdminFree(r, a)
  /\ Rules(a)
  /\ requests' = [requests EXCEPT ![r].locked = @ \cup {a}]
  /\ UNCHANGED <<admins, roles, sessions>>

LockTargets(r) ==
  LET T == requests[r].targets IN
  /\ requests[r].stage = "started"
  /\ requests[r].op \in AccountOps
  /\ requests[r].op \in SuperOps => Authorized(r)
  /\ \A a \in T : admins[a].exists /\ AdminFree(r, a)
  /\ requests' = [requests EXCEPT ![r].stage = "locked", ![r].locked = @ \cup T,
                                  ![r].fewer = Reduction(r)]
  /\ UNCHANGED <<admins, roles, sessions>>

\* pg_advisory_xact_lock, before the count and until the commit.
LockGuard(r) ==
  /\ requests[r].stage = "locked"
  /\ Authorized(r)
  /\ requests[r].fewer # {}
  /\ \A q \in Request : requests[q].stage \notin {"guarded", "counted"}
  /\ requests' = [requests EXCEPT ![r].stage = "guarded"]
  /\ UNCHANGED <<admins, roles, sessions>>

CountSuperusers(r) ==
  /\ requests[r].stage = "guarded"
  /\ Cardinality(Superusers) > Cardinality(requests[r].fewer)
  /\ requests' = [requests EXCEPT ![r].stage = "counted"]
  /\ UNCHANGED <<admins, roles, sessions>>

\* A target after the operation.
Changed(row, op) ==
  [row EXCEPT !.super = op = "grant" \/ (row.super /\ op # "drop"),
              !.active = op = "enable" \/ (row.active /\ op # "disable")]

\* The targets change and lose their sessions; a target already in the state
\* asked for is left alone.
CommitAccounts(r) ==
  LET op == requests[r].op
      T == {a \in requests[r].targets : op = "endAll" \/ Changed(admins[a], op) # admins[a]}
  IN /\ requests[r].stage = IF requests[r].fewer = {} THEN "locked" ELSE "counted"
     /\ op \in SuperOps \cup StatusOps \cup {"endAll"}
     /\ Authorized(r)
     /\ admins' = [a \in Admin |-> IF a \in T THEN Changed(admins[a], op) ELSE admins[a]]
     /\ sessions' = [a \in Admin |-> IF a \in T THEN {} ELSE sessions[a]]
     /\ Finish(r)
     /\ UNCHANGED roles

-----------------------------------------------------------------------------
(* Giving roles to an admin.                                               *)

\* The roles are read without a lock; all of them must be active.
ReadRoles(r) ==
  /\ \/ requests[r].op = "assign" /\ requests[r].stage = "locked"
     \/ requests[r].op \in CreateOps /\ requests[r].stage = "started"
  /\ Authorized(r)
  /\ \A x \in requests[r].chosen : roles[x].state = "live" /\ roles[x].active
  /\ requests' = [requests EXCEPT ![r].stage = "chosen"]
  /\ UNCHANGED <<admins, roles, sessions>>

\* The foreign key of a new row of admin_roles: the role is there and nobody
\* has locked it.
RoleGiven(r, x) == roles[x].state = "live" /\ RoleFree(r, x)

CommitAssign(r) ==
  LET T == requests[r].targets IN
  /\ requests[r].stage = "chosen"
  /\ requests[r].op = "assign"
  /\ \A a \in T : \A x \in requests[r].chosen \ admins[a].roles : RoleGiven(r, x)
  /\ admins' = [a \in Admin |-> IF a \in T THEN [admins[a] EXCEPT !.roles = requests[r].chosen]
                                           ELSE admins[a]]
  /\ sessions' = [a \in Admin |-> IF a \in T THEN {} ELSE sessions[a]]
  /\ Finish(r)
  /\ UNCHANGED roles

CommitCreate(r, active) ==
  LET T == requests[r].targets IN
  /\ requests[r].stage = "chosen"
  /\ requests[r].op \in CreateOps
  /\ \A a \in T : ~admins[a].exists
  /\ \A x \in requests[r].chosen : RoleGiven(r, x)
  /\ admins' = [a \in Admin |->
       IF a \in T THEN [exists |-> TRUE, active |-> active,
                        super |-> requests[r].op = "createSuper",
                        roles |-> requests[r].chosen]
                  ELSE admins[a]]
  /\ Finish(r)
  /\ UNCHANGED <<roles, sessions>>

-----------------------------------------------------------------------------
(* Operations on roles.                                                    *)

CreateRole(r, active) ==
  LET X == requests[r].chosen IN
  /\ requests[r].stage = "started"
  /\ requests[r].op = "createRole"
  /\ \A x \in X : roles[x].state = "unused"
  /\ roles' = [x \in Role |-> IF x \in X THEN [NoRole("live") EXCEPT !.active = active]
                                         ELSE roles[x]]
  /\ Finish(r)
  /\ UNCHANGED <<admins, sessions>>

\* The locking read of the roles does not refresh those that authentication
\* has loaded with the actor.
LockRoles(r) ==
  LET X == requests[r].chosen IN
  /\ requests[r].stage = "started"
  /\ requests[r].op \in RoleOps
  /\ \A x \in X : roles[x].state = "live" /\ RoleFree(r, x)
  /\ requests' = [requests EXCEPT ![r].stage = "held", ![r].held = X,
       ![r].seen = [x \in Role |-> IF x \in X /\ @[x].state = "unused" THEN roles[x] ELSE @[x]]]
  /\ UNCHANGED <<admins, roles, sessions>>

\* The roles whose members lose their sessions.
Affected(r) ==
  {x \in requests[r].chosen :
     \/ requests[r].op = "activate" /\ ~requests[r].seen[x].active
     \/ requests[r].op = "deactivate" /\ requests[r].seen[x].active
     \/ requests[r].op = "permit"}

\* get_admins_by_role: every admin who has one of them now, under lock.
LockMembers(r) ==
  /\ requests[r].stage = "held"
  /\ requests[r].op # "deleteRole"
  /\ \A a \in Members(Affected(r)) : AdminFree(r, a)
  /\ requests' = [requests EXCEPT ![r].stage = "members", ![r].locked = Members(Affected(r))]
  /\ UNCHANGED <<admins, roles, sessions>>

\* Assigning a collection deletes and inserts the rows in which it differs from
\* the collection loaded before; a row that is gone, or there already, is an error.
Permitted(r, x) ==
  LET seen == requests[r].seen[x].grants
      G == requests[r].grants
  IN [roles[x] EXCEPT !.grants = (@ \ (seen \ G)) \cup (G \ seen)]

CommitRoles(r) ==
  LET op == requests[r].op IN
  /\ requests[r].stage = "members"
  /\ op = "permit" => \A x \in requests[r].chosen :
       LET seen == requests[r].seen[x].grants IN
         /\ seen \ requests[r].grants \subseteq roles[x].grants
         /\ (requests[r].grants \ seen) \cap roles[x].grants = {}
  /\ roles' = [x \in Role |-> IF x \notin Affected(r) THEN roles[x]
                              ELSE IF op = "permit" THEN Permitted(r, x)
                              ELSE [roles[x] EXCEPT !.active = op = "activate"]]
  /\ sessions' = [a \in Admin |-> IF a \in requests[r].locked THEN {} ELSE sessions[a]]
  /\ Finish(r)
  /\ UNCHANGED admins

\* A role is deleted only if nobody has it.
CountMembers(r) ==
  /\ requests[r].stage = "held"
  /\ requests[r].op = "deleteRole"
  /\ Members(requests[r].chosen) = {}
  /\ requests' = [requests EXCEPT ![r].stage = "empty"]
  /\ UNCHANGED <<admins, roles, sessions>>

\* The ORM deletes a role together with its rows of admin_roles.
CommitDelete(r) ==
  LET X == requests[r].chosen IN
  /\ requests[r].stage = "empty"
  /\ roles' = [x \in Role |-> IF x \in X THEN NoRole("deleted") ELSE roles[x]]
  /\ admins' = [a \in Admin |-> [admins[a] EXCEPT !.roles = @ \ X]]
  /\ Finish(r)
  /\ UNCHANGED sessions

-----------------------------------------------------------------------------

\* A request ends without a write: a check, a statement or a lock fails.
Abort(r) ==
  /\ requests[r].stage # "idle"
  /\ Finish(r)
  /\ UNCHANGED <<admins, roles, sessions>>

\* The session is written under the lock of the admin's row.
Login(a) ==
  /\ admins[a].exists /\ admins[a].active
  /\ AdminFree(None, a)
  /\ sessions' = [sessions EXCEPT ![a] = @ \cup {Power(a)}]
  /\ UNCHANGED <<admins, roles, requests>>

\* The command that creates the initial admin, or resets an existing one.
InitialAdmin(a) ==
  /\ AdminFree(None, a)
  /\ admins' = [admins EXCEPT ![a].exists = TRUE, ![a].active = TRUE, ![a].super = TRUE]
  /\ sessions' = [sessions EXCEPT ![a] = {}]
  /\ UNCHANGED <<roles, requests>>

AccountStep(r) ==
  \/ LockActor(r)
  \/ LockTargets(r)
  \/ LockGuard(r)
  \/ CountSuperusers(r)
  \/ CommitAccounts(r)
  \/ ReadRoles(r)
  \/ CommitAssign(r)
  \/ \E active \in BOOLEAN : CommitCreate(r, active)

RoleStep(r) ==
  \/ \E active \in BOOLEAN : CreateRole(r, active)
  \/ LockRoles(r)
  \/ LockMembers(r)
  \/ CommitRoles(r)
  \/ CountMembers(r)
  \/ CommitDelete(r)

RequestStep(r) ==
  \/ \E a \in Admin, op \in Ops \ {"none"} : \E payload \in Payloads(op) : Start(r, a, op, payload)
  \/ AccountStep(r)
  \/ RoleStep(r)
  \/ Abort(r)

Next ==
  \/ \E r \in Request : RequestStep(r)
  \/ \E a \in Admin : Login(a) \/ InitialAdmin(a)

Spec == Init /\ [][Next]_vars

-----------------------------------------------------------------------------

(* Why it works: what every reachable state has in common.                 *)

\* Only admins that exist have sessions or roles, and only roles in use are given.
RowsOK ==
  /\ \A a \in Admin : ~admins[a].exists => /\ sessions[a] = {}
                                          /\ admins[a].roles = {}
                                          /\ ~admins[a].super
  /\ \A a \in Admin : \A x \in admins[a].roles : roles[x].state = "live"

LocksExclusive ==
  \A q, r \in Request : q # r => /\ requests[q].locked \cap requests[r].locked = {}
                                /\ requests[q].held \cap requests[r].held = {}

\* What a request has locked, and what the locks keep true of the rows.
RequestOK(r) ==
  LET q == requests[r] IN
  /\ \A a \in q.locked : admins[a].exists
  /\ q.stage = "idle" => q = Idle
  /\ q.stage # "idle" => q.actor \in Admin \ q.targets
  /\ q.stage \in {"started", "held", "empty"} => q.locked \subseteq {q.actor}
  /\ q.stage \in {"held", "empty"} \/ (q.stage = "started" /\ q.op \in RoleOps) => q.locked = {}
  /\ q.op \in AccountOps \cup CreateOps /\ q.actor \in q.locked => Rules(q.actor)
  /\ q.op \in AccountOps /\ q.stage # "started" => q.targets \subseteq q.locked
  /\ q.stage \in {"locked", "guarded", "counted"} => q.op \in AccountOps /\ q.fewer = Reduction(r)
  /\ q.stage \in {"guarded", "counted"} => q.fewer # {} /\ q.actor \in q.locked
  /\ q.stage = "chosen" => q.op \in CreateOps \cup {"assign"}
  /\ q.stage = "chosen" /\ q.op \in {"assign", "createSuper"} => Authorized(r)
  /\ q.stage \in {"held", "members", "empty"} => q.op \in RoleOps /\ q.held = q.chosen
  /\ q.stage = "members" => Members(Affected(r)) \subseteq q.locked
  /\ q.stage = "empty" => Members(q.chosen) = {}

\* There is always an active superuser, whatever demotions and deactivations
\* run at the same time.
AtLeastOneSuperuser == Superusers # {}

\* The last-superuser check is a second line of defence: by the time a request
\* has the advisory lock, the lock on its own row already guarantees that the
\* actor remains, so the count never refuses.
GuardNeverRefuses ==
  \A r \in Request :
    requests[r].stage = "guarded" => Cardinality(Superusers) > Cardinality(requests[r].fewer)

\* Every open session was started with exactly the power its admin has now:
\* whatever changes it (status, superuser mark, roles given, a role's state or
\* permissions) ends the sessions, also of those who get the role meanwhile.
SessionPowerCurrent ==
  \A a \in Admin : \A p \in sessions[a] : p = Power(a)

\* The inductive invariant behind the theorems.
IndInv ==
  /\ TypeOK
  /\ RowsOK
  /\ LocksExclusive
  /\ \A r \in Request : RequestOK(r)
  /\ AtLeastOneSuperuser
  /\ SessionPowerCurrent

\* The row of a superuser, and the mark itself, is changed only by a request
\* whose actor is an active superuser at the moment of the commit.
SuperuserTouchedBySuperuser ==
  [][\A r \in Request, a, actor \in Admin :
       /\ requests[r].actor = actor
       /\ requests'[r] # requests[r]
       /\ admins'[a] # admins[a]
       /\ admins[a].super \/ admins'[a].super
       => actor # a /\ Rules(actor) /\ Rules(actor)']_vars
=============================================================================
