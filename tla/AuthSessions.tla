---------------------------- MODULE AuthSessions ----------------------------
(***************************************************************************)
(* Login sessions of the backend: login, refresh-token rotation, logout,   *)
(* password change, self-deletion, session revocation, and the management  *)
(* operations that end an account's sessions.                              *)
(*                                                                         *)
(* Every request is a transaction on PostgreSQL at READ COMMITTED.  A      *)
(* request is split where another one can slip in: it reads rows without a *)
(* lock, waits for row locks, reads what a bulk UPDATE will touch, and     *)
(* commits.  What a request wrote becomes visible when it commits, and a   *)
(* lock is held from the statement that takes it until then, so a lock is  *)
(* a predicate on the stages of the requests (HoldsUser, HoldsSession,     *)
(* HoldsToken).  A request works on the objects of its own ORM session:    *)
(* a row loaded before its lock was awaited keeps the attributes of the    *)
(* first load, unless the locking read asks for populate_existing.         *)
(*                                                                         *)
(* The web and the admin profile run the same protocol and differ in three *)
(* constants: FreshLock, OwnOps and ManagedOps.                            *)
(***************************************************************************)
EXTENDS Naturals

CONSTANTS
  User,        \* accounts (users for the web profile, admins for the admin one)
  Session,     \* identifiers of login sessions
  Token,       \* identifiers of refresh tokens, and of the access and CSRF
               \* token handed out in the same response
  Request,     \* concurrent requests
  None,        \* no user, session, token or request
  FreshLock,   \* the locking read of the account refreshes its attributes
  OwnOps,      \* operations an account performs on itself
  ManagedOps,  \* operations a manager performs on an account
  MaxVersion,  \* bound on credential versions
  MaxHash      \* bound on the passwords ever set for an account

ASSUME NoneAssumption ==
  /\ None \notin User
  /\ None \notin Session
  /\ None \notin Token
  /\ None \notin Request

ASSUME ProfileAssumption ==
  /\ FreshLock \in BOOLEAN
  /\ OwnOps \subseteq {"password", "delete", "revoke", "revokeOthers"}
  /\ ManagedOps \subseteq {"enable", "disable", "remove", "restore", "reset", "regrant",
                           "endAll", "endOne", "sweep"}

ASSUME BoundAssumption == MaxVersion \in Nat \ {0} /\ MaxHash \in Nat \ {0}

VARIABLES
  users,       \* rows of users / admins
  sessions,    \* rows of user_sessions / admin_sessions
  tokens,      \* rows of user_refresh_tokens / admin_refresh_tokens
  requests,    \* requests in flight with what they have read
  mutex,       \* Redis: the owner of the refresh lock of each token
  hashes       \* number of passwords ever set, to name a new one

vars == <<users, sessions, tokens, requests, mutex, hashes>>

-----------------------------------------------------------------------------
(* The rows.                                                               *)

\* password names the password behind password_hash: 1 is the first one, and
\* every password set later gets the next number.  legacy: the hash was made
\* with older parameters, so that a login replaces it.
UserRow == [active: BOOLEAN, deleted: BOOLEAN, version: Nat,
            password: Nat, legacy: BOOLEAN]

\* phase is revoked_at of an existing row, csrf the response whose CSRF token
\* the session accepts.
SessionRow == [user: User \cup {None}, phase: {"unused", "open", "revoked"},
               csrf: Token \cup {None}]

\* next is replaced_by_id, set together with consumed_at.  access is the
\* credential_version claim of the access token issued in the same response.
TokenRow == [family: Session \cup {None}, next: Token \cup {None},
             revoked: BOOLEAN, expired: BOOLEAN, access: Nat]

NoUserRow == [active |-> FALSE, deleted |-> FALSE, version |-> 0,
              password |-> 0, legacy |-> FALSE]
NoSessionRow == [user |-> None, phase |-> "unused", csrf |-> None]
NoTokenRow == [family |-> None, next |-> None, revoked |-> FALSE,
               expired |-> FALSE, access |-> 0]

Stages == {"idle", "verified", "queued", "presented", "loaded", "leaving",
           "authenticated", "userLocked", "sessionLocked", "revoking", "sweeping"}

Ops == {"none", "login", "rotate", "reuse", "expire", "logout"}
         \cup OwnOps \cup ManagedOps

\* doomed and lost: the sessions and the tokens a bulk UPDATE found.
RequestState == [stage: Stages, op: Ops, user: User \cup {None},
                 session: Session \cup {None}, token: Token \cup {None},
                 seen: UserRow, doomed: SUBSET Session, lost: SUBSET Token]

Idle == [stage |-> "idle", op |-> "none", user |-> None, session |-> None,
         token |-> None, seen |-> NoUserRow, doomed |-> {}, lost |-> {}]

TypeOK ==
  /\ users    \in [User -> UserRow]
  /\ sessions \in [Session -> SessionRow]
  /\ tokens   \in [Token -> TokenRow]
  /\ requests \in [Request -> RequestState]
  /\ mutex    \in [Token -> Request \cup {None}]
  /\ hashes   \in [User -> Nat]

\* Accounts are created by a manager, active or not, with version 1 and no
\* session; public registration is closed by the product.
Init ==
  /\ users \in [User -> [active: BOOLEAN, deleted: {FALSE}, version: {1},
                         password: {1}, legacy: BOOLEAN]]
  /\ sessions = [s \in Session |-> NoSessionRow]
  /\ tokens   = [t \in Token |-> NoTokenRow]
  /\ requests = [r \in Request |-> Idle]
  /\ mutex    = [t \in Token |-> None]
  /\ hashes   = [u \in User |-> 1]

-----------------------------------------------------------------------------
(* Rows and locks.                                                         *)

Issued(t) == tokens[t].family # None

Live(t) == Issued(t) /\ tokens[t].next = None /\ ~tokens[t].revoked

OpenSessions(u) == {s \in Session : sessions[s].phase = "open" /\ sessions[s].user = u}

\* idle_expires_at of a session is the expiry of its newest token.
Lapsed(s) == tokens[sessions[s].csrf].expired

HoldsUser(r, u) ==
  /\ requests[r].user = u
  /\ requests[r].stage \in {"userLocked", "sessionLocked", "revoking"}

HoldsSession(r, s) ==
  \/ /\ requests[r].op = "password"
     /\ requests[r].session = s
     /\ requests[r].stage \in {"sessionLocked", "revoking"}
  \/ /\ requests[r].stage = "revoking"
     /\ s \in requests[r].doomed

HoldsToken(r, t) ==
  \/ /\ requests[r].token = t
     /\ requests[r].stage \in {"presented", "loaded", "leaving"}
  \/ /\ requests[r].stage = "revoking"
     /\ t \in requests[r].lost

\* Mutants: a read that does not ask for the row lock.
NoUserLock(r, u) == TRUE
NoTokenLock(r, t) == TRUE

\* The row locks r waits for: nobody else holds them.
UserFree(r, u) == \A q \in Request \ {r} : ~HoldsUser(q, u)
SessionFree(r, s) == \A q \in Request \ {r} : ~HoldsSession(q, s)
TokenFree(r, t) == \A q \in Request \ {r} : ~HoldsToken(q, t)

\* Mutant: the locking read keeps the attributes loaded before.
StaleRow(r, u) == requests[r].seen

\* The account as r sees it once it has locked the row.
LockedRow(r, u) == IF FreshLock THEN users[u] ELSE requests[r].seen

\* UPDATE ... SET revoked_at WHERE revoked_at IS NULL on the sessions of S.
EndSessions(S) ==
  [s \in Session |-> IF s \in S /\ sessions[s].phase = "open"
                     THEN [sessions[s] EXCEPT !.phase = "revoked"]
                     ELSE sessions[s]]

\* A new row of refresh tokens, issued with an access token of this version.
NewToken(s, version) ==
  [NoTokenRow EXCEPT !.family = s, !.access = version]

\* Mutant: DEL without comparing the owner.
ReleaseAny(r) ==
  [t \in Token |-> IF t = requests[r].token THEN None ELSE mutex[t]]

\* release_refresh_lock: deletes the key only while r is its owner.
Release(r) ==
  [t \in Token |-> IF t = requests[r].token /\ mutex[t] = r THEN None ELSE mutex[t]]

Finish(r) == requests' = [requests EXCEPT ![r] = Idle]

-----------------------------------------------------------------------------
(* Login.                                                                  *)

\* The account is read without a lock and the password is checked against it,
\* off the event loop.
LoginVerify(r, u) ==
  /\ requests[r].stage = "idle"
  /\ users[u].active /\ ~users[u].deleted
  /\ requests' = [requests EXCEPT ![r] =
       [Idle EXCEPT !.stage = "verified", !.op = "login", !.user = u, !.seen = users[u]]]
  /\ UNCHANGED <<users, sessions, tokens, mutex, hashes>>

\* Under the lock of the account row: the second look at the account, the hash
\* rewritten with current parameters, the new session and its first token.
LoginCommit(r, s, t) ==
  LET u == requests[r].user
      seen == requests[r].seen
  IN /\ requests[r].stage = "verified"
     /\ UserFree(r, u)
     /\ LockedRow(r, u).active /\ ~LockedRow(r, u).deleted
     /\ sessions[s].phase = "unused"
     /\ ~Issued(t)
     /\ users' = IF seen.legacy
                 THEN [users EXCEPT ![u].password = seen.password, ![u].legacy = FALSE]
                 ELSE users
     /\ sessions' = [sessions EXCEPT ![s] =
          [user |-> u, phase |-> "open", csrf |-> t]]
     /\ tokens' = [tokens EXCEPT ![t] = NewToken(s, seen.version)]
     /\ Finish(r)
     /\ UNCHANGED <<mutex, hashes>>

-----------------------------------------------------------------------------
(* Refresh.                                                                *)

\* SET NX on the refresh lock of the presented token; a second request is
\* turned away with 429 and changes nothing.
RefreshAcquire(r, t) ==
  /\ requests[r].stage = "idle"
  /\ Issued(t)
  /\ mutex[t] = None
  /\ mutex' = [mutex EXCEPT ![t] = r]
  /\ requests' = [requests EXCEPT ![r] =
       [Idle EXCEPT !.stage = "queued", !.token = t, !.session = tokens[t].family]]
  /\ UNCHANGED <<users, sessions, tokens, hashes>>

\* Mutant: revoked_at of the session is not looked at.
TokenVerdict(t, op) ==
  \/ op = "reuse" /\ tokens[t].next # None
  \/ /\ op \in {"expire", "rotate"}
     /\ Live(t)
     /\ op = IF tokens[t].expired THEN "expire" ELSE "rotate"

\* What refresh makes of the presented token t when the CSRF token is the
\* current one.  A request refused without a write ends as an Abort.
Verdict(t, op) ==
  \/ op = "reuse" /\ tokens[t].next # None
  \/ /\ op \in {"expire", "rotate"}
     /\ Live(t)
     /\ sessions[tokens[t].family].phase = "open"
     /\ op = IF tokens[t].expired THEN "expire" ELSE "rotate"

\* The token row is locked; then its session is read without a lock.
RefreshPresent(r, op) ==
  LET t == requests[r].token IN
  /\ requests[r].stage = "queued"
  /\ TokenFree(r, t)
  /\ Verdict(t, op)
  /\ requests' = [requests EXCEPT ![r].stage = "presented", ![r].op = op]
  /\ UNCHANGED <<users, sessions, tokens, mutex, hashes>>

\* The account of the session is read, by a statement of its own.
RefreshLoadUser(r) ==
  LET u == sessions[requests[r].session].user IN
  /\ requests[r].stage = "presented"
  /\ requests[r].op = "rotate" => users[u].active /\ ~users[u].deleted
  /\ requests' = [requests EXCEPT ![r].stage = "loaded",
                                  ![r].seen.version = users[u].version]
  /\ UNCHANGED <<users, sessions, tokens, mutex, hashes>>

\* Mutant: every column of the session is written back as it was read.
RotatedWhole(s, t) == [sessions EXCEPT ![s].csrf = t, ![s].phase = "open"]

\* The columns a rotation writes: revoked_at is not one of them.
Rotated(s, t) == [sessions EXCEPT ![s].csrf = t]

\* Rotation: the replacement is inserted, the presented token is consumed.  The
\* refresh lock is released after the commit, unless the process dies first.
RefreshRotate(r, t2) ==
  LET s == requests[r].session
      t == requests[r].token
  IN /\ requests[r].stage = "loaded"
     /\ requests[r].op = "rotate"
     /\ SessionFree(r, s)
     /\ ~Issued(t2)
     /\ tokens' = [tokens EXCEPT ![t].next = t2,
                                 ![t2] = NewToken(s, requests[r].seen.version)]
     /\ sessions' = Rotated(s, t2)
     /\ mutex' \in {Release(r), mutex}
     /\ Finish(r)
     /\ UNCHANGED <<users, hashes>>

\* A consumed or an expired token ends the session and the error is raised
\* after the commit.
RefreshRevoke(r) ==
  LET s == requests[r].session IN
  /\ requests[r].stage = "loaded"
  /\ requests[r].op \in {"reuse", "expire"}
  /\ SessionFree(r, s)
  /\ sessions' = EndSessions({s})
  /\ mutex' \in {Release(r), mutex}
  /\ Finish(r)
  /\ UNCHANGED <<users, tokens, hashes>>

\* The refresh lock has a time to live of ten seconds, whatever its owner does.
MutexExpires(t) ==
  /\ mutex[t] # None
  /\ mutex' = [mutex EXCEPT ![t] = None]
  /\ UNCHANGED <<users, sessions, tokens, requests, hashes>>

-----------------------------------------------------------------------------
(* Logout.                                                                 *)

\* The token row is locked, then the session is read without a lock.  Any
\* token of the session will do, with the session's current CSRF token.
LogoutPresent(r, t) ==
  /\ requests[r].stage = "idle"
  /\ Issued(t)
  /\ TokenFree(r, t)
  /\ requests' = [requests EXCEPT ![r] =
       [Idle EXCEPT !.stage = "leaving", !.op = "logout", !.token = t,
                    !.session = tokens[t].family]]
  /\ UNCHANGED <<users, sessions, tokens, mutex, hashes>>

\* The unrevoked tokens of a session, as one UPDATE statement finds them.
RevocableTokens(s) == {t \in Token : tokens[t].family = s /\ ~tokens[t].revoked}

RevokeTokens(T) ==
  [t \in Token |-> IF t \in T THEN [tokens[t] EXCEPT !.revoked = TRUE] ELSE tokens[t]]

LogoutCommit(r) ==
  LET s == requests[r].session IN
  /\ requests[r].stage = "leaving"
  /\ SessionFree(r, s)
  /\ \A t \in RevocableTokens(s) : TokenFree(r, t)
  /\ sessions' = EndSessions({s})
  /\ tokens' = RevokeTokens(RevocableTokens(s))
  /\ Finish(r)
  /\ UNCHANGED <<users, mutex, hashes>>

-----------------------------------------------------------------------------
(* Operations of a signed-in account on itself.                            *)

\* The dependencies of an endpoint accept the access token issued with t; the
\* session and its account are loaded and stay in the request's ORM session.
Authenticate(r, t, op) ==
  LET s == tokens[t].family
      u == sessions[s].user
  IN /\ requests[r].stage = "idle"
     /\ Issued(t)
     /\ sessions[s].phase = "open" /\ ~Lapsed(s)
     /\ tokens[t].access = users[u].version
     /\ users[u].active /\ ~users[u].deleted
     /\ op \in {"password", "delete"} => users[u].version < MaxVersion /\ hashes[u] < MaxHash
     /\ requests' = [requests EXCEPT ![r] =
          [Idle EXCEPT !.stage = "authenticated", !.op = op, !.user = u,
                       !.session = s, !.seen = users[u]]]
     /\ UNCHANGED <<users, sessions, tokens, mutex, hashes>>

\* The row of the account is locked, after the password was checked against
\* the row read by Authenticate.
LockUser(r) ==
  LET u == requests[r].user
      row == LockedRow(r, u)
  IN /\ requests[r].stage = "authenticated"
     /\ requests[r].op \in {"password", "delete"}
     /\ UserFree(r, u)
     /\ requests[r].op = "delete" => ~row.deleted
     /\ requests' = [requests EXCEPT ![r].stage = "userLocked", ![r].seen = row]
     /\ UNCHANGED <<users, sessions, tokens, mutex, hashes>>

\* A password change locks its session too.  It then looks at revoked_at of
\* the object Authenticate loaded, which was not revoked.
LockSession(r) ==
  /\ requests[r].stage = "userLocked"
  /\ requests[r].op = "password"
  /\ SessionFree(r, requests[r].session)
  /\ requests' = [requests EXCEPT ![r].stage = "sessionLocked"]
  /\ UNCHANGED <<users, sessions, tokens, mutex, hashes>>

\* The open sessions of the account except the one r keeps.
Others(r) ==
  OpenSessions(requests[r].user)
    \ (IF requests[r].op \in {"password", "revokeOthers"} THEN {requests[r].session} ELSE {})

\* Mutant: the tokens of the kept session are left alone.
NoTokens(r) == {}

\* A password change revokes the tokens of the session it keeps.
OwnTokens(r) ==
  IF requests[r].op = "password" THEN RevocableTokens(requests[r].session) ELSE {}

\* The bulk UPDATEs: they lock the rows they find and revoke them at commit.
BulkRevoke(r) ==
  /\ requests[r].stage = IF requests[r].op = "password" THEN "sessionLocked" ELSE "userLocked"
  /\ \A s \in Others(r) : SessionFree(r, s)
  /\ \A t \in OwnTokens(r) : TokenFree(r, t)
  /\ requests' = [requests EXCEPT ![r].stage = "revoking",
                                  ![r].doomed = Others(r), ![r].lost = OwnTokens(r)]
  /\ UNCHANGED <<users, sessions, tokens, mutex, hashes>>

\* The new password, one version up from the version r has seen, and new
\* tokens for the session it keeps.
CommitPassword(r, t) ==
  LET u == requests[r].user
      s == requests[r].session
      version == requests[r].seen.version + 1
      password == hashes[u] + 1
  IN /\ requests[r].stage = "revoking"
     /\ requests[r].op = "password"
     /\ ~Issued(t)
     /\ users' = [users EXCEPT ![u].version = version, ![u].password = password,
                               ![u].legacy = FALSE]
     /\ hashes' = [hashes EXCEPT ![u] = password]
     /\ sessions' = [EndSessions(requests[r].doomed) EXCEPT ![s].csrf = t]
     /\ tokens' = [RevokeTokens(requests[r].lost) EXCEPT ![t] = NewToken(s, version)]
     /\ Finish(r)
     /\ UNCHANGED mutex

\* Deleting one's account: an unknown password, disabled, deleted, signed out.
CommitDelete(r) ==
  LET u == requests[r].user IN
  /\ requests[r].stage = "revoking"
  /\ requests[r].op = "delete"
  /\ users' = [users EXCEPT ![u] = [active |-> FALSE, deleted |-> TRUE, legacy |-> FALSE,
                                    version |-> requests[r].seen.version + 1,
                                    password |-> hashes[u] + 1]]
  /\ hashes' = [hashes EXCEPT ![u] = @ + 1]
  /\ sessions' = EndSessions(requests[r].doomed)
  /\ Finish(r)
  /\ UNCHANGED <<tokens, mutex>>

\* One session of the account ends, by a single UPDATE.
RevokeOne(r, s) ==
  /\ requests[r].stage = "authenticated"
  /\ requests[r].op = "revoke"
  /\ sessions[s].user = requests[r].user
  /\ SessionFree(r, s)
  /\ sessions' = EndSessions({s})
  /\ Finish(r)
  /\ UNCHANGED <<users, tokens, mutex, hashes>>

\* A bulk UPDATE of the sessions without the lock of the account: the rows are
\* those of the snapshot it starts with, though it may wait for their locks.
SweepFind(r) ==
  /\ requests[r].stage = "authenticated"
  /\ requests[r].op = "revokeOthers"
  /\ requests' = [requests EXCEPT ![r].stage = "sweeping", ![r].doomed = Others(r)]
  /\ UNCHANGED <<users, sessions, tokens, mutex, hashes>>

SweepCommit(r) ==
  /\ requests[r].stage = "sweeping"
  /\ \A s \in requests[r].doomed : SessionFree(r, s)
  /\ sessions' = EndSessions(requests[r].doomed)
  /\ Finish(r)
  /\ UNCHANGED <<users, tokens, mutex, hashes>>

-----------------------------------------------------------------------------
(* Operations of a manager on an account.                                  *)

\* Which rows an operation applies to.
Manageable(row, op) ==
  CASE op = "enable"  -> ~row.deleted /\ ~row.active
    [] op = "disable" -> ~row.deleted /\ row.active
    [] op = "restore" -> row.deleted
    [] OTHER          -> ~row.deleted

\* The account after the operation; password is the one a reset sets.
Managed(row, op, version, password) ==
  [active   |-> op = "enable" \/ (row.active /\ op \notin {"disable", "remove", "restore"}),
   deleted  |-> op = "remove" \/ (row.deleted /\ op # "restore"),
   version  |-> IF op = "endAll" THEN row.version ELSE version + 1,
   password |-> IF op = "reset" THEN password ELSE row.password,
   legacy   |-> row.legacy /\ op # "reset"]

\* The manager's request loads the account for the first time, under its lock.
ManagerLock(r, u, op) ==
  /\ requests[r].stage = "idle"
  /\ op \in ManagedOps \ {"endOne", "sweep"}
  /\ UserFree(r, u)
  /\ Manageable(users[u], op)
  /\ users[u].version < MaxVersion
  /\ op = "reset" => hashes[u] < MaxHash
  /\ requests' = [requests EXCEPT ![r] =
       [Idle EXCEPT !.stage = "userLocked", !.op = op, !.user = u, !.seen = users[u]]]
  /\ UNCHANGED <<users, sessions, tokens, mutex, hashes>>

CommitManaged(r) ==
  LET u == requests[r].user
      op == requests[r].op
  IN /\ requests[r].stage = "revoking"
     /\ op \in ManagedOps
     /\ users' = [users EXCEPT ![u] =
          Managed(users[u], op, requests[r].seen.version, hashes[u] + 1)]
     /\ hashes' = IF op = "reset" THEN [hashes EXCEPT ![u] = @ + 1] ELSE hashes
     /\ sessions' = EndSessions(requests[r].doomed)
     /\ Finish(r)
     /\ UNCHANGED <<tokens, mutex>>

\* revoke_user_session: a single UPDATE, whoever else is at work.
ManagerRevokeOne(r, s) ==
  /\ requests[r].stage = "idle"
  /\ "endOne" \in ManagedOps
  /\ sessions[s].phase = "open"
  /\ SessionFree(r, s)
  /\ sessions' = EndSessions({s})
  /\ UNCHANGED <<users, tokens, requests, mutex, hashes>>

\* revoke_all_user_sessions: the account is read without a lock.
ManagerSweep(r, u) ==
  /\ requests[r].stage = "idle"
  /\ "sweep" \in ManagedOps
  /\ requests' = [requests EXCEPT ![r] =
       [Idle EXCEPT !.stage = "sweeping", !.op = "sweep", !.user = u,
                    !.doomed = OpenSessions(u)]]
  /\ UNCHANGED <<users, sessions, tokens, mutex, hashes>>

-----------------------------------------------------------------------------

\* The newest token of an open session reaches its expires_at, and the session
\* its idle_expires_at or absolute_expires_at.
TokenExpires(t) ==
  /\ Issued(t)
  /\ ~tokens[t].expired
  /\ sessions[tokens[t].family].phase = "open"
  /\ sessions[tokens[t].family].csrf = t
  /\ tokens' = [tokens EXCEPT ![t].expired = TRUE]
  /\ UNCHANGED <<users, sessions, requests, mutex, hashes>>

\* A request ends without a write: a check fails, a statement fails, the
\* database breaks a deadlock, the client goes away or the process dies.  The
\* refresh lock is released unless the process died.
Abort(r) ==
  /\ requests[r].stage # "idle"
  /\ mutex' \in {Release(r), mutex}
  /\ Finish(r)
  /\ UNCHANGED <<users, sessions, tokens, hashes>>

LoginStep(r) ==
  \/ \E u \in User : LoginVerify(r, u)
  \/ \E s \in Session, t \in Token : LoginCommit(r, s, t)

RefreshStep(r) ==
  \/ \E t \in Token : RefreshAcquire(r, t)
  \/ \E op \in {"rotate", "reuse", "expire"} : RefreshPresent(r, op)
  \/ RefreshLoadUser(r)
  \/ \E t \in Token : RefreshRotate(r, t)
  \/ RefreshRevoke(r)

LogoutStep(r) ==
  \/ \E t \in Token : LogoutPresent(r, t)
  \/ LogoutCommit(r)

OwnStep(r) ==
  \/ \E t \in Token, op \in OwnOps : Authenticate(r, t, op)
  \/ LockUser(r)
  \/ LockSession(r)
  \/ BulkRevoke(r)
  \/ \E t \in Token : CommitPassword(r, t)
  \/ CommitDelete(r)
  \/ \E s \in Session : RevokeOne(r, s)
  \/ SweepFind(r)
  \/ SweepCommit(r)

ManagerStep(r) ==
  \/ \E u \in User, op \in ManagedOps : ManagerLock(r, u, op)
  \/ CommitManaged(r)
  \/ \E s \in Session : ManagerRevokeOne(r, s)
  \/ \E u \in User : ManagerSweep(r, u)

RequestStep(r) ==
  \/ LoginStep(r)
  \/ RefreshStep(r)
  \/ LogoutStep(r)
  \/ OwnStep(r)
  \/ ManagerStep(r)
  \/ Abort(r)

Next ==
  \/ \E r \in Request : RequestStep(r)
  \/ \E t \in Token : MutexExpires(t) \/ TokenExpires(t)

Spec == Init /\ [][Next]_vars

-----------------------------------------------------------------------------
(* Why the protocol works: what every reachable state has in common.       *)

FamilyOK ==
  /\ \A t \in Token : Issued(t) => sessions[tokens[t].family].phase # "unused"
  /\ \A s \in Session : sessions[s].phase # "unused" => sessions[s].user \in User

\* A request that holds a token knows its session, a rotation under way has a
\* token that is still good, and what a bulk UPDATE found still covers what it
\* has to revoke.
RequestOK(r) ==
  LET q == requests[r] IN
  /\ q.stage \in {"queued", "presented", "loaded", "leaving"} =>
       q.token \in Token /\ Issued(q.token) /\ q.session = tokens[q.token].family
  /\ q.stage \in {"verified", "authenticated", "userLocked", "sessionLocked",
                  "revoking", "sweeping"} => q.user \in User
  /\ q.stage = "authenticated" \/ q.op = "password" =>
       q.session \in Session \ q.doomed /\ sessions[q.session].phase # "unused"
  /\ q.stage \in {"presented", "loaded"} /\ q.op = "rotate" => Live(q.token)
  /\ q.stage = "revoking" => Others(r) \subseteq q.doomed /\ OwnTokens(r) \subseteq q.lost
  /\ q.stage = "revoking" => \A t \in q.lost : Issued(t) /\ tokens[t].family = q.session

LocksExclusive ==
  \A r1, r2 \in Request :
    /\ \A u \in User : HoldsUser(r1, u) /\ HoldsUser(r2, u) => r1 = r2
    /\ \A s \in Session : HoldsSession(r1, s) /\ HoldsSession(r2, s) => r1 = r2
    /\ \A t \in Token : HoldsToken(r1, t) /\ HoldsToken(r2, t) => r1 = r2

\* The only token of a session that a refresh would accept is the one whose
\* response also set the session's CSRF token, however rotations, a password
\* change and logouts interleave: a client that has the live token can use it,
\* and no two refreshes can both succeed with different tokens.
LiveTokenIsCurrent ==
  \A t \in Token : Live(t) => sessions[tokens[t].family].csrf = t

\* The inductive invariant behind the theorems.
IndInv ==
  /\ TypeOK
  /\ FamilyOK
  /\ \A r \in Request : RequestOK(r)
  /\ LocksExclusive
  /\ LiveTokenIsCurrent

\* Sessions seen from outside, see RefreshFamily.
F == INSTANCE RefreshFamily WITH
       phase  <- [s \in Session |-> sessions[s].phase],
       usable <- [s \in Session |-> IF sessions[s].phase = "open"
                                    THEN {t \in Token : tokens[t].family = s /\ Live(t)}
                                    ELSE {}],
       issued <- {t \in Token : Issued(t)}

\* The whole protocol implements RefreshFamily: one usable token per session,
\* each replaced by a new one, none after the session ended.
ImplementsRefreshFamily == F!Spec

\* When a transaction changes the credential version or the state of an
\* account, no session of that account is open afterwards, but for the one
\* that received new tokens in the same transaction: a login cannot slip in
\* between the bulk UPDATE and the commit.
CredentialChangeEndsSessions ==
  [][\A u \in User :
       (\/ users'[u].version # users[u].version
        \/ users'[u].active # users[u].active
        \/ users'[u].deleted # users[u].deleted)
       => \A s \in OpenSessions(u)' : ~Issued(sessions'[s].csrf)]_vars

\* A revoked session for which no rotation and no password change is under way.
Drained(s) ==
  /\ sessions[s].phase = "revoked"
  /\ \A r \in Request : requests[r].session = s => requests[r].op \notin {"rotate", "password"}

\* The end of a session is final: it is never open again, no token is issued
\* to it, and no request starts to make one.
RevokedSessionStaysEnded ==
  [][\A s \in Session :
       /\ sessions[s].phase = "revoked" => sessions'[s].phase = "revoked"
       /\ Drained(s) => /\ Drained(s)'
                        /\ {t \in Token : tokens'[t].family = s}
                             = {t \in Token : tokens[t].family = s}]_vars

\* A refresh lock is given up by its owner or by its time to live, never by
\* the late release of a request that owned it before.
MutexKeptByOwner ==
  [][\A t \in Token, q \in Request :
       mutex[t] = q /\ mutex'[t] # q
       => requests'[q] = Idle \/ UNCHANGED <<users, sessions, tokens, requests>>]_vars

\* An account that is disabled or deleted has no open session.
ClosedAccountHasNoSession ==
  \A u \in User : OpenSessions(u) # {} => users[u].active /\ ~users[u].deleted

\* The credential version counts the password changes: it never falls, and
\* it rises whenever a new password is set.
NewPasswordRaisesVersion ==
  [][\A u \in User :
       /\ users'[u].version >= users[u].version
       /\ hashes'[u] > hashes[u] => users'[u].version > users[u].version]_vars
=============================================================================
