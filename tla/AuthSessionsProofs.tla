------------------------- MODULE AuthSessionsProofs -------------------------
(***************************************************************************)
(* Proofs about the sessions, for any number of accounts, sessions, tokens *)
(* and requests: their invariants, that they implement RefreshFamily and   *)
(* have what it promises, and their action properties.                     *)
(***************************************************************************)
EXTENDS AuthSessions, TLAPS

-----------------------------------------------------------------------------
(* Types.                                                                  *)

LEMMA UserRowType ==
  ASSUME NEW a \in BOOLEAN, NEW d \in BOOLEAN, NEW v \in Nat, NEW p \in Nat, NEW l \in BOOLEAN
  PROVE  [active |-> a, deleted |-> d, version |-> v, password |-> p, legacy |-> l] \in UserRow
  BY Zenon DEF UserRow

LEMMA ManagedType ==
  ASSUME NEW row \in UserRow, NEW op, NEW v \in Nat, NEW p \in Nat
  PROVE  Managed(row, op, v, p) \in UserRow
<1>. DEFINE a == op = "enable" \/ (row.active /\ op \notin {"disable", "remove", "restore"})
            d == op = "remove" \/ (row.deleted /\ op # "restore")
            w == IF op = "endAll" THEN row.version ELSE v + 1
            q == IF op = "reset" THEN p ELSE row.password
            l == row.legacy /\ op # "reset"
<1>1. a \in BOOLEAN /\ d \in BOOLEAN /\ l \in BOOLEAN OBVIOUS
<1>2. v + 1 \in Nat OBVIOUS
<1>3. w \in Nat BY <1>2, Zenon DEF UserRow
<1>4. q \in Nat BY Zenon DEF UserRow
<1>5. Managed(row, op, v, p)
        = [active |-> a, deleted |-> d, version |-> w, password |-> q, legacy |-> l]
  BY Zenon DEF Managed
<1>. HIDE DEF a, d, w, q, l
<1>. QED BY <1>1, <1>3, <1>4, <1>5, UserRowType

LEMMA RowTypes ==
  /\ NoUserRow \in UserRow
  /\ NoSessionRow \in SessionRow
  /\ NoTokenRow \in TokenRow
  /\ Idle \in RequestState
<1>1. NoUserRow \in UserRow BY DEF NoUserRow, UserRow
<1>2. NoSessionRow \in SessionRow BY DEF NoSessionRow, SessionRow
<1>3. NoTokenRow \in TokenRow BY DEF NoTokenRow, TokenRow
<1>4. Idle \in RequestState
  BY <1>1 DEF Idle, RequestState, Stages, Ops
<1>. QED BY <1>1, <1>2, <1>3, <1>4

LEMMA HelperTypes ==
  ASSUME TypeOK
  PROVE  /\ \A S \in SUBSET Session : EndSessions(S) \in [Session -> SessionRow]
         /\ \A T \in SUBSET Token : RevokeTokens(T) \in [Token -> TokenRow]
         /\ \A s \in Session, v \in Nat : NewToken(s, v) \in TokenRow
         /\ \A r \in Request : /\ Release(r) \in [Token -> Request \cup {None}]
                               /\ Others(r) \in SUBSET Session
                               /\ OwnTokens(r) \in SUBSET Token
<1>1. ASSUME NEW S \in SUBSET Session PROVE EndSessions(S) \in [Session -> SessionRow]
  BY DEF EndSessions, TypeOK, SessionRow
<1>2. ASSUME NEW T \in SUBSET Token PROVE RevokeTokens(T) \in [Token -> TokenRow]
  BY DEF RevokeTokens, TypeOK, TokenRow
<1>3. ASSUME NEW s \in Session, NEW v \in Nat PROVE NewToken(s, v) \in TokenRow
  BY DEF NewToken, TokenRow, NoTokenRow
<1>4. ASSUME NEW r \in Request
      PROVE  /\ Release(r) \in [Token -> Request \cup {None}]
             /\ Others(r) \in SUBSET Session
             /\ OwnTokens(r) \in SUBSET Token
  BY DEF Release, TypeOK, Others, OpenSessions, OwnTokens, RevocableTokens
<1>. QED BY <1>1, <1>2, <1>3, <1>4

LEMMA TypeInit == Init => TypeOK
<1>. SUFFICES ASSUME Init PROVE TypeOK OBVIOUS
<1>0. ASSUME NEW row \in [active: BOOLEAN, deleted: {FALSE}, version: {1},
                          password: {1}, legacy: BOOLEAN]
      PROVE  row \in UserRow
  <2>1. 1 \in Nat OBVIOUS
  <2>. QED BY ONLY <2>1, row \in [active: BOOLEAN, deleted: {FALSE}, version: {1},
                                  password: {1}, legacy: BOOLEAN], Zenon DEF UserRow
<1>1. users \in [User -> UserRow] BY <1>0 DEF Init
<1>. QED BY <1>1, RowTypes DEF Init, TypeOK

\* A step of a request leaves the types of the rows and of the requests alone.
LEMMA TypeStep ==
  ASSUME TypeOK, FamilyOK, NEW r \in Request, RequestOK(r), RequestStep(r)
  PROVE  TypeOK'
<1>. USE NoneAssumption, ProfileAssumption, RowTypes, HelperTypes
<1>0. /\ requests[r] \in RequestState
      /\ requests[r].seen \in UserRow
      /\ requests[r].seen.version \in Nat /\ requests[r].seen.password \in Nat
      /\ requests[r].doomed \in SUBSET Session /\ requests[r].lost \in SUBSET Token
  BY DEF TypeOK, RequestState, UserRow
<1>1. ASSUME NEW u \in User, LoginVerify(r, u) PROVE TypeOK'
  BY <1>1 DEF LoginVerify, TypeOK, RequestState, Idle, Stages, Ops, UserRow
<1>2. ASSUME NEW s \in Session, NEW t \in Token, LoginCommit(r, s, t)
      PROVE TypeOK'
  <2>. USE <1>0, <1>2 DEF LoginCommit
  <2>0. requests[r].user \in User BY DEF RequestOK
  <2>1. users' \in [User -> UserRow]
    <3>1. CASE ~requests[r].seen.legacy BY <3>1 DEF TypeOK
    <3>2. CASE requests[r].seen.legacy
      <4>1. ASSUME NEW row \in UserRow
            PROVE [row EXCEPT !.password = requests[r].seen.password, !.legacy = FALSE] \in UserRow
        BY DEF UserRow
      <4>. QED BY <3>2, <4>1 DEF TypeOK
    <3>. QED BY <3>1, <3>2
  <2>2. sessions' \in [Session -> SessionRow] BY <2>0 DEF TypeOK, SessionRow
  <2>4. tokens' \in [Token -> TokenRow] BY DEF TypeOK
  <2>5. requests' \in [Request -> RequestState] BY DEF TypeOK, Finish
  <2>. QED BY <2>1, <2>2, <2>4, <2>5 DEF TypeOK
<1>3. ASSUME NEW t \in Token, RefreshAcquire(r, t) PROVE TypeOK'
  <2>0. tokens[t].family \in Session \cup {None}
    BY DEF TypeOK, TokenRow
  <2>1. [Idle EXCEPT !.stage = "queued", !.token = t, !.session = tokens[t].family] \in RequestState
     BY <2>0 DEF RequestState, Stages
  <2>. QED BY <1>3, <2>1 DEF TypeOK, RefreshAcquire
<1>4. ASSUME NEW op \in {"rotate", "reuse", "expire"}, RefreshPresent(r, op)
      PROVE TypeOK'
  <2>1. [requests[r] EXCEPT !.stage = "presented", !.op = op] \in RequestState
     BY DEF RequestState, Stages, Ops, TypeOK
  <2>. QED BY <1>4, <2>1 DEF TypeOK, RefreshPresent
<1>5. ASSUME RefreshLoadUser(r) PROVE TypeOK'
  <2>1. sessions[requests[r].session].user \in User
    BY <1>5 DEF RefreshLoadUser, RequestOK, FamilyOK, Issued, TypeOK, TokenRow
  <2>2. users[sessions[requests[r].session].user].version \in Nat
    BY <2>1 DEF TypeOK, UserRow
  <2>3. [requests[r] EXCEPT !.stage = "loaded",
            !.seen.version = users[sessions[requests[r].session].user].version] \in RequestState
    BY <1>0, <2>2 DEF RequestState, Stages, UserRow
  <2>. QED BY <1>5, <2>3 DEF TypeOK, RefreshLoadUser
<1>6. ASSUME NEW t2 \in Token, RefreshRotate(r, t2) PROVE TypeOK'
  <2>0. requests[r].session \in Session /\ requests[r].token \in Token
    BY <1>6 DEF RefreshRotate, RequestOK, Issued, TypeOK, TokenRow
  <2>. USE <1>0, <1>6 DEF RefreshRotate
  <2>1. sessions' \in [Session -> SessionRow] 
    <3>1. ASSUME NEW row \in SessionRow PROVE [row EXCEPT !.csrf = t2] \in SessionRow
      BY DEF SessionRow
    <3>. QED BY <3>1 DEF TypeOK, Rotated
  <2>2. tokens' \in [Token -> TokenRow]
    <3>1. [tokens EXCEPT ![requests[r].token].next = t2] \in [Token -> TokenRow]
      <4>1. ASSUME NEW row \in TokenRow PROVE [row EXCEPT !.next = t2] \in TokenRow
        BY DEF TokenRow
      <4>. QED BY <4>1 DEF TypeOK
    <3>. QED BY <2>0, <3>1
  <2>3. requests' \in [Request -> RequestState] BY DEF TypeOK, Finish
  <2>. QED BY <2>1, <2>2, <2>3 DEF TypeOK
<1>7. ASSUME RefreshRevoke(r) PROVE TypeOK'
  <2>0. requests[r].session \in Session
    BY <1>7 DEF RefreshRevoke, RequestOK, Issued, TypeOK, TokenRow
  <2>. QED BY <1>7, <2>0 DEF RefreshRevoke, TypeOK, Finish
<1>8. ASSUME NEW t \in Token, LogoutPresent(r, t) PROVE TypeOK'
  <2>0. tokens[t].family \in Session \cup {None}
    BY DEF TypeOK, TokenRow
  <2>1. [Idle EXCEPT !.stage = "leaving", !.op = "logout", !.token = t,
                     !.session = tokens[t].family] \in RequestState
     BY <2>0 DEF RequestState, Stages, Ops
  <2>. QED BY <1>8, <2>1 DEF TypeOK, LogoutPresent
<1>9. ASSUME LogoutCommit(r) PROVE TypeOK'
  <2>0. requests[r].session \in Session
    BY <1>9 DEF LogoutCommit, RequestOK, Issued, TypeOK, TokenRow
  <2>. QED BY <1>9, <2>0 DEF LogoutCommit, TypeOK, Finish, RevocableTokens
<1>10. ASSUME NEW t \in Token, NEW op \in OwnOps, Authenticate(r, t, op) PROVE TypeOK'
  <2>. DEFINE s == tokens[t].family
              u == sessions[s].user
  <2>0. s \in Session /\ u \in User
    BY <1>10 DEF Authenticate, TypeOK, TokenRow, Issued, FamilyOK
  <2>1. users[u] \in UserRow BY <2>0 DEF TypeOK
  <2>2. [Idle EXCEPT !.stage = "authenticated", !.op = op, !.user = u,
                     !.session = s, !.seen = users[u]] \in RequestState
    BY <2>0, <2>1 DEF RequestState, Stages, Ops
  <2>. QED BY <1>10, <2>2 DEF Authenticate, TypeOK
<1>11. ASSUME LockUser(r) PROVE TypeOK'
  <2>1. requests[r].user \in User BY <1>11 DEF LockUser, RequestOK
  <2>2. LockedRow(r, requests[r].user) \in UserRow BY <1>0, <2>1 DEF LockedRow, TypeOK
  <2>3. [requests[r] EXCEPT !.stage = "userLocked", !.seen = LockedRow(r, requests[r].user)]
           \in RequestState
    BY <1>0, <2>2 DEF RequestState, Stages
  <2>. QED BY <1>11, <2>3 DEF LockUser, TypeOK
<1>12. ASSUME LockSession(r) PROVE TypeOK'
  <2>1. [requests[r] EXCEPT !.stage = "sessionLocked"] \in RequestState
    BY <1>0 DEF RequestState, Stages
  <2>. QED BY <1>12, <2>1 DEF LockSession, TypeOK
<1>13. ASSUME BulkRevoke(r) PROVE TypeOK'
  <2>1. [requests[r] EXCEPT !.stage = "revoking", !.doomed = Others(r), !.lost = OwnTokens(r)]
           \in RequestState
    BY <1>0 DEF RequestState, Stages
  <2>. QED BY <1>13, <2>1 DEF BulkRevoke, TypeOK
<1>14. ASSUME NEW t \in Token, CommitPassword(r, t) PROVE TypeOK'
  <2>. USE <1>0, <1>14 DEF CommitPassword
  <2>0. requests[r].user \in User /\ requests[r].session \in Session
    BY DEF RequestOK
  <2>1. hashes[requests[r].user] \in Nat BY <2>0 DEF TypeOK
  <2>2. users' \in [User -> UserRow]
    <3>1. ASSUME NEW row \in UserRow
          PROVE  [row EXCEPT !.version = requests[r].seen.version + 1,
                             !.password = hashes[requests[r].user] + 1,
                             !.legacy = FALSE] \in UserRow
      <4>. DEFINE v == requests[r].seen.version + 1
                  p == hashes[requests[r].user] + 1
      <4>1. v \in Nat /\ p \in Nat BY <1>0, <2>1
      <4>. QED BY <4>1, Zenon DEF UserRow
    <3>. QED BY <2>0, <3>1 DEF TypeOK
  <2>3. sessions' \in [Session -> SessionRow]
    <3>1. EndSessions(requests[r].doomed) \in [Session -> SessionRow] OBVIOUS
    <3>. QED BY <2>0, <2>1, <3>1 DEF SessionRow
  <2>4. tokens' \in [Token -> TokenRow] BY <2>0
  <2>. QED BY <2>1, <2>2, <2>3, <2>4 DEF TypeOK, Finish
<1>15. ASSUME CommitDelete(r) PROVE TypeOK'
  <2>. USE <1>0, <1>15 DEF CommitDelete
  <2>0. requests[r].user \in User BY DEF RequestOK
  <2>1. hashes[requests[r].user] \in Nat BY <2>0 DEF TypeOK
  <2>2. users' \in [User -> UserRow] BY <2>0, <2>1 DEF TypeOK, UserRow
  <2>. QED BY <2>1, <2>2 DEF TypeOK, Finish
<1>16. ASSUME NEW s \in Session, RevokeOne(r, s) PROVE TypeOK'
  BY <1>16 DEF RevokeOne, TypeOK, Finish
<1>17. ASSUME SweepFind(r) PROVE TypeOK'
  <2>1. [requests[r] EXCEPT !.stage = "sweeping", !.doomed = Others(r)] \in RequestState
    BY <1>0 DEF RequestState, Stages
  <2>. QED BY <1>17, <2>1 DEF SweepFind, TypeOK
<1>18. ASSUME SweepCommit(r) PROVE TypeOK'
  BY <1>0, <1>18 DEF SweepCommit, TypeOK, Finish
<1>19. ASSUME NEW u \in User, NEW op \in ManagedOps, ManagerLock(r, u, op) PROVE TypeOK'
  <2>1. [Idle EXCEPT !.stage = "userLocked", !.op = op, !.user = u, !.seen = users[u]]
           \in RequestState
    BY DEF RequestState, Stages, Ops, TypeOK
  <2>. QED BY <1>19, <2>1 DEF ManagerLock, TypeOK
<1>20. ASSUME CommitManaged(r) PROVE TypeOK'
  <2>. USE <1>0, <1>20 DEF CommitManaged
  <2>0. requests[r].user \in User BY DEF RequestOK
  <2>1. hashes[requests[r].user] \in Nat /\ users[requests[r].user] \in UserRow
    BY <2>0 DEF TypeOK
  <2>2. Managed(users[requests[r].user], requests[r].op, requests[r].seen.version,
                hashes[requests[r].user] + 1) \in UserRow
    BY ONLY <1>0, <2>1, ManagedType, hashes[requests[r].user] + 1 \in Nat
  <2>3. users' \in [User -> UserRow] BY <2>0, <2>2 DEF TypeOK
  <2>4. hashes' \in [User -> Nat]
    <3>1. hashes[requests[r].user] + 1 \in Nat BY <2>1
    <3>2. hashes \in [User -> Nat] BY DEF TypeOK
    <3>. QED BY <3>1, <3>2
  <2>. QED BY <2>3, <2>4 DEF TypeOK, Finish
<1>21. ASSUME NEW s \in Session, ManagerRevokeOne(r, s) PROVE TypeOK'
  BY <1>21 DEF ManagerRevokeOne, TypeOK
<1>22. ASSUME NEW u \in User, ManagerSweep(r, u) PROVE TypeOK'
  <2>1. [Idle EXCEPT !.stage = "sweeping", !.op = "sweep", !.user = u,
                     !.doomed = OpenSessions(u)] \in RequestState
    BY <1>22 DEF RequestState, Stages, Ops, ManagerSweep, OpenSessions
  <2>. QED BY <1>22, <2>1 DEF ManagerSweep, TypeOK
<1>23. ASSUME Abort(r) PROVE TypeOK'
  BY <1>23 DEF Abort, TypeOK, Finish
<1>. QED
  BY <1>1, <1>2, <1>3, <1>4, <1>5, <1>6, <1>7, <1>8, <1>9, <1>10, <1>11, <1>12, <1>13,
     <1>14, <1>15, <1>16, <1>17, <1>18, <1>19, <1>20, <1>21, <1>22, <1>23
  DEF RequestStep, LoginStep, RefreshStep, LogoutStep, OwnStep, ManagerStep

-----------------------------------------------------------------------------
(* What one step of a request can do to the rows.                          *)

\* The columns a bulk UPDATE leaves alone and the one it writes.
LEMMA EndedRow ==
  ASSUME TypeOK, NEW S \in SUBSET Session, NEW s \in Session
  PROVE  /\ EndSessions(S)[s].user = sessions[s].user
         /\ EndSessions(S)[s].csrf = sessions[s].csrf
         /\ EndSessions(S)[s].phase =
              IF s \in S /\ sessions[s].phase = "open" THEN "revoked" ELSE sessions[s].phase
  BY DEF EndSessions, TypeOK, SessionRow

LEMMA RevokedRow ==
  ASSUME TypeOK, NEW T \in SUBSET Token, NEW t \in Token
  PROVE  /\ RevokeTokens(T)[t].family = tokens[t].family
         /\ RevokeTokens(T)[t].next = tokens[t].next
         /\ RevokeTokens(T)[t].revoked = (t \in T \/ tokens[t].revoked)
  BY DEF RevokeTokens, TypeOK, TokenRow

\* The four steps that issue or revoke tokens; the others touch the sessions
\* at most through a bulk UPDATE.
LEMMA StepShape ==
  ASSUME TypeOK, FamilyOK, NEW r \in Request, RequestOK(r), RequestStep(r)
  PROVE  /\ \A q \in Request \ {r} : requests'[q] = requests[q]
         /\ \/ sessions' = sessions /\ tokens' = tokens
            \/ \E S \in SUBSET Session : sessions' = EndSessions(S) /\ tokens' = tokens
            \/ \E s \in Session, t \in Token : LoginCommit(r, s, t)
            \/ \E t \in Token : RefreshRotate(r, t)
            \/ LogoutCommit(r)
            \/ \E t \in Token : CommitPassword(r, t)
<1>1. CASE LoginStep(r)
  BY <1>1 DEF LoginStep, LoginVerify, LoginCommit, TypeOK, Finish
<1>2. CASE RefreshStep(r)
  <2>1. CASE RefreshRevoke(r)
    <3>1. requests[r].session \in Session
      BY <2>1 DEF RefreshRevoke, RequestOK, Issued, TypeOK, TokenRow
    <3>. QED BY <2>1, <3>1 DEF RefreshRevoke, TypeOK, Finish
  <2>2. CASE ~RefreshRevoke(r)
    BY <1>2, <2>2 DEF RefreshStep, RefreshAcquire, RefreshPresent, RefreshLoadUser,
       RefreshRotate, TypeOK, Finish
  <2>. QED BY <2>1, <2>2
<1>3. CASE LogoutStep(r)
  BY <1>3 DEF LogoutStep, LogoutPresent, LogoutCommit, TypeOK, Finish
<1>4. CASE OwnStep(r)
  <2>1. requests[r].doomed \in SUBSET Session BY DEF TypeOK, RequestState
  <2>2. CASE \E s \in Session : RevokeOne(r, s)
    BY <2>2 DEF RevokeOne, TypeOK, Finish
  <2>3. CASE SweepCommit(r) \/ CommitDelete(r)
    BY <2>1, <2>3 DEF SweepCommit, CommitDelete, TypeOK, Finish
  <2>4. CASE \E t \in Token : CommitPassword(r, t)
    BY <2>4 DEF CommitPassword, TypeOK, Finish
  <2>5. CASE \E t \in Token, op \in OwnOps : Authenticate(r, t, op)
    BY <2>5 DEF Authenticate, TypeOK
  <2>6. CASE LockUser(r) \/ LockSession(r) \/ BulkRevoke(r) \/ SweepFind(r)
    BY <2>6 DEF LockUser, LockSession, BulkRevoke, SweepFind, TypeOK
  <2>. QED BY <1>4, <2>2, <2>3, <2>4, <2>5, <2>6 DEF OwnStep
<1>5. CASE ManagerStep(r)
  <2>1. requests[r].doomed \in SUBSET Session BY DEF TypeOK, RequestState
  <2>. QED BY <1>5, <2>1 DEF ManagerStep, ManagerLock, CommitManaged, ManagerRevokeOne,
              ManagerSweep, TypeOK, Finish
<1>6. CASE Abort(r)
  BY <1>6 DEF Abort, TypeOK, Finish
<1>. QED BY <1>1, <1>2, <1>3, <1>4, <1>5, <1>6 DEF RequestStep

\* Rows are never taken back: a session that exists keeps its account, and a
\* token its session.
Kept ==
  /\ \A s \in Session : sessions[s].phase # "unused" =>
       sessions'[s].phase # "unused" /\ sessions'[s].user = sessions[s].user
  /\ \A t \in Token : Issued(t) => tokens'[t].family = tokens[t].family

LEMMA FamilyStep ==
  ASSUME TypeOK, FamilyOK, NEW r \in Request, RequestOK(r), RequestStep(r)
  PROVE  Kept /\ FamilyOK'
<1>. USE NoneAssumption
<1>1. CASE sessions' = sessions /\ tokens' = tokens
  BY <1>1 DEF Kept, FamilyOK, Issued
<1>2. ASSUME NEW S \in SUBSET Session, sessions' = EndSessions(S), tokens' = tokens
      PROVE  Kept /\ FamilyOK'
  <2>1. \A s \in Session : /\ sessions'[s].user = sessions[s].user
                           /\ sessions'[s].phase = "unused" <=> sessions[s].phase = "unused"
    BY <1>2, EndedRow
  <2>2. \A t \in Token : Issued(t) => tokens[t].family \in Session
    BY DEF TypeOK, TokenRow, Issued
  <2>. QED BY <1>2, <2>1, <2>2 DEF Kept, FamilyOK, Issued
<1>3. ASSUME NEW s \in Session, NEW t \in Token, LoginCommit(r, s, t)
      PROVE  Kept /\ FamilyOK'
  <2>1. requests[r].user \in User BY <1>3 DEF LoginCommit, RequestOK
  <2>2. /\ sessions'[s].phase = "open" /\ sessions'[s].user = requests[r].user
        /\ \A x \in Session \ {s} : sessions'[x] = sessions[x]
        /\ sessions[s].phase = "unused"
    BY <1>3 DEF LoginCommit, TypeOK
  <2>3. /\ tokens'[t].family = s
        /\ \A x \in Token \ {t} : tokens'[x] = tokens[x]
        /\ ~Issued(t)
    BY <1>3 DEF LoginCommit, TypeOK, NewToken, NoTokenRow
  <2>4. \A x \in Token : Issued(x) => tokens[x].family \in Session
    BY DEF TypeOK, TokenRow, Issued
  <2>. QED BY <2>1, <2>2, <2>3, <2>4 DEF Kept, FamilyOK, Issued
<1>4. ASSUME NEW t2 \in Token, RefreshRotate(r, t2) PROVE Kept /\ FamilyOK'
  <2>1. LET s == requests[r].session IN
        s \in Session /\ sessions[s].phase # "unused" /\ requests[r].token \in Token
    BY <1>4 DEF RefreshRotate, RequestOK, FamilyOK, Issued, TypeOK, TokenRow
  <2>2. \A x \in Session : sessions'[x].phase = sessions[x].phase /\ sessions'[x].user = sessions[x].user
    BY <1>4 DEF RefreshRotate, Rotated, TypeOK, SessionRow
  <2>3. /\ tokens'[t2].family = requests[r].session
        /\ \A x \in Token \ {t2} : tokens'[x].family = tokens[x].family
        /\ ~Issued(t2)
    BY <1>4, <2>1 DEF RefreshRotate, TypeOK, TokenRow, NewToken, NoTokenRow
  <2>4. \A x \in Token : Issued(x) => tokens[x].family \in Session
    BY DEF TypeOK, TokenRow, Issued
  <2>. QED BY <2>1, <2>2, <2>3, <2>4 DEF Kept, FamilyOK, Issued
<1>5. CASE LogoutCommit(r)
  <2>1. requests[r].session \in Session
    BY <1>5 DEF LogoutCommit, RequestOK, Issued, TypeOK, TokenRow
  <2>2. \A s \in Session : /\ sessions'[s].user = sessions[s].user
                           /\ sessions'[s].phase = "unused" <=> sessions[s].phase = "unused"
    BY <1>5, <2>1, EndedRow DEF LogoutCommit
  <2>3. \A t \in Token : tokens'[t].family = tokens[t].family
    BY <1>5, RevokedRow DEF LogoutCommit, RevocableTokens
  <2>4. \A x \in Token : Issued(x) => tokens[x].family \in Session
    BY DEF TypeOK, TokenRow, Issued
  <2>. QED BY <2>2, <2>3, <2>4 DEF Kept, FamilyOK, Issued
<1>6. ASSUME NEW t \in Token, CommitPassword(r, t) PROVE Kept /\ FamilyOK'
  <2>1. LET s == requests[r].session IN s \in Session /\ sessions[s].phase # "unused"
    BY <1>6 DEF CommitPassword, RequestOK
  <2>2. requests[r].doomed \in SUBSET Session /\ requests[r].lost \in SUBSET Token
    BY DEF TypeOK, RequestState
  <2>3. \A s \in Session : /\ sessions'[s].user = EndSessions(requests[r].doomed)[s].user
                           /\ sessions'[s].phase = EndSessions(requests[r].doomed)[s].phase
    BY <1>6, <2>2, HelperTypes DEF CommitPassword, SessionRow
  <2>4. \A s \in Session : /\ sessions'[s].user = sessions[s].user
                           /\ sessions'[s].phase = "unused" <=> sessions[s].phase = "unused"
    BY <2>2, <2>3, EndedRow
  <2>5. /\ tokens'[t].family = requests[r].session
        /\ \A x \in Token \ {t} : tokens'[x] = RevokeTokens(requests[r].lost)[x]
        /\ ~Issued(t)
    BY <1>6, <2>2, HelperTypes DEF CommitPassword, NewToken, NoTokenRow
  <2>6. \A x \in Token \ {t} : tokens'[x].family = tokens[x].family
    BY <2>2, <2>5, RevokedRow
  <2>7. \A x \in Token : Issued(x) => tokens[x].family \in Session
    BY DEF TypeOK, TokenRow, Issued
  <2>. QED BY <2>1, <2>4, <2>5, <2>6, <2>7 DEF Kept, FamilyOK, Issued
<1>. QED BY <1>1, <1>2, <1>3, <1>4, <1>5, <1>6, StepShape

\* What a step takes away from the requests that hold no lock: a session
\* appears only under the lock of its account, a token of an existing session
\* only while nobody holds the session, and a live token is lost only while
\* nobody else holds it.
Guarded(r) ==
  /\ \A s \in Session : sessions'[s].phase = "open" /\ sessions[s].phase # "open" =>
       UserFree(r, sessions'[s].user)
  /\ \A t \in Token : Issued(t)' /\ ~Issued(t) =>
       \/ sessions[tokens'[t].family].phase = "unused"
       \/ SessionFree(r, tokens'[t].family)
  /\ \A t \in Token : Issued(t) /\ tokens[t].revoked => tokens'[t].revoked
  /\ \A t \in Token : Live(t) /\ ~Live(t)' => TokenFree(r, t)

LEMMA OwnLocksAreFree ==
  ASSUME LocksExclusive, NEW r \in Request
  PROVE  /\ \A u \in User : HoldsUser(r, u) => UserFree(r, u)
         /\ \A s \in Session : HoldsSession(r, s) => SessionFree(r, s)
         /\ \A t \in Token : HoldsToken(r, t) => TokenFree(r, t)
  BY DEF LocksExclusive, UserFree, SessionFree, TokenFree

LEMMA GuardedStep ==
  ASSUME TypeOK, FamilyOK, LocksExclusive, NEW r \in Request, RequestOK(r), RequestStep(r)
  PROVE  Guarded(r)
<1>. USE NoneAssumption
<1>1. CASE sessions' = sessions /\ tokens' = tokens
  BY <1>1 DEF Guarded, Issued, Live
<1>2. ASSUME NEW S \in SUBSET Session, sessions' = EndSessions(S), tokens' = tokens
      PROVE  Guarded(r)
  BY <1>2, EndedRow DEF Guarded, Issued, Live
<1>3. ASSUME NEW s \in Session, NEW t \in Token, LoginCommit(r, s, t)
      PROVE  Guarded(r)
  <2>1. /\ sessions'[s].user = requests[r].user
        /\ \A x \in Session \ {s} : sessions'[x] = sessions[x]
        /\ sessions[s].phase = "unused" /\ UserFree(r, requests[r].user)
    BY <1>3 DEF LoginCommit, TypeOK
  <2>2. /\ tokens'[t].family = s
        /\ \A x \in Token \ {t} : tokens'[x] = tokens[x]
        /\ ~Issued(t)
    BY <1>3 DEF LoginCommit, TypeOK, NewToken, NoTokenRow
  <2>. QED BY <2>1, <2>2 DEF Guarded, Issued, Live
<1>4. ASSUME NEW t2 \in Token, RefreshRotate(r, t2) PROVE Guarded(r)
  <2>1. requests[r].token \in Token /\ requests[r].token # t2
    BY <1>4 DEF RefreshRotate, RequestOK
  <2>2. \A x \in Session : sessions'[x].phase = sessions[x].phase
    BY <1>4 DEF RefreshRotate, Rotated, TypeOK, SessionRow
  <2>3. /\ tokens'[t2].family = requests[r].session
        /\ \A x \in Token \ {t2, requests[r].token} : tokens'[x] = tokens[x]
        /\ tokens'[requests[r].token].family = tokens[requests[r].token].family
        /\ tokens'[requests[r].token].revoked = tokens[requests[r].token].revoked
        /\ ~Issued(t2)
    BY <1>4, <2>1 DEF RefreshRotate, TypeOK, TokenRow, NewToken, NoTokenRow
  <2>4. TokenFree(r, requests[r].token)
    BY <1>4, <2>1, OwnLocksAreFree DEF RefreshRotate, HoldsToken
  <2>5. SessionFree(r, requests[r].session) BY <1>4 DEF RefreshRotate
  <2>. QED BY <2>2, <2>3, <2>4, <2>5 DEF Guarded, Issued, Live
<1>5. CASE LogoutCommit(r)
  <2>1. requests[r].session \in Session
    BY <1>5 DEF LogoutCommit, RequestOK, Issued, TypeOK, TokenRow
  <2>2. \A s \in Session : sessions'[s].phase = "open" => sessions[s].phase = "open"
    BY <1>5, <2>1, EndedRow DEF LogoutCommit
  <2>3. \A t \in Token : /\ tokens'[t].family = tokens[t].family
                         /\ tokens'[t].next = tokens[t].next
                         /\ tokens'[t].revoked =
                              (t \in RevocableTokens(requests[r].session) \/ tokens[t].revoked)
    BY <1>5, RevokedRow DEF LogoutCommit, RevocableTokens
  <2>4. \A t \in RevocableTokens(requests[r].session) : TokenFree(r, t)
    BY <1>5 DEF LogoutCommit
  <2>. QED BY <2>2, <2>3, <2>4 DEF Guarded, Issued, Live
<1>6. ASSUME NEW t \in Token, CommitPassword(r, t) PROVE Guarded(r)
  <2>1. requests[r].session \in Session /\ requests[r].op = "password" /\ requests[r].stage = "revoking"
    BY <1>6 DEF CommitPassword, RequestOK
  <2>2. requests[r].doomed \in SUBSET Session /\ requests[r].lost \in SUBSET Token
    BY DEF TypeOK, RequestState
  <2>3. \A s \in Session : sessions'[s].phase = EndSessions(requests[r].doomed)[s].phase
    BY <1>6, <2>2, HelperTypes DEF CommitPassword, SessionRow
  <2>4. \A s \in Session : sessions'[s].phase = "open" => sessions[s].phase = "open"
    BY <2>2, <2>3, EndedRow
  <2>5. /\ tokens'[t].family = requests[r].session
        /\ \A x \in Token \ {t} : tokens'[x] = RevokeTokens(requests[r].lost)[x]
        /\ ~Issued(t)
    BY <1>6, <2>2, HelperTypes DEF CommitPassword, NewToken, NoTokenRow
  <2>6. \A x \in Token \ {t} :
          /\ tokens'[x].family = tokens[x].family
          /\ tokens'[x].next = tokens[x].next
          /\ tokens'[x].revoked = (x \in requests[r].lost \/ tokens[x].revoked)
    BY <2>2, <2>5, RevokedRow
  <2>7. \A x \in requests[r].lost : TokenFree(r, x)
    BY <2>1, <2>2, OwnLocksAreFree DEF HoldsToken
  <2>8. SessionFree(r, requests[r].session)
    BY <2>1, OwnLocksAreFree DEF HoldsSession
  <2>. QED BY <2>4, <2>5, <2>6, <2>7, <2>8 DEF Guarded, Issued, Live
<1>. QED BY <1>1, <1>2, <1>3, <1>4, <1>5, <1>6, StepShape

-----------------------------------------------------------------------------
(* The conjuncts of the inductive invariant, one by one.                   *)

\* A lock that a step takes was free.
LEMMA LocksStep ==
  ASSUME TypeOK, LocksExclusive, FamilyOK, NEW r \in Request, RequestOK(r), RequestStep(r)
  PROVE  LocksExclusive'
<1>. DEFINE Takes ==
       /\ \A u \in User : HoldsUser(r, u)' => HoldsUser(r, u) \/ UserFree(r, u)
       /\ \A s \in Session : HoldsSession(r, s)' => HoldsSession(r, s) \/ SessionFree(r, s)
       /\ \A t \in Token : HoldsToken(r, t)' => HoldsToken(r, t) \/ TokenFree(r, t)
<1>. USE DEF HoldsUser, HoldsSession, HoldsToken
<1>0. requests \in [Request -> RequestState] BY DEF TypeOK
<1>1. ASSUME requests'[r] = Idle \/ requests'[r] = requests[r] PROVE Takes
  BY <1>1 DEF Idle
<1>2. ASSUME NEW u \in User, LoginVerify(r, u) PROVE Takes
  BY <1>0, <1>2 DEF LoginVerify, Idle
<1>3. ASSUME NEW t \in Token, RefreshAcquire(r, t) PROVE Takes
  BY <1>0, <1>3 DEF RefreshAcquire, Idle
<1>4. ASSUME NEW op \in {"rotate", "reuse", "expire"}, RefreshPresent(r, op) PROVE Takes
  BY <1>0, <1>4 DEF RefreshPresent, RequestState
<1>5. ASSUME RefreshLoadUser(r) PROVE Takes
  BY <1>0, <1>5 DEF RefreshLoadUser, RequestState
<1>6. ASSUME NEW t \in Token, LogoutPresent(r, t) PROVE Takes
  BY <1>0, <1>6 DEF LogoutPresent, Idle
<1>7. ASSUME NEW t \in Token, NEW op \in OwnOps, Authenticate(r, t, op) PROVE Takes
  <2>1. requests'[r].stage = "authenticated" BY <1>0, <1>7 DEF Authenticate, Idle
  <2>. QED BY <2>1
<1>8. ASSUME LockUser(r) PROVE Takes
  BY <1>0, <1>8 DEF LockUser, RequestState
<1>9. ASSUME LockSession(r) PROVE Takes
  BY <1>0, <1>9 DEF LockSession, RequestState
<1>10. ASSUME BulkRevoke(r) PROVE Takes
  <2>1. /\ requests'[r].user = requests[r].user /\ requests'[r].op = requests[r].op
        /\ requests'[r].session = requests[r].session /\ requests'[r].stage = "revoking"
        /\ requests'[r].doomed = Others(r) /\ requests'[r].lost = OwnTokens(r)
        /\ requests[r].stage \in {"userLocked", "sessionLocked"}
        /\ requests[r].op = "password" => requests[r].stage = "sessionLocked"
    BY <1>0, <1>10 DEF BulkRevoke, RequestState
  <2>2. /\ \A s \in Others(r) : SessionFree(r, s)
        /\ \A t \in OwnTokens(r) : TokenFree(r, t)
    BY <1>10 DEF BulkRevoke
  <2>. QED BY <2>1, <2>2
<1>11. ASSUME SweepFind(r) PROVE Takes
  <2>1. requests'[r].stage = "sweeping" /\ requests'[r].op = "revokeOthers"
    BY <1>0, <1>11 DEF SweepFind, RequestState
  <2>. QED BY <2>1
<1>12. ASSUME NEW u \in User, NEW op \in ManagedOps, ManagerLock(r, u, op) PROVE Takes
  <2>1. requests'[r].stage = "userLocked" /\ requests'[r].op = op /\ requests'[r].user = u
    BY <1>0, <1>12 DEF ManagerLock, Idle
  <2>2. UserFree(r, u) /\ op # "password" BY <1>12, ProfileAssumption DEF ManagerLock
  <2>. QED BY <2>1, <2>2
<1>13. ASSUME NEW u \in User, ManagerSweep(r, u) PROVE Takes
  <2>1. requests'[r].stage = "sweeping" /\ requests'[r].op = "sweep"
    BY <1>0, <1>13 DEF ManagerSweep, Idle
  <2>. QED BY <2>1
<1>. HIDE DEF Takes
<1>14. Takes
  <2>1. CASE LoginStep(r)
    BY <1>0, <1>1, <1>2, <2>1 DEF LoginStep, LoginCommit, Finish
  <2>2. CASE RefreshStep(r)
    BY <1>0, <1>1, <1>3, <1>4, <1>5, <2>2 DEF RefreshStep, RefreshRotate, RefreshRevoke, Finish
  <2>3. CASE LogoutStep(r)
    BY <1>0, <1>1, <1>6, <2>3 DEF LogoutStep, LogoutCommit, Finish
  <2>4. CASE OwnStep(r)
    BY <1>0, <1>1, <1>7, <1>8, <1>9, <1>10, <1>11, <2>4
    DEF OwnStep, CommitPassword, CommitDelete, RevokeOne, SweepCommit, Finish
  <2>5. CASE ManagerStep(r)
    BY <1>0, <1>1, <1>12, <1>13, <2>5 DEF ManagerStep, CommitManaged, ManagerRevokeOne, Finish
  <2>6. CASE Abort(r)
    BY <1>0, <1>1, <2>6 DEF Abort, Finish
  <2>. QED BY <2>1, <2>2, <2>3, <2>4, <2>5, <2>6 DEF RequestStep
<1>. USE DEF Takes
<1>. QED BY <1>14, StepShape DEF LocksExclusive, UserFree, SessionFree, TokenFree

\* The live token of a session stays the one its CSRF token came with.
LEMMA LiveStep ==
  ASSUME IndInv, NEW r \in Request, RequestStep(r)
  PROVE  LiveTokenIsCurrent'
<1>. USE NoneAssumption
<1>0. TypeOK /\ FamilyOK /\ RequestOK(r) /\ LiveTokenIsCurrent BY DEF IndInv
<1>1. CASE sessions' = sessions /\ tokens' = tokens
  BY <1>0, <1>1 DEF LiveTokenIsCurrent, Live, Issued
<1>2. ASSUME NEW S \in SUBSET Session, sessions' = EndSessions(S), tokens' = tokens
      PROVE  LiveTokenIsCurrent'
  <2>1. \A t \in Token : Issued(t) => tokens[t].family \in Session
    BY <1>0 DEF TypeOK, TokenRow, Issued
  <2>2. \A s \in Session : sessions'[s].csrf = sessions[s].csrf BY <1>0, <1>2, EndedRow
  <2>. QED BY <1>0, <1>2, <2>1, <2>2 DEF LiveTokenIsCurrent, Live, Issued
<1>3. ASSUME NEW s \in Session, NEW t \in Token, LoginCommit(r, s, t)
      PROVE  LiveTokenIsCurrent'
  <2>1. /\ sessions'[s].csrf = t
        /\ \A x \in Session \ {s} : sessions'[x] = sessions[x]
        /\ sessions[s].phase = "unused"
    BY <1>0, <1>3 DEF LoginCommit, TypeOK
  <2>2. /\ tokens'[t].family = s
        /\ \A x \in Token \ {t} : tokens'[x] = tokens[x]
    BY <1>0, <1>3 DEF LoginCommit, TypeOK, NewToken, NoTokenRow
  <2>3. \A x \in Token : Issued(x) => tokens[x].family \in Session \ {s}
    BY <1>0, <2>1 DEF TypeOK, TokenRow, Issued, FamilyOK
  <2>. QED BY <1>0, <2>1, <2>2, <2>3 DEF LiveTokenIsCurrent, Live, Issued
<1>4. ASSUME NEW t2 \in Token, RefreshRotate(r, t2) PROVE LiveTokenIsCurrent'
  <2>. DEFINE t == requests[r].token
              s == requests[r].session
  <2>1. s \in Session /\ t \in Token /\ t # t2 /\ s = tokens[t].family /\ Live(t)
    BY <1>0, <1>4 DEF RefreshRotate, RequestOK, Issued, TypeOK, TokenRow
  <2>2. /\ sessions'[s].csrf = t2
        /\ \A x \in Session \ {s} : sessions'[x] = sessions[x]
    BY <1>0, <1>4, <2>1 DEF RefreshRotate, Rotated, TypeOK, SessionRow
  <2>3. /\ tokens'[t2].family = s
        /\ tokens'[t].next # None
        /\ \A x \in Token \ {t, t2} : tokens'[x] = tokens[x]
    BY <1>0, <1>4, <2>1 DEF RefreshRotate, TypeOK, TokenRow, NewToken, NoTokenRow
  <2>4. \A x \in Token \ {t} : Live(x) => tokens[x].family \in Session \ {s}
    BY <1>0, <2>1 DEF LiveTokenIsCurrent, Live, Issued, TypeOK, TokenRow
  <2>. HIDE DEF t, s
  <2>. QED BY <1>0, <2>1, <2>2, <2>3, <2>4 DEF LiveTokenIsCurrent, Live, Issued
<1>5. CASE LogoutCommit(r)
  <2>1. requests[r].session \in Session
    BY <1>0, <1>5 DEF LogoutCommit, RequestOK, Issued, TypeOK, TokenRow
  <2>2. \A s \in Session : sessions'[s].csrf = sessions[s].csrf
    BY <1>0, <1>5, <2>1, EndedRow DEF LogoutCommit
  <2>3. \A t \in Token : /\ tokens'[t].family = tokens[t].family
                         /\ tokens'[t].next = tokens[t].next
                         /\ tokens[t].revoked => tokens'[t].revoked
    BY <1>0, <1>5, RevokedRow DEF LogoutCommit, RevocableTokens
  <2>4. \A t \in Token : Issued(t) => tokens[t].family \in Session
    BY <1>0 DEF TypeOK, TokenRow, Issued
  <2>. QED BY <1>0, <2>2, <2>3, <2>4 DEF LiveTokenIsCurrent, Live, Issued
<1>6. ASSUME NEW t \in Token, CommitPassword(r, t) PROVE LiveTokenIsCurrent'
  <2>. DEFINE s == requests[r].session
  <2>1. /\ s \in Session
        /\ \A x \in Token : tokens[x].family = s /\ ~tokens[x].revoked => x \in requests[r].lost
    BY <1>0, <1>6 DEF CommitPassword, RequestOK, OwnTokens, RevocableTokens
  <2>2. requests[r].doomed \in SUBSET Session /\ requests[r].lost \in SUBSET Token
    BY <1>0 DEF TypeOK, RequestState
  <2>3. /\ sessions'[s].csrf = t
        /\ \A x \in Session \ {s} : sessions'[x] = EndSessions(requests[r].doomed)[x]
    BY <1>0, <1>6, <2>1, <2>2, HelperTypes DEF CommitPassword, SessionRow
  <2>4. \A x \in Session \ {s} : sessions'[x].csrf = sessions[x].csrf
    BY <1>0, <2>2, <2>3, EndedRow
  <2>5. /\ tokens'[t].family = s
        /\ \A x \in Token \ {t} : tokens'[x] = RevokeTokens(requests[r].lost)[x]
    BY <1>0, <1>6, <2>2, HelperTypes DEF CommitPassword, NewToken, NoTokenRow
  <2>6. \A x \in Token \ {t} :
          /\ tokens'[x].family = tokens[x].family
          /\ tokens'[x].next = tokens[x].next
          /\ tokens'[x].revoked = (x \in requests[r].lost \/ tokens[x].revoked)
    BY <1>0, <2>2, <2>5, RevokedRow
  <2>7. \A x \in Token : Issued(x) => tokens[x].family \in Session
    BY <1>0 DEF TypeOK, TokenRow, Issued
  <2>. HIDE DEF s
  <2>8. ASSUME NEW x \in Token \ {t}, Live(x)' PROVE sessions'[tokens'[x].family].csrf = x
    <3>1. Live(x) /\ tokens[x].family \in Session BY <2>6, <2>7, <2>8 DEF Live, Issued
    <3>2. tokens[x].family # s BY <2>1, <2>6, <2>8, <3>1 DEF Live
    <3>. QED BY <1>0, <2>4, <2>6, <3>1, <3>2 DEF LiveTokenIsCurrent
  <2>. QED BY <2>3, <2>5, <2>8 DEF LiveTokenIsCurrent
<1>. QED BY <1>0, <1>1, <1>2, <1>3, <1>4, <1>5, <1>6, StepShape

\* A step of one request leaves what the others rely on.
LEMMA OthersStep ==
  ASSUME IndInv, NEW r \in Request, RequestStep(r), NEW q \in Request \ {r}
  PROVE  RequestOK(q)'
<1>. USE NoneAssumption
<1>0. TypeOK /\ FamilyOK /\ RequestOK(r) /\ RequestOK(q) /\ LocksExclusive BY DEF IndInv
<1>1. requests'[q] = requests[q] BY <1>0, StepShape
<1>2. Kept BY <1>0, FamilyStep
<1>3. Guarded(r) BY <1>0, GuardedStep
<1>. DEFINE R == requests[q]
<1>4. R.stage \in {"queued", "presented", "loaded", "leaving"} =>
        R.token \in Token /\ Issued(R.token)' /\ R.session = tokens'[R.token].family
  BY <1>0, <1>1, <1>2 DEF RequestOK, Kept, Issued
<1>5. R.stage = "authenticated" \/ R.op = "password" =>
        R.session \in Session \ R.doomed /\ sessions'[R.session].phase # "unused"
  BY <1>0, <1>2 DEF RequestOK, Kept
<1>6. R.stage \in {"presented", "loaded"} /\ R.op = "rotate" => Live(R.token)'
  <2>. SUFFICES ASSUME R.stage \in {"presented", "loaded"}, R.op = "rotate" PROVE Live(R.token)'
    OBVIOUS
  <2>1. R.token \in Token /\ Live(R.token) /\ HoldsToken(q, R.token)
    BY <1>0 DEF RequestOK, HoldsToken
  <2>. QED BY <1>1, <1>3, <2>1 DEF Guarded, TokenFree
<1>7. ASSUME R.stage = "revoking", NEW s \in Others(q)' PROVE s \in R.doomed
  <2>1. s \in Session /\ sessions'[s].phase = "open" /\ sessions'[s].user = R.user
        /\ (R.op \in {"password", "revokeOthers"} => s # R.session)
    BY <1>1, <1>7 DEF Others, OpenSessions
  <2>2. ~UserFree(r, R.user) BY <1>7 DEF UserFree, HoldsUser
  <2>3. sessions[s].phase = "open" BY <1>3, <2>1, <2>2 DEF Guarded
  <2>4. sessions[s].user = R.user BY <1>2, <2>1, <2>3 DEF Kept
  <2>5. s \in Others(q) BY <2>1, <2>3, <2>4 DEF Others, OpenSessions
  <2>. QED BY <1>0, <1>7, <2>5 DEF RequestOK
<1>8. ASSUME R.stage = "revoking", NEW t \in OwnTokens(q)' PROVE t \in R.lost
  <2>1. /\ R.op = "password" /\ R.session \in Session /\ t \in Token
        /\ tokens'[t].family = R.session /\ ~tokens'[t].revoked
        /\ sessions[R.session].phase # "unused"
    BY <1>0, <1>1, <1>8 DEF OwnTokens, RevocableTokens, RequestOK
  <2>2. ~SessionFree(r, R.session) BY <1>8, <2>1 DEF SessionFree, HoldsSession
  <2>3. Issued(t) BY <1>3, <2>1, <2>2 DEF Guarded, Issued
  <2>4. tokens[t].family = R.session /\ ~tokens[t].revoked
    BY <1>2, <1>3, <2>1, <2>3 DEF Kept, Guarded
  <2>5. t \in OwnTokens(q) BY <2>1, <2>4 DEF OwnTokens, RevocableTokens
  <2>. QED BY <1>0, <1>8, <2>5 DEF RequestOK
<1>9. R.stage \in {"verified", "authenticated", "userLocked", "sessionLocked",
                  "revoking", "sweeping"} => R.user \in User
  BY <1>0 DEF RequestOK
<1>10. ASSUME R.stage = "revoking", NEW t \in R.lost
       PROVE  Issued(t)' /\ tokens'[t].family = R.session
  <2>1. t \in Token /\ Issued(t) /\ tokens[t].family = R.session
    BY <1>0, <1>10 DEF RequestOK, TypeOK, RequestState
  <2>. QED BY <1>2, <2>1 DEF Kept, Issued
<1>. QED BY <1>1, <1>4, <1>5, <1>6, <1>7, <1>8, <1>9, <1>10 DEF RequestOK

\* A step leaves what its own request relies on.
LEMMA OwnStepOK ==
  ASSUME IndInv, NEW r \in Request, RequestStep(r)
  PROVE  RequestOK(r)'
<1>. USE NoneAssumption
<1>0. TypeOK /\ FamilyOK /\ RequestOK(r) /\ requests \in [Request -> RequestState]
  BY DEF IndInv, TypeOK
<1>1. ASSUME requests'[r] = Idle PROVE RequestOK(r)'
  BY <1>1 DEF RequestOK, Idle
<1>2. ASSUME NEW u \in User, LoginVerify(r, u) PROVE RequestOK(r)'
  <2>1. requests'[r].stage = "verified" /\ requests'[r].op = "login" /\ requests'[r].user = u
    BY <1>0, <1>2 DEF LoginVerify, Idle
  <2>. QED BY <2>1 DEF RequestOK
<1>3. ASSUME NEW t \in Token, RefreshAcquire(r, t) PROVE RequestOK(r)'
  <2>1. /\ requests'[r].stage = "queued" /\ requests'[r].op = "none"
        /\ requests'[r].token = t /\ requests'[r].session = tokens[t].family
        /\ Issued(t) /\ tokens' = tokens
    BY <1>0, <1>3 DEF RefreshAcquire, Idle
  <2>. QED BY <2>1 DEF RequestOK, Issued
<1>4. ASSUME NEW op \in {"rotate", "reuse", "expire"}, RefreshPresent(r, op) PROVE RequestOK(r)'
  <2>1. /\ requests'[r].stage = "presented" /\ requests'[r].op = op
        /\ requests'[r].token = requests[r].token /\ requests'[r].session = requests[r].session
        /\ requests[r].stage = "queued" /\ tokens' = tokens
    BY <1>0, <1>4 DEF RefreshPresent, RequestState
  <2>2. op = "rotate" => Live(requests[r].token) BY <1>4 DEF RefreshPresent, Verdict
  <2>. QED BY <1>0, <2>1, <2>2 DEF RequestOK, Issued, Live
<1>5. ASSUME RefreshLoadUser(r) PROVE RequestOK(r)'
  <2>1. /\ requests'[r].stage = "loaded" /\ requests'[r].op = requests[r].op
        /\ requests'[r].token = requests[r].token /\ requests'[r].session = requests[r].session
        /\ requests[r].stage = "presented" /\ tokens' = tokens /\ sessions' = sessions
        /\ requests'[r].doomed = requests[r].doomed
    BY <1>0, <1>5 DEF RefreshLoadUser, RequestState
  <2>. QED BY <1>0, <2>1 DEF RequestOK, Issued, Live
<1>6. ASSUME NEW t \in Token, LogoutPresent(r, t) PROVE RequestOK(r)'
  <2>1. /\ requests'[r].stage = "leaving" /\ requests'[r].op = "logout"
        /\ requests'[r].token = t /\ requests'[r].session = tokens[t].family
        /\ Issued(t) /\ tokens' = tokens
    BY <1>0, <1>6 DEF LogoutPresent, Idle
  <2>. QED BY <2>1 DEF RequestOK, Issued
<1>7. ASSUME NEW t \in Token, NEW op \in OwnOps, Authenticate(r, t, op) PROVE RequestOK(r)'
  <2>. DEFINE s == tokens[t].family
  <2>1. s \in Session /\ sessions[s].user \in User /\ sessions[s].phase = "open"
    BY <1>0, <1>7 DEF Authenticate, TypeOK, TokenRow, Issued, FamilyOK
  <2>2. /\ requests'[r].stage = "authenticated" /\ requests'[r].session = s
        /\ requests'[r].user = sessions[s].user /\ sessions' = sessions
        /\ requests'[r].doomed = {}
    BY <1>0, <1>7 DEF Authenticate, Idle
  <2>. QED BY <2>1, <2>2 DEF RequestOK
<1>8. ASSUME LockUser(r) \/ LockSession(r) PROVE RequestOK(r)'
  <2>1. /\ requests'[r].stage \in {"userLocked", "sessionLocked"}
        /\ requests'[r].op = requests[r].op /\ requests'[r].user = requests[r].user
        /\ requests'[r].session = requests[r].session /\ requests'[r].doomed = requests[r].doomed
        /\ requests[r].stage \in {"authenticated", "userLocked"} /\ sessions' = sessions
    BY <1>0, <1>8 DEF LockUser, LockSession, RequestState
  <2>. QED BY <1>0, <2>1 DEF RequestOK
<1>9. ASSUME BulkRevoke(r) PROVE RequestOK(r)'
  <2>1. /\ requests'[r].stage = "revoking" /\ requests'[r].op = requests[r].op
        /\ requests'[r].user = requests[r].user /\ requests'[r].session = requests[r].session
        /\ requests'[r].doomed = Others(r) /\ requests'[r].lost = OwnTokens(r)
        /\ requests[r].stage \in {"userLocked", "sessionLocked"}
        /\ sessions' = sessions /\ tokens' = tokens
    BY <1>0, <1>9 DEF BulkRevoke, RequestState
  <2>2. Others(r)' = Others(r) /\ OwnTokens(r)' = OwnTokens(r)
    BY <2>1 DEF Others, OpenSessions, OwnTokens, RevocableTokens
  <2>3. requests[r].op = "password" => requests[r].session \notin Others(r) BY DEF Others
  <2>4. \A t \in OwnTokens(r) : Issued(t) /\ tokens[t].family = requests[r].session
    BY <1>0, <2>1 DEF OwnTokens, RevocableTokens, RequestOK, Issued
  <2>5. \A t \in OwnTokens(r) : Issued(t)' /\ tokens'[t].family = requests'[r].session
    BY <2>1, <2>4 DEF Issued
  <2>. QED BY <1>0, <2>1, <2>2, <2>3, <2>5 DEF RequestOK
<1>10. ASSUME SweepFind(r) PROVE RequestOK(r)'
  <2>1. /\ requests'[r].stage = "sweeping" /\ requests'[r].op = "revokeOthers"
        /\ requests'[r].user = requests[r].user /\ requests[r].stage = "authenticated"
    BY <1>0, <1>10 DEF SweepFind, RequestState
  <2>. QED BY <1>0, <2>1 DEF RequestOK
<1>11. ASSUME NEW u \in User, NEW op \in ManagedOps, ManagerLock(r, u, op) PROVE RequestOK(r)'
  <2>1. /\ requests'[r].stage = "userLocked" /\ requests'[r].op = op
        /\ requests'[r].user = u
    BY <1>0, <1>11 DEF ManagerLock, Idle
  <2>. QED BY <2>1, ProfileAssumption DEF RequestOK
<1>12. ASSUME NEW u \in User, ManagerSweep(r, u) PROVE RequestOK(r)'
  <2>1. /\ requests'[r].stage = "sweeping" /\ requests'[r].op = "sweep"
        /\ requests'[r].user = u
    BY <1>0, <1>12 DEF ManagerSweep, Idle
  <2>. QED BY <2>1 DEF RequestOK
<1>13. ASSUME NEW s \in Session, ManagerRevokeOne(r, s) PROVE RequestOK(r)'
  <2>1. requests'[r] = requests[r] /\ requests[r].stage = "idle" BY <1>13 DEF ManagerRevokeOne
  <2>2. Kept BY <1>0, FamilyStep
  <2>. QED BY <1>0, <2>1, <2>2 DEF RequestOK, Kept
<1>14. CASE LoginStep(r)
  BY <1>0, <1>1, <1>2, <1>14 DEF LoginStep, LoginCommit, Finish
<1>15. CASE RefreshStep(r)
  BY <1>0, <1>1, <1>3, <1>4, <1>5, <1>15 DEF RefreshStep, RefreshRotate, RefreshRevoke, Finish
<1>16. CASE LogoutStep(r)
  BY <1>0, <1>1, <1>6, <1>16 DEF LogoutStep, LogoutCommit, Finish
<1>17. CASE OwnStep(r)
  BY <1>0, <1>1, <1>7, <1>8, <1>9, <1>10, <1>17
  DEF OwnStep, CommitPassword, CommitDelete, RevokeOne, SweepCommit, Finish
<1>18. CASE ManagerStep(r)
  BY <1>0, <1>1, <1>11, <1>12, <1>13, <1>18 DEF ManagerStep, CommitManaged, Finish
<1>19. CASE Abort(r)
  BY <1>0, <1>1, <1>19 DEF Abort, Finish
<1>. QED BY <1>14, <1>15, <1>16, <1>17, <1>18, <1>19 DEF RequestStep

\* Time passing for a refresh lock or for a token.
LEMMA ClockStep ==
  ASSUME IndInv, NEW t \in Token, MutexExpires(t) \/ TokenExpires(t)
  PROVE  IndInv'
<1>1. CASE MutexExpires(t)
  <2>1. mutex' \in [Token -> Request \cup {None}] BY <1>1 DEF MutexExpires, IndInv, TypeOK
  <2>. QED BY <1>1, <2>1 DEF MutexExpires, IndInv, TypeOK, FamilyOK, RequestOK, LocksExclusive,
       LiveTokenIsCurrent, Issued, Live, Others, OpenSessions, OwnTokens, RevocableTokens,
       HoldsUser, HoldsSession, HoldsToken
<1>2. CASE TokenExpires(t)
  <2>0. TypeOK BY DEF IndInv
  <2>1. tokens' \in [Token -> TokenRow]
    <3>1. ASSUME NEW row \in TokenRow PROVE [row EXCEPT !.expired = TRUE] \in TokenRow
      BY Zenon DEF TokenRow
    <3>. QED BY <1>2, <2>0, <3>1 DEF TokenExpires, TypeOK
  <2>2. \A x \in Token : /\ tokens'[x].family = tokens[x].family
                         /\ tokens'[x].next = tokens[x].next
                         /\ tokens'[x].revoked = tokens[x].revoked
    BY <1>2, <2>0 DEF TokenExpires, TypeOK, TokenRow
  <2>3. TypeOK' BY <1>2, <2>0, <2>1 DEF TokenExpires, TypeOK
  <2>4. FamilyOK' /\ LiveTokenIsCurrent'
    BY <1>2, <2>2 DEF TokenExpires, IndInv, FamilyOK, LiveTokenIsCurrent, Issued, Live
  <2>5. ASSUME NEW r \in Request PROVE RequestOK(r)'
    <3>1. Others(r)' = Others(r) /\ OwnTokens(r)' = OwnTokens(r)
      BY <1>2, <2>2 DEF TokenExpires, Others, OpenSessions, OwnTokens, RevocableTokens
    <3>. QED BY <1>2, <2>2, <3>1 DEF TokenExpires, IndInv, RequestOK, Issued, Live
  <2>6. LocksExclusive'
    BY <1>2 DEF TokenExpires, IndInv, LocksExclusive, HoldsUser, HoldsSession, HoldsToken
  <2>. QED BY <2>3, <2>4, <2>5, <2>6 DEF IndInv
<1>. QED BY <1>1, <1>2

LEMMA InitOK == Init => IndInv
<1>. SUFFICES ASSUME Init PROVE IndInv OBVIOUS
<1>1. TypeOK BY TypeInit
<1>2. FamilyOK /\ LiveTokenIsCurrent
  BY DEF Init, FamilyOK, LiveTokenIsCurrent, Live, Issued, NoTokenRow, NoSessionRow
<1>3. \A r \in Request : RequestOK(r) BY DEF Init, RequestOK, Idle
<1>4. LocksExclusive
  BY DEF Init, LocksExclusive, HoldsUser, HoldsSession, HoldsToken, Idle
<1>. QED BY <1>1, <1>2, <1>3, <1>4 DEF IndInv

LEMMA StepOK == IndInv /\ [Next]_vars => IndInv'
<1>. SUFFICES ASSUME IndInv, [Next]_vars PROVE IndInv' OBVIOUS
<1>1. ASSUME NEW r \in Request, RequestStep(r) PROVE IndInv'
  <2>0. TypeOK /\ FamilyOK /\ LocksExclusive /\ RequestOK(r) BY DEF IndInv
  <2>1. TypeOK' BY <1>1, <2>0, TypeStep
  <2>2. FamilyOK' BY <1>1, <2>0, FamilyStep
  <2>3. \A q \in Request : RequestOK(q)' BY <1>1, OthersStep, OwnStepOK
  <2>4. LocksExclusive' BY <1>1, <2>0, LocksStep
  <2>5. LiveTokenIsCurrent' BY <1>1, LiveStep
  <2>. QED BY <2>1, <2>2, <2>3, <2>4, <2>5 DEF IndInv
<1>2. CASE UNCHANGED vars
  BY <1>2 DEF vars, IndInv, TypeOK, FamilyOK, RequestOK, LocksExclusive, LiveTokenIsCurrent,
     Issued, Live, Others, OpenSessions, OwnTokens, RevocableTokens,
     HoldsUser, HoldsSession, HoldsToken
<1>. QED BY <1>1, <1>2, ClockStep DEF Next

-----------------------------------------------------------------------------
(* The theorems.                                                           *)

\* The inductive invariant holds in every reachable state, whatever the number
\* of accounts, sessions, tokens and requests.
THEOREM Invariance == Spec => []IndInv
<1>. QED BY InitOK, StepOK, PTL DEF Spec

\* Every reachable state has the types of TypeOK.
THEOREM TypeCorrect == Spec => []TypeOK
<1>1. IndInv => TypeOK BY DEF IndInv
<1>. QED BY <1>1, Invariance, PTL

\* However logins, rotations, logouts, password changes and management
\* operations interleave, the live token of a session is the one that came
\* with its current CSRF token, so that a session has at most one.
THEOREM LiveTokenTheorem == Spec => []LiveTokenIsCurrent
<1>1. IndInv => LiveTokenIsCurrent BY DEF IndInv
<1>. QED BY <1>1, Invariance, PTL

-----------------------------------------------------------------------------
(* AuthSessions implements RefreshFamily.                                  *)

LEMMA RefinementInit == Init => F!Init
<1>. SUFFICES ASSUME Init PROVE F!Init OBVIOUS
<1>1. \A s \in Session : sessions[s].phase = "unused" BY DEF Init, NoSessionRow
<1>2. \A t \in Token : ~Issued(t) BY DEF Init, NoTokenRow, Issued
<1>. QED BY <1>1, <1>2 DEF F!Init

\* A bulk UPDATE of the sessions, with the new tokens T for closed sessions.
LEMMA CloseStep ==
  ASSUME IndInv, NEW S \in SUBSET Session, NEW T \in SUBSET Token,
         \A s \in Session : sessions'[s].phase = EndSessions(S)[s].phase,
         \A t \in T : ~Issued(t) /\ Issued(t)' /\ sessions'[tokens'[t].family].phase # "open",
         \A t \in Token \ T : /\ tokens'[t].family = tokens[t].family
                              /\ sessions'[tokens[t].family].phase = "open" => (Live(t)' <=> Live(t))
  PROVE  F!Next
<1>. PICK C \in SUBSET Session : C = {s \in S : sessions[s].phase = "open"} OBVIOUS
<1>0. TypeOK BY DEF IndInv
<1>1. \A s \in Session : sessions'[s].phase =
        IF s \in C THEN "revoked" ELSE sessions[s].phase
  BY <1>0, EndedRow
<1>2. \A t \in Token : Issued(t)' <=> Issued(t) \/ t \in T BY DEF Issued
<1>3. \A s \in Session : sessions'[s].phase = "open" =>
        {t \in Token : tokens'[t].family = s /\ Live(t)'} = {t \in Token : tokens[t].family = s /\ Live(t)}
  <2>1. \A t \in T : tokens[t].family = None BY DEF Issued
  <2>. QED BY <2>1, NoneAssumption DEF Live, Issued
<1>4. \A s \in C : sessions[s].phase = "open" OBVIOUS
<1>6. \A s \in Session : s \in C => sessions'[s].phase = "revoked" BY <1>1
<1>7. \A s \in Session : s \notin C => sessions'[s].phase = sessions[s].phase BY <1>1
<1>8. T \cap {t \in Token : Issued(t)} = {} OBVIOUS
<1>9. {t \in Token : Issued(t)'} = {t \in Token : Issued(t)} \cup T BY <1>2
<1>. DEFINE ph == [s \in Session |-> sessions[s].phase]
            us == [s \in Session |-> IF sessions[s].phase = "open"
                                     THEN {t \in Token : tokens[t].family = s /\ Live(t)}
                                     ELSE {}]
<1>11. ph' = [s \in Session |-> IF s \in C THEN "revoked" ELSE ph[s]] BY <1>6, <1>7
<1>12. ASSUME NEW s \in Session PROVE us'[s] = IF s \in C THEN {} ELSE us[s]
  <2>1. CASE s \in C BY <2>1, <1>6
  <2>2. CASE s \notin C BY <2>2, <1>7, <1>3
  <2>. QED BY <2>1, <2>2
<1>13. us' = [s \in Session |-> IF s \in C THEN {} ELSE us[s]] BY <1>12
<1>14. \A s \in C : ph[s] = "open" BY <1>4
<1>. HIDE DEF ph, us
<1>10. F!Close(C, T)
  BY <1>8, <1>9, <1>11, <1>13, <1>14 DEF F!Close, ph, us
<1>. QED BY <1>10 DEF F!Next

\* A step that ends the sessions S and leaves the tokens alone.
LEMMA BulkStep ==
  ASSUME IndInv, NEW S \in SUBSET Session, sessions' = EndSessions(S), tokens' = tokens
  PROVE  F!Next
<1>1. \A t \in Token : Live(t)' <=> Live(t) BY DEF Live, Issued
<1>2. {} \in SUBSET Token OBVIOUS
<1>. QED BY <1>1, <1>2, CloseStep

LEMMA OpenStep ==
  ASSUME IndInv, NEW r \in Request, NEW s \in Session, NEW t \in Token, LoginCommit(r, s, t)
  PROVE  F!Next
<1>. USE NoneAssumption
<1>0. TypeOK /\ FamilyOK BY DEF IndInv
<1>1. /\ sessions'[s].phase = "open" /\ sessions[s].phase = "unused"
      /\ \A x \in Session \ {s} : sessions'[x] = sessions[x]
  BY <1>0 DEF LoginCommit, TypeOK
<1>2. /\ ~Issued(t) /\ Issued(t)' /\ tokens'[t].family = s /\ Live(t)'
      /\ \A x \in Token \ {t} : tokens'[x] = tokens[x]
  BY <1>0 DEF LoginCommit, TypeOK, NewToken, NoTokenRow, Issued, Live
<1>3. \A x \in Token : tokens[x].family # s BY <1>0, <1>1 DEF FamilyOK, Issued
<1>4. \A x \in Token : Issued(x)' <=> Issued(x) \/ x = t BY <1>2 DEF Issued
<1>5. \A x \in Token \ {t} : Live(x)' <=> Live(x) BY <1>2 DEF Live, Issued
<1>6. {x \in Token : tokens'[x].family = s /\ Live(x)'} = {t} BY <1>2, <1>3
<1>7. \A y \in Session \ {s} :
        {x \in Token : tokens'[x].family = y /\ Live(x)'}
          = {x \in Token : tokens[x].family = y /\ Live(x)}
  BY <1>2, <1>5 DEF Live, Issued
<1>. DEFINE ph == [x \in Session |-> sessions[x].phase]
            us == [x \in Session |-> IF sessions[x].phase = "open"
                                     THEN {y \in Token : tokens[y].family = x /\ Live(y)}
                                     ELSE {}]
<1>9. ph' = [ph EXCEPT ![s] = "open"] BY <1>1
<1>10. ASSUME NEW x \in Session PROVE us'[x] = IF x = s THEN {t} ELSE us[x]
  <2>1. CASE x = s BY <2>1, <1>1, <1>6
  <2>2. CASE x # s BY <2>2, <1>1, <1>7
  <2>. QED BY <2>1, <2>2
<1>11. us' = [us EXCEPT ![s] = {t}] BY <1>10
<1>12. /\ ph[s] = "unused" /\ t \notin {y \in Token : Issued(y)}
       /\ {y \in Token : Issued(y)}' = {y \in Token : Issued(y)} \cup {t}
  BY <1>1, <1>2, <1>4
<1>. HIDE DEF ph, us
<1>8. F!Open(s, t) BY <1>9, <1>11, <1>12 DEF F!Open, ph, us
<1>. QED BY <1>8 DEF F!Next

\* The session s gets the token t2 and the sessions S end, whatever becomes of
\* the old tokens of s: a rotation when s is open, and otherwise no more than
\* the end of S.
LEMMA NewTokenStep ==
  ASSUME IndInv, NEW S \in SUBSET Session, NEW s \in Session \ S, NEW t2 \in Token,
         \A x \in Session : sessions'[x].phase = EndSessions(S)[x].phase,
         ~Issued(t2), Live(t2)', tokens'[t2].family = s,
         \A x \in Token \ {t2} : /\ tokens'[x].family = tokens[x].family
                                 /\ tokens[x].family = s => ~Live(x)'
                                 /\ tokens[x].family # s => (Live(x)' <=> Live(x))
  PROVE  F!Next
<1>. USE NoneAssumption
<1>0. TypeOK BY DEF IndInv
<1>1. \A x \in Session : sessions'[x].phase =
        IF x \in S /\ sessions[x].phase = "open" THEN "revoked" ELSE sessions[x].phase
  BY <1>0, EndedRow
<1>2. Issued(t2)' BY DEF Live
<1>3. \A x \in Token : Issued(x)' <=> Issued(x) \/ x = t2 BY <1>2 DEF Issued
<1>4. CASE sessions[s].phase = "open"
  <2>. PICK C \in SUBSET Session : C = {x \in S : sessions[x].phase = "open"} OBVIOUS
  <2>1. {x \in Token : tokens'[x].family = s /\ Live(x)'} = {t2} OBVIOUS
  <2>2. \A y \in Session \ {s} :
          {x \in Token : tokens'[x].family = y /\ Live(x)'}
            = {x \in Token : tokens[x].family = y /\ Live(x)}
    BY DEF Live, Issued
  <2>. DEFINE ph == [x \in Session |-> sessions[x].phase]
              us == [x \in Session |-> IF sessions[x].phase = "open"
                                       THEN {t \in Token : tokens[t].family = x /\ Live(t)}
                                       ELSE {}]
  <2>3. ph' = [x \in Session |-> IF x \in C THEN "revoked" ELSE ph[x]] BY <1>1
  <2>4. ASSUME NEW x \in Session
        PROVE  us'[x] = IF x = s THEN {t2} ELSE IF x \in C THEN {} ELSE us[x]
    <3>1. CASE x = s BY <3>1, <1>1, <1>4, <2>1
    <3>2. CASE x # s /\ x \in C BY <3>2, <1>1
    <3>3. CASE x # s /\ x \notin C
      <4>1. sessions'[x].phase = sessions[x].phase BY <3>3, <1>1
      <4>. QED BY <3>3, <4>1, <2>2
    <3>. QED BY <3>1, <3>2, <3>3
  <2>5. us' = [x \in Session |-> IF x = s THEN {t2} ELSE IF x \in C THEN {} ELSE us[x]]
    <3>1. us' = [x \in Session |-> us'[x]] BY Zenon
    <3>. HIDE DEF us
    <3>. QED BY <2>4, <3>1
  <2>6. /\ ph[s] = "open" /\ s \notin C /\ \A x \in C : ph[x] = "open"
        /\ t2 \notin {x \in Token : Issued(x)}
        /\ {x \in Token : Issued(x)}' = {x \in Token : Issued(x)} \cup {t2}
    BY <1>3, <1>4
  <2>. HIDE DEF ph, us
  <2>7. F!Rotate(s, t2, C) BY <2>3, <2>5, <2>6 DEF F!Rotate, ph, us
  <2>. QED BY <2>7 DEF F!Next
<1>5. CASE sessions[s].phase # "open"
  <2>1. sessions'[s].phase # "open" BY <1>1, <1>5
  <2>2. {t2} \in SUBSET Token OBVIOUS
  <2>3. \A x \in Token \ {t2} :
          /\ tokens'[x].family = tokens[x].family
          /\ sessions'[tokens[x].family].phase = "open" => (Live(x)' <=> Live(x))
    BY <2>1
  <2>. QED BY <1>2, <2>1, <2>2, <2>3, CloseStep
<1>. QED BY <1>4, <1>5

LEMMA RotateStep ==
  ASSUME IndInv, NEW r \in Request, NEW t2 \in Token, RefreshRotate(r, t2)
  PROVE  F!Next
<1>. USE NoneAssumption
<1>0. TypeOK /\ RequestOK(r) /\ LiveTokenIsCurrent BY DEF IndInv
<1>1. PICK t \in Token : t = requests[r].token BY <1>0 DEF RefreshRotate, RequestOK
<1>2. /\ Live(t) /\ Issued(t) /\ tokens[t].family \in Session
      /\ requests[r].session = tokens[t].family
  BY <1>0, <1>1 DEF RefreshRotate, RequestOK, Issued, TypeOK, TokenRow
<1>3. PICK s \in Session : s = requests[r].session BY <1>2
<1>4. /\ tokens' = [tokens EXCEPT ![t].next = t2,
                                  ![t2] = NewToken(s, requests[r].seen.version)]
      /\ sessions' = Rotated(s, t2) /\ ~Issued(t2)
  BY <1>1, <1>3 DEF RefreshRotate
<1>5. \A x \in Session : sessions'[x].phase = sessions[x].phase
  BY <1>0, <1>4 DEF Rotated, TypeOK, SessionRow
<1>6. /\ Live(t2)' /\ tokens'[t2].family = s
      /\ tokens'[t].family = s /\ ~Live(t)'
      /\ \A x \in Token \ {t, t2} : tokens'[x] = tokens[x]
  BY <1>0, <1>2, <1>3, <1>4 DEF TypeOK, TokenRow, NewToken, NoTokenRow, Issued, Live
<1>7. \A x \in Token \ {t} : Live(x) => tokens[x].family # s
  BY <1>0, <1>2, <1>3 DEF LiveTokenIsCurrent
<1>8. \A x \in Token \ {t, t2} : Live(x)' <=> Live(x) BY <1>6 DEF Live, Issued
<1>9. \A x \in Session : sessions'[x].phase = EndSessions({})[x].phase
  BY <1>0, <1>5, EndedRow
<1>10. {} \in SUBSET Session /\ s \in Session \ {} OBVIOUS
<1>11. \A x \in Token \ {t2} : /\ tokens'[x].family = tokens[x].family
                               /\ tokens[x].family = s => ~Live(x)'
                               /\ tokens[x].family # s => (Live(x)' <=> Live(x))
  BY <1>2, <1>3, <1>6, <1>7, <1>8
<1>. QED BY <1>4, <1>6, <1>9, <1>10, <1>11, NewTokenStep

LEMMA LogoutStepCloses ==
  ASSUME IndInv, NEW r \in Request, LogoutCommit(r)
  PROVE  F!Next
<1>0. TypeOK /\ RequestOK(r) BY DEF IndInv
<1>1. requests[r].session \in Session
  BY <1>0 DEF LogoutCommit, RequestOK, Issued, TypeOK, TokenRow
<1>2. PICK s \in Session : s = requests[r].session BY <1>1
<1>3. sessions' = EndSessions({s}) /\ tokens' = RevokeTokens(RevocableTokens(s))
  BY <1>2 DEF LogoutCommit
<1>4. \A t \in Token : /\ tokens'[t].family = tokens[t].family
                       /\ tokens'[t].next = tokens[t].next
                       /\ tokens'[t].revoked =
                            (t \in RevocableTokens(s) \/ tokens[t].revoked)
  BY <1>0, <1>3, RevokedRow DEF RevocableTokens
<1>5. sessions'[s].phase # "open" BY <1>0, <1>3, EndedRow
<1>6. \A t \in Token : tokens[t].family # s => (Live(t)' <=> Live(t))
  BY <1>4 DEF Live, Issued, RevocableTokens
<1>7. {} \in SUBSET Token /\ {s} \in SUBSET Session OBVIOUS
<1>8. \A t \in Token \ {} :
        /\ tokens'[t].family = tokens[t].family
        /\ sessions'[tokens[t].family].phase = "open" => (Live(t)' <=> Live(t))
  BY <1>4, <1>5, <1>6
<1>. QED BY <1>3, <1>7, <1>8, CloseStep

LEMMA PasswordStep ==
  ASSUME IndInv, NEW r \in Request, NEW t \in Token, CommitPassword(r, t)
  PROVE  F!Next
<1>. USE NoneAssumption
<1>0. TypeOK /\ RequestOK(r) BY DEF IndInv
<1>1. /\ requests[r].stage = "revoking" /\ requests[r].op = "password"
      /\ requests[r].doomed \in SUBSET Session /\ requests[r].lost \in SUBSET Token
      /\ requests[r].session \in Session \ requests[r].doomed
  BY <1>0 DEF CommitPassword, RequestOK, TypeOK, RequestState
<1>2. PICK S \in SUBSET Session : S = requests[r].doomed BY <1>1
<1>3. PICK s \in Session \ S : s = requests[r].session BY <1>1, <1>2
<1>4. PICK T \in SUBSET Token : T = requests[r].lost BY <1>1
<1>5. /\ \A x \in T : Issued(x) /\ tokens[x].family = s
      /\ \A x \in Token : tokens[x].family = s /\ ~tokens[x].revoked => x \in T
  BY <1>0, <1>1, <1>3, <1>4 DEF RequestOK, OwnTokens, RevocableTokens
<1>6. /\ ~Issued(t)
      /\ sessions' = [EndSessions(S) EXCEPT ![s].csrf = t]
      /\ tokens' = [RevokeTokens(T) EXCEPT ![t] = NewToken(s, requests[r].seen.version + 1)]
  BY <1>2, <1>3, <1>4 DEF CommitPassword
<1>7. \A x \in Session : sessions'[x].phase = EndSessions(S)[x].phase
  BY <1>0, <1>6, HelperTypes DEF SessionRow
<1>8. Live(t)' /\ tokens'[t].family = s
  BY <1>0, <1>6, HelperTypes DEF NewToken, NoTokenRow, Live, Issued
<1>9. \A x \in Token \ {t} : /\ tokens'[x].family = tokens[x].family
                             /\ tokens'[x].next = tokens[x].next
                             /\ tokens'[x].revoked = (x \in T \/ tokens[x].revoked)
  BY <1>0, <1>6, HelperTypes, RevokedRow
<1>10. \A x \in Token \ {t} : /\ tokens'[x].family = tokens[x].family
                              /\ tokens[x].family = s => ~Live(x)'
                              /\ tokens[x].family # s => (Live(x)' <=> Live(x))
  BY <1>5, <1>9 DEF Live, Issued
<1>. QED BY <1>6, <1>7, <1>8, <1>10, NewTokenStep

LEMMA RefinementStep == IndInv /\ [Next]_vars => [F!Next]_(F!vars)
<1>. SUFFICES ASSUME IndInv, [Next]_vars PROVE [F!Next]_(F!vars) OBVIOUS
<1>0. TypeOK /\ FamilyOK /\ \A r \in Request : RequestOK(r) BY DEF IndInv
<1>1. CASE sessions' = sessions /\ tokens' = tokens
  BY <1>1 DEF F!vars, Issued, Live
<1>2. ASSUME NEW r \in Request, RequestStep(r) PROVE [F!Next]_(F!vars)
  BY <1>0, <1>1, <1>2, StepShape, BulkStep, OpenStep, RotateStep, LogoutStepCloses, PasswordStep
<1>3. ASSUME NEW t \in Token, TokenExpires(t) PROVE UNCHANGED F!vars
  <2>1. \A x \in Token : /\ tokens'[x].family = tokens[x].family
                         /\ tokens'[x].next = tokens[x].next
                         /\ tokens'[x].revoked = tokens[x].revoked
    BY <1>0, <1>3 DEF TokenExpires, TypeOK, TokenRow
  <2>2. sessions' = sessions BY <1>3 DEF TokenExpires
  <2>. QED BY <2>1, <2>2 DEF F!vars, Issued, Live
<1>4. ASSUME NEW t \in Token, MutexExpires(t) PROVE sessions' = sessions /\ tokens' = tokens
  BY <1>4 DEF MutexExpires
<1>. QED BY <1>1, <1>2, <1>3, <1>4 DEF Next, vars

\* The login protocol, with its locks, snapshots and refresh mutex, implements
\* RefreshFamily for any number of accounts, sessions, tokens and requests.
THEOREM Refinement == Spec => ImplementsRefreshFamily
<1>1. Init => F!Init BY RefinementInit
<1>2. IndInv /\ [Next]_vars => [F!Next]_(F!vars) BY RefinementStep
<1>. QED BY <1>1, <1>2, Invariance, PTL DEF Spec, ImplementsRefreshFamily, F!Spec

-----------------------------------------------------------------------------
(* What the family promises follows from its specification alone, and so   *)
(* holds of the sessions.                                                  *)

Phase == [s \in Session |-> sessions[s].phase]
Usable == [s \in Session |-> IF sessions[s].phase = "open"
                            THEN {t \in Token : tokens[t].family = s /\ Live(t)} ELSE {}]
IssuedTokens == {t \in Token : Issued(t)}

\* TypeOK and Linear of RefreshFamily, of any three values.
LinearOf(phase, usable, issued) ==
  /\ phase \in [Session -> {"unused", "open", "revoked"}]
  /\ usable \in [Session -> SUBSET Token]
  /\ issued \in SUBSET Token
  /\ \A s \in Session : usable[s] \subseteq issued
  /\ \A s \in Session : usable[s] # {} => phase[s] = "open"
  /\ \A s \in Session : \A t1, t2 \in usable[s] : t1 = t2
  /\ \A s1, s2 \in Session : \A t \in Token :
       t \in usable[s1] /\ t \in usable[s2] => s1 = s2

LEMMA OpenKeepsLinear ==
  ASSUME NEW phase, NEW usable, NEW issued, LinearOf(phase, usable, issued),
         NEW s \in Session, NEW t \in Token, t \notin issued
  PROVE  LinearOf([phase EXCEPT ![s] = "open"], [usable EXCEPT ![s] = {t}], issued \cup {t})
  BY DEF LinearOf

LEMMA CloseKeepsLinear ==
  ASSUME NEW phase, NEW usable, NEW issued, LinearOf(phase, usable, issued),
         NEW S \in SUBSET Session, NEW T \in SUBSET Token
  PROVE  LinearOf([s \in Session |-> IF s \in S THEN "revoked" ELSE phase[s]],
                  [s \in Session |-> IF s \in S THEN {} ELSE usable[s]], issued \cup T)
  BY DEF LinearOf

LEMMA RotateKeepsLinear ==
  ASSUME NEW phase, NEW usable, NEW issued, LinearOf(phase, usable, issued),
         NEW s \in Session, NEW t \in Token, NEW S \in SUBSET Session,
         phase[s] = "open", s \notin S, t \notin issued
  PROVE  LinearOf([x \in Session |-> IF x \in S THEN "revoked" ELSE phase[x]],
                  [x \in Session |-> IF x = s THEN {t} ELSE IF x \in S THEN {} ELSE usable[x]],
                  issued \cup {t})
  BY DEF LinearOf

FamilyInv == LinearOf(Phase, Usable, IssuedTokens)

\* What RefreshFamily promises follows from its specification alone.
LEMMA FamilyLinear == F!Spec => []F!Linear
<1>1. F!Init => FamilyInv
  <2>1. F!Init => /\ Phase = [s \in Session |-> "unused"]
                  /\ Usable = [s \in Session |-> {}]
                  /\ IssuedTokens = {}
    BY DEF F!Init, Phase, Usable, IssuedTokens
  <2>. QED BY <2>1 DEF FamilyInv, LinearOf
<1>2. FamilyInv /\ [F!Next]_(F!vars) => FamilyInv'
  <2>. SUFFICES ASSUME FamilyInv, [F!Next]_(F!vars) PROVE FamilyInv' OBVIOUS
  <2>1. ASSUME NEW s \in Session, NEW t \in Token, F!Open(s, t) PROVE FamilyInv'
    <3>1. /\ t \notin IssuedTokens
          /\ Phase' = [Phase EXCEPT ![s] = "open"]
          /\ Usable' = [Usable EXCEPT ![s] = {t}]
          /\ IssuedTokens' = IssuedTokens \cup {t}
      BY <2>1 DEF F!Open, Phase, Usable, IssuedTokens
    <3>. QED BY <3>1, OpenKeepsLinear DEF FamilyInv
  <2>2. ASSUME NEW S \in SUBSET Session, NEW T \in SUBSET Token, F!Close(S, T) PROVE FamilyInv'
    <3>1. /\ Phase' = [s \in Session |-> IF s \in S THEN "revoked" ELSE Phase[s]]
          /\ Usable' = [s \in Session |-> IF s \in S THEN {} ELSE Usable[s]]
          /\ IssuedTokens' = IssuedTokens \cup T
      BY <2>2 DEF F!Close, Phase, Usable, IssuedTokens
    <3>. QED BY <3>1, CloseKeepsLinear DEF FamilyInv
  <2>3. ASSUME NEW s \in Session, NEW t \in Token, NEW S \in SUBSET Session, F!Rotate(s, t, S)
        PROVE  FamilyInv'
    <3>1. /\ Phase[s] = "open" /\ s \notin S /\ t \notin IssuedTokens
          /\ Phase' = [x \in Session |-> IF x \in S THEN "revoked" ELSE Phase[x]]
          /\ Usable' = [x \in Session |-> IF x = s THEN {t}
                                          ELSE IF x \in S THEN {} ELSE Usable[x]]
          /\ IssuedTokens' = IssuedTokens \cup {t}
      BY <2>3 DEF F!Rotate, Phase, Usable, IssuedTokens
    <3>. QED BY <3>1, RotateKeepsLinear DEF FamilyInv
  <2>4. CASE UNCHANGED F!vars
    <3>1. UNCHANGED <<Phase, Usable, IssuedTokens>>
      BY <2>4 DEF F!vars, Phase, Usable, IssuedTokens
    <3>. QED BY <3>1 DEF FamilyInv
  <2>. QED BY <2>1, <2>2, <2>3, <2>4 DEF F!Next
<1>3. FamilyInv => F!Linear
  BY DEF FamilyInv, LinearOf, F!Linear, Phase, Usable, IssuedTokens
<1>. QED BY <1>1, <1>2, <1>3, PTL DEF F!Spec

\* A login session has at most one usable token, a token serves one session,
\* and a session that ended has none (accounts.py, tokens.py), for any number of
\* accounts, sessions, tokens and requests.
THEOREM LinearTheorem == Spec => []F!Linear
  BY Refinement, FamilyLinear, PTL DEF ImplementsRefreshFamily

-----------------------------------------------------------------------------
(* The refresh lock.                                                       *)

\* A refresh lock is given up by its owner or by its time to live, for any
\* number of requests that may outlive their lock.
THEOREM MutexTheorem == Spec => MutexKeptByOwner
<1>. DEFINE P(t, q) == mutex[t] = q /\ mutex'[t] # q
                       => requests'[q] = Idle \/ UNCHANGED <<users, sessions, tokens, requests>>
<1>1. ASSUME TypeOK, NEW t \in Token, NEW q \in Request, NEW r \in Request, RequestStep(r),
             mutex[t] = q, mutex'[t] # q
      PROVE  requests'[q] = Idle
  <2>. USE NoneAssumption
  <2>1. ASSUME mutex' \in {Release(r), mutex}, Finish(r) PROVE requests'[q] = Idle
    <3>1. q = r BY <1>1, <2>1 DEF Release
    <3>. QED BY <1>1, <2>1, <3>1 DEF Finish, TypeOK
  <2>2. CASE LoginStep(r) BY <1>1, <2>2 DEF LoginStep, LoginVerify, LoginCommit
  <2>3. CASE RefreshStep(r)
    <3>1. ~ \E x \in Token : RefreshAcquire(r, x)
      BY <1>1 DEF RefreshAcquire, TypeOK
    <3>. QED BY <1>1, <2>1, <2>3, <3>1 DEF RefreshStep, RefreshPresent, RefreshLoadUser,
                RefreshRotate, RefreshRevoke
  <2>4. CASE LogoutStep(r) BY <1>1, <2>4 DEF LogoutStep, LogoutPresent, LogoutCommit
  <2>5. CASE OwnStep(r)
    BY <1>1, <2>5 DEF OwnStep, Authenticate, LockUser, LockSession, BulkRevoke,
       CommitPassword, CommitDelete, RevokeOne, SweepFind, SweepCommit
  <2>6. CASE ManagerStep(r)
    BY <1>1, <2>6 DEF ManagerStep, ManagerLock, CommitManaged, ManagerRevokeOne, ManagerSweep
  <2>7. CASE Abort(r) BY <1>1, <2>1, <2>7 DEF Abort
  <2>. QED BY <1>1, <2>2, <2>3, <2>4, <2>5, <2>6, <2>7 DEF RequestStep
<1>2. ASSUME NEW t \in Token, MutexExpires(t) \/ TokenExpires(t)
      PROVE  mutex' = mutex \/ UNCHANGED <<users, sessions, tokens, requests>>
  BY <1>2 DEF MutexExpires, TokenExpires
<1>3. IndInv /\ [Next]_vars => [\A t \in Token, q \in Request : P(t, q)]_vars
  <2>. SUFFICES ASSUME IndInv, [Next]_vars, NEW t \in Token, NEW q \in Request,
                       mutex[t] = q, mutex'[t] # q
                PROVE  requests'[q] = Idle \/ UNCHANGED <<users, sessions, tokens, requests>>
    OBVIOUS
  <2>. QED BY <1>1, <1>2 DEF Next, vars, IndInv
<1>. QED BY <1>3, Invariance, PTL DEF Spec, MutexKeptByOwner

-----------------------------------------------------------------------------
(* Changes of an account and its sessions.                                 *)

\* The fields of an account that end its sessions when they change.
SameStanding(u) ==
  /\ users'[u].version = users[u].version
  /\ users'[u].active  = users[u].active
  /\ users'[u].deleted = users[u].deleted

\* Only three commits change the standing of an account, and only of the
\* account they work on.
LEMMA StandingStep ==
  ASSUME TypeOK, NEW r \in Request, RequestStep(r), NEW u \in User, ~SameStanding(u)
  PROVE  /\ u = requests[r].user
         /\ requests[r].stage = "revoking"
         /\ \/ \E t \in Token : CommitPassword(r, t)
            \/ CommitDelete(r)
            \/ CommitManaged(r)
<1>0. ASSUME users' = users PROVE FALSE BY <1>0 DEF SameStanding
<1>1. CASE LoginStep(r)
  <2>1. ASSUME NEW s \in Session, NEW t \in Token, LoginCommit(r, s, t) PROVE SameStanding(u)
    <3>. DEFINE v == requests[r].user
                p == requests[r].seen.password
    <3>1. users' \in {users, [users EXCEPT ![v].password = p, ![v].legacy = FALSE]}
      BY <2>1 DEF LoginCommit
    <3>2. users' = users \/ (users'[u] \in {users[u], [users[u] EXCEPT !.password = p, !.legacy = FALSE]})
      BY <3>1 DEF TypeOK
    <3>3. users[u] \in UserRow BY DEF TypeOK
    <3>. HIDE DEF p
    <3>4. LET row == [users[u] EXCEPT !.password = p, !.legacy = FALSE]
          IN row.version = users[u].version /\ row.active = users[u].active
             /\ row.deleted = users[u].deleted
      BY ONLY <3>3, Zenon DEF UserRow
    <3>. QED BY <3>2, <3>4 DEF SameStanding
  <2>. QED BY <1>0, <1>1, <2>1 DEF LoginStep, LoginVerify
<1>2. CASE RefreshStep(r)
  BY <1>0, <1>2 DEF RefreshStep, RefreshAcquire, RefreshPresent, RefreshLoadUser,
     RefreshRotate, RefreshRevoke
<1>3. CASE LogoutStep(r) BY <1>0, <1>3 DEF LogoutStep, LogoutPresent, LogoutCommit
<1>4. CASE OwnStep(r)
  <2>1. CASE \E t \in Token : CommitPassword(r, t)
    BY <2>1 DEF CommitPassword, SameStanding, TypeOK
  <2>2. CASE CommitDelete(r) BY <2>2 DEF CommitDelete, SameStanding, TypeOK
  <2>. QED BY <1>0, <1>4, <2>1, <2>2 DEF OwnStep, Authenticate, LockUser, LockSession, BulkRevoke,
              RevokeOne, SweepFind, SweepCommit
<1>5. CASE ManagerStep(r)
  <2>1. CASE CommitManaged(r) BY <2>1 DEF CommitManaged, SameStanding, TypeOK
  <2>. QED BY <1>0, <1>5, <2>1 DEF ManagerStep, ManagerLock, ManagerRevokeOne, ManagerSweep
<1>6. CASE Abort(r) BY <1>0, <1>6 DEF Abort
<1>. QED BY <1>1, <1>2, <1>3, <1>4, <1>5, <1>6 DEF RequestStep

\* A commit of a password change ends every session of the account but its own,
\* and a deletion or a manager's operation ends them all.
LEMMA CommitEnds ==
  ASSUME IndInv, NEW r \in Request, requests[r].stage = "revoking",
         NEW s \in Session, sessions'[s].phase = "open", sessions'[s].user = requests[r].user,
         \/ \E t \in Token : CommitPassword(r, t)
         \/ CommitDelete(r)
         \/ CommitManaged(r)
  PROVE  /\ \E t \in Token : CommitPassword(r, t)
         /\ s = requests[r].session
         /\ ~Issued(sessions'[s].csrf)
<1>0. TypeOK /\ RequestOK(r) /\ requests[r].doomed \in SUBSET Session
  BY DEF IndInv, TypeOK, RequestState
<1>1. PICK S \in SUBSET Session : S = requests[r].doomed BY <1>0
<1>2. Others(r) \subseteq S BY <1>0, <1>1 DEF RequestOK
<1>3. ASSUME sessions' = EndSessions(S), requests[r].op \notin {"password", "revokeOthers"}
      PROVE  FALSE
  <2>1. sessions[s].phase = "open" /\ sessions[s].user = requests[r].user /\ s \notin S
    BY <1>0, <1>3, EndedRow
  <2>2. s \in Others(r) BY <1>3, <2>1 DEF Others, OpenSessions
  <2>. QED BY <1>2, <2>1, <2>2
<1>4. CASE CommitDelete(r) BY <1>1, <1>3, <1>4 DEF CommitDelete
<1>5. CASE CommitManaged(r) BY <1>1, <1>3, <1>5, ProfileAssumption DEF CommitManaged
<1>6. ASSUME NEW t \in Token, CommitPassword(r, t)
      PROVE  s = requests[r].session /\ ~Issued(sessions'[s].csrf)
  <2>1. /\ requests[r].op = "password" /\ ~Issued(t) /\ requests[r].session \in Session
        /\ sessions' = [EndSessions(S) EXCEPT ![requests[r].session].csrf = t]
    BY <1>0, <1>1, <1>6 DEF CommitPassword, RequestOK
  <2>2. sessions'[s].phase = EndSessions(S)[s].phase /\ sessions'[s].user = EndSessions(S)[s].user
    BY <1>0, <2>1, HelperTypes DEF SessionRow
  <2>3. sessions[s].phase = "open" /\ sessions[s].user = requests[r].user /\ s \notin S
    BY <1>0, <2>2, EndedRow
  <2>4. s = requests[r].session BY <1>2, <2>1, <2>3 DEF Others, OpenSessions
  <2>5. sessions'[s].csrf = t BY <1>0, <2>1, <2>4, HelperTypes DEF SessionRow
  <2>. QED BY <2>1, <2>4, <2>5
<1>. QED BY <1>4, <1>5, <1>6

\* However many requests run, a change of version or standing of an account
\* leaves no session of it open but the one that received new tokens.
THEOREM CredentialTheorem == Spec => CredentialChangeEndsSessions
<1>. DEFINE P(u) == (\/ users'[u].version # users[u].version
                     \/ users'[u].active # users[u].active
                     \/ users'[u].deleted # users[u].deleted)
                    => \A s \in OpenSessions(u)' : ~Issued(sessions'[s].csrf)
<1>1. IndInv /\ [Next]_vars => [\A u \in User : P(u)]_vars
  <2>. SUFFICES ASSUME IndInv, [Next]_vars, NEW u \in User, ~SameStanding(u),
                       NEW s \in OpenSessions(u)'
                PROVE  ~Issued(sessions'[s].csrf)
    BY DEF SameStanding
  <2>1. TypeOK BY DEF IndInv
  <2>2. \E r \in Request : RequestStep(r)
    BY DEF Next, vars, MutexExpires, TokenExpires, SameStanding
  <2>3. PICK r \in Request : RequestStep(r) BY <2>2
  <2>4. /\ u = requests[r].user /\ requests[r].stage = "revoking"
        /\ \/ \E t \in Token : CommitPassword(r, t)
           \/ CommitDelete(r)
           \/ CommitManaged(r)
    BY <2>1, <2>3, StandingStep
  <2>5. s \in Session /\ sessions'[s].phase = "open" /\ sessions'[s].user = u
    BY DEF OpenSessions
  <2>. QED BY <2>4, <2>5, CommitEnds
<1>. QED BY <1>1, Invariance, PTL DEF Spec, CredentialChangeEndsSessions

-----------------------------------------------------------------------------
(* The end of a session.                                                   *)

LEMMA RevokedStays ==
  ASSUME TypeOK, FamilyOK, NEW r \in Request, RequestOK(r), RequestStep(r),
         NEW s \in Session, sessions[s].phase = "revoked"
  PROVE  sessions'[s].phase = "revoked"
<1>1. ASSUME NEW x \in Session, NEW t \in Token, LoginCommit(r, x, t)
      PROVE  sessions'[s].phase = "revoked"
  BY <1>1 DEF LoginCommit, TypeOK
<1>2. ASSUME NEW t \in Token, RefreshRotate(r, t) PROVE sessions'[s].phase = "revoked"
  BY <1>2 DEF RefreshRotate, Rotated, TypeOK, SessionRow
<1>3. ASSUME LogoutCommit(r) PROVE \E S \in SUBSET Session : sessions' = EndSessions(S)
  <2>1. requests[r].session \in Session
    BY <1>3, NoneAssumption DEF LogoutCommit, RequestOK, Issued, TypeOK, TokenRow
  <2>. QED BY <1>3, <2>1 DEF LogoutCommit
<1>4. ASSUME NEW t \in Token, CommitPassword(r, t) PROVE sessions'[s].phase = "revoked"
  <2>1. requests[r].doomed \in SUBSET Session BY DEF TypeOK, RequestState
  <2>2. sessions'[s].phase = EndSessions(requests[r].doomed)[s].phase
    BY <1>4, <2>1, HelperTypes DEF CommitPassword, SessionRow
  <2>. QED BY <2>1, <2>2, EndedRow
<1>5. ASSUME NEW S \in SUBSET Session, sessions' = EndSessions(S)
      PROVE  sessions'[s].phase = "revoked"
  BY <1>5, EndedRow
<1>. QED BY <1>1, <1>2, <1>3, <1>4, <1>5, StepShape

\* A request takes up a rotation or a password change only for an open session.
LEMMA OnlyOpenSessionsAreTakenUp ==
  ASSUME TypeOK, NEW r \in Request, RequestOK(r), RequestStep(r),
         requests'[r].op \in {"rotate", "password"}
  PROVE  \/ sessions[requests'[r].session].phase = "open"
         \/ /\ requests[r].op = requests'[r].op
            /\ requests[r].session = requests'[r].session
<1>0. requests \in [Request -> RequestState] BY DEF TypeOK
<1>1. ASSUME requests'[r] = Idle PROVE FALSE BY <1>1 DEF Idle
<1>2. CASE LoginStep(r)
  <2>1. ASSUME NEW u \in User, LoginVerify(r, u) PROVE FALSE
    <3>1. requests'[r].op = "login" BY <1>0, <2>1 DEF LoginVerify, Idle
    <3>. QED BY <3>1
  <2>. QED BY <1>0, <1>1, <1>2, <2>1 DEF LoginStep, LoginCommit, Finish
<1>3. CASE RefreshStep(r)
  <2>1. ASSUME NEW t \in Token, RefreshAcquire(r, t) PROVE FALSE
    <3>1. requests'[r].op = "none" BY <1>0, <2>1 DEF RefreshAcquire, Idle
    <3>. QED BY <3>1
  <2>2. ASSUME NEW op \in {"rotate", "reuse", "expire"}, RefreshPresent(r, op)
        PROVE  sessions[requests'[r].session].phase = "open"
    <3>1. /\ requests'[r].op = op /\ requests'[r].session = requests[r].session
          /\ requests[r].stage = "queued"
      BY <1>0, <2>2 DEF RefreshPresent, RequestState
    <3>2. op = "rotate" BY <3>1
    <3>3. sessions[tokens[requests[r].token].family].phase = "open"
      BY <2>2, <3>2 DEF RefreshPresent, Verdict
    <3>. QED BY <3>1, <3>3 DEF RequestOK
  <2>3. ASSUME RefreshLoadUser(r)
        PROVE  requests[r].op = requests'[r].op /\ requests[r].session = requests'[r].session
    BY <1>0, <2>3 DEF RefreshLoadUser, RequestState
  <2>. QED BY <1>0, <1>1, <1>3, <2>1, <2>2, <2>3 DEF RefreshStep, RefreshRotate, RefreshRevoke, Finish
<1>4. CASE LogoutStep(r)
  <2>1. ASSUME NEW t \in Token, LogoutPresent(r, t) PROVE FALSE
    <3>1. requests'[r].op = "logout" BY <1>0, <2>1 DEF LogoutPresent, Idle
    <3>. QED BY <3>1
  <2>. QED BY <1>0, <1>1, <1>4, <2>1 DEF LogoutStep, LogoutCommit, Finish
<1>5. CASE OwnStep(r)
  <2>1. ASSUME NEW t \in Token, NEW op \in OwnOps, Authenticate(r, t, op)
        PROVE  sessions[requests'[r].session].phase = "open"
    <3>1. requests'[r].session = tokens[t].family BY <1>0, <2>1 DEF Authenticate, Idle
    <3>. QED BY <2>1, <3>1 DEF Authenticate
  <2>2. ASSUME LockUser(r) \/ LockSession(r) \/ BulkRevoke(r) \/ SweepFind(r)
        PROVE  requests[r].op = requests'[r].op /\ requests[r].session = requests'[r].session
    BY <1>0, <2>2 DEF LockUser, LockSession, BulkRevoke, SweepFind, RequestState
  <2>. QED BY <1>0, <1>1, <1>5, <2>1, <2>2
       DEF OwnStep, CommitPassword, CommitDelete, RevokeOne, SweepCommit, Finish
<1>6. CASE ManagerStep(r)
  <2>1. ASSUME NEW u \in User, NEW op \in ManagedOps, ManagerLock(r, u, op) PROVE FALSE
    <3>1. requests'[r].op = op BY <1>0, <2>1 DEF ManagerLock, Idle
    <3>. QED BY <3>1, ProfileAssumption
  <2>2. ASSUME NEW u \in User, ManagerSweep(r, u) PROVE FALSE
    <3>1. requests'[r].op = "sweep" BY <1>0, <2>2 DEF ManagerSweep, Idle
    <3>. QED BY <3>1
  <2>. QED BY <1>0, <1>1, <1>6, <2>1, <2>2 DEF ManagerStep, CommitManaged, ManagerRevokeOne, Finish
<1>7. CASE Abort(r) BY <1>0, <1>1, <1>7 DEF Abort, Finish
<1>. QED BY <1>2, <1>3, <1>4, <1>5, <1>6, <1>7 DEF RequestStep

LEMMA NoNewToken ==
  ASSUME TypeOK, FamilyOK, NEW r \in Request, RequestOK(r), RequestStep(r),
         NEW s \in Session, Drained(s), NEW t \in Token
  PROVE  tokens'[t].family = s <=> tokens[t].family = s
<1>. USE NoneAssumption
<1>1. ASSUME NEW x \in Session, NEW y \in Token, LoginCommit(r, x, y)
      PROVE  tokens'[t].family = s <=> tokens[t].family = s
  <2>1. x # s BY <1>1 DEF LoginCommit, Drained
  <2>. QED BY <1>1, <2>1 DEF LoginCommit, TypeOK, NewToken, NoTokenRow, Issued
<1>2. ASSUME NEW y \in Token, RefreshRotate(r, y)
      PROVE  tokens'[t].family = s <=> tokens[t].family = s
  <2>1. requests[r].session # s /\ requests[r].token \in Token
    BY <1>2 DEF RefreshRotate, Drained, RequestOK
  <2>2. /\ tokens'[y].family = requests[r].session /\ tokens[y].family = None
        /\ \A x \in Token \ {y} : tokens'[x].family = tokens[x].family
    BY <1>2, <2>1 DEF RefreshRotate, TypeOK, TokenRow, NewToken, NoTokenRow, Issued
  <2>. QED BY <2>1, <2>2
<1>3. ASSUME LogoutCommit(r) PROVE tokens'[t].family = s <=> tokens[t].family = s
  BY <1>3, RevokedRow DEF LogoutCommit, RevocableTokens
<1>4. ASSUME NEW y \in Token, CommitPassword(r, y)
      PROVE  tokens'[t].family = s <=> tokens[t].family = s
  <2>1. requests[r].session # s /\ requests[r].lost \in SUBSET Token /\ ~Issued(y)
    BY <1>4 DEF CommitPassword, Drained, TypeOK, RequestState
  <2>2. /\ tokens'[y].family = requests[r].session
        /\ \A x \in Token \ {y} : tokens'[x] = RevokeTokens(requests[r].lost)[x]
    BY <1>4, <2>1, HelperTypes DEF CommitPassword, NewToken, NoTokenRow
  <2>. QED BY <2>1, <2>2, RevokedRow DEF Issued
<1>. QED BY <1>1, <1>2, <1>3, <1>4, StepShape

\* A revoked session never opens again, and once the rotations and password
\* changes that had begun are over it gets no token, for any number of
\* sessions, tokens and requests.
THEOREM RevokedTheorem == Spec => RevokedSessionStaysEnded
<1>. DEFINE P(s) == /\ sessions[s].phase = "revoked" => sessions'[s].phase = "revoked"
                    /\ Drained(s) => /\ Drained(s)'
                                     /\ {t \in Token : tokens'[t].family = s}
                                          = {t \in Token : tokens[t].family = s}
<1>1. ASSUME IndInv, NEW r \in Request, RequestStep(r), NEW s \in Session PROVE P(s)
  <2>0. TypeOK /\ FamilyOK /\ RequestOK(r) BY <1>1 DEF IndInv
  <2>1. sessions[s].phase = "revoked" => sessions'[s].phase = "revoked"
    BY <1>1, <2>0, RevokedStays
  <2>2. ASSUME Drained(s), NEW q \in Request, requests'[q].session = s
        PROVE  requests'[q].op \notin {"rotate", "password"}
    <3>1. CASE q # r BY <1>1, <2>0, <2>2, <3>1, StepShape DEF Drained
    <3>2. CASE q = r
      BY <1>1, <2>0, <2>2, <3>2, OnlyOpenSessionsAreTakenUp DEF Drained
    <3>. QED BY <3>1, <3>2
  <2>3. Drained(s) => Drained(s)' BY <2>1, <2>2 DEF Drained
  <2>4. ASSUME Drained(s) PROVE \A t \in Token : tokens'[t].family = s <=> tokens[t].family = s
    BY <1>1, <2>0, <2>4, NoNewToken
  <2>. QED BY <2>1, <2>3, <2>4
<1>2. ASSUME TypeOK, NEW x \in Token, MutexExpires(x) \/ TokenExpires(x), NEW s \in Session
      PROVE  P(s)
  <2>1. sessions' = sessions /\ requests' = requests
    BY <1>2 DEF MutexExpires, TokenExpires
  <2>2. \A t \in Token : tokens'[t].family = tokens[t].family
    BY <1>2 DEF MutexExpires, TokenExpires, TypeOK, TokenRow
  <2>. QED BY <2>1, <2>2 DEF Drained
<1>3. IndInv /\ [Next]_vars => [\A s \in Session : P(s)]_vars
  <2>. SUFFICES ASSUME IndInv, Next, NEW s \in Session PROVE P(s) BY DEF vars
  <2>. QED BY <1>1, <1>2 DEF Next, IndInv
<1>. QED BY <1>3, Invariance, PTL DEF Spec, RevokedSessionStaysEnded

-----------------------------------------------------------------------------
(* What a locking read that refreshes the account buys: the admin profile. *)

\* A request that holds the lock of an account knows its current version.
SeenOK ==
  \A r \in Request :
    requests[r].stage \in {"userLocked", "sessionLocked", "revoking"} =>
      requests[r].seen.version = users[requests[r].user].version

LEMMA SeenByOthers ==
  ASSUME IndInv, SeenOK, NEW r \in Request, RequestStep(r), NEW q \in Request \ {r},
         requests'[q].stage \in {"userLocked", "sessionLocked", "revoking"}
  PROVE  requests'[q].seen.version = users'[requests'[q].user].version
<1>0. TypeOK /\ FamilyOK /\ RequestOK(r) /\ RequestOK(q) /\ LocksExclusive BY DEF IndInv
<1>1. requests'[q] = requests[q] BY <1>0, StepShape
<1>2. PICK u \in User : u = requests[q].user BY <1>0, <1>1 DEF RequestOK
<1>3. HoldsUser(q, u) BY <1>1, <1>2 DEF HoldsUser
<1>4. ASSUME ~SameStanding(u) PROVE FALSE
  <2>1. HoldsUser(r, u) BY <1>0, <1>4, StandingStep DEF HoldsUser
  <2>. QED BY <1>0, <1>3, <2>1 DEF LocksExclusive
<1>. QED BY <1>1, <1>2, <1>4 DEF SeenOK, SameStanding

LEMMA SeenByItself ==
  ASSUME FreshLock = TRUE, IndInv, SeenOK, NEW r \in Request, RequestStep(r),
         requests'[r].stage \in {"userLocked", "sessionLocked", "revoking"}
  PROVE  requests'[r].seen.version = users'[requests'[r].user].version
<1>0. TypeOK /\ requests \in [Request -> RequestState] BY DEF IndInv, TypeOK
<1>1. ASSUME requests'[r] = Idle PROVE FALSE BY <1>1 DEF Idle
<1>2. CASE LoginStep(r)
  <2>1. ASSUME NEW u \in User, LoginVerify(r, u) PROVE FALSE
    <3>1. requests'[r].stage = "verified" BY <1>0, <2>1 DEF LoginVerify, Idle
    <3>. QED BY <3>1
  <2>. QED BY <1>0, <1>1, <1>2, <2>1 DEF LoginStep, LoginCommit, Finish
<1>3. CASE RefreshStep(r)
  <2>1. ASSUME NEW t \in Token, RefreshAcquire(r, t) PROVE FALSE
    <3>1. requests'[r].stage = "queued" BY <1>0, <2>1 DEF RefreshAcquire, Idle
    <3>. QED BY <3>1
  <2>2. ASSUME NEW op \in {"rotate", "reuse", "expire"}, RefreshPresent(r, op) PROVE FALSE
    <3>1. requests'[r].stage = "presented" BY <1>0, <2>2 DEF RefreshPresent, RequestState
    <3>. QED BY <3>1
  <2>3. ASSUME RefreshLoadUser(r) PROVE FALSE
    <3>1. requests'[r].stage = "loaded" BY <1>0, <2>3 DEF RefreshLoadUser, RequestState
    <3>. QED BY <3>1
  <2>. QED BY <1>0, <1>1, <1>3, <2>1, <2>2, <2>3 DEF RefreshStep, RefreshRotate, RefreshRevoke, Finish
<1>4. CASE LogoutStep(r)
  <2>1. ASSUME NEW t \in Token, LogoutPresent(r, t) PROVE FALSE
    <3>1. requests'[r].stage = "leaving" BY <1>0, <2>1 DEF LogoutPresent, Idle
    <3>. QED BY <3>1
  <2>. QED BY <1>0, <1>1, <1>4, <2>1 DEF LogoutStep, LogoutCommit, Finish
<1>5. CASE OwnStep(r)
  <2>1. ASSUME NEW t \in Token, NEW op \in OwnOps, Authenticate(r, t, op) PROVE FALSE
    <3>1. requests'[r].stage = "authenticated" BY <1>0, <2>1 DEF Authenticate, Idle
    <3>. QED BY <3>1
  <2>2. ASSUME LockUser(r)
        PROVE  requests'[r].seen.version = users'[requests'[r].user].version
    <3>1. requests'[r].seen = users[requests[r].user] /\ requests'[r].user = requests[r].user
          /\ users' = users
      BY <1>0, <2>2 DEF LockUser, LockedRow, RequestState
    <3>. QED BY <3>1
  <2>3. ASSUME LockSession(r) \/ BulkRevoke(r)
        PROVE  requests'[r].seen.version = users'[requests'[r].user].version
    <3>1. /\ requests'[r].seen = requests[r].seen /\ requests'[r].user = requests[r].user
          /\ users' = users /\ requests[r].stage \in {"userLocked", "sessionLocked"}
      BY <1>0, <2>3 DEF LockSession, BulkRevoke, RequestState
    <3>. QED BY <3>1 DEF SeenOK
  <2>4. ASSUME SweepFind(r) PROVE FALSE
    <3>1. requests'[r].stage = "sweeping" BY <1>0, <2>4 DEF SweepFind, RequestState
    <3>. QED BY <3>1
  <2>. QED BY <1>0, <1>1, <1>5, <2>1, <2>2, <2>3, <2>4
       DEF OwnStep, CommitPassword, CommitDelete, RevokeOne, SweepCommit, Finish
<1>6. CASE ManagerStep(r)
  <2>1. ASSUME NEW u \in User, NEW op \in ManagedOps, ManagerLock(r, u, op)
        PROVE  requests'[r].seen.version = users'[requests'[r].user].version
    <3>1. requests'[r].seen = users[u] /\ requests'[r].user = u /\ users' = users
      BY <1>0, <2>1 DEF ManagerLock, Idle
    <3>. QED BY <3>1
  <2>2. ASSUME NEW u \in User, ManagerSweep(r, u) PROVE FALSE
    <3>1. requests'[r].stage = "sweeping" BY <1>0, <2>2 DEF ManagerSweep, Idle
    <3>. QED BY <3>1
  <2>3. ASSUME NEW s \in Session, ManagerRevokeOne(r, s) PROVE FALSE
    BY <2>3 DEF ManagerRevokeOne
  <2>. QED BY <1>0, <1>1, <1>6, <2>1, <2>2, <2>3 DEF ManagerStep, CommitManaged, Finish
<1>7. CASE Abort(r) BY <1>0, <1>1, <1>7 DEF Abort, Finish
<1>. QED BY <1>2, <1>3, <1>4, <1>5, <1>6, <1>7 DEF RequestStep

LEMMA SeenInvariance == ASSUME FreshLock = TRUE PROVE Spec => []SeenOK
<1>1. Init => SeenOK BY DEF Init, SeenOK, Idle
<1>2. IndInv /\ SeenOK /\ [Next]_vars => SeenOK'
  <2>. SUFFICES ASSUME IndInv, SeenOK, [Next]_vars PROVE SeenOK' OBVIOUS
  <2>1. ASSUME NEW r \in Request, RequestStep(r) PROVE SeenOK'
    BY <2>1, SeenByOthers, SeenByItself DEF SeenOK
  <2>2. ASSUME NEW t \in Token, MutexExpires(t) \/ TokenExpires(t) PROVE SeenOK'
    BY <2>2 DEF MutexExpires, TokenExpires, SeenOK
  <2>. QED BY <2>1, <2>2 DEF Next, vars, SeenOK
<1>. QED BY <1>1, <1>2, Invariance, PTL DEF Spec

\* The version after each of the three commits.
LEMMA VersionStep ==
  ASSUME IndInv, SeenOK, NEW r \in Request, requests[r].stage = "revoking",
         NEW u \in User, u = requests[r].user,
         \/ \E t \in Token : CommitPassword(r, t)
         \/ CommitDelete(r)
         \/ CommitManaged(r)
  PROVE  /\ users'[u].version >= users[u].version
         /\ hashes'[u] # hashes[u] => users'[u].version > users[u].version
<1>0. /\ users \in [User -> UserRow] /\ hashes \in [User -> Nat]
      /\ users[u].version \in Nat /\ requests[r].seen.version = users[u].version
  BY DEF IndInv, TypeOK, SeenOK, UserRow
<1>1. ASSUME NEW t \in Token, CommitPassword(r, t)
      PROVE  users'[u].version = users[u].version + 1
  BY <1>0, <1>1 DEF CommitPassword, UserRow
<1>2. ASSUME CommitDelete(r) PROVE users'[u].version = users[u].version + 1
  BY <1>0, <1>2 DEF CommitDelete
<1>3. ASSUME CommitManaged(r)
      PROVE  /\ users'[u].version \in {users[u].version, users[u].version + 1}
             /\ requests[r].op # "endAll" => users'[u].version = users[u].version + 1
             /\ requests[r].op = "endAll" => hashes' = hashes
  BY <1>0, <1>3 DEF CommitManaged, Managed
<1>. QED BY <1>0, <1>1, <1>2, <1>3

LEMMA HashStep ==
  ASSUME TypeOK, NEW r \in Request, RequestStep(r), NEW u \in User, hashes'[u] # hashes[u]
  PROVE  /\ u = requests[r].user
         /\ requests[r].stage = "revoking"
         /\ \/ \E t \in Token : CommitPassword(r, t)
            \/ CommitDelete(r)
            \/ CommitManaged(r)
<1>1. CASE LoginStep(r) BY <1>1 DEF LoginStep, LoginVerify, LoginCommit
<1>2. CASE RefreshStep(r)
  BY <1>2 DEF RefreshStep, RefreshAcquire, RefreshPresent, RefreshLoadUser,
     RefreshRotate, RefreshRevoke
<1>3. CASE LogoutStep(r) BY <1>3 DEF LogoutStep, LogoutPresent, LogoutCommit
<1>4. CASE OwnStep(r)
  BY <1>4 DEF OwnStep, Authenticate, LockUser, LockSession, BulkRevoke, CommitPassword,
     CommitDelete, RevokeOne, SweepFind, SweepCommit, TypeOK
<1>5. CASE ManagerStep(r)
  BY <1>5 DEF ManagerStep, ManagerLock, CommitManaged, ManagerRevokeOne, ManagerSweep, TypeOK
<1>6. CASE Abort(r) BY <1>6 DEF Abort
<1>. QED BY <1>1, <1>2, <1>3, <1>4, <1>5, <1>6 DEF RequestStep

\* With a refreshing read under the lock, no two changes of an account share a
\* version: every new password has a version of its own.
THEOREM VersionTheorem ==
  ASSUME FreshLock = TRUE PROVE Spec => NewPasswordRaisesVersion
<1>. DEFINE P(u) == /\ users'[u].version >= users[u].version
                    /\ hashes'[u] > hashes[u] => users'[u].version > users[u].version
<1>1. ASSUME IndInv, SeenOK, Next, NEW u \in User PROVE P(u)
  <2>0. TypeOK /\ users[u].version \in Nat /\ hashes[u] \in Nat BY <1>1 DEF IndInv, TypeOK, UserRow
  <2>1. CASE SameStanding(u) /\ hashes'[u] = hashes[u] BY <2>0, <2>1 DEF SameStanding
  <2>2. CASE ~(SameStanding(u) /\ hashes'[u] = hashes[u])
    <3>1. PICK r \in Request : RequestStep(r)
      BY <1>1, <2>2 DEF Next, MutexExpires, TokenExpires, SameStanding
    <3>2. /\ u = requests[r].user /\ requests[r].stage = "revoking"
          /\ \/ \E t \in Token : CommitPassword(r, t)
             \/ CommitDelete(r)
             \/ CommitManaged(r)
      BY <2>0, <2>2, <3>1, StandingStep, HashStep
    <3>3. /\ users'[u].version >= users[u].version
          /\ hashes'[u] # hashes[u] => users'[u].version > users[u].version
      BY <1>1, <3>2, VersionStep
    <3>4. hashes'[u] > hashes[u] => hashes'[u] # hashes[u] BY <2>0
    <3>. QED BY <3>3, <3>4
  <2>. QED BY <2>1, <2>2
<1>2. IndInv /\ SeenOK /\ [Next]_vars => [\A u \in User : P(u)]_vars
  BY <1>1
<1>. QED BY <1>2, Invariance, SeenInvariance, PTL DEF Spec, NewPasswordRaisesVersion

LEMMA OnlyLoginOpens ==
  ASSUME TypeOK, FamilyOK, NEW r \in Request, RequestOK(r), RequestStep(r),
         NEW s \in Session, sessions'[s].phase = "open", sessions[s].phase # "open"
  PROVE  \E t \in Token : LoginCommit(r, s, t)
<1>1. ASSUME NEW x \in Session, NEW t \in Token, LoginCommit(r, x, t) PROVE x = s
  BY <1>1 DEF LoginCommit, TypeOK
<1>2. ASSUME NEW t \in Token, RefreshRotate(r, t) PROVE FALSE
  BY <1>2 DEF RefreshRotate, Rotated, TypeOK, SessionRow
<1>3. ASSUME LogoutCommit(r) PROVE \E S \in SUBSET Session : sessions' = EndSessions(S)
  <2>1. requests[r].session \in Session
    BY <1>3, NoneAssumption DEF LogoutCommit, RequestOK, Issued, TypeOK, TokenRow
  <2>. QED BY <1>3, <2>1 DEF LogoutCommit
<1>4. ASSUME NEW t \in Token, CommitPassword(r, t) PROVE FALSE
  <2>1. requests[r].doomed \in SUBSET Session BY DEF TypeOK, RequestState
  <2>2. sessions'[s].phase = EndSessions(requests[r].doomed)[s].phase
    BY <1>4, <2>1, HelperTypes DEF CommitPassword, SessionRow
  <2>. QED BY <2>1, <2>2, EndedRow
<1>5. ASSUME NEW S \in SUBSET Session, sessions' = EndSessions(S) PROVE FALSE
  BY <1>5, EndedRow
<1>. QED BY <1>1, <1>2, <1>3, <1>4, <1>5, StepShape

\* With a refreshing read under the lock, a login that was checked before the
\* account was closed cannot commit after it: no closed account has an open
\* session, for any number of accounts and requests.
THEOREM ClosedTheorem ==
  ASSUME FreshLock = TRUE PROVE Spec => []ClosedAccountHasNoSession
<1>1. Init => ClosedAccountHasNoSession
  BY DEF Init, ClosedAccountHasNoSession, OpenSessions, NoSessionRow
<1>2. ASSUME IndInv, ClosedAccountHasNoSession, NEW r \in Request, RequestStep(r),
             NEW u \in User, NEW s \in Session,
             sessions'[s].phase = "open", sessions'[s].user = u
      PROVE  users'[u].active /\ ~users'[u].deleted
  <2>0. TypeOK /\ FamilyOK /\ RequestOK(r) BY <1>2 DEF IndInv
  <2>1. CASE sessions[s].phase # "open"
    <3>1. PICK t \in Token : LoginCommit(r, s, t) BY <1>2, <2>0, <2>1, OnlyLoginOpens
    <3>2. u = requests[r].user BY <1>2, <2>0, <3>1 DEF LoginCommit, TypeOK
    <3>3. users[u].active /\ ~users[u].deleted BY <3>1, <3>2 DEF LoginCommit, LockedRow
    <3>4. SameStanding(u)
      <4>1. requests[r].stage # "revoking" BY <3>1 DEF LoginCommit
      <4>. QED BY <1>2, <2>0, <4>1, StandingStep
    <3>. QED BY <3>3, <3>4 DEF SameStanding
  <2>2. CASE sessions[s].phase = "open"
    <3>1. sessions[s].user = u BY <1>2, <2>0, <2>2, FamilyStep DEF Kept
    <3>2. users[u].active /\ ~users[u].deleted
      BY <1>2, <2>2, <3>1 DEF ClosedAccountHasNoSession, OpenSessions
    <3>3. CASE SameStanding(u) BY <3>2, <3>3 DEF SameStanding
    <3>4. CASE ~SameStanding(u)
      <4>1. \E t \in Token : CommitPassword(r, t)
        BY <1>2, <2>0, <3>4, StandingStep, CommitEnds
      <4>2. users'[u].active = users[u].active /\ users'[u].deleted = users[u].deleted
        <5>1. users \in [User -> UserRow] BY <2>0 DEF TypeOK
        <5>. QED BY <4>1, <5>1 DEF CommitPassword, UserRow
      <4>. QED BY <3>2, <4>2
    <3>. QED BY <3>3, <3>4
  <2>. QED BY <2>1, <2>2
<1>3. ASSUME IndInv, ClosedAccountHasNoSession, NEW t \in Token, MutexExpires(t) \/ TokenExpires(t)
      PROVE  ClosedAccountHasNoSession'
  BY <1>3 DEF MutexExpires, TokenExpires, ClosedAccountHasNoSession, OpenSessions
<1>4. IndInv /\ ClosedAccountHasNoSession /\ [Next]_vars => ClosedAccountHasNoSession'
  <2>. SUFFICES ASSUME IndInv, ClosedAccountHasNoSession, [Next]_vars
                PROVE  ClosedAccountHasNoSession'
    OBVIOUS
  <2>1. ASSUME NEW r \in Request, RequestStep(r) PROVE ClosedAccountHasNoSession'
    BY <1>2, <2>1 DEF ClosedAccountHasNoSession, OpenSessions
  <2>. QED BY <1>3, <2>1 DEF Next, vars, ClosedAccountHasNoSession, OpenSessions
<1>. QED BY <1>1, <1>4, Invariance, PTL DEF Spec
=============================================================================
