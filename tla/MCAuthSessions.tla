--------------------------- MODULE MCAuthSessions ---------------------------
(***************************************************************************)
(* AuthSessions on small sets, with the symmetry of the interchangeable    *)
(* ones.  Only invariants and action properties are checked under it.      *)
(***************************************************************************)
EXTENDS AuthSessions, TLC

Symmetry == Permutations(Session) \cup Permutations(Token) \cup Permutations(Request)

\* Everything that can happen to an account.
EveryOwnOp == {"password", "delete", "revoke", "revokeOthers"}
EveryManagedOp == {"enable", "disable", "remove", "restore", "reset", "regrant",
                   "endAll", "endOne", "sweep"}

\* The rotation of one session's tokens against some of what can end it.
FamilyOwnOps == {"password", "revoke"}
FamilyManagedOps == {"disable", "endOne", "sweep"}
=============================================================================
