SPECIFICATION Spec

CONSTANTS
  None = None
  User = {u1}
  Session = {s1, s2}
  Token = {t1, t2}
  Request = {r1, r2}
  FreshLock = TRUE
  OwnOps <- EveryOwnOp
  ManagedOps <- EveryManagedOp
  MaxVersion = 2
  MaxHash = 2

SYMMETRY Symmetry

\* The tokens run out.
CHECK_DEADLOCK FALSE

INVARIANTS
  IndInv
  ClosedAccountHasNoSession

PROPERTIES
  RevokedSessionStaysEnded
  MutexKeptByOwner
  ImplementsRefreshFamily
  CredentialChangeEndsSessions
