SPECIFICATION Spec

CONSTANTS
  None = None
  User = {u1}
  Session = {s1}
  Token = {t1, t2}
  Request = {r1, r2}
  FreshLock = FALSE
  OwnOps <- FamilyOwnOps
  ManagedOps <- FamilyManagedOps
  MaxVersion = 2
  MaxHash = 2

SYMMETRY Symmetry

\* The tokens run out.
CHECK_DEADLOCK FALSE

INVARIANTS
  ClosedAccountHasNoSession
