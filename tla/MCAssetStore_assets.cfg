SPECIFICATION Spec

CONSTANTS
  Asset = {a1, a2, a3}
  Content = {c1, c2}
  Article = {p1}
  Account = {u1}
  Request = {r1, r2}
  None = None
  Allowed = {"storage", "database", "restore", "crash"}

SYMMETRY Symmetry

INVARIANTS
  IndInv
  ReferencesHold
  ContentKept
  ReferencedServed
