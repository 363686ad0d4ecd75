SPECIFICATION Spec

CONSTANTS
  None = None
  c1 = c1
  c2 = c2
  Call = {c1, c2}
  MaxIssued = 3

INVARIANTS
  LoneTabKeepsSession

PROPERTIES
  SessionErrorsTrue
  EveryCallEnds
