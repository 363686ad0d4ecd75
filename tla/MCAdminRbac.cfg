SPECIFICATION Spec

CONSTANTS
  None = None
  Admin = {a1, a2}
  Role = {x1}
  Permission = {p1}
  Request = {r1, r2}

SYMMETRY Symmetry

INVARIANTS
  IndInv
  AtLeastOneSuperuser
  SessionPowerCurrent

PROPERTIES
  SuperuserTouchedBySuperuser
