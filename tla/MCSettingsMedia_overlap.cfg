SPECIFICATION Spec

CONSTANTS
  i1 = i1
  i2 = i2
  i3 = i3
  png = png
  jpg = jpg
  NoImage = NoImage
  Image = {i1, i2, i3}
  Slot = {png, jpg}
  SlotOf <- Formats
  Change = {1, 2}
  Allowed = {"prepare", "purge", "crash", "patch"}
  MaxRevision = 4
  MaxCrashes = 2

\* A process may refuse to start.
CHECK_DEADLOCK FALSE

INVARIANTS
  IndInv

PROPERTIES
  NothingOverwritten
