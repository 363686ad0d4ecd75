SPECIFICATION Spec

CONSTANTS
  i1 = i1
  i2 = i2
  i3 = i3
  png = png
  jpg = jpg
  NoImage = NoImage
  Image = {i1, i2, i3}
  Slot = {png, jpg}
  SlotOf <- Formats
  Change = {1}
  Allowed = {"prepare", "database", "undo", "purge", "crash"}
  MaxRevision = 4
  MaxCrashes = 3

\* A process may refuse to start.
CHECK_DEADLOCK FALSE

INVARIANTS
  CommittedLogoServed
  LogoNeverLost
  StartsAfterCrash

PROPERTIES
  ChangesSettle
