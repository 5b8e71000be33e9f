\* Every setting of MCSettings.
SPECIFICATION Spec
CONSTANTS
  Users = {u1, u2}
  Contents = {i1, i2}
  MediaIds = {m1, m2}
  Requests = {r1, r2}
  Settings <- MCSettings
  None = None
SYMMETRY Symmetry
INVARIANTS
  TypeOK
  AcknowledgedRowsHaveFiles
  OnlyKnownLosses
  DownloadsAreWhole
  OrphansAreOfDeletedUsers
\* The ids run out, and every account may have been deleted.
CHECK_DEADLOCK FALSE
