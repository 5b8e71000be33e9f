SPECIFICATION PgApiSpec
CONSTANTS
  u1 = u1
  e1 = e1
  t1 = t1
  analytical = analytical
  Users = {u1}
  DigestIds = {d1, d2}
  Requests = {r1, r2}
  Tx = {r1, r2, c1}
  Titles = {t1}
  Untitled = t1
  Blank = blank
  KnownTypes = {analytical}
  DefaultType = analytical
  UnknownType = unknown
  NoType = notype
  ChecksTypes = TRUE
  Edits = {e1}
  Images = {"none", "inline", "media"}
  Sent <- MCSent
  Legacy <- MCLegacy
  None = None
  MaxVersion = 3
SYMMETRY Symmetry
PROPERTIES
  ImplementsApi
  RollbackRestoresRevision
\* The system stops when every account has been deleted.
CHECK_DEADLOCK FALSE
