\* DigestApi over MemoryStore, which checks no types.
SPECIFICATION ApiSpec
CONSTANTS
  u1 = u1
  e1 = e1
  e2 = e2
  Users = {u1, u2}
  DigestIds = {d1}
  Requests = {r1, r2}
  Titles = {untitled, t1}
  Untitled = untitled
  Blank = blank
  KnownTypes = {analytical}
  DefaultType = analytical
  UnknownType = unknown
  NoType = notype
  ChecksTypes = FALSE
  Edits = {e1, e2}
  Images = {"none", "inline", "foreign", "media"}
  Sent <- MCSent
  Legacy <- MCLegacy
  None = None
  MaxVersion = 3
SYMMETRY Symmetry
INVARIANTS
  HistoryComplete
  OwnersExist
PROPERTIES
  HistoryIsAppendOnly
  RollbackKeepsTitle
  OnlyOwnerChanges
  NoStorableImageInline
\* The system stops when every account has been deleted.
CHECK_DEADLOCK FALSE
