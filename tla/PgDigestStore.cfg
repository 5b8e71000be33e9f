SPECIFICATION FairPgSpec
CONSTANTS
  u1 = u1
  e1 = e1
  t1 = t1
  analytical = analytical
  Users = {u1, u2}
  DigestIds = {d1, d2}
  Tx = {c1, c2, c3}
  Titles = {t1}
  KnownTypes = {analytical}
  UnknownType = unknown
  NoType = notype
  ChecksTypes = TRUE
  Edits = {e1}
  Images = {"none", "foreign"}
  Legacy <- MCLegacy
  None = None
  MaxVersion = 2
INVARIANTS
  TablesCorrect
  VersionsAreFree
PROPERTIES
  ImplementsStore
  TransactionsEnd
\* The system stops when every account has been deleted.
CHECK_DEADLOCK FALSE
