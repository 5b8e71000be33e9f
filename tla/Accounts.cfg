\* Two administrators and one unused id.
SPECIFICATION Spec
CONSTANTS
  a1 = a1
  a2 = a2
  c1 = c1
  c2 = c2
  n1 = n1
  Ids = {a1, a2, a3}
  Codes = {c1, c2, c3}
  Names = {n1}
  NoName = NoName
  Tokens = {t1, t2}
  Requests = {r1, r2}
  Seed <- MCSeed
  None = None
  TTL = 1
  MaxTime = 2
SYMMETRY Symmetry
INVARIANTS
  TypeOK
  CodesFindTheirUser
  SessionsHaveUsers
PROPERTIES
  LoginHonoursCode
  RefusedForGood
  ActiveAdminNeverLast
  LockOutIsFinal
\* Once every account is gone and the clock is at its bound nothing can happen.
CHECK_DEADLOCK FALSE
