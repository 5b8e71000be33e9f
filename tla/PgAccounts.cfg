\* PostgresStore: an administrator, accounts that come and go, one free code.
SPECIFICATION PgSpec
CONSTANTS
  a1 = a1
  c1 = c1
  n1 = n1
  Ids = {a1, a2, a3}
  Codes = {c1, c2}
  Names = {n1}
  NoName = NoName
  Tokens = {t1, t2}
  Requests = {r1, r2}
  Seed <- MCSeed
  None = None
  TTL = 1
  MaxTime = 1
SYMMETRY Symmetry
PROPERTY ImplementsAccounts
\* Once every account is gone and the clock is at its bound nothing can happen.
CHECK_DEADLOCK FALSE
