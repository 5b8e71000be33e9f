\* The server is stopped while the command runs.
SPECIFICATION Spec
CONSTANTS
  u1 = u1
  u2 = u2
  e1 = e1
  e2 = e2
  i1 = i1
  i2 = i2
  p1 = p1
  p2 = p2
  m1 = m1
  Users = {u1, u2}
  DigestIds = {d1, d2}
  Edits = {e1, e2}
  Places = {p1, p2}
  Contents = {i1, i2}
  MediaIds = {m1, m2, m3}
  Sent <- SentImage
  Legacy <- TwoImages
  LegacyMedia <- MediaBefore
  None = None
  MaxVersion = 2
  MaxRuns = 2
  Serving = FALSE
SYMMETRY Symmetry
INVARIANTS
  TypeOK
  NoInlineLeft
PROPERTIES
  
  ImplementsStore
\* Every digest may be gone and the runs used up.
CHECK_DEADLOCK FALSE
