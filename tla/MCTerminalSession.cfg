CONSTANTS
  s1 = s1
  s2 = s2
  c1 = c1
  c2 = c2
  c3 = c3
  h1 = h1
  u1 = u1
  u2 = u2
  p1 = p1
  w1 = w1
  None = None
  Sessions = {s1, s2}
  Conns = {c1, c2}
  Closers = {h1}
  Users = {u1, u2}
  Watchers = {w1}
  Projects = {p1}
  Descriptors = {1, 2}
  UserOf <- MCUserOf
SPECIFICATION Spec
SYMMETRY MCSymmetry
CHECK_DEADLOCK FALSE
INVARIANTS
  TypeOK
  DescriptorsOwned
  ReaderKeepsReading
  RefreshSparesShell
  ClosedIsStopped
