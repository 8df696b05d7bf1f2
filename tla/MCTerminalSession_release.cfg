CONSTANTS
  s1 = s1
  s2 = s2
  c1 = c1
  c2 = c2
  c3 = c3
  h1 = h1
  u1 = u1
  u2 = u2
  None = None
  Sessions = {s1, s2}
  Conns = {c1, c3}
  Closers = {h1}
  Users = {u1, u2}
  Watchers = {}
  Projects = {}
  Descriptors = {1, 2}
  UserOf <- MCUserOf
SPECIFICATION Spec
CHECK_DEADLOCK FALSE
PROPERTIES
  ClosedIsReleased
