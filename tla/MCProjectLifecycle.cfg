CONSTANTS
  ann = ann  bob = bob  root = root
  far = far  Here = Here
  shop = shop  blog = blog  wiki = wiki  desk = desk
  d1 = d1  d2 = d2  d3 = d3  d4 = d4  base = base
  e1 = e1  e2 = e2  e3 = e3
  m1 = m1  m2 = m2  m3 = m3
  c1 = c1  c2 = c2
  p1 = p1  p2 = p2  p3 = p3  p4 = p4
  t1 = t1  Built = Built
  None = None  Keep = Keep
  r1 = r1  r2 = r2
  Requests = {r1, r2}
  Faulty = {r1}
  Roots = {root}
  Servers = {Here, far}
  Serving = {Here, far}
  Confs = {c1, c2}
  Unsafe = {base}
  Ids = {1, 2, 3, 4, 5, 6}
  MainConf <- MCMainConf
  MayUse <- MCMayUse
  Bodies <- MCBodies
  Plain <- MCPlain
  Installed <- MCInstalled
SPECIFICATION Spec
CHECK_DEADLOCK FALSE
INVARIANTS
  TypeOK
  RepeatedDeletionGetsThrough
  NamesUniqueSerially
PROPERTIES
  DeletedStaysDeleted
  DeletionCompletes
  ChangeKeepsOne
  SettingsKeepData
  SettingsKeepTheBlock
