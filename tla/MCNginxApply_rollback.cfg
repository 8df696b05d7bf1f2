CONSTANTS
  a = a
  b = b
  r1 = r1
  r2 = r2
  r3 = r3
  NoBlock = NoBlock
  Missing = Missing
  Projects = {a, b}
  Ports = {80, 81, 99}
  Broken = {99}
  Requests = {r1, r2, r3}
  ProjOf <- MCProjOf
  PortOf <- MCPortOf
  Serial = FALSE
SPECIFICATION Spec
CHECK_DEADLOCK FALSE
INVARIANTS
  FailuresKeepTheFile
