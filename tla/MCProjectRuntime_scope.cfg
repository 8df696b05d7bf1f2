SPECIFICATION Spec
CONSTANTS
  Ops = {o1, o2}
  Pids = {i1, i2}
  NoPort = NoPort  NoPid = NoPid  NoMeta = NoMeta  Dead = Dead  Stranger = Stranger
  shop = shop  blog = blog  p8000 = p8000  p9000 = p9000
  Projects <- MCProjects
  Ports <- MCPorts
  Binds <- MCBinds
  Selected <- MCSelected
  MaxStarts = 3
SYMMETRY MCSymmetry
CHECK_DEADLOCK FALSE
INVARIANTS
  StopKillsOnlyOwn
