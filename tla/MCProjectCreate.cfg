SPECIFICATION Spec
CONSTANTS
  Requests = {r1, r2}
  Faulty = {r1}
  NoDb = NoDb
  NoPort = NoPort
  ann = ann  bob = bob  app = app  web = web
  annApp = annApp  annWeb = annWeb
  py1 = py1  py2 = py2  shop = shop  p1 = p1  p2 = p2
  Payloads <- MCPayloads
  Owners <- MCOwners
  Names <- MCNames
  Dirs <- MCDirs
  Envs <- MCEnvs
  Dbs <- MCDbs
  Ports <- MCPorts
INVARIANTS
  TypeOK
  RecordLastInFirstOut
  LeftoversAreReported
  DatabaseHasOneHolder
  SerialRequestsKeepApart
