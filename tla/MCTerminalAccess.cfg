CONSTANTS
  r1 = r1  r2 = r2  k1 = k1  k2 = k2
  p1 = p1  p2 = p2  s1 = s1  s2 = s2  w1 = w1
  t1 = t1  t2 = t2  x1 = x1  x2 = x2
  Path = Path  Home = Home  Base = Base  None = None
  Requests = {r1, r2}
  Faulty = {r1}
  Ids = {1, 2, 3, 4, 5}
  ServerIds = {1, 2, 3}
  Projects = {p1, p2}
  Calls = {k1, k2}
  Sessions = {s1, s2}
  Tickets = {t1, t2}
  TTL = 1
  MaxTime = 1
  MaxBegun = 3
  Bodies <- MCBodies
  CallBodies <- MCCallBodies
  Names <- MCNames
  Addresses <- MCAddresses
  Installed <- MCInstalled
  Sockets <- MCSockets
  FirstSessions <- MCSessions
  FirstTickets <- MCTickets
SPECIFICATION Spec
CHECK_DEADLOCK FALSE
INVARIANTS
  TypeOK
  ProjectsHaveOwners
  SomebodyAdministers
  TextNamesTheAccounts
  TicketServesOnce
PROPERTIES
  SessionsKeepTheRest
