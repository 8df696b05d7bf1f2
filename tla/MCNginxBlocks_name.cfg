SPECIFICATION Spec
CONSTANTS
  shop = shop
  blog = blog
  dotted = dotted
  main = main
  a = a
  b = b
  p1 = p1
  p2 = p2
  p3 = p3
  p4 = p4
  p5 = p5
  p6 = p6
  p7 = p7
  confd = confd
  NoRow = NoRow
  None = None
  Projects <- MCProjects
  NameOf <- MCNamesDotted
  Safe <- MCSafe
  Edits <- MCEdits
  Chosen <- MCChosen
  MainConf = main
  Confs <- MCConfs
  Pattern <- MCPattern
  DirOf <- MCDirOf
  Folders <- MCFolders
  Installed <- MCInstalled
  MaxLines = 14
INVARIANT
  FoundAgain
