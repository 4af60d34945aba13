SPECIFICATION NetworkSpec
CONSTANTS
  n1 = n1
  n2 = n2
  Node = {n1, n2}
  Transfer = {t1, t2, t3}
  Name <- MCNames
  Origin <- MCOrigin
  FirstHome <- MCNoFiles
  Version <- MCVersions
  Missing = Missing
  NUL = NUL
  NAMEBUF = 2
  BUF = 1
  BACKLOG = 1
  CLIENTS = 1
  MaxKills = 0
  MaxAdds = 3
CHECK_DEADLOCK FALSE
INVARIANTS SettledMeansSynced NoVersionLost
PROPERTIES  EverythingSettles
