SPECIFICATION Spec
CONSTANTS
  n1 = n1
  n2 = n2
  Node = {n1, n2}
  Transfer = {t1, t2}
  Name <- MCShortName
  FirstHome <- MCTwoHomes
  Missing = Missing
  NUL = NUL
  NAMEBUF = 2
  BUF = 2
  BACKLOG = 1
  CLIENTS = 1
  MaxKills = 0
PROPERTIES EveryTransferEnds
