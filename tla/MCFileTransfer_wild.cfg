SPECIFICATION Spec
CONSTANTS
  n1 = n1
  n2 = n2
  Node = {n1, n2}
  Transfer = {t1, t2}
  Name <- MCNames
  FirstHome <- MCOneHome
  Missing = Missing
  NUL = NUL
  NAMEBUF = 2
  BUF = 1
  BACKLOG = 1
  CLIENTS = 2
  MaxKills = 1
SYMMETRY Symmetry
INVARIANTS  StreamKept StuckOnlyOnBlank HeldIsBeginning TypeOK
PROPERTIES FaithfulCopy
CHECK_DEADLOCK FALSE
