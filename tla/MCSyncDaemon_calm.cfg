SPECIFICATION Spec
CONSTANTS
  MAX_REPOS_NUM = 5
  PeerList <- MCPeerList
  master = master
  current = current
  LocalIps = {}
  File = {f1, f2}
  Blank = Blank
  Garbage = Garbage
  QuietSwitch = TRUE
  RoomAware = TRUE
  MaxAdds = 3
  MaxSwitches = 1
  MaxSent = 6
INVARIANTS CountIsExact SendsOldest CalmInv
PROPERTIES ImplementsQueue Progress
