SPECIFICATION Spec
CONSTANTS
  MAX_REPOS_NUM = 5
  PeerList <- MCPeerList
  master = master
  current = current
  LocalIps = {current}
  File = {f1, f2}
  Blank = Blank
  Garbage = Garbage
  QuietSwitch = FALSE
  RoomAware = TRUE
  MaxAdds = 3
  MaxSwitches = 2
  MaxSent = 6
INVARIANT NoTornEntry
