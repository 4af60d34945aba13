SPECIFICATION Spec
CONSTANTS
  MAX_REPOS_NUM = 2
  PeerList <- MCShortList
  master = master
  current = current
  LocalIps = {current}
  File = {f1}
  Blank = Blank
  Garbage = Garbage
  QuietSwitch = TRUE
  RoomAware = FALSE
  MaxAdds = 3
  MaxSwitches = 0
  MaxSent = 6
INVARIANT EmptyMeansSynced
