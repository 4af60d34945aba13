SPECIFICATION Spec
CONSTANTS
  MAX_REPOS_NUM = 2
  PeerList <- MCShortList
  master = master
  current = current
  LocalIps = {current}
  File = {f1}
  Blank = Blank
  Garbage = Garbage
  QuietSwitch = FALSE
  RoomAware = FALSE
  MaxAdds = 3
  MaxSwitches = 1
  MaxSent = 5
INVARIANTS TypeOK LockDiscipline RingLedger 
