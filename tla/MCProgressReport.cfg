SPECIFICATION Spec
CONSTANTS
  f1 = f1
  f2 = f2
  File = {f1, f2}
  NameLen <- MCNameLen
  Mangled = Mangled
  Size = {0, 4, 7}
  Seconds = {0, 1}
  Port = {40000, 20480, 80}
  PadByte = 32
  BUF = 2
  REPORT = 2
  QLEN = 1
  MaxTransfers = 2
  MaxRewrites = 1
  MaxStops = 1
CHECK_DEADLOCK FALSE
INVARIANTS TypeOK 
PROPERTIES BarNeverGoesBack CompletionIsShown
