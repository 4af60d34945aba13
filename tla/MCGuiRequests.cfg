SPECIFICATION Spec
CONSTANTS
  short = short
  longest = longest
  toolong = toolong
  Path = {short, longest, toolong}
  PathLen <- MCPathLen
  Port <- MCPorts
  TCP_PORT = 20000
  UDP_PORT = 30000
  StackByte = {0, 255}
  CleanHeap = FALSE
  Unterminated = Unterminated
  QLEN = 2
  MaxRequests = 3
  MaxDeaths = 1
CHECK_DEADLOCK FALSE
INVARIANTS TypeOK
PROPERTIES  DiesOfLongPaths
