SPECIFICATION Spec
CONSTANTS
  Port = {20000, 30000}
  TCP_PORT = 20000
  UDP_PORT = 30000
  MANAGE_PORT = 10021
  Askers = {a1, a2}
  Nobody = Nobody
  BACKLOG = 1
  MaxMoves = 2
INVARIANTS TypeOK OneLateAnswer  
PROPERTIES UnmovedPortIsServed EveryQueryAnswered
CHECK_DEADLOCK FALSE
