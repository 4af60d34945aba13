SPECIFICATION Spec
CONSTANTS
  Clients = {"tcp_sync_client", "udp_sync_client"}
  BASE = 7
  LIMIT = 19
CHECK_DEADLOCK FALSE
INVARIANTS TypeOK  
