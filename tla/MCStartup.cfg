SPECIFICATION Spec
CONSTANTS
  Daemons = {d1, d2}
  Guis = {g1, g2}
  Ports = {tcp, manage}
  NoFile = NoFile
  Stale = Stale
  Nobody = Nobody
  Lingers = Lingers
  MaxStarts = 4
CHECK_DEADLOCK FALSE
INVARIANTS TypeOK ListenerHears HomeIsMade
PROPERTIES OneDaemonStays
