------------------------------ MODULE MCSyncDaemon -----------------------------
(******************************************************************************)
(* Small instances of SyncDaemon for TLC: the machines whose peer lists the   *)
(* configurations pick from.                                                  *)
(******************************************************************************)
EXTENDS SyncDaemon

CONSTANTS master, current       \* the two addresses of initializePeerList

\* The list initializePeerList writes, with one of its entries that stay invalid.
MCPeerList ==
  << [ip |-> master, is_used |-> 0],
     [ip |-> current, is_used |-> 0],
     [ip |-> Blank, is_used |-> 1] >>

\* The same list without the entry that stays invalid.
MCShortList ==
  << [ip |-> master, is_used |-> 0], [ip |-> current, is_used |-> 0] >>

================================================================================
