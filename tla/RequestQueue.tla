------------------------------ MODULE RequestQueue -----------------------------
(******************************************************************************)
(* What the GUI may expect of its channel to the daemon, with no bytes, no    *)
(* buffers and no sockets: the daemon carries out the requests, all of them,  *)
(* as it understands them and in the order they were made, unless it dies,    *)
(* which loses those that wait.                                               *)
(*                                                                            *)
(* GuiRequests is shown to implement this module.                             *)
(******************************************************************************)
EXTENDS Integers, Sequences

CONSTANTS
  Path,             \* the files that may be added
  Mode,             \* the transfer modes
  Port,             \* the ports that may be asked for
  Understood(_),    \* the requests that one may be taken for
  Defaults          \* mode and ports of a daemon that has just started

Request == [op : {"add"}, path : Path] \cup [op : {"mode"}, mode : Mode, port : Port]

VARIABLES
  pending,          \* the requests made and not carried out, oldest first
  added,            \* the files added to the repository, in order
  settings          \* the transfer mode, and the port for each mode

vars == <<pending, added, settings>>

Init ==
  /\ pending = << >>
  /\ added = << >>
  /\ settings = Defaults

Submit ==
  \E r \in Request :
    /\ pending' = Append(pending, r)
    /\ UNCHANGED <<added, settings>>

\* The oldest request is carried out.
Perform ==
  /\ pending # << >>
  /\ pending' = Tail(pending)
  /\ \E r \in Understood(Head(pending)) :
       IF r.op = "add"
       THEN added' = Append(added, r.path) /\ UNCHANGED settings
       ELSE /\ settings' = [mode |-> r.mode, port |-> [settings.port EXCEPT ![r.mode] = r.port]]
            /\ UNCHANGED added

Lose ==
  /\ pending' = << >>
  /\ added' = << >>
  /\ settings' = Defaults

Next == Submit \/ Perform \/ Lose

\* A request that waits is carried out, or lost.
Spec == Init /\ [][Next]_vars /\ WF_vars(Perform)

================================================================================
