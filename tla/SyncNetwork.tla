------------------------------ MODULE SyncNetwork ------------------------------
(******************************************************************************)
(* The whole: a user gives a machine a new version of a file, and in the end  *)
(* every machine has it.  The GUI copies the file into the home directory     *)
(* (copy_file_to_apphome) and then tells the daemon; the daemon queues the    *)
(* file for each peer; its client transfers one entry after the other.        *)
(*                                                                            *)
(* Composed of FileTransfer, step by step; of SyncDaemon in the form of the   *)
(* queue it implements (TaskQueue); and of GuiRequests in the form of its own *)
(* (RequestQueue).  So the user is the one those two need: modes are switched *)
(* and files added only when the daemon can take it; and names are neither    *)
(* blank nor too long for the server.  Nobody dies.                           *)
(******************************************************************************)
EXTENDS FileTransfer

CONSTANTS
  Origin,           \* the machine at which the user adds each file
  Version,          \* the contents the user may give a file
  MaxAdds           \* bound: files added

ASSUME OriginAssumption == DOMAIN Origin = Name /\ \A f \in Name : Origin[f] \in Node
ASSUME FitAssumption == \A f \in Name : f # << >> /\ Len(f) < NAMEBUF
ASSUME FiniteAssumption == IsFiniteSet(Node) /\ IsFiniteSet(Transfer)
ASSUME ModeAssumption == CLIENTS = 1
ASSUME VersionAssumption == \A v \in Version : v # Missing /\ v \in Seq(Chars(v))

VARIABLES
  todo,     \* each daemon's queue: the pairs <<file, peer>> not yet sent
  cp,       \* each GUI's copy at work: a file and its content, or NoCopy
  adds,     \* files added so far (bounded)
  given     \* history: which files these are

network == <<todo, cp, adds, given>>
allvars == <<vars, network>>

NoCopy == [name |-> << >>, content |-> Missing]

NetworkInit ==
  /\ Init
  /\ todo = [n \in Node |-> << >>]
  /\ cp = [n \in Node |-> NoCopy]
  /\ adds = 0
  /\ given = {}

--------------------------------------------------------------------------------

\* Fault: this machine counts as a peer.
EntriesEverywhere(n, f) == SetToSeq({<<f, m>> : m \in Node})

\* addItem2SyncRepos: one entry for each peer that is not this machine.
Entries(n, f) == SetToSeq({<<f, m>> : m \in Node \ {n}})

\* add_entry_unsync_list begins: cp empties the file it finds.
AddBegins(f, content) ==
  LET n == Origin[f]
  IN  /\ up[n]
      /\ cp[n] = NoCopy
      /\ adds < MaxAdds
      /\ adds' = adds + 1
      /\ given' = given \cup {f}
      /\ cp' = [cp EXCEPT ![n] = [name |-> f, content |-> content]]
      /\ Store(n, f, << >>, xfer)
      /\ UNCHANGED <<up, srv, kills, todo>>

\* Fault: a file that is queued already is not queued again.
AddEndsOnce(n) ==
  LET f == cp[n].name
  IN  /\ cp[n] # NoCopy
      /\ cp' = [cp EXCEPT ![n] = NoCopy]
      /\ Store(n, f, cp[n].content, xfer)
      /\ todo' = [todo EXCEPT ![n] = @ \o
                    SelectSeq(Entries(n, f), LAMBDA e : ~ Contains(todo[n], e))]
      /\ UNCHANGED <<up, srv, kills, adds, given>>

\* It ends: the file is whole, and then the daemon is told.
AddEnds(n) ==
  LET f == cp[n].name
  IN  /\ cp[n] # NoCopy
      /\ cp' = [cp EXCEPT ![n] = NoCopy]
      /\ Store(n, f, cp[n].content, xfer)
      /\ todo' = [todo EXCEPT ![n] = @ \o Entries(n, f)]
      /\ UNCHANGED <<up, srv, kills, adds, given>>

\* The client takes the oldest entry.
SendOldest(n) ==
  /\ todo[n] # << >>
  /\ \E t \in Transfer : Dial(t, n, Head(todo[n])[2], Head(todo[n])[1])
  /\ UNCHANGED network

\* Its last step, whichever that is, removes the entry.
ClientMoves(t) ==
  /\ ClientStep(t)
  /\ todo' = IF xfer'[t].at \in Sending THEN todo
             ELSE [todo EXCEPT ![xfer[t].from] = Drop(@, 1)]
  /\ UNCHANGED <<cp, adds, given>>

ServerMoves(n) == ServerStep(n) /\ UNCHANGED network
FlushMoves(n)  == Flush(n) /\ UNCHANGED network

NetworkNext ==
  \/ \E f \in Name, content \in Version : AddBegins(f, content)
  \/ \E n \in Node : AddEnds(n) \/ SendOldest(n) \/ ServerMoves(n) \/ FlushMoves(n)
  \/ \E t \in Transfer : ClientMoves(t)

\* Every thread of every machine is scheduled, and so is cp.
NetworkSpec ==
  /\ NetworkInit /\ [][NetworkNext]_allvars
  /\ \A n \in Node :
       WF_allvars(AddEnds(n)) /\ WF_allvars(SendOldest(n)) /\ WF_allvars(ServerMoves(n))
  /\ \A t \in Transfer : WF_allvars(ClientMoves(t))

--------------------------------------------------------------------------------
(* Properties. *)

\* Nothing is left to do for file f.
Settled(f) ==
  /\ \A n \in Node : cp[n].name # f /\ \A m \in Node : ~ Contains(todo[n], <<f, m>>)
  /\ \A t \in Transfer : xfer[t].at # "unused" => xfer[t].name # f

\* Transfer t takes file f to machine m.
Carries(t, f, m) == xfer[t].at # "unused" /\ xfer[t].name = f /\ xfer[t].to = m

\* Machine m has the origin's version of f, without its NUL characters.
SameAtPeer(f, m) == home[m][f] = NonNul(home[Origin[f]][f])

\* When nothing is left to do for a file that was added, every machine has its
\* newest version.  The client reads a file long after it was added, perhaps while
\* the GUI is already writing the next version, and a peer may then get a piece of
\* each; but the next version is queued behind it, after it is whole.
SettledMeansSynced ==
  \A f \in given : Settled(f) => \A m \in Node \ {Origin[f]} : SameAtPeer(f, m)

\* Why that is so, at every moment: the newest version of a file, once it is whole,
\* is queued for a peer, and if its entry is the one at work then what was sent so
\* far is of that version; or it was sent, all of it; or it is there, and nothing
\* older is on its way to replace it.
Queued(f, m) ==
  \E i \in DOMAIN todo[Origin[f]] :
    /\ todo[Origin[f]][i] = <<f, m>>
    /\ i = 1 => \A t \in Transfer :
                  xfer[t].from = Origin[f] /\ xfer[t].at = "copy" => xfer[t].stable
Sent(f, m) ==
  \E t \in Transfer : /\ Carries(t, f, m) /\ xfer[t].at = "done" /\ xfer[t].stable
                      /\ xfer[t].src = home[Origin[f]][f]
Arrived(f, m) == SameAtPeer(f, m) /\ \A t \in Transfer : ~ Carries(t, f, m)

NoVersionLost ==
  \A f \in given : \A m \in Node \ {Origin[f]} :
    cp[Origin[f]].name = f \/ Queued(f, m) \/ Sent(f, m) \/ Arrived(f, m)

\* A peer never sees a file before it was given to that file's origin, and a
\* transfer never changes the origin's own file: there is no way back.
OneWay ==
  [][\A f \in Name :
       home'[Origin[f]][f] # home[Origin[f]][f] => cp' # cp]_allvars

\* A user who comes to an end of adding sees every file settle.
EverythingSettles == <>[](\A f \in Name : Settled(f))

================================================================================
