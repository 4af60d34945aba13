-------------------------------- MODULE Startup --------------------------------
(******************************************************************************)
(* How the processes of one machine come up, beside one another: the daemon   *)
(* and the GUI, each of which may be started when the other is just starting, *)
(* when one of its own kind is still running, or again after it has ended.    *)
(* They share the home directory (set_sync_home), a socket path for each kind *)
(* of process, and the stream ports of the daemon.                            *)
(******************************************************************************)
EXTENDS Naturals, FiniteSets

CONSTANTS
  Daemons, Guis,    \* the processes that may be started
  Ports,            \* the stream ports a daemon binds, each from its own thread
  NoFile,           \* the path names nothing
  Stale,            \* the path names the socket of a process that has ended
  Nobody,           \* the port is free
  Lingers,          \* the port is held by connections in TIME_WAIT
  MaxStarts         \* bound: processes started

ASSUME ProcessAssumption ==
  /\ Daemons \cap Guis = {}
  /\ {NoFile, Stale, Nobody, Lingers} \cap (Daemons \cup Guis) = {}
  /\ MaxStarts \in Nat

Processes == Daemons \cup Guis
Kind(p) == IF p \in Daemons THEN "daemon" ELSE "gui"

VARIABLES
  pc,         \* where each process is, or "none"
  dir,        \* the home directory exists
  files,      \* the control files in it
  path,       \* what SKADDRESS and SK_GUI_ADDRESS1 name
  port,       \* who has each stream port
  starts,     \* processes started so far (bounded)
  torn,       \* history: a process was ended between mkdir and the last file
  crowded     \* history: two of a kind ran at the same time

vars == <<pc, dir, files, path, port, starts, torn, crowded>>

Init ==
  /\ pc = [p \in Processes |-> "none"]
  /\ dir = FALSE /\ files = {}
  /\ path = [k \in {"daemon", "gui"} |-> NoFile]
  /\ port = [q \in Ports |-> Nobody]
  /\ starts = 0 /\ torn = FALSE /\ crowded = FALSE

Running(p) == pc[p] # "none"
PastHome(p) == pc[p] \in {"unlink", "bind", "ready"}
GoTo(p, point) == pc' = [pc EXCEPT ![p] = point]

\* exit or a signal.  The path stays behind; so do, for a minute, ports at which
\* the daemon closed connections first, as the manager does.
End(p) ==
  /\ GoTo(p, "none")
  /\ path' = [k \in DOMAIN path |-> IF path[k] = p THEN Stale ELSE path[k]]
  /\ \E left \in [Ports -> {Nobody, Lingers}] :
       port' = [q \in Ports |-> IF port[q] = p THEN left[q] ELSE port[q]]
  /\ torn' = (torn \/ pc[p] \in {"peers", "resources"})
  /\ UNCHANGED <<dir, files, starts, crowded>>

--------------------------------------------------------------------------------

\* The user starts a process.
Start(p) ==
  /\ ~ Running(p)
  /\ starts < MaxStarts
  /\ starts' = starts + 1
  /\ crowded' = (crowded \/ \E q \in Processes : Kind(q) = Kind(p) /\ Running(q))
  /\ GoTo(p, "stat")
  /\ UNCHANGED <<dir, files, path, port, torn>>

\* set_sync_home: is the directory there?
StatHome(p) ==
  /\ pc[p] = "stat"
  /\ GoTo(p, IF dir THEN "unlink" ELSE "mkdir")
  /\ UNCHANGED <<dir, files, path, port, starts, torn, crowded>>

\* Fault: the directory above is missing, and nobody looks at mkdir's answer.
MakeHomeInVain(p) ==
  /\ pc[p] = "mkdir"
  /\ GoTo(p, "peers")
  /\ UNCHANGED <<dir, files, path, port, starts, torn, crowded>>

\* mkdir, which fails if another process was faster; nobody looks.
MakeHome(p) ==
  /\ pc[p] = "mkdir"
  /\ dir' = TRUE
  /\ GoTo(p, "peers")
  /\ UNCHANGED <<files, path, port, starts, torn, crowded>>

\* Fault: one file is all that is made.
MakePeerListOnly(p) ==
  /\ pc[p] = "peers"
  /\ files' = files \cup {"peers"}
  /\ GoTo(p, "unlink")
  /\ UNCHANGED <<dir, path, port, starts, torn, crowded>>

\* The control files, one after the other.
MakePeerList(p) ==
  /\ pc[p] = "peers"
  /\ files' = files \cup {"peers"}
  /\ GoTo(p, "resources")
  /\ UNCHANGED <<dir, path, port, starts, torn, crowded>>

MakeResourceList(p) ==
  /\ pc[p] = "resources"
  /\ files' = files \cup {"resources"}
  /\ GoTo(p, "unlink")
  /\ UNCHANGED <<dir, path, port, starts, torn, crowded>>

\* The listener thread of either kind: whatever the path names is removed.
Unlink(p) ==
  /\ pc[p] = "unlink"
  /\ path' = [path EXCEPT ![Kind(p)] = NoFile]
  /\ GoTo(p, "bind")
  /\ UNCHANGED <<dir, files, port, starts, torn, crowded>>

\* Fault: the path is removed again after it was bound.
BindPathLost(p) ==
  /\ pc[p] = "bind"
  /\ path[Kind(p)] = NoFile
  /\ GoTo(p, "ready")
  /\ UNCHANGED <<dir, files, path, port, starts, torn, crowded>>

\* bind: the process exits if another one has bound the path in between.
BindPath(p) ==
  /\ pc[p] = "bind"
  /\ IF path[Kind(p)] = NoFile
     THEN /\ path' = [path EXCEPT ![Kind(p)] = p]
          /\ GoTo(p, "ready")
          /\ UNCHANGED <<dir, files, port, starts, torn, crowded>>
     ELSE End(p)

\* Fault: a port that is taken is reported, and no more.
BindPortOrGoOn(d, q) ==
  /\ PastHome(d)
  /\ port[q] = Nobody
  /\ port' = [port EXCEPT ![q] = d]
  /\ UNCHANGED <<pc, dir, files, path, starts, torn, crowded>>

\* A server thread or the manager binds its port, without SO_REUSEADDR; if it is
\* taken the process exits.
BindPort(d, q) ==
  /\ PastHome(d)
  /\ port[q] # d
  /\ IF port[q] = Nobody
     THEN /\ port' = [port EXCEPT ![q] = d]
          /\ UNCHANGED <<pc, dir, files, path, starts, torn, crowded>>
     ELSE End(d)

\* A request of a GUI that is up, or a report of a daemon that is: whoever sends
\* to a path that names no live process exits.
Send(p) ==
  /\ PastHome(p)
  /\ \E k \in DOMAIN path \ {Kind(p)} : path[k] \in {NoFile, Stale}
  /\ End(p)

\* The user quits the GUI or kills the daemon, at any time.
Quit(p) == Running(p) /\ End(p)

\* The minute is over.
Expire(q) ==
  /\ port[q] = Lingers
  /\ port' = [port EXCEPT ![q] = Nobody]
  /\ UNCHANGED <<pc, dir, files, path, starts, torn, crowded>>

Home(p) == StatHome(p) \/ MakeHome(p) \/ MakePeerList(p) \/ MakeResourceList(p)
Listening(p) == Unlink(p) \/ BindPath(p)

Next ==
  \/ \E p \in Processes : Start(p) \/ Home(p) \/ Listening(p) \/ Send(p) \/ Quit(p)
  \/ \E d \in Daemons, q \in Ports : BindPort(d, q)
  \/ \E q \in Ports : Expire(q)

\* Threads are scheduled.
Spec ==
  /\ Init /\ [][Next]_vars
  /\ \A p \in Processes : WF_vars(Home(p)) /\ WF_vars(Listening(p))
  /\ \A d \in Daemons, q \in Ports : WF_vars(BindPort(d, q))

--------------------------------------------------------------------------------
(* Properties. *)

TypeOK ==
  /\ pc \in [Processes -> {"none", "stat", "mkdir", "peers", "resources",
                           "unlink", "bind", "ready"}]
  /\ dir \in BOOLEAN /\ files \subseteq {"peers", "resources"}
  /\ files # {} => dir
  /\ path \in [{"daemon", "gui"} -> Processes \cup {NoFile, Stale}]
  /\ port \in [Ports -> Daemons \cup {Nobody, Lingers}]
  /\ starts \in 0 .. MaxStarts /\ torn \in BOOLEAN /\ crowded \in BOOLEAN

\* Two processes that find no home directory at the same time do not harm each
\* other: when a process goes on, the directory is there, and its files are too,
\* or will be: another process is making them, unless one was ended at that.
HomeIsMade ==
  \A p \in Processes : PastHome(p) =>
    /\ dir
    /\ \/ files = {"peers", "resources"} \/ torn
       \/ \E q \in Processes : pc[q] \in {"peers", "resources"}

\* SyncListener.c: "This function listens the socks from GUI".  What is sent to
\* a path comes to the process of that kind whose listener is at work, whatever
\* earlier ones left behind: as long as no two of a kind ever ran together.  A
\* second daemon takes the path from the first before the ports make it exit, and
\* the first goes on deaf.
ListenerHears ==
  ~ crowded => \A p \in Processes : pc[p] = "ready" => path[Kind(p)] = p

\* The ports are what keeps two daemons apart: of two that run, one at least will
\* not go on, however their threads are mixed; it is both, if each has got a port
\* of the other's.
OneDaemonStays ==
  \A d, e \in Daemons : d # e =>
    [](Running(d) /\ Running(e) => <>(~ Running(d) \/ ~ Running(e)))

================================================================================
