------------------------------- MODULE PeerManage ------------------------------
(******************************************************************************)
(* How a daemon tells other daemons where to send files: the manager thread   *)
(* (peer_manange), which answers one port query per connection on the manage  *)
(* port, the two server threads, which read their port once and bind it, and  *)
(* the listener's port assignments.  All of them read or write the globals    *)
(* global_tcp_port and global_udp_port, each at a time of its own.            *)
(*                                                                            *)
(* Askers are the client threads of other daemons: get_tcp_port, get_udp_port *)
(* and the connection they open to the port they were told.  One that reaches *)
(* the TCP server is the subject of FileTransfer; one that strays to the UDP  *)
(* server, which sends files instead of receiving them, is followed here.     *)
(******************************************************************************)
EXTENDS Integers, Sequences

CONSTANTS
  Port,             \* the port numbers the GUI may set
  TCP_PORT,         \* the TCP port set by startDaemon
  UDP_PORT,         \* the UDP port set by startDaemon
  MANAGE_PORT,      \* the port the manager itself is bound to
  Askers,           \* client threads of other daemons
  Nobody,           \* no asker, and no server thread
  BACKLOG,          \* connections the manage socket holds while unaccepted
  MaxMoves          \* bound: port assignments by the GUI

ASSUME PortAssumption ==
  /\ {TCP_PORT, UDP_PORT} \subseteq Port
  /\ TCP_PORT # UDP_PORT
  /\ Port \subseteq Nat \ {0, MANAGE_PORT}
ASSUME AskerAssumption == Nobody \notin Askers \cup {"TCP", "UDP", "refused"}
ASSUME BoundAssumption == BACKLOG \in Nat \ {0} /\ MaxMoves \in Nat

Kind == {"TCP", "UDP"}
Unread == 0          \* no port has this number
Unbound == 0
Closed == -1         \* the server has left its loop and closed its socket

VARIABLES
  up,           \* the process runs
  port,         \* global_tcp_port and global_udp_port
  moves,        \* port assignments so far (bounded)
  srvPort,      \* each server thread's local port, or Unread
  bound,        \* the port each server is bound to, or Unbound
  mpc,          \* where the manager is
  mgrPort,      \* the manager's locals tcp_port and udp_port
  cur,          \* the asker the manager serves, or Nobody
  backlog,      \* askers connected and not yet accepted
  apc,          \* where each asker is
  kind,         \* what each asker asks for
  answer,       \* the port each asker was told
  reached,      \* the thread each asker's file connection reached
  late          \* history: wrong TCP answers since the TCP port last changed

servers == <<srvPort, bound>>
manager == <<mpc, mgrPort, cur, backlog>>
askers  == <<apc, kind, answer, reached>>
vars    == <<up, port, moves, servers, manager, askers, late>>

Init ==
  /\ up = TRUE
  /\ port = [TCP |-> TCP_PORT, UDP |-> UDP_PORT]
  /\ moves = 0
  /\ srvPort = [k \in Kind |-> Unread] /\ bound = [k \in Kind |-> Unbound]
  /\ mpc = "top" /\ mgrPort = [k \in Kind |-> Unread]
  /\ cur = Nobody /\ backlog = << >>
  /\ apc = [a \in Askers |-> "idle"] /\ kind = [a \in Askers |-> "TCP"]
  /\ answer = [a \in Askers |-> Unread] /\ reached = [a \in Askers |-> Nobody]
  /\ late = 0

--------------------------------------------------------------------------------
(* The listener. *)

\* setTCPPort or setUDPPort, on a mode request of the GUI.  The servers are not
\* restarted: those calls are commented out.
MovePort(k, p) ==
  /\ up
  /\ moves < MaxMoves
  /\ port' = [port EXCEPT ![k] = p]
  /\ moves' = moves + 1
  /\ late' = IF k = "TCP" /\ p # port["TCP"] THEN 0 ELSE late
  /\ UNCHANGED <<up, servers, manager, askers>>

--------------------------------------------------------------------------------
(* The server threads, up to their accept loop. *)

ReadPort(k) ==
  /\ up
  /\ srvPort[k] = Unread
  /\ srvPort' = [srvPort EXCEPT ![k] = port[k]]
  /\ UNCHANGED <<up, port, moves, bound, manager, askers, late>>

\* bind and listen.  Both servers use stream sockets, so that a port both of
\* them read is taken for the second: exit(1).
Bind(k) ==
  /\ up
  /\ srvPort[k] # Unread
  /\ bound[k] = Unbound
  /\ IF \E j \in Kind : bound[j] = srvPort[k]
     THEN up' = FALSE /\ UNCHANGED bound
     ELSE bound' = [bound EXCEPT ![k] = srvPort[k]] /\ UNCHANGED up
  /\ UNCHANGED <<port, moves, srvPort, manager, askers, late>>

--------------------------------------------------------------------------------
(* The UDP server's accept loop, which takes the name of a file to send.  No
   asker means to talk to it: one that does was led there by a stale port. *)

Stray(a) == up /\ apc[a] = "sending" /\ bound["UDP"] # Closed

\* The file is looked for in the daemon's working directory, not in the home
\* directory whose path was put together for it: it is not there, and the
\* daemon exits.
ServeUnknown(a) ==
  /\ Stray(a)
  /\ up' = FALSE
  /\ UNCHANGED <<port, moves, servers, manager, askers, late>>

\* There is one of that name: it is sent, and the connection closed.
ServeFile(a) ==
  /\ Stray(a)
  /\ apc' = [apc EXCEPT ![a] = "idle"]
  /\ UNCHANGED <<up, port, moves, servers, manager, kind, answer, reached, late>>

\* A file named "quit" ends the loop.  The connection it came by stays open, with
\* no answer to come; those not yet accepted are reset.
ServeQuit(a) ==
  /\ Stray(a)
  /\ bound' = [bound EXCEPT !["UDP"] = Closed]
  /\ apc' = [b \in Askers |-> IF b # a /\ apc[b] = "sending" THEN "idle" ELSE apc[b]]
  /\ UNCHANGED <<up, port, moves, srvPort, manager, kind, answer, reached, late>>

--------------------------------------------------------------------------------
(* The manager. *)

\* Fault: the two ports are exchanged.
ReadPortsSwapped ==
  /\ up
  /\ mpc = "top"
  /\ mgrPort' = [TCP |-> port["UDP"], UDP |-> port["TCP"]]
  /\ mpc' = "accept"
  /\ UNCHANGED <<up, port, moves, servers, cur, backlog, askers, late>>

\* Fault: the manager waits until the port it will answer is served.
ReadPortsServed ==
  /\ up
  /\ mpc = "top"
  /\ bound["TCP"] = port["TCP"]
  /\ mgrPort' = port
  /\ mpc' = "accept"
  /\ UNCHANGED <<up, port, moves, servers, cur, backlog, askers, late>>

\* The ports are read at the top of the loop, before a client has come.
ReadPorts ==
  /\ up
  /\ mpc = "top"
  /\ mgrPort' = port
  /\ mpc' = "accept"
  /\ UNCHANGED <<up, port, moves, servers, cur, backlog, askers, late>>

\* Fault: the connection stays in the backlog.
AcceptKept ==
  /\ up
  /\ mpc = "accept"
  /\ backlog # << >>
  /\ cur' = Head(backlog)
  /\ mpc' = "recv"
  /\ UNCHANGED <<up, port, moves, servers, mgrPort, backlog, askers, late>>

\* The oldest connection is taken.
Accept ==
  /\ up
  /\ mpc = "accept"
  /\ backlog # << >>
  /\ cur' = Head(backlog)
  /\ backlog' = Tail(backlog)
  /\ mpc' = "recv"
  /\ UNCHANGED <<up, port, moves, servers, mgrPort, askers, late>>

\* Fault: the manager answers its own port.
AnswerManagePort ==
  /\ up
  /\ mpc = "recv"
  /\ apc[cur] = "asked"
  /\ answer' = [answer EXCEPT ![cur] = MANAGE_PORT]
  /\ apc' = [apc EXCEPT ![cur] = "told"]
  /\ cur' = Nobody
  /\ mpc' = "top"
  /\ UNCHANGED <<up, port, moves, servers, mgrPort, backlog, kind, reached, late>>

\* Fault: the ports are read once, before the loop.
AnswerAgain ==
  /\ up
  /\ mpc = "recv"
  /\ apc[cur] = "asked"
  /\ answer' = [answer EXCEPT ![cur] = mgrPort[kind[cur]]]
  /\ apc' = [apc EXCEPT ![cur] = "told"]
  /\ late' = IF kind[cur] = "TCP" /\ mgrPort["TCP"] # port["TCP"] THEN late + 1 ELSE late
  /\ cur' = Nobody
  /\ mpc' = "accept"
  /\ UNCHANGED <<up, port, moves, servers, mgrPort, backlog, kind, reached>>

\* Fault: a client that closed without a request ends the manager.
AnswerOrExit ==
  /\ up
  /\ mpc = "recv"
  /\ apc[cur] \in {"asked", "gone"}
  /\ up' = (apc[cur] = "asked")
  /\ answer' = [answer EXCEPT ![cur] = mgrPort[kind[cur]]]
  /\ apc' = [apc EXCEPT ![cur] = "told"]
  /\ late' = IF kind[cur] = "TCP" /\ mgrPort["TCP"] # port["TCP"] THEN late + 1 ELSE late
  /\ cur' = Nobody
  /\ mpc' = "top"
  /\ UNCHANGED <<port, moves, servers, mgrPort, backlog, kind, reached>>

\* recv waits for the request; a client that closed without one yields an empty
\* string, which matches no command.  The answer is written and the connection
\* closed.
Answer ==
  /\ up
  /\ mpc = "recv"
  /\ apc[cur] \in {"asked", "gone"}
  /\ IF apc[cur] = "asked"
     THEN /\ answer' = [answer EXCEPT ![cur] = mgrPort[kind[cur]]]
          /\ apc' = [apc EXCEPT ![cur] = "told"]
          /\ late' = IF kind[cur] = "TCP" /\ mgrPort["TCP"] # port["TCP"]
                     THEN late + 1 ELSE late
     ELSE /\ apc' = [apc EXCEPT ![cur] = "idle"]
          /\ UNCHANGED <<answer, late>>
  /\ cur' = Nobody
  /\ mpc' = "top"
  /\ UNCHANGED <<up, port, moves, servers, mgrPort, backlog, kind, reached>>

--------------------------------------------------------------------------------
(* The askers. *)

\* connect to the manage port: it completes while the backlog has room.
Connect(a, k) ==
  /\ up
  /\ apc[a] = "idle"
  /\ Len(backlog) < BACKLOG
  /\ backlog' = Append(backlog, a)
  /\ kind' = [kind EXCEPT ![a] = k]
  /\ apc' = [apc EXCEPT ![a] = "connected"]
  /\ answer' = [answer EXCEPT ![a] = Unread]
  /\ reached' = [reached EXCEPT ![a] = Nobody]
  /\ UNCHANGED <<up, port, moves, servers, mpc, mgrPort, cur, late>>

\* The command is written.
Ask(a) ==
  /\ up
  /\ apc[a] = "connected"
  /\ apc' = [apc EXCEPT ![a] = "asked"]
  /\ UNCHANGED <<up, port, moves, servers, manager, kind, answer, reached, late>>

\* The asking daemon dies first; its kernel closes the connection.
AskerDies(a) ==
  /\ up
  /\ apc[a] = "connected"
  /\ apc' = [apc EXCEPT ![a] = "gone"]
  /\ UNCHANGED <<up, port, moves, servers, manager, kind, answer, reached, late>>

\* The file connection, to the TCP port that was answered: whichever thread is
\* bound there accepts it, or it is refused.  A UDP answer is thrown away.
Dial(a) ==
  /\ up
  /\ apc[a] = "told"
  /\ reached' =
       [reached EXCEPT ![a] =
          CASE kind[a] = "UDP" -> Nobody
            [] kind[a] = "TCP" /\ bound["TCP"] = answer[a] -> "TCP"
            [] kind[a] = "TCP" /\ bound["UDP"] = answer[a] -> "UDP"
            [] OTHER -> "refused"]
  /\ apc' = [apc EXCEPT ![a] = IF reached'[a] = "UDP" THEN "sending" ELSE "idle"]
  /\ UNCHANGED <<up, port, moves, servers, manager, kind, answer, late>>

Serving == ReadPorts \/ Accept \/ Answer
Starting(k) == ReadPort(k) \/ Bind(k)
ServingStray(a) == ServeUnknown(a) \/ ServeFile(a) \/ ServeQuit(a)

Next ==
  \/ \E k \in Kind, p \in Port : MovePort(k, p)
  \/ \E k \in Kind : Starting(k)
  \/ Serving
  \/ \E a \in Askers :
       \/ \E k \in Kind : Connect(a, k)
       \/ Ask(a) \/ AskerDies(a) \/ Dial(a)
       \/ ServingStray(a)

\* Threads are scheduled, and an asker that connected writes or dies.
Fairness ==
  /\ WF_vars(Serving)
  /\ \A k \in Kind : WF_vars(Starting(k))
  /\ \A a \in Askers : WF_vars(Ask(a) \/ Dial(a)) /\ WF_vars(ServingStray(a))

Spec == Init /\ [][Next]_vars /\ Fairness

--------------------------------------------------------------------------------
(* Properties. *)

TypeOK ==
  /\ up \in BOOLEAN
  /\ port \in [Kind -> Port] /\ moves \in 0 .. MaxMoves
  /\ srvPort \in [Kind -> Port \cup {Unread}]
  /\ bound \in [Kind -> Port \cup {Unbound, Closed}]
  /\ mpc \in {"top", "accept", "recv"}
  /\ mgrPort \in [Kind -> Port \cup {Unread}]
  /\ cur \in Askers \cup {Nobody} /\ backlog \in Seq(Askers)
  /\ apc \in [Askers -> {"idle", "connected", "asked", "gone", "told", "sending"}]
  /\ kind \in [Askers -> Kind]
  /\ answer \in [Askers -> Port \cup {Unread}]
  /\ reached \in [Askers -> {Nobody, "TCP", "UDP", "refused"}]
  /\ late \in Nat

\* The manager reads the ports before it waits for a client, so that its next
\* answer may be out of date; but only that one: after any change of the TCP
\* port at most one query is answered with another port than the current one.
OneLateAnswer == late <= 1

\* The manager serves one connection at a time and never mixes two up: the asker
\* it serves left the backlog, nobody is queued twice, and whoever waits for an
\* answer is in one of the two places, so that no query is forgotten.
NobodyForgotten ==
  /\ (mpc = "recv") <=> (cur # Nobody)
  /\ \A i, j \in DOMAIN backlog : backlog[i] = backlog[j] => i = j
  /\ \A a \in Askers :
       apc[a] \in {"connected", "asked", "gone"}
         <=> (a = cur) # (\E i \in DOMAIN backlog : backlog[i] = a)

\* While the GUI has changed no port, a file connection opened once the servers
\* are bound reaches the TCP server, through the manager's and the server's
\* separate reads of the port.
UnmovedPortIsServed ==
  [][\A a \in Askers :
       /\ moves = 0 /\ bound["TCP"] # Unbound
       /\ kind[a] = "TCP" /\ apc[a] = "told" /\ apc'[a] # "told"
       => reached'[a] = "TCP"]_vars

\* Nothing that other daemons do, and nothing the threads of this one do to each
\* other, ends it while the GUI has moved no port: in particular no connection
\* strays to the UDP server, whose exit would take the whole daemon with it.
UnmovedDaemonLives == moves = 0 => up

\* Every query that was written is answered, or the daemon is gone.
EveryQueryAnswered ==
  \A a \in Askers : apc[a] = "asked" ~> (apc[a] = "told" \/ ~ up)

================================================================================
