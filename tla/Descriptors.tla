------------------------------ MODULE Descriptors ------------------------------
(******************************************************************************)
(* What the daemon's threads do with the process's table of file descriptors, *)
(* which they share and which is limited.  get_file_size never closes the     *)
(* file it opened, and send_msg_to_gui never the socket it made, so that each *)
(* transfer uses the table up a little more; what a thread does when it gets  *)
(* no descriptor is different at each call.                                   *)
(*                                                                            *)
(* The other modules suppose that the table is never full; this one says how  *)
(* long that is so.                                                           *)
(******************************************************************************)
EXTENDS Integers, FiniteSets

CONSTANTS
  Clients,          \* the client threads at work: one, or two after a switch
  BASE,             \* descriptors of an idle daemon: 0, 1, 2 and four sockets
  LIMIT             \* the size of the table

\* The client threads have names of their own.
ASSUME ClientAssumption ==
  IsFiniteSet(Clients) /\ Clients \cap {"tcp_sync_server", "udp_sync_server", "peer_manange"} = {}
ASSUME TableAssumption == BASE \in Nat /\ LIMIT \in Nat /\ BASE <= LIMIT

Servers == {"tcp_sync_server", "udp_sync_server", "peer_manange"}
Threads == Clients \cup Servers

VARIABLES
  up,       \* the daemon runs
  open,     \* descriptors in use
  pc,       \* where each thread is
  has,      \* what each thread has a descriptor for
  leaked,   \* history: successful calls of get_file_size and send_msg_to_gui
  lost      \* history: an entry was removed unsent for want of a descriptor

vars == <<up, open, pc, has, leaked, lost>>

Init ==
  /\ up = TRUE
  /\ open = BASE
  /\ pc = [t \in Threads |-> "idle"]
  /\ has = [t \in Threads |-> {}]
  /\ leaked = 0
  /\ lost = FALSE

--------------------------------------------------------------------------------

Room == open < LIMIT

At(t, point) == up /\ pc[t] = point
GoTo(t, point) == pc' = [pc EXCEPT ![t] = point]

\* socket, open, fopen or accept: a descriptor, or -1.
Acquire(t, what) ==
  IF Room THEN open' = open + 1 /\ has' = [has EXCEPT ![t] = @ \cup {what}]
          ELSE UNCHANGED <<open, has>>

\* close of what the thread has; close(-1) does nothing.
Release(t) ==
  /\ open' = open - Cardinality(has[t])
  /\ has' = [has EXCEPT ![t] = {}]

\* A descriptor that nobody will close.
Leak ==
  /\ open' = open + 1
  /\ leaked' = leaked + 1

Exit == up' = FALSE /\ UNCHANGED <<open, pc, has, leaked, lost>>

--------------------------------------------------------------------------------
(* The listener. *)

\* An add request: get_file_size of the path.  Without a descriptor, or a file
\* to open, the size is what the stack held; it is only printed.
AddItem ==
  /\ up
  /\ Room
  /\ Leak
  /\ UNCHANGED <<up, pc, has, lost>>

--------------------------------------------------------------------------------
(* The clients. *)

\* get_tcp_port (before it, in the UDP client, get_udp_port): a socket, if there
\* is one; the port is 0 if not.
Query(c) ==
  /\ At(c, "idle")
  /\ Acquire(c, "socket")
  /\ GoTo(c, "query")
  /\ UNCHANGED <<up, leaked, lost>>

\* Fault: the socket is not closed.
QueryDoneOpen(c) ==
  /\ At(c, "query")
  /\ GoTo(c, "dial")
  /\ UNCHANGED <<up, open, has, leaked, lost>>

QueryDone(c) ==
  /\ At(c, "query")
  /\ Release(c)
  /\ GoTo(c, "dial")
  /\ UNCHANGED <<up, leaked, lost>>

\* The connection for the file; without a socket the thread goes on all the same.
Dial(c) ==
  /\ At(c, "dial")
  /\ Acquire(c, "socket")
  /\ GoTo(c, "size")
  /\ UNCHANGED <<up, leaked, lost>>

\* get_file_size of the file to send.
Size(c) ==
  /\ At(c, "size")
  /\ GoTo(c, "open")
  /\ IF Room THEN Leak ELSE UNCHANGED <<open, leaked>>
  /\ UNCHANGED <<up, has, lost>>

\* The file itself: without it the loop ends at once.
OpenInput(c) ==
  /\ At(c, "open")
  /\ Acquire(c, "file")
  /\ GoTo(c, "copy")
  /\ UNCHANGED <<up, leaked, lost>>

\* send_msg_to_gui in the loop, which goes on also when its writes fail.
Report(c) ==
  /\ At(c, "copy")
  /\ "file" \in has[c]
  /\ IF Room THEN Leak /\ UNCHANGED <<up, pc, has, lost>> ELSE Exit

\* The last report.
LastReport(c) ==
  /\ At(c, "copy")
  /\ IF Room THEN Leak /\ GoTo(c, "close") /\ UNCHANGED <<up, has, lost>> ELSE Exit

\* Fault: the file is left open.
CloseSocketOnly(c) ==
  /\ At(c, "close")
  /\ open' = open - Cardinality(has[c] \ {"file"})
  /\ has' = [has EXCEPT ![c] = {}]
  /\ lost' = (lost \/ has[c] # {"socket", "file"})
  /\ GoTo(c, "idle")
  /\ UNCHANGED <<up, leaked>>

\* The entry is removed, whether or not anything was sent, and both are closed.
CloseAll(c) ==
  /\ At(c, "close")
  /\ Release(c)
  /\ lost' = (lost \/ has[c] # {"socket", "file"})
  /\ GoTo(c, "idle")
  /\ UNCHANGED <<up, leaked>>

--------------------------------------------------------------------------------
(* The servers. *)

\* accept: the kernel sets the descriptor aside before it waits.
Accept(s) ==
  /\ At(s, "idle")
  /\ IF Room
     THEN Acquire(s, "connection") /\ GoTo(s, "accept") /\ UNCHANGED <<up, leaked, lost>>
     ELSE Exit

\* The TCP server opens the file it was named, or has none to write to.
OpenOutput ==
  /\ At("tcp_sync_server", "accept")
  /\ Acquire("tcp_sync_server", "file")
  /\ GoTo("tcp_sync_server", "body")
  /\ UNCHANGED <<up, leaked, lost>>

\* fclose, which ends the process if there is no file, and close.
CloseOutput ==
  /\ At("tcp_sync_server", "body")
  /\ IF "file" \in has["tcp_sync_server"]
     THEN /\ Release("tcp_sync_server")
          /\ GoTo("tcp_sync_server", "idle")
          /\ UNCHANGED <<up, leaked, lost>>
     ELSE Exit

\* Fault: a client that closed without a request ends the manager.
AnswerOrExit ==
  /\ At("peer_manange", "accept")
  /\ \/ /\ Release("peer_manange")
        /\ GoTo("peer_manange", "idle")
        /\ UNCHANGED <<up, leaked, lost>>
     \/ Exit

\* The manager answers and closes.
Answer ==
  /\ At("peer_manange", "accept")
  /\ Release("peer_manange")
  /\ GoTo("peer_manange", "idle")
  /\ UNCHANGED <<up, leaked, lost>>

Next ==
  \/ AddItem
  \/ \E c \in Clients :
       \/ Query(c) \/ QueryDone(c) \/ Dial(c) \/ Size(c) \/ OpenInput(c)
       \/ Report(c) \/ LastReport(c) \/ CloseAll(c)
  \/ \E s \in Servers : Accept(s)
  \/ OpenOutput \/ CloseOutput \/ Answer

Spec == Init /\ [][Next]_vars

--------------------------------------------------------------------------------
(* Properties. *)

\* Types; the table is never over its limit, and what a thread has fits where the
\* thread is.
TypeOK ==
  /\ up \in BOOLEAN /\ lost \in BOOLEAN
  /\ open \in BASE .. LIMIT /\ leaked \in Nat
  /\ pc \in [Threads -> {"idle", "query", "dial", "size", "open", "copy", "close",
                         "accept", "body"}]
  /\ \A t \in Threads :
       /\ has[t] \subseteq (IF t \in Clients THEN {"socket", "file"} ELSE {"connection", "file"})
       /\ pc[t] \in {"idle", "dial"} => has[t] = {}
       /\ pc[t] \in {"query", "size", "open"} => has[t] \subseteq {"socket"}
       /\ pc[t] \in {"accept", "body"} => "connection" \in has[t]
       /\ t \in {"udp_sync_server", "peer_manange"} => "file" \notin has[t]

\* The threads' descriptors, one by one.
Held == {h \in Threads \X {"socket", "file", "connection"} : h[2] \in has[h[1]]}

\* Two calls leak, and nothing else does, on no path of success or failure: every
\* descriptor is one of the first, or a thread has it and will close it, or it
\* belongs to a call of get_file_size or send_msg_to_gui.
OnlyTwoCallsLeak == open = BASE + Cardinality(Held) + leaked

\* The most that all threads have at once, and one more for a call that leaks.
Peak == 2 * Cardinality(Clients) + 4 + 1

\* As long as the leaks leave room for that, no thread is ever without a
\* descriptor: the daemon lives, and no entry is removed unsent.
PeakIsEnough == BASE + leaked + Peak <= LIMIT => up /\ ~ lost

================================================================================
