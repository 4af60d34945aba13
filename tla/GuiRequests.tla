------------------------------ MODULE GuiRequests ------------------------------
(******************************************************************************)
(* The requests of the GUI as the bytes they are: add_entry_unsync_list and   *)
(* radio_button_toggled make a message, send_msg_to_daemon sends it as a C    *)
(* string, and sync_listen decodes it from a buffer in which the previous one *)
(* may still show.                                                            *)
(*                                                                            *)
(* SyncDaemon and PeerManage take a request as it was meant; this module says *)
(* how far that is what arrives.                                              *)
(******************************************************************************)
EXTENDS Datagram

CONSTANTS
  Path,             \* the paths of files in the home directory
  PathLen,          \* strlen of each
  Port,             \* the numbers the user may type for a port
  TCP_PORT,         \* the ports set by startDaemon
  UDP_PORT,
  StackByte,        \* what a byte of the listener's stack may hold at first
  CleanHeap,        \* malloc returns zeroed memory
  Unterminated,     \* a path with what follows it on the heap
  QLEN,             \* datagrams the daemon's socket holds
  MaxRequests,      \* bound: requests of the user
  MaxDeaths         \* bound: ends of the daemon that no request caused

\* The user types numbers that a port can be; longer paths than 199 characters do
\* not fit the GUI's file_new_path[200].
ASSUME InputAssumption ==
  /\ Port \subseteq Word /\ {TCP_PORT, UDP_PORT} \subseteq Word
  /\ PathLen \in [Path -> 1 .. 199]
  /\ StackByte \subseteq 0 .. 255 /\ StackByte # {}
  /\ CleanHeap \in BOOLEAN /\ Unterminated \notin Path
  /\ QLEN \in Nat \ {0} /\ MaxRequests \in Nat /\ MaxDeaths \in Nat

SYAW_MSG_ADD_SYNC_FILE == 1
SYAW_MSG_NOTIFY_PROTOCOL == 2
TCP == 1            \* TRANS_PROTOCOL_TCP and SYAW_SYNC_MODE_TCP
UDP == 2
Mode == {TCP, UDP}
Space == 32
Filler == "filler"  \* the text of a mode message: digits and a path nobody reads

Defaults ==
  [mode |-> UDP, port |-> [m \in Mode |-> IF m = TCP THEN TCP_PORT ELSE UDP_PORT]]

VARIABLES
  gui,        \* the GUI runs
  daemon,     \* the daemon runs
  sock,       \* datagrams at the daemon's socket, each with the request it is
  buf,        \* the listener's buffer, and whether it has received at all
  added,      \* what addItem2SyncRepos was called with
  settings,   \* global_transfer_mode, global_tcp_port and global_udp_port
  asked,      \* requests so far (bounded)
  deaths      \* ends of the daemon that no request caused (bounded)

vars == <<gui, daemon, sock, buf, added, settings, asked, deaths>>

\* char buf[300], never initialised.
FreshBuffer ==
  [head : [1 .. HEAD -> StackByte], text : {Filler}, fresh : {TRUE}]

Init ==
  /\ gui = TRUE /\ daemon = TRUE
  /\ sock = << >>
  /\ buf \in FreshBuffer
  /\ added = << >> /\ settings = Defaults
  /\ asked = 0 /\ deaths = 0

--------------------------------------------------------------------------------
(* The GUI. *)

Add(path) == [op |-> "add", path |-> path]
SetMode(mode, port) == [op |-> "mode", mode |-> mode, port |-> port]

\* Fault: the length of the file is put in as a number, high byte first.
set_add_sync_file_msg_binary(path) ==
  [head |-> <<SYAW_MSG_ADD_SYNC_FILE, Byte(10 + PathLen[path]), 0, 0, 78>>, text |-> path]

\* set_add_sync_file_msg: type, length, the file's length as eight characters
\* (always 20000, so that the first are blanks), and the path.
set_add_sync_file_msg(path) ==
  [head |-> <<SYAW_MSG_ADD_SYNC_FILE, Byte(10 + PathLen[path]), Space, Space, Space>>,
   text |-> path]

\* Fault: the type is left as malloc returned it.
set_set_trans_mode_msg_untyped(mode, port) ==
  [head |-> <<0, 26, mode, High(port), Low(port)>>, text |-> Filler]

\* set_set_trans_mode_msg: the message is a copy of the other one, with a made-up
\* path, in which mode and port were written over the length.
set_set_trans_mode_msg(mode, port) ==
  [head |-> <<SYAW_MSG_NOTIFY_PROTOCOL, 26, mode, High(port), Low(port)>>, text |-> Filler]

\* send_msg_to_daemon: waits for room; without a daemon the GUI exits.
send_msg_to_daemon(r, msg) ==
  IF daemon
  THEN /\ Len(sock) < QLEN
       /\ sock' = Append(sock, [data |-> Sent(msg), req |-> r])
       /\ UNCHANGED gui
  ELSE gui' = FALSE /\ UNCHANGED sock

Request(r, msg) ==
  /\ gui
  /\ asked < MaxRequests
  /\ asked' = asked + 1
  /\ send_msg_to_daemon(r, msg)
  /\ UNCHANGED <<daemon, buf, added, settings, deaths>>

\* add_entry_unsync_list, once the file is in the home directory.
AddEntry(path) == Request(Add(path), set_add_sync_file_msg(path))

\* radio_button_toggled: atoi of what the port's entry holds.
RadioButtonToggled(mode, port) ==
  Request(SetMode(mode, port), set_set_trans_mode_msg(mode, port))

\* The user starts the GUI again.
StartGui ==
  /\ ~ gui
  /\ gui' = TRUE
  /\ UNCHANGED <<daemon, sock, buf, added, settings, asked, deaths>>

--------------------------------------------------------------------------------
(* The daemon. *)

\* exit, SIGSEGV: memory and waiting datagrams are gone.
Die ==
  /\ daemon' = FALSE
  /\ sock' = << >>
  /\ added' = << >>
  /\ settings' = Defaults

\* What get_file_path_from_msg_buf returns: the bytes it was told of, without a
\* terminator.  A negative length becomes four thousand millions of bytes, and
\* the memcpy of those ends the process.
Decodable(b) == Signed(b.head[2]) >= 0
DecodedPath(b) == IF CleanHeap THEN {b.text} ELSE {b.text, Unterminated}

DecodedPort(b) == PortOf(b.head[4], b.head[5])

\* Any mode but TCP is UDP.
DecodedMode(b) == IF b.head[3] = TCP THEN TCP ELSE UDP

ApplyMode(b) ==
  /\ settings' = [mode |-> DecodedMode(b),
                  port |-> [settings.port EXCEPT ![DecodedMode(b)] = DecodedPort(b)]]
  /\ UNCHANGED <<daemon, added>>

ApplyAdd(b) ==
  /\ \E path \in DecodedPath(b) : added' = Append(added, path)
  /\ UNCHANGED <<daemon, settings>>

\* One turn of sync_listen.
Listen ==
  /\ daemon
  /\ sock # << >>
  /\ LET b == Received(buf, Head(sock).data)
     IN  /\ buf' = [head |-> b.head, text |-> b.text, fresh |-> FALSE]
         /\ \/ /\ b.head[1] = SYAW_MSG_ADD_SYNC_FILE /\ ~ Decodable(b)
               /\ Die
            \/ /\ b.head[1] = SYAW_MSG_ADD_SYNC_FILE /\ Decodable(b)
               /\ ApplyAdd(b)
               /\ sock' = Tail(sock)
            \/ /\ b.head[1] = SYAW_MSG_NOTIFY_PROTOCOL
               /\ ApplyMode(b)
               /\ sock' = Tail(sock)
  /\ UNCHANGED <<gui, asked, deaths>>

\* Fault: the length is never set, on no turn.
ListenFailsAlways ==
  /\ daemon
  /\ sock # << >>
  /\ \E b \in StackByte : Signed(b) < 0
  /\ Die
  /\ UNCHANGED <<gui, buf, asked, deaths>>

\* The first recvfrom is given a length that was never set, and fails if it is
\* negative.
ListenFails ==
  /\ daemon
  /\ sock # << >>
  /\ buf.fresh /\ \E b \in StackByte : Signed(b) < 0
  /\ Die
  /\ UNCHANGED <<gui, buf, asked, deaths>>

\* The daemon ends for another reason: killed, or exit in another thread.
Kill ==
  /\ daemon
  /\ deaths < MaxDeaths
  /\ deaths' = deaths + 1
  /\ Die
  /\ UNCHANGED <<gui, buf, asked>>

\* It is started again: unlink and bind make a new socket.
StartDaemon ==
  /\ ~ daemon
  /\ daemon' = TRUE
  /\ buf' \in FreshBuffer
  /\ UNCHANGED <<gui, sock, added, settings, asked, deaths>>

Next ==
  \/ \E path \in Path : AddEntry(path)
  \/ \E mode \in Mode, port \in Port : RadioButtonToggled(mode, port)
  \/ StartGui
  \/ Listen \/ ListenFails \/ Kill \/ StartDaemon

\* The listener is scheduled; nobody need start or ask for anything.
Spec == Init /\ [][Next]_vars /\ WF_vars(Listen \/ ListenFails)

--------------------------------------------------------------------------------
(* Properties. *)

\* Types; and a datagram is never empty, because no type is NUL.
TypeOK ==
  /\ gui \in BOOLEAN /\ daemon \in BOOLEAN
  /\ \A i \in DOMAIN sock : Len(sock[i].data.head) \in 1 .. HEAD
  /\ buf.head \in [1 .. HEAD -> 0 .. 255] /\ buf.fresh \in BOOLEAN
  /\ buf.text \in Path \cup {Filler}
  /\ added \in Seq(Path \cup {Unterminated})
  /\ settings \in [mode : Mode, port : [Mode -> Word]]
  /\ asked \in 0 .. MaxRequests /\ deaths \in 0 .. MaxDeaths

\* What the daemon may take a request for: the path, perhaps with what follows it
\* on the heap; the port, exactly if it has a high byte, and if not, some other
\* that has none.
Understood(r) ==
  IF r.op = "add"
  THEN {Add(p) : p \in IF CleanHeap THEN {r.path} ELSE {r.path, Unterminated}}
  ELSE {SetMode(r.mode, port) : port \in IF r.port < 256 THEN 0 .. 255 ELSE {r.port}}

\* Whatever the user asks for, and whatever the previous datagram or the stack left
\* in the buffer, the daemon does what it was asked, all of it and in order, or
\* dies: the right request is recognised, the right mode is set and only the port
\* of that mode, and no path or port of one request is taken for another's, but
\* for a port without a high byte.  Whatever waits is done or lost in the end.
Channel == INSTANCE RequestQueue WITH pending <- [i \in DOMAIN sock |-> sock[i].req]

ImplementsRequests == Channel!Spec

LastAsked == Head(sock).req

\* A request ends the daemon only if it adds a path of more than 117 characters,
\* or is the first one it receives.
DiesOfLongPaths ==
  [][daemon /\ ~ daemon' /\ deaths' = deaths =>
       \/ LastAsked.op = "add" /\ PathLen[LastAsked.path] > 117
       \/ buf.fresh]_vars

================================================================================
