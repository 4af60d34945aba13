----------------------------- MODULE ProgressReport ----------------------------
(******************************************************************************)
(* What the GUI shows of a transfer: the client counts what it has sent and   *)
(* reports it now and then (set_progress_notify_info, send_msg_to_gui), the   *)
(* GUI's listener thread decodes the report and set_progress_bar draws it.    *)
(*                                                                            *)
(* A report has a field for the bytes sent and one for the file's length; in  *)
(* the last report of a transfer the latter holds the seconds it took.        *)
(******************************************************************************)
EXTENDS Datagram, FiniteSets

CONSTANTS
  File,             \* file names
  NameLen,          \* strlen of each
  Mangled,          \* a name cut short, or with the end of another
  Size,             \* the lengths a file may have; one that is missing has 0
  Seconds,          \* how long a transfer may take
  Port,             \* the ports at which peers receive
  PadByte,          \* what the bytes behind the address hold
  BUF,              \* bytes per turn of the client's loop
  REPORT,           \* turns per report
  QLEN,             \* datagrams the GUI's socket holds
  MaxTransfers,     \* bound: transfers
  MaxRewrites,      \* bound: changes of a file's length while it is sent
  MaxStops          \* bound: ends of the GUI

\* A name fits the GUI's file_name[50].  No transfer takes more seconds than it has
\* sent bytes, at the least, when it reports first (1,499,000).
ASSUME InputAssumption ==
  /\ NameLen \in [File -> 1 .. 49] /\ Mangled \notin File
  /\ Size \subseteq Nat /\ Seconds \subseteq Nat
  /\ Port \subseteq Word /\ PadByte \in 0 .. 255
  /\ BUF \in Nat \ {0} /\ REPORT \in Nat \ {0} /\ QLEN \in Nat \ {0}
  /\ \A s \in Seconds : s <= BUF * (REPORT - 1)
ASSUME BoundAssumption ==
  MaxTransfers \in Nat /\ MaxRewrites \in Nat /\ MaxStops \in Nat

GUI_MSG_PROGRESS_NOTIFY == 1
INT_MIN == -2147483647 - 1

VARIABLES
  gui,        \* the GUI runs
  daemon,     \* the daemon runs
  len,        \* the length of each file, now
  client,     \* the transfer at work: its number, file, port, length, progress
  sock,       \* datagrams at the GUI's socket, each with the report it is
  buf,        \* the GUI listener's buffer
  label,      \* what the label shows
  taken,      \* history: the report received last
  whole,      \* history: the last one that was received to its end
  rewrites,   \* changes of a file so far (bounded)
  stops       \* ends of the GUI so far (bounded)

transfer == <<len, client, rewrites>>
display  == <<buf, label, taken, whole>>
vars     == <<gui, daemon, transfer, sock, display, stops>>

\* A report: which transfer's, its file and port, the two numbers, and whether
\* it is the last.
NoReport == [id |-> 0, file |-> Mangled, port |-> 0, sent |-> 0, size |-> 0, last |-> FALSE]

\* The stack of a new thread is zero.
FreshBuffer == [head |-> [i \in 1 .. HEAD |-> 0],
                text |-> [sent |-> 0, size |-> 0, file |-> Mangled]]
EmptyLabel == [name |-> Mangled, port |-> 0, percent |-> 0, secs |-> 0]

Init ==
  /\ gui = TRUE /\ daemon = TRUE
  /\ len \in [File -> Size]
  /\ client = [at |-> "idle", id |-> 0, file |-> Mangled, port |-> 0,
               size |-> 0, sent |-> 0, turns |-> 0]
  /\ sock = << >>
  /\ buf = FreshBuffer /\ label = EmptyLabel
  /\ taken = NoReport /\ whole = NoReport
  /\ rewrites = 0 /\ stops = 0

--------------------------------------------------------------------------------
(* The client. *)

\* The connection stands and the name was answered: the loop begins.
Begin(f, port) ==
  /\ daemon
  /\ client.at = "idle"
  /\ client.id < MaxTransfers
  /\ client' = [at |-> "copy", id |-> client.id + 1, file |-> f, port |-> port,
                size |-> len[f], sent |-> 0, turns |-> 0]
  /\ UNCHANGED <<gui, daemon, len, sock, display, rewrites, stops>>

\* set_progress_notify_info: type, length, port, address with its padding, the
\* two numbers in hexadecimal, name.
set_progress_notify_info(r) ==
  [head |-> <<GUI_MSG_PROGRESS_NOTIFY, Byte(36 + NameLen[r.file]),
              High(r.port), Low(r.port), PadByte>>,
   text |-> [sent |-> r.sent, size |-> r.size, file |-> r.file]]

\* send_msg_to_gui: waits for room; without a GUI the daemon exits.
send_msg_to_gui(r) ==
  IF gui
  THEN /\ Len(sock) < QLEN
       /\ sock' = Append(sock, [data |-> Sent(set_progress_notify_info(r)), rep |-> r])
       /\ UNCHANGED daemon
  ELSE daemon' = FALSE /\ UNCHANGED sock

ReportOf(c, size, last) ==
  [id |-> c.id, file |-> c.file, port |-> c.port,
   sent |-> c.sent, size |-> size, last |-> last]

\* What the next read returns: its length.
numRead ==
  LET left == len[client.file] - client.sent
  IN  IF left <= 0 THEN 0 ELSE IF left < BUF THEN left ELSE BUF

\* Fault: the report gives the bytes of this turn, not of all turns.
ChunkNotSummed ==
  /\ daemon
  /\ client.at = "copy"
  /\ numRead > 0
  /\ LET c == [client EXCEPT !.sent = @ + numRead, !.turns = @ + 1]
     IN  /\ client' = c
         /\ IF c.turns % REPORT = 0
            THEN send_msg_to_gui(ReportOf([c EXCEPT !.sent = numRead], c.size, FALSE))
            ELSE UNCHANGED <<daemon, sock>>
  /\ UNCHANGED <<gui, len, display, rewrites, stops>>

\* One turn: read, write, count, and a report every REPORT turns.
Chunk ==
  /\ daemon
  /\ client.at = "copy"
  /\ numRead > 0
  /\ LET c == [client EXCEPT !.sent = @ + numRead, !.turns = @ + 1]
     IN  /\ client' = c
         /\ IF c.turns % REPORT = 0
            THEN send_msg_to_gui(ReportOf(c, c.size, FALSE))
            ELSE UNCHANGED <<daemon, sock>>
  /\ UNCHANGED <<gui, len, display, rewrites, stops>>

\* Fault: no report after the loop.
EndSilent ==
  /\ daemon
  /\ client.at = "copy"
  /\ numRead = 0
  /\ client' = [client EXCEPT !.at = "idle"]
  /\ UNCHANGED <<gui, daemon, len, sock, display, rewrites, stops>>

\* The end of the file: the last report, with the seconds since Begin.
End ==
  /\ daemon
  /\ client.at = "copy"
  /\ numRead = 0
  /\ client' = [client EXCEPT !.at = "idle"]
  /\ \E duration \in Seconds : send_msg_to_gui(ReportOf(client, duration, TRUE))
  /\ UNCHANGED <<gui, len, display, rewrites, stops>>

\* The GUI copies another file of that name over the one being sent.
Rewrite(n) ==
  /\ client.at = "copy"
  /\ rewrites < MaxRewrites
  /\ len' = [len EXCEPT ![client.file] = n]
  /\ rewrites' = rewrites + 1
  /\ UNCHANGED <<gui, daemon, client, sock, display, stops>>

--------------------------------------------------------------------------------
(* The GUI. *)

\* msg_len says how much of what is in the buffer is the name.
DecodedName(b) ==
  IF b.text.file \in File /\ 36 + NameLen[b.text.file] = b.head[2]
  THEN b.text.file ELSE Mangled

\* Fault: a file whose last byte was sent counts as finished.
FinishedByBytes(bytes_sent, file_length) == bytes_sent >= file_length

\* "finished task"
Finished(bytes_sent, file_length) == bytes_sent > file_length

\* set_progress_bar: the numbers it prints, but for the rounding of a float.
\* 0 of 0 is not a number, and what int that becomes is the machine's choice.
set_progress_bar(bytes_sent, file_length) ==
  LET done == Finished(bytes_sent, file_length)
      length == IF done THEN bytes_sent ELSE file_length
  IN  [percent : IF length = 0 THEN {0, INT_MIN} ELSE {(100 * bytes_sent) \div length},
       secs : {IF done THEN file_length ELSE 0}]

\* One turn of gui_listener_thread.
ListenGui ==
  /\ gui
  /\ sock # << >>
  /\ LET b == Received(buf, Head(sock).data)
     IN  /\ buf' = b
         /\ \E bar \in set_progress_bar(b.text.sent, b.text.size) :
              label' = [name |-> DecodedName(b), port |-> PortOf(b.head[3], b.head[4]),
                        percent |-> bar.percent, secs |-> bar.secs]
  /\ taken' = Head(sock).rep
  /\ whole' = IF Head(sock).data.whole THEN Head(sock).rep ELSE whole
  /\ sock' = Tail(sock)
  /\ UNCHANGED <<gui, daemon, transfer, stops>>

\* The user quits; what waits at the socket is lost.
StopGui ==
  /\ gui
  /\ stops < MaxStops
  /\ stops' = stops + 1
  /\ gui' = FALSE
  /\ sock' = << >>
  /\ UNCHANGED <<daemon, transfer, display>>

StartGui ==
  /\ ~ gui
  /\ gui' = TRUE
  /\ buf' = FreshBuffer /\ label' = EmptyLabel
  /\ taken' = NoReport /\ whole' = NoReport
  /\ UNCHANGED <<daemon, transfer, sock, stops>>

Sending == Chunk \/ End

Next ==
  \/ \E f \in File, port \in Port : Begin(f, port)
  \/ Sending
  \/ \E n \in Size : Rewrite(n)
  \/ ListenGui \/ StopGui \/ StartGui

\* Both threads are scheduled, and the peer takes what is written to it.
Spec == Init /\ [][Next]_vars /\ WF_vars(Sending) /\ WF_vars(ListenGui)

--------------------------------------------------------------------------------
(* Properties. *)

TypeOK ==
  /\ gui \in BOOLEAN /\ daemon \in BOOLEAN
  /\ len \in [File -> Size]
  /\ client.at \in {"idle", "copy"} /\ client.id \in 0 .. MaxTransfers
  /\ client.file \in File \cup {Mangled} /\ client.port \in Port \cup {0}
  /\ {client.size, client.sent, client.turns} \subseteq Nat
  /\ Len(sock) <= QLEN
  /\ buf.head \in [1 .. HEAD -> 0 .. 255]
  /\ label.name \in File \cup {Mangled} /\ label.port \in Word
  /\ label.percent \in 0 .. 100 \cup {INT_MIN} /\ label.secs \in Nat
  /\ rewrites \in 0 .. MaxRewrites /\ stops \in 0 .. MaxStops

\* The GUI can tell the two kinds of report apart.
Plain(r) == r.last <=> r.sent > r.size

\* What a report means.
Percent(r) == IF r.last THEN 100 ELSE (100 * r.sent) \div r.size
Secs(r) == IF r.last THEN r.size ELSE 0

\* However many reports a NUL in their port has cut short, the label shows the
\* numbers of the last one that came whole, and shows what they mean: how far the
\* transfer is, or how long it took.  Its port is right too, unless that has no
\* high byte.  With whole reports only, it shows the last one.
LabelIsLastWhole ==
  /\ whole.id # 0 /\ Plain(whole)
       => label.percent = Percent(whole) /\ label.secs = Secs(whole)
  /\ taken.id # 0 => taken.port < 256 \/ label.port = taken.port
  /\ taken.id # 0 /\ taken = whole => label.name = taken.file

\* Neither byte of the port is NUL, so that its reports come whole.
Plainly(port) == High(port) # 0 /\ Low(port) # 0

\* While one transfer is shown and no file changes, the bar never goes back: not
\* even at the last report, which counts something else.  (A file that grows under
\* the client is shown as done in mid-transfer, and goes on from there.)
BarNeverGoesBack ==
  [][rewrites = 0 /\ taken'.id = taken.id /\ Plainly(taken.port)
       => label'.percent >= label.percent]_vars

\* Each transfer that was begun is at last shown as complete, while GUI and daemon
\* run; one that sent no more bytes than it took seconds may be shown otherwise.
CompletionIsShown ==
  \A k \in 1 .. MaxTransfers :
    client.at = "copy" /\ client.id = k /\ Plainly(client.port)
      ~> \/ ~ gui \/ ~ daemon
         \/ /\ taken.id = k /\ taken.last
            /\ label.percent = 100 \/ taken.sent <= taken.size

================================================================================
