------------------------------ MODULE FileTransfer -----------------------------
(******************************************************************************)
(* The path of a file from one home directory to another: the client threads  *)
(* that run tcpsend_file_to_remote_peer (or its twin for UDP, which uses a    *)
(* stream to the TCP port too), the tcp_sync_server thread of each daemon,    *)
(* and the stream between them.  The protocol has no lengths and no marks:    *)
(* the name is what the first recv returns, the answer "OK" is what keeps the *)
(* content out of it, and the end of the stream is the end of the file.       *)
(*                                                                            *)
(* A node sends from and receives into the same directory, get_sync_home_path.*)
(* A daemon that exits, from exit(1), SIGPIPE or a bad pointer, takes its     *)
(* server and its clients with it, and its kernel closes their connections.   *)
(******************************************************************************)
EXTENDS Naturals, FiniteSets, SequencesExt

CONSTANTS
  Node,             \* the machines
  Transfer,         \* bound: the transfers that may take place at once
  Name,             \* file names: sequences of characters, << >> the blank one
  FirstHome,        \* what each home directory holds at first
  Missing,          \* the content of a file that does not exist
  NUL,              \* the character the server does not write
  NAMEBUF,          \* sizeof(filename) in the server
  BUF,              \* the size of the buffers of the client and of the server
  BACKLOG,          \* connections the server's socket holds while unaccepted
  CLIENTS,          \* clients of one node that send at once: 1, or 2 when the
                    \* mode changed in mid-transfer
  MaxKills          \* bound: processes killed from outside

\* What a file is stored under may be a name cut short.
Path == UNION {{SubSeq(f, 1, k) : k \in 0 .. Len(f)} : f \in Name}

\* The characters of a name or of a file.
Chars(s) == {s[i] : i \in DOMAIN s}

\* Every character in play.
FirstFiles == {FirstHome[n][p] : n \in Node, p \in Path} \ {Missing}
Byte == UNION {Chars(s) : s \in Name \cup FirstFiles}

ASSUME SizeAssumption ==
  /\ NAMEBUF \in Nat \ {0} /\ BUF \in Nat \ {0} /\ BACKLOG \in Nat \ {0}
  /\ CLIENTS \in {1, 2} /\ MaxKills \in Nat
ASSUME HomeAssumption ==
  /\ DOMAIN FirstHome = Node /\ \A n \in Node : DOMAIN FirstHome[n] = Path
  /\ \A n \in Node, p \in Path :
       FirstHome[n][p] = Missing \/ FirstHome[n][p] \in Seq(Chars(FirstHome[n][p]))
ASSUME MissingAssumption == Missing \notin Seq(Byte)
ASSUME NameAssumption == \A f \in Name : f \in Seq(Chars(f)) /\ NUL \notin Chars(f)

VARIABLES
  up,       \* the daemon of each node runs
  home,     \* get_sync_home_path of each node: the files in it
  xfer,     \* each transfer: the client's side, and what is in the stream
  srv,      \* each node's tcp_sync_server
  kills     \* processes killed from outside so far (bounded)

vars == <<up, home, xfer, srv, kills>>

\* A transfer: its ends and file; where the client is; the offset in its file;
\* the bytes written and not read; whether the answer has come; and history: all
\* bytes written, the file as it was opened, whether it has stayed so.
NoTransfer == [from |-> Missing, to |-> Missing, name |-> << >>, at |-> "unused",
               pos |-> 0, out |-> << >>, ok |-> FALSE,
               wrote |-> << >>, src |-> << >>, stable |-> TRUE]

\* A server: where it is, the transfer it serves, the name it read, what it gave
\* to stdio, and the connections that wait.
IdleServer == [at |-> "accept", cur |-> Missing, path |-> << >>, got |-> << >>,
               backlog |-> << >>]

Init ==
  /\ up = [n \in Node |-> TRUE]
  /\ home = FirstHome
  /\ xfer = [t \in Transfer |-> NoTransfer]
  /\ srv = [n \in Node |-> IdleServer]
  /\ kills = 0

--------------------------------------------------------------------------------

Least(i, j) == IF i < j THEN i ELSE j
Take(s, k) == SubSeq(s, 1, Least(k, Len(s)))
Drop(s, k) == SubSeq(s, k + 1, Len(s))

\* for(;i<1000;i++) if(rcvd_buf[i]!=0) fprintf(fd,"%c",rcvd_buf[i])
NonNul(s) ==
  LET kept[i \in 0 .. Len(s)] ==
        IF i = 0 THEN << >>
        ELSE kept[i - 1] \o (IF s[i] = NUL THEN << >> ELSE <<s[i]>>)
  IN  kept[Len(s)]

Sending == {"name", "await", "copy"}

\* The client's end of the connection is closed.
Ended(t) == xfer[t].at = "done" \/ ~ up[xfer[t].from]

\* What a transfer is when the client has closed: forgotten, if its server is gone.
Closed(x) == IF up[x.to] THEN [x EXCEPT !.at = "done"] ELSE NoTransfer

\* The bytes the client's next read of its file would return.
Ahead(t) ==
  LET f == home[xfer[t].from][xfer[t].name]
  IN  IF f = Missing THEN << >> ELSE Take(Drop(f, xfer[t].pos), BUF)

\* File p of node n becomes content, under the clients x that may be reading it.
Store(n, p, content, x) ==
  /\ home' = [home EXCEPT ![n][p] = content]
  /\ xfer' = [t \in Transfer |->
       IF x[t].at = "copy" /\ x[t].from = n /\ x[t].name = p
          /\ home[n][p] # content
       THEN [x[t] EXCEPT !.stable = FALSE]
       ELSE x[t]]

Exit(n) == up' = [up EXCEPT ![n] = FALSE]

--------------------------------------------------------------------------------
(* The client. *)

\* socket and connect.  A refused connection is only printed; the write that
\* follows raises SIGPIPE.
Dial(t, n, m, f) ==
  /\ up[n]
  /\ xfer[t].at = "unused"
  /\ Cardinality({u \in Transfer : xfer[u].from = n /\ xfer[u].at \in Sending})
       < CLIENTS
  /\ IF up[m]
     THEN /\ Len(srv[m].backlog) < BACKLOG
          /\ srv' = [srv EXCEPT ![m].backlog = Append(@, t)]
          /\ xfer' = [xfer EXCEPT ![t] =
               [NoTransfer EXCEPT !.from = n, !.to = m, !.name = f, !.at = "name"]]
          /\ UNCHANGED up
     ELSE Exit(n) /\ UNCHANGED <<srv, xfer>>
  /\ UNCHANGED <<home, kills>>

\* write of bytes: into the stream; or, when the other end is gone, into nothing,
\* or SIGPIPE.
Write(t, bytes, x) ==
  \/ /\ up[x.to]
     /\ xfer' = [xfer EXCEPT ![t] =
          [x EXCEPT !.out = @ \o bytes, !.wrote = @ \o bytes]]
     /\ UNCHANGED up
  \/ /\ ~ up[x.to]
     /\ xfer' = [xfer EXCEPT ![t] = x]
     /\ UNCHANGED up
  \/ /\ ~ up[x.to]
     /\ Exit(x.from)
     /\ UNCHANGED xfer

\* Fault: the last character of the name is not written.
SendNameShort(t) ==
  /\ xfer[t].at = "name"
  /\ up[xfer[t].from]
  /\ Write(t, Take(xfer[t].name, Len(xfer[t].name) - 1), [xfer[t] EXCEPT !.at = "await"])
  /\ UNCHANGED <<home, srv, kills>>

\* The first step: the name; a blank one is no bytes at all.
SendName(t) ==
  /\ xfer[t].at = "name"
  /\ up[xfer[t].from]
  /\ Write(t, xfer[t].name, [xfer[t] EXCEPT !.at = "await"])
  /\ UNCHANGED <<home, srv, kills>>

\* Fault: the client does not wait for the answer.
GetAnswerEarly(t) ==
  /\ xfer[t].at = "await"
  /\ up[xfer[t].from]
  /\ LET f == home[xfer[t].from][xfer[t].name]
     IN  xfer' = IF f = Missing
                 THEN [xfer EXCEPT ![t] = Closed(@)]
                 ELSE [xfer EXCEPT ![t].at = "copy", ![t].src = f]
  /\ UNCHANGED <<up, home, srv, kills>>

\* Fault: the answer is not the one the client compares it with: it waits again.
GetAnswerAgain(t) ==
  /\ xfer[t].at = "await"
  /\ up[xfer[t].from]
  /\ xfer[t].ok
  /\ UNCHANGED vars

\* The second step: recv returns, whatever it returns the client goes on.  It
\* opens its file; failing that it has nothing to send.
GetAnswer(t) ==
  /\ xfer[t].at = "await"
  /\ up[xfer[t].from]
  /\ xfer[t].ok \/ ~ up[xfer[t].to]
  /\ LET f == home[xfer[t].from][xfer[t].name]
     IN  xfer' = IF f = Missing
                 THEN [xfer EXCEPT ![t] = Closed(@)]
                 ELSE [xfer EXCEPT ![t].at = "copy", ![t].src = f]
  /\ UNCHANGED <<up, home, srv, kills>>

\* The third step: one turn of the loop that reads the file and writes it.
SendChunk(t) ==
  /\ xfer[t].at = "copy"
  /\ up[xfer[t].from]
  /\ Ahead(t) # << >>
  /\ Write(t, Ahead(t), [xfer[t] EXCEPT !.pos = @ + Len(Ahead(t))])
  /\ UNCHANGED <<home, srv, kills>>

\* The end of the file: the client removes the entry and closes.
Finish(t) ==
  /\ xfer[t].at = "copy"
  /\ up[xfer[t].from]
  /\ Ahead(t) = << >>
  /\ xfer' = [xfer EXCEPT ![t] = Closed(@)]
  /\ UNCHANGED <<up, home, srv, kills>>

--------------------------------------------------------------------------------
(* The server. *)

At(n, point) == up[n] /\ srv[n].at = point

Accept(n) ==
  /\ At(n, "accept")
  /\ srv[n].backlog # << >>
  /\ srv' = [srv EXCEPT ![n] = [IdleServer EXCEPT !.at = "name",
               !.cur = Head(srv[n].backlog), !.backlog = Tail(srv[n].backlog)]]
  /\ UNCHANGED <<up, home, xfer, kills>>

\* Fault: the name is read without regard to the array.
RecvNameUnbounded(n) ==
  LET t == srv[n].cur
  IN  /\ At(n, "name")
      /\ xfer[t].out # << >> \/ Ended(t)
      /\ srv' = [srv EXCEPT ![n].at = "reply", ![n].path = xfer[t].out]
      /\ xfer' = [xfer EXCEPT ![t].out = << >>]
      /\ UNCHANGED <<up, home, kills>>

\* One recv of at most NAMEBUF bytes.  When it fills the array the terminator
\* lands behind it, in another local: that may or may not be the end.
RecvName(n) ==
  LET t == srv[n].cur
  IN  /\ At(n, "name")
      /\ xfer[t].out # << >> \/ Ended(t)
      /\ srv' = [srv EXCEPT ![n].at = "reply", ![n].path = Take(xfer[t].out, NAMEBUF)]
      /\ xfer' = [xfer EXCEPT ![t].out = Drop(@, NAMEBUF)]
      /\ UNCHANGED up \/ (Len(xfer[t].out) >= NAMEBUF /\ Exit(n))
      /\ UNCHANGED <<home, kills>>

\* "OK", before the file is opened.
Reply(n) ==
  /\ At(n, "reply")
  /\ srv' = [srv EXCEPT ![n].at = "open"]
  /\ xfer' = [xfer EXCEPT ![srv[n].cur].ok = TRUE]
  /\ UNCHANGED <<up, home, kills>>

\* Fault: the file is opened for update and what it held stays.
OpenKept(n) ==
  /\ At(n, "open")
  /\ srv' = [srv EXCEPT ![n].at = "body"]
  /\ UNCHANGED <<up, home, xfer, kills>>

\* fopen(filepath, "w") empties the file.  The blank name is the directory: the
\* call fails, which is only printed.
Open(n) ==
  /\ At(n, "open")
  /\ srv' = [srv EXCEPT ![n].at = "body"]
  /\ IF srv[n].path = << >> THEN UNCHANGED <<home, xfer>>
                            ELSE Store(n, srv[n].path, << >>, xfer)
  /\ UNCHANGED <<up, kills>>

\* Fault: the rest of the buffer is written too, NUL characters and all.
ReadBodyRaw(n) ==
  LET t == srv[n].cur
  IN  /\ At(n, "body")
      /\ xfer[t].out # << >>
      /\ \E k \in 1 .. Least(BUF, Len(xfer[t].out)) :
           /\ srv' = [srv EXCEPT ![n].got = @ \o Take(xfer[t].out, k)]
           /\ xfer' = [xfer EXCEPT ![t].out = Drop(@, k)]
      /\ UNCHANGED <<up, home, kills>>

\* One read, of as much of the stream as has come.
ReadBody(n) ==
  LET t == srv[n].cur
  IN  /\ At(n, "body")
      /\ xfer[t].out # << >>
      /\ \E k \in 1 .. Least(BUF, Len(xfer[t].out)) :
           /\ srv' = [srv EXCEPT ![n].got = @ \o NonNul(Take(xfer[t].out, k))]
           /\ xfer' = [xfer EXCEPT ![t].out = Drop(@, k)]
      /\ UNCHANGED <<up, home, kills>>

\* stdio writes its buffer out when that is full.
Flush(n) ==
  /\ At(n, "body")
  /\ srv[n].path # << >>
  /\ home[n][srv[n].path] # srv[n].got
  /\ Store(n, srv[n].path, srv[n].got, xfer)
  /\ UNCHANGED <<up, srv, kills>>

\* Fault: the server closes when the client has, with bytes still to be read.
CloseEarly(n) ==
  LET t == srv[n].cur
  IN  /\ At(n, "body")
      /\ Ended(t)
      /\ srv[n].path # << >>
      /\ Store(n, srv[n].path, srv[n].got, [xfer EXCEPT ![t] = NoTransfer])
      /\ srv' = [srv EXCEPT ![n] = [IdleServer EXCEPT !.backlog = srv[n].backlog]]
      /\ UNCHANGED <<up, kills>>

\* Fault: the file is not closed, and what stdio holds is not written.
CloseUnflushed(n) ==
  LET t == srv[n].cur
  IN  /\ At(n, "body")
      /\ xfer[t].out = << >> /\ Ended(t)
      /\ srv[n].path # << >>
      /\ xfer' = [xfer EXCEPT ![t] = NoTransfer]
      /\ srv' = [srv EXCEPT ![n] = [IdleServer EXCEPT !.backlog = srv[n].backlog]]
      /\ UNCHANGED <<up, home, kills>>

\* The stream ends: fclose, which a failed fopen makes fatal, and close.
Close(n) ==
  LET t == srv[n].cur
  IN  /\ At(n, "body")
      /\ xfer[t].out = << >> /\ Ended(t)
      /\ IF srv[n].path = << >>
         THEN Exit(n) /\ UNCHANGED <<home, xfer, srv>>
         ELSE /\ Store(n, srv[n].path, srv[n].got, [xfer EXCEPT ![t] = NoTransfer])
              /\ srv' = [srv EXCEPT ![n] = [IdleServer EXCEPT !.backlog = srv[n].backlog]]
              /\ UNCHANGED up
      /\ UNCHANGED kills

--------------------------------------------------------------------------------

\* The daemon is killed, or exits for want of a GUI.
Kill(n) ==
  /\ up[n]
  /\ kills < MaxKills
  /\ Exit(n)
  /\ kills' = kills + 1
  /\ UNCHANGED <<home, xfer, srv>>

ClientStep(t) == SendName(t) \/ GetAnswer(t) \/ SendChunk(t) \/ Finish(t)
ServerStep(n) ==
  \/ Accept(n) \/ RecvName(n) \/ Reply(n) \/ Open(n) \/ ReadBody(n) \/ Close(n)

Next ==
  \/ \E t \in Transfer, n, m \in Node, f \in Name : Dial(t, n, m, f)
  \/ \E t \in Transfer : ClientStep(t)
  \/ \E n \in Node : ServerStep(n) \/ Flush(n) \/ Kill(n)

\* Threads are scheduled, and the network moves what was written.
Fairness ==
  /\ \A t \in Transfer : WF_vars(ClientStep(t))
  /\ \A n \in Node : WF_vars(ServerStep(n))

Spec == Init /\ [][Next]_vars /\ Fairness

--------------------------------------------------------------------------------
(* Properties. *)

\* Type correctness: in particular a server's name never exceeds its array, and a
\* waiting connection is a transfer.
TypeOK ==
  /\ up \in [Node -> BOOLEAN]
  /\ \A n \in Node, p \in Path : home[n][p] = Missing \/ home[n][p] \in Seq(Byte)
  /\ \A t \in Transfer :
       /\ xfer[t].at \in Sending \cup {"unused", "done"}
       /\ xfer[t].at # "unused" => xfer[t].from \in Node /\ xfer[t].to \in Node
       /\ xfer[t].name \in Name \cup {<< >>} /\ xfer[t].pos \in Nat
       /\ {xfer[t].out, xfer[t].wrote, xfer[t].src} \subseteq Seq(Byte)
       /\ xfer[t].ok \in BOOLEAN /\ xfer[t].stable \in BOOLEAN
  /\ \A n \in Node :
       /\ srv[n].at \in {"accept", "name", "reply", "open", "body"}
       /\ srv[n].cur \in Transfer \cup {Missing}
       /\ srv[n].path \in Path \cup {<< >>} /\ Len(srv[n].path) <= NAMEBUF
       /\ srv[n].got \in Seq(Byte) /\ srv[n].backlog \in Seq(Transfer)
  /\ kills \in 0 .. MaxKills

\* The stream is cut into name and content and nothing of it is lost, repeated or
\* taken from another connection: the name, what was given to stdio and what is
\* still to be read are what the client wrote, without its NUL characters.
StreamKept ==
  \A n \in Node : up[n] /\ srv[n].at \in {"reply", "open", "body"}
    => LET x == xfer[srv[n].cur]
       IN  srv[n].path \o srv[n].got \o NonNul(x.out) = NonNul(x.wrote)

\* The answer is what keeps name and content apart: for a name shorter than the
\* server's array, the server never takes a byte of content for the name, nor a
\* byte of the name for content, however the client and the network are timed; a
\* client that dies first leaves it with no name at all.
NameIntact ==
  \A n \in Node : up[n] /\ srv[n].at \in {"reply", "open", "body"}
    => LET x == xfer[srv[n].cur]
       IN  x.name # << >> /\ Len(x.name) < NAMEBUF =>
             \/ srv[n].path = x.name
             \/ srv[n].path = << >> /\ ~ up[x.from]

\* Client and server wait for one another, for ever, only over a blank name.
StuckOnlyOnBlank ==
  \A n \in Node : At(n, "name")
    => LET x == xfer[srv[n].cur]
       IN  up[x.from] /\ x.at = "await" /\ x.out = << >> => x.name = << >>

\* When the server closes a file, it holds a beginning of the client's file as
\* that was opened, without the NUL characters; and all of it, if the client came
\* to its end rather than dying.  This needs the name to fit, and the client's
\* file not to be rewritten by the client's own server in the meantime.
FaithfulCopy ==
  [][\A n \in Node : srv[n].at = "body" /\ srv'[n].at = "accept" =>
       LET x == xfer[srv[n].cur]
       IN  x.stable /\ Len(x.name) < NAMEBUF =>
             /\ IsPrefix(home'[n][x.name], NonNul(x.src))
             /\ x.at = "done" => home'[n][x.name] = NonNul(x.src)]_vars

\* Before that, at every moment at which either daemon may die and leave it so, the
\* file on the server's disk is a beginning of the client's file: nothing of the old
\* file is left behind the new one, and what stdio has written is in order.
HeldIsBeginning ==
  \A n \in Node : At(n, "body") /\ srv[n].path # << >> =>
    LET x == xfer[srv[n].cur]
    IN  x.stable /\ Len(x.name) < NAMEBUF =>
          home[n][x.name] # Missing /\ IsPrefix(home[n][x.name], NonNul(x.src))

\* Every transfer that was begun comes to its end, unless a daemon dies: whoever
\* is ahead of it in the backlog is served first.
EveryTransferEnds ==
  \A t \in Transfer :
    xfer[t].at \in Sending ~> (xfer[t].at \notin Sending \/ ~ up[xfer[t].from])

================================================================================
