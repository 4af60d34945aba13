------------------------------- MODULE SyncDaemon ------------------------------
(******************************************************************************)
(* The sending half of one SyncAnywhere daemon process: the synchronisation   *)
(* repository (a ring of MAX_REPOS_NUM slots with a mutex), the listener      *)
(* thread that serves the GUI's requests, and the two client threads, "TCP"   *)
(* and "UDP", of which the transfer mode is meant to let one work.            *)
(*                                                                            *)
(* The granularity is that of the code's shared accesses.  The critical       *)
(* sections that only read or write head and tail together are one step;      *)
(* addItem2SyncRepos writes one field of one slot per step, because           *)
(* getCurrentUnsyncedFile reads the slots, and queue_tail, without the lock;  *)
(* removeItemFromSyncRepos is two steps, because queue_tail briefly equals    *)
(* MAX_REPOS_NUM between its increment and its wrap.                          *)
(*                                                                            *)
(* A process that exits (exit(1), or SIGPIPE on a stream that is not          *)
(* connected) takes every thread and the whole repository with it.            *)
(******************************************************************************)
EXTENDS Integers, Sequences

CONSTANTS
  MAX_REPOS_NUM,    \* slots of the ring
  PeerList,         \* peer_list: a sequence of [ip, is_used], 0 meaning valid
  LocalIps,         \* the addresses of this machine's interfaces
  File,             \* the file names the GUI may add
  Blank,            \* the empty string of a slot that was never written
  Garbage,          \* a text no thread wrote: read past the ring, or in mid-copy
  QuietSwitch,      \* the user changes the mode only while no client works
  RoomAware,        \* the user adds a file only while a free slot per peer is left
  MaxAdds,          \* bound: files added
  MaxSwitches,      \* bound: mode messages
  MaxSent           \* bound: transfers finished


Mode == {"TCP", "UDP"}
Clients == Mode                 \* one client thread per mode
Listener == "listener"
Free == "free"

Other(c) == IF c = "TCP" THEN "UDP" ELSE "TCP"

Ip == {PeerList[i].ip : i \in DOMAIN PeerList}

\* The ring has a slot; the peer list is the array initializePeerList fills; a
\* file has a name.
ASSUME RingAssumption == MAX_REPOS_NUM \in Nat \ {0}
ASSUME PeerAssumption == PeerList \in Seq([ip : Ip, is_used : {0, 1}])
ASSUME NameAssumption == Blank \notin File
ASSUME UserAssumption == QuietSwitch \in BOOLEAN /\ RoomAware \in BOOLEAN
ASSUME BoundAssumption ==
  MaxAdds \in Nat /\ MaxSwitches \in Nat /\ MaxSent \in Nat

\* The entries a file is put for: the valid ones that are not this machine.
is_local_ip(ip) == ip \in LocalIps
IsTarget(p) == p.is_used = 0 /\ ~ is_local_ip(p.ip)

Dest == {PeerList[i].ip : i \in {j \in DOMAIN PeerList : IsTarget(PeerList[j])}}
Task == [filename : File, dest_ip : Dest]
Text(S) == S \cup {Blank, Garbage}
Slot == [filename : Text(File), dest_ip : Text(Ip)]

VARIABLES
  up,           \* the daemon process runs
  guiUp,        \* the GUI is bound to its socket
  mode,         \* global_transfer_mode
  slots,        \* syncfile_repos
  head,         \* queue_head
  tail,         \* queue_tail
  mutex,        \* mutex_repos: the thread inside, or Free
  lpc,          \* where the listener is
  newFile,      \* the file the listener is adding
  peer,         \* the entry of PeerList its loop has reached
  pc,           \* where each client is
  file_name,    \* each client's copy of the file name
  dest_ip,      \* each client's copy of the destination
  puts,         \* history: entries put since the process started
  removed,      \* history: entries removed since the process started
  sent,         \* history: transfers finished, ever
  adds,         \* add messages so far (bounded)
  switches      \* mode messages so far (bounded)

env     == <<guiUp, adds, switches>>
ring    == <<slots, head, tail>>
adding  == <<lpc, newFile, peer>>
reading == <<file_name, dest_ip>>
counts  == <<puts, removed, sent>>
vars    == <<up, env, mode, ring, mutex, adding, pc, reading, counts>>

--------------------------------------------------------------------------------
(* The ring. *)

\* Fault: the index is wrapped one too late.
WrapLate(i) == IF i > MAX_REPOS_NUM THEN i - MAX_REPOS_NUM ELSE i

\* An index one past the last slot is the first slot again.
Wrap(i) == IF i >= MAX_REPOS_NUM THEN i - MAX_REPOS_NUM ELSE i

\* The number of entries between the two indices, as hasMoreItemInSyncRepos
\* and its callers understand them.
Used ==
  LET t == Wrap(tail)
  IN  IF head >= t THEN head - t ELSE head - t + MAX_REPOS_NUM

\* The k-th oldest entry, and the entries from the oldest to the newest.
Entry(k) == slots[Wrap(Wrap(tail) + k - 1)]
Contents == [k \in 1 .. Used |-> Entry(k)]

\* Fault: the entry that is read is the one queue_head names.
AtHead == {slots[head]}

\* What an unlocked read of the slot at queue_tail may yield: past the end of the
\* ring, any text; in a slot the listener is copying into, perhaps half a copy.
AtTail ==
  IF tail = MAX_REPOS_NUM
  THEN [filename : {Blank, Garbage}, dest_ip : {Blank, Garbage}]
  ELSE IF mutex = Listener /\ tail = head
  THEN [filename : {slots[tail].filename, Garbage},
        dest_ip : {slots[tail].dest_ip, Garbage}]
  ELSE {slots[tail]}

--------------------------------------------------------------------------------
(* The process: main and startDaemon, then its death. *)

\* Static storage starts as empty strings.
BlankSlots == [i \in 0 .. MAX_REPOS_NUM - 1 |->
                 [filename |-> Blank, dest_ip |-> Blank]]
Each(v) == [c \in Clients |-> v]

\* What main and startDaemon leave to the threads.
Init ==
  /\ up = TRUE /\ guiUp \in BOOLEAN
  /\ mode = "UDP"
  /\ slots = BlankSlots /\ head = 0 /\ tail = 0
  /\ mutex = Free
  /\ lpc = "recv" /\ newFile = Blank /\ peer = 1
  /\ pc = Each("mode") /\ file_name = Each(Blank) /\ dest_ip = Each(Blank)
  /\ puts = 0 /\ removed = 0 /\ sent = << >>
  /\ adds = 0 /\ switches = 0

\* The process is gone; what its memory held stays in the variables, unused,
\* until the next start overwrites it.
Die ==
  /\ up' = FALSE
  /\ UNCHANGED <<env, mode, ring, mutex, adding, pc, reading, counts>>

\* The user starts the daemon again: nothing of the repository was on disk.
Restart ==
  /\ ~ up
  /\ up' = TRUE
  /\ mode' = "UDP"
  /\ slots' = BlankSlots /\ head' = 0 /\ tail' = 0
  /\ mutex' = Free
  /\ lpc' = "recv" /\ newFile' = Blank /\ peer' = 1
  /\ pc' = Each("mode") /\ file_name' = Each(Blank) /\ dest_ip' = Each(Blank)
  /\ puts' = 0 /\ removed' = 0
  /\ UNCHANGED <<env, sent>>

\* The GUI starts (binding its socket) or quits.
ToggleGui ==
  /\ guiUp' = ~ guiUp
  /\ UNCHANGED <<up, adds, switches, mode, ring, mutex, adding, pc, reading,
                 counts>>

--------------------------------------------------------------------------------
(* The listener thread: sync_listen. *)

\* An add request arrives and addItem2SyncRepos takes the lock.
ReceiveAdd(f) ==
  /\ up
  /\ lpc = "recv"
  /\ adds < MaxAdds
  /\ RoomAware => Used + Len(PeerList) < MAX_REPOS_NUM
  /\ mutex = Free
  /\ mutex' = Listener
  /\ lpc' = "loop"
  /\ newFile' = f
  /\ peer' = 1
  /\ adds' = adds + 1
  /\ UNCHANGED <<up, guiUp, switches, mode, ring, pc, reading, counts>>

\* A mode request arrives.  The port it also assigns is read by no thread of this
\* module: PeerManage models it.
ReceiveMode(m) ==
  /\ up
  /\ lpc = "recv"
  /\ switches < MaxSwitches
  /\ QuietSwitch => \A c \in Clients : pc[c] = "mode"
  /\ mode' = m
  /\ switches' = switches + 1
  /\ UNCHANGED <<up, guiUp, adds, ring, mutex, adding, pc, reading, counts>>

\* Fault: the loop goes round without its increment.
SkipPeerForever ==
  /\ up
  /\ lpc = "loop"
  /\ peer <= Len(PeerList)
  /\ ~ IsTarget(PeerList[peer])
  /\ UNCHANGED vars

\* The loop passes over an entry that is not valid, or that is this machine.
SkipPeer ==
  /\ up
  /\ lpc = "loop"
  /\ peer <= Len(PeerList)
  /\ ~ IsTarget(PeerList[peer])
  /\ peer' = peer + 1
  /\ UNCHANGED <<up, env, mode, ring, mutex, lpc, newFile, pc, reading, counts>>

\* Fault: the name goes into the slot after queue_head.
CopyNameAhead ==
  /\ up
  /\ lpc = "loop"
  /\ peer <= Len(PeerList)
  /\ IsTarget(PeerList[peer])
  /\ slots' = [slots EXCEPT ![Wrap(head + 1)].filename = newFile]
  /\ lpc' = "dest"
  /\ UNCHANGED <<up, env, mode, head, tail, mutex, newFile, peer, pc, reading,
                 counts>>

\* strcpy of the file name into the slot at queue_head: nothing checks that the
\* slot is free.
CopyName ==
  /\ up
  /\ lpc = "loop"
  /\ peer <= Len(PeerList)
  /\ IsTarget(PeerList[peer])
  /\ slots' = [slots EXCEPT ![head].filename = newFile]
  /\ lpc' = "dest"
  /\ UNCHANGED <<up, env, mode, head, tail, mutex, newFile, peer, pc, reading,
                 counts>>

\* Fault: queue_head returns to the first slot before it has used the last.
CopyDestEarly ==
  /\ up
  /\ lpc = "dest"
  /\ slots' = [slots EXCEPT ![head].dest_ip = PeerList[peer].ip]
  /\ head' = IF head + 1 >= MAX_REPOS_NUM - 1 THEN 0 ELSE head + 1
  /\ puts' = puts + 1
  /\ peer' = peer + 1
  /\ lpc' = "loop"
  /\ UNCHANGED <<up, env, mode, tail, mutex, newFile, pc, reading, removed,
                 sent>>

\* sprintf of the destination into the same slot, which queue_head then passes.
CopyDest ==
  /\ up
  /\ lpc = "dest"
  /\ slots' = [slots EXCEPT ![head].dest_ip = PeerList[peer].ip]
  /\ head' = Wrap(head + 1)
  /\ puts' = puts + 1
  /\ peer' = peer + 1
  /\ lpc' = "loop"
  /\ UNCHANGED <<up, env, mode, tail, mutex, newFile, pc, reading, removed,
                 sent>>

\* The loop is over: the lock is released and the listener waits again.
AddDone ==
  /\ up
  /\ lpc = "loop"
  /\ peer > Len(PeerList)
  /\ mutex' = Free
  /\ lpc' = "recv"
  /\ UNCHANGED <<up, env, mode, ring, newFile, peer, pc, reading, counts>>

--------------------------------------------------------------------------------
(* A client thread: tcp_sync_client or udp_sync_client. *)

\* Client c moves from one point of its loop to another.
Goto(c, from, to) ==
  /\ up
  /\ pc[c] = from
  /\ pc' = [pc EXCEPT ![c] = to]

\* The client goes on unless the mode is the other's, in which case it sleeps.
CheckMode(c) ==
  /\ Goto(c, "mode", "more")
  /\ mode # Other(c)
  /\ UNCHANGED <<up, env, mode, ring, mutex, adding, reading, counts>>

\* hasMoreItemInSyncRepos: equal indices mean an empty repository.
HasMore(c) ==
  /\ Goto(c, "more", IF head = tail THEN "mode" ELSE "name")
  /\ mutex = Free
  /\ UNCHANGED <<up, env, mode, ring, mutex, adding, reading, counts>>

\* getCurrentUnsyncedFile, first half: the file name, without the lock.
ReadName(c) ==
  /\ Goto(c, "name", "dest")
  /\ \E item \in AtTail : file_name' = [file_name EXCEPT ![c] = item.filename]
  /\ UNCHANGED <<up, env, mode, ring, mutex, adding, dest_ip, counts>>

\* getCurrentUnsyncedFile, second half: the destination, through queue_tail
\* read again.  The UDP client then asks for a UDP port that it will not use.
ReadDest(c) ==
  /\ Goto(c, "dest", IF c = "UDP" THEN "udpport" ELSE "port")
  /\ \E item \in AtTail : dest_ip' = [dest_ip EXCEPT ![c] = item.dest_ip]
  /\ UNCHANGED <<up, env, mode, ring, mutex, adding, file_name, counts>>

\* get_udp_port, whose answer the next call overwrites.
QueryUdpPort(c) ==
  /\ Goto(c, "udpport", "port")
  /\ UNCHANGED <<up, env, mode, ring, mutex, adding, reading, counts>>

\* get_tcp_port: the destination's manager answers.
QueryTcpPort(c) ==
  /\ Goto(c, "port", "send")
  /\ UNCHANGED <<up, env, mode, ring, mutex, adding, reading, counts>>

\* The connection is refused or reset: the next write raises SIGPIPE.
ConnectionLost(c) ==
  /\ up
  /\ pc[c] \in {"udpport", "port", "send"}
  /\ Die

\* Fault: a transfer without a name is given up, and its entry removed.
SendFileOrSkip(c) ==
  /\ Goto(c, "send", "notify")
  /\ Len(sent) < MaxSent
  /\ sent' = IF file_name[c] = Blank THEN sent
             ELSE Append(sent, [filename |-> file_name[c], dest_ip |-> dest_ip[c]])
  /\ UNCHANGED <<up, env, mode, ring, mutex, adding, reading, puts, removed>>

\* The file name is sent, an answer awaited, the file written.  An empty name
\* is written as no bytes at all: the server waits for the name and the client
\* for the answer, for ever.
SendFile(c) ==
  /\ Goto(c, "send", "notify")
  /\ file_name[c] # Blank
  /\ Len(sent) < MaxSent
  /\ sent' = Append(sent, [filename |-> file_name[c], dest_ip |-> dest_ip[c]])
  /\ UNCHANGED <<up, env, mode, ring, mutex, adding, reading, puts, removed>>

\* A report in the middle of the file, or the last one, finds no GUI: exit(1).
ReportFails(c) ==
  /\ up
  /\ pc[c] \in {"send", "notify"}
  /\ file_name[c] # Blank
  /\ ~ guiUp
  /\ Die

\* The last report reaches the GUI.
Notify(c) ==
  /\ Goto(c, "notify", "remove")
  /\ guiUp
  /\ UNCHANGED <<up, env, mode, ring, mutex, adding, reading, counts>>

\* Fault: queue_tail is incremented without the lock.
AdvanceUnlocked(c) ==
  /\ Goto(c, "remove", "wrap")
  /\ mutex' = c
  /\ tail' = tail + 1
  /\ removed' = removed + 1
  /\ UNCHANGED <<up, env, mode, slots, head, adding, reading, puts, sent>>

\* Fault: the entry stays after its transfer.
AdvanceForgotten(c) ==
  /\ Goto(c, "remove", "wrap")
  /\ mutex = Free
  /\ mutex' = c
  /\ UNCHANGED <<up, env, mode, ring, adding, reading, counts>>

\* removeItemFromSyncRepos, first half: the lock, then queue_tail++.
Advance(c) ==
  /\ Goto(c, "remove", "wrap")
  /\ mutex = Free
  /\ mutex' = c
  /\ tail' = tail + 1
  /\ removed' = removed + 1
  /\ UNCHANGED <<up, env, mode, slots, head, adding, reading, puts, sent>>

\* removeItemFromSyncRepos, second half: the wrap, then the unlock.
WrapTail(c) ==
  /\ Goto(c, "wrap", "mode")
  /\ tail' = Wrap(tail)
  /\ mutex' = Free
  /\ UNCHANGED <<up, env, mode, slots, head, adding, reading, counts>>

--------------------------------------------------------------------------------

Adding == SkipPeer \/ CopyName \/ CopyDest \/ AddDone

\* A client thread running on, as long as its peer answers and the GUI listens.
Working(c) ==
  \/ CheckMode(c) \/ HasMore(c) \/ ReadName(c) \/ ReadDest(c)
  \/ QueryUdpPort(c) \/ QueryTcpPort(c) \/ SendFile(c) \/ Notify(c)
  \/ Advance(c) \/ WrapTail(c)

Failing(c) == ConnectionLost(c) \/ ReportFails(c)

Next ==
  \/ Restart
  \/ ToggleGui
  \/ \E f \in File : ReceiveAdd(f)
  \/ \E m \in Mode : ReceiveMode(m)
  \/ Adding
  \/ \E c \in Clients : Working(c) \/ Failing(c)

\* Threads are scheduled; a peer that was reached answers, or its connection
\* breaks; a report is received, or fails.  The user owes nothing.
Fairness ==
  /\ WF_vars(Adding)
  /\ \A c \in Clients : WF_vars(Working(c) \/ ReportFails(c))

Spec == Init /\ [][Next]_vars /\ Fairness

--------------------------------------------------------------------------------
(* Properties. *)

Threads == Clients \cup {Listener}
LPoints == {"recv", "loop", "dest"}
Points == {"mode", "more", "name", "dest", "udpport", "port", "send", "notify",
           "remove", "wrap"}

\* Type correctness: queue_tail reaches MAX_REPOS_NUM (SyncAnywhereDaemonTypes.h
\* increments before it wraps), queue_head never does.
TypeOK ==
  /\ up \in BOOLEAN /\ guiUp \in BOOLEAN
  /\ mode \in Mode
  /\ slots \in [0 .. MAX_REPOS_NUM - 1 -> Slot]
  /\ head \in 0 .. MAX_REPOS_NUM - 1 /\ tail \in 0 .. MAX_REPOS_NUM
  /\ mutex \in Threads \cup {Free}
  /\ lpc \in LPoints /\ newFile \in Text(File) /\ peer \in 1 .. Len(PeerList) + 1
  /\ pc \in [Clients -> Points]
  /\ file_name \in [Clients -> Text(File)] /\ dest_ip \in [Clients -> Text(Ip)]
  /\ puts \in Nat /\ removed \in Nat /\ sent \in Seq(Slot)
  /\ adds \in 0 .. MaxAdds /\ switches \in 0 .. MaxSwitches

\* mutex_repos does its part, whatever the user does: it is held exactly by the
\* listener in its loop or by a client in removeItemFromSyncRepos, so that no
\* second thread increments queue_tail while it stands one past the ring; and
\* the entry the listener is copying is a destination of the list.
LockDiscipline ==
  /\ lpc # "recv" <=> mutex = Listener
  /\ \A c \in Clients : pc[c] = "wrap" <=> mutex = c
  /\ tail = MAX_REPOS_NUM => mutex \in Clients
  /\ lpc = "dest" => peer <= Len(PeerList) /\ IsTarget(PeerList[peer])

\* The points between reading an entry and removing it.
HasNameAt == {"dest", "udpport", "port", "send", "notify", "remove"}
HasTaskAt == HasNameAt \ {"dest"}

\* With a user who switches only a daemon at rest and leaves room: what a client
\* read from the ring without the lock, one field at a time, is one whole entry,
\* the oldest, and still in its slot until the client itself removes it; the
\* client is alone, and is the one the mode names.
SendsOldest ==
  up => \A c \in Clients :
    /\ pc[c] # "mode" => mode = c
    /\ pc[c] \in HasNameAt \cup {"name"} => Used > 0 /\ Entry(1) \in Task
    /\ pc[c] \in HasNameAt => file_name[c] = Entry(1).filename
    /\ pc[c] \in HasTaskAt => dest_ip[c] = Entry(1).dest_ip

\* With the same user the two indices say exactly how many entries were put and
\* not removed, so that hasMoreItemInSyncRepos is right both ways.
CountIsExact ==
  up => puts - removed = Used

\* What makes the two properties above inductive: a client at work is the one the
\* mode names; an add leaves a slot unused for each peer its loop has yet to pass;
\* a name copied is the one added; every slot between the indices holds an entry.
Alone == \A c \in Clients : pc[c] # "mode" => mode = c
Room == lpc # "recv" => /\ Used + Len(PeerList) - peer + 1 < MAX_REPOS_NUM
                        /\ newFile \in File
HalfCopied == lpc = "dest" => slots[head].filename = newFile
Whole == \A k \in 1 .. Used : Entry(k) \in Task

CalmInv == Alone /\ Room /\ HalfCopied /\ Whole

\* Whatever the user does, the indices count modulo the size of the ring, and
\* no more than that: hasMoreItemInSyncRepos answers "empty" exactly when the
\* entries put and the removals differ by a multiple of MAX_REPOS_NUM.
RingLedger ==
  up => /\ head = puts % MAX_REPOS_NUM
        /\ Wrap(tail) = removed % MAX_REPOS_NUM

\* A client that has sent a file and not yet removed its entry.
InHand(c) == IF pc[c] \in {"notify", "remove"} THEN 1 ELSE 0

\* Whatever the user does, every removal was preceded by a transfer the same
\* client finished: queue_tail never runs ahead of the files written.
RemovalsFollowSends ==
  up => removed + InHand("TCP") + InHand("UDP") <= Len(sent)

\* The promise of the repository, as TaskQueue states it: a transfer takes the
\* oldest task away when it is finished, the slot follows later, and a dead
\* daemon has no tasks.
Pending ==
  IF ~ up THEN << >>
  ELSE IF \E c \in Clients : pc[c] \in {"notify", "remove"}
       THEN Tail(Contents)
       ELSE Contents

Queue == INSTANCE TaskQueue WITH queue <- Pending

\* The daemon implements the abstract queue: exactly once, in order.
ImplementsQueue == Queue!Spec

\* A repository that is not empty does not stay as it is: its oldest entry is
\* sent, unless the daemon dies first.
Progress ==
  \A n \in 0 .. MaxSent - 1 :
    (up /\ Len(sent) = n /\ Pending # << >>) ~> (~ up \/ Len(sent) > n)

--------------------------------------------------------------------------------
(* What comments of the code say, and the code does not do. *)

\* hasMoreItemInSyncRepos, "1 no we dont": an answer of "empty" means that
\* everything put was removed.
EmptyMeansSynced ==
  up /\ mutex = Free /\ head = tail => puts = removed

\* The access functions are "thread-safe": a client that is about to send a file
\* has the two fields of one slot, not the name of one and the destination of
\* another.
NoTornEntry ==
  up => \A c \in Clients :
    pc[c] = "send" /\ file_name[c] \in File /\ dest_ip[c] # Garbage
    => \E i \in 0 .. MAX_REPOS_NUM - 1 :
         slots[i] = [filename |-> file_name[c], dest_ip |-> dest_ip[c]]

================================================================================
