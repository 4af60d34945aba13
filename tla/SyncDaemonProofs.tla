---------------------------- MODULE SyncDaemonProofs ---------------------------
(******************************************************************************)
(* Theorems about SyncDaemon, for every size of the ring, every peer list,    *)
(* every set of files and every bound.                                        *)
(******************************************************************************)
EXTENDS SyncDaemon, TLAPS

USE DEF Listener, Free, Clients, Mode

\* What the threads may be, and that their names differ.
LEMMA ThreadFacts ==
  /\ Threads = {"TCP", "UDP", "listener"}
  /\ \A c \in Clients : Other(c) \in Clients /\ Other(c) # c
BY DEF Threads, Other

--------------------------------------------------------------------------------
(* Type correctness, and the discipline of the mutex. *)

LockInv == TypeOK /\ LockDiscipline

\* A peer the listener's loop has reached has an address of the list.
LEMMA PeerFacts ==
  ASSUME NEW i \in 1 .. Len(PeerList)
  PROVE  PeerList[i].ip \in Text(Ip)
BY PeerAssumption DEF Text, Ip

\* The ring's indices stay in range when they are wrapped.
LEMMA WrapRange ==
  ASSUME NEW i \in 0 .. MAX_REPOS_NUM
  PROVE  Wrap(i) \in 0 .. MAX_REPOS_NUM - 1
BY RingAssumption DEF Wrap

\* A client at the tail reads texts, wherever the tail is.
LEMMA AtTailType ==
  ASSUME TypeOK
  PROVE  AtTail \subseteq Slot
BY RingAssumption DEF TypeOK, AtTail, Slot, Text

\* A client that neither enters nor leaves removeItemFromSyncRepos.
LEMMA MoveKeepsLock ==
  ASSUME LockInv, NEW c \in Clients, NEW to \in Points \ {"wrap"},
         pc[c] # "wrap", pc' = [pc EXCEPT ![c] = to],
         UNCHANGED <<up, env, mode, ring, mutex, adding, reading, counts>>
  PROVE  LockInv'
<1>1. TypeOK'
  BY DEF LockInv, TypeOK, env, ring, adding, reading, counts
<1>2. LockDiscipline'
  BY DEF LockInv, TypeOK, LockDiscipline, ring, adding
<1> QED
  BY <1>1, <1>2 DEF LockInv

LEMMA InitLock == Init => LockInv
BY RingAssumption, BoundAssumption, PeerAssumption
   DEF Init, LockInv, TypeOK, LockDiscipline, BlankSlots, Each, Slot, Text,
       Threads, LPoints, Points

LEMMA StepLock == LockInv /\ [Next]_vars => LockInv'
<1> SUFFICES ASSUME LockInv, [Next]_vars PROVE LockInv'
  OBVIOUS
<1> USE DEF LockInv
<1> USE RingAssumption, BoundAssumption
<1>0. Len(PeerList) \in Nat
  BY PeerAssumption
<1>1. CASE Restart
  BY <1>0, <1>1 DEF Restart, TypeOK, LockDiscipline, BlankSlots, Each, Slot, Text,
       Threads, LPoints, Points, env
<1>2. CASE ToggleGui
  BY <1>2 DEF ToggleGui, TypeOK, LockDiscipline, ring, adding, reading, counts
<1>3. ASSUME NEW f \in File, ReceiveAdd(f) PROVE LockInv'
  BY <1>0, <1>3 DEF ReceiveAdd, TypeOK, LockDiscipline, Text, Threads, LPoints, ring,
       reading, counts
<1>4. ASSUME NEW m \in Mode, ReceiveMode(m) PROVE LockInv'
  BY <1>4 DEF ReceiveMode, TypeOK, LockDiscipline, ring, adding, reading, counts
<1>5. CASE SkipPeer
  BY <1>0, <1>5 DEF SkipPeer, TypeOK, LockDiscipline, env, ring, reading, counts
<1>6. CASE CopyName
  BY <1>6 DEF CopyName, TypeOK, LockDiscipline, Slot, LPoints, env, reading, counts
<1>7. CASE CopyDest
  <2> HIDE DEF LockInv
  <2>1. /\ head \in 0 .. MAX_REPOS_NUM - 1
        /\ slots \in [0 .. MAX_REPOS_NUM - 1 -> Slot]
        /\ peer \in 1 .. Len(PeerList)
    BY <1>0, <1>7 DEF LockInv, CopyDest, TypeOK, LockDiscipline
  <2>2. PeerList[peer].ip \in Text(Ip)
    BY <2>1, PeerFacts
  <2>3. head' \in 0 .. MAX_REPOS_NUM - 1
    <3>1. head + 1 \in 0 .. MAX_REPOS_NUM
      BY <2>1
    <3>2. head' = Wrap(head + 1)
      BY <1>7 DEF CopyDest
    <3> QED
      BY <3>1, <3>2, WrapRange
  <2>4. slots' \in [0 .. MAX_REPOS_NUM - 1 -> Slot]
    <3>1. slots' = [slots EXCEPT ![head].dest_ip = PeerList[peer].ip]
      BY <1>7 DEF CopyDest
    <3>2. [slots[head] EXCEPT !.dest_ip = PeerList[peer].ip] \in Slot
      BY <2>1, <2>2 DEF Slot
    <3> QED
      BY <2>1, <3>1, <3>2
  <2>5. peer' \in 1 .. Len(PeerList) + 1
    BY <1>0, <1>7, <2>1 DEF CopyDest
  <2>6. puts' \in Nat
    BY <1>7, SMTT(30) DEF CopyDest, LockInv, TypeOK
  <2>7. TypeOK'
    BY <1>7, <2>3, <2>4, <2>5, <2>6 DEF CopyDest, LockInv, TypeOK, LPoints, env, reading
  <2>8. LockDiscipline'
    BY <1>7 DEF CopyDest, LockInv, TypeOK, LockDiscipline
  <2> QED
    BY <2>7, <2>8 DEF LockInv
<1>8. CASE AddDone
  BY <1>8 DEF AddDone, TypeOK, LockDiscipline, LPoints, Threads, env, ring, reading,
       counts
<1>9. ASSUME NEW c \in Clients, Working(c) PROVE LockInv'
  <2>1. CASE CheckMode(c) \/ HasMore(c) \/ QueryUdpPort(c) \/ QueryTcpPort(c) \/ Notify(c)
    <3> HIDE DEF LockInv
    <3>1. PICK to \in Points \ {"wrap"} : pc' = [pc EXCEPT ![c] = to]
      BY <2>1 DEF CheckMode, HasMore, QueryUdpPort, QueryTcpPort, Notify, Goto, Points
    <3>2. pc[c] # "wrap" /\ UNCHANGED <<up, env, mode, ring, mutex, adding, reading, counts>>
      BY <2>1 DEF CheckMode, HasMore, QueryUdpPort, QueryTcpPort, Notify, Goto
    <3> QED
      BY <3>1, <3>2, MoveKeepsLock
  <2>2. CASE ReadName(c)
    BY <2>2, AtTailType DEF ReadName, Goto, TypeOK, LockDiscipline, Points, Slot, env,
         ring, adding, counts
  <2>3. CASE ReadDest(c)
    BY <2>3, AtTailType DEF ReadDest, Goto, TypeOK, LockDiscipline, Points, Slot, env,
         ring, adding, counts
  <2>4. CASE SendFile(c)
    BY <2>4 DEF SendFile, Goto, TypeOK, LockDiscipline, Points, Slot, env, ring, adding,
         reading
  <2>5. CASE Advance(c)
    BY <2>5 DEF Advance, Goto, TypeOK, LockDiscipline, Points, Threads, env, adding,
         reading
  <2>6. CASE WrapTail(c)
    <3>1. tail' \in 0 .. MAX_REPOS_NUM - 1
      BY <2>6, WrapRange DEF WrapTail, TypeOK
    <3> QED
      BY <2>6, <3>1 DEF WrapTail, Goto, TypeOK, LockDiscipline, Points, Threads, env,
           adding, reading, counts
  <2> QED
    BY <1>9, <2>1, <2>2, <2>3, <2>4, <2>5, <2>6 DEF Working
<1>10. ASSUME NEW c \in Clients, Failing(c) PROVE LockInv'
  BY <1>10 DEF Failing, ConnectionLost, ReportFails, Die, TypeOK, LockDiscipline, env,
       ring, adding, reading, counts
<1>11. CASE UNCHANGED vars
  BY <1>11 DEF vars, TypeOK, LockDiscipline, env, ring, adding, reading, counts
<1> QED
  BY <1>1, <1>2, <1>3, <1>4, <1>5, <1>6, <1>7, <1>8, <1>9, <1>10, <1>11 DEF Next, Adding

\* Every variable has its type in every reachable state: no thread writes, or
\* leaves an index, outside the ring that SyncAnywhereDaemonTypes.h declares,
\* save queue_tail, which stops one past it.
THEOREM TypeCorrect == Spec => []TypeOK
<1>1. LockInv => TypeOK
  BY DEF LockInv
<1> QED
  BY <1>1, InitLock, StepLock, PTL DEF Spec

\* mutex_repos is held exactly where the code is between lock and unlock, and
\* queue_tail is past the ring only while a client holds it.
THEOREM LockHeld == Spec => []LockDiscipline
<1>1. LockInv => LockDiscipline
  BY DEF LockInv
<1> QED
  BY <1>1, InitLock, StepLock, PTL DEF Spec

--------------------------------------------------------------------------------
(* The indices count modulo the size of the ring. *)

\* The remainder of a number that is written as a multiple and a rest.
LEMMA RestOfMultiple ==
  ASSUME NEW q \in Nat, NEW r \in Nat, NEW C \in Nat \ {0}, r < C
  PROVE  (q * C + r) % C = r
OBVIOUS

LEMMA DivMod ==
  ASSUME NEW n \in Int, NEW C \in Int, C > 0
  PROVE  n = (n \div C) * C + (n % C)
OBVIOUS

\* The remainder counts up and returns to nought, as the indices do.
LEMMA NextRest ==
  ASSUME NEW n \in Nat, NEW C \in Nat \ {0}
  PROVE  /\ n % C \in 0 .. C - 1
         /\ (n + 1) % C = IF (n % C) + 1 >= C THEN 0 ELSE (n % C) + 1
<1> DEFINE q == n \div C
           r == n % C
<1>1. q \in Nat /\ r \in 0 .. C - 1
  OBVIOUS
<1>2. n = q * C + r
  BY DivMod
<1> HIDE DEF q, r
<1>3. CASE r + 1 >= C
  <2>1. n + 1 = (q + 1) * C + 0
    BY <1>1, <1>2, <1>3
  <2>2. ((q + 1) * C + 0) % C = 0
    BY <1>1, RestOfMultiple
  <2> QED
    BY <1>1, <1>3, <2>1, <2>2 DEF r
<1>4. CASE r + 1 < C
  <2>1. n + 1 = q * C + (r + 1)
    BY <1>1, <1>2
  <2>2. (q * C + (r + 1)) % C = r + 1
    BY <1>1, <1>4, RestOfMultiple
  <2> QED
    BY <1>1, <1>4, <2>1, <2>2 DEF r
<1> QED
  BY <1>1, <1>3, <1>4

LEMMA InitLedger == Init => RingLedger
<1> SUFFICES ASSUME Init PROVE RingLedger
  OBVIOUS
<1>1. 0 % MAX_REPOS_NUM = 0
  BY RingAssumption
<1> QED
  BY <1>1, RingAssumption DEF Init, RingLedger, Wrap

LEMMA StepLedger == LockInv /\ RingLedger /\ [Next]_vars => RingLedger'
<1> SUFFICES ASSUME LockInv, RingLedger, [Next]_vars PROVE RingLedger'
  OBVIOUS
<1>1. /\ head \in 0 .. MAX_REPOS_NUM - 1 /\ tail \in 0 .. MAX_REPOS_NUM
      /\ puts \in Nat /\ removed \in Nat
  BY DEF LockInv, TypeOK
<1>2. CASE Restart
  <2>1. 0 % MAX_REPOS_NUM = 0
    BY RingAssumption
  <2> QED
    BY <1>2, <2>1, RingAssumption DEF Restart, RingLedger, Wrap
<1>3. CASE CopyDest
  <2>1. head = puts % MAX_REPOS_NUM /\ Wrap(tail) = removed % MAX_REPOS_NUM
    BY <1>3 DEF CopyDest, RingLedger
  <2>2. /\ head' = IF head + 1 >= MAX_REPOS_NUM
                   THEN head + 1 - MAX_REPOS_NUM ELSE head + 1
        /\ puts' = puts + 1 /\ tail' = tail /\ removed' = removed
    BY <1>3, <1>1, RingAssumption DEF CopyDest, Wrap
  <2>3. (puts + 1) % MAX_REPOS_NUM =
          IF (puts % MAX_REPOS_NUM) + 1 >= MAX_REPOS_NUM THEN 0 ELSE (puts % MAX_REPOS_NUM) + 1
    BY <1>1, NextRest, RingAssumption
  <2>4. head' = puts' % MAX_REPOS_NUM
    BY <1>1, <2>1, <2>2, <2>3, RingAssumption
  <2>5. Wrap(tail)' = removed' % MAX_REPOS_NUM
    BY <2>1, <2>2 DEF Wrap
  <2> QED
    BY <2>4, <2>5 DEF RingLedger
<1>4. ASSUME NEW c \in Clients, Advance(c) PROVE RingLedger'
  <2>1. head = puts % MAX_REPOS_NUM /\ Wrap(tail) = removed % MAX_REPOS_NUM
    BY <1>4 DEF Advance, Goto, RingLedger
  <2>2. tail < MAX_REPOS_NUM
    BY <1>1, <1>4, RingAssumption DEF Advance, LockInv, LockDiscipline
  <2>3. head' = head /\ puts' = puts /\ tail' = tail + 1 /\ removed' = removed + 1
    BY <1>4 DEF Advance, counts
  <2>4. tail = removed % MAX_REPOS_NUM
    BY <1>1, <2>1, <2>2, RingAssumption DEF Wrap
  <2>5. (removed + 1) % MAX_REPOS_NUM =
          IF (removed % MAX_REPOS_NUM) + 1 >= MAX_REPOS_NUM
          THEN 0 ELSE (removed % MAX_REPOS_NUM) + 1
    BY <1>1, NextRest, RingAssumption
  <2>6. Wrap(tail)' = removed' % MAX_REPOS_NUM
    BY <1>1, <2>2, <2>3, <2>4, <2>5, RingAssumption DEF Wrap
  <2> QED
    BY <2>1, <2>3, <2>6 DEF RingLedger
<1>5. ASSUME NEW c \in Clients, WrapTail(c) PROVE RingLedger'
  <2>1. Wrap(Wrap(tail)) = Wrap(tail)
    BY <1>1, RingAssumption DEF Wrap
  <2>2. Wrap(tail)' = Wrap(Wrap(tail))
    BY <1>5 DEF WrapTail, Wrap
  <2> QED
    BY <1>5, <2>1, <2>2 DEF WrapTail, Goto, RingLedger, counts
<1>6. CASE UNCHANGED <<head, tail, puts, removed>> /\ (up' => up)
  BY <1>6 DEF RingLedger, Wrap
<1> QED
  BY <1>2, <1>3, <1>4, <1>5, <1>6
     DEF Next, Adding, Working, Failing, Goto, Die, ToggleGui, ReceiveAdd, ReceiveMode,
         SkipPeer, CopyName, AddDone, CheckMode, HasMore, ReadName, ReadDest,
         QueryUdpPort, QueryTcpPort, ConnectionLost, SendFile, ReportFails, Notify,
         ring, counts, vars

\* Whatever the user does, hasMoreItemInSyncRepos finds the indices equal exactly
\* when the numbers of entries put and removed agree modulo MAX_REPOS_NUM: it
\* counts correctly up to whole turns of the ring, and no better.
THEOREM LedgerKept == Spec => []RingLedger
<1>1. Init => LockInv /\ RingLedger
  BY InitLock, InitLedger
<1>2. LockInv /\ RingLedger /\ [Next]_vars => (LockInv /\ RingLedger)'
  BY StepLock, StepLedger
<1> QED
  BY <1>1, <1>2, PTL DEF Spec

LEMMA StepFollows ==
  LockInv /\ RemovalsFollowSends /\ [Next]_vars => RemovalsFollowSends'
<1> SUFFICES ASSUME LockInv, RemovalsFollowSends, [Next]_vars, up' PROVE RemovalsFollowSends'
  BY DEF RemovalsFollowSends
<1>1. /\ removed \in Nat /\ sent \in Seq(Slot) /\ Len(sent) \in Nat
      /\ pc \in [Clients -> Points]
  BY DEF LockInv, TypeOK
<1>2. CASE Restart
  BY <1>1, <1>2 DEF Restart, RemovalsFollowSends, InHand, Each
<1>3. ASSUME NEW c \in Clients, SendFile(c) PROVE RemovalsFollowSends'
  <2>1. Len(sent') = Len(sent) + 1
    BY <1>1, <1>3 DEF SendFile
  <2> QED
    BY <1>1, <1>3, <2>1 DEF SendFile, Goto, RemovalsFollowSends, InHand
<1>4. ASSUME NEW c \in Clients, Advance(c) PROVE RemovalsFollowSends'
  BY <1>1, <1>4 DEF Advance, Goto, RemovalsFollowSends, InHand
\* No other step of a client begins or ends at a place where an entry is in hand,
\* but Notify, which goes from one to the other.
<1>5. ASSUME NEW c \in Clients,
             \/ CheckMode(c) \/ HasMore(c) \/ ReadName(c) \/ ReadDest(c)
             \/ QueryUdpPort(c) \/ QueryTcpPort(c) \/ Notify(c) \/ WrapTail(c)
      PROVE  RemovalsFollowSends'
  <2>1. /\ \A d \in Clients : InHand(d)' = InHand(d)
        /\ removed' = removed /\ sent' = sent /\ up
    BY <1>1, <1>5 DEF CheckMode, HasMore, ReadName, ReadDest, QueryUdpPort, QueryTcpPort,
                      Notify, WrapTail, Goto, InHand, counts
  <2> QED
    BY <2>1 DEF RemovalsFollowSends
<1>6. CASE UNCHANGED <<pc, removed, sent>> /\ up
  BY <1>6 DEF RemovalsFollowSends, InHand
<1> QED
  BY <1>2, <1>3, <1>4, <1>5, <1>6
     DEF Next, Adding, Working, Failing, Die, ToggleGui, ReceiveAdd, ReceiveMode,
         SkipPeer, CopyName, CopyDest, AddDone, ConnectionLost, ReportFails, counts, vars

\* Whatever the user does, removeItemFromSyncRepos is never ahead of the transfers.
THEOREM RemovalsFollow == Spec => []RemovalsFollowSends
<1>1. Init => RemovalsFollowSends
  BY DEF Init, RemovalsFollowSends, InHand, Each
<1> QED
  BY <1>1, InitLock, StepLock, StepFollows, PTL DEF Spec

--------------------------------------------------------------------------------
(* A user who switches only a daemon at rest and leaves room for what he adds. *)

\* The entries from index t up to index h of the ring.
Dist(h, t) == IF h >= t THEN h - t ELSE h - t + MAX_REPOS_NUM

Index == 0 .. MAX_REPOS_NUM - 1

\* One more put.
LEMMA PutCounts ==
  ASSUME NEW h \in Index, NEW t \in Index, Dist(h, t) + 1 < MAX_REPOS_NUM
  PROVE  Dist(Wrap(h + 1), t) = Dist(h, t) + 1
BY RingAssumption DEF Dist, Index, Wrap

\* One removed.
LEMMA RemoveCounts ==
  ASSUME NEW h \in Index, NEW t \in Index, Dist(h, t) > 0
  PROVE  Dist(h, Wrap(t + 1)) = Dist(h, t) - 1
BY RingAssumption DEF Dist, Index, Wrap

\* The slots in use are not the one that is written next.
LEMMA UsedIsNotHead ==
  ASSUME NEW h \in Index, NEW t \in Index, NEW k \in 1 .. Dist(h, t)
  PROVE  Wrap(t + k - 1) \in Index /\ Wrap(t + k - 1) # h
BY RingAssumption DEF Dist, Index, Wrap

\* The slot that is written next comes after the slots in use.
LEMMA HeadIsNext ==
  ASSUME NEW h \in Index, NEW t \in Index
  PROVE  /\ Dist(h, t) \in Index
         /\ Wrap(t + (Dist(h, t) + 1) - 1) = h
BY RingAssumption DEF Dist, Index, Wrap

\* A removal renumbers the entries.
LEMMA RemoveShifts ==
  ASSUME NEW h \in Index, NEW t \in Index, NEW k \in 1 .. Dist(h, t) - 1
  PROVE  /\ k + 1 \in 1 .. Dist(h, t)
         /\ Wrap(Wrap(t + 1) + k - 1) = Wrap(t + (k + 1) - 1)
BY RingAssumption DEF Dist, Index, Wrap

\* Wrapping twice is wrapping once.
LEMMA WrapTwice ==
  ASSUME NEW i \in 0 .. MAX_REPOS_NUM
  PROVE  Wrap(i) \in Index /\ Wrap(Wrap(i)) = Wrap(i)
BY RingAssumption DEF Index, Wrap

\* A ring whose indices are at its first slot is empty.
LEMMA EmptyRing == Wrap(0) = 0 /\ Dist(0, 0) = 0
BY RingAssumption DEF Wrap, Dist

LEMMA UsedIsDist == Used = Dist(head, Wrap(tail))
BY DEF Used, Dist

\* Where the indices are.
LEMMA RingFacts ==
  ASSUME LockInv
  PROVE  /\ head \in Index /\ tail \in 0 .. MAX_REPOS_NUM /\ Wrap(tail) \in Index
         /\ Used \in Index
         /\ slots \in [Index -> Slot]
         /\ mutex \notin Clients => tail \in Index /\ Wrap(tail) = tail
         /\ puts \in Nat /\ removed \in Nat
<1>1. /\ head \in Index /\ tail \in 0 .. MAX_REPOS_NUM /\ slots \in [Index -> Slot]
      /\ puts \in Nat /\ removed \in Nat
  BY DEF LockInv, TypeOK, Index
<1>2. Wrap(tail) \in Index
  BY <1>1, WrapTwice
<1>3. Used \in Index
  BY <1>1, <1>2, HeadIsNext, UsedIsDist
<1>4. mutex \notin Clients => tail \in Index
  BY <1>1, RingAssumption DEF LockInv, LockDiscipline, Index
<1>5. tail \in Index => Wrap(tail) = tail
  BY RingAssumption DEF Index, Wrap
<1> QED
  BY <1>1, <1>2, <1>3, <1>4, <1>5

\* An entry put after the others: it is the last, and they keep their places.
LEMMA PutFacts ==
  ASSUME LockInv, CopyDest, Used + 1 < MAX_REPOS_NUM
  PROVE  /\ Used' = Used + 1
         /\ \A k \in 1 .. Used : Entry(k)' = Entry(k)
         /\ Entry(Used)' = [slots[head] EXCEPT !.dest_ip = PeerList[peer].ip]
<1> DEFINE t == Wrap(tail)
<1>1. /\ head \in Index /\ t \in Index /\ Used \in Index /\ slots \in [Index -> Slot]
      /\ Used = Dist(head, t)
  BY RingFacts, UsedIsDist
<1>2. /\ slots' = [slots EXCEPT ![head].dest_ip = PeerList[peer].ip]
      /\ head' = Wrap(head + 1) /\ tail' = tail
  BY DEF CopyDest
<1>3. Used' = Dist(Wrap(head + 1), t)
  BY <1>2 DEF Used, Dist, Wrap
<1>4. Used' = Used + 1
  BY <1>1, <1>3, PutCounts
<1>5. \A k : Entry(k)' = slots'[Wrap(t + k - 1)]
  BY <1>2 DEF Entry, Wrap
<1> HIDE DEF t
<1>6. ASSUME NEW k \in 1 .. Used PROVE Entry(k)' = Entry(k)
  <2>1. Wrap(t + k - 1) \in Index /\ Wrap(t + k - 1) # head
    BY <1>1, UsedIsNotHead
  <2>2. slots'[Wrap(t + k - 1)] = slots[Wrap(t + k - 1)]
    BY <1>1, <1>2, <2>1
  <2> QED
    BY <1>5, <2>2 DEF Entry, t
<1>7. Entry(Used)' = [slots[head] EXCEPT !.dest_ip = PeerList[peer].ip]
  <2>1. Wrap(t + (Used + 1) - 1) = head
    BY <1>1, HeadIsNext
  <2>2. Entry(Used)' = slots'[Wrap(t + (Used + 1) - 1)]
    BY <1>4, <1>5
  <2> QED
    BY <1>1, <1>2, <2>1, <2>2
<1> QED
  BY <1>4, <1>6, <1>7

\* An entry removed: it was the oldest, and the others move up.
LEMMA RemoveFacts ==
  ASSUME LockInv, NEW c \in Clients, Advance(c), Used > 0
  PROVE  /\ Used' = Used - 1
         /\ \A k \in 1 .. Used' : k + 1 \in 1 .. Used /\ Entry(k)' = Entry(k + 1)
<1>1. mutex \notin Clients
  BY DEF Advance
<1>2. /\ head \in Index /\ tail \in Index /\ Wrap(tail) = tail
      /\ Used = Dist(head, tail)
  BY <1>1, RingFacts, UsedIsDist
<1>3. slots' = slots /\ head' = head /\ tail' = tail + 1
  BY DEF Advance
<1>4. Used' = Dist(head, Wrap(tail + 1))
  BY <1>3 DEF Used, Dist, Wrap
<1>5. Used' = Used - 1
  BY <1>2, <1>4, RemoveCounts
<1>6. ASSUME NEW k \in 1 .. Used'
      PROVE  k + 1 \in 1 .. Used /\ Entry(k)' = Entry(k + 1)
  <2>1. k \in 1 .. Dist(head, tail) - 1
    BY <1>2, <1>5, <1>6
  <2>2. k + 1 \in 1 .. Used /\ Wrap(Wrap(tail + 1) + k - 1) = Wrap(tail + (k + 1) - 1)
    BY <1>2, <2>1, RemoveShifts
  <2>3. Entry(k)' = slots[Wrap(Wrap(tail + 1) + k - 1)]
    BY <1>3 DEF Entry, Wrap
  <2>4. Entry(k + 1) = slots[Wrap(tail + (k + 1) - 1)]
    BY <1>2 DEF Entry
  <2> QED
    BY <2>2, <2>3, <2>4
<1> QED
  BY <1>5, <1>6

\* The wrap of queue_tail changes neither number nor entries.
LEMMA WrapFacts ==
  ASSUME LockInv, NEW c \in Clients, WrapTail(c)
  PROVE  Used' = Used /\ \A k : Entry(k)' = Entry(k)
<1>1. slots' = slots /\ head' = head /\ tail' = Wrap(tail)
  BY DEF WrapTail
<1>2. Wrap(tail)' = Wrap(Wrap(tail))
  BY <1>1 DEF Wrap
<1>3. Wrap(tail)' = Wrap(tail)
  BY <1>2, RingFacts, WrapTwice
<1>4. Used' = Used
  BY <1>1, <1>3 DEF Used
<1>5. ASSUME NEW k PROVE Entry(k)' = Entry(k)
  <2>1. Entry(k)' = slots'[Wrap(Wrap(tail)' + k - 1)]
    BY <1>1 DEF Entry, Wrap
  <2> QED
    BY <1>1, <1>3, <2>1 DEF Entry
<1> QED
  BY <1>4, <1>5

\* A step that touches no index and no slot.
LEMMA SameRing ==
  ASSUME UNCHANGED ring
  PROVE  Used' = Used /\ \A k : Entry(k)' = Entry(k)
BY DEF ring, Used, Entry, Wrap

\* A name copied ahead of its destination is in none of the slots in use.
LEMMA NameFacts ==
  ASSUME LockInv, CopyName
  PROVE  /\ Used' = Used
         /\ \A k \in 1 .. Used : Entry(k)' = Entry(k)
         /\ slots'[head] = [slots[head] EXCEPT !.filename = newFile]
<1> DEFINE t == Wrap(tail)
<1>1. /\ head \in Index /\ t \in Index /\ slots \in [Index -> Slot]
      /\ Used = Dist(head, t)
  BY RingFacts, UsedIsDist
<1>2. slots' = [slots EXCEPT ![head].filename = newFile] /\ head' = head /\ tail' = tail
  BY DEF CopyName
<1>3. Used' = Used
  BY <1>2 DEF Used, Wrap
<1>4. \A k : Entry(k)' = slots'[Wrap(t + k - 1)]
  BY <1>2 DEF Entry, Wrap
<1> HIDE DEF t
<1>5. ASSUME NEW k \in 1 .. Used PROVE Entry(k)' = Entry(k)
  <2>1. Wrap(t + k - 1) \in Index /\ Wrap(t + k - 1) # head
    BY <1>1, UsedIsNotHead
  <2>2. slots'[Wrap(t + k - 1)] = slots[Wrap(t + k - 1)]
    BY <1>1, <1>2, <2>1
  <2> QED
    BY <1>4, <2>2 DEF Entry, t
<1>6. slots'[head] = [slots[head] EXCEPT !.filename = newFile]
  BY <1>1, <1>2
<1> QED
  BY <1>3, <1>5, <1>6

\* A user who switches the mode only while no client works, and adds a file only
\* while there is room for all its destinations.
CalmUser == QuietSwitch = TRUE /\ RoomAware = TRUE

SafeInv == LockInv /\ CalmInv /\ SendsOldest /\ CountIsExact

LEMMA InitSafe == Init => SafeInv
<1> SUFFICES ASSUME Init PROVE SafeInv
  OBVIOUS
<1>1. Used = 0
  <2>1. head = 0 /\ tail = 0
    BY DEF Init
  <2> QED
    BY <2>1, EmptyRing, UsedIsDist
<1>2. pc = [c \in Clients |-> "mode"] /\ lpc = "recv" /\ puts = 0 /\ removed = 0
  BY DEF Init, Each
<1> QED
  BY <1>1, <1>2, InitLock
     DEF SafeInv, CalmInv, Alone, Room, HalfCopied, Whole, SendsOldest, CountIsExact,
         HasNameAt, HasTaskAt

\* What no step of a client touches, and where the ones but CheckMode start from.
LEMMA ClientFrame ==
  ASSUME LockInv, NEW c \in Clients, Working(c)
  PROVE  /\ up /\ UNCHANGED <<up, mode, slots, head, lpc, newFile, peer, puts>>
         /\ \A d \in Clients \ {c} : pc'[d] = pc[d]
         /\ pc[c] # "mode" \/ CheckMode(c)
         /\ UNCHANGED <<tail, removed>> \/ Advance(c) \/ WrapTail(c)
<1>1. pc \in [Clients -> Points]
  BY DEF LockInv, TypeOK
<1>2. \E from, to : Goto(c, from, to) /\ (from # "mode" \/ CheckMode(c))
  BY DEF Working, CheckMode, HasMore, ReadName, ReadDest, QueryUdpPort, QueryTcpPort,
         SendFile, Notify, Advance, WrapTail
<1>3. /\ UNCHANGED <<up, mode, slots, head, lpc, newFile, peer, puts>>
      /\ UNCHANGED <<tail, removed>> \/ Advance(c) \/ WrapTail(c)
  BY DEF Working, CheckMode, HasMore, ReadName, ReadDest, QueryUdpPort, QueryTcpPort,
         SendFile, Notify, Advance, WrapTail, ring, counts, adding
<1> QED
  BY <1>1, <1>2, <1>3 DEF Goto

\* A client that leaves the top of its loop is the only one away from it.
LEMMA StepAlone == CalmUser /\ LockInv /\ Alone /\ [Next]_vars => Alone'
<1> SUFFICES ASSUME CalmUser, LockInv, Alone, [Next]_vars PROVE Alone'
  OBVIOUS
<1>1. pc \in [Clients -> Points] /\ mode \in Mode
  BY DEF LockInv, TypeOK
<1>2. ASSUME NEW m \in Mode, ReceiveMode(m) PROVE Alone'
  BY <1>2 DEF ReceiveMode, CalmUser, Alone
<1>3. ASSUME NEW c \in Clients, Working(c) PROVE Alone'
  <2>1. mode' = mode /\ \A d \in Clients \ {c} : pc'[d] = pc[d]
    BY <1>3, ClientFrame
  <2>2. mode = c
    BY <1>1, <1>3, ClientFrame DEF Alone, CheckMode, Other
  <2> QED
    BY <2>1, <2>2 DEF Alone
<1>4. CASE Restart
  BY <1>4 DEF Restart, Each, Alone
<1>5. CASE UNCHANGED <<pc, mode>>
  BY <1>5 DEF Alone
<1> QED
  BY <1>2, <1>3, <1>4, <1>5
     DEF Next, Adding, Failing, Die, ToggleGui, ReceiveAdd, SkipPeer, CopyName, CopyDest,
         AddDone, ConnectionLost, ReportFails, vars

\* A client about to remove an entry has one to remove.
LEMMA RemovesSomething ==
  ASSUME LockInv, SendsOldest, NEW c \in Clients, Advance(c)
  PROVE  Used > 0
BY DEF SendsOldest, Advance, Goto, HasNameAt

\* A put finds a free slot besides the one it must leave.
LEMMA PutHasRoom ==
  ASSUME LockInv, Room, CopyDest
  PROVE  peer \in 1 .. Len(PeerList) /\ Used + 1 < MAX_REPOS_NUM
<1>1. Len(PeerList) \in Nat
  BY PeerAssumption
<1>2. peer \in 1 .. Len(PeerList)
  BY <1>1 DEF CopyDest, LockInv, TypeOK, LockDiscipline
<1>3. Used + Len(PeerList) - peer + 1 < MAX_REPOS_NUM
  BY DEF CopyDest, Room
<1>4. Used \in Int /\ MAX_REPOS_NUM \in Int
  BY RingFacts, RingAssumption DEF Index
<1> QED
  BY <1>1, <1>2, <1>3, <1>4

\* The room that was left for an add is taken by its puts only.
LEMMA StepRoom ==
  CalmUser /\ LockInv /\ Room /\ SendsOldest /\ [Next]_vars => Room'
<1> SUFFICES ASSUME CalmUser, LockInv, Room, SendsOldest, [Next]_vars PROVE Room'
  OBVIOUS
<1>0. Len(PeerList) \in Nat /\ Used \in Int /\ peer \in Int /\ MAX_REPOS_NUM \in Int
  BY RingFacts, PeerAssumption, RingAssumption DEF LockInv, TypeOK, Index
<1>1. ASSUME NEW f \in File, ReceiveAdd(f) PROVE Room'
  <2>1. Used' = Used
    BY <1>1, SameRing DEF ReceiveAdd
  <2> QED
    BY <1>0, <1>1, <2>1 DEF ReceiveAdd, CalmUser, Room
<1>2. CASE SkipPeer
  <2>1. Used' = Used
    BY <1>2, SameRing DEF SkipPeer
  <2> QED
    BY <1>0, <1>2, <2>1 DEF SkipPeer, Room
<1>3. CASE CopyName
  BY <1>3, NameFacts DEF CopyName, Room
<1>4. CASE CopyDest
  <2>1. Used + Len(PeerList) - peer + 1 < MAX_REPOS_NUM /\ newFile \in File
    BY <1>4 DEF CopyDest, Room
  <2>2. Used' = Used + 1
    BY <1>4, PutHasRoom, PutFacts
  <2> QED
    BY <1>0, <1>4, <2>1, <2>2 DEF CopyDest, Room
<1>5. CASE AddDone \/ Restart
  BY <1>5 DEF AddDone, Restart, Room
<1>6. ASSUME NEW c \in Clients, Working(c) PROVE Room'
  <2>1. UNCHANGED <<lpc, newFile, peer>>
    BY <1>6, ClientFrame
  <2>2. Used' \in Int /\ Used' <= Used
    <3>1. CASE Advance(c)
      BY <1>0, <3>1, RemoveFacts, RemovesSomething
    <3>2. CASE WrapTail(c)
      BY <1>0, <3>2, WrapFacts
    <3>3. CASE UNCHANGED <<tail, removed>>
      BY <1>0, <1>6, <3>3, ClientFrame, SameRing DEF ring
    <3> QED
      BY <1>6, <3>1, <3>2, <3>3, ClientFrame
  <2> QED
    BY <1>0, <2>1, <2>2 DEF Room
<1>7. CASE UNCHANGED <<ring, lpc, newFile, peer>>
  BY <1>7, SameRing DEF Room
<1> QED
  BY <1>1, <1>2, <1>3, <1>4, <1>5, <1>6, <1>7
     DEF Next, Adding, Failing, Die, ToggleGui, ReceiveMode, ConnectionLost, ReportFails,
         vars, adding

\* The slot at queue_head keeps the name until its destination follows.
LEMMA StepHalfCopied == LockInv /\ HalfCopied /\ [Next]_vars => HalfCopied'
<1> SUFFICES ASSUME LockInv, HalfCopied, [Next]_vars PROVE HalfCopied'
  OBVIOUS
<1>1. CASE CopyName
  <2>1. head' = head /\ newFile' = newFile
    BY <1>1 DEF CopyName
  <2>2. slots'[head] = [slots[head] EXCEPT !.filename = newFile]
    BY <1>1, NameFacts
  <2>3. slots[head] \in Slot
    BY RingFacts
  <2>4. slots'[head].filename = newFile
    BY <2>2, <2>3 DEF Slot
  <2> QED
    BY <2>1, <2>4 DEF HalfCopied
<1>2. ASSUME NEW c \in Clients, Working(c) PROVE HalfCopied'
  BY <1>2, ClientFrame DEF HalfCopied
<1>3. CASE lpc' # "dest"
  BY <1>3 DEF HalfCopied
<1>4. CASE UNCHANGED <<lpc, slots, head, newFile>>
  BY <1>4 DEF HalfCopied
<1> QED
  BY <1>1, <1>2, <1>3, <1>4
     DEF Next, Adding, Failing, Die, Restart, ToggleGui, ReceiveAdd, ReceiveMode, SkipPeer,
         CopyDest, AddDone, ConnectionLost, ReportFails, vars, adding, ring

\* Every slot in use holds a file and a destination that were added together.
LEMMA StepWhole ==
  LockInv /\ CalmInv /\ SendsOldest /\ [Next]_vars => Whole'
<1> SUFFICES ASSUME LockInv, CalmInv, SendsOldest, [Next]_vars PROVE Whole'
  OBVIOUS
<1>0. Used \in Nat /\ Whole
  BY RingFacts, RingAssumption DEF CalmInv, Index
<1>1. CASE CopyName
  BY <1>0, <1>1, NameFacts DEF Whole
<1>2. CASE CopyDest
  <2>1. peer \in 1 .. Len(PeerList) /\ Used + 1 < MAX_REPOS_NUM
    BY <1>2, PutHasRoom DEF CalmInv
  <2>2. slots[head].filename \in File
    BY <1>2 DEF CopyDest, CalmInv, Room, HalfCopied
  <2>3. PeerList[peer].ip \in Dest
    BY <1>2, <2>1 DEF CopyDest, LockInv, LockDiscipline, Dest
  <2>4. slots[head] \in Slot
    BY RingFacts
  <2>5. [slots[head] EXCEPT !.dest_ip = PeerList[peer].ip] \in Task
    BY <2>2, <2>3, <2>4 DEF Slot, Task
  <2>6. Used' = Used + 1 /\ Entry(Used)' \in Task
        /\ \A k \in 1 .. Used : Entry(k)' = Entry(k)
    BY <1>2, <2>1, <2>5, PutFacts
  <2>7. ASSUME NEW k \in 1 .. Used' PROVE Entry(k)' \in Task
    <3>1. CASE k \in 1 .. Used
      BY <1>0, <2>6, <3>1 DEF Whole
    <3>2. CASE k = Used'
      BY <2>6, <3>2
    <3> QED
      BY <1>0, <2>6, <2>7, <3>1, <3>2
  <2> QED
    BY <2>7 DEF Whole
<1>3. CASE Restart
  <2>1. Used' = 0
    <3>1. head' = 0 /\ tail' = 0
      BY <1>3 DEF Restart
    <3> QED
      BY <3>1, EmptyRing DEF Used, Dist, Wrap
  <2> QED
    BY <2>1 DEF Whole
<1>4. ASSUME NEW c \in Clients, Working(c) PROVE Whole'
  <2>1. CASE Advance(c)
    BY <1>0, <2>1, RemoveFacts, RemovesSomething DEF Whole
  <2>2. CASE WrapTail(c)
    BY <1>0, <2>2, WrapFacts DEF Whole
  <2>3. CASE UNCHANGED <<tail, removed>>
    BY <1>0, <1>4, <2>3, ClientFrame, SameRing DEF ring, Whole
  <2> QED
    BY <1>4, <2>1, <2>2, <2>3, ClientFrame
<1>5. CASE UNCHANGED ring
  BY <1>0, <1>5, SameRing DEF Whole
<1> QED
  BY <1>1, <1>2, <1>3, <1>4, <1>5
     DEF Next, Adding, Failing, Die, ToggleGui, ReceiveAdd, ReceiveMode, SkipPeer, AddDone,
         ConnectionLost, ReportFails, vars

\* A put and a removal change the number of entries by one.
LEMMA StepCount ==
  LockInv /\ CalmInv /\ SendsOldest /\ CountIsExact /\ [Next]_vars => CountIsExact'
<1> SUFFICES ASSUME LockInv, CalmInv, SendsOldest, CountIsExact, [Next]_vars
             PROVE  CountIsExact'
  OBVIOUS
<1>0. puts \in Nat /\ removed \in Nat /\ Used \in Nat
  BY RingFacts, RingAssumption DEF Index
<1>1. CASE CopyName
  BY <1>1, NameFacts DEF CopyName, counts, CountIsExact
<1>2. CASE CopyDest
  <2>1. Used + 1 < MAX_REPOS_NUM
    BY <1>2, PutHasRoom DEF CalmInv
  <2>2. Used' = Used + 1
    BY <1>2, <2>1, PutFacts
  <2> QED
    BY <1>0, <1>2, <2>2 DEF CopyDest, CountIsExact
<1>3. CASE Restart
  <2>1. Used' = 0
    <3>1. head' = 0 /\ tail' = 0
      BY <1>3 DEF Restart
    <3> QED
      BY <3>1, EmptyRing DEF Used, Dist, Wrap
  <2> QED
    BY <1>3, <2>1 DEF Restart, CountIsExact
<1>4. ASSUME NEW c \in Clients, Working(c) PROVE CountIsExact'
  <2>0. puts - removed = Used /\ puts' = puts
    BY <1>4, ClientFrame DEF CountIsExact
  <2>1. CASE Advance(c)
    <3>1. removed' = removed + 1
      BY <2>1 DEF Advance
    <3>2. Used' = Used - 1
      BY <2>1, RemoveFacts, RemovesSomething
    <3> QED
      BY <1>0, <2>0, <3>1, <3>2 DEF CountIsExact
  <2>2. CASE WrapTail(c)
    BY <2>0, <2>2, WrapFacts DEF WrapTail, counts, CountIsExact
  <2>3. CASE UNCHANGED <<tail, removed>>
    BY <1>4, <2>0, <2>3, ClientFrame, SameRing DEF ring, CountIsExact
  <2> QED
    BY <1>4, <2>1, <2>2, <2>3, ClientFrame
<1>5. CASE UNCHANGED <<ring, puts, removed>> /\ (up' => up)
  BY <1>5, SameRing DEF CountIsExact
<1> QED
  BY <1>1, <1>2, <1>3, <1>4, <1>5
     DEF Next, Adding, Failing, Die, ToggleGui, ReceiveAdd, ReceiveMode, SkipPeer, AddDone,
         ConnectionLost, ReportFails, vars, counts

\* A ring that hasMoreItemInSyncRepos finds not empty has an entry.
LEMMA MoreMeansUsed ==
  ASSUME LockInv, mutex = Free, head # tail
  PROVE  Used > 0
<1>1. head \in Index /\ tail \in Index /\ Wrap(tail) = tail
  BY RingFacts
<1> QED
  BY <1>1, UsedIsDist, RingAssumption DEF Dist, Index

\* A client that is alone reads the oldest entry, without the lock.
LEMMA ReadsEntry ==
  ASSUME LockInv, Alone, NEW c \in Clients, pc[c] \in {"name", "dest"}, Used > 0
  PROVE  AtTail = {Entry(1)}
<1>1. mutex \notin Clients
  BY DEF LockInv, LockDiscipline, Alone
<1>2. head \in Index /\ tail \in Index /\ Wrap(tail) = tail
  BY <1>1, RingFacts
<1>3. tail # head
  BY <1>2, UsedIsDist, RingAssumption DEF Dist, Index
<1>4. tail # MAX_REPOS_NUM
  BY <1>2, RingAssumption DEF Index
<1>5. Wrap(tail + 1 - 1) = tail
  BY <1>2, RingAssumption DEF Wrap, Index
<1> QED
  BY <1>2, <1>3, <1>4, <1>5 DEF AtTail, Entry

\* What SendsOldest says of one client.
HasOldest(c) ==
  /\ pc[c] \in HasNameAt \cup {"name"} => Used > 0 /\ Entry(1) \in Task
  /\ pc[c] \in HasNameAt => file_name[c] = Entry(1).filename
  /\ pc[c] \in HasTaskAt => dest_ip[c] = Entry(1).dest_ip

LEMMA OldestParts == SendsOldest <=> (up => Alone /\ \A c \in Clients : HasOldest(c))
BY DEF SendsOldest, Alone, HasOldest

\* A step that leaves a client, its copies and the oldest entry where they were.
LEMMA OldestStays ==
  ASSUME NEW c \in Clients, HasOldest(c),
         pc'[c] = pc[c], file_name'[c] = file_name[c], dest_ip'[c] = dest_ip[c],
         Used > 0 => Used' > 0 /\ Entry(1)' = Entry(1)
  PROVE  HasOldest(c)'
BY DEF HasOldest, HasNameAt, HasTaskAt

\* A step of a client that is alone.
LEMMA ClientHasOldest ==
  ASSUME LockInv, CalmInv, NEW c \in Clients, HasOldest(c), Working(c)
  PROVE  HasOldest(c)'
<1>0. /\ pc \in [Clients -> Points]
      /\ file_name \in [Clients -> Text(File)] /\ dest_ip \in [Clients -> Text(Ip)]
      /\ Used \in Nat
  BY RingFacts, RingAssumption DEF LockInv, TypeOK, Index
<1> USE DEF HasNameAt, HasTaskAt
<1>1. CASE pc'[c] \in {"mode", "more", "wrap"}
  BY <1>1 DEF HasOldest
<1>2. CASE HasMore(c) /\ pc'[c] = "name"
  <2>1. head # tail /\ mutex = Free /\ UNCHANGED ring
    BY <1>0, <1>2 DEF HasMore, Goto
  <2>2. Used > 0
    BY <2>1, MoreMeansUsed
  <2>3. Entry(1) \in Task
    BY <1>0, <2>2 DEF CalmInv, Whole
  <2>4. Used' = Used /\ Entry(1)' = Entry(1)
    BY <2>1, SameRing
  <2> QED
    BY <1>2, <2>2, <2>3, <2>4 DEF HasOldest
<1>3. CASE ReadName(c)
  <2>1. pc[c] = "name" /\ pc'[c] = "dest" /\ UNCHANGED ring
    BY <1>0, <1>3 DEF ReadName, Goto
  <2>2. Used > 0 /\ Entry(1) \in Task
    BY <2>1 DEF HasOldest
  <2>3. AtTail = {Entry(1)}
    BY <2>1, <2>2, ReadsEntry DEF CalmInv
  <2>4. file_name'[c] = Entry(1).filename
    BY <1>0, <1>3, <2>3 DEF ReadName
  <2>5. Used' = Used /\ Entry(1)' = Entry(1)
    BY <2>1, SameRing
  <2> QED
    BY <2>1, <2>2, <2>4, <2>5 DEF HasOldest
<1>4. CASE ReadDest(c)
  <2>1. pc[c] = "dest" /\ UNCHANGED ring /\ file_name' = file_name
    BY <1>4 DEF ReadDest, Goto
  <2>2. Used > 0 /\ Entry(1) \in Task /\ file_name[c] = Entry(1).filename
    BY <2>1 DEF HasOldest
  <2>3. AtTail = {Entry(1)}
    BY <2>1, <2>2, ReadsEntry DEF CalmInv
  <2>4. dest_ip'[c] = Entry(1).dest_ip
    BY <1>0, <1>4, <2>3 DEF ReadDest
  <2>5. Used' = Used /\ Entry(1)' = Entry(1)
    BY <2>1, SameRing
  <2> QED
    BY <2>1, <2>2, <2>4, <2>5 DEF HasOldest
<1>5. CASE QueryUdpPort(c) \/ QueryTcpPort(c) \/ SendFile(c) \/ Notify(c)
  <2>1. /\ pc[c] \in HasTaskAt /\ UNCHANGED ring
        /\ file_name' = file_name /\ dest_ip' = dest_ip
    BY <1>5 DEF QueryUdpPort, QueryTcpPort, SendFile, Notify, Goto, reading
  <2>2. Used' = Used /\ Entry(1)' = Entry(1)
    BY <2>1, SameRing
  <2> QED
    BY <2>1, <2>2 DEF HasOldest
<1> QED
  BY <1>0, <1>1, <1>2, <1>3, <1>4, <1>5
     DEF Working, CheckMode, HasMore, Advance, WrapTail, Goto

\* The copies of a client are its own.
LEMMA OthersCopies ==
  ASSUME LockInv, NEW c \in Clients, Working(c), NEW d \in Clients \ {c}
  PROVE  file_name'[d] = file_name[d] /\ dest_ip'[d] = dest_ip[d]
<1>1. file_name \in [Clients -> Text(File)] /\ dest_ip \in [Clients -> Text(Ip)]
  BY DEF LockInv, TypeOK
<1> QED
  BY <1>1 DEF Working, CheckMode, HasMore, ReadName, ReadDest, QueryUdpPort, QueryTcpPort,
              SendFile, Notify, Advance, WrapTail, reading

LEMMA StepOldest ==
  CalmUser /\ LockInv /\ CalmInv /\ SendsOldest /\ [Next]_vars => SendsOldest'
<1> SUFFICES ASSUME CalmUser, LockInv, CalmInv, SendsOldest, [Next]_vars, up'
             PROVE  SendsOldest'
  BY DEF SendsOldest
<1>0. Alone' /\ Used \in Nat
  BY StepAlone, RingFacts, RingAssumption DEF CalmInv, Index
<1> SUFFICES ASSUME NEW d \in Clients PROVE HasOldest(d)'
  BY <1>0 DEF SendsOldest, Alone, HasOldest
<1>1. up => HasOldest(d)
  BY OldestParts
<1>2. CASE Restart
  BY <1>2 DEF Restart, Each, HasOldest, HasNameAt, HasTaskAt
<1>3. CASE CopyName
  <2>1. UNCHANGED <<pc, file_name, dest_ip>> /\ Used' = Used /\ HasOldest(d)
    BY <1>1, <1>3, NameFacts DEF CopyName, reading
  <2>2. Used > 0 => Used' > 0 /\ Entry(1)' = Entry(1)
    BY <1>0, <1>3, <2>1, NameFacts
  <2> QED
    BY <2>1, <2>2, OldestStays
<1>4. CASE CopyDest
  <2>1. UNCHANGED <<pc, file_name, dest_ip>> /\ HasOldest(d)
    BY <1>1, <1>4 DEF CopyDest, reading
  <2>2. Used + 1 < MAX_REPOS_NUM
    BY <1>4, PutHasRoom DEF CalmInv
  <2>3. Used > 0 => Used' > 0 /\ Entry(1)' = Entry(1)
    BY <1>0, <1>4, <2>2, PutFacts
  <2> QED
    BY <2>1, <2>3, OldestStays
<1>5. ASSUME NEW c \in Clients, Working(c) PROVE HasOldest(d)'
  <2>1. HasOldest(d)
    BY <1>1, <1>5, ClientFrame
  <2>2. CASE d = c
    BY <1>5, <2>1, <2>2, ClientHasOldest
  <2>3. CASE d # c
    <3>1. pc'[d] = pc[d] /\ (pc[c] # "mode" \/ CheckMode(c))
      BY <1>5, <2>3, ClientFrame
    <3>2. CASE pc[c] # "mode"
      <4>1. pc[d] = "mode"
        BY <2>3, <3>2 DEF CalmInv, Alone
      <4> QED
        BY <3>1, <4>1 DEF HasOldest, HasNameAt, HasTaskAt
    <3>3. CASE CheckMode(c)
      <4>1. UNCHANGED ring
        BY <3>3 DEF CheckMode
      <4>2. Used' = Used /\ Entry(1)' = Entry(1)
        BY <4>1, SameRing
      <4> QED
        BY <1>5, <2>1, <2>3, <3>1, <4>2, OthersCopies, OldestStays
    <3> QED
      BY <3>1, <3>2, <3>3
  <2> QED
    BY <2>2, <2>3
<1>6. CASE UNCHANGED <<ring, pc, reading>> /\ up
  <2>1. Used' = Used /\ Entry(1)' = Entry(1)
    BY <1>6, SameRing
  <2> QED
    BY <1>1, <1>6, <2>1, OldestStays DEF reading
<1> QED
  BY <1>2, <1>3, <1>4, <1>5, <1>6
     DEF Next, Adding, Failing, Die, ToggleGui, ReceiveAdd, ReceiveMode, SkipPeer, AddDone,
         ConnectionLost, ReportFails, vars

LEMMA StepSafe == CalmUser /\ SafeInv /\ [Next]_vars => SafeInv'
BY StepLock, StepAlone, StepRoom, StepHalfCopied, StepWhole, StepOldest, StepCount
   DEF SafeInv, CalmInv

\* With a calm user the unlocked, field-by-field reads of getCurrentUnsyncedFile
\* are safe: whatever a client sends is one whole entry, the oldest, which stays
\* in its slot until that client removes it, and no other client is at work.
THEOREM OldestIsSent == CalmUser => (Spec => []SendsOldest)
<1> SUFFICES ASSUME CalmUser PROVE Spec => []SendsOldest
  OBVIOUS
<1>1. SafeInv => SendsOldest
  BY DEF SafeInv
<1>2. SafeInv /\ [Next]_vars => SafeInv'
  BY StepSafe
<1> QED
  BY <1>1, <1>2, InitSafe, PTL DEF Spec

\* With a calm user hasMoreItemInSyncRepos counts: the entries between the indices
\* are those put and not removed.
THEOREM CountKept == CalmUser => (Spec => []CountIsExact)
<1> SUFFICES ASSUME CalmUser PROVE Spec => []CountIsExact
  OBVIOUS
<1>1. SafeInv => CountIsExact
  BY DEF SafeInv
<1>2. SafeInv /\ [Next]_vars => SafeInv'
  BY StepSafe
<1> QED
  BY <1>1, <1>2, InitSafe, PTL DEF Spec

\* With a calm user: the client at work is the one the mode names, an add never
\* fills the ring, and every slot between the indices holds a whole entry.
THEOREM CalmKept == CalmUser => (Spec => []CalmInv)
<1> SUFFICES ASSUME CalmUser PROVE Spec => []CalmInv
  OBVIOUS
<1>1. SafeInv => CalmInv
  BY DEF SafeInv
<1>2. SafeInv /\ [Next]_vars => SafeInv'
  BY StepSafe
<1> QED
  BY <1>1, <1>2, InitSafe, PTL DEF Spec

\* The two conditions are all that the promises of the header need.  With a user who
\* leaves room, hasMoreItemInSyncRepos says "empty" only when everything was removed.
THEOREM EmptyIsSynced == CalmUser => (Spec => []EmptyMeansSynced)
<1> SUFFICES ASSUME CalmUser PROVE Spec => []EmptyMeansSynced
  OBVIOUS
<1>1. SafeInv => EmptyMeansSynced
  <2> SUFFICES ASSUME SafeInv, up, mutex = Free, head = tail PROVE puts = removed
    BY DEF EmptyMeansSynced
  <2>1. puts - removed = Used /\ puts \in Nat /\ removed \in Nat /\ Wrap(tail) = tail
    BY RingFacts, ThreadFacts DEF SafeInv, CountIsExact
  <2>2. Used = 0
    BY <2>1, RingFacts DEF SafeInv, Used, Index
  <2> QED
    BY <2>1, <2>2
<1>2. SafeInv /\ [Next]_vars => SafeInv'
  BY StepSafe
<1> QED
  BY <1>1, <1>2, InitSafe, PTL DEF Spec

\* And with a user who switches only a daemon at rest the access functions are
\* thread-safe: a client sends the two fields of one slot, garbled or not.
THEOREM NoEntryIsTorn == CalmUser => (Spec => []NoTornEntry)
<1> SUFFICES ASSUME CalmUser PROVE Spec => []NoTornEntry
  OBVIOUS
<1>1. SafeInv => NoTornEntry
  <2> SUFFICES ASSUME SafeInv, up, NEW c \in Clients, pc[c] = "send"
               PROVE  \E i \in Index :
                        slots[i] = [filename |-> file_name[c], dest_ip |-> dest_ip[c]]
    BY DEF NoTornEntry, Index
  <2>1. Entry(1) \in Task /\ file_name[c] = Entry(1).filename /\ dest_ip[c] = Entry(1).dest_ip
    BY DEF SafeInv, SendsOldest, HasNameAt, HasTaskAt
  <2>2. Entry(1) = slots[Wrap(tail)] /\ Wrap(tail) \in Index
    <3>1. Wrap(tail) \in Index /\ Wrap(Wrap(tail)) = Wrap(tail) /\ Wrap(tail) + 1 - 1 = Wrap(tail)
      BY RingFacts, WrapTwice DEF SafeInv, Index
    <3> QED
      BY <3>1 DEF Entry
  <2>3. Entry(1) = [filename |-> file_name[c], dest_ip |-> dest_ip[c]]
    BY <2>1 DEF Task
  <2> QED
    BY <2>2, <2>3
<1>2. SafeInv /\ [Next]_vars => SafeInv'
  BY StepSafe
<1> QED
  BY <1>1, <1>2, InitSafe, PTL DEF Spec

--------------------------------------------------------------------------------
(* SyncDaemon implements TaskQueue: with a calm user every step of the daemon *)
(* is a Put, a Send, a Lose or a stutter of the abstract queue.               *)
(*                                                                            *)
(*   CopyDest                      Put: queue_head passes the finished entry  *)
(*   SendFile                      Send: the oldest task goes with its file   *)
(*   ConnectionLost, ReportFails   Lose                                       *)
(*   Advance, and all others       a stutter: what leaves the ring has left   *)
(*                                 the queue before                           *)

\* A client has sent its file and has its entry still to remove.
Done == \E c \in Clients : pc[c] \in {"notify", "remove"}

\* The contents of the ring are a sequence of tasks.
LEMMA ContentsFacts ==
  ASSUME LockInv, Whole
  PROVE  /\ Used \in Nat
         /\ Contents \in Seq(Task) /\ Len(Contents) = Used
         /\ \A k \in 1 .. Used : Contents[k] = Entry(k)
<1>1. Used \in Nat
  BY RingFacts, RingAssumption DEF Index
<1>2. \A k \in 1 .. Used : Entry(k) \in Task
  BY DEF Whole
<1> QED
  BY <1>1, <1>2 DEF Contents

\* The same, of the contents a step leaves.
LEMMA NextContents ==
  ASSUME Used' \in Nat, \A k \in 1 .. Used' : Entry(k)' \in Task
  PROVE  /\ Contents' \in Seq(Task) /\ Len(Contents') = Used'
         /\ \A k \in 1 .. Used' : Contents'[k] = Entry(k)'
BY DEF Contents

\* Two sequences with the same length and elements are one.
LEMMA SameSeq ==
  ASSUME NEW S, NEW s \in Seq(S), NEW t \in Seq(S), Len(s) = Len(t),
         \A k \in 1 .. Len(s) : s[k] = t[k]
  PROVE  s = t
OBVIOUS

\* A ring with the same entries has the same contents.
LEMMA SameContents ==
  ASSUME Used' = Used, \A k \in 1 .. Used : Entry(k)' = Entry(k)
  PROVE  Contents' = Contents
BY DEF Contents

\* A step that leaves the process, the entries and what is done alone.
LEMMA Stutters ==
  ASSUME up' = up, Done' = Done, Contents' = Contents, sent' = sent
  PROVE  UNCHANGED <<Pending, sent>>
BY DEF Pending, Done

\* What Alone makes of the clients, when one is at work.
LEMMA OnlyOne ==
  ASSUME Alone, NEW c \in Clients, pc[c] # "mode"
  PROVE  \A d \in Clients \ {c} : pc[d] = "mode"
BY DEF Alone

\* The last field written makes the entry a task of the queue, its newest.
LEMMA PutIsPut ==
  ASSUME SafeInv, CopyDest
  PROVE  Queue!Put
<1>1. LockInv /\ Whole /\ Room /\ HalfCopied /\ SendsOldest
  BY DEF SafeInv, CalmInv
<1>2. peer \in 1 .. Len(PeerList) /\ Used + 1 < MAX_REPOS_NUM
  BY <1>1, PutHasRoom
<1> DEFINE t == [slots[head] EXCEPT !.dest_ip = PeerList[peer].ip]
<1>3. /\ Used' = Used + 1
      /\ \A k \in 1 .. Used : Entry(k)' = Entry(k)
      /\ Entry(Used)' = t
  BY <1>1, <1>2, PutFacts
<1>4. t \in Task
  <2>1. slots[head].filename \in File
    BY <1>1 DEF CopyDest, Room, HalfCopied
  <2>2. PeerList[peer].ip \in Dest
    BY <1>1, <1>2 DEF CopyDest, LockInv, LockDiscipline, Dest
  <2>3. slots[head] \in Slot
    BY <1>1, RingFacts
  <2> QED
    BY <2>1, <2>2, <2>3 DEF Slot, Task
<1> HIDE DEF t
<1>5. Contents' = Append(Contents, t)
  <2>1. /\ Used \in Nat /\ Contents \in Seq(Task) /\ Len(Contents) = Used
        /\ \A k \in 1 .. Used : Contents[k] = Entry(k)
    BY <1>1, ContentsFacts
  <2>2. Append(Contents, t) \in Seq(Task) /\ Len(Append(Contents, t)) = Used + 1
    BY <1>4, <2>1
  <2>3. ASSUME NEW k \in 1 .. Used'
        PROVE  Entry(k)' = Append(Contents, t)[k] /\ Entry(k)' \in Task
    <3>1. CASE k \in 1 .. Used
      BY <1>1, <1>3, <1>4, <2>1, <3>1 DEF Whole
    <3>2. CASE k = Used + 1
      <4>1. Entry(k)' = t
        BY <1>3, <3>2
      <4> QED
        BY <1>4, <2>1, <3>2, <4>1
    <3> QED
      BY <1>3, <2>1, <2>3, <3>1, <3>2
  <2>4. /\ Contents' \in Seq(Task) /\ Len(Contents') = Used'
        /\ \A k \in 1 .. Used' : Contents'[k] = Entry(k)'
    BY <1>3, <2>1, <2>3, NextContents
  <2> QED
    BY <1>3, <2>2, <2>3, <2>4, SameSeq
<1>6. up /\ up' /\ sent' = sent /\ Done' = Done
  BY DEF CopyDest, Done
<1>7. Pending' = Append(Pending, t)
  <2>1. CASE Done
    <3>1. Used > 0
      BY <1>1, <1>6, <2>1 DEF Done, SendsOldest, HasNameAt
    <3>2. Contents \in Seq(Task) /\ Contents # << >>
      BY <1>1, <3>1, ContentsFacts
    <3>3. Tail(Append(Contents, t)) = Append(Tail(Contents), t)
      BY <1>4, <3>2
    <3> QED
      BY <1>5, <1>6, <2>1, <3>3 DEF Pending, Done
  <2>2. CASE ~ Done
    BY <1>5, <1>6, <2>2 DEF Pending, Done
  <2> QED
    BY <2>1, <2>2
<1> QED
  BY <1>4, <1>6, <1>7 DEF Queue!Put

\* A finished transfer takes the oldest task, and no other.
LEMMA SendIsSend ==
  ASSUME SafeInv, NEW c \in Clients, SendFile(c)
  PROVE  Queue!Send
<1>1. LockInv /\ Whole /\ Alone /\ SendsOldest
  BY DEF SafeInv, CalmInv
<1>2. /\ up /\ up' /\ pc[c] = "send" /\ pc' = [pc EXCEPT ![c] = "notify"]
      /\ sent' = Append(sent, [filename |-> file_name[c], dest_ip |-> dest_ip[c]])
      /\ UNCHANGED ring
  BY DEF SendFile, Goto
<1>3. /\ Used > 0 /\ Entry(1) \in Task
      /\ file_name[c] = Entry(1).filename /\ dest_ip[c] = Entry(1).dest_ip
  BY <1>1, <1>2 DEF SendsOldest, HasNameAt, HasTaskAt
<1>4. Contents' = Contents
  BY <1>2, SameRing, SameContents
<1>5. ~ Done
  BY <1>1, <1>2, OnlyOne DEF Done
<1>6. Done'
  <2>1. pc \in [Clients -> Points]
    BY <1>1 DEF LockInv, TypeOK
  <2> QED
    BY <1>2, <2>1 DEF Done
<1>7. Pending = Contents /\ Pending' = Tail(Contents)
  BY <1>2, <1>4, <1>5, <1>6 DEF Pending, Done
<1>8. Contents # << >> /\ Head(Contents) = Entry(1)
  BY <1>1, <1>3, ContentsFacts
<1>9. Entry(1) = [filename |-> file_name[c], dest_ip |-> dest_ip[c]]
  BY <1>3 DEF Task
<1> QED
  BY <1>2, <1>7, <1>8, <1>9 DEF Queue!Send

\* The slot follows later: the queue has lost the entry when it was sent.
LEMMA AdvanceStutters ==
  ASSUME SafeInv, NEW c \in Clients, Advance(c)
  PROVE  UNCHANGED <<Pending, sent>>
<1>1. LockInv /\ Whole /\ Alone /\ SendsOldest
  BY DEF SafeInv, CalmInv
<1>2. up /\ up' /\ pc[c] = "remove" /\ pc' = [pc EXCEPT ![c] = "wrap"] /\ sent' = sent
  BY DEF Advance, Goto
<1>3. /\ Used > 0 /\ Used' = Used - 1
      /\ \A k \in 1 .. Used' : k + 1 \in 1 .. Used /\ Entry(k)' = Entry(k + 1)
  BY <1>1, RemovesSomething, RemoveFacts
<1>4. Done /\ ~ Done'
  <2>1. pc \in [Clients -> Points]
    BY <1>1 DEF LockInv, TypeOK
  <2> QED
    BY <1>1, <1>2, <2>1, OnlyOne DEF Done
<1>5. Contents' = Tail(Contents)
  <2>1. /\ Used \in Nat /\ Contents \in Seq(Task) /\ Len(Contents) = Used
        /\ \A k \in 1 .. Used : Contents[k] = Entry(k)
    BY <1>1, ContentsFacts
  <2>2. /\ Tail(Contents) \in Seq(Task) /\ Len(Tail(Contents)) = Used'
        /\ \A k \in 1 .. Used' : Tail(Contents)[k] = Entry(k + 1)
    BY <1>3, <2>1
  <2>3. \A k \in 1 .. Used' : Entry(k)' = Entry(k + 1) /\ Entry(k)' \in Task
    BY <1>1, <1>3 DEF Whole
  <2>4. /\ Contents' \in Seq(Task) /\ Len(Contents') = Used'
        /\ \A k \in 1 .. Used' : Contents'[k] = Entry(k)'
    BY <1>3, <2>1, <2>3, NextContents
  <2> QED
    BY <2>2, <2>3, <2>4, SameSeq
<1> QED
  BY <1>2, <1>4, <1>5 DEF Pending, Done

\* The other steps of a client thread.
LEMMA OthersStutter ==
  ASSUME SafeInv, NEW c \in Clients, Working(c), ~ SendFile(c), ~ Advance(c)
  PROVE  UNCHANGED <<Pending, sent>>
<1>1. LockInv /\ Alone
  BY DEF SafeInv, CalmInv
<1>2. pc \in [Clients -> Points]
  BY <1>1 DEF LockInv, TypeOK
<1>3. up' = up /\ sent' = sent
  BY DEF Working, CheckMode, HasMore, ReadName, ReadDest, QueryUdpPort, QueryTcpPort,
         Notify, WrapTail, counts
<1>4. Done' = Done
  BY <1>2 DEF Done, Goto, Working, CheckMode, HasMore, ReadName, ReadDest, QueryUdpPort,
              QueryTcpPort, Notify, WrapTail
<1>5. Contents' = Contents
  <2>1. CASE WrapTail(c)
    BY <1>1, <2>1, WrapFacts, SameContents
  <2>2. CASE UNCHANGED <<tail, removed>>
    BY <1>1, <2>2, ClientFrame, SameRing, SameContents DEF ring
  <2> QED
    BY <1>1, <2>1, <2>2, ClientFrame
<1> QED
  BY <1>3, <1>4, <1>5, Stutters

LEMMA InitQueue == Init => Queue!Init
<1> SUFFICES ASSUME Init PROVE Queue!Init
  OBVIOUS
<1>1. Used = 0
  BY EmptyRing, UsedIsDist DEF Init
<1>2. Contents = << >>
  BY <1>1 DEF Contents
<1>3. up /\ ~ Done /\ sent = << >>
  BY DEF Init, Each, Done
<1> QED
  BY <1>2, <1>3 DEF Queue!Init, Pending, Done

LEMMA StepQueue == SafeInv /\ [Next]_vars => [Queue!Next]_<<Pending, sent>>
<1> SUFFICES ASSUME SafeInv, [Next]_vars PROVE [Queue!Next]_<<Pending, sent>>
  OBVIOUS
<1>1. LockInv /\ Whole
  BY DEF SafeInv, CalmInv
<1>2. CASE CopyDest
  BY <1>2, PutIsPut DEF Queue!Next
<1>3. CASE CopyName
  <2>1. Contents' = Contents
    BY <1>1, <1>3, NameFacts, SameContents
  <2> QED
    BY <1>3, <2>1, Stutters DEF CopyName, counts, Done
<1>4. ASSUME NEW c \in Clients, Working(c) PROVE [Queue!Next]_<<Pending, sent>>
  BY <1>4, SendIsSend, AdvanceStutters, OthersStutter DEF Queue!Next
<1>5. CASE Restart
  <2>1. Used' = 0
    BY <1>5, EmptyRing DEF Restart, Used, Dist, Wrap
  <2>2. Contents' = << >>
    BY <2>1 DEF Contents
  <2>3. ~ up /\ up' /\ ~ Done' /\ sent' = sent
    BY <1>5 DEF Restart, Each, Done
  <2> QED
    BY <2>2, <2>3 DEF Pending, Done
<1>6. CASE Die
  BY <1>6 DEF Die, counts, Pending, Queue!Next, Queue!Lose
<1>7. CASE UNCHANGED <<up, ring, pc, sent>>
  <2>1. Contents' = Contents
    BY <1>7, SameRing, SameContents
  <2> QED
    BY <1>7, <2>1, Stutters DEF Done
<1> QED
  BY <1>2, <1>3, <1>4, <1>5, <1>6, <1>7
     DEF Next, Adding, Failing, ToggleGui, ReceiveAdd, ReceiveMode, SkipPeer, AddDone,
         ConnectionLost, ReportFails, counts, vars

\* With a calm user the ring, the lock and the two client threads promise no less
\* than the abstract queue: every task is sent exactly once and in order, unless
\* the daemon dies, for every ring size, peer list and number of files.
THEOREM QueueImplemented == CalmUser => (Spec => ImplementsQueue)
<1> SUFFICES ASSUME CalmUser PROVE Spec => ImplementsQueue
  OBVIOUS
<1>1. SafeInv /\ [Next]_vars => SafeInv'
  BY StepSafe
<1> QED
  BY <1>1, InitSafe, InitQueue, StepQueue, PTL DEF Spec, ImplementsQueue, Queue!Spec

================================================================================
