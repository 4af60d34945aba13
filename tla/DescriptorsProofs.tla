---------------------------- MODULE DescriptorsProofs --------------------------
(******************************************************************************)
(* Theorems about Descriptors, for every finite set of clients and every size *)
(* of the table.                                                              *)
(******************************************************************************)
EXTENDS Descriptors, FiniteSetTheorems, TLAPS

Things == {"socket", "file", "connection"}

(* The threads' descriptors as a set of pairs. *)

LEMMA ThreadFacts ==
  /\ IsFiniteSet(Clients) /\ IsFiniteSet(Servers) /\ IsFiniteSet(Threads)
  /\ Clients \cap Servers = {}
<1>1. IsFiniteSet({"tcp_sync_server"}) /\ IsFiniteSet({"udp_sync_server"})
      /\ IsFiniteSet({"peer_manange"})
  BY FS_Singleton
<1>2. IsFiniteSet({"tcp_sync_server"} \cup {"udp_sync_server"} \cup {"peer_manange"})
  BY <1>1, FS_Union
<1>3. Servers = {"tcp_sync_server"} \cup {"udp_sync_server"} \cup {"peer_manange"}
  BY DEF Servers
<1> QED
  BY <1>2, <1>3, ClientAssumption, FS_Union DEF Threads, Servers

LEMMA ThingFacts == IsFiniteSet(Things) /\ \A S \in SUBSET Things : IsFiniteSet(S)
<1>1. IsFiniteSet({"socket"}) /\ IsFiniteSet({"file"}) /\ IsFiniteSet({"connection"})
  BY FS_Singleton
<1>2. IsFiniteSet({"socket"} \cup {"file"} \cup {"connection"})
  BY <1>1, FS_Union
<1>3. Things = {"socket"} \cup {"file"} \cup {"connection"}
  BY DEF Things
<1> QED
  BY <1>2, <1>3, FS_Subset

LEMMA HeldFacts == IsFiniteSet(Held) /\ Cardinality(Held) \in Nat
<1>1. IsFiniteSet(Threads \X Things)
  BY ThreadFacts, ThingFacts, FS_Product
<1>2. Held \in SUBSET (Threads \X Things)
  BY DEF Held, Things
<1> QED
  BY <1>1, <1>2, FS_Subset, FS_CardinalityType

--------------------------------------------------------------------------------
(* The ledger. *)

\* Types and the ledger go together: that a close leaves the count at BASE or
\* above needs that the thread's descriptors are among those counted.
TableInv ==
  /\ TypeOK
  /\ has \in [Threads -> SUBSET Things]
  /\ pc["tcp_sync_server"] = "accept" => "file" \notin has["tcp_sync_server"]
  /\ open = BASE + Cardinality(Held) + leaked

LEMMA InitTable == Init => TableInv
<1> SUFFICES ASSUME Init PROVE TableInv
  OBVIOUS
<1>1. BASE \in BASE .. LIMIT
  BY TableAssumption
<1>2. Held = {}
  BY DEF Init, Held
<1>3. Cardinality(Held) = 0
  BY <1>2, FS_EmptySet
<1>4. TypeOK
  BY <1>1 DEF Init, TypeOK
<1>5. has \in [Threads -> SUBSET Things]
  BY DEF Init
<1>6. open = BASE + 0 + leaked
  BY TableAssumption DEF Init
<1> QED
  BY <1>3, <1>4, <1>5, <1>6 DEF Init, TableInv, Threads, Servers

\* A descriptor more, if there is room.
LEMMA AcquireCounts ==
  ASSUME TableInv, NEW t \in Threads, NEW what \in Things, what \notin has[t],
         Acquire(t, what), leaked' = leaked
  PROVE  /\ has' \in [Threads -> SUBSET Things]
         /\ open' \in BASE .. LIMIT
         /\ open' = BASE + Cardinality(Held)' + leaked'
         /\ has'[t] = IF Room THEN has[t] \cup {what} ELSE has[t]
         /\ \A u \in Threads : u # t => has'[u] = has[u]
<1>0. has \in [Threads -> SUBSET Things] /\ open \in BASE .. LIMIT /\ leaked \in Nat
      /\ open = BASE + Cardinality(Held) + leaked
  BY DEF TableInv, TypeOK
<1>1. CASE Room
  <2>1. /\ has' \in [Threads -> SUBSET Things]
        /\ has'[t] = has[t] \cup {what}
        /\ \A u \in Threads : u # t => has'[u] = has[u]
    BY <1>0, <1>1 DEF Acquire
  <2>2. Held' = Held \cup {<<t, what>>}
    BY <2>1 DEF Held, Things
  <2>3. <<t, what>> \notin Held
    BY DEF Held
  <2>4. Cardinality(Held)' = Cardinality(Held) + 1
    BY <2>2, <2>3, HeldFacts, FS_AddElement
  <2>5. open' = open + 1 /\ open' \in BASE .. LIMIT
    BY <1>0, <1>1, TableAssumption DEF Acquire, Room
  <2>6. open' = BASE + (Cardinality(Held) + 1) + leaked
    BY <1>0, <2>5, HeldFacts, TableAssumption
  <2> QED
    BY <1>1, <2>1, <2>4, <2>5, <2>6
<1>2. CASE ~ Room
  <2>1. has' = has /\ open' = open
    BY <1>2 DEF Acquire
  <2>2. Held' = Held
    BY <2>1 DEF Held
  <2> QED
    BY <1>0, <1>2, <2>1, <2>2
<1> QED
  BY <1>1, <1>2

\* All of a thread's descriptors less.
LEMMA ReleaseCounts ==
  ASSUME TableInv, NEW t \in Threads, Release(t), leaked' = leaked
  PROVE  /\ has' \in [Threads -> SUBSET Things]
         /\ open' \in BASE .. LIMIT
         /\ open' = BASE + Cardinality(Held)' + leaked'
         /\ has'[t] = {}
         /\ \A u \in Threads : u # t => has'[u] = has[u]
<1>0. has \in [Threads -> SUBSET Things] /\ open \in BASE .. LIMIT /\ leaked \in Nat
      /\ open = BASE + Cardinality(Held) + leaked
  BY DEF TableInv, TypeOK
<1>1. /\ has' \in [Threads -> SUBSET Things]
      /\ has'[t] = {}
      /\ \A u \in Threads : u # t => has'[u] = has[u]
  BY <1>0 DEF Release
<1> DEFINE Own == {t} \X has[t]
<1>2. IsFiniteSet(has[t]) /\ IsFiniteSet({t}) /\ Cardinality({t}) = 1
  BY <1>0, ThingFacts, FS_Singleton
<1>3. Cardinality(has[t]) \in Nat
  BY <1>2, FS_CardinalityType
<1>4. Cardinality(Own) = 1 * Cardinality(has[t])
  BY <1>2, FS_Product
<1>5. Held' = Held \ Own /\ Held \cap Own = Own
  BY <1>0, <1>1 DEF Held, Things
<1>6. Cardinality(Held)' = Cardinality(Held) - Cardinality(Own)
  <2>1. Cardinality(Held \ Own) = Cardinality(Held) - Cardinality(Held \cap Own)
    BY HeldFacts, FS_Difference
  <2> HIDE DEF Own
  <2> QED
    BY <1>5, <2>1
<1>7. IsFiniteSet(Held') /\ Cardinality(Held') \in Nat
  BY <1>5, HeldFacts, FS_Difference, FS_CardinalityType
<1>8. open' = open - Cardinality(has[t])
  BY DEF Release
<1>9. open' = BASE + Cardinality(Held)' + leaked
  BY <1>0, <1>3, <1>4, <1>6, <1>8, HeldFacts, TableAssumption
<1>10. open' \in BASE .. LIMIT
  BY <1>0, <1>3, <1>7, <1>8, <1>9, TableAssumption
<1> QED
  BY <1>1, <1>9, <1>10

\* One more that nobody will close.
LEMMA LeakCounts ==
  ASSUME TableInv, Room, Leak, has' = has
  PROVE  /\ open' \in BASE .. LIMIT
         /\ leaked' \in Nat
         /\ open' = BASE + Cardinality(Held)' + leaked'
<1>1. open \in BASE .. LIMIT /\ leaked \in Nat /\ open = BASE + Cardinality(Held) + leaked
  BY DEF TableInv, TypeOK
<1>2. Held' = Held
  BY DEF Held
<1> QED
  BY <1>1, <1>2, HeldFacts, TableAssumption DEF Room, Leak

\* What a thread may have at a place.
Fits(t, point, set) ==
  /\ set \subseteq (IF t \in Clients THEN {"socket", "file"} ELSE {"connection", "file"})
  /\ point \in {"idle", "dial"} => set = {}
  /\ point \in {"query", "size", "open"} => set \subseteq {"socket"}
  /\ point \in {"accept", "body"} => "connection" \in set
  /\ t \in {"udp_sync_server", "peer_manange"} => "file" \notin set
  /\ t = "tcp_sync_server" /\ point = "accept" => "file" \notin set

Points == {"idle", "query", "dial", "size", "open", "copy", "close", "accept", "body"}

LEMMA AllFit == TableInv => \A t \in Threads : Fits(t, pc[t], has[t])
BY DEF TableInv, TypeOK, Fits

\* A step of one thread to another place.
LEMMA ThreadStep ==
  ASSUME TableInv, NEW t \in Threads, NEW point \in Points, GoTo(t, point),
         has' \in [Threads -> SUBSET Things],
         \A u \in Threads : u # t => has'[u] = has[u],
         Fits(t, point, has'[t]),
         up' \in BOOLEAN, lost' \in BOOLEAN, leaked' \in Nat, open' \in BASE .. LIMIT,
         open' = BASE + Cardinality(Held)' + leaked'
  PROVE  TableInv'
<1>1. /\ pc' \in [Threads -> Points]
      /\ pc'[t] = point
      /\ \A u \in Threads : u # t => pc'[u] = pc[u]
  BY DEF TableInv, TypeOK, GoTo, Points
<1>2. \A u \in Threads : Fits(u, pc'[u], has'[u])
  BY <1>1, AllFit
<1>3. TypeOK'
  BY <1>1, <1>2 DEF TypeOK, Fits, Points
<1>4. "tcp_sync_server" \in Threads
  BY DEF Threads, Servers
<1> QED
  BY <1>2, <1>3, <1>4 DEF TableInv, Fits

LEMMA ExitTable == TableInv /\ Exit => TableInv'
BY DEF TableInv, TypeOK, Exit, Held

\* A step that takes a descriptor, and one that gives back the thread's.
LEMMA AcquireTable ==
  ASSUME TableInv, NEW t \in Threads, NEW what \in Things, what \notin has[t],
         NEW point \in Points, Acquire(t, what), GoTo(t, point),
         Fits(t, point, IF Room THEN has[t] \cup {what} ELSE has[t]),
         UNCHANGED <<up, leaked, lost>>
  PROVE  TableInv'
<1>1. up' \in BOOLEAN /\ lost' \in BOOLEAN /\ leaked' \in Nat
  BY DEF TableInv, TypeOK
<1> QED
  BY <1>1, AcquireCounts, ThreadStep

LEMMA ReleaseTable ==
  ASSUME TableInv, NEW t \in Threads, NEW point \in {"idle", "dial"},
         Release(t), GoTo(t, point), lost' \in BOOLEAN, UNCHANGED <<up, leaked>>
  PROVE  TableInv'
<1>1. up' \in BOOLEAN /\ leaked' \in Nat
  BY DEF TableInv, TypeOK
<1>2. Fits(t, point, {})
  BY DEF Fits
<1> QED
  BY <1>1, <1>2, ReleaseCounts, ThreadStep DEF Points

LEMMA StepTable == TableInv /\ [Next]_vars => TableInv'
<1> SUFFICES ASSUME TableInv, [Next]_vars PROVE TableInv'
  OBVIOUS
<1>c. Clients \subseteq Threads /\ Servers \subseteq Threads /\ Clients \cap Servers = {}
  BY ThreadFacts DEF Threads
<1>1. CASE AddItem
  BY <1>1, LeakCounts DEF AddItem, TableInv, TypeOK
<1>2. ASSUME NEW c \in Clients, Query(c) PROVE TableInv'
  <2>1. pc[c] = "idle" /\ has[c] = {} /\ c \in Threads
    BY <1>2, <1>c, AllFit DEF Query, At, Fits
  <2>2. Fits(c, "query", IF Room THEN has[c] \cup {"socket"} ELSE has[c])
    BY <2>1, <1>c DEF Fits, Servers
  <2> QED
    BY <1>2, <2>1, <2>2, AcquireTable DEF Query, Points, Things
<1>3. ASSUME NEW c \in Clients, QueryDone(c) PROVE TableInv'
  BY <1>3, <1>c, ReleaseTable DEF QueryDone, TableInv, TypeOK
<1>4. ASSUME NEW c \in Clients, Dial(c) PROVE TableInv'
  <2>1. pc[c] = "dial" /\ has[c] = {} /\ c \in Threads
    BY <1>4, <1>c, AllFit DEF Dial, At, Fits
  <2>2. Fits(c, "size", IF Room THEN has[c] \cup {"socket"} ELSE has[c])
    BY <2>1, <1>c DEF Fits, Servers
  <2> QED
    BY <1>4, <2>1, <2>2, AcquireTable DEF Dial, Points, Things
<1>5. ASSUME NEW c \in Clients, Size(c) PROVE TableInv'
  <2>1. c \in Threads /\ has' = has /\ Fits(c, "open", has[c])
    BY <1>5, <1>c, AllFit DEF Size, At, Fits, Servers
  <2>2. /\ leaked' \in Nat /\ open' \in BASE .. LIMIT
        /\ open' = BASE + Cardinality(Held)' + leaked'
    <3>1. CASE Room
      BY <1>5, <3>1, LeakCounts DEF Size
    <3>2. CASE ~ Room
      BY <1>5, <3>2 DEF Size, TableInv, TypeOK, Held
    <3> QED
      BY <3>1, <3>2
  <2>3. up' \in BOOLEAN /\ lost' \in BOOLEAN /\ has' \in [Threads -> SUBSET Things]
    BY <1>5 DEF Size, TableInv, TypeOK
  <2> QED
    BY <1>5, <2>1, <2>2, <2>3, ThreadStep DEF Size, Points
<1>6. ASSUME NEW c \in Clients, OpenInput(c) PROVE TableInv'
  <2>1. pc[c] = "open" /\ has[c] \subseteq {"socket"} /\ c \in Threads
    BY <1>6, <1>c, AllFit DEF OpenInput, At, Fits
  <2>2. Fits(c, "copy", IF Room THEN has[c] \cup {"file"} ELSE has[c])
    BY <2>1, <1>c DEF Fits, Servers
  <2> QED
    BY <1>6, <2>1, <2>2, AcquireTable DEF OpenInput, Points, Things
<1>7. ASSUME NEW c \in Clients, Report(c) PROVE TableInv'
  <2>1. CASE Room
    BY <1>7, <2>1, LeakCounts DEF Report, TableInv, TypeOK
  <2>2. CASE ~ Room
    BY <1>7, <2>2, ExitTable DEF Report
  <2> QED
    BY <2>1, <2>2
<1>8. ASSUME NEW c \in Clients, LastReport(c) PROVE TableInv'
  <2>1. CASE Room
    <3>1. c \in Threads /\ has' = has /\ Fits(c, "close", has[c])
      BY <1>8, <1>c, <2>1, AllFit DEF LastReport, Fits, Servers
    <3>2. /\ leaked' \in Nat /\ open' \in BASE .. LIMIT
          /\ open' = BASE + Cardinality(Held)' + leaked'
      BY <1>8, <2>1, LeakCounts DEF LastReport
    <3>3. up' \in BOOLEAN /\ lost' \in BOOLEAN /\ has' \in [Threads -> SUBSET Things]
      BY <1>8, <2>1 DEF LastReport, TableInv, TypeOK
    <3> QED
      BY <1>8, <2>1, <3>1, <3>2, <3>3, ThreadStep DEF LastReport, Points
  <2>2. CASE ~ Room
    BY <1>8, <2>2, ExitTable DEF LastReport
  <2> QED
    BY <2>1, <2>2
<1>9. ASSUME NEW c \in Clients, CloseAll(c) PROVE TableInv'
  <2>1. lost' \in BOOLEAN
    BY <1>9 DEF CloseAll, TableInv, TypeOK
  <2> QED
    BY <1>9, <1>c, <2>1, ReleaseTable DEF CloseAll
<1>10. ASSUME NEW s \in Servers, Accept(s) PROVE TableInv'
  <2>1. CASE Room
    <3>1. pc[s] = "idle" /\ has[s] = {} /\ s \in Threads /\ s \notin Clients
      BY <1>10, <1>c, AllFit DEF Accept, At, Fits
    <3>2. Fits(s, "accept", IF Room THEN has[s] \cup {"connection"} ELSE has[s])
      BY <2>1, <3>1 DEF Fits
    <3> QED
      BY <1>10, <2>1, <3>1, <3>2, AcquireTable DEF Accept, Points, Things
  <2>2. CASE ~ Room
    BY <1>10, <2>2, ExitTable DEF Accept
  <2> QED
    BY <2>1, <2>2
<1>11. CASE OpenOutput
  <2> DEFINE s == "tcp_sync_server"
  <2>1. pc[s] = "accept" /\ s \in Threads /\ s \notin Clients
    BY <1>11, <1>c DEF OpenOutput, At, Servers
  <2>2. "connection" \in has[s] /\ "file" \notin has[s]
        /\ has[s] \subseteq {"connection", "file"}
    BY <2>1, AllFit DEF Fits
  <2>3. Fits(s, "body", IF Room THEN has[s] \cup {"file"} ELSE has[s])
    BY <2>1, <2>2 DEF Fits
  <2> QED
    BY <1>11, <2>1, <2>2, <2>3, AcquireTable DEF OpenOutput, Points, Things
<1>12. CASE CloseOutput
  <2>1. "tcp_sync_server" \in Threads /\ lost \in BOOLEAN
    BY <1>c DEF Servers, TableInv, TypeOK
  <2>2. CASE "file" \in has["tcp_sync_server"]
    BY <1>12, <2>1, <2>2, ReleaseTable DEF CloseOutput
  <2>3. CASE "file" \notin has["tcp_sync_server"]
    BY <1>12, <2>3, ExitTable DEF CloseOutput
  <2> QED
    BY <2>2, <2>3
<1>13. CASE Answer
  <2>1. "peer_manange" \in Threads /\ lost \in BOOLEAN
    BY <1>c DEF Servers, TableInv, TypeOK
  <2> QED
    BY <1>13, <2>1, ReleaseTable DEF Answer
<1>14. CASE UNCHANGED vars
  BY <1>14 DEF vars, TableInv, TypeOK, Held
<1> QED
  BY <1>1, <1>2, <1>3, <1>4, <1>5, <1>6, <1>7, <1>8, <1>9, <1>10, <1>11, <1>12, <1>13, <1>14
     DEF Next

LEMMA TableAlways == Spec => []TableInv
BY InitTable, StepTable, PTL DEF Spec

\* Every reachable state has its type: the table is never over its limit.
THEOREM TableTypeCorrect == Spec => []TypeOK
<1>1. TableInv => TypeOK
  BY DEF TableInv
<1> QED
  BY <1>1, TableAlways, PTL

\* On every path of success and failure of every thread, get_file_size and
\* send_msg_to_gui are the only calls that leave a descriptor behind.
THEOREM LedgerOfTable == Spec => []OnlyTwoCallsLeak
<1>1. TableInv => OnlyTwoCallsLeak
  BY DEF TableInv, OnlyTwoCallsLeak
<1> QED
  BY <1>1, TableAlways, PTL

--------------------------------------------------------------------------------
(* The peak. *)

\* A client has two descriptors at most, the TCP server two, the others one each.
LEMMA PeakBounds ==
  ASSUME TableInv
  PROVE  /\ Cardinality(Clients) \in Nat
         /\ Cardinality(Held) <= 2 * Cardinality(Clients) + 4
<1> DEFINE OfClients == Clients \X {"socket", "file"}
           OfServers == {<<"tcp_sync_server", "connection">>} \cup
                        {<<"tcp_sync_server", "file">>} \cup
                        {<<"udp_sync_server", "connection">>} \cup
                        {<<"peer_manange", "connection">>}
<1>1. /\ IsFiniteSet({"socket"} \cup {"file"})
      /\ Cardinality({"socket"} \cup {"file"}) = 2
  <2>1. "file" \notin {"socket"} /\ IsFiniteSet({"socket"}) /\ Cardinality({"socket"}) = 1
    BY FS_Singleton
  <2> QED
    BY <2>1, FS_AddElement
<1>2. {"socket", "file"} = {"socket"} \cup {"file"}
  OBVIOUS
<1>3. IsFiniteSet(OfClients) /\ Cardinality(OfClients) = Cardinality(Clients) * 2
  BY <1>1, <1>2, ThreadFacts, FS_Product
<1>4. \A x : IsFiniteSet({x}) /\ Cardinality({x}) = 1
  BY FS_Singleton
<1>5. ASSUME NEW S, NEW x, IsFiniteSet(S)
      PROVE  IsFiniteSet(S \cup {x}) /\ Cardinality(S \cup {x}) <= Cardinality(S) + 1
  <2>1. Cardinality(S) \in Nat
    BY <1>5, FS_CardinalityType
  <2> QED
    BY <1>5, <2>1, FS_AddElement
<1>6. IsFiniteSet(OfServers) /\ Cardinality(OfServers) <= 4
  <2> DEFINE S1 == {<<"tcp_sync_server", "connection">>}
             S2 == S1 \cup {<<"tcp_sync_server", "file">>}
             S3 == S2 \cup {<<"udp_sync_server", "connection">>}
  <2>1. IsFiniteSet(S1) /\ Cardinality(S1) = 1
    BY <1>4
  <2>2. IsFiniteSet(S2) /\ Cardinality(S2) <= Cardinality(S1) + 1
    BY <2>1, <1>5
  <2>3. IsFiniteSet(S3) /\ Cardinality(S3) <= Cardinality(S2) + 1
    BY <2>2, <1>5
  <2>4. IsFiniteSet(OfServers) /\ Cardinality(OfServers) <= Cardinality(S3) + 1
    BY <2>3, <1>5
  <2>5. /\ Cardinality(S2) \in Nat /\ Cardinality(S3) \in Nat
        /\ Cardinality(OfServers) \in Nat
    BY <2>2, <2>3, <2>4, FS_CardinalityType
  <2> HIDE DEF S1, S2, S3, OfServers
  <2> QED
    BY <2>1, <2>2, <2>3, <2>4, <2>5
<1>7. Held \in SUBSET (OfClients \cup OfServers)
  <2> SUFFICES ASSUME NEW h \in Held PROVE h \in OfClients \cup OfServers
    OBVIOUS
  <2>1. /\ h[1] \in Threads /\ h = <<h[1], h[2]>> /\ h[2] \in has[h[1]]
        /\ Fits(h[1], pc[h[1]], has[h[1]])
    BY AllFit DEF Held
  <2>2. CASE h[1] \in Clients
    BY <2>1, <2>2 DEF Fits
  <2>3. CASE h[1] \in Servers
    <3>1. h[1] \notin Clients
      BY <2>3, ThreadFacts
    <3> QED
      BY <2>1, <2>3, <3>1 DEF Fits, Servers
  <2> QED
    BY <2>1, <2>2, <2>3 DEF Threads
<1>8. /\ IsFiniteSet(OfClients \cup OfServers)
      /\ Cardinality(OfClients \cup OfServers)
           = Cardinality(OfClients) + Cardinality(OfServers) - Cardinality(OfClients \cap OfServers)
  BY <1>3, <1>6, FS_Union
<1>9. Cardinality(Held) <= Cardinality(OfClients \cup OfServers)
  BY <1>7, <1>8, FS_Subset
<1>10. IsFiniteSet(OfClients \cap OfServers)
  BY <1>3, FS_Intersection
<1>11. /\ Cardinality(Clients) \in Nat /\ Cardinality(OfServers) \in Nat
       /\ Cardinality(OfClients \cap OfServers) \in Nat
  BY <1>6, <1>10, ThreadFacts, FS_CardinalityType
<1> HIDE DEF OfClients, OfServers
<1> QED
  BY <1>3, <1>6, <1>8, <1>9, <1>11, HeldFacts

Enough == BASE + leaked + Peak <= LIMIT

LEMMA EnoughIsRoom ==
  ASSUME TableInv, Enough
  PROVE  Room
BY PeakBounds, HeldFacts, TableAssumption DEF TableInv, TypeOK, Enough, Peak, Room

\* While there is enough, every thread has all that it asked for on the way to
\* where it is; so nothing is sent without a socket or a file.
ServedInv ==
  Enough =>
    /\ up /\ ~ lost
    /\ \A c \in Clients :
         /\ pc[c] \in {"size", "open"} => has[c] = {"socket"}
         /\ pc[c] \in {"copy", "close"} => has[c] = {"socket", "file"}
    /\ pc["tcp_sync_server"] = "body" => "file" \in has["tcp_sync_server"]

LEMMA InitServed == Init => ServedInv
BY DEF Init, ServedInv, Threads, Servers

\* A thread that moves, with all it needs, leaves the others' as it was.
LEMMA MoveServed ==
  ASSUME TableInv, ServedInv, NEW t \in Threads, NEW point \in Points, GoTo(t, point),
         Enough,
         \A u \in Threads : u # t => has'[u] = has[u],
         t \in Clients => /\ point \in {"size", "open"} => has'[t] = {"socket"}
                          /\ point \in {"copy", "close"} => has'[t] = {"socket", "file"},
         t = "tcp_sync_server" /\ point = "body" => "file" \in has'[t],
         up' = up, lost' = lost
  PROVE  ServedInv'
<1>1. pc'[t] = point /\ \A u \in Threads : u # t => pc'[u] = pc[u]
  BY DEF TableInv, TypeOK, GoTo
<1>2. Clients \subseteq Threads /\ "tcp_sync_server" \in Threads
  BY DEF Threads, Servers
<1> QED
  BY <1>1, <1>2 DEF ServedInv

LEMMA StepServed == TableInv /\ ServedInv /\ [Next]_vars => ServedInv'
<1> SUFFICES ASSUME TableInv, ServedInv, [Next]_vars, Enough' PROVE ServedInv'
  BY DEF ServedInv
\* Leaks are never undone, so there was enough before.
<1>1. Enough
  <2>1. leaked' = leaked \/ leaked' = leaked + 1
    BY DEF Next, AddItem, Query, QueryDone, Dial, Size, OpenInput, Report, LastReport,
           CloseAll, Accept, OpenOutput, CloseOutput, Answer, Exit, Leak, vars
  <2> QED
    BY <2>1, PeakBounds, TableAssumption DEF Enough, Peak, TableInv, TypeOK
<1>2. Room /\ up /\ ~ lost
  BY <1>1, EnoughIsRoom DEF ServedInv
<1>h. has \in [Threads -> SUBSET Things]
  BY DEF TableInv
<1>c. Clients \subseteq Threads /\ Servers \subseteq Threads /\ Clients \cap Servers = {}
  BY ThreadFacts DEF Threads
<1>f. \A c \in Clients :
        /\ pc[c] \in {"size", "open"} => has[c] = {"socket"}
        /\ pc[c] \in {"copy", "close"} => has[c] = {"socket", "file"}
  BY <1>1 DEF ServedInv
<1>3. CASE AddItem
  BY <1>1, <1>3 DEF AddItem, ServedInv
<1>4. ASSUME NEW c \in Clients, Query(c) \/ Dial(c) \/ OpenInput(c) PROVE ServedInv'
  <2>1. c \in Threads /\ c # "tcp_sync_server"
    BY <1>c DEF Servers
  <2>2. \A u \in Threads : u # c => has'[u] = has[u]
    BY <1>2, <1>4, <1>h DEF Query, Dial, OpenInput, Acquire
  <2>3. CASE Query(c)
    BY <1>1, <2>1, <2>2, <2>3, MoveServed DEF Query, Points
  <2>4. CASE Dial(c)
    <3>1. has[c] = {}
      BY <2>1, <2>4, AllFit DEF Dial, At, Fits
    <3>2. has'[c] = {"socket"}
      BY <1>2, <1>h, <2>1, <2>4, <3>1 DEF Dial, Acquire
    <3> QED
      BY <1>1, <2>1, <2>2, <2>4, <3>2, MoveServed DEF Dial, Points
  <2>5. CASE OpenInput(c)
    <3>1. has'[c] = {"socket", "file"}
      BY <1>2, <1>f, <1>h, <2>1, <2>5 DEF OpenInput, Acquire, At
    <3> QED
      BY <1>1, <2>1, <2>2, <2>5, <3>1, MoveServed DEF OpenInput, Points
  <2> QED
    BY <1>4, <2>3, <2>4, <2>5
<1>5. ASSUME NEW c \in Clients, QueryDone(c) \/ CloseAll(c) PROVE ServedInv'
  <2>1. c \in Threads /\ c # "tcp_sync_server"
    BY <1>c DEF Servers
  <2>2. \A u \in Threads : u # c => has'[u] = has[u]
    BY <1>5, <1>h DEF QueryDone, CloseAll, Release
  <2>3. CASE QueryDone(c)
    BY <1>1, <2>1, <2>2, <2>3, MoveServed DEF QueryDone, Points
  <2>4. CASE CloseAll(c)
    <3>1. lost' = lost
      <4>1. has[c] = {"socket", "file"}
        BY <1>f, <2>4 DEF CloseAll, At
      <4>2. lost = FALSE
        BY <1>2 DEF TableInv, TypeOK
      <4> QED
        BY <2>4, <4>1, <4>2, Zenon DEF CloseAll
    <3> QED
      BY <1>1, <2>1, <2>2, <2>4, <3>1, MoveServed DEF CloseAll, Points
  <2> QED
    BY <1>5, <2>3, <2>4
<1>6. ASSUME NEW c \in Clients, Size(c) PROVE ServedInv'
  BY <1>1, <1>6, <1>c, <1>f, MoveServed DEF Size, At, Points, Servers
<1>7. ASSUME NEW c \in Clients, Report(c) PROVE ServedInv'
  BY <1>1, <1>2, <1>7 DEF Report, ServedInv
<1>8. ASSUME NEW c \in Clients, LastReport(c) PROVE ServedInv'
  BY <1>1, <1>2, <1>8, <1>c, <1>f, MoveServed DEF LastReport, At, Points, Servers
<1>9. ASSUME NEW s \in Servers, Accept(s) PROVE ServedInv'
  <2>1. s \in Threads /\ s \notin Clients
    BY <1>c
  <2>2. \A u \in Threads : u # s => has'[u] = has[u]
    BY <1>2, <1>9, <1>h DEF Accept, Acquire
  <2> QED
    BY <1>1, <1>2, <1>9, <2>1, <2>2, MoveServed DEF Accept, Points
<1>10. CASE OpenOutput
  <2> DEFINE s == "tcp_sync_server"
  <2>1. s \in Threads /\ s \notin Clients
    BY <1>c DEF Servers
  <2>2. "file" \in has'[s] /\ \A u \in Threads : u # s => has'[u] = has[u]
    BY <1>2, <1>10, <1>h, <2>1 DEF OpenOutput, Acquire
  <2> QED
    BY <1>1, <1>10, <2>1, <2>2, MoveServed DEF OpenOutput, Points
<1>11. CASE CloseOutput
  <2> DEFINE s == "tcp_sync_server"
  <2>1. s \in Threads /\ s \notin Clients
    BY <1>c DEF Servers
  <2>2. "file" \in has[s]
    BY <1>1, <1>11 DEF ServedInv, CloseOutput, At
  <2>3. \A u \in Threads : u # s => has'[u] = has[u]
    BY <1>11, <1>h, <2>2 DEF CloseOutput, Release
  <2> QED
    BY <1>1, <1>11, <2>1, <2>2, <2>3, MoveServed DEF CloseOutput, Points
<1>12. CASE Answer
  <2> DEFINE s == "peer_manange"
  <2>1. s \in Threads /\ s \notin Clients
    BY <1>c DEF Servers
  <2>2. \A u \in Threads : u # s => has'[u] = has[u]
    BY <1>12, <1>h DEF Answer, Release
  <2> QED
    BY <1>1, <1>12, <2>1, <2>2, MoveServed DEF Answer, Points
<1>13. CASE UNCHANGED vars
  BY <1>1, <1>13 DEF vars, ServedInv
<1> QED
  BY <1>3, <1>4, <1>5, <1>6, <1>7, <1>8, <1>9, <1>10, <1>11, <1>12, <1>13 DEF Next

\* With any number of clients: two descriptors each, and five more, are enough for
\* the daemon to live and to lose nothing.
THEOREM NobodyGoesShort == Spec => []PeakIsEnough
<1>1. ServedInv => PeakIsEnough
  BY DEF ServedInv, Enough, PeakIsEnough
<1> QED
  BY <1>1, InitServed, StepServed, TableAlways, PTL DEF Spec

================================================================================
