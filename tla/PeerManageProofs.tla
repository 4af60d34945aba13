---------------------------- MODULE PeerManageProofs ---------------------------
(******************************************************************************)
(* Theorems about PeerManage, for every set of ports and of askers, every     *)
(* backlog and any number of port assignments.                                *)
(******************************************************************************)
EXTENDS PeerManage, TLAPS

(* The queries. *)

Waiting(a) == apc[a] \in {"connected", "asked", "gone"}
Queued(a) == \E i \in DOMAIN backlog : backlog[i] = a

\* NobodyForgotten as implications, with the types: that an answer is a port
\* needs that the manager serves an asker, and not Nobody.
QueryInv ==
  /\ TypeOK
  /\ (mpc = "recv") <=> (cur # Nobody)
  /\ \A i, j \in DOMAIN backlog : backlog[i] = backlog[j] => i = j
  /\ \A a \in Askers : Waiting(a) => a = cur \/ Queued(a)
  /\ cur # Nobody => Waiting(cur)
  /\ \A a \in Askers : Queued(a) => Waiting(a) /\ a # cur

LEMMA InitQuery == Init => QueryInv
<1> SUFFICES ASSUME Init PROVE QueryInv
  OBVIOUS
<1>1. /\ port \in [Kind -> Port] /\ moves \in 0 .. MaxMoves
      /\ backlog \in Seq(Askers) /\ DOMAIN backlog = {}
  BY PortAssumption, BoundAssumption DEF Init, Kind
<1>2. /\ srvPort \in [Kind -> Port \cup {Unread}]
      /\ bound \in [Kind -> Port \cup {Unbound, Closed}]
      /\ mgrPort \in [Kind -> Port \cup {Unread}]
  BY DEF Init
<1>3. /\ apc \in [Askers -> {"idle", "connected", "asked", "gone", "told", "sending"}]
      /\ kind \in [Askers -> Kind]
      /\ answer \in [Askers -> Port \cup {Unread}]
      /\ reached \in [Askers -> {Nobody, "TCP", "UDP", "refused"}]
  BY DEF Init, Kind
<1>4. TypeOK
  BY <1>1, <1>2, <1>3 DEF Init, TypeOK
<1> QED
  BY <1>1, <1>4 DEF Init, QueryInv, Waiting, Queued

\* What leaves the manager and the waiting askers alone.
LEMMA KeepsQueries ==
  ASSUME QueryInv, TypeOK', UNCHANGED manager,
         \A a \in Askers : Waiting(a)' <=> Waiting(a)
  PROVE  QueryInv'
BY DEF QueryInv, manager, Queued, TypeOK

\* The three steps of a query through the backlog.
LEMMA ConnectQuery ==
  ASSUME QueryInv, NEW a \in Askers, NEW k \in Kind, Connect(a, k)
  PROVE  QueryInv'
<1>0. /\ backlog' \in Seq(Askers)
      /\ reached' \in [Askers -> {Nobody, "TCP", "UDP", "refused"}]
      /\ answer' \in [Askers -> Port \cup {Unread}]
      /\ kind' \in [Askers -> Kind]
      /\ apc' \in [Askers -> {"idle", "connected", "asked", "gone", "told", "sending"}]
  BY DEF QueryInv, TypeOK, Connect
<1>1. TypeOK'
  BY <1>0 DEF QueryInv, TypeOK, Connect, servers
<1>2. /\ backlog \in Seq(Askers) /\ a # cur /\ ~ Queued(a) /\ cur' = cur /\ mpc' = mpc
      /\ cur # Nobody => cur \in Askers
  BY AskerAssumption DEF QueryInv, TypeOK, Connect, Waiting
<1>3. /\ DOMAIN backlog' = 1 .. Len(backlog) + 1
      /\ DOMAIN backlog = 1 .. Len(backlog) /\ Len(backlog) \in Nat
      /\ backlog'[Len(backlog) + 1] = a
      /\ \A i \in 1 .. Len(backlog) : backlog'[i] = backlog[i]
  BY <1>2 DEF Connect
<1>4. \A b \in Askers : Queued(b)' <=> b = a \/ Queued(b)
  BY <1>3 DEF Queued
<1>5. \A b \in Askers : Waiting(b)' <=> b = a \/ Waiting(b)
  BY DEF Connect, Waiting, QueryInv, TypeOK
<1>6. \A i, j \in DOMAIN backlog' : backlog'[i] = backlog'[j] => i = j
  BY <1>2, <1>3 DEF Queued, QueryInv
<1> QED
  BY <1>1, <1>2, <1>4, <1>5, <1>6 DEF QueryInv, Waiting

LEMMA AcceptQuery ==
  ASSUME QueryInv, Accept
  PROVE  QueryInv'
<1>1. /\ backlog \in Seq(Askers) /\ backlog # << >> /\ cur = Nobody /\ apc' = apc
  BY DEF QueryInv, TypeOK, Accept, askers
<1>2. /\ Len(backlog) \in Nat \ {0} /\ DOMAIN backlog = 1 .. Len(backlog)
      /\ DOMAIN backlog' = 1 .. Len(backlog) - 1
      /\ cur' = backlog[1]
      /\ \A i \in 1 .. Len(backlog) - 1 : backlog'[i] = backlog[i + 1]
  BY <1>1 DEF Accept
<1>3. cur' \in Askers /\ Queued(cur') /\ cur' # Nobody
  BY <1>1, <1>2, AskerAssumption DEF Queued
<1>4. TypeOK'
  BY <1>1, <1>3 DEF QueryInv, TypeOK, Accept, servers, askers
<1>5. \A b \in Askers : Queued(b)' <=> Queued(b) /\ b # cur'
  <2> TAKE b \in Askers
  <2>1. ASSUME Queued(b)' PROVE Queued(b) /\ b # cur'
    <3>1. PICK i \in 1 .. Len(backlog) - 1 : backlog[i + 1] = b
      BY <1>2, <2>1 DEF Queued
    <3>2. i + 1 \in DOMAIN backlog /\ 1 \in DOMAIN backlog /\ i + 1 # 1
      BY <1>2, <3>1
    <3> QED
      BY <1>2, <3>1, <3>2 DEF Queued, QueryInv
  <2>2. ASSUME Queued(b), b # cur' PROVE Queued(b)'
    <3>1. PICK i \in DOMAIN backlog : backlog[i] = b
      BY <2>2 DEF Queued
    <3>2. i # 1
      BY <1>2, <2>2, <3>1
    <3>3. i - 1 \in DOMAIN backlog' /\ backlog'[i - 1] = b
      BY <1>2, <3>1, <3>2
    <3> QED
      BY <3>3 DEF Queued
  <2> QED
    BY <2>1, <2>2
<1>6. \A i, j \in DOMAIN backlog' : backlog'[i] = backlog'[j] => i = j
  <2> TAKE i, j \in DOMAIN backlog'
  <2> HAVE backlog'[i] = backlog'[j]
  <2>1. /\ i + 1 \in DOMAIN backlog /\ j + 1 \in DOMAIN backlog
        /\ backlog[i + 1] = backlog[j + 1]
    BY <1>2
  <2>2. i + 1 = j + 1
    BY <2>1 DEF QueryInv
  <2> QED
    BY <1>2, <2>2
<1>7. mpc' = "recv"
  BY DEF Accept
<1>8. \A b \in Askers : Waiting(b)' <=> Waiting(b)
  BY <1>1 DEF Waiting
<1>9. apc'[cur'] \in {"connected", "asked", "gone"}
  BY <1>1, <1>3 DEF QueryInv, Waiting
<1>10. \A b \in Askers : Waiting(b)' => b = cur' \/ Queued(b)'
  BY <1>1, <1>5, <1>8, AskerAssumption DEF QueryInv
<1>11. \A b \in Askers : Queued(b)' => Waiting(b)' /\ b # cur'
  BY <1>5, <1>8 DEF QueryInv
<1> QED
  BY <1>3, <1>4, <1>6, <1>7, <1>9, <1>10, <1>11 DEF QueryInv, Waiting

LEMMA AnswerQuery ==
  ASSUME QueryInv, Answer
  PROVE  QueryInv'
<1>1. cur \in Askers /\ cur # Nobody
  BY DEF QueryInv, TypeOK, Answer
<1>2. TypeOK'
  <2>1. answer' \in [Askers -> Port \cup {Unread}]
    BY <1>1 DEF QueryInv, TypeOK, Answer
  <2>2. apc' \in [Askers -> {"idle", "connected", "asked", "gone", "told", "sending"}]
    BY <1>1 DEF QueryInv, TypeOK, Answer
  <2>3. late' \in Nat
    BY DEF QueryInv, TypeOK, Answer
  <2> QED
    BY <2>1, <2>2, <2>3 DEF QueryInv, TypeOK, Answer, servers
<1>3. /\ apc'[cur] \in {"told", "idle"}
      /\ \A b \in Askers \ {cur} : apc'[b] = apc[b]
  BY <1>1 DEF QueryInv, TypeOK, Answer
<1>4. \A b \in Askers : Waiting(b)' <=> Waiting(b) /\ b # cur
  BY <1>3 DEF Waiting
<1>5. cur' = Nobody /\ mpc' = "top" /\ backlog' = backlog
  BY DEF Answer
<1> QED
  BY <1>2, <1>4, <1>5, AskerAssumption DEF QueryInv, Queued

LEMMA StepQuery == QueryInv /\ [Next]_vars => QueryInv'
<1> SUFFICES ASSUME QueryInv, [Next]_vars PROVE QueryInv'
  OBVIOUS
<1>t. TypeOK
  BY DEF QueryInv
<1>1. ASSUME NEW k \in Kind, NEW p \in Port, MovePort(k, p) PROVE QueryInv'
  <2>1. TypeOK'
    BY <1>1, <1>t, BoundAssumption DEF TypeOK, MovePort, servers, manager, askers
  <2> QED
    BY <1>1, <2>1, KeepsQueries DEF MovePort, askers, Waiting
<1>2. ASSUME NEW k \in Kind, ReadPort(k) PROVE QueryInv'
  <2>1. TypeOK'
    BY <1>2, <1>t DEF TypeOK, ReadPort, manager, askers
  <2> QED
    BY <1>2, <2>1, KeepsQueries DEF ReadPort, askers, Waiting
<1>3. ASSUME NEW k \in Kind, Bind(k) PROVE QueryInv'
  <2>1. TypeOK'
    BY <1>3, <1>t DEF TypeOK, Bind, manager, askers
  <2> QED
    BY <1>3, <2>1, KeepsQueries DEF Bind, askers, Waiting
<1>4. CASE ReadPorts
  <2>1. TypeOK'
    BY <1>4, <1>t DEF TypeOK, ReadPorts, servers, askers
  <2> QED
    BY <1>4, <2>1 DEF QueryInv, ReadPorts, askers, Waiting, Queued
<1>5. ASSUME NEW a \in Askers, Ask(a) \/ AskerDies(a) PROVE QueryInv'
  <2>1. TypeOK'
    BY <1>5, <1>t DEF TypeOK, Ask, AskerDies, servers, manager
  <2>2. \A b \in Askers : Waiting(b)' <=> Waiting(b)
    BY <1>5, <1>t DEF TypeOK, Ask, AskerDies, Waiting
  <2> QED
    BY <1>5, <2>1, <2>2, KeepsQueries DEF Ask, AskerDies
<1>6. ASSUME NEW a \in Askers, Dial(a) PROVE QueryInv'
  <2>1. reached' \in [Askers -> {Nobody, "TCP", "UDP", "refused"}]
    BY <1>6, <1>t DEF TypeOK, Dial, Kind
  <2>2. TypeOK'
    BY <1>6, <1>t, <2>1 DEF TypeOK, Dial, servers, manager
  <2>3. \A b \in Askers : Waiting(b)' <=> Waiting(b)
    BY <1>6, <1>t DEF TypeOK, Dial, Waiting
  <2> QED
    BY <1>6, <2>2, <2>3, KeepsQueries DEF Dial
<1>7. ASSUME NEW a \in Askers, ServingStray(a) PROVE QueryInv'
  <2>1. apc' \in [Askers -> {"idle", "connected", "asked", "gone", "told", "sending"}]
    BY <1>7, <1>t DEF TypeOK, ServingStray, ServeUnknown, ServeFile, ServeQuit, askers
  <2>2. bound' \in [Kind -> Port \cup {Unbound, Closed}]
    BY <1>7, <1>t DEF TypeOK, ServingStray, ServeUnknown, ServeFile, ServeQuit, servers
  <2>3. TypeOK'
    BY <1>7, <1>t, <2>1, <2>2
       DEF TypeOK, ServingStray, ServeUnknown, ServeFile, ServeQuit, servers, manager, askers
  <2>4. \A b \in Askers : Waiting(b)' <=> Waiting(b)
    BY <1>7, <1>t
       DEF TypeOK, ServingStray, Stray, ServeUnknown, ServeFile, ServeQuit, askers, Waiting
  <2> QED
    BY <1>7, <2>3, <2>4, KeepsQueries DEF ServingStray, ServeUnknown, ServeFile, ServeQuit
<1>8. CASE UNCHANGED vars
  BY <1>8, <1>t DEF QueryInv, TypeOK, vars, servers, manager, askers, Waiting, Queued
<1> QED
  BY <1>1, <1>2, <1>3, <1>4, <1>5, <1>6, <1>7, <1>8, ConnectQuery, AcceptQuery, AnswerQuery
     DEF Next, Starting, Serving

LEMMA QueryAlways == Spec => []QueryInv
BY InitQuery, StepQuery, PTL DEF Spec

\* Every reachable state has its type.
THEOREM PortsTypeCorrect == Spec => []TypeOK
<1>1. QueryInv => TypeOK
  BY DEF QueryInv
<1> QED
  BY <1>1, QueryAlways, PTL

\* peer_manange loses no query and mixes none up, with any number of askers.
THEOREM QueriesKept == Spec => []NobodyForgotten
<1>1. QueryInv => NobodyForgotten
  <2> SUFFICES ASSUME QueryInv PROVE NobodyForgotten
    OBVIOUS
  <2>1. ASSUME NEW a \in Askers
        PROVE  apc[a] \in {"connected", "asked", "gone"}
                 <=> (a = cur) # (\E i \in DOMAIN backlog : backlog[i] = a)
    <3>1. Waiting(a) <=> a = cur \/ Queued(a)
      BY AskerAssumption DEF QueryInv
    <3>2. ~ (a = cur /\ Queued(a))
      BY DEF QueryInv
    <3>3. CASE a = cur
      BY <3>1, <3>2, <3>3 DEF Waiting, Queued
    <3>4. CASE a # cur
      BY <3>1, <3>4 DEF Waiting, Queued
    <3> QED
      BY <3>3, <3>4
  <2> QED
    BY <2>1 DEF QueryInv, NobodyForgotten
<1> QED
  BY <1>1, QueryAlways, PTL

--------------------------------------------------------------------------------
(* The answers. *)

\* Once the manager has given a late answer it is back at the top, where it reads
\* the ports anew; before that it holds the current port, or has given none.
LateInv ==
  /\ late \in {0, 1}
  /\ mpc # "top" /\ mgrPort["TCP"] # port["TCP"] => late = 0

LEMMA InitLate == Init => LateInv
BY DEF Init, LateInv

LEMMA StepLate == TypeOK /\ LateInv /\ [Next]_vars => LateInv'
<1> SUFFICES ASSUME TypeOK, LateInv, [Next]_vars PROVE LateInv'
  OBVIOUS
<1>1. ASSUME NEW k \in Kind, NEW p \in Port, MovePort(k, p) PROVE LateInv'
  <2>1. port'["TCP"] = IF k = "TCP" THEN p ELSE port["TCP"]
    BY <1>1 DEF TypeOK, MovePort, Kind
  <2> QED
    BY <1>1, <2>1 DEF LateInv, MovePort, manager
<1>2. CASE ReadPorts
  BY <1>2 DEF LateInv, ReadPorts
<1>3. CASE Accept
  BY <1>3 DEF LateInv, Accept
<1>4. CASE Answer
  BY <1>4 DEF LateInv, Answer
<1>5. CASE UNCHANGED <<port, late, mpc, mgrPort>>
  BY <1>5 DEF LateInv
<1>6. ASSUME NEW k \in Kind, Starting(k) PROVE UNCHANGED <<port, late, mpc, mgrPort>>
  BY <1>6 DEF Starting, ReadPort, Bind, manager
<1>7. ASSUME NEW a \in Askers, \/ \E k \in Kind : Connect(a, k)
                               \/ Ask(a) \/ AskerDies(a) \/ Dial(a)
      PROVE  UNCHANGED <<port, late, mpc, mgrPort>>
  BY <1>7 DEF Connect, Ask, AskerDies, Dial, manager
<1>8. ASSUME NEW a \in Askers, ServingStray(a) PROVE UNCHANGED <<port, late, mpc, mgrPort>>
  BY <1>8 DEF ServingStray, ServeUnknown, ServeFile, ServeQuit, manager
<1>9. ASSUME UNCHANGED vars PROVE UNCHANGED <<port, late, mpc, mgrPort>>
  BY <1>9 DEF vars, manager
<1> QED
  BY <1>1, <1>2, <1>3, <1>4, <1>5, <1>6, <1>7, <1>8, <1>9 DEF Next, Serving

\* After a change of the TCP port at most one answer names the old one, however
\* many askers there are and whatever is in the backlog.
THEOREM OnlyOneIsLate == Spec => []OneLateAnswer
<1>1. LateInv => OneLateAnswer
  BY DEF LateInv, OneLateAnswer
<1> QED
  BY <1>1, InitLate, StepLate, PortsTypeCorrect, PTL DEF Spec

--------------------------------------------------------------------------------
(* A daemon whose ports are not moved. *)

\* Everybody's copy of a port is the one startDaemon set, or not yet read; so
\* nobody is sent to the UDP server, and both servers find their ports free.
UnmovedInv ==
  moves = 0 =>
    /\ up
    /\ port["TCP"] = TCP_PORT /\ port["UDP"] = UDP_PORT
    /\ \A k \in Kind : srvPort[k] \in {Unread, port[k]} /\ bound[k] \in {Unbound, port[k]}
    /\ mpc # "top" => mgrPort = port
    /\ \A a \in Askers : /\ apc[a] # "sending"
                         /\ apc[a] = "told" => answer[a] = port[kind[a]]

LEMMA PortFacts ==
  /\ Unread \notin Port /\ Unbound \notin Port /\ Closed \notin Port
  /\ TCP_PORT \in Port /\ UDP_PORT \in Port /\ TCP_PORT # UDP_PORT
BY PortAssumption DEF Unread, Unbound, Closed

LEMMA InitUnmoved == Init => UnmovedInv
BY DEF Init, UnmovedInv, Kind

LEMMA StepUnmoved == QueryInv /\ UnmovedInv /\ [Next]_vars => UnmovedInv'
<1> SUFFICES ASSUME QueryInv, UnmovedInv, [Next]_vars, moves' = 0 PROVE UnmovedInv'
  BY DEF UnmovedInv
<1>t. TypeOK
  BY DEF QueryInv
<1>1. ASSUME NEW k \in Kind, NEW p \in Port, MovePort(k, p) PROVE FALSE
  BY <1>1, <1>t DEF MovePort, TypeOK
<1>2. ASSUME NEW k \in Kind, ReadPort(k) PROVE UnmovedInv'
  <2>1. \A j \in Kind : srvPort'[j] = IF j = k THEN port[k] ELSE srvPort[j]
    BY <1>2, <1>t DEF ReadPort, TypeOK
  <2> QED
    BY <1>2, <2>1 DEF UnmovedInv, ReadPort, manager, askers
<1>3. ASSUME NEW k \in Kind, Bind(k) PROVE UnmovedInv'
  <2>0. moves = 0 /\ srvPort[k] = port[k]
    BY <1>3 DEF UnmovedInv, Bind
  <2>1. ~ \E j \in Kind : bound[j] = srvPort[k]
    BY <1>3, <2>0, PortFacts DEF UnmovedInv, Bind, Kind
  <2>2. up' = up /\ \A j \in Kind : bound'[j] = IF j = k THEN srvPort[k] ELSE bound[j]
    BY <1>3, <1>t, <2>1 DEF Bind, TypeOK
  <2> QED
    BY <1>3, <2>0, <2>2 DEF UnmovedInv, Bind, manager, askers
<1>4. CASE ReadPorts
  BY <1>4 DEF UnmovedInv, ReadPorts, servers, askers
<1>5. CASE Accept
  BY <1>5 DEF UnmovedInv, Accept, servers, askers
<1>6. CASE Answer
  <2>1. cur \in Askers
    BY <1>6 DEF QueryInv, TypeOK, Answer
  <2>2. \A a \in Askers : /\ a # cur => apc'[a] = apc[a] /\ answer'[a] = answer[a]
                          /\ apc'[cur] = "told" => answer'[cur] = mgrPort[kind[cur]]
                          /\ apc'[cur] # "sending"
    BY <1>6, <1>t, <2>1 DEF Answer, TypeOK
  <2>3. moves = 0 /\ mgrPort = port
    BY <1>6 DEF UnmovedInv, Answer
  <2>4. kind' = kind /\ port' = port /\ up' = up /\ mpc' = "top"
        /\ UNCHANGED <<srvPort, bound>>
    BY <1>6 DEF Answer, servers
  <2> QED
    BY <2>2, <2>3, <2>4 DEF UnmovedInv
<1>7. ASSUME NEW a \in Askers, NEW k \in Kind, Connect(a, k) PROVE UnmovedInv'
  <2>1. \A b \in Askers : /\ b # a => /\ apc'[b] = apc[b] /\ answer'[b] = answer[b]
                                      /\ kind'[b] = kind[b]
                          /\ apc'[a] = "connected"
    BY <1>7, <1>t DEF Connect, TypeOK
  <2> QED
    BY <1>7, <2>1 DEF UnmovedInv, Connect, servers
<1>8. ASSUME NEW a \in Askers, Ask(a) \/ AskerDies(a) PROVE UnmovedInv'
  <2>1. \A b \in Askers : /\ b # a => apc'[b] = apc[b]
                          /\ apc'[a] \in {"asked", "gone"}
    BY <1>8, <1>t DEF Ask, AskerDies, TypeOK
  <2> QED
    BY <1>8, <2>1 DEF UnmovedInv, Ask, AskerDies, servers, manager
<1>9. ASSUME NEW a \in Askers, Dial(a) PROVE UnmovedInv'
  <2>0. moves = 0 /\ answer[a] = port[kind[a]] /\ bound["UDP"] \in {Unbound, UDP_PORT}
    BY <1>9 DEF UnmovedInv, Dial, Kind
  <2>1. kind[a] = "TCP" => bound["UDP"] # answer[a]
    BY <2>0, <1>9, PortFacts DEF UnmovedInv, Dial
  <2>2. reached'[a] # "UDP"
    <3>1. CASE kind[a] = "UDP"
      BY <1>9, <1>t, <3>1, AskerAssumption DEF Dial, TypeOK
    <3>2. CASE kind[a] = "TCP"
      BY <1>9, <1>t, <2>1, <3>2 DEF Dial, TypeOK
    <3> QED
      BY <1>t, <3>1, <3>2 DEF TypeOK, Kind
  <2>3. \A b \in Askers : /\ b # a => apc'[b] = apc[b]
                          /\ apc'[a] = "idle"
    BY <1>9, <1>t, <2>2 DEF Dial, TypeOK
  <2> QED
    BY <1>9, <2>3 DEF UnmovedInv, Dial, servers, manager
<1>10. ASSUME NEW a \in Askers, ServingStray(a) PROVE FALSE
  BY <1>10 DEF UnmovedInv, ServingStray, ServeUnknown, ServeFile, ServeQuit, Stray
<1>11. CASE UNCHANGED vars
  BY <1>11 DEF UnmovedInv, vars, servers, manager, askers
<1> QED
  BY <1>1, <1>2, <1>3, <1>4, <1>5, <1>6, <1>7, <1>8, <1>9, <1>10, <1>11
     DEF Next, Starting, Serving

LEMMA UnmovedAlways == Spec => []UnmovedInv
BY InitUnmoved, StepUnmoved, QueryAlways, PTL DEF Spec

\* No number of other daemons, and no order of this one's threads, ends a daemon
\* whose ports the GUI has not moved.
THEOREM UnmovedStaysUp == Spec => []UnmovedDaemonLives
<1>1. UnmovedInv => UnmovedDaemonLives
  BY DEF UnmovedInv, UnmovedDaemonLives
<1> QED
  BY <1>1, UnmovedAlways, PTL

\* The same invariant, for the connection that follows an answer: only Dial takes
\* an asker from "told", and the TCP server is bound to what it was told.
LEMMA DialReaches ==
  ASSUME QueryInv, UnmovedInv, [Next]_vars, NEW a \in Askers,
         moves = 0, bound["TCP"] # Unbound, kind[a] = "TCP", apc[a] = "told", apc'[a] # "told"
  PROVE  reached'[a] = "TCP"
<1>t. TypeOK
  BY DEF QueryInv
<1>1. CASE Dial(a)
  <2>1. bound["TCP"] = answer[a] /\ bound["UDP"] # answer[a]
    BY PortFacts DEF UnmovedInv, Kind
  <2> QED
    BY <1>1, <1>t, <2>1 DEF Dial, TypeOK
<1>2. ASSUME NEW b \in Askers, b # a,
             (\E k \in Kind : Connect(b, k)) \/ Ask(b) \/ AskerDies(b) \/ Dial(b)
      PROVE  FALSE
  BY <1>2, <1>t DEF Connect, Ask, AskerDies, Dial, TypeOK
<1>3. ASSUME (\E k \in Kind : Connect(a, k)) \/ Ask(a) \/ AskerDies(a) PROVE FALSE
  BY <1>3 DEF Connect, Ask, AskerDies
<1>4. ASSUME NEW b \in Askers, ServingStray(b) PROVE FALSE
  BY <1>4 DEF UnmovedInv, ServingStray, ServeUnknown, ServeFile, ServeQuit, Stray
<1>5. ASSUME Answer PROVE FALSE
  <2>1. cur \in Askers /\ cur # a
    BY <1>5 DEF QueryInv, TypeOK, Answer
  <2> QED
    BY <1>5, <1>t, <2>1 DEF Answer, TypeOK
<1>6. ASSUME ReadPorts \/ Accept \/ UNCHANGED vars PROVE FALSE
  BY <1>6 DEF ReadPorts, Accept, vars, askers
<1>7. ASSUME NEW k \in Kind, Starting(k) \/ \E p \in Port : MovePort(k, p) PROVE FALSE
  BY <1>7 DEF Starting, ReadPort, Bind, MovePort, askers
<1> QED
  BY <1>1, <1>2, <1>3, <1>4, <1>5, <1>6, <1>7 DEF Next, Serving

\* While no port was moved, a file connection made once the TCP server is bound
\* reaches it, through two separate reads of the port and the network between.
THEOREM UnmovedIsServed == Spec => UnmovedPortIsServed
<1>1. QueryInv /\ UnmovedInv /\ [Next]_vars
      => [\A a \in Askers :
            /\ moves = 0 /\ bound["TCP"] # Unbound
            /\ kind[a] = "TCP" /\ apc[a] = "told" /\ apc'[a] # "told"
            => reached'[a] = "TCP"]_vars
  BY DialReaches
<1> QED
  BY <1>1, QueryAlways, UnmovedAlways, PTL DEF Spec, UnmovedPortIsServed

================================================================================
