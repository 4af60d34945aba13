--------------------------- MODULE FileTransferProofs --------------------------
(******************************************************************************)
(* Theorems about FileTransfer, for every set of nodes, names and home        *)
(* directories, every size of the buffers and of the backlog, and any number  *)
(* of transfers and of kills; and about SyncNetwork, which takes its steps    *)
(* from FileTransfer, for every set of origins and versions too.  In order:   *)
(*   - ConnInv, where each connection is: the name arrives whole;             *)
(*   - what NonNul computes, by induction over the length of its argument;    *)
(*   - StreamInv, what was written and what was read: the copy is faithful;   *)
(*   - NetInv, in the network, who sends what: there is no way back;          *)
(*   - SyncInv, whose turn it is: no version is lost.                         *)
(******************************************************************************)
EXTENDS SyncNetwork, FiniteSetTheorems, SequenceTheorems, WellFoundedInduction, TLAPS

\* The state is made of functions and records with these fields.
Shape ==
  /\ DOMAIN up = Node /\ DOMAIN xfer = Transfer /\ DOMAIN srv = Node
  /\ \A t \in Transfer : DOMAIN xfer[t] = {"from", "to", "name", "at", "pos", "out", "ok",
                                           "wrote", "src", "stable"}
  /\ \A n \in Node : DOMAIN srv[n] = {"at", "cur", "path", "got", "backlog"}

Waits(n, t) == \E i \in DOMAIN srv[n].backlog : srv[n].backlog[i] = t

\* A connection of which server n has read nothing: the stream holds the name, the
\* whole name and nothing else; or nothing yet.
Fresh(n, t) ==
  /\ xfer[t].to = n /\ xfer[t].from \in Node /\ xfer[t].name \in Name
  /\ ~ xfer[t].ok
  /\ \/ xfer[t].at = "name" /\ xfer[t].out = << >>
     \/ xfer[t].at = "await" /\ xfer[t].out = xfer[t].name

\* A connection from which server n has read a name.
Named(n, t) ==
  /\ xfer[t].to = n /\ xfer[t].from \in Node /\ xfer[t].at # "unused"
  /\ xfer[t].name # << >> /\ Len(xfer[t].name) < NAMEBUF =>
       \/ srv[n].path = xfer[t].name
       \/ srv[n].path = << >> /\ ~ up[xfer[t].from]

\* The connections of a server: each in one place, in the state that goes with it.
Connections(n) ==
  /\ srv[n].at \in {"accept", "name", "reply", "open", "body"}
  /\ srv[n].backlog \in Seq(Transfer)
  /\ \A i, j \in DOMAIN srv[n].backlog : srv[n].backlog[i] = srv[n].backlog[j] => i = j
  /\ \A t \in Transfer : Waits(n, t) => Fresh(n, t)
  /\ srv[n].at # "accept" => srv[n].cur \in Transfer /\ ~ Waits(n, srv[n].cur)
  /\ srv[n].at = "name" => Fresh(n, srv[n].cur)
  /\ srv[n].at \in {"reply", "open", "body"} => Named(n, srv[n].cur)

\* Of a daemon that has ended nothing is known: what its structures say about a
\* transfer may be about an earlier one.
ConnInv == Shape /\ \A n \in Node : up[n] => Connections(n)

LEMMA InitConn == Init => ConnInv
<1> SUFFICES ASSUME Init PROVE ConnInv
  OBVIOUS
<1>1. Shape
  BY DEF Init, Shape, NoTransfer, IdleServer
<1>2. ASSUME NEW n \in Node PROVE Connections(n)
  <2>1. srv[n] = IdleServer
    BY DEF Init
  <2>2. << >> \in Seq(Transfer) /\ DOMAIN << >> = {}
    OBVIOUS
  <2> QED
    BY <2>1, <2>2 DEF Connections, Waits, IdleServer
<1> QED
  BY <1>1, <1>2 DEF ConnInv

\* The elements of a sequence that gets one more, and of one that loses its first.
In(s, e) == \E i \in DOMAIN s : s[i] = e
NoTwice(s) == \A i, j \in DOMAIN s : s[i] = s[j] => i = j

\* Three sequences one behind the other are a sequence, in whichever order they are put together.
LEMMA Regroup ==
  ASSUME NEW B
  PROVE  \A p, q, r \in Seq(B) : (p \o q) \o r = p \o (q \o r) /\ q \o r \in Seq(B)
  BY ConcatAssociative, ConcatProperties, SMTT(30)

LEMMA AppendFacts ==
  ASSUME NEW S, NEW s \in Seq(S), NEW e \in S
  PROVE  /\ Append(s, e) \in Seq(S)
         /\ \A u : In(Append(s, e), u) <=> u = e \/ In(s, u)
         /\ NoTwice(s) /\ ~ In(s, e) => NoTwice(Append(s, e))
<1> DEFINE r == Append(s, e)
<1>1. /\ r \in Seq(S) /\ Len(s) \in Nat
      /\ DOMAIN r = 1 .. Len(s) + 1 /\ DOMAIN s = 1 .. Len(s)
      /\ r[Len(s) + 1] = e /\ \A i \in 1 .. Len(s) : r[i] = s[i]
  OBVIOUS
<1> HIDE DEF r
<1>2. \A u : In(r, u) <=> u = e \/ In(s, u)
  BY <1>1 DEF In
<1>3. NoTwice(s) /\ ~ In(s, e) => NoTwice(r)
  BY <1>1 DEF In, NoTwice
<1> QED
  BY <1>1, <1>2, <1>3 DEF r

LEMMA TailFacts ==
  ASSUME NEW S, NEW s \in Seq(S), s # << >>, NoTwice(s)
  PROVE  /\ Tail(s) \in Seq(S) /\ Head(s) \in S /\ In(s, Head(s))
         /\ ~ In(Tail(s), Head(s))
         /\ \A u : In(Tail(s), u) => In(s, u)
         /\ NoTwice(Tail(s))
<1> DEFINE r == Tail(s)
<1>1. /\ r \in Seq(S) /\ Len(s) \in Nat \ {0} /\ Head(s) \in S /\ Head(s) = s[1]
      /\ DOMAIN r = 1 .. Len(s) - 1 /\ DOMAIN s = 1 .. Len(s)
      /\ \A i \in 1 .. Len(s) - 1 : r[i] = s[i + 1]
  OBVIOUS
<1> HIDE DEF r
<1>2. \A i \in DOMAIN r : i + 1 \in DOMAIN s /\ i + 1 # 1 /\ 1 \in DOMAIN s
  BY <1>1
<1>3. In(s, Head(s)) /\ \A u : In(r, u) => In(s, u)
  BY <1>1, <1>2 DEF In
<1>4. ~ In(r, Head(s))
  BY <1>1, <1>2 DEF In, NoTwice
<1>5. NoTwice(r)
  <2> SUFFICES ASSUME NEW i \in DOMAIN r, NEW j \in DOMAIN r, r[i] = r[j] PROVE i = j
    BY DEF NoTwice
  <2>1. i + 1 = j + 1
    BY <1>1, <1>2 DEF NoTwice
  <2> QED
    BY <1>1, <2>1
<1> QED
  BY <1>1, <1>3, <1>4, <1>5 DEF r

\* Store marks transfers as unstable, and does no more to them.
LEMMA StoreKeeps ==
  ASSUME NEW n, NEW p, NEW content, NEW x, Store(n, p, content, x),
         DOMAIN x = Transfer,
         \A t \in Transfer : DOMAIN x[t] = {"from", "to", "name", "at", "pos", "out", "ok",
                                            "wrote", "src", "stable"}
  PROVE  /\ DOMAIN xfer' = Transfer
         /\ \A t \in Transfer :
              /\ DOMAIN xfer'[t] = DOMAIN x[t]
              /\ \A k \in DOMAIN x[t] \ {"stable"} : xfer'[t][k] = x[t][k]
BY DEF Store

\* What a step leaves alone that neither server n nor the client of any of its
\* connections takes.
Untouched(n, t) ==
  /\ xfer'[t].to = xfer[t].to /\ xfer'[t].from = xfer[t].from
  /\ xfer'[t].name = xfer[t].name
  /\ Fresh(n, t) => Fresh(n, t)'
  /\ xfer[t].at # "unused" => xfer'[t].at # "unused"

LEMMA KeepsConnections ==
  ASSUME ConnInv, Shape', NEW n \in Node, up[n], srv'[n] = srv[n],
         \A m \in Node : up'[m] => up[m],
         \A t \in Transfer : xfer[t].to = n /\ xfer[t].at # "unused" => Untouched(n, t)
  PROVE  Connections(n)'
<1>1. Connections(n)
  BY DEF ConnInv
<1>2. \A t \in Transfer : Waits(n, t)' <=> Waits(n, t)
  BY DEF Waits
<1>3. \A t \in Transfer : Fresh(n, t) => Fresh(n, t)'
  BY DEF Untouched, Fresh
<1>4. \A t \in Transfer : Named(n, t) => Named(n, t)'
  BY DEF Untouched, Named
<1> QED
  BY <1>1, <1>2, <1>3, <1>4 DEF Connections, Waits

--------------------------------------------------------------------------------
(* The client's steps. *)

LEMMA DialConn ==
  ASSUME ConnInv, NEW t \in Transfer, NEW n \in Node, NEW m \in Node, NEW f \in Name,
         Dial(t, n, m, f)
  PROVE  ConnInv'
<1>1. CASE ~ up[m]
  <2>1. Exit(n) /\ srv' = srv /\ xfer' = xfer
    BY <1>1 DEF Dial
  <2>2. Shape' /\ \A k \in Node : up'[k] => up[k]
    BY <2>1 DEF ConnInv, Shape, Exit
  <2>3. \A k \in Node, u \in Transfer : Untouched(k, u)
    BY <2>1 DEF Untouched, Fresh
  <2> QED
    BY <2>1, <2>2, <2>3, KeepsConnections DEF ConnInv
<1>2. CASE up[m]
  <2>0. Shape /\ xfer[t].at = "unused"
    BY DEF ConnInv, Dial
  <2>1. /\ up' = up
        /\ srv' = [srv EXCEPT ![m].backlog = Append(srv[m].backlog, t)]
        /\ xfer' = [xfer EXCEPT ![t] =
             [NoTransfer EXCEPT !.from = n, !.to = m, !.name = f, !.at = "name"]]
    BY <1>2 DEF Dial
  <2>2. /\ srv'[m].backlog = Append(srv[m].backlog, t)
        /\ srv'[m].at = srv[m].at /\ srv'[m].cur = srv[m].cur /\ srv'[m].path = srv[m].path
        /\ \A k \in Node : k # m => srv'[k] = srv[k]
    BY <2>0, <2>1 DEF Shape
  <2>3. /\ xfer'[t] = [NoTransfer EXCEPT !.from = n, !.to = m, !.name = f, !.at = "name"]
        /\ \A u \in Transfer : u # t => xfer'[u] = xfer[u]
    BY <2>0, <2>1 DEF Shape
  <2>4. Shape'
    BY <2>0, <2>1 DEF Shape, NoTransfer
  <2>5. ASSUME NEW k \in Node, up'[k], k # m PROVE Connections(k)'
    <3>1. \A u \in Transfer : xfer[u].to = k /\ xfer[u].at # "unused" => Untouched(k, u)
      BY <2>0, <2>3 DEF Untouched, Fresh
    <3> QED
      BY <2>1, <2>2, <2>4, <2>5, <3>1, KeepsConnections
  <2>6. Connections(m)'
    <3>1. Connections(m)
      BY <1>2 DEF ConnInv
    <3>2. Fresh(m, t)'
      BY <2>3 DEF Fresh, NoTransfer
    <3>3. ~ Waits(m, t) /\ (srv[m].at # "accept" => srv[m].cur # t)
      BY <2>0, <3>1 DEF Connections, Fresh, Named
    <3>4. srv'[m].backlog \in Seq(Transfer)
      BY <2>2, <3>1, AppendFacts DEF Connections
    <3>5. \A u \in Transfer : Waits(m, u)' <=> u = t \/ Waits(m, u)
      BY <2>2, <3>1, AppendFacts DEF Connections, Waits, In
    <3>6. NoTwice(srv'[m].backlog)
      <4>1. NoTwice(srv[m].backlog) /\ ~ In(srv[m].backlog, t)
        BY <3>1, <3>3 DEF Connections, Waits, NoTwice, In
      <4> QED
        BY <2>2, <3>1, <4>1, AppendFacts DEF Connections
    <3>7. \A u \in Transfer : u # t /\ Fresh(m, u) => Fresh(m, u)'
      BY <2>3 DEF Fresh
    <3>8. \A u \in Transfer : u # t /\ Named(m, u) => Named(m, u)'
      BY <2>1, <2>2, <2>3 DEF Named
    <3>9. srv'[m].at # "accept" => srv'[m].cur \in Transfer /\ ~ Waits(m, srv[m].cur)'
      BY <2>2, <3>1, <3>3, <3>5 DEF Connections
    <3> QED
      BY <2>2, <3>1, <3>2, <3>3, <3>4, <3>5, <3>6, <3>7, <3>8, <3>9 DEF Connections, Waits, NoTwice
  <2> QED
    BY <2>4, <2>5, <2>6 DEF ConnInv
<1> QED
  BY <1>1, <1>2

\* Write: the bytes reach the stream of a server that runs; otherwise its
\* structures do not matter any more.
LEMMA WriteConn ==
  ASSUME ConnInv, NEW t \in Transfer, NEW bytes, NEW x, Write(t, bytes, x), srv' = srv,
         DOMAIN x = DOMAIN xfer[t],
         x.to = xfer[t].to, x.from = xfer[t].from, x.name = xfer[t].name,
         xfer[t].at # "unused", x.at # "unused", x.out = xfer[t].out, x.ok = xfer[t].ok,
         up[x.to] /\ Fresh(x.to, t) =>
           x.at = "await" /\ x.out = << >> /\ bytes = x.name /\ x.name \in Name
  PROVE  ConnInv'
<1>0. Shape
  BY DEF ConnInv
<1>1. Shape' /\ \A k \in Node : up'[k] => up[k]
  BY <1>0 DEF Write, Exit, Shape
<1>2. ASSUME NEW k \in Node, up'[k], up[k], NEW u \in Transfer,
             xfer[u].to = k, xfer[u].at # "unused"
      PROVE  Untouched(k, u)
  <2>1. CASE u # t
    <3>1. xfer'[u] = xfer[u]
      BY <1>0, <2>1 DEF Write, Shape
    <3> QED
      BY <3>1 DEF Untouched, Fresh
  <2>2. CASE u = t
    <3>1. xfer'[t] = [x EXCEPT !.out = x.out \o bytes, !.wrote = x.wrote \o bytes]
      BY <1>0, <1>2, <2>2 DEF Write, Shape
    <3>2. /\ xfer'[t].to = x.to /\ xfer'[t].from = x.from /\ xfer'[t].name = x.name
          /\ xfer'[t].at = x.at /\ xfer'[t].ok = x.ok
          /\ xfer'[t].out = x.out \o bytes
      BY <1>0, <3>1 DEF Shape
    <3>3. Fresh(k, t) => << >> \o bytes = bytes
      BY <1>2, <2>2, NameAssumption
    <3> QED
      BY <1>2, <2>2, <3>2, <3>3, ZenonT(60) DEF Untouched, Fresh
  <2> QED
    BY <2>1, <2>2
<1> QED
  BY <1>1, <1>2, KeepsConnections DEF ConnInv

LEMMA ClientConn ==
  ASSUME ConnInv, NEW t \in Transfer, ClientStep(t)
  PROVE  ConnInv'
<1>0. Shape
  BY DEF ConnInv
<1>1. CASE SendName(t)
  <2> DEFINE x == [xfer[t] EXCEPT !.at = "await"]
  <2>1. /\ DOMAIN x = DOMAIN xfer[t] /\ x.to = xfer[t].to /\ x.from = xfer[t].from
        /\ x.name = xfer[t].name /\ x.at = "await" /\ x.out = xfer[t].out /\ x.ok = xfer[t].ok
    BY <1>0 DEF Shape
  <2>2. xfer[t].at = "name" /\ Write(t, xfer[t].name, x) /\ srv' = srv
    BY <1>1 DEF SendName
  <2>3. Fresh(x.to, t) => x.out = << >> /\ x.name \in Name
    BY <2>1, <2>2 DEF Fresh
  <2> HIDE DEF x
  <2> QED
    BY <2>1, <2>2, <2>3, WriteConn
<1>2. CASE SendChunk(t)
  <2> DEFINE x == [xfer[t] EXCEPT !.pos = xfer[t].pos + Len(Ahead(t))]
  <2>1. /\ DOMAIN x = DOMAIN xfer[t] /\ x.to = xfer[t].to /\ x.from = xfer[t].from
        /\ x.name = xfer[t].name /\ x.at = xfer[t].at /\ x.out = xfer[t].out /\ x.ok = xfer[t].ok
    BY <1>0 DEF Shape
  <2>2. xfer[t].at = "copy" /\ Write(t, Ahead(t), x) /\ srv' = srv
    BY <1>2 DEF SendChunk
  <2>3. ~ Fresh(x.to, t)
    BY <2>2 DEF Fresh
  <2> HIDE DEF x
  <2> QED
    BY <2>1, <2>2, <2>3, WriteConn
<1>3. CASE GetAnswer(t) \/ Finish(t)
  <2>1. up' = up /\ srv' = srv /\ xfer[t].at \in {"await", "copy"}
    BY <1>3 DEF GetAnswer, Finish
  <2>2. \/ xfer' = [xfer EXCEPT ![t] = Closed(xfer[t])]
        \/ \E f : xfer' = [xfer EXCEPT ![t].at = "copy", ![t].src = f]
    BY <1>3 DEF GetAnswer, Finish
  <2>3. Shape'
    BY <1>0, <2>1, <2>2 DEF Shape, Closed, NoTransfer
  <2>4. ASSUME NEW k \in Node, up[k], NEW u \in Transfer,
               xfer[u].to = k, xfer[u].at # "unused"
        PROVE  Untouched(k, u)
    <3>1. CASE u # t
      <4>1. xfer'[u] = xfer[u]
        BY <1>0, <2>2, <3>1 DEF Shape
      <4> QED
        BY <4>1 DEF Untouched, Fresh
    <3>2. CASE u = t
      <4>1. ~ Fresh(k, t)
        BY <1>3, <2>4, <3>2 DEF GetAnswer, Finish, Fresh
      <4>2. /\ xfer'[t].to = xfer[t].to /\ xfer'[t].from = xfer[t].from
            /\ xfer'[t].name = xfer[t].name /\ xfer'[t].at \in {"copy", "done"}
        BY <1>0, <2>2, <2>4, <3>2 DEF Shape, Closed
      <4> QED
        BY <3>2, <4>1, <4>2 DEF Untouched
    <3> QED
      BY <3>1, <3>2
  <2> QED
    BY <2>1, <2>3, <2>4, KeepsConnections DEF ConnInv
<1> QED
  BY <1>1, <1>2, <1>3 DEF ClientStep

--------------------------------------------------------------------------------
(* The server's steps. *)

\* A server that moves on, and does no harm to anybody else's connections.
LEMMA ServerConn ==
  ASSUME ConnInv, Shape', NEW n \in Node,
         \A k \in Node : up'[k] => up[k],
         \A k \in Node : k # n => srv'[k] = srv[k],
         \A k \in Node, u \in Transfer :
           k # n /\ xfer[u].to = k /\ xfer[u].at # "unused" => Untouched(k, u),
         up'[n] => Connections(n)'
  PROVE  ConnInv'
BY KeepsConnections DEF ConnInv

LEMMA AcceptConn ==
  ASSUME ConnInv, NEW n \in Node, Accept(n)
  PROVE  ConnInv'
<1>0. Shape /\ Connections(n) /\ srv[n].backlog # << >>
  BY DEF ConnInv, Accept, At
<1>1. /\ srv'[n] = [IdleServer EXCEPT !.at = "name", !.cur = Head(srv[n].backlog),
                                      !.backlog = Tail(srv[n].backlog)]
      /\ \A k \in Node : k # n => srv'[k] = srv[k]
      /\ up' = up /\ xfer' = xfer /\ DOMAIN srv' = Node
  BY <1>0 DEF Accept, Shape
<1>2. /\ srv'[n].at = "name" /\ srv'[n].cur = Head(srv[n].backlog)
      /\ srv'[n].backlog = Tail(srv[n].backlog)
  BY <1>1 DEF IdleServer
<1>3. Shape'
  BY <1>0, <1>1 DEF Shape, IdleServer
<1>4. \A k \in Node, u \in Transfer : Untouched(k, u)
  BY <1>1 DEF Untouched, Fresh
<1>5. \A u \in Transfer : Fresh(n, u)' <=> Fresh(n, u)
  BY <1>1 DEF Fresh
<1> DEFINE s == srv[n].backlog
<1>6. s \in Seq(Transfer) /\ s # << >> /\ NoTwice(s)
  BY <1>0 DEF Connections, NoTwice
<1>7. /\ Tail(s) \in Seq(Transfer) /\ Head(s) \in Transfer /\ In(s, Head(s))
      /\ ~ In(Tail(s), Head(s)) /\ NoTwice(Tail(s))
      /\ \A u : In(Tail(s), u) => In(s, u)
  BY <1>6, TailFacts
<1>8. \A u \in Transfer : In(s, u) => Fresh(n, u)
  BY <1>0 DEF Connections, Waits, In
<1>9. srv'[n].backlog \in Seq(Transfer) /\ NoTwice(srv'[n].backlog)
  BY <1>2, <1>7
<1>10. \A u \in Transfer : Waits(n, u)' <=> In(Tail(s), u)
  BY <1>2 DEF Waits, In
<1> HIDE DEF s
<1>11. Connections(n)'
  BY <1>2, <1>5, <1>7, <1>8, <1>9, <1>10 DEF Connections, NoTwice, s
<1> QED
  BY <1>1, <1>3, <1>4, <1>11, ServerConn

\* A step of server n that keeps its backlog and may take its connection a place
\* further; of the connection itself it changes what Named does not speak of.
LEMMA SameBacklog ==
  ASSUME NEW n \in Node, Connections(n),
         srv'[n].backlog = srv[n].backlog, srv'[n].cur = srv[n].cur,
         srv[n].at # "accept", srv'[n].at \in {"reply", "open", "body"},
         \A u \in Transfer : u # srv[n].cur /\ Fresh(n, u) => Fresh(n, u)',
         Named(n, srv[n].cur)'
  PROVE  Connections(n)'
BY DEF Connections, Waits

LEMMA RecvNameConn ==
  ASSUME ConnInv, NEW n \in Node, RecvName(n)
  PROVE  ConnInv'
<1> DEFINE t == srv[n].cur
<1>0. Shape /\ Connections(n) /\ srv[n].at = "name" /\ up[n]
  BY DEF ConnInv, RecvName, At
<1>1. t \in Transfer /\ Fresh(n, t)
  BY <1>0 DEF Connections
<1>2. /\ srv' = [srv EXCEPT ![n].at = "reply", ![n].path = Take(xfer[t].out, NAMEBUF)]
      /\ xfer' = [xfer EXCEPT ![t].out = Drop(xfer[t].out, NAMEBUF)]
      /\ xfer[t].out # << >> \/ Ended(t)
      /\ up' = up \/ Exit(n)
  BY DEF RecvName
<1>3. Shape' /\ \A k \in Node : up'[k] => up[k]
  BY <1>0, <1>1, <1>2 DEF Shape, Exit
<1>4. /\ srv'[n].at = "reply" /\ srv'[n].path = Take(xfer[t].out, NAMEBUF)
      /\ srv'[n].cur = t /\ srv'[n].backlog = srv[n].backlog
      /\ \A k \in Node : k # n => srv'[k] = srv[k]
  BY <1>0, <1>2 DEF Shape
<1>5. /\ xfer'[t].to = n /\ xfer'[t].from = xfer[t].from /\ xfer'[t].at = xfer[t].at
      /\ xfer'[t].name = xfer[t].name
      /\ \A u \in Transfer : u # t => xfer'[u] = xfer[u]
  BY <1>0, <1>1, <1>2 DEF Shape, Fresh
<1>6. \A u \in Transfer : u # t /\ Fresh(n, u) => Fresh(n, u)'
  BY <1>5 DEF Fresh
<1>7. \A k \in Node, u \in Transfer :
        k # n /\ xfer[u].to = k /\ xfer[u].at # "unused" => Untouched(k, u)
  BY <1>1, <1>5 DEF Untouched, Fresh
<1>8. Named(n, t)'
  <2>1. CASE xfer[t].at = "await"
    <3>1. ASSUME Len(xfer[t].name) < NAMEBUF
          PROVE  Take(xfer[t].name, NAMEBUF) = xfer[t].name
      <4>1. PICK S : xfer[t].name \in Seq(S)
        BY <1>1, NameAssumption DEF Fresh
      <4>2. Least(NAMEBUF, Len(xfer[t].name)) = Len(xfer[t].name)
        BY <3>1, <4>1, SizeAssumption DEF Least
      <4> QED
        BY <4>1, <4>2 DEF Take
    <3> QED
      BY <1>1, <1>4, <1>5, <2>1, <3>1 DEF Named, Fresh
  <2>2. CASE xfer[t].at = "name"
    <3>1. xfer[t].out = << >> /\ ~ up[xfer[t].from]
      BY <1>1, <1>2, <2>2 DEF Fresh, Ended
    <3>2. Take(<< >>, NAMEBUF) = << >>
      BY SizeAssumption DEF Take, Least
    <3>3. ~ up'[xfer[t].from]
      BY <1>1, <1>3, <3>1 DEF Fresh
    <3> QED
      BY <1>1, <1>4, <1>5, <2>2, <3>1, <3>2, <3>3 DEF Named, Fresh
  <2> QED
    BY <1>1, <2>1, <2>2 DEF Fresh
<1> HIDE DEF t
<1>9. Connections(n)'
  BY <1>0, <1>4, <1>6, <1>8, SameBacklog DEF t
<1> QED
  BY <1>3, <1>4, <1>7, <1>9, ServerConn

LEMMA ReplyConn ==
  ASSUME ConnInv, NEW n \in Node, Reply(n)
  PROVE  ConnInv'
<1> DEFINE t == srv[n].cur
<1>0. Shape /\ Connections(n) /\ srv[n].at = "reply"
  BY DEF ConnInv, Reply, At
<1>1. t \in Transfer /\ Named(n, t)
  BY <1>0 DEF Connections
<1>2. /\ srv' = [srv EXCEPT ![n].at = "open"] /\ up' = up
      /\ xfer' = [xfer EXCEPT ![t].ok = TRUE]
  BY DEF Reply
<1>3. Shape'
  BY <1>0, <1>1, <1>2 DEF Shape
<1>4. /\ srv'[n].at = "open" /\ srv'[n].path = srv[n].path
      /\ srv'[n].cur = t /\ srv'[n].backlog = srv[n].backlog
      /\ \A k \in Node : k # n => srv'[k] = srv[k]
  BY <1>0, <1>2 DEF Shape
<1>5. /\ xfer'[t].to = n /\ xfer'[t].from = xfer[t].from /\ xfer'[t].at = xfer[t].at
      /\ xfer'[t].name = xfer[t].name
      /\ \A u \in Transfer : u # t => xfer'[u] = xfer[u]
  BY <1>0, <1>1, <1>2 DEF Shape, Named
<1>6. \A u \in Transfer : u # t /\ Fresh(n, u) => Fresh(n, u)'
  BY <1>5 DEF Fresh
<1>7. \A k \in Node, u \in Transfer :
        k # n /\ xfer[u].to = k /\ xfer[u].at # "unused" => Untouched(k, u)
  BY <1>1, <1>5 DEF Untouched, Fresh, Named
<1>8. Named(n, t)'
  BY <1>1, <1>2, <1>4, <1>5 DEF Named
<1> HIDE DEF t
<1>9. Connections(n)'
  BY <1>0, <1>4, <1>6, <1>8, SameBacklog DEF t
<1> QED
  BY <1>2, <1>3, <1>4, <1>7, <1>9, ServerConn

\* Steps that write a file: the connections keep all but their marks.
LEMMA StoreConn ==
  ASSUME ConnInv, NEW n \in Node, Open(n) \/ Flush(n)
  PROVE  ConnInv'
<1>0. Shape /\ Connections(n) /\ up' = up
  BY DEF ConnInv, Open, Flush, At
<1>1. /\ DOMAIN xfer' = Transfer
      /\ \A u \in Transfer :
           /\ DOMAIN xfer'[u] = DOMAIN xfer[u]
           /\ \A k \in DOMAIN xfer[u] \ {"stable"} : xfer'[u][k] = xfer[u][k]
  <2>1. xfer' = xfer \/ \E p, content : Store(n, p, content, xfer)
    BY DEF Open, Flush
  <2> QED
    BY <1>0, <2>1, StoreKeeps DEF Shape
<1>2. \A u \in Transfer :
        /\ xfer'[u].to = xfer[u].to /\ xfer'[u].from = xfer[u].from
        /\ xfer'[u].name = xfer[u].name /\ xfer'[u].at = xfer[u].at
        /\ xfer'[u].out = xfer[u].out /\ xfer'[u].ok = xfer[u].ok
  BY <1>0, <1>1 DEF Shape
<1>3. \A k \in Node, u \in Transfer : Untouched(k, u) /\ (Fresh(k, u) => Fresh(k, u)')
  BY <1>2 DEF Untouched, Fresh
<1>4. CASE Open(n)
  <2>1. /\ srv'[n].at = "body" /\ srv'[n].path = srv[n].path
        /\ srv'[n].cur = srv[n].cur /\ srv'[n].backlog = srv[n].backlog
        /\ \A k \in Node : k # n => srv'[k] = srv[k]
        /\ srv[n].at = "open"
    BY <1>0, <1>4 DEF Shape, Open, At
  <2>2. Shape'
    BY <1>0, <1>1, <1>4 DEF Shape, Open
  <2>3. srv[n].cur \in Transfer /\ Named(n, srv[n].cur)
    BY <1>0, <2>1 DEF Connections
  <2>4. Named(n, srv[n].cur)'
    BY <1>0, <1>2, <2>1, <2>3 DEF Named
  <2>5. Connections(n)'
    BY <1>0, <1>3, <2>1, <2>4, SameBacklog
  <2> QED
    BY <1>0, <1>3, <2>1, <2>2, <2>5, ServerConn
<1>5. CASE Flush(n)
  <2>1. srv' = srv /\ Shape'
    BY <1>0, <1>1, <1>5 DEF Shape, Flush
  <2> QED
    BY <1>0, <1>3, <2>1, KeepsConnections DEF ConnInv
<1> QED
  BY <1>4, <1>5

LEMMA ReadBodyConn ==
  ASSUME ConnInv, NEW n \in Node, ReadBody(n)
  PROVE  ConnInv'
<1> DEFINE t == srv[n].cur
<1>0. Shape /\ Connections(n) /\ srv[n].at = "body"
  BY DEF ConnInv, ReadBody, At
<1>1. t \in Transfer /\ Named(n, t)
  BY <1>0 DEF Connections
<1>2. PICK k \in 1 .. Least(BUF, Len(xfer[t].out)) :
        /\ srv' = [srv EXCEPT ![n].got = srv[n].got \o NonNul(Take(xfer[t].out, k))]
        /\ xfer' = [xfer EXCEPT ![t].out = Drop(xfer[t].out, k)]
  BY DEF ReadBody
<1>3. Shape' /\ up' = up
  BY <1>0, <1>1, <1>2 DEF Shape, ReadBody
<1>4. /\ srv'[n].at = "body" /\ srv'[n].path = srv[n].path
      /\ srv'[n].cur = t /\ srv'[n].backlog = srv[n].backlog
      /\ \A m \in Node : m # n => srv'[m] = srv[m]
  BY <1>0, <1>2 DEF Shape
<1>5. /\ xfer'[t].to = n /\ xfer'[t].from = xfer[t].from /\ xfer'[t].at = xfer[t].at
      /\ xfer'[t].name = xfer[t].name
      /\ \A u \in Transfer : u # t => xfer'[u] = xfer[u]
  BY <1>0, <1>1, <1>2 DEF Shape, Named
<1>6. \A u \in Transfer : u # t /\ Fresh(n, u) => Fresh(n, u)'
  BY <1>5 DEF Fresh
<1>7. \A m \in Node, u \in Transfer :
        m # n /\ xfer[u].to = m /\ xfer[u].at # "unused" => Untouched(m, u)
  BY <1>1, <1>5 DEF Untouched, Fresh, Named
<1>8. Named(n, t)'
  BY <1>1, <1>3, <1>4, <1>5 DEF Named
<1> HIDE DEF t
<1>9. Connections(n)'
  BY <1>0, <1>4, <1>6, <1>8, SameBacklog DEF t
<1> QED
  BY <1>3, <1>4, <1>7, <1>9, ServerConn

LEMMA ExitConn ==
  ASSUME ConnInv, NEW n \in Node, Exit(n), xfer' = xfer, srv' = srv
  PROVE  ConnInv'
<1>1. Shape' /\ \A k \in Node : up'[k] => up[k]
  BY DEF ConnInv, Shape, Exit
<1>2. \A k \in Node, u \in Transfer : Untouched(k, u)
  BY DEF Untouched, Fresh
<1> QED
  BY <1>1, <1>2, KeepsConnections DEF ConnInv

\* The one step that takes a connection away.
LEMMA CloseConn ==
  ASSUME ConnInv, NEW n \in Node, Close(n)
  PROVE  ConnInv'
<1> DEFINE t == srv[n].cur
           x == [xfer EXCEPT ![t] = NoTransfer]
<1>0. Shape /\ Connections(n) /\ srv[n].at = "body"
  BY DEF ConnInv, Close, At
<1>1. t \in Transfer /\ Named(n, t) /\ ~ Waits(n, t)
  BY <1>0 DEF Connections
<1>2. CASE srv[n].path = << >>
  BY <1>2, ExitConn DEF Close
<1>3. CASE srv[n].path # << >>
  <2>1. /\ Store(n, srv[n].path, srv[n].got, x) /\ up' = up
        /\ srv' = [srv EXCEPT ![n] = [IdleServer EXCEPT !.backlog = srv[n].backlog]]
    BY <1>3 DEF Close
  <2>2. /\ DOMAIN x = Transfer
        /\ \A u \in Transfer : DOMAIN x[u] = {"from", "to", "name", "at", "pos", "out", "ok",
                                              "wrote", "src", "stable"}
        /\ \A u \in Transfer : u # t => x[u] = xfer[u]
    BY <1>0 DEF Shape, NoTransfer
  <2> HIDE DEF x
  <2>3. /\ DOMAIN xfer' = Transfer
        /\ \A u \in Transfer :
             /\ DOMAIN xfer'[u] = DOMAIN x[u]
             /\ \A k \in DOMAIN x[u] \ {"stable"} : xfer'[u][k] = x[u][k]
    BY <2>1, <2>2, StoreKeeps
  <2>4. \A u \in Transfer : u # t =>
          /\ xfer'[u].to = xfer[u].to /\ xfer'[u].from = xfer[u].from
          /\ xfer'[u].name = xfer[u].name /\ xfer'[u].at = xfer[u].at
          /\ xfer'[u].out = xfer[u].out /\ xfer'[u].ok = xfer[u].ok
    BY <2>2, <2>3
  <2>5. /\ srv'[n].at = "accept" /\ srv'[n].backlog = srv[n].backlog
        /\ \A k \in Node : k # n => srv'[k] = srv[k]
    BY <1>0, <2>1 DEF Shape, IdleServer
  <2>6. Shape'
    BY <1>0, <2>1, <2>2, <2>3 DEF Shape, IdleServer
  <2>7. \A u \in Transfer : u # t /\ Fresh(n, u) => Fresh(n, u)'
    BY <2>4 DEF Fresh
  <2>8. \A k \in Node, u \in Transfer :
          k # n /\ xfer[u].to = k /\ xfer[u].at # "unused" => Untouched(k, u)
    BY <1>1, <2>4 DEF Untouched, Fresh, Named
  <2>9. Connections(n)'
    BY <1>0, <1>1, <2>5, <2>7 DEF Connections, Waits
  <2> QED
    BY <2>1, <2>5, <2>6, <2>8, <2>9, ServerConn
<1> QED
  BY <1>2, <1>3

LEMMA StepConn == ConnInv /\ [Next]_vars => ConnInv'
<1> SUFFICES ASSUME ConnInv, [Next]_vars PROVE ConnInv'
  OBVIOUS
<1>1. ASSUME NEW n \in Node, Kill(n) PROVE ConnInv'
  BY <1>1, ExitConn DEF Kill
<1>2. CASE UNCHANGED vars
  BY <1>2 DEF vars, ConnInv, Shape, Connections, Waits, Fresh, Named
<1> QED
  BY <1>1, <1>2, DialConn, ClientConn, AcceptConn, RecvNameConn, ReplyConn, StoreConn,
     ReadBodyConn, CloseConn DEF Next, ServerStep

LEMMA ConnAlways == Spec => []ConnInv
BY InitConn, StepConn, PTL DEF Spec

\* The answer keeps name and content apart, for every name that fits the array,
\* every size of the buffers and every number of clients.
THEOREM NameKept == Spec => []NameIntact
<1>1. ConnInv => NameIntact
  BY DEF ConnInv, Connections, Named, NameIntact
<1> QED
  BY <1>1, ConnAlways, PTL

\* A client and a server that wait for one another have a blank name between them.
THEOREM OnlyBlankSticks == Spec => []StuckOnlyOnBlank
<1>1. ConnInv => StuckOnlyOnBlank
  BY DEF ConnInv, Connections, Fresh, StuckOnlyOnBlank, At
<1> QED
  BY <1>1, ConnAlways, PTL

--------------------------------------------------------------------------------
(* What the server keeps of a sequence: NonNul, for every length.  Nothing here *)
(* is about states.                                                             *)

\* Induction over the numbers, with a set for the predicate.
LEMMA SetInduction ==
  ASSUME NEW S, 0 \in S, \A n \in Nat : n \in S => n + 1 \in S
  PROVE  Nat \subseteq S
<1> DEFINE T == Nat \ S
           R == OpToRel(<, Nat)
<1> SUFFICES ASSUME T # {} PROVE FALSE
  OBVIOUS
<1>1. IsWellFoundedOn(R, Nat)
  BY NatLessThanWellFounded, Zenon
<1>2. T \subseteq Nat
  OBVIOUS
<1> HIDE DEF T, R
<1>3. PICK x \in T : \A y \in T : ~ (<<y, x>> \in R)
  BY <1>1, <1>2, WFMin, Zenon
<1>4. x \in Nat /\ x # 0 /\ x \notin S
  BY DEF T
<1>5. x - 1 \in Nat /\ (x - 1) + 1 = x
  BY <1>4
<1>6. x - 1 \in T
  BY <1>4, <1>5 DEF T
<1>7. <<x - 1, x>> \in R
  BY <1>4, <1>5 DEF R, OpToRel
<1> QED
  BY <1>3, <1>6, <1>7

\* What is kept of one character, and after i characters when kept says what after
\* fewer; a run over the first n characters of s.
Kept(b) == IF b = NUL THEN << >> ELSE <<b>>
KeptAt(kept, s, i) == IF i = 0 THEN << >> ELSE kept[i - 1] \o Kept(s[i])
Run(kept, s, n) == kept = [i \in 0 .. n |-> KeptAt(kept, s, i)]

\* The recursion is well founded: there is a run of every length.
LEMMA RunExists ==
  ASSUME NEW s, NEW n \in Nat
  PROVE  \E kept : Run(kept, s, n)
<1> DEFINE S == {k \in Nat : \E kept : Run(kept, s, k)}
<1>1. 0 \in S
  <2> DEFINE g == [i \in 0 .. 0 |-> << >>]
  <2>1. g = [i \in 0 .. 0 |-> KeptAt(g, s, i)]
    BY DEF KeptAt
  <2> QED
    BY <2>1 DEF Run
<1>2. ASSUME NEW k \in Nat, k \in S PROVE k + 1 \in S
  <2>1. PICK g : Run(g, s, k)
    BY <1>2
  <2> DEFINE h == [i \in 0 .. k + 1 |-> IF i = k + 1 THEN g[k] \o Kept(s[k + 1]) ELSE g[i]]
  <2>2. \A i \in 0 .. k : g[i] = KeptAt(g, s, i)
    BY <2>1 DEF Run
  <2>3. \A i \in 0 .. k + 1 : h[i] = KeptAt(h, s, i)
    <3>1. TAKE i \in 0 .. k + 1
    <3>2. CASE i = k + 1
      <4>1. h[i] = g[k] \o Kept(s[k + 1]) /\ h[k] = g[k] /\ i # 0 /\ i - 1 = k
        BY <3>2
      <4> QED
        BY <3>2, <4>1 DEF KeptAt
    <3>3. CASE i # k + 1 /\ i # 0
      <4>1. h[i] = g[i] /\ h[i - 1] = g[i - 1] /\ i \in 0 .. k
        BY <3>3
      <4> QED
        BY <2>2, <4>1 DEF KeptAt
    <3>4. CASE i = 0
      <4>1. h[i] = g[i] /\ i \in 0 .. k
        BY <3>4
      <4> QED
        BY <2>2, <3>4, <4>1 DEF KeptAt
    <3> QED
      BY <3>2, <3>3, <3>4
  <2>4. h = [i \in 0 .. k + 1 |-> h[i]]
    OBVIOUS
  <2> HIDE DEF h
  <2>5. Run(h, s, k + 1)
    BY <2>3, <2>4 DEF Run
  <2> QED
    BY <2>5
<1> HIDE DEF S
<1>3. n \in S
  BY <1>1, <1>2, SetInduction
<1> QED
  BY <1>3 DEF S

\* The run that makes NonNul, step by step.
LEMMA RunOfNonNul ==
  ASSUME NEW S, NEW s \in Seq(S)
  PROVE  \E kept :
           /\ kept[0] = << >> /\ NonNul(s) = kept[Len(s)]
           /\ \A i \in 1 .. Len(s) : kept[i] = kept[i - 1] \o Kept(s[i])
<1> DEFINE k == CHOOSE kept : Run(kept, s, Len(s))
<1>1. Run(k, s, Len(s))
  BY RunExists
<1>2. NonNul(s) = k[Len(s)]
  BY DEF NonNul, Run, KeptAt, Kept
<1>3. \A i \in 0 .. Len(s) : k[i] = KeptAt(k, s, i)
  BY <1>1 DEF Run
<1> HIDE DEF k
<1>4. Len(s) \in Nat
  BY LenProperties
<1>5. k[0] = << >>
  BY <1>3, <1>4 DEF KeptAt
<1>6. ASSUME NEW i \in 1 .. Len(s) PROVE k[i] = k[i - 1] \o Kept(s[i])
  <2>1. i \in 0 .. Len(s) /\ i # 0
    BY <1>4
  <2>2. k[i] = KeptAt(k, s, i)
    BY <1>3, <2>1
  <2> QED
    BY <2>1, <2>2 DEF KeptAt
<1> QED
  BY <1>2, <1>5, <1>6

LEMMA KeptType ==
  ASSUME NEW S, NEW b \in S
  PROVE  Kept(b) \in Seq(S)
BY DEF Kept

\* A subsequence of the same characters.
LEMMA NonNulType ==
  ASSUME NEW S, NEW s \in Seq(S)
  PROVE  NonNul(s) \in Seq(S)
<1>1. PICK k : /\ k[0] = << >> /\ NonNul(s) = k[Len(s)]
               /\ \A i \in 1 .. Len(s) : k[i] = k[i - 1] \o Kept(s[i])
  BY RunOfNonNul
<1> DEFINE I == {i \in Nat : i <= Len(s) => k[i] \in Seq(S)}
<1>2. 0 \in I
  BY <1>1, EmptySeq
<1>3. ASSUME NEW i \in Nat, i \in I PROVE i + 1 \in I
  <2> SUFFICES ASSUME i + 1 <= Len(s) PROVE k[i + 1] \in Seq(S)
    OBVIOUS
  <2>1. i + 1 \in 1 .. Len(s) /\ i <= Len(s) /\ (i + 1) - 1 = i
    OBVIOUS
  <2>2. k[i + 1] = k[i] \o Kept(s[i + 1]) /\ k[i] \in Seq(S)
    BY <1>1, <1>3, <2>1
  <2>3. Kept(s[i + 1]) \in Seq(S)
    BY <2>1, KeptType, ElementOfSeq
  <2> QED
    BY <2>2, <2>3, ConcatProperties
<1> HIDE DEF I
<1>4. Len(s) \in I /\ Len(s) \in Nat
  BY <1>2, <1>3, SetInduction, LenProperties
<1> QED
  BY <1>1, <1>4 DEF I

\* What is kept of two pieces is what is kept of the one and then of the other: it
\* does not matter where the network cuts the stream.
LEMMA NonNulConcat ==
  ASSUME NEW S, NEW s \in Seq(S), NEW t \in Seq(S)
  PROVE  NonNul(s \o t) = NonNul(s) \o NonNul(t)
<1> DEFINE r == s \o t
           a == Len(s)
           b == Len(t)
<1>0. /\ r \in Seq(S) /\ Len(r) = a + b /\ a \in Nat /\ b \in Nat
      /\ \A i \in 1 .. a : r[i] = s[i]
      /\ \A i \in 1 .. b : r[a + i] = t[i]
  <2>1. /\ r \in Seq(S) /\ Len(r) = a + b /\ a \in Nat /\ b \in Nat
        /\ \A i \in 1 .. a + b : r[i] = IF i <= a THEN s[i] ELSE t[i - a]
    BY ConcatProperties, LenProperties
  <2> HIDE DEF r, a, b
  <2>2. \A i \in 1 .. b : a + i \in 1 .. a + b /\ ~ a + i <= a /\ (a + i) - a = i
    BY <2>1
  <2> QED
    BY <2>1, <2>2
<1>1. PICK k : /\ k[0] = << >> /\ NonNul(r) = k[a + b]
               /\ \A i \in 1 .. a + b : k[i] = k[i - 1] \o Kept(r[i])
  <2> HIDE DEF r, a, b
  <2>1. \E k : /\ k[0] = << >> /\ NonNul(r) = k[Len(r)]
               /\ \A i \in 1 .. Len(r) : k[i] = k[i - 1] \o Kept(r[i])
    BY <1>0, RunOfNonNul
  <2> QED
    BY <1>0, <2>1
<1>2. PICK g : /\ g[0] = << >> /\ NonNul(s) = g[a]
               /\ \A i \in 1 .. a : g[i] = g[i - 1] \o Kept(s[i])
  BY RunOfNonNul
<1>3. PICK h : /\ h[0] = << >> /\ NonNul(t) = h[b]
               /\ \A i \in 1 .. b : h[i] = h[i - 1] \o Kept(t[i])
  BY RunOfNonNul
<1>4. \A i \in 1 .. b : t[i] \in S /\ Kept(t[i]) \in Seq(S)
  BY KeptType, ElementOfSeq
<1> HIDE DEF r, a, b
<1>5. k[a] = g[a]
  <2> DEFINE I == {i \in Nat : i <= a => k[i] = g[i]}
  <2>1. 0 \in I
    BY <1>1, <1>2
  <2>2. ASSUME NEW i \in Nat, i \in I PROVE i + 1 \in I
    <3> SUFFICES ASSUME i + 1 <= a PROVE k[i + 1] = g[i + 1]
      OBVIOUS
    <3>1. i + 1 \in 1 .. a /\ i + 1 \in 1 .. a + b /\ i <= a /\ (i + 1) - 1 = i
      BY <1>0
    <3> QED
      BY <1>0, <1>1, <1>2, <2>2, <3>1
  <2> HIDE DEF I
  <2>3. a \in I
    BY <1>0, <2>1, <2>2, SetInduction
  <2> QED
    BY <1>0, <2>3 DEF I
<1>6. g[a] \in Seq(S)
  BY <1>2, NonNulType
<1>7. k[a + b] = g[a] \o h[b]
  <2> DEFINE P(i) == h[i] \in Seq(S) /\ k[a + i] = g[a] \o h[i]
             I == {i \in Nat : i <= b => P(i)}
  <2>1. 0 \in I
    <3>1. g[a] \o << >> = g[a] /\ << >> \in Seq(S) /\ a + 0 = a
      BY <1>0, <1>6, ConcatEmptySeq
    <3> QED
      BY <1>3, <1>5, <3>1
  <2>2. ASSUME NEW i \in Nat, i \in I PROVE i + 1 \in I
    <3> HIDE DEF P
    <3> SUFFICES ASSUME i + 1 <= b PROVE P(i + 1)
      OBVIOUS
    <3>1. /\ i + 1 \in 1 .. b /\ a + (i + 1) \in 1 .. a + b /\ i <= b
          /\ (i + 1) - 1 = i /\ (a + (i + 1)) - 1 = a + i
      BY <1>0
    <3> DEFINE e == Kept(t[i + 1])
    <3>2. e \in Seq(S)
      BY <1>4, <3>1
    <3>3. h[i + 1] = h[i] \o e
      BY <1>3, <3>1
    <3>4. k[a + (i + 1)] = k[a + i] \o e
      BY <1>0, <1>1, <3>1
    <3>5. h[i] \in Seq(S) /\ k[a + i] = g[a] \o h[i]
      BY <2>2, <3>1 DEF P
    <3> HIDE DEF e
    <3>6. (g[a] \o h[i]) \o e = g[a] \o (h[i] \o e)
      <4>1. \A x, y, z \in Seq(S) : (x \o y) \o z = x \o (y \o z) /\ y \o z \in Seq(S)
        BY Regroup
      <4> QED
        BY <1>6, <3>2, <3>5, <4>1, ZenonT(60)
    <3>7. h[i] \o e \in Seq(S)
      BY <3>2, <3>5, ConcatProperties, Zenon
    <3> QED
      BY <3>3, <3>4, <3>5, <3>6, <3>7 DEF P
  <2> HIDE DEF I, P
  <2>3. b \in I
    BY <1>0, <2>1, <2>2, SetInduction
  <2>4. P(b)
    BY <1>0, <2>3 DEF I
  <2> QED
    BY <2>4 DEF P
<1> QED
  BY <1>1, <1>2, <1>3, <1>5, <1>7 DEF r

\* A sequence without NUL is kept as it is.
LEMMA NonNulSame ==
  ASSUME NEW S, NEW s \in Seq(S), \A i \in 1 .. Len(s) : s[i] # NUL
  PROVE  NonNul(s) = s
<1>1. PICK k : /\ k[0] = << >> /\ NonNul(s) = k[Len(s)]
               /\ \A i \in 1 .. Len(s) : k[i] = k[i - 1] \o Kept(s[i])
  BY RunOfNonNul
<1> DEFINE I == {i \in Nat : i <= Len(s) => k[i] = SubSeq(s, 1, i)}
<1>2. 0 \in I
  <2>1. SubSeq(s, 1, 0) = << >>
    BY SubSeqEmpty
  <2> QED
    BY <1>1, <2>1
<1>3. ASSUME NEW i \in Nat, i \in I PROVE i + 1 \in I
  <2> SUFFICES ASSUME i + 1 <= Len(s) PROVE k[i + 1] = SubSeq(s, 1, i + 1)
    OBVIOUS
  <2>1. i + 1 \in 1 .. Len(s) /\ i <= Len(s) /\ (i + 1) - 1 = i /\ 1 \in 1 .. Len(s)
    BY LenProperties
  <2>2. k[i + 1] = k[i] \o <<s[i + 1]>> /\ k[i] = SubSeq(s, 1, i)
    BY <1>1, <1>3, <2>1 DEF Kept
  <2>3. SubSeq(s, 1, i + 1) = SubSeq(s, 1, (i + 1) - 1) \o <<s[i + 1]>>
    BY <2>1, SubSeqRecursiveSecond
  <2> QED
    BY <2>1, <2>2, <2>3
<1> HIDE DEF I
<1>4. Len(s) \in I /\ Len(s) \in Nat
  BY <1>2, <1>3, SetInduction, LenProperties
<1>5. NonNul(s) = SubSeq(s, 1, Len(s))
  BY <1>1, <1>4 DEF I
<1> QED
  BY <1>5, SubSeqFull

--------------------------------------------------------------------------------
(* The stream: types, and what has become of the bytes a client wrote.          *)

\* Every name is one that a file may be stored under.
LEMMA NamesArePaths == \A f \in Name : f \in Path
<1> SUFFICES ASSUME NEW f \in Name PROVE f \in Path
  OBVIOUS
<1>1. PICK S : f \in Seq(S)
  BY NameAssumption
<1>2. Len(f) \in 0 .. Len(f) /\ SubSeq(f, 1, Len(f)) = f
  BY <1>1
<1> DEFINE Cuts(g) == {SubSeq(g, 1, k) : k \in 0 .. Len(g)}
<1>3. f \in Cuts(f)
  BY <1>2
<1>4. Path = UNION {Cuts(g) : g \in Name}
  BY DEF Path
<1> HIDE DEF Cuts
<1> QED
  BY <1>3, <1>4

\* The lengths that Take and Drop make.
LEMMA TakeDrop ==
  ASSUME NEW S, NEW s \in Seq(S), NEW k \in Nat
  PROVE  /\ Take(s, k) \in Seq(S) /\ Drop(s, k) \in Seq(S)
         /\ Take(s, k) \o Drop(s, k) = s
         /\ Len(Take(s, k)) = Least(k, Len(s))
         /\ Len(s) <= k <=> Drop(s, k) = << >>
<1>0. Len(s) \in Nat
  BY LenProperties
<1> DEFINE j == Least(k, Len(s))
<1>1. j \in 0 .. Len(s) /\ j \in Nat /\ (k <= Len(s) => j = k) /\ (Len(s) <= k => j = Len(s))
  BY <1>0 DEF Least
<1> HIDE DEF j
<1>2. /\ SubSeq(s, 1, j) \in Seq(S) /\ Len(SubSeq(s, 1, j)) = j
      /\ SubSeq(s, k + 1, Len(s)) \in Seq(S)
  BY <1>0, <1>1
<1>3. CASE k <= Len(s)
  <2>1. /\ 1 \in 1 .. Len(s) + 1 /\ j \in 1 - 1 .. Len(s) /\ Len(s) \in j .. Len(s) /\ j = k
    BY <1>0, <1>1, <1>3
  <2>2. SubSeq(s, 1, j) \o SubSeq(s, j + 1, Len(s)) = SubSeq(s, 1, Len(s))
    BY <2>1, ConcatAdjacentSubSeq
  <2>3. SubSeq(s, 1, Len(s)) = s
    BY SubSeqFull
  <2>4. Len(SubSeq(s, k + 1, Len(s))) = Len(s) - k
    BY <1>0, <1>3
  <2>5. Len(s) <= k <=> SubSeq(s, k + 1, Len(s)) = << >>
    <3>1. SubSeq(s, k + 1, Len(s)) = << >> <=> Len(SubSeq(s, k + 1, Len(s))) = 0
      BY <1>2, EmptySeq
    <3> QED
      BY <1>0, <1>3, <2>4, <3>1
  <2> QED
    BY <1>2, <2>1, <2>2, <2>3, <2>5 DEF Take, Drop, j
<1>4. CASE Len(s) < k
  <2>1. SubSeq(s, k + 1, Len(s)) = << >>
    BY <1>0, <1>4, SubSeqEmpty
  <2>2. SubSeq(s, 1, j) = s /\ s \o << >> = s
    BY <1>0, <1>1, <1>4, SubSeqFull, ConcatEmptySeq
  <2> QED
    BY <1>0, <1>2, <1>4, <2>1, <2>2 DEF Take, Drop, j
<1> QED
  BY <1>0, <1>3, <1>4

\* What lies before position k, and the next n behind it.
LEMMA TakeMore ==
  ASSUME NEW S, NEW s \in Seq(S), NEW k \in Nat, k <= Len(s), NEW n \in Nat
  PROVE  /\ k + Len(Take(Drop(s, k), n)) <= Len(s)
         /\ Take(s, k) \o Take(Drop(s, k), n) = Take(s, k + Len(Take(Drop(s, k), n)))
<1> DEFINE a == Take(s, k)
           b == Drop(s, k)
           c == Take(b, n)
           d == Drop(b, n)
           j == k + Len(c)
<1>1. /\ a \in Seq(S) /\ b \in Seq(S) /\ c \in Seq(S) /\ d \in Seq(S)
      /\ a \o b = s /\ c \o d = b /\ Len(a) = Least(k, Len(s)) /\ Len(s) \in Nat
  BY TakeDrop, LenProperties
<1>2. Len(a) = k
  BY <1>1 DEF Least
<1> HIDE DEF a, b, c, d
<1>3. (a \o c) \o d = s
  <2>1. \A x, y, z \in Seq(S) : (x \o y) \o z = x \o (y \o z) /\ y \o z \in Seq(S)
    BY Regroup
  <2>2. a \in Seq(S) /\ c \in Seq(S) /\ d \in Seq(S) /\ c \o d = b /\ a \o b = s
    BY <1>1
  <2>3. (a \o c) \o d = a \o (c \o d)
    <3>1. a \in Seq(S) /\ c \in Seq(S) /\ d \in Seq(S)
      BY <2>2
    <3> QED
      BY <2>1, <3>1
  <2> QED
    BY <2>2, <2>3
<1>4. /\ a \o c \in Seq(S) /\ Len(a \o c) = j /\ Len(s) = j + Len(d)
      /\ j \in Nat /\ Len(d) \in Nat /\ j <= Len(s)
  <2>1. Len(c) \in Nat /\ Len(d) \in Nat
    BY <1>1, LenProperties
  <2>2. a \o c \in Seq(S) /\ Len(a \o c) = Len(a) + Len(c)
    BY <1>1, ConcatProperties
  <2>3. Len((a \o c) \o d) = Len(a \o c) + Len(d)
    BY <1>1, <2>2, ConcatProperties
  <2> QED
    BY <1>2, <1>3, <2>1, <2>2, <2>3
<1> HIDE DEF j
<1>5. a \o c = SubSeq(s, 1, j)
  BY <1>3, <1>4
<1>6. Take(s, j) = SubSeq(s, 1, j)
  BY <1>4 DEF Take, Least
<1> QED
  BY <1>4, <1>5, <1>6 DEF a, b, c, j

\* The types, over a set B of characters.
XferType(B, x) ==
  /\ x.at \in Sending \cup {"unused", "done"}
  /\ x.at # "unused" => x.from \in Node /\ x.to \in Node /\ x.name \in Name
  /\ x.name \in Name \cup {<< >>} /\ x.pos \in Nat
  /\ x.out \in Seq(B) /\ x.wrote \in Seq(B) /\ x.src \in Seq(B)
  /\ x.ok \in BOOLEAN /\ x.stable \in BOOLEAN

SrvType(B, s) ==
  /\ s.at \in {"accept", "name", "reply", "open", "body"}
  /\ s.cur \in Transfer \cup {Missing}
  /\ s.path \in Path \cup {<< >>} /\ Len(s.path) <= NAMEBUF
  /\ s.got \in Seq(B) /\ s.backlog \in Seq(Transfer)

HomeType(B) ==
  /\ DOMAIN home = Node /\ \A n \in Node : DOMAIN home[n] = Path
  /\ \A n \in Node, p \in Path : home[n][p] = Missing \/ home[n][p] \in Seq(B)

\* What a client has written: the name first, then what it read of its file; all of
\* it, at the end.  (If the file stayed what it was.)
Copied(x) ==
  /\ x.at = "name" => x.wrote = << >> /\ x.src = << >> /\ x.pos = 0
  /\ x.at = "await" => x.wrote = x.name /\ x.src = << >> /\ x.pos = 0
  /\ x.at = "copy" /\ x.stable =>
       /\ home[x.from][x.name] = x.src /\ x.src # Missing
       /\ x.pos <= Len(x.src) /\ x.wrote = x.name \o Take(x.src, x.pos)
  /\ x.at = "done" /\ x.stable => x.wrote = x.name \o x.src

\* What a server has read: nothing but a name before it opens the file; and with
\* what is still in the stream, all that was written.
Received(n) ==
  /\ srv[n].at \in {"name", "reply", "open"} => srv[n].got = << >>
  /\ srv[n].at \in {"reply", "open", "body"} =>
       LET x == xfer[srv[n].cur]
       IN  /\ srv[n].path \o srv[n].got \o NonNul(x.out) = NonNul(x.wrote)
           /\ x.name = << >> => srv[n].path = << >>

StreamInv(B) ==
  /\ \A n \in Node : up[n] \in BOOLEAN
  /\ HomeType(B)
  /\ \A t \in Transfer : XferType(B, xfer[t])
  /\ \A n \in Node : SrvType(B, srv[n])
  /\ \A t \in Transfer : xfer[t].at # "unused" /\ up[xfer[t].to] => Copied(xfer[t])
  /\ \A n \in Node : up[n] => Received(n)

\* A set that has every character of every name, and of every first file.
Alphabet(B) ==
  /\ \A f \in Name : f \in Seq(B)
  /\ \A n \in Node, p \in Path : FirstHome[n][p] = Missing \/ FirstHome[n][p] \in Seq(B)

LEMMA InitStream ==
  ASSUME NEW B, Alphabet(B), Init
  PROVE  StreamInv(B)
<1>0. << >> \in Seq(B) /\ << >> \in Seq(Transfer) /\ Len(<< >>) = 0
  BY EmptySeq
<1>1. XferType(B, NoTransfer) /\ NoTransfer.at = "unused"
  BY <1>0 DEF XferType, NoTransfer
<1>2. SrvType(B, IdleServer) /\ IdleServer.at = "accept"
  BY <1>0, SizeAssumption DEF SrvType, IdleServer
<1>3. HomeType(B)
  BY HomeAssumption DEF HomeType, Alphabet, Init
<1>4. \A t \in Transfer : xfer[t] = NoTransfer
  BY DEF Init
<1>5. \A n \in Node : srv[n] = IdleServer /\ up[n] = TRUE
  BY DEF Init
<1> QED
  BY <1>1, <1>2, <1>3, <1>4, <1>5 DEF StreamInv, Received

\* A stored name is a sequence of those characters.
LEMMA PathType ==
  ASSUME NEW B, Alphabet(B), NEW p \in Path \cup {<< >>}
  PROVE  p \in Seq(B)
<1>1. CASE p = << >>
  BY <1>1, EmptySeq
<1>2. ASSUME NEW f \in Name, NEW k \in 0 .. Len(f), p = SubSeq(f, 1, k) PROVE p \in Seq(B)
  <2>1. f \in Seq(B)
    BY DEF Alphabet
  <2> QED
    BY <1>2, <2>1
<1> QED
  BY <1>1, <1>2 DEF Path

\* A step that adds bytes to the end of a stream, or none.
Grows(B, t) ==
  /\ xfer'[t].name = xfer[t].name
  /\ \E bytes \in Seq(B) : /\ xfer'[t].out = xfer[t].out \o bytes
                           /\ xfer'[t].wrote = xfer[t].wrote \o bytes

LEMMA SameGrows ==
  ASSUME NEW B, StreamInv(B), NEW t \in Transfer,
         xfer'[t].name = xfer[t].name, xfer'[t].out = xfer[t].out,
         xfer'[t].wrote = xfer[t].wrote
  PROVE  Grows(B, t)
<1>1. xfer[t].out \in Seq(B) /\ xfer[t].wrote \in Seq(B) /\ << >> \in Seq(B)
  BY EmptySeq DEF StreamInv, XferType
<1>2. xfer[t].out \o << >> = xfer[t].out /\ xfer[t].wrote \o << >> = xfer[t].wrote
  BY <1>1, ConcatEmptySeq
<1> QED
  BY <1>1, <1>2 DEF Grows

\* That is no harm to a server that does nothing.
LEMMA KeepsReceived ==
  ASSUME NEW B, Alphabet(B), ConnInv, StreamInv(B), NEW n \in Node, up[n], srv'[n] = srv[n],
         srv[n].at \in {"reply", "open", "body"} => Grows(B, srv[n].cur)
  PROVE  Received(n)'
<1>1. Received(n) /\ Connections(n) /\ SrvType(B, srv[n])
  BY DEF StreamInv, ConnInv
<1> DEFINE t == srv[n].cur
           path == srv[n].path
           got == srv[n].got
<1> SUFFICES ASSUME srv[n].at \in {"reply", "open", "body"}
             PROVE  path \o got \o NonNul(xfer'[t].out) = NonNul(xfer'[t].wrote)
  BY <1>1 DEF Received, Grows
<1>2. t \in Transfer /\ XferType(B, xfer[t])
  BY <1>1 DEF Connections, StreamInv
<1>3. PICK bytes \in Seq(B) : /\ xfer'[t].out = xfer[t].out \o bytes
                              /\ xfer'[t].wrote = xfer[t].wrote \o bytes
  BY DEF Grows
<1>4. path \o got \o NonNul(xfer[t].out) = NonNul(xfer[t].wrote)
  BY <1>1 DEF Received
<1> DEFINE o == NonNul(xfer[t].out)
           w == NonNul(xfer[t].wrote)
           b == NonNul(bytes)
<1>5. NonNul(xfer'[t].out) = o \o b /\ NonNul(xfer'[t].wrote) = w \o b
  <2>1. xfer[t].out \in Seq(B) /\ xfer[t].wrote \in Seq(B)
    BY <1>2 DEF XferType
  <2> HIDE DEF t
  <2>2. /\ NonNul(xfer[t].out \o bytes) = o \o b
        /\ NonNul(xfer[t].wrote \o bytes) = w \o b
    BY <2>1, NonNulConcat
  <2> QED
    BY <1>3, <2>2
<1>6. o \in Seq(B) /\ w \in Seq(B) /\ b \in Seq(B)
  BY <1>2, NonNulType DEF XferType
<1>7. path \in Seq(B) /\ got \in Seq(B)
  BY <1>1, PathType DEF SrvType
<1> HIDE DEF t, path, got, o, w, b
<1>8. path \o got \in Seq(B)
  BY <1>7, ConcatProperties
<1>9. (path \o got) \o (o \o b) = ((path \o got) \o o) \o b
  <2>1. \A x, y, z \in Seq(B) : (x \o y) \o z = x \o (y \o z) /\ y \o z \in Seq(B)
    BY Regroup
  <2> QED
    BY <1>6, <1>8, <2>1
<1> QED
  BY <1>4, <1>5, <1>9 DEF o, w

\* The client's steps.
LEMMA DialStream ==
  ASSUME NEW B, Alphabet(B), ConnInv, StreamInv(B),
         NEW t \in Transfer, NEW n \in Node, NEW m \in Node, NEW f \in Name, Dial(t, n, m, f)
  PROVE  StreamInv(B)'
<1>0. Shape /\ home' = home
  BY DEF ConnInv, Dial
<1>1. CASE ~ up[m]
  <2>1. Exit(n) /\ srv' = srv /\ xfer' = xfer
    BY <1>1 DEF Dial
  <2>2. /\ \A k \in Node : up'[k] \in BOOLEAN /\ (up'[k] => up[k])
        /\ HomeType(B)'
    BY <1>0, <2>1 DEF StreamInv, HomeType, Exit, Shape
  <2>3. \A u \in Transfer : xfer[u].at # "unused" => xfer[u].to \in Node
    BY DEF StreamInv, XferType
  <2> QED
    BY <1>0, <2>1, <2>2, <2>3 DEF StreamInv, Copied, Received
<1>2. CASE up[m]
  <2> DEFINE x == [NoTransfer EXCEPT !.from = n, !.to = m, !.name = f, !.at = "name"]
             s == [srv[m] EXCEPT !.backlog = Append(srv[m].backlog, t)]
  <2>1. /\ up' = up /\ srv' = [srv EXCEPT ![m] = s] /\ xfer' = [xfer EXCEPT ![t] = x]
        /\ xfer[t].at = "unused"
    BY <1>0, <1>2 DEF Dial, Shape
  <2>2. /\ x.from = n /\ x.to = m /\ x.name = f /\ x.at = "name" /\ x.pos = 0
        /\ x.out = << >> /\ x.wrote = << >> /\ x.src = << >> /\ ~ x.ok /\ x.stable
        /\ x.ok \in BOOLEAN /\ x.stable \in BOOLEAN
    BY DEF NoTransfer
  <2>3. s.at = srv[m].at /\ s.cur = srv[m].cur /\ s.path = srv[m].path /\ s.got = srv[m].got
        /\ s.backlog = Append(srv[m].backlog, t)
    BY <1>0 DEF Shape
  <2> HIDE DEF x, s
  <2>4. /\ xfer'[t] = x /\ \A u \in Transfer : u # t => xfer'[u] = xfer[u]
        /\ srv'[m] = s /\ \A k \in Node : k # m => srv'[k] = srv[k]
    BY <1>0, <2>1 DEF Shape
  <2>5. XferType(B, x)
    <3>1. << >> \in Seq(B)
      BY EmptySeq
    <3> QED
      BY <2>2, <3>1 DEF XferType, Sending
  <2>6. SrvType(B, s)
    <3>1. SrvType(B, srv[m])
      BY DEF StreamInv
    <3>2. Append(srv[m].backlog, t) \in Seq(Transfer)
      BY <3>1, AppendProperties DEF SrvType
    <3> QED
      BY <2>3, <3>1, <3>2 DEF SrvType
  <2>7. Copied(x)'
    BY <2>2 DEF Copied
  <2>8. ASSUME NEW u \in Transfer, u # t, xfer'[u].at # "unused" /\ up'[xfer'[u].to]
        PROVE  Copied(xfer[u])'
    BY <1>0, <2>1, <2>4, <2>8, ZenonT(60) DEF StreamInv, Copied
  <2>9. ASSUME NEW k \in Node, up'[k] PROVE Received(k)'
    <3>1. Received(k) /\ Connections(k)
      BY <2>1, <2>9 DEF StreamInv, ConnInv
    <3>2. srv[k].at \in {"reply", "open", "body"} =>
            srv[k].cur # t /\ xfer'[srv[k].cur] = xfer[srv[k].cur]
      BY <2>1, <2>4, <3>1 DEF Connections, Named
    <3>3. srv'[k].at = srv[k].at /\ srv'[k].cur = srv[k].cur /\ srv'[k].path = srv[k].path
          /\ srv'[k].got = srv[k].got
      BY <2>3, <2>4
    <3> QED
      BY <3>1, <3>2, <3>3 DEF Received
  <2>10. HomeType(B)'
    BY <1>0 DEF StreamInv, HomeType
  <2> QED
    BY <2>1, <2>4, <2>5, <2>6, <2>7, <2>8, <2>9, <2>10 DEF StreamInv
<1> QED
  BY <1>1, <1>2

\* A step of a client that changes its own transfer only, and adds to its stream.
LEMMA OneTransfer ==
  ASSUME NEW B, Alphabet(B), ConnInv, StreamInv(B), NEW t \in Transfer, NEW x,
         xfer' = [xfer EXCEPT ![t] = x], up' = up, home' = home, srv' = srv,
         XferType(B, x), xfer[t].at # "unused", x.at = "unused" \/ x.to = xfer[t].to,
         up[xfer[t].to] => Copied(x) /\ Grows(B, t)
  PROVE  StreamInv(B)'
<1>0. Shape
  BY DEF ConnInv
<1>1. xfer'[t] = x /\ \A u \in Transfer : u # t => xfer'[u] = xfer[u]
  BY <1>0 DEF Shape
<1>2. \A u \in Transfer : XferType(B, xfer'[u])
  BY <1>1 DEF StreamInv
<1>3. ASSUME NEW u \in Transfer, xfer'[u].at # "unused" /\ up'[xfer'[u].to]
      PROVE  Copied(xfer[u])'
  <2>1. CASE u = t
    BY <1>1, <1>3, <2>1 DEF Copied
  <2>2. CASE u # t
    <3>1. xfer'[u] = xfer[u]
      BY <1>1, <2>2
    <3>2. Copied(xfer[u])
      BY <1>3, <3>1 DEF StreamInv
    <3> QED
      BY <3>1, <3>2 DEF Copied
  <2> QED
    BY <2>1, <2>2
<1>4. ASSUME NEW n \in Node, up[n] PROVE Received(n)'
  <2>1. ASSUME srv[n].at \in {"reply", "open", "body"} PROVE Grows(B, srv[n].cur)
    <3>1. srv[n].cur \in Transfer /\ Named(n, srv[n].cur)
      BY <1>4, <2>1 DEF ConnInv, Connections
    <3>2. CASE srv[n].cur = t
      BY <1>4, <3>1, <3>2 DEF Named
    <3>3. CASE srv[n].cur # t
      BY <1>1, <3>1, <3>3, SameGrows
    <3> QED
      BY <3>2, <3>3
  <2> QED
    BY <1>4, <2>1, KeepsReceived
<1>5. HomeType(B)' /\ \A n \in Node : SrvType(B, srv[n])' /\ up'[n] \in BOOLEAN
  BY DEF StreamInv, HomeType, SrvType
<1> QED
  BY <1>2, <1>3, <1>4, <1>5 DEF StreamInv

LEMMA DeathStream ==
  ASSUME NEW B, ConnInv, StreamInv(B), NEW n \in Node, Exit(n),
         xfer' = xfer, home' = home, srv' = srv
  PROVE  StreamInv(B)'
<1>1. \A k \in Node : up'[k] \in BOOLEAN /\ (up'[k] => up[k])
  BY DEF StreamInv, Exit, ConnInv, Shape
<1>2. \A u \in Transfer : xfer[u].at # "unused" => xfer[u].to \in Node
  BY DEF StreamInv, XferType
<1> QED
  BY <1>1, <1>2 DEF StreamInv, HomeType, Copied, Received

LEMMA WriteStream ==
  ASSUME NEW B, Alphabet(B), ConnInv, StreamInv(B), NEW t \in Transfer,
         NEW bytes \in Seq(B), NEW x, Write(t, bytes, x), home' = home, srv' = srv,
         DOMAIN x = DOMAIN xfer[t], XferType(B, x), xfer[t].at # "unused", x.at # "unused",
         x.to = xfer[t].to, x.from = xfer[t].from, x.name = xfer[t].name,
         x.out = xfer[t].out, x.wrote = xfer[t].wrote,
         up[x.to] => Copied([x EXCEPT !.out = x.out \o bytes, !.wrote = x.wrote \o bytes])
  PROVE  StreamInv(B)'
<1>0. Shape
  BY DEF ConnInv
<1> DEFINE y == [x EXCEPT !.out = x.out \o bytes, !.wrote = x.wrote \o bytes]
<1>1. CASE up[x.to] /\ xfer' = [xfer EXCEPT ![t] = y] /\ up' = up
  <2>1. /\ y.out = x.out \o bytes /\ y.wrote = x.wrote \o bytes
        /\ y.at = x.at /\ y.from = x.from /\ y.to = x.to /\ y.name = x.name
        /\ y.pos = x.pos /\ y.src = x.src /\ y.ok = x.ok /\ y.stable = x.stable
    BY <1>0 DEF Shape
  <2>2. XferType(B, y)
    <3>1. x.out \o bytes \in Seq(B) /\ x.wrote \o bytes \in Seq(B)
      BY ConcatProperties DEF XferType
    <3> QED
      BY <2>1, <3>1 DEF XferType
  <2>3. Copied(y)
    BY <1>1
  <2>4. xfer'[t] = y
    BY <1>0, <1>1 DEF Shape
  <2> HIDE DEF y
  <2>5. Grows(B, t)
    BY <2>1, <2>4 DEF Grows
  <2> QED
    BY <1>1, <2>1, <2>2, <2>3, <2>5, OneTransfer
<1>2. CASE ~ up[x.to] /\ xfer' = [xfer EXCEPT ![t] = x] /\ up' = up
  BY <1>2, OneTransfer
<1>3. CASE Exit(x.from) /\ xfer' = xfer
  BY <1>3, DeathStream DEF XferType
<1> QED
  BY <1>1, <1>2, <1>3 DEF Write

LEMMA NamesAreSeqs ==
  ASSUME NEW B, Alphabet(B), NEW f \in Name \cup {<< >>}
  PROVE  f \in Seq(B) /\ NonNul(f) = f
<1>1. f \in Seq(B)
  BY EmptySeq DEF Alphabet
<1>2. \A i \in 1 .. Len(f) : f[i] # NUL
  <2>1. DOMAIN f = 1 .. Len(f)
    BY <1>1, LenProperties
  <2>2. CASE f = << >>
    BY <2>2, EmptySeq
  <2> QED
    BY <2>1, <2>2, NameAssumption DEF Chars
<1> QED
  BY <1>1, <1>2, NonNulSame

LEMMA SendNameStream ==
  ASSUME NEW B, Alphabet(B), ConnInv, StreamInv(B), NEW t \in Transfer, SendName(t)
  PROVE  StreamInv(B)'
<1>0. Shape
  BY DEF ConnInv
<1> DEFINE x == [xfer[t] EXCEPT !.at = "await"]
           name == xfer[t].name
<1>1. /\ DOMAIN x = DOMAIN xfer[t] /\ x.at = "await" /\ x.to = xfer[t].to
      /\ x.from = xfer[t].from /\ x.name = name /\ x.out = xfer[t].out
      /\ x.wrote = xfer[t].wrote /\ x.pos = xfer[t].pos /\ x.src = xfer[t].src
      /\ x.ok = xfer[t].ok /\ x.stable = xfer[t].stable
  BY <1>0 DEF Shape
<1>2. xfer[t].at = "name" /\ Write(t, name, x) /\ home' = home /\ srv' = srv
  BY DEF SendName
<1>3. XferType(B, xfer[t])
  BY DEF StreamInv
<1>4. XferType(B, x) /\ name \in Seq(B)
  BY <1>1, <1>2, <1>3, NamesAreSeqs DEF XferType, Sending
<1>5. ASSUME up[x.to]
      PROVE  Copied([x EXCEPT !.out = x.out \o name, !.wrote = x.wrote \o name])
  <2> DEFINE y == [x EXCEPT !.out = x.out \o name, !.wrote = x.wrote \o name]
  <2>1. /\ y.at = "await" /\ y.wrote = x.wrote \o name /\ y.name = name
        /\ y.src = x.src /\ y.pos = x.pos
    BY <1>0, <1>1, ZenonT(60) DEF Shape
  <2>2. x.wrote = << >> /\ x.src = << >> /\ x.pos = 0
    BY <1>1, <1>2, <1>5 DEF StreamInv, Copied
  <2>3. << >> \o name = name
    BY <1>4, ConcatEmptySeq
  <2> HIDE DEF y
  <2>4. Copied(y)
    BY <2>1, <2>2, <2>3 DEF Copied
  <2> QED
    BY <2>4 DEF y
<1>6. x.at # "unused" /\ xfer[t].at # "unused" /\ x.name = xfer[t].name
  BY <1>1, <1>2
<1> HIDE DEF x, name
<1> QED
  BY <1>1, <1>2, <1>4, <1>5, <1>6, WriteStream

\* What the client's next read returns is the next piece of its file.
LEMMA AheadFacts ==
  ASSUME NEW B, StreamInv(B), NEW t \in Transfer, xfer[t].at = "copy"
  PROVE  /\ Ahead(t) \in Seq(B)
         /\ xfer[t].stable /\ up[xfer[t].to] =>
              Ahead(t) = Take(Drop(xfer[t].src, xfer[t].pos), BUF)
<1>1. XferType(B, xfer[t]) /\ xfer[t].from \in Node
  BY DEF StreamInv, XferType
<1> DEFINE f == home[xfer[t].from][xfer[t].name]
<1>2. CASE f = Missing
  <2>1. Ahead(t) = << >>
    BY <1>2 DEF Ahead
  <2> QED
    BY <1>2, <2>1, EmptySeq DEF StreamInv, Copied
<1>3. CASE f # Missing
  <2>1. Ahead(t) = Take(Drop(f, xfer[t].pos), BUF)
    BY <1>3 DEF Ahead
  <2>2. xfer[t].stable /\ up[xfer[t].to] => f = xfer[t].src
    BY DEF StreamInv, Copied
  <2>3. f \in Seq(B)
    <3>1. xfer[t].name \in Path
      BY <1>1, NamesArePaths DEF XferType
    <3> QED
      BY <1>1, <1>3, <3>1 DEF StreamInv, HomeType
  <2> HIDE DEF f
  <2>4. Ahead(t) \in Seq(B)
    BY <1>1, <2>1, <2>3, TakeDrop, SizeAssumption DEF XferType
  <2> QED
    BY <2>1, <2>2, <2>4
<1> QED
  BY <1>2, <1>3

\* A client that closes: what it wrote is all.
LEMMA ClosedStream ==
  ASSUME NEW B, Alphabet(B), ConnInv, StreamInv(B), NEW t \in Transfer,
         xfer[t].at # "unused", xfer' = [xfer EXCEPT ![t] = Closed(xfer[t])],
         up' = up, home' = home, srv' = srv,
         xfer[t].stable /\ up[xfer[t].to] => xfer[t].wrote = xfer[t].name \o xfer[t].src
  PROVE  StreamInv(B)'
<1>0. Shape /\ XferType(B, xfer[t])
  BY DEF ConnInv, StreamInv
<1>1. CASE up[xfer[t].to]
  <2> DEFINE x == [xfer[t] EXCEPT !.at = "done"]
  <2>1. /\ x.at = "done" /\ x.to = xfer[t].to /\ x.from = xfer[t].from
        /\ x.name = xfer[t].name /\ x.out = xfer[t].out /\ x.wrote = xfer[t].wrote
        /\ x.pos = xfer[t].pos /\ x.src = xfer[t].src /\ x.ok = xfer[t].ok
        /\ x.stable = xfer[t].stable /\ xfer' = [xfer EXCEPT ![t] = x]
    BY <1>0, <1>1 DEF Shape, Closed
  <2> HIDE DEF x
  <2>2. xfer'[t] = x
    BY <1>0, <2>1 DEF Shape
  <2>3. Grows(B, t)
    BY <2>1, <2>2, SameGrows
  <2>4. XferType(B, x)
    BY <1>0, <2>1 DEF XferType, Sending
  <2>5. Copied(x)
    BY <1>1, <2>1 DEF Copied
  <2> QED
    BY <2>1, <2>3, <2>4, <2>5, OneTransfer
<1>2. CASE ~ up[xfer[t].to]
  <2>1. Closed(xfer[t]) = NoTransfer
    BY <1>2 DEF Closed
  <2>2. XferType(B, NoTransfer) /\ NoTransfer.at = "unused"
    BY EmptySeq DEF XferType, NoTransfer
  <2> QED
    BY <1>2, <2>1, <2>2, OneTransfer
<1> QED
  BY <1>1, <1>2

LEMMA GetAnswerStream ==
  ASSUME NEW B, Alphabet(B), ConnInv, StreamInv(B), NEW t \in Transfer, GetAnswer(t)
  PROVE  StreamInv(B)'
<1> DEFINE f == home[xfer[t].from][xfer[t].name]
           x == [xfer[t] EXCEPT !.at = "copy", !.src = f]
<1>0. Shape /\ XferType(B, xfer[t])
  BY DEF ConnInv, StreamInv
<1>1. /\ xfer[t].at = "await" /\ up' = up /\ home' = home /\ srv' = srv
      /\ f = Missing => xfer' = [xfer EXCEPT ![t] = Closed(xfer[t])]
      /\ f # Missing => xfer' = [xfer EXCEPT ![t] = x]
  BY <1>0 DEF GetAnswer, Shape
<1>2. xfer[t].name \in Path /\ xfer[t].from \in Node
  BY <1>0, <1>1, NamesArePaths DEF XferType
<1>3. f = Missing \/ f \in Seq(B)
  BY <1>2 DEF StreamInv, HomeType
<1>4. up[xfer[t].to] => /\ xfer[t].wrote = xfer[t].name /\ xfer[t].src = << >>
                        /\ xfer[t].pos = 0
  BY <1>1 DEF StreamInv, Copied
<1>5. xfer[t].name \in Seq(B) /\ xfer[t].name \o << >> = xfer[t].name
  BY <1>0, NamesAreSeqs, ConcatEmptySeq DEF XferType
<1>6. CASE f = Missing
  BY <1>1, <1>4, <1>5, <1>6, ClosedStream
<1>7. CASE f # Missing
  <2>1. /\ x.at = "copy" /\ x.src = f /\ x.to = xfer[t].to /\ x.from = xfer[t].from
        /\ x.name = xfer[t].name /\ x.out = xfer[t].out /\ x.wrote = xfer[t].wrote
        /\ x.pos = xfer[t].pos /\ x.ok = xfer[t].ok /\ x.stable = xfer[t].stable
    BY <1>0 DEF Shape
  <2>2. home[x.from][x.name] = f
    BY <2>1
  <2>3. f \in Seq(B)
    BY <1>3, <1>7
  <2>4. xfer' = [xfer EXCEPT ![t] = x] /\ f # Missing
    BY <1>1, <1>7
  <2> HIDE DEF x, f
  <2>5. xfer'[t] = x
    BY <1>0, <2>4 DEF Shape
  <2>6. Grows(B, t)
    BY <2>1, <2>5, SameGrows
  <2>7. XferType(B, x)
    BY <1>0, <1>1, <2>1, <2>3 DEF XferType, Sending
  <2>8. Len(f) \in Nat /\ Take(f, 0) = << >>
    <3>1. Len(f) \in Nat
      BY <2>3, LenProperties
    <3>2. Least(0, Len(f)) = 0
      BY <3>1 DEF Least
    <3> QED
      BY <2>3, <3>1, <3>2, SubSeqEmpty DEF Take
  <2>9. ASSUME up[xfer[t].to] PROVE Copied(x)
    <3>1. x.pos = 0 /\ x.wrote = x.name /\ x.name \o << >> = x.name
      BY <1>4, <1>5, <2>1, <2>9
    <3>2. x.src = f /\ Take(x.src, x.pos) = << >>
      BY <2>1, <2>8, <3>1
    <3>3. x.pos <= Len(x.src)
      BY <2>8, <3>1, <3>2
    <3>4. x.wrote = x.name \o Take(x.src, x.pos)
      BY <3>1, <3>2
    <3> QED
      BY <2>1, <2>2, <2>4, <3>3, <3>4 DEF Copied
  <2> QED
    BY <1>1, <2>1, <2>4, <2>6, <2>7, <2>9, OneTransfer
<1> QED
  BY <1>6, <1>7

LEMMA SendChunkStream ==
  ASSUME NEW B, Alphabet(B), ConnInv, StreamInv(B), NEW t \in Transfer, SendChunk(t)
  PROVE  StreamInv(B)'
<1> DEFINE bytes == Ahead(t)
           x == [xfer[t] EXCEPT !.pos = xfer[t].pos + Len(bytes)]
<1>0. Shape /\ XferType(B, xfer[t])
  BY DEF ConnInv, StreamInv
<1>1. /\ xfer[t].at = "copy" /\ Write(t, bytes, x) /\ home' = home /\ srv' = srv
  BY DEF SendChunk
<1>2. /\ DOMAIN x = DOMAIN xfer[t] /\ x.at = "copy" /\ x.to = xfer[t].to
      /\ x.from = xfer[t].from /\ x.name = xfer[t].name /\ x.out = xfer[t].out
      /\ x.wrote = xfer[t].wrote /\ x.pos = xfer[t].pos + Len(bytes) /\ x.src = xfer[t].src
      /\ x.ok = xfer[t].ok /\ x.stable = xfer[t].stable
  BY <1>0, <1>1 DEF Shape
<1>3. /\ bytes \in Seq(B)
      /\ xfer[t].stable /\ up[xfer[t].to] =>
           bytes = Take(Drop(xfer[t].src, xfer[t].pos), BUF)
  BY <1>1, AheadFacts
<1> HIDE DEF bytes, x
<1>4. Len(bytes) \in Nat
  BY <1>3, LenProperties
<1>5. XferType(B, x)
  BY <1>0, <1>1, <1>2, <1>4 DEF XferType, Sending
<1>6. ASSUME up[x.to]
      PROVE  Copied([x EXCEPT !.out = x.out \o bytes, !.wrote = x.wrote \o bytes])
  <2> DEFINE y == [x EXCEPT !.out = x.out \o bytes, !.wrote = x.wrote \o bytes]
  <2>1. /\ y.at = "copy" /\ y.wrote = x.wrote \o bytes /\ y.name = x.name
        /\ y.src = x.src /\ y.pos = x.pos /\ y.stable = x.stable /\ y.from = x.from
    BY <1>0, <1>2 DEF Shape
  <2>2. ASSUME x.stable
        PROVE  /\ home[x.from][x.name] = x.src /\ x.src # Missing
               /\ x.pos <= Len(x.src) /\ x.wrote \o bytes = x.name \o Take(x.src, x.pos)
    <3>1. /\ home[x.from][x.name] = x.src /\ x.src # Missing
          /\ xfer[t].pos <= Len(x.src)
          /\ x.wrote = x.name \o Take(x.src, xfer[t].pos)
      BY <1>1, <1>2, <1>6, <2>2, ZenonT(60) DEF StreamInv, Copied
    <3>2. x.src \in Seq(B) /\ xfer[t].pos \in Nat /\ BUF \in Nat /\ x.name \in Seq(B)
      BY <1>0, <1>1, <1>2, SizeAssumption DEF XferType, Alphabet
    <3>3. bytes = Take(Drop(x.src, xfer[t].pos), BUF)
      BY <1>2, <1>3, <1>6, <2>2
    <3>4. /\ x.pos <= Len(x.src)
          /\ Take(x.src, xfer[t].pos) \o bytes = Take(x.src, x.pos)
      <4>1. /\ xfer[t].pos + Len(Take(Drop(x.src, xfer[t].pos), BUF)) <= Len(x.src)
            /\ Take(x.src, xfer[t].pos) \o Take(Drop(x.src, xfer[t].pos), BUF)
                 = Take(x.src, xfer[t].pos + Len(Take(Drop(x.src, xfer[t].pos), BUF)))
        BY <3>1, <3>2, TakeMore
      <4> QED
        BY <1>2, <3>3, <4>1
    <3>5. Take(x.src, xfer[t].pos) \in Seq(B)
      BY <3>2, TakeDrop
    <3>6. (x.name \o Take(x.src, xfer[t].pos)) \o bytes
            = x.name \o (Take(x.src, xfer[t].pos) \o bytes)
      <4>1. \A q, r, s \in Seq(B) : (q \o r) \o s = q \o (r \o s) /\ r \o s \in Seq(B)
        BY Regroup
      <4>2. x.name \in Seq(B) /\ Take(x.src, xfer[t].pos) \in Seq(B) /\ bytes \in Seq(B)
        BY <1>3, <3>2, <3>5
      <4> QED
        BY <4>1, <4>2
    <3> QED
      BY <3>1, <3>4, <3>6
  <2> HIDE DEF y
  <2>3. Copied(y)
    BY <2>1, <2>2 DEF Copied
  <2> QED
    BY <2>3 DEF y
<1>7. x.at # "unused" /\ xfer[t].at # "unused"
  BY <1>1, <1>2
<1> QED
  BY <1>1, <1>2, <1>3, <1>5, <1>6, <1>7, WriteStream

LEMMA FinishStream ==
  ASSUME NEW B, Alphabet(B), ConnInv, StreamInv(B), NEW t \in Transfer, Finish(t)
  PROVE  StreamInv(B)'
<1>0. XferType(B, xfer[t])
  BY DEF StreamInv
<1>1. /\ xfer[t].at = "copy" /\ Ahead(t) = << >> /\ up' = up /\ home' = home /\ srv' = srv
      /\ xfer' = [xfer EXCEPT ![t] = Closed(xfer[t])]
  BY DEF Finish
<1>2. ASSUME xfer[t].stable, up[xfer[t].to]
      PROVE  xfer[t].wrote = xfer[t].name \o xfer[t].src
  <2> DEFINE s == xfer[t].src
             p == xfer[t].pos
  <2>1. p <= Len(s) /\ xfer[t].wrote = xfer[t].name \o Take(s, p)
    BY <1>1, <1>2 DEF StreamInv, Copied
  <2>2. s \in Seq(B) /\ p \in Nat /\ BUF \in Nat \ {0}
    BY <1>0, SizeAssumption DEF XferType
  <2>3. Take(Drop(s, p), BUF) = << >>
    BY <1>1, <1>2, AheadFacts
  <2> HIDE DEF s, p
  <2>4. /\ Take(s, p) \o Drop(s, p) = s /\ Take(s, p) \in Seq(B) /\ Drop(s, p) \in Seq(B)
    BY <2>2, TakeDrop
  <2>5. Len(Take(Drop(s, p), BUF)) = Least(BUF, Len(Drop(s, p))) /\ Len(Drop(s, p)) \in Nat
    BY <2>2, <2>4, TakeDrop, LenProperties
  <2>6. Len(Drop(s, p)) = 0
    <3>1. Len(<< >>) = 0
      BY EmptySeq
    <3> QED
      BY <2>2, <2>3, <2>5, <3>1 DEF Least
  <2>7. Drop(s, p) = << >>
    BY <2>4, <2>6, EmptySeq
  <2>8. Take(s, p) \o << >> = Take(s, p)
    BY <2>4, ConcatEmptySeq
  <2> QED
    BY <2>1, <2>4, <2>7, <2>8 DEF s
<1>3. xfer[t].at # "unused"
  BY <1>1
<1> QED
  BY <1>1, <1>2, <1>3, ClosedStream

--------------------------------------------------------------------------------
(* The server's steps, and its file. *)

LEMMA PathKept ==
  ASSUME NEW B, Alphabet(B), NEW p \in Path \cup {<< >>}
  PROVE  p \in Seq(B) /\ NonNul(p) = p
<1>1. p \in Seq(B)
  BY PathType
<1>2. CASE p = << >>
  BY <1>2, NamesAreSeqs
<1>3. ASSUME NEW f \in Name, NEW k \in 0 .. Len(f), p = SubSeq(f, 1, k) PROVE NonNul(p) = p
  <2>1. f \in Seq(B) /\ DOMAIN f = 1 .. Len(f) /\ Len(f) \in Nat
    BY NamesAreSeqs, LenProperties
  <2>2. Len(p) = k /\ \A i \in 1 .. k : p[i] = f[i] /\ i \in DOMAIN f
    BY <1>3, <2>1
  <2>3. \A i \in 1 .. Len(p) : p[i] # NUL
    BY <2>2, NameAssumption DEF Chars
  <2> QED
    BY <1>1, <2>3, NonNulSame
<1> QED
  BY <1>1, <1>2, <1>3 DEF Path

\* A piece of a name is a name that is stored.
LEMMA TakeOfName ==
  ASSUME NEW B, Alphabet(B), NEW f \in Name \cup {<< >>}, NEW k \in Nat
  PROVE  Take(f, k) \in Path \cup {<< >>} /\ Len(Take(f, k)) <= k
<1>1. f \in Seq(B) /\ Len(f) \in Nat
  BY NamesAreSeqs, LenProperties
<1>2. Least(k, Len(f)) \in 0 .. Len(f) /\ Least(k, Len(f)) <= k
  BY <1>1 DEF Least
<1>3. Len(Take(f, k)) <= k
  BY <1>1, <1>2, TakeDrop
<1>4. CASE f = << >>
  <2>1. Take(<< >>, k) = << >>
    BY DEF Take, Least
  <2> QED
    BY <1>3, <1>4, <2>1
<1>5. CASE f \in Name
  <2> DEFINE Cuts(g) == {SubSeq(g, 1, j) : j \in 0 .. Len(g)}
  <2>1. Take(f, k) \in Cuts(f)
    BY <1>2 DEF Take
  <2>2. Path = UNION {Cuts(g) : g \in Name}
    BY DEF Path
  <2> HIDE DEF Cuts
  <2> QED
    BY <1>3, <1>5, <2>1, <2>2
<1> QED
  BY <1>4, <1>5

\* A server that takes a step, and no other machine's connections with it.
LEMMA ServerStream ==
  ASSUME NEW B, Alphabet(B), ConnInv, StreamInv(B), NEW n \in Node,
         \A k \in Node : up'[k] \in BOOLEAN /\ (up'[k] => up[k]),
         \A k \in Node : k # n => srv'[k] = srv[k],
         HomeType(B)', SrvType(B, srv'[n]), \A u \in Transfer : XferType(B, xfer'[u]),
         \A u \in Transfer : xfer[u].to # n =>
           /\ xfer'[u].name = xfer[u].name /\ xfer'[u].out = xfer[u].out
           /\ xfer'[u].wrote = xfer[u].wrote,
         \A u \in Transfer : xfer'[u].at # "unused" /\ up'[xfer'[u].to] => Copied(xfer[u])',
         up'[n] => Received(n)'
  PROVE  StreamInv(B)'
<1>1. ASSUME NEW k \in Node, k # n, up'[k] PROVE Received(k)'
  <2>1. up[k] /\ srv'[k] = srv[k] /\ Connections(k)
    BY <1>1 DEF ConnInv
  <2>2. ASSUME srv[k].at \in {"reply", "open", "body"} PROVE Grows(B, srv[k].cur)
    <3>1. srv[k].cur \in Transfer /\ xfer[srv[k].cur].to # n
      BY <1>1, <2>1, <2>2 DEF Connections, Named
    <3> QED
      BY <3>1, SameGrows
  <2> QED
    BY <2>1, <2>2, KeepsReceived
<1>2. \A k \in Node : SrvType(B, srv[k])'
  BY DEF StreamInv, SrvType
<1> QED
  BY <1>1, <1>2 DEF StreamInv

\* Steps that write no file, and of the transfer served change at most what is to
\* be read of it and whether it was answered.
SameFiles(n) ==
  /\ home' = home
  /\ \A u \in Transfer :
       /\ xfer'[u].at = xfer[u].at /\ xfer'[u].from = xfer[u].from
       /\ xfer'[u].to = xfer[u].to /\ xfer'[u].name = xfer[u].name
       /\ xfer'[u].wrote = xfer[u].wrote /\ xfer'[u].src = xfer[u].src
       /\ xfer'[u].pos = xfer[u].pos /\ xfer'[u].stable = xfer[u].stable
       /\ xfer[u].to # n => xfer'[u].out = xfer[u].out

LEMMA SameFilesStream ==
  ASSUME NEW B, Alphabet(B), ConnInv, StreamInv(B), NEW n \in Node,
         \A k \in Node : up'[k] \in BOOLEAN /\ (up'[k] => up[k]),
         \A k \in Node : k # n => srv'[k] = srv[k],
         SameFiles(n), SrvType(B, srv'[n]),
         \A u \in Transfer : xfer'[u].out \in Seq(B) /\ xfer'[u].ok \in BOOLEAN,
         up'[n] => Received(n)'
  PROVE  StreamInv(B)'
<1>1. \A u \in Transfer : XferType(B, xfer[u])
  BY DEF StreamInv
<1>2. \A u \in Transfer : XferType(B, xfer'[u])
  BY <1>1 DEF XferType, SameFiles
<1>3. ASSUME NEW u \in Transfer, xfer'[u].at # "unused" /\ up'[xfer'[u].to]
      PROVE  Copied(xfer[u])'
  <2>1. xfer[u].at # "unused" /\ up'[xfer[u].to] /\ xfer[u].to \in Node
    BY <1>1, <1>3 DEF SameFiles, XferType
  <2>2. Copied(xfer[u])
    BY <2>1 DEF StreamInv
  <2> QED
    BY <2>2 DEF SameFiles, Copied
<1>4. HomeType(B)'
  BY DEF StreamInv, HomeType, SameFiles
<1>5. \A u \in Transfer : xfer[u].to # n =>
        /\ xfer'[u].name = xfer[u].name /\ xfer'[u].out = xfer[u].out
        /\ xfer'[u].wrote = xfer[u].wrote
  BY DEF SameFiles
<1> QED
  BY <1>2, <1>3, <1>4, <1>5, ServerStream

LEMMA AcceptStream ==
  ASSUME NEW B, Alphabet(B), ConnInv, StreamInv(B), NEW n \in Node, Accept(n)
  PROVE  StreamInv(B)'
<1>0. Shape /\ Connections(n) /\ srv[n].backlog # << >>
  BY DEF ConnInv, Accept, At
<1> DEFINE s == [IdleServer EXCEPT !.at = "name", !.cur = Head(srv[n].backlog),
                                   !.backlog = Tail(srv[n].backlog)]
<1>1. up' = up /\ home' = home /\ xfer' = xfer /\ srv' = [srv EXCEPT ![n] = s]
  BY DEF Accept
<1>2. /\ s.at = "name" /\ s.cur = Head(srv[n].backlog) /\ s.backlog = Tail(srv[n].backlog)
      /\ s.path = << >> /\ s.got = << >>
  BY DEF IdleServer
<1> HIDE DEF s
<1>3. srv'[n] = s /\ \A k \in Node : k # n => srv'[k] = srv[k]
  BY <1>0, <1>1 DEF Shape
<1>4. SrvType(B, s)
  <2>1. srv[n].backlog \in Seq(Transfer) /\ NoTwice(srv[n].backlog)
    BY <1>0 DEF Connections, NoTwice
  <2>2. Tail(srv[n].backlog) \in Seq(Transfer) /\ Head(srv[n].backlog) \in Transfer
    BY <1>0, <2>1, TailFacts
  <2>3. << >> \in Seq(B) /\ Len(<< >>) = 0 /\ NAMEBUF \in Nat
    BY EmptySeq, SizeAssumption
  <2> QED
    BY <1>2, <2>2, <2>3 DEF SrvType
<1>5. Received(n)'
  BY <1>2, <1>3 DEF Received
<1>6. SameFiles(n) /\ \A u \in Transfer : xfer'[u].out \in Seq(B) /\ xfer'[u].ok \in BOOLEAN
  BY <1>1 DEF SameFiles, StreamInv, XferType
<1>7. \A k \in Node : up'[k] \in BOOLEAN /\ (up'[k] => up[k])
  BY <1>1 DEF StreamInv
<1> QED
  BY <1>3, <1>4, <1>5, <1>6, <1>7, SameFilesStream

LEMMA RecvNameStream ==
  ASSUME NEW B, Alphabet(B), ConnInv, StreamInv(B), NEW n \in Node, RecvName(n)
  PROVE  StreamInv(B)'
<1> DEFINE t == srv[n].cur
           o == xfer[t].out
<1>0. Shape /\ Connections(n) /\ srv[n].at = "name" /\ up[n]
  BY DEF ConnInv, RecvName, At
<1>1. t \in Transfer /\ Fresh(n, t) /\ SrvType(B, srv[n]) /\ Received(n)
  BY <1>0 DEF Connections, StreamInv
<1>2. XferType(B, xfer[t]) /\ Copied(xfer[t])
  BY <1>0, <1>1 DEF StreamInv, Fresh
<1>3. /\ srv' = [srv EXCEPT ![n].at = "reply", ![n].path = Take(o, NAMEBUF)]
      /\ xfer' = [xfer EXCEPT ![t].out = Drop(o, NAMEBUF)]
      /\ home' = home /\ (up' = up \/ Exit(n))
  BY DEF RecvName
<1>4. /\ srv'[n].at = "reply" /\ srv'[n].path = Take(o, NAMEBUF)
      /\ srv'[n].cur = t /\ srv'[n].got = srv[n].got /\ srv'[n].backlog = srv[n].backlog
      /\ \A k \in Node : k # n => srv'[k] = srv[k]
  BY <1>0, <1>3 DEF Shape
<1>5. /\ xfer'[t].out = Drop(o, NAMEBUF) /\ xfer'[t].ok = xfer[t].ok
      /\ xfer'[t].wrote = xfer[t].wrote /\ xfer'[t].name = xfer[t].name
      /\ \A u \in Transfer : u # t => xfer'[u] = xfer[u]
      /\ SameFiles(n)
  BY <1>0, <1>1, <1>3, ZenonT(60) DEF Shape, Fresh, SameFiles
<1>6. o = xfer[t].wrote /\ o \in Name \cup {<< >>} /\ (xfer[t].name = << >> => o = << >>)
  BY <1>1, <1>2 DEF Fresh, Copied
<1>7. srv[n].got = << >>
  BY <1>0, <1>1 DEF Received
<1> HIDE DEF t, o
<1>8. o \in Seq(B) /\ NAMEBUF \in Nat
  BY <1>6, NamesAreSeqs, SizeAssumption
<1>9. /\ Take(o, NAMEBUF) \in Seq(B) /\ Drop(o, NAMEBUF) \in Seq(B)
      /\ Take(o, NAMEBUF) \o Drop(o, NAMEBUF) = o
  BY <1>8, TakeDrop
<1>10. Take(o, NAMEBUF) \in Path \cup {<< >>} /\ Len(Take(o, NAMEBUF)) <= NAMEBUF
  BY <1>6, <1>8, TakeOfName
<1>11. NonNul(o) = Take(o, NAMEBUF) \o NonNul(Drop(o, NAMEBUF))
  <2>1. NonNul(Take(o, NAMEBUF)) = Take(o, NAMEBUF)
    BY <1>10, PathKept
  <2>2. NonNul(Take(o, NAMEBUF) \o Drop(o, NAMEBUF))
          = NonNul(Take(o, NAMEBUF)) \o NonNul(Drop(o, NAMEBUF))
    BY <1>9, NonNulConcat
  <2> QED
    BY <1>9, <2>1, <2>2
<1>12. Take(o, NAMEBUF) \o << >> = Take(o, NAMEBUF)
  BY <1>9, ConcatEmptySeq
<1>13. xfer[t].name = << >> => Take(o, NAMEBUF) = << >>
  <2>1. Take(<< >>, NAMEBUF) = << >>
    BY <1>8 DEF Take, Least
  <2> QED
    BY <1>6, <2>1
<1>14. Received(n)'
  BY <1>4, <1>5, <1>6, <1>7, <1>11, <1>12, <1>13 DEF Received
<1>15. SrvType(B, srv'[n])
  BY <1>1, <1>4, <1>10 DEF SrvType
<1>16. \A u \in Transfer : xfer'[u].out \in Seq(B) /\ xfer'[u].ok \in BOOLEAN
  BY <1>2, <1>5, <1>9 DEF StreamInv, XferType
<1>17. \A k \in Node : up'[k] \in BOOLEAN /\ (up'[k] => up[k])
  BY <1>0, <1>3 DEF StreamInv, Exit, Shape
<1> QED
  BY <1>4, <1>5, <1>14, <1>15, <1>16, <1>17, SameFilesStream

LEMMA ReplyStream ==
  ASSUME NEW B, Alphabet(B), ConnInv, StreamInv(B), NEW n \in Node, Reply(n)
  PROVE  StreamInv(B)'
<1> DEFINE t == srv[n].cur
<1>0. Shape /\ Connections(n) /\ srv[n].at = "reply" /\ up[n]
  BY DEF ConnInv, Reply, At
<1>1. t \in Transfer /\ Named(n, t) /\ SrvType(B, srv[n]) /\ Received(n)
  BY <1>0 DEF Connections, StreamInv
<1>2. /\ srv' = [srv EXCEPT ![n].at = "open"] /\ up' = up /\ home' = home
      /\ xfer' = [xfer EXCEPT ![t].ok = TRUE]
  BY DEF Reply
<1>3. /\ srv'[n].at = "open" /\ srv'[n].path = srv[n].path
      /\ srv'[n].cur = t /\ srv'[n].got = srv[n].got /\ srv'[n].backlog = srv[n].backlog
      /\ \A k \in Node : k # n => srv'[k] = srv[k]
  BY <1>0, <1>2 DEF Shape
<1>4. /\ xfer'[t].ok = TRUE
      /\ \A u \in Transfer : xfer'[u].out = xfer[u].out /\ (u # t => xfer'[u] = xfer[u])
      /\ SameFiles(n)
  BY <1>0, <1>1, <1>2 DEF Shape, SameFiles
<1> HIDE DEF t
<1>5. Received(n)'
  BY <1>0, <1>1, <1>3, <1>4, ZenonT(60) DEF Received, SameFiles, t
<1>6. SrvType(B, srv'[n])
  BY <1>1, <1>3 DEF SrvType, t
<1>7. \A u \in Transfer : xfer'[u].out \in Seq(B) /\ xfer'[u].ok \in BOOLEAN
  BY <1>4 DEF StreamInv, XferType
<1>8. \A k \in Node : up'[k] \in BOOLEAN /\ (up'[k] => up[k])
  BY <1>2 DEF StreamInv
<1> QED
  BY <1>3, <1>4, <1>5, <1>6, <1>7, <1>8, SameFilesStream

LEMMA ReadBodyStream ==
  ASSUME NEW B, Alphabet(B), ConnInv, StreamInv(B), NEW n \in Node, ReadBody(n)
  PROVE  StreamInv(B)'
<1> DEFINE t == srv[n].cur
           o == xfer[t].out
           path == srv[n].path
           got == srv[n].got
<1>0. Shape /\ Connections(n) /\ srv[n].at = "body" /\ up[n]
  BY DEF ConnInv, ReadBody, At
<1>1. t \in Transfer /\ Named(n, t) /\ SrvType(B, srv[n]) /\ Received(n)
  BY <1>0 DEF Connections, StreamInv
<1>2. PICK k \in 1 .. Least(BUF, Len(o)) :
        /\ srv' = [srv EXCEPT ![n].got = got \o NonNul(Take(o, k))]
        /\ xfer' = [xfer EXCEPT ![t].out = Drop(o, k)]
        /\ home' = home
  BY DEF ReadBody
<1>3. o \in Seq(B) /\ path \in Seq(B) /\ got \in Seq(B)
  BY <1>1, PathType DEF StreamInv, XferType, SrvType
<1>4. k \in Nat
  BY <1>3, LenProperties, SizeAssumption DEF Least
<1> DEFINE a == NonNul(Take(o, k))
           b == NonNul(Drop(o, k))
<1>5. /\ Take(o, k) \in Seq(B) /\ Drop(o, k) \in Seq(B) /\ a \in Seq(B) /\ b \in Seq(B)
      /\ NonNul(o) = a \o b
  <2> HIDE DEF o
  <2>1. Take(o, k) \in Seq(B) /\ Drop(o, k) \in Seq(B) /\ Take(o, k) \o Drop(o, k) = o
    BY <1>3, <1>4, TakeDrop
  <2>2. NonNul(Take(o, k) \o Drop(o, k)) = a \o b
    BY <2>1, NonNulConcat
  <2> QED
    BY <2>1, <2>2, NonNulType
<1>6. /\ srv'[n].at = "body" /\ srv'[n].path = path /\ srv'[n].got = got \o a
      /\ srv'[n].cur = t /\ srv'[n].backlog = srv[n].backlog
      /\ \A m \in Node : m # n => srv'[m] = srv[m]
  BY <1>0, <1>2 DEF Shape
<1>7. /\ xfer'[t].out = Drop(o, k) /\ xfer'[t].ok = xfer[t].ok
      /\ xfer'[t].name = xfer[t].name /\ xfer'[t].wrote = xfer[t].wrote
      /\ \A u \in Transfer : u # t => xfer'[u] = xfer[u]
      /\ SameFiles(n)
  BY <1>0, <1>1, <1>2, ZenonT(60) DEF Shape, SameFiles, Named
<1>8. /\ path \o got \o NonNul(o) = NonNul(xfer[t].wrote)
      /\ xfer[t].name = << >> => path = << >>
  BY <1>0, <1>1 DEF Received
<1> HIDE DEF t, o, path, got, a, b
<1>9. path \o (got \o a) \o b = path \o got \o (a \o b)
  <2>1. \A x, y, z \in Seq(B) : (x \o y) \o z = x \o (y \o z) /\ y \o z \in Seq(B)
    BY Regroup
  <2>2. path \o got \in Seq(B)
    BY <1>3, ConcatProperties
  <2>3. path \o (got \o a) = (path \o got) \o a
    BY <1>3, <1>5, <2>1, ZenonT(60)
  <2>4. ((path \o got) \o a) \o b = (path \o got) \o (a \o b)
    BY <1>5, <2>1, <2>2
  <2> QED
    BY <2>3, <2>4
<1>10. Received(n)'
  BY <1>5, <1>6, <1>7, <1>8, <1>9 DEF Received, b
<1>11. SrvType(B, srv'[n])
  <2>1. got \o a \in Seq(B)
    BY <1>3, <1>5, ConcatProperties
  <2> QED
    BY <1>1, <1>6, <2>1 DEF SrvType, path, t
<1>12. \A u \in Transfer : xfer'[u].out \in Seq(B) /\ xfer'[u].ok \in BOOLEAN
  BY <1>1, <1>5, <1>7 DEF StreamInv, XferType
<1>13. \A m \in Node : up'[m] \in BOOLEAN /\ (up'[m] => up[m])
  BY DEF StreamInv, ReadBody
<1> QED
  BY <1>6, <1>7, <1>10, <1>11, <1>12, <1>13, SameFilesStream

\* A file that is written: the clients that may be reading it are marked.
LEMMA StoreStream ==
  ASSUME NEW B, Shape, StreamInv(B), NEW n \in Node, NEW p \in Path, NEW content \in Seq(B),
         NEW x, Store(n, p, content, x), DOMAIN x = Transfer, up' = up,
         \A u \in Transfer : x[u] = xfer[u] \/ x[u] = NoTransfer
  PROVE  /\ HomeType(B)' /\ home'[n][p] = content
         /\ \A u \in Transfer :
              /\ XferType(B, xfer'[u])
              /\ x[u] = xfer[u] =>
                   /\ xfer'[u].at = xfer[u].at /\ xfer'[u].to = xfer[u].to
                   /\ xfer'[u].name = xfer[u].name /\ xfer'[u].out = xfer[u].out
                   /\ xfer'[u].wrote = xfer[u].wrote
              /\ xfer'[u].at # "unused" /\ up'[xfer'[u].to] => Copied(xfer[u])'
<1>1. \A m \in Node, q \in Path :
        home'[m][q] = IF m = n /\ q = p THEN content ELSE home[m][q]
  BY DEF Store, StreamInv, HomeType
<1>2. HomeType(B)' /\ home'[n][p] = content
  BY <1>1 DEF Store, StreamInv, HomeType
<1>3. ASSUME NEW u \in Transfer
      PROVE  /\ XferType(B, xfer'[u])
             /\ x[u] = xfer[u] =>
                  /\ xfer'[u].at = xfer[u].at /\ xfer'[u].to = xfer[u].to
                  /\ xfer'[u].name = xfer[u].name /\ xfer'[u].out = xfer[u].out
                  /\ xfer'[u].wrote = xfer[u].wrote
             /\ xfer'[u].at # "unused" /\ up'[xfer'[u].to] => Copied(xfer[u])'
  <2> DEFINE Marked == x[u].at = "copy" /\ x[u].from = n /\ x[u].name = p
                       /\ home[n][p] # content
  <2>1. xfer'[u] = IF Marked THEN [x[u] EXCEPT !.stable = FALSE] ELSE x[u]
    BY DEF Store
  <2>2. DOMAIN xfer[u] = {"from", "to", "name", "at", "pos", "out", "ok", "wrote", "src",
                          "stable"}
    BY DEF Shape
  <2>3. XferType(B, xfer[u]) /\ XferType(B, NoTransfer) /\ NoTransfer.at = "unused"
    BY EmptySeq DEF StreamInv, XferType, NoTransfer
  <2>4. CASE x[u] = NoTransfer
    <3>1. xfer'[u] = NoTransfer
      BY <2>1, <2>3, <2>4
    <3>2. NoTransfer # xfer[u] \/ xfer[u] = NoTransfer
      OBVIOUS
    <3> QED
      BY <2>3, <2>4, <3>1
  <2>5. CASE x[u] = xfer[u] /\ Marked
    <3> DEFINE y == [xfer[u] EXCEPT !.stable = FALSE]
    <3>1. xfer'[u] = y
      BY <2>1, <2>5
    <3>2. /\ y.at = "copy" /\ y.from = xfer[u].from /\ y.to = xfer[u].to
          /\ y.name = xfer[u].name /\ y.out = xfer[u].out /\ y.wrote = xfer[u].wrote
          /\ y.src = xfer[u].src /\ y.pos = xfer[u].pos /\ y.ok = xfer[u].ok
          /\ y.stable = FALSE /\ xfer[u].at = "copy"
      BY <2>2, <2>5
    <3> HIDE DEF y
    <3>3. XferType(B, y)
      BY <2>3, <3>2 DEF XferType
    <3> QED
      BY <3>1, <3>2, <3>3 DEF Copied
  <2>6. CASE x[u] = xfer[u] /\ ~ Marked
    <3>1. xfer'[u] = xfer[u]
      BY <2>1, <2>6
    <3>2. ASSUME xfer[u].at # "unused", up[xfer[u].to] PROVE Copied(xfer[u])'
      <4>1. Copied(xfer[u]) /\ xfer[u].from \in Node /\ xfer[u].name \in Path
        BY <2>3, <3>2, NamesArePaths DEF StreamInv, XferType
      <4>2. xfer[u].at = "copy" =>
              home'[xfer[u].from][xfer[u].name] = home[xfer[u].from][xfer[u].name]
        BY <1>1, <2>6, <4>1
      <4> QED
        BY <3>1, <4>1, <4>2 DEF Copied
    <3> QED
      BY <2>3, <3>1, <3>2
  <2> QED
    BY <2>4, <2>5, <2>6
<1> QED
  BY <1>2, <1>3

LEMMA OpenStream ==
  ASSUME NEW B, Alphabet(B), ConnInv, StreamInv(B), NEW n \in Node, Open(n)
  PROVE  StreamInv(B)'
<1>0. Shape /\ Connections(n) /\ srv[n].at = "open" /\ up[n] /\ up' = up
  BY DEF ConnInv, Open, At
<1>1. srv[n].cur \in Transfer /\ SrvType(B, srv[n]) /\ Received(n)
  BY <1>0 DEF Connections, StreamInv
<1>2. /\ srv'[n].at = "body" /\ srv'[n].path = srv[n].path /\ srv'[n].cur = srv[n].cur
      /\ srv'[n].got = srv[n].got /\ srv'[n].backlog = srv[n].backlog
      /\ \A k \in Node : k # n => srv'[k] = srv[k]
  BY <1>0 DEF Shape, Open
<1>3. /\ HomeType(B)'
      /\ \A u \in Transfer :
           /\ XferType(B, xfer'[u])
           /\ xfer'[u].name = xfer[u].name /\ xfer'[u].out = xfer[u].out
           /\ xfer'[u].wrote = xfer[u].wrote
           /\ xfer'[u].at # "unused" /\ up'[xfer'[u].to] => Copied(xfer[u])'
  <2>1. CASE srv[n].path = << >>
    BY <1>0, <2>1, ZenonT(60) DEF Open, StreamInv, HomeType, Copied
  <2>2. CASE srv[n].path # << >>
    <3> DEFINE empty == << >>
    <3>1. Store(n, srv[n].path, empty, xfer) /\ srv[n].path \in Path /\ empty \in Seq(B)
      BY <1>1, <2>2, EmptySeq DEF Open, SrvType
    <3> HIDE DEF empty
    <3> QED
      BY <1>0, <3>1, StoreStream DEF Shape
  <2> QED
    BY <2>1, <2>2
<1>4. Received(n)'
  BY <1>0, <1>1, <1>2, <1>3 DEF Received
<1>5. SrvType(B, srv'[n])
  BY <1>1, <1>2 DEF SrvType
<1>6. \A k \in Node : up'[k] \in BOOLEAN /\ (up'[k] => up[k])
  BY <1>0 DEF StreamInv
<1> QED
  BY <1>2, <1>3, <1>4, <1>5, <1>6, ServerStream

\* A file that is written, and nothing else: no server takes a step.
LEMMA WrittenStream ==
  ASSUME NEW B, Alphabet(B), ConnInv, StreamInv(B), NEW n \in Node, NEW p \in Path,
         NEW content \in Seq(B), Store(n, p, content, xfer), up' = up, srv' = srv
  PROVE  StreamInv(B)'
<1>0. Shape
  BY DEF ConnInv
<1>1. /\ HomeType(B)'
      /\ \A u \in Transfer :
           /\ XferType(B, xfer'[u])
           /\ xfer'[u].name = xfer[u].name /\ xfer'[u].out = xfer[u].out
           /\ xfer'[u].wrote = xfer[u].wrote
           /\ xfer'[u].at # "unused" /\ up'[xfer'[u].to] => Copied(xfer[u])'
  BY <1>0, StoreStream DEF Shape
<1>2. ASSUME NEW k \in Node, up[k] PROVE Received(k)'
  <2>1. srv[k].at \in {"reply", "open", "body"} => srv[k].cur \in Transfer
    BY <1>2 DEF ConnInv, Connections
  <2> QED
    BY <1>1, <1>2, <2>1, SameGrows, KeepsReceived
<1>3. \A k \in Node : SrvType(B, srv[k])' /\ up'[k] \in BOOLEAN
  BY DEF StreamInv, SrvType
<1> QED
  BY <1>1, <1>2, <1>3 DEF StreamInv

LEMMA FlushStream ==
  ASSUME NEW B, Alphabet(B), ConnInv, StreamInv(B), NEW n \in Node, Flush(n)
  PROVE  StreamInv(B)'
<1>1. SrvType(B, srv[n])
  BY DEF StreamInv
<1>2. /\ Store(n, srv[n].path, srv[n].got, xfer) /\ srv[n].path \in Path
      /\ srv[n].got \in Seq(B) /\ up' = up /\ srv' = srv
  BY <1>1 DEF Flush, SrvType
<1> QED
  BY <1>2, WrittenStream

LEMMA CloseStream ==
  ASSUME NEW B, Alphabet(B), ConnInv, StreamInv(B), NEW n \in Node, Close(n)
  PROVE  StreamInv(B)'
<1> DEFINE t == srv[n].cur
           x == [xfer EXCEPT ![t] = NoTransfer]
           s == [IdleServer EXCEPT !.backlog = srv[n].backlog]
<1>0. Shape /\ Connections(n) /\ srv[n].at = "body" /\ up[n]
  BY DEF ConnInv, Close, At
<1>1. t \in Transfer /\ Named(n, t) /\ SrvType(B, srv[n])
  BY <1>0 DEF Connections, StreamInv
<1>2. CASE srv[n].path = << >>
  BY <1>2, DeathStream DEF Close
<1>3. CASE srv[n].path # << >>
  <2>1. /\ Store(n, srv[n].path, srv[n].got, x) /\ up' = up /\ srv' = [srv EXCEPT ![n] = s]
        /\ srv[n].path \in Path /\ srv[n].got \in Seq(B)
    BY <1>1, <1>3 DEF Close, SrvType
  <2>2. /\ DOMAIN x = Transfer /\ x[t] = NoTransfer
        /\ \A u \in Transfer : u # t => x[u] = xfer[u]
        /\ \A u \in Transfer : x[u] = xfer[u] \/ x[u] = NoTransfer
    BY <1>0, <1>1 DEF Shape
  <2>3. /\ s.at = "accept" /\ s.cur = Missing /\ s.path = << >> /\ s.got = << >>
        /\ s.backlog = srv[n].backlog
    BY DEF IdleServer
  <2>4. srv'[n] = s /\ \A k \in Node : k # n => srv'[k] = srv[k]
    BY <1>0, <2>1 DEF Shape
  <2> HIDE DEF x, s
  <2>5. /\ HomeType(B)'
        /\ \A u \in Transfer :
             /\ XferType(B, xfer'[u])
             /\ x[u] = xfer[u] =>
                  /\ xfer'[u].name = xfer[u].name /\ xfer'[u].out = xfer[u].out
                  /\ xfer'[u].wrote = xfer[u].wrote
             /\ xfer'[u].at # "unused" /\ up'[xfer'[u].to] => Copied(xfer[u])'
    BY <1>0, <2>1, <2>2, StoreStream
  <2>6. \A u \in Transfer : xfer[u].to # n =>
          /\ xfer'[u].name = xfer[u].name /\ xfer'[u].out = xfer[u].out
          /\ xfer'[u].wrote = xfer[u].wrote
    BY <1>1, <2>2, <2>5 DEF Named
  <2>7. SrvType(B, srv'[n])
    <3>1. << >> \in Seq(B) /\ Len(<< >>) = 0 /\ NAMEBUF \in Nat
      BY EmptySeq, SizeAssumption
    <3>2. SrvType(B, s)
      BY <1>1, <2>3, <3>1 DEF SrvType
    <3> QED
      BY <2>4, <3>2
  <2>8. Received(n)'
    BY <2>3, <2>4 DEF Received
  <2>9. \A k \in Node : up'[k] \in BOOLEAN /\ (up'[k] => up[k])
    BY <2>1 DEF StreamInv
  <2> QED
    BY <2>4, <2>5, <2>6, <2>7, <2>8, <2>9, ServerStream
<1> QED
  BY <1>2, <1>3

LEMMA StepStream ==
  ASSUME NEW B, Alphabet(B)
  PROVE  ConnInv /\ StreamInv(B) /\ [Next]_vars => StreamInv(B)'
<1> SUFFICES ASSUME ConnInv, StreamInv(B), [Next]_vars PROVE StreamInv(B)'
  OBVIOUS
<1>1. ASSUME NEW n \in Node, Kill(n) PROVE StreamInv(B)'
  BY <1>1, DeathStream DEF Kill
<1>2. CASE UNCHANGED vars
  BY <1>2 DEF vars, StreamInv, HomeType, Copied, Received
<1> QED
  BY <1>1, <1>2, DialStream, SendNameStream, GetAnswerStream, SendChunkStream, FinishStream,
     AcceptStream, RecvNameStream, ReplyStream, OpenStream, ReadBodyStream, FlushStream,
     CloseStream DEF Next, ClientStep, ServerStep

\* Every character in play is one of Byte.
LEMMA ByteAlphabet == Alphabet(Byte)
<1>1. ASSUME NEW s \in Name \cup FirstFiles, s \in Seq(Chars(s)) PROVE s \in Seq(Byte)
  <2>1. Chars(s) \subseteq Byte
    BY DEF Byte
  <2> QED
    BY <1>1, <2>1, SeqMonotonic
<1>2. ASSUME NEW n \in Node, NEW p \in Path, FirstHome[n][p] # Missing
      PROVE  FirstHome[n][p] \in Seq(Byte)
  BY <1>1, <1>2, HomeAssumption DEF FirstFiles
<1> QED
  BY <1>1, <1>2, NameAssumption DEF Alphabet

--------------------------------------------------------------------------------
(* What that shows of every behaviour. *)

LEMMA StreamAlways == Spec => [](ConnInv /\ StreamInv(Byte))
<1>1. Init => ConnInv /\ StreamInv(Byte)
  BY InitConn, InitStream, ByteAlphabet
<1>2. ConnInv /\ StreamInv(Byte) /\ [Next]_vars => (ConnInv /\ StreamInv(Byte))'
  BY StepConn, StepStream, ByteAlphabet
<1> QED
  BY <1>1, <1>2, PTL DEF Spec

\* The two variables of the machines themselves.
Machines == up \in [Node -> BOOLEAN] /\ kills \in 0 .. MaxKills

LEMMA StepMachines == Machines /\ [Next]_vars => Machines'
<1> SUFFICES ASSUME Machines, [Next]_vars PROVE Machines'
  OBVIOUS
<1>1. \A n : Exit(n) => up' \in [Node -> BOOLEAN]
  BY DEF Machines, Exit
<1>2. CASE UNCHANGED vars
  BY <1>2 DEF vars, Machines
<1>3. ASSUME NEW t \in Transfer, NEW n \in Node, NEW m \in Node, NEW f \in Name,
             Dial(t, n, m, f)
      PROVE  Machines'
  BY <1>1, <1>3 DEF Dial, Machines
<1>4. ASSUME NEW t \in Transfer, ClientStep(t) PROVE Machines'
  <2>1. \A bytes, x : Write(t, bytes, x) => up' \in [Node -> BOOLEAN]
    BY <1>1 DEF Write, Machines
  <2> QED
    BY <1>4, <2>1 DEF ClientStep, SendName, GetAnswer, SendChunk, Finish, Machines
<1>5. ASSUME NEW n \in Node, ServerStep(n) \/ Flush(n) PROVE Machines'
  BY <1>1, <1>5 DEF ServerStep, Accept, RecvName, Reply, Open, ReadBody, Close, Flush, Machines
<1>6. ASSUME NEW n \in Node, Kill(n) PROVE Machines'
  BY <1>1, <1>6, SizeAssumption DEF Kill, Machines
<1> QED
  BY <1>2, <1>3, <1>4, <1>5, <1>6 DEF Next

\* Types, for every instance: above all, what a server holds as a name is never
\* longer than its array, and every character written to disk is one of a name or
\* of a file that was there.
THEOREM TransferTypesCorrect == Spec => []TypeOK
<1>1. Init => Machines
  BY SizeAssumption DEF Init, Machines
<1>2. StreamInv(Byte) /\ Machines => TypeOK
  BY DEF StreamInv, HomeType, XferType, SrvType, Machines, TypeOK
<1> QED
  BY <1>1, <1>2, StepMachines, StreamAlways, PTL DEF Spec

\* The stream is kept, for every size of the buffers, every cut the network makes,
\* and every client that dies.
THEOREM StreamIsKept == Spec => []StreamKept
<1>1. StreamInv(Byte) => StreamKept
  BY DEF StreamInv, Received, StreamKept
<1> QED
  BY <1>1, StreamAlways, PTL

\* The one step that takes a server from its file to the next connection.
LEMMA OnlyCloseAccepts ==
  ASSUME Shape, [Next]_vars, NEW n \in Node, srv[n].at = "body", srv'[n].at = "accept"
  PROVE  Close(n) /\ srv[n].path # << >>
<1>1. srv' # srv
  OBVIOUS
<1>2. \A t \in Transfer : ~ ClientStep(t)
  BY <1>1 DEF ClientStep, SendName, GetAnswer, SendChunk, Finish
<1>3. ASSUME NEW t \in Transfer, NEW k \in Node, NEW m \in Node, NEW f \in Name,
             Dial(t, k, m, f)
      PROVE  FALSE
  <2>1. srv' = [srv EXCEPT ![m].backlog = Append(srv[m].backlog, t)]
    BY <1>1, <1>3 DEF Dial
  <2> QED
    BY <2>1 DEF Shape
<1>4. PICK k \in Node : ServerStep(k)
  BY <1>1, <1>2, <1>3 DEF Next, vars, Flush, Kill
<1>5. ASSUME k # n PROVE srv'[n] = srv[n]
  BY <1>4, <1>5 DEF ServerStep, Accept, RecvName, Reply, Open, ReadBody, Close, Shape
<1>6. k = n
  BY <1>5
<1>7. ~ Accept(n) /\ ~ RecvName(n) /\ ~ Reply(n) /\ ~ Open(n)
  BY DEF Accept, RecvName, Reply, Open, At
<1>8. ~ ReadBody(n)
  BY DEF ReadBody, Shape
<1>9. Close(n)
  BY <1>4, <1>6, <1>7, <1>8 DEF ServerStep
<1> QED
  BY <1>1, <1>9 DEF Close

\* What a server holds of the client's file: a beginning, and in the end all of it.
LEMMA PartOfCopy ==
  ASSUME NEW B, Alphabet(B), ConnInv, StreamInv(B), NEW n \in Node, At(n, "body"),
         srv[n].path # << >>,
         NEW x, x = xfer[srv[n].cur], x.stable, Len(x.name) < NAMEBUF
  PROVE  /\ srv[n].path = x.name
         /\ \E rest \in Seq(B) : /\ NonNul(x.src) = srv[n].got \o rest
                                 /\ x.at = "done" /\ x.out = << >> => rest = << >>
<1> DEFINE path == srv[n].path
           got == srv[n].got
           o == NonNul(x.out)
<1>0. Connections(n) /\ srv[n].at = "body" /\ up[n]
  BY DEF ConnInv, At
<1>1. srv[n].cur \in Transfer /\ Named(n, srv[n].cur) /\ SrvType(B, srv[n]) /\ Received(n)
  BY <1>0 DEF Connections, StreamInv
<1>2. XferType(B, x) /\ Copied(x) /\ x.at # "unused"
  BY <1>0, <1>1 DEF StreamInv, Named
<1>3. path = x.name /\ x.name # << >>
  BY <1>0, <1>1 DEF Named, Received
<1>4. path \in Seq(B) /\ NonNul(path) = path /\ got \in Seq(B)
  BY <1>1, PathKept DEF SrvType
<1>5. x.wrote \in Seq(B) /\ x.src \in Seq(B) /\ x.pos \in Nat /\ x.out \in Seq(B)
  BY <1>2 DEF XferType
<1>6. NonNul(<< >>) = << >> /\ o \in Seq(B) /\ (x.out = << >> => o = << >>)
  BY <1>5, NamesAreSeqs, NonNulType
<1> DEFINE all == got \o o
<1>7. path \o all = NonNul(x.wrote) /\ all \in Seq(B)
  <2>1. path \o got \o o = NonNul(x.wrote)
    BY <1>0, <1>1 DEF Received
  <2> HIDE DEF path, got, o
  <2>2. (path \o got) \o o = path \o (got \o o) /\ got \o o \in Seq(B)
    <3>1. \A p, q, r \in Seq(B) : (p \o q) \o r = p \o (q \o r) /\ q \o r \in Seq(B)
      BY Regroup
    <3> QED
      BY <1>4, <1>6, <3>1
  <2> QED
    BY <2>1, <2>2
<1> HIDE DEF path, got, o, all
\* The content that was written, behind the name, is what stdio got and will get.
<1>8. ASSUME NEW s \in Seq(B), x.wrote = x.name \o s PROVE all = NonNul(s)
  <2>1. NonNul(path \o s) = path \o NonNul(s) /\ NonNul(s) \in Seq(B)
    BY <1>4, NonNulConcat, NonNulType
  <2>2. path \o all = path \o NonNul(s)
    BY <1>3, <1>7, <1>8, <2>1
  <2> QED
    BY <1>4, <1>7, <2>1, <2>2, ConcatSimplifications
<1>9. << >> \in Seq(B) /\ \A s \in Seq(B) : s \o << >> = s
  BY EmptySeq, ConcatEmptySeq
<1>10. \E rest \in Seq(B) : /\ NonNul(x.src) = got \o rest
                            /\ x.at = "done" /\ x.out = << >> => rest = << >>
  <2>1. CASE x.at = "done"
    <3>1. all = NonNul(x.src)
      BY <1>2, <1>5, <1>8, <2>1 DEF Copied
    <3> QED
      BY <1>6, <3>1 DEF all
  <2>2. CASE x.at = "copy"
    <3> DEFINE a == Take(x.src, x.pos)
               b == Drop(x.src, x.pos)
    <3>1. a \in Seq(B) /\ b \in Seq(B) /\ a \o b = x.src
      BY <1>5, TakeDrop
    <3>2. x.wrote = x.name \o a
      BY <1>2, <2>2 DEF Copied
    <3> HIDE DEF a, b
    <3>3. all = NonNul(a)
      BY <1>8, <3>1, <3>2
    <3>4. NonNul(x.src) = all \o NonNul(b) /\ NonNul(b) \in Seq(B)
      BY <3>1, <3>3, NonNulConcat, NonNulType
    <3>5. (got \o o) \o NonNul(b) = got \o (o \o NonNul(b)) /\ o \o NonNul(b) \in Seq(B)
      <4>1. \A p, q, r \in Seq(B) : (p \o q) \o r = p \o (q \o r) /\ q \o r \in Seq(B)
        BY Regroup
      <4>2. got \in Seq(B) /\ o \in Seq(B) /\ NonNul(b) \in Seq(B)
        BY <1>4, <1>6, <3>4
      <4> QED
        BY <4>1, <4>2
    <3> QED
      BY <2>2, <3>4, <3>5 DEF all
  <2>3. CASE x.at = "await"
    <3>1. x.wrote = x.name \o << >> /\ x.src = << >>
      BY <1>2, <1>3, <1>4, <1>9, <2>3 DEF Copied
    <3>2. all = NonNul(x.src)
      BY <1>8, <1>9, <3>1
    <3> QED
      BY <1>6, <2>3, <3>2 DEF all
  <2>4. CASE x.at = "name"
    <3>1. path \o all = << >>
      BY <1>2, <1>6, <1>7, <2>4 DEF Copied
    <3> QED
      BY <1>3, <1>4, <1>7, <3>1, ConcatEqualIffEmpty, ConcatEmptySeq, ConcatProperties, EmptySeq, SMTT(30)
  <2> QED
    BY <1>2, <2>1, <2>2, <2>3, <2>4 DEF XferType, Sending
<1> QED
  BY <1>3, <1>10 DEF path, got

LEMMA PrefixOfConcat ==
  ASSUME NEW S, NEW s \in Seq(S), NEW t \in Seq(S)
  PROVE  IsPrefix(s, s \o t)
<1>1. Len(s) \in Nat /\ Len(t) \in Nat /\ Len(s \o t) = Len(s) + Len(t) /\ s \o t \in Seq(S)
  BY LenProperties, ConcatProperties
<1>2. SubSeq(s \o t, 1, Len(s)) = SubSeq(s, 1, Len(s))
  BY <1>1, SubSeqOfConcat1
<1> QED
  BY <1>1, <1>2 DEF IsPrefix

\* A server closes a true copy of the client's file, or a beginning of it: for every
\* file, every pace of the two and every buffer.
THEOREM CopyIsFaithful == Spec => FaithfulCopy
<1> DEFINE Faithful(n) ==
      srv[n].at = "body" /\ srv'[n].at = "accept" =>
        LET x == xfer[srv[n].cur]
        IN  x.stable /\ Len(x.name) < NAMEBUF =>
              /\ IsPrefix(home'[n][x.name], NonNul(x.src))
              /\ x.at = "done" => home'[n][x.name] = NonNul(x.src)
<1>1. ASSUME ConnInv, StreamInv(Byte), [Next]_vars, NEW n \in Node PROVE Faithful(n)
  <2> DEFINE x == xfer[srv[n].cur]
             got == srv[n].got
  <2> SUFFICES ASSUME srv[n].at = "body", srv'[n].at = "accept", x.stable,
                      Len(x.name) < NAMEBUF
               PROVE  /\ IsPrefix(home'[n][x.name], NonNul(x.src))
                      /\ x.at = "done" => home'[n][x.name] = NonNul(x.src)
    OBVIOUS
  <2>1. Close(n) /\ srv[n].path # << >>
    BY <1>1, OnlyCloseAccepts DEF ConnInv
  <2>2. /\ srv[n].path = x.name
        /\ \E rest \in Seq(Byte) : /\ NonNul(x.src) = srv[n].got \o rest
                                   /\ x.at = "done" => rest = << >>
    BY <1>1, <2>1, ByteAlphabet, PartOfCopy DEF Close
  <2>3. PICK rest \in Seq(Byte) : NonNul(x.src) = got \o rest /\ (x.at = "done" => rest = << >>)
    BY <2>2
  <2>4. got \in Seq(Byte) /\ srv[n].path \in Path
    BY <1>1, <2>1 DEF StreamInv, SrvType
  <2>5. home'[n][x.name] = got
    <3>1. home' = [home EXCEPT ![n][x.name] = got]
      BY <2>1, <2>2 DEF Close, Store
    <3>2. DOMAIN home = Node /\ DOMAIN home[n] = Path
      BY <1>1 DEF StreamInv, HomeType
    <3> QED
      BY <2>2, <2>4, <3>1, <3>2
  <2>6. IsPrefix(got, got \o rest) /\ got \o << >> = got
    BY <2>4, PrefixOfConcat, ConcatEmptySeq
  <2> QED
    BY <2>3, <2>5, <2>6
<1>2. ConnInv /\ StreamInv(Byte) /\ [Next]_vars => [\A n \in Node : Faithful(n)]_vars
  BY <1>1
<1> QED
  BY <1>2, StreamAlways, PTL DEF Spec, FaithfulCopy

--------------------------------------------------------------------------------
(* What is on the server's disk meanwhile. *)

\* The file is a beginning of what was given to stdio.
HeldInv(B) ==
  \A n \in Node : At(n, "body") /\ srv[n].path # << >> =>
    /\ home[n][srv[n].path] # Missing
    /\ \E rest \in Seq(B) : srv[n].got = home[n][srv[n].path] \o rest

\* A server that takes no step, and into whose directory nobody writes.
LEMMA KeepsHeld ==
  ASSUME NEW B, HeldInv(B), NEW n \in Node, up'[n] => up[n], home'[n] = home[n],
         srv'[n].at = srv[n].at, srv'[n].path = srv[n].path, srv'[n].got = srv[n].got
  PROVE  At(n, "body")' /\ srv'[n].path # << >> =>
           /\ home'[n][srv'[n].path] # Missing
           /\ \E rest \in Seq(B) : srv'[n].got = home'[n][srv'[n].path] \o rest
BY DEF HeldInv, At

\* Stdio is given more.
LEMMA ReadBodyHeld ==
  ASSUME NEW B, Alphabet(B), ConnInv, StreamInv(B), HeldInv(B), NEW n \in Node, ReadBody(n),
         srv[n].path # << >>
  PROVE  /\ home'[n][srv'[n].path] # Missing
         /\ \E rest \in Seq(B) : srv'[n].got = home'[n][srv'[n].path] \o rest
<1> DEFINE o == xfer[srv[n].cur].out
           held == home[n][srv[n].path]
<1>0. Shape /\ Connections(n) /\ At(n, "body")
  BY DEF ConnInv, ReadBody, At
<1>1. srv[n].cur \in Transfer /\ SrvType(B, srv[n]) /\ o \in Seq(B)
  BY <1>0 DEF Connections, StreamInv, XferType, At
<1>2. PICK k \in 1 .. Least(BUF, Len(o)) :
        /\ srv' = [srv EXCEPT ![n].got = srv[n].got \o NonNul(Take(o, k))]
        /\ home' = home
  BY DEF ReadBody
<1>3. k \in Nat
  BY <1>1, LenProperties, SizeAssumption DEF Least
<1> HIDE DEF o
<1> DEFINE a == NonNul(Take(o, k))
<1>4. a \in Seq(B)
  BY <1>1, <1>3, TakeDrop, NonNulType
<1> HIDE DEF a
<1>5. srv'[n].path = srv[n].path /\ srv'[n].got = srv[n].got \o a
  BY <1>0, <1>2 DEF Shape, a
<1>6. PICK rest \in Seq(B) : srv[n].got = held \o rest /\ held # Missing
  BY <1>0 DEF HeldInv
<1>7. held \in Seq(B)
  BY <1>1, <1>6 DEF StreamInv, HomeType, SrvType
<1> HIDE DEF held
<1>8. (held \o rest) \o a = held \o (rest \o a) /\ rest \o a \in Seq(B)
  <2>1. \A x, y, z \in Seq(B) : (x \o y) \o z = x \o (y \o z) /\ y \o z \in Seq(B)
    BY Regroup
  <2> QED
    BY <1>4, <1>6, <1>7, <2>1
<1> QED
  BY <1>2, <1>5, <1>6, <1>8 DEF held

\* The file is emptied, or gets all that stdio has.
LEMMA StoreHeld ==
  ASSUME NEW B, Alphabet(B), Missing \notin Seq(B), ConnInv, StreamInv(B), NEW n \in Node, Open(n) \/ Flush(n),
         srv[n].path # << >>
  PROVE  /\ home'[n][srv'[n].path] # Missing
         /\ \E rest \in Seq(B) : srv'[n].got = home'[n][srv'[n].path] \o rest
<1> DEFINE got == srv[n].got
<1>0. Shape /\ up[n] /\ SrvType(B, srv[n]) /\ Received(n)
  BY DEF ConnInv, Open, Flush, At, StreamInv
<1>1. srv'[n].path = srv[n].path /\ srv'[n].got = got
  BY <1>0 DEF Open, Flush, Shape
<1>2. Store(n, srv[n].path, got, xfer)
  BY <1>0 DEF Open, Flush, At, Received
<1>3. srv[n].path \in Path /\ got \in Seq(B)
  BY <1>0 DEF SrvType
<1>4. home'[n][srv[n].path] = got
  BY <1>2, <1>3 DEF Store, StreamInv, HomeType
<1>5. got \o << >> = got /\ << >> \in Seq(B)
  BY <1>3, ConcatEmptySeq, EmptySeq
<1>6. got # Missing
  BY <1>3
<1> QED
  BY <1>1, <1>4, <1>5, <1>6

\* A step leaves every server's file and buffer alone but the one of the server that
\* takes it.
LEMMA StepHeld ==
  ASSUME NEW B, Alphabet(B), Missing \notin Seq(B)
  PROVE  ConnInv /\ StreamInv(B) /\ HeldInv(B) /\ [Next]_vars => HeldInv(B)'
<1> SUFFICES ASSUME ConnInv, StreamInv(B), HeldInv(B), [Next]_vars PROVE HeldInv(B)'
  OBVIOUS
<1>0. Shape /\ HomeType(B)
  BY DEF ConnInv, StreamInv
<1>1. ASSUME \A n \in Node : /\ up'[n] => up[n]
                             /\ home'[n] = home[n] /\ srv'[n].at = srv[n].at
                             /\ srv'[n].path = srv[n].path /\ srv'[n].got = srv[n].got
      PROVE  HeldInv(B)'
  BY <1>1, KeepsHeld DEF HeldInv
<1>2. CASE UNCHANGED vars
  BY <1>1, <1>2 DEF vars
<1>3. ASSUME NEW t \in Transfer, NEW n \in Node, NEW m \in Node, NEW f \in Name,
             Dial(t, n, m, f)
      PROVE  HeldInv(B)'
  <2>1. up' = up \/ up' = [up EXCEPT ![n] = FALSE]
    BY <1>3 DEF Dial, Exit
  <2>2. \/ srv' = srv
        \/ srv' = [srv EXCEPT ![m].backlog = Append(srv[m].backlog, t)]
    BY <1>3 DEF Dial
  <2> QED
    BY <1>0, <1>1, <1>3, <2>1, <2>2 DEF Dial, Shape
<1>4. ASSUME NEW t \in Transfer, ClientStep(t) PROVE HeldInv(B)'
  <2>1. home' = home /\ srv' = srv
    BY <1>4 DEF ClientStep, SendName, GetAnswer, SendChunk, Finish
  <2>2. up' = up \/ \E n : up' = [up EXCEPT ![n] = FALSE]
    BY <1>4 DEF ClientStep, SendName, GetAnswer, SendChunk, Finish, Write, Exit
  <2>3. \A n \in Node : up'[n] => up[n]
    BY <1>0, <2>2 DEF Shape
  <2> QED
    BY <1>1, <2>1, <2>3
<1>5. ASSUME NEW n \in Node, Kill(n) PROVE HeldInv(B)'
  BY <1>0, <1>1, <1>5 DEF Kill, Exit, Shape
<1>6. ASSUME NEW n \in Node, ServerStep(n) \/ Flush(n) PROVE HeldInv(B)'
  <2>1. \A k \in Node : k # n => srv'[k] = srv[k]
    BY <1>0, <1>6 DEF ServerStep, Accept, RecvName, Reply, Open, ReadBody, Close, Flush, Shape
  <2>2. \A k \in Node : k # n => home'[k] = home[k]
    BY <1>0, <1>6 DEF ServerStep, Accept, RecvName, Reply, Open, ReadBody, Close, Flush, Store,
                      HomeType
  <2>3. \A k \in Node : up'[k] => up[k]
    BY <1>0, <1>6 DEF ServerStep, Accept, RecvName, Reply, Open, ReadBody, Close, Flush, Exit,
                      Shape
  <2>4. At(n, "body")' /\ srv'[n].path # << >> =>
          /\ home'[n][srv'[n].path] # Missing
          /\ \E rest \in Seq(B) : srv'[n].got = home'[n][srv'[n].path] \o rest
    <3> SUFFICES ASSUME At(n, "body")', srv'[n].path # << >>
                 PROVE  /\ home'[n][srv'[n].path] # Missing
                        /\ \E rest \in Seq(B) : srv'[n].got = home'[n][srv'[n].path] \o rest
      OBVIOUS
    <3>1. srv'[n].at = "body" /\ up'[n]
      BY DEF At
    <3>2. ~ Accept(n) /\ ~ RecvName(n) /\ ~ Reply(n)
      <4>1. Accept(n) => srv'[n].at = "name"
        BY <1>0 DEF Accept, Shape, IdleServer
      <4>2. RecvName(n) => srv'[n].at = "reply"
        BY <1>0 DEF RecvName, Shape
      <4>3. Reply(n) => srv'[n].at = "open"
        BY <1>0 DEF Reply, Shape
      <4> QED
        BY <3>1, <4>1, <4>2, <4>3
    <3>3. ~ Close(n)
      BY <1>0, <3>1 DEF Close, Exit, Shape, IdleServer
    <3>4. srv'[n].path = srv[n].path
      BY <1>0, <1>6, <3>2, <3>3 DEF ServerStep, Open, ReadBody, Flush, Shape
    <3> QED
      BY <1>6, <3>2, <3>3, <3>4, ReadBodyHeld, StoreHeld DEF ServerStep
  <2>5. ASSUME NEW k \in Node, k # n
        PROVE  At(k, "body")' /\ srv'[k].path # << >> =>
                 /\ home'[k][srv'[k].path] # Missing
                 /\ \E rest \in Seq(B) : srv'[k].got = home'[k][srv'[k].path] \o rest
    BY <2>1, <2>2, <2>3, <2>5, KeepsHeld
  <2> QED
    BY <2>4, <2>5 DEF HeldInv
<1> QED
  BY <1>2, <1>3, <1>4, <1>5, <1>6 DEF Next

\* Whatever dies and whenever, what it leaves on a server's disk is a beginning of the
\* client's file.
THEOREM DiskHoldsBeginning == Spec => []HeldIsBeginning
<1> DEFINE Inv == ConnInv /\ StreamInv(Byte) /\ HeldInv(Byte)
<1>1. Init => Inv
  BY InitConn, InitStream, ByteAlphabet DEF HeldInv, Init, IdleServer, At
<1>2. Inv /\ [Next]_vars => Inv'
  BY StepConn, StepStream, StepHeld, ByteAlphabet, MissingAssumption
<1>3. Inv => HeldIsBeginning
  <2> SUFFICES ASSUME Inv, NEW n \in Node, At(n, "body"), srv[n].path # << >>,
                      NEW x, x = xfer[srv[n].cur], x.stable, Len(x.name) < NAMEBUF
               PROVE  home[n][x.name] # Missing /\ IsPrefix(home[n][x.name], NonNul(x.src))
    BY DEF HeldIsBeginning
  <2> DEFINE held == home[n][x.name]
             got == srv[n].got
  <2>1. /\ srv[n].path = x.name
        /\ \E rest \in Seq(Byte) : /\ NonNul(x.src) = got \o rest
                                   /\ x.at = "done" /\ x.out = << >> => rest = << >>
    BY ByteAlphabet, PartOfCopy
  <2>2. PICK rest \in Seq(Byte) : NonNul(x.src) = got \o rest
    BY <2>1
  <2>3. PICK more \in Seq(Byte) : got = held \o more /\ held # Missing
    BY <2>1 DEF HeldInv
  <2>4. held \in Seq(Byte)
    BY <2>1, <2>3 DEF StreamInv, HomeType, SrvType
  <2> HIDE DEF held, got
  <2>5. (held \o more) \o rest = held \o (more \o rest) /\ more \o rest \in Seq(Byte)
    <3>1. \A u, v, w \in Seq(Byte) : (u \o v) \o w = u \o (v \o w) /\ v \o w \in Seq(Byte)
      BY Regroup
    <3> QED
      BY <2>2, <2>3, <2>4, <3>1
  <2>6. IsPrefix(held, held \o (more \o rest))
    BY <2>4, <2>5, PrefixOfConcat
  <2> QED
    BY <2>2, <2>3, <2>5, <2>6 DEF held
<1> HIDE DEF Inv
<1> QED
  BY <1>1, <1>2, <1>3, PTL DEF Spec

--------------------------------------------------------------------------------
(* The network: files go from their origin to other machines, and not back. *)

\* A step after which each transfer is unused, or has the ends and the name it had.
EndsKept ==
  \A t \in Transfer : xfer'[t].at # "unused" =>
    /\ xfer[t].at # "unused"
    /\ xfer'[t].from = xfer[t].from /\ xfer'[t].to = xfer[t].to
    /\ xfer'[t].name = xfer[t].name

LEMMA ClientKeepsEnds ==
  ASSUME Shape, NEW t \in Transfer, ClientStep(t)
  PROVE  EndsKept
<1>1. xfer[t].at \in {"name", "await", "copy"}
  BY DEF ClientStep, SendName, GetAnswer, SendChunk, Finish
<1>2. CASE xfer' = xfer
  BY <1>2 DEF EndsKept
<1>3. CASE \E y : /\ xfer' = [xfer EXCEPT ![t] = y]
                  /\ y.at # "unused" => /\ y.from = xfer[t].from /\ y.to = xfer[t].to
                                        /\ y.name = xfer[t].name
  <2>1. PICK y : /\ xfer' = [xfer EXCEPT ![t] = y]
                 /\ y.at # "unused" => /\ y.from = xfer[t].from /\ y.to = xfer[t].to
                                       /\ y.name = xfer[t].name
    BY <1>3
  <2>2. xfer'[t] = y /\ \A u \in Transfer : u # t => xfer'[u] = xfer[u]
    BY <2>1 DEF Shape
  <2> QED
    BY <1>1, <2>1, <2>2 DEF EndsKept
<1>4. ASSUME NEW bytes, NEW x, Write(t, bytes, x), DOMAIN x = DOMAIN xfer[t],
             x.from = xfer[t].from, x.to = xfer[t].to, x.name = xfer[t].name
      PROVE  EndsKept
  <2> DEFINE y == [x EXCEPT !.out = x.out \o bytes, !.wrote = x.wrote \o bytes]
  <2>1. y.from = x.from /\ y.to = x.to /\ y.name = x.name
    BY <1>4 DEF Shape
  <2>2. \/ xfer' = [xfer EXCEPT ![t] = y]
        \/ xfer' = [xfer EXCEPT ![t] = x]
        \/ xfer' = xfer
    BY <1>4 DEF Write
  <2> HIDE DEF y
  <2> QED
    BY <1>2, <1>3, <1>4, <2>1, <2>2
<1>5. CASE SendName(t)
  <2> DEFINE x == [xfer[t] EXCEPT !.at = "await"]
  <2>1. /\ DOMAIN x = DOMAIN xfer[t] /\ x.from = xfer[t].from /\ x.to = xfer[t].to
        /\ x.name = xfer[t].name
    BY DEF Shape
  <2>2. Write(t, xfer[t].name, x)
    BY <1>5 DEF SendName
  <2> HIDE DEF x
  <2> QED
    BY <1>4, <2>1, <2>2
<1>6. CASE SendChunk(t)
  <2> DEFINE x == [xfer[t] EXCEPT !.pos = xfer[t].pos + Len(Ahead(t))]
  <2>1. /\ DOMAIN x = DOMAIN xfer[t] /\ x.from = xfer[t].from /\ x.to = xfer[t].to
        /\ x.name = xfer[t].name
    BY DEF Shape
  <2>2. Write(t, Ahead(t), x)
    BY <1>6 DEF SendChunk
  <2> HIDE DEF x
  <2> QED
    BY <1>4, <2>1, <2>2
<1>7. CASE GetAnswer(t) \/ Finish(t)
  <2> DEFINE x == xfer[t]
             Fields(y) == y.at # "unused" => /\ y.from = x.from /\ y.to = x.to
                                             /\ y.name = x.name
  <2>1. Fields(Closed(x))
    BY DEF Shape, Closed, NoTransfer
  <2>2. ASSUME NEW f PROVE Fields([x EXCEPT !.at = "copy", !.src = f])
    BY DEF Shape
  <2>3. \/ xfer' = [xfer EXCEPT ![t] = Closed(x)]
        \/ \E f : xfer' = [xfer EXCEPT ![t] = [x EXCEPT !.at = "copy", !.src = f]]
    BY <1>7 DEF GetAnswer, Finish, Shape
  <2> QED
    BY <1>3, <2>1, <2>2, <2>3, ZenonT(60)
<1> QED
  BY <1>5, <1>6, <1>7 DEF ClientStep

LEMMA StoreKeepsEnds ==
  ASSUME Shape, NEW n, NEW p, NEW content, NEW x, Store(n, p, content, x),
         x = xfer \/ \E t : x = [xfer EXCEPT ![t] = NoTransfer]
  PROVE  EndsKept
<1>1. /\ DOMAIN x = Transfer
      /\ \A t \in Transfer : DOMAIN x[t] = {"from", "to", "name", "at", "pos", "out", "ok",
                                            "wrote", "src", "stable"}
      /\ \A t \in Transfer : x[t] = xfer[t] \/ x[t] = NoTransfer
  BY DEF Shape, NoTransfer
<1>2. \A t \in Transfer : /\ xfer'[t].at = x[t].at /\ xfer'[t].from = x[t].from
                          /\ xfer'[t].to = x[t].to /\ xfer'[t].name = x[t].name
  BY <1>1, StoreKeeps
<1> QED
  BY <1>1, <1>2 DEF EndsKept, NoTransfer

LEMMA ServerKeepsEnds ==
  ASSUME Shape, NEW n \in Node, ServerStep(n) \/ Flush(n)
  PROVE  EndsKept
<1>1. CASE xfer' = xfer
  BY <1>1 DEF EndsKept
<1>2. CASE RecvName(n) \/ ReadBody(n)
  <2>1. PICK t, s : xfer' = [xfer EXCEPT ![t].out = s]
    BY <1>2 DEF RecvName, ReadBody
  <2> QED
    BY <2>1 DEF Shape, EndsKept
<1>3. CASE Reply(n)
  <2>1. PICK t : xfer' = [xfer EXCEPT ![t].ok = TRUE]
    BY <1>3 DEF Reply
  <2> QED
    BY <2>1 DEF Shape, EndsKept
<1>4. ASSUME NEW p, NEW content, NEW x, Store(n, p, content, x),
             x = xfer \/ \E t : x = [xfer EXCEPT ![t] = NoTransfer]
      PROVE  EndsKept
  BY <1>4, StoreKeepsEnds
<1> QED
  BY <1>1, <1>2, <1>3, <1>4 DEF ServerStep, Accept, Open, Flush, Close

\* What machine n has to send: files of its own, to others.
Tasks(n) == {<<f, m>> : f \in {g \in Name : Origin[g] = n}, m \in Node \ {n}}

\* Each transfer is such a task, and each copy is of such a file; names are paths.
\* Nobody dies: nobody writes to a daemon that has ended, no name is blank, and
\* none reaches the end of the server's array.
NetInv ==
  /\ ConnInv
  /\ \A n \in Node : up[n]
  /\ \A t \in Transfer : xfer[t].at # "unused" =>
       xfer[t].from \in Node /\ <<xfer[t].name, xfer[t].to>> \in Tasks(xfer[t].from)
  /\ DOMAIN todo = Node /\ \A n \in Node : todo[n] \in Seq(Tasks(n))
  /\ DOMAIN cp = Node
  /\ \A n \in Node : cp[n] # NoCopy => cp[n].name \in Name /\ Origin[cp[n].name] = n
  /\ DOMAIN home = Node /\ \A n \in Node : DOMAIN home[n] = Path

\* A finite set as a sequence.
LEMMA SetAsSeq ==
  ASSUME NEW S, IsFiniteSet(S)
  PROVE  SetToSeq(S) \in Seq(S)
<1>1. Cardinality(S) \in Nat /\ ExistsBijection(1 .. Cardinality(S), S)
  BY FS_CardinalityType
<1>2. \E g \in [1 .. Cardinality(S) -> S] : IsInjective(g)
  BY <1>1 DEF ExistsBijection, Bijection, Injection
<1>3. SetToSeq(S) \in [1 .. Cardinality(S) -> S]
  BY <1>2 DEF SetToSeq
<1> QED
  BY <1>1, <1>3

LEMMA EntriesAreTasks ==
  ASSUME NEW n \in Node, NEW f \in Name, Origin[f] = n
  PROVE  Entries(n, f) \in Seq(Tasks(n))
<1> DEFINE Others == Node \ {n}
           S == {<<f, m>> : m \in Others}
           g == [m \in Others |-> <<f, m>>]
<1>1. IsFiniteSet(Others)
  BY FiniteAssumption, FS_Subset
<1>2. g \in Surjection(Others, S)
  BY DEF Surjection
<1>3. IsFiniteSet(S)
  BY <1>1, <1>2, FS_Surjection
<1>4. SetToSeq(S) \in Seq(S)
  BY <1>3, SetAsSeq
<1>5. S \subseteq Tasks(n)
  BY DEF Tasks
<1> HIDE DEF S
<1>6. SetToSeq(S) \in Seq(Tasks(n))
  BY <1>4, <1>5
<1> QED
  BY <1>6 DEF Entries, S

LEMMA InitNet == NetworkInit => NetInv
<1> SUFFICES ASSUME NetworkInit PROVE NetInv
  OBVIOUS
<1>1. ConnInv
  BY InitConn DEF NetworkInit
<1>2. \A t \in Transfer : xfer[t].at = "unused"
  BY DEF NetworkInit, Init, NoTransfer
<1>3. \A n \in Node : up[n]
  BY DEF NetworkInit, Init
<1>4. DOMAIN home = Node /\ \A n \in Node : DOMAIN home[n] = Path
  BY HomeAssumption DEF NetworkInit, Init
<1>5. DOMAIN todo = Node /\ \A n \in Node : todo[n] \in Seq(Tasks(n))
  BY DEF NetworkInit
<1>6. DOMAIN cp = Node /\ \A n \in Node : cp[n] = NoCopy
  BY DEF NetworkInit
<1> QED
  BY <1>1, <1>2, <1>3, <1>4, <1>5, <1>6 DEF NetInv

\* Store changes one file.
LEMMA StoreHome ==
  ASSUME NetInv, NEW n \in Node, NEW p \in Path, NEW content, NEW x,
         Store(n, p, content, x)
  PROVE  /\ DOMAIN home' = Node /\ \A m \in Node : DOMAIN home'[m] = Path
         /\ \A m \in Node, q \in Path : m # n \/ q # p => home'[m][q] = home[m][q]
BY DEF NetInv, Store

\* Steps of the transfers that keep the tasks they have.
LEMMA NetTransfers ==
  ASSUME NetInv, EndsKept
  PROVE  \A t \in Transfer : xfer'[t].at # "unused" =>
           xfer'[t].from \in Node /\ <<xfer'[t].name, xfer'[t].to>> \in Tasks(xfer'[t].from)
BY DEF NetInv, EndsKept

\* What a server that serves somebody works at: a file of another machine.
LEMMA ServesOthers ==
  ASSUME NetInv, NEW n \in Node, srv[n].at \in {"reply", "open", "body"}
  PROVE  srv[n].path \in Name /\ srv[n].path # << >> /\ Origin[srv[n].path] # n
<1> DEFINE t == srv[n].cur
<1>1. t \in Transfer /\ Named(n, t)
  BY DEF NetInv, ConnInv, Connections
<1>2. <<xfer[t].name, n>> \in Tasks(xfer[t].from) /\ up[xfer[t].from]
  BY <1>1 DEF NetInv, Named
<1>3. xfer[t].name \in Name /\ Origin[xfer[t].name] # n
  BY <1>2 DEF Tasks
<1>4. srv[n].path = xfer[t].name
  BY <1>1, <1>2, <1>3, FitAssumption DEF Named
<1> QED
  BY <1>3, <1>4, FitAssumption

\* What a step does that takes a file nowhere it does not belong.
Onward == \A f \in Name : home'[Origin[f]][f] = home[Origin[f]][f]

LEMMA StoreOnward ==
  ASSUME NetInv, NEW n \in Node, NEW p \in Name, Origin[p] # n, NEW content, NEW x,
         Store(n, p, content, x)
  PROVE  Onward
<1>1. \A f \in Name : Origin[f] \in Node /\ f \in Path /\ (f = p => Origin[f] # n)
  BY OriginAssumption, NamesArePaths
<1>2. \A m \in Node, q \in Path : m # n \/ q # p => home'[m][q] = home[m][q]
  BY NamesArePaths, StoreHome
<1> QED
  BY <1>1, <1>2 DEF Onward

\* The steps that are FileTransfer's own.
LEMMA ServerNet ==
  ASSUME NetInv, NEW n \in Node, ServerMoves(n) \/ FlushMoves(n)
  PROVE  NetInv' /\ Onward
<1>1. ServerStep(n) \/ Flush(n)
  BY DEF ServerMoves, FlushMoves
<1>2. ConnInv'
  BY <1>1, AcceptConn, RecvNameConn, ReplyConn, StoreConn, ReadBodyConn, CloseConn
     DEF ServerStep, NetInv
<1>3. EndsKept
  BY <1>1, ServerKeepsEnds DEF NetInv, ConnInv
<1>4. up' = up
  <2>1. CASE RecvName(n)
    <3>1. Fresh(n, srv[n].cur)
      BY <2>1 DEF NetInv, ConnInv, Connections, RecvName, At
    <3>2. ~ Len(xfer[srv[n].cur].out) >= NAMEBUF
      <4>1. CASE xfer[srv[n].cur].out = << >>
        BY <4>1, SizeAssumption
      <4>2. CASE xfer[srv[n].cur].out = xfer[srv[n].cur].name
        <5>1. PICK S : xfer[srv[n].cur].name \in Seq(S)
          BY <3>1, NameAssumption DEF Fresh
        <5> QED
          BY <3>1, <4>2, <5>1, FitAssumption, SizeAssumption DEF Fresh
      <4> QED
        BY <3>1, <4>1, <4>2 DEF Fresh
    <3> QED
      BY <2>1, <3>2 DEF RecvName
  <2>2. CASE Close(n)
    BY <2>2, ServesOthers DEF Close, At
  <2> QED
    BY <1>1, <2>1, <2>2 DEF ServerStep, Accept, Reply, Open, ReadBody, Flush
<1>5. \/ home' = home
      \/ \E p \in Name : \E content, x : Origin[p] # n /\ Store(n, p, content, x)
  BY <1>1, ServesOthers
     DEF ServerStep, Accept, RecvName, Reply, Open, ReadBody, Close, Flush, At
<1>6. /\ Onward /\ DOMAIN home' = Node
      /\ \A m \in Node : DOMAIN home'[m] = Path
  <2>1. CASE home' = home
    BY <2>1 DEF Onward, NetInv
  <2>2. ASSUME NEW p \in Name, NEW content, NEW x, Origin[p] # n, Store(n, p, content, x)
        PROVE  /\ Onward /\ DOMAIN home' = Node
               /\ \A m \in Node : DOMAIN home'[m] = Path
    BY <2>2, StoreOnward, StoreHome, NamesArePaths
  <2> QED
    BY <1>5, <2>1, <2>2
<1>7. todo' = todo /\ cp' = cp
  BY DEF ServerMoves, FlushMoves, network
<1>8. \A t \in Transfer : xfer'[t].at # "unused" =>
        xfer'[t].from \in Node /\ <<xfer'[t].name, xfer'[t].to>> \in Tasks(xfer'[t].from)
  BY <1>3, NetTransfers
<1> QED
  BY <1>2, <1>4, <1>6, <1>7, <1>8 DEF NetInv

LEMMA ClientNet ==
  ASSUME NetInv, NEW t \in Transfer, ClientMoves(t)
  PROVE  NetInv' /\ Onward
<1>1. ClientStep(t) /\ cp' = cp /\ home' = home
  BY DEF ClientMoves, ClientStep, SendName, GetAnswer, SendChunk, Finish
<1>2. ConnInv' /\ EndsKept
  BY <1>1, ClientConn, ClientKeepsEnds DEF NetInv, ConnInv
<1>3. xfer[t].at # "unused"
  BY <1>1 DEF ClientStep, SendName, GetAnswer, SendChunk, Finish
<1>4. xfer[t].to \in Node
  BY <1>3 DEF NetInv, Tasks
<1>5. up' = up
  <2>1. CASE GetAnswer(t) \/ Finish(t)
    BY <2>1 DEF GetAnswer, Finish
  <2>2. ASSUME NEW bytes, NEW x, x.to = xfer[t].to, Write(t, bytes, x) PROVE up' = up
    BY <1>4, <2>2 DEF Write, NetInv
  <2>3. CASE SendName(t)
    <3>1. [xfer[t] EXCEPT !.at = "await"].to = xfer[t].to
      BY DEF NetInv, ConnInv, Shape
    <3> QED
      BY <2>2, <2>3, <3>1 DEF SendName
  <2>4. CASE SendChunk(t)
    <3>1. [xfer[t] EXCEPT !.pos = xfer[t].pos + Len(Ahead(t))].to = xfer[t].to
      BY DEF NetInv, ConnInv, Shape
    <3> QED
      BY <2>2, <2>4, <3>1 DEF SendChunk
  <2> QED
    BY <1>1, <2>1, <2>3, <2>4 DEF ClientStep
<1>6. DOMAIN todo' = Node /\ \A n \in Node : todo'[n] \in Seq(Tasks(n))
  <2>1. ASSUME NEW n \in Node PROVE Drop(todo[n], 1) \in Seq(Tasks(n))
    <3>1. todo[n] \in Seq(Tasks(n))
      BY DEF NetInv
    <3> QED
      BY <3>1 DEF Drop
  <2>2. todo' = todo \/ todo' = [todo EXCEPT ![xfer[t].from] = Drop(todo[xfer[t].from], 1)]
    BY DEF ClientMoves
  <2>3. ASSUME NEW n \in Node PROVE todo'[n] \in {todo[n], Drop(todo[n], 1)}
    BY <2>2 DEF NetInv
  <2>4. DOMAIN todo' = Node
    BY <2>2 DEF NetInv
  <2> QED
    BY <2>1, <2>3, <2>4 DEF NetInv
<1>7. \A u \in Transfer : xfer'[u].at # "unused" =>
        xfer'[u].from \in Node /\ <<xfer'[u].name, xfer'[u].to>> \in Tasks(xfer'[u].from)
  BY <1>2, NetTransfers
<1> QED
  BY <1>1, <1>2, <1>5, <1>6, <1>7 DEF NetInv, Onward

LEMMA SendNet ==
  ASSUME NetInv, NEW n \in Node, SendOldest(n)
  PROVE  NetInv' /\ Onward
<1> DEFINE m == Head(todo[n])[2]
           f == Head(todo[n])[1]
<1>1. Head(todo[n]) \in Tasks(n)
  BY DEF NetInv, SendOldest
<1>2. m \in Node \ {n} /\ f \in Name /\ <<f, m>> \in Tasks(n)
  BY <1>1 DEF Tasks
<1>3. PICK t \in Transfer : Dial(t, n, m, f)
  BY DEF SendOldest
<1> HIDE DEF m, f
<1>4. ConnInv'
  BY <1>2, <1>3, DialConn DEF NetInv
<1>5. /\ up' = up /\ home' = home
      /\ xfer' = [xfer EXCEPT ![t] =
           [NoTransfer EXCEPT !.from = n, !.to = m, !.name = f, !.at = "name"]]
  BY <1>2, <1>3 DEF Dial, NetInv
<1>6. /\ xfer'[t].from = n /\ xfer'[t].to = m /\ xfer'[t].name = f
      /\ \A u \in Transfer : u # t => xfer'[u] = xfer[u]
  BY <1>5 DEF NetInv, ConnInv, Shape, NoTransfer
<1>7. \A u \in Transfer : xfer'[u].at # "unused" =>
        xfer'[u].from \in Node /\ <<xfer'[u].name, xfer'[u].to>> \in Tasks(xfer'[u].from)
  BY <1>2, <1>6 DEF NetInv
<1>8. todo' = todo /\ cp' = cp
  BY DEF SendOldest, network
<1> QED
  BY <1>4, <1>5, <1>7, <1>8 DEF NetInv, Onward

\* The user's steps write at the origin, and cp tells.
LEMMA AddConn ==
  ASSUME NetInv, NEW n, NEW p, NEW content, Store(n, p, content, xfer),
         up' = up, srv' = srv
  PROVE  ConnInv'
<1>0. Shape
  BY DEF NetInv, ConnInv
<1>1. /\ DOMAIN xfer' = Transfer
      /\ \A u \in Transfer :
           /\ DOMAIN xfer'[u] = DOMAIN xfer[u]
           /\ \A k \in DOMAIN xfer[u] \ {"stable"} : xfer'[u][k] = xfer[u][k]
  BY <1>0, StoreKeeps DEF Shape
<1>2. Shape'
  BY <1>0, <1>1 DEF Shape
<1>3. \A u \in Transfer :
        /\ xfer'[u].to = xfer[u].to /\ xfer'[u].from = xfer[u].from
        /\ xfer'[u].name = xfer[u].name /\ xfer'[u].at = xfer[u].at
        /\ xfer'[u].out = xfer[u].out /\ xfer'[u].ok = xfer[u].ok
  BY <1>0, <1>1 DEF Shape
<1>4. \A k \in Node, u \in Transfer : Untouched(k, u)
  BY <1>3 DEF Untouched, Fresh
<1> QED
  BY <1>2, <1>4, KeepsConnections DEF NetInv, ConnInv

LEMMA AddBeginsNet ==
  ASSUME NetInv, NEW f \in Name, NEW content, AddBegins(f, content)
  PROVE  NetInv' /\ cp' # cp
<1> DEFINE n == Origin[f]
<1>1. n \in Node
  BY OriginAssumption
<1>2. /\ Store(n, f, << >>, xfer) /\ up' = up /\ srv' = srv /\ todo' = todo
      /\ cp[n] = NoCopy /\ cp' = [cp EXCEPT ![n] = [name |-> f, content |-> content]]
  BY DEF AddBegins
<1>3. cp'[n] = [name |-> f, content |-> content] /\ \A m \in Node : m # n => cp'[m] = cp[m]
  BY <1>1, <1>2 DEF NetInv
<1>4. cp' # cp
  BY <1>2, <1>3, FitAssumption DEF NoCopy
<1>5. ConnInv' /\ EndsKept
  BY <1>2, AddConn, StoreKeepsEnds DEF NetInv, ConnInv
<1>6. \A t \in Transfer : xfer'[t].at # "unused" =>
        xfer'[t].from \in Node /\ <<xfer'[t].name, xfer'[t].to>> \in Tasks(xfer'[t].from)
  BY <1>5, NetTransfers
<1>7. DOMAIN home' = Node /\ \A m \in Node : DOMAIN home'[m] = Path
  BY <1>1, <1>2, StoreHome, NamesArePaths
<1>8. DOMAIN cp' = Node
  BY <1>2 DEF NetInv
<1> QED
  BY <1>2, <1>3, <1>4, <1>5, <1>6, <1>7, <1>8 DEF NetInv

LEMMA AddEndsNet ==
  ASSUME NetInv, NEW n \in Node, AddEnds(n)
  PROVE  NetInv' /\ cp' # cp
<1> DEFINE f == cp[n].name
<1>1. f \in Name /\ Origin[f] = n /\ cp[n] # NoCopy
  BY DEF NetInv, AddEnds
<1>2. /\ Store(n, f, cp[n].content, xfer) /\ up' = up /\ srv' = srv
      /\ todo' = [todo EXCEPT ![n] = todo[n] \o Entries(n, f)]
      /\ cp' = [cp EXCEPT ![n] = NoCopy]
  BY DEF AddEnds
<1>3. cp'[n] = NoCopy /\ \A m \in Node : m # n => cp'[m] = cp[m]
  BY <1>2 DEF NetInv
<1>4. cp' # cp
  BY <1>1, <1>3
<1>5. ConnInv' /\ EndsKept
  BY <1>2, AddConn, StoreKeepsEnds DEF NetInv, ConnInv
<1>6. \A t \in Transfer : xfer'[t].at # "unused" =>
        xfer'[t].from \in Node /\ <<xfer'[t].name, xfer'[t].to>> \in Tasks(xfer'[t].from)
  BY <1>5, NetTransfers
<1>7. DOMAIN home' = Node /\ \A m \in Node : DOMAIN home'[m] = Path
  BY <1>1, <1>2, StoreHome, NamesArePaths
<1>8. DOMAIN todo' = Node /\ \A m \in Node : todo'[m] \in Seq(Tasks(m))
  <2>1. Entries(n, f) \in Seq(Tasks(n)) /\ todo[n] \in Seq(Tasks(n))
    BY <1>1, EntriesAreTasks DEF NetInv
  <2>2. todo[n] \o Entries(n, f) \in Seq(Tasks(n))
    BY <2>1
  <2> QED
    BY <1>2, <2>2 DEF NetInv
<1>9. DOMAIN cp' = Node
  BY <1>2 DEF NetInv
<1> QED
  BY <1>2, <1>3, <1>4, <1>5, <1>6, <1>7, <1>8, <1>9 DEF NetInv

LEMMA StepNet == NetInv /\ [NetworkNext]_allvars => NetInv' /\ (Onward \/ cp' # cp)
<1> SUFFICES ASSUME NetInv, [NetworkNext]_allvars PROVE NetInv' /\ (Onward \/ cp' # cp)
  OBVIOUS
<1>1. CASE UNCHANGED allvars
  <2>1. ConnInv' /\ Onward
    BY <1>1 DEF allvars, vars, NetInv, ConnInv, Shape, Connections, Waits, Fresh, Named, Onward
  <2> QED
    BY <1>1, <2>1 DEF allvars, vars, network, NetInv
<1> QED
  BY <1>1, AddBeginsNet, AddEndsNet, SendNet, ServerNet, ClientNet DEF NetworkNext

\* A transfer never changes the origin's own file, whatever the number of machines,
\* files and versions, and however the transfers and the user's copies interleave.
THEOREM NoWayBack == NetworkSpec => OneWay
<1>1. NetInv /\ [NetworkNext]_allvars =>
        [\A f \in Name : home'[Origin[f]][f] # home[Origin[f]][f] => cp' # cp]_allvars
  BY StepNet DEF Onward
<1> QED
  BY <1>1, InitNet, StepNet, PTL DEF NetworkSpec, OneWay

--------------------------------------------------------------------------------
(* The network: no version is lost.                                             *)

\* Every character that may come into play when versions are given too.
AllBytes == Byte \cup UNION {Chars(v) : v \in Version}

LEMMA AllBytesAlphabet == Alphabet(AllBytes) /\ \A v \in Version : v \in Seq(AllBytes)
<1>1. Byte \subseteq AllBytes
  BY DEF AllBytes
<1>2. \A s \in Seq(Byte) : s \in Seq(AllBytes)
  BY <1>1, SeqMonotonic
<1>3. ASSUME NEW v \in Version PROVE v \in Seq(AllBytes)
  <2>1. Chars(v) \subseteq AllBytes
    BY DEF AllBytes
  <2> QED
    BY <2>1, VersionAssumption, SeqMonotonic
<1> QED
  BY <1>2, <1>3, ByteAlphabet DEF Alphabet

\* A connection to machine m is in the hands of its server, or waits for it.
Held(t, m) == Waits(m, t) \/ (srv[m].at # "accept" /\ srv[m].cur = t)

\* The clients' side: of one machine, one transfer at a time is being sent, and it is
\* of the oldest entry; until it reads its file nothing can have gone wrong with it.
\* The server's side: each connection is somewhere.
WorkInv ==
  /\ \A t, u \in Transfer :
       xfer[t].at \in Sending /\ xfer[u].at \in Sending /\ xfer[t].from = xfer[u].from => t = u
  /\ \A t \in Transfer : xfer[t].at \in Sending =>
       /\ todo[xfer[t].from] # << >>
       /\ Head(todo[xfer[t].from]) = <<xfer[t].name, xfer[t].to>>
  /\ \A t \in Transfer : xfer[t].at \in {"name", "await"} => xfer[t].stable
  /\ \A t \in Transfer : xfer[t].at # "unused" => Held(t, xfer[t].to)

\* The user's side: a file that was given is being copied or is there.
GivenInv ==
  /\ given \subseteq Name
  /\ \A n \in Node : cp[n] # NoCopy => cp[n].content \in Version
  /\ \A f \in given : cp[Origin[f]].name = f \/ home[Origin[f]][f] # Missing

SyncInv ==
  /\ NetInv /\ StreamInv(AllBytes) /\ WorkInv /\ GivenInv
  /\ NoVersionLost

\* The first of a queue.
LEMMA HeadIsFirst ==
  ASSUME NetInv, NEW n \in Node
  PROVE  /\ DOMAIN todo[n] = 1 .. Len(todo[n]) /\ Len(todo[n]) \in Nat
         /\ todo[n] # << >> => 1 \in DOMAIN todo[n] /\ Head(todo[n]) = todo[n][1]
<1>1. todo[n] \in Seq(Tasks(n))
  BY DEF NetInv
<1> QED
  BY <1>1

\* A transfer's origin is where it comes from.
LEMMA FromOrigin ==
  ASSUME NetInv, NEW t \in Transfer, xfer[t].at # "unused"
  PROVE  /\ xfer[t].name \in Name /\ xfer[t].from = Origin[xfer[t].name]
         /\ xfer[t].from \in Node /\ xfer[t].to \in Node /\ xfer[t].to # xfer[t].from
BY DEF NetInv, Tasks

\* The transfer at work is of the first entry, and is the only one.
LEMMA AtWork ==
  ASSUME NetInv, WorkInv, NEW f \in Name, NEW m \in Node, NEW t \in Transfer,
         xfer[t].at \in Sending, xfer[t].from = Origin[f], todo[Origin[f]][1] = <<f, m>>
  PROVE  xfer[t].name = f /\ xfer[t].to = m
<1>1. Origin[f] \in Node
  BY OriginAssumption
<1>2. Head(todo[Origin[f]]) = <<xfer[t].name, xfer[t].to>> /\ todo[Origin[f]] # << >>
  BY DEF WorkInv
<1>3. <<xfer[t].name, xfer[t].to>> = <<f, m>>
  BY <1>1, <1>2, HeadIsFirst
<1> QED
  BY <1>3

\* One that has not read its file yet has all of the newest version before it.
LEMMA BeforeReading ==
  ASSUME NetInv, WorkInv, NEW f \in Name, NEW m \in Node, NEW t \in Transfer,
         Carries(t, f, m), xfer[t].at \in {"name", "await"}
  PROVE  Queued(f, m)
<1>1. xfer[t].from = Origin[f] /\ Origin[f] \in Node /\ xfer[t].at \in Sending
  BY FromOrigin DEF Carries, Sending
<1>2. todo[Origin[f]] # << >> /\ Head(todo[Origin[f]]) = <<f, m>>
  BY <1>1 DEF WorkInv, Carries
<1>3. 1 \in DOMAIN todo[Origin[f]] /\ todo[Origin[f]][1] = <<f, m>>
  BY <1>1, <1>2, HeadIsFirst
<1>4. \A u \in Transfer : ~ (xfer[u].from = Origin[f] /\ xfer[u].at = "copy")
  BY <1>1 DEF WorkInv, Sending
<1> QED
  BY <1>3, <1>4 DEF Queued

--------------------------------------------------------------------------------
(* The user's steps. *)

\* Store marks transfers from n that read p; every other one is as before.
LEMMA StoreXfer ==
  ASSUME Shape, NEW n \in Node, NEW p, NEW content, Store(n, p, content, xfer)
  PROVE  \A t \in Transfer :
           /\ xfer'[t].at = xfer[t].at /\ xfer'[t].from = xfer[t].from
           /\ xfer'[t].to = xfer[t].to /\ xfer'[t].name = xfer[t].name
           /\ xfer'[t].src = xfer[t].src
           /\ xfer'[t] # xfer[t] => /\ xfer[t].at = "copy" /\ xfer[t].from = n
                                    /\ xfer[t].name = p
BY DEF Store, Shape

\* What a step of the user's at n with file g does to the entries and the transfers
\* of every other file: nothing.
LEMMA OtherFiles ==
  ASSUME SyncInv, NEW n \in Node, NEW g \in Name, Origin[g] = n, NEW content,
         Store(n, g, content, xfer), NEW f \in given, f # g, NEW m \in Node \ {Origin[f]},
         cp[Origin[f]].name = f => cp'[Origin[f]].name = f,
         \A i \in DOMAIN todo[Origin[f]] :
           i \in DOMAIN todo'[Origin[f]] /\ todo'[Origin[f]][i] = todo[Origin[f]][i]
  PROVE  cp'[Origin[f]].name = f \/ Queued(f, m)' \/ Sent(f, m)' \/ Arrived(f, m)'
<1>0. NetInv /\ WorkInv /\ Shape /\ f \in Name /\ Origin[f] \in Node
  BY OriginAssumption DEF SyncInv, NetInv, ConnInv, GivenInv
<1>1. \A t \in Transfer :
        /\ xfer'[t].at = xfer[t].at /\ xfer'[t].from = xfer[t].from
        /\ xfer'[t].to = xfer[t].to /\ xfer'[t].name = xfer[t].name
        /\ xfer'[t].src = xfer[t].src
        /\ xfer'[t] # xfer[t] => xfer[t].at = "copy" /\ xfer[t].from = n /\ xfer[t].name = g
  BY <1>0, StoreXfer
<1>2. home'[Origin[f]][f] = home[Origin[f]][f] /\ home'[m][f] = home[m][f]
  <2>1. g \in Path /\ f \in Path
    BY <1>0, NamesArePaths
  <2> QED
    BY <1>0, <2>1, StoreHome
<1>3. cp[Origin[f]].name = f \/ Queued(f, m) \/ Sent(f, m) \/ Arrived(f, m)
  BY DEF SyncInv, NoVersionLost
<1>4. CASE Queued(f, m)
  <2>1. PICK i \in DOMAIN todo[Origin[f]] :
          /\ todo[Origin[f]][i] = <<f, m>>
          /\ i = 1 => \A t \in Transfer :
                        xfer[t].from = Origin[f] /\ xfer[t].at = "copy" => xfer[t].stable
    BY <1>4 DEF Queued
  <2>2. ASSUME i = 1, NEW t \in Transfer, xfer'[t].from = Origin[f], xfer'[t].at = "copy"
        PROVE  xfer'[t].stable
    <3>1. xfer[t].from = Origin[f] /\ xfer[t].at = "copy" /\ xfer[t].stable
      BY <1>1, <2>1, <2>2
    <3>2. xfer[t].name = f
      BY <1>0, <2>1, <2>2, <3>1, AtWork DEF Sending
    <3> QED
      BY <1>1, <3>1, <3>2
  <2> QED
    BY <2>1, <2>2 DEF Queued
<1>5. CASE Sent(f, m)
  <2>1. PICK t \in Transfer : /\ Carries(t, f, m) /\ xfer[t].at = "done" /\ xfer[t].stable
                              /\ xfer[t].src = home[Origin[f]][f]
    BY <1>5 DEF Sent
  <2>2. xfer'[t] = xfer[t]
    BY <1>1, <2>1
  <2> QED
    BY <1>2, <2>1, <2>2 DEF Sent, Carries
<1>6. CASE Arrived(f, m)
  BY <1>1, <1>2, <1>6 DEF Arrived, SameAtPeer, Carries
<1> QED
  BY <1>3, <1>4, <1>5, <1>6

\* The rest of what these steps keep.
LEMMA WriteKeeps ==
  ASSUME SyncInv, NEW n \in Node, NEW g \in Name, NEW content \in Seq(AllBytes),
         Store(n, g, content, xfer), up' = up, srv' = srv,
         \A k \in Node : todo[k] # << >> => todo'[k] # << >> /\ Head(todo'[k]) = Head(todo[k])
  PROVE  StreamInv(AllBytes)' /\ WorkInv'
<1>0. Shape /\ ConnInv /\ StreamInv(AllBytes) /\ WorkInv /\ g \in Path
  BY NamesArePaths DEF SyncInv, NetInv, ConnInv
<1>1. StreamInv(AllBytes)'
  BY <1>0, AllBytesAlphabet, WrittenStream
<1>2. \A t \in Transfer :
        /\ xfer'[t].at = xfer[t].at /\ xfer'[t].from = xfer[t].from
        /\ xfer'[t].to = xfer[t].to /\ xfer'[t].name = xfer[t].name
        /\ xfer[t].at \in {"name", "await"} => xfer'[t] = xfer[t]
  BY <1>0, StoreXfer
<1>3. \A t \in Transfer : xfer[t].at \in Sending => xfer[t].from \in Node
  BY <1>0 DEF StreamInv, XferType, Sending
<1>4. \A t \in Transfer, m \in Node : Held(t, m)' <=> Held(t, m)
  BY DEF Held, Waits
<1>5. \A t \in Transfer : xfer[t].at # "unused" => xfer[t].to \in Node
  BY <1>0 DEF StreamInv, XferType
<1>6. \A t, u \in Transfer :
        xfer'[t].at \in Sending /\ xfer'[u].at \in Sending /\ xfer'[t].from = xfer'[u].from
          => t = u
  BY <1>0, <1>2 DEF WorkInv
<1>7. ASSUME NEW t \in Transfer, xfer'[t].at \in Sending
      PROVE  /\ todo'[xfer'[t].from] # << >>
             /\ Head(todo'[xfer'[t].from]) = <<xfer'[t].name, xfer'[t].to>>
  <2>1. /\ todo[xfer[t].from] # << >> /\ xfer[t].from \in Node
        /\ Head(todo[xfer[t].from]) = <<xfer[t].name, xfer[t].to>>
    BY <1>0, <1>2, <1>3, <1>7 DEF WorkInv
  <2>2. /\ todo'[xfer[t].from] # << >>
        /\ Head(todo'[xfer[t].from]) = Head(todo[xfer[t].from])
    BY <2>1
  <2> QED
    BY <1>2, <2>1, <2>2
<1>8. \A t \in Transfer : xfer'[t].at \in {"name", "await"} => xfer'[t].stable
  BY <1>0, <1>2 DEF WorkInv
<1>9. \A t \in Transfer : xfer'[t].at # "unused" => Held(t, xfer[t].to)'
  BY <1>0, <1>2, <1>4, <1>5 DEF WorkInv, Held, Waits
<1> QED
  BY <1>1, <1>6, <1>7, <1>8, <1>9 DEF WorkInv

LEMMA AddBeginsSync ==
  ASSUME SyncInv, NEW g \in Name, NEW content \in Version, AddBegins(g, content)
  PROVE  SyncInv'
<1> DEFINE n == Origin[g]
<1>0. n \in Node /\ NetInv /\ GivenInv /\ << >> \in Seq(AllBytes)
  BY OriginAssumption, EmptySeq DEF SyncInv
<1>1. /\ Store(n, g, << >>, xfer) /\ up' = up /\ srv' = srv /\ todo' = todo
      /\ given' = given \cup {g} /\ cp[n] = NoCopy
      /\ cp' = [cp EXCEPT ![n] = [name |-> g, content |-> content]]
  BY DEF AddBegins
<1>2. /\ cp'[n].name = g /\ cp'[n].content = content
      /\ \A k \in Node : k # n => cp'[k] = cp[k]
  BY <1>0, <1>1 DEF NetInv
<1>3. NetInv'
  BY <1>0, AddBeginsNet
<1>4. StreamInv(AllBytes)' /\ WorkInv'
  BY <1>0, <1>1, WriteKeeps
<1>5. \A f \in given : cp[Origin[f]].name = f => f # g /\ Origin[f] # n
  BY <1>0, <1>1, FitAssumption DEF GivenInv, NoCopy
<1>6. \A f \in given : f \in Name /\ f \in Path /\ Origin[f] \in Node
  BY <1>0, OriginAssumption, NamesArePaths DEF GivenInv
<1>7. GivenInv'
  <2>1. \A f \in given : f # g => home'[Origin[f]][f] = home[Origin[f]][f]
    BY <1>0, <1>1, <1>6, NamesArePaths, StoreHome
  <2> QED
    BY <1>0, <1>1, <1>2, <1>5, <1>6, <2>1 DEF GivenInv
<1>8. ASSUME NEW f \in given', NEW m \in Node \ {Origin[f]}
      PROVE  cp'[Origin[f]].name = f \/ Queued(f, m)' \/ Sent(f, m)' \/ Arrived(f, m)'
  <2>1. CASE f = g
    BY <1>2, <2>1
  <2>2. CASE f # g
    <3>1. f \in given /\ (cp[Origin[f]].name = f => cp'[Origin[f]].name = f)
      BY <1>1, <1>2, <1>5, <1>6, <2>2
    <3> QED
      BY <1>0, <1>1, <2>2, <3>1, OtherFiles
  <2> QED
    BY <2>1, <2>2
<1> QED
  BY <1>3, <1>4, <1>7, <1>8 DEF SyncInv, NoVersionLost

\* Every peer has an entry of a file that is told.
LEMMA EntriesOfAll ==
  ASSUME NEW n \in Node, NEW f, NEW m \in Node \ {n}
  PROVE  \E i \in DOMAIN Entries(n, f) : Entries(n, f)[i] = <<f, m>>
<1> DEFINE Others == Node \ {n}
           S == {<<f, k>> : k \in Others}
           g == [k \in Others |-> <<f, k>>]
           c == Cardinality(S)
           s == SetToSeq(S)
<1>1. IsFiniteSet(Others)
  BY FiniteAssumption, FS_Subset
<1>2. g \in Surjection(Others, S)
  BY DEF Surjection
<1>3. IsFiniteSet(S)
  BY <1>1, <1>2, FS_Surjection
<1>4. <<f, m>> \in S
  OBVIOUS
<1>5. Entries(n, f) = s
  BY DEF Entries
<1> HIDE DEF S
<1>6. c \in Nat /\ ExistsBijection(1 .. c, S)
  BY <1>3, FS_CardinalityType
<1>7. \E h \in [1 .. c -> S] : IsInjective(h)
  BY <1>6 DEF ExistsBijection, Bijection, Injection
<1>8. s \in [1 .. c -> S] /\ IsInjective(s)
  BY <1>7 DEF SetToSeq
<1>9. Cardinality(1 .. c) = c
  BY <1>6, FS_Interval
<1>10. s \in Surjection(1 .. c, S)
  BY <1>3, <1>8, <1>9, FS_Injection DEF Injection
<1> HIDE DEF s, c
<1> QED
  BY <1>4, <1>5, <1>10 DEF Surjection

LEMMA AddEndsSync ==
  ASSUME SyncInv, NEW n \in Node, AddEnds(n)
  PROVE  SyncInv'
<1> DEFINE g == cp[n].name
           content == cp[n].content
           new == Entries(n, g)
<1>0. NetInv /\ GivenInv /\ WorkInv
  BY DEF SyncInv
<1>1. /\ Store(n, g, content, xfer) /\ up' = up /\ srv' = srv /\ given' = given
      /\ todo' = [todo EXCEPT ![n] = todo[n] \o new] /\ cp[n] # NoCopy
      /\ cp' = [cp EXCEPT ![n] = NoCopy]
  BY DEF AddEnds
<1>2. g \in Name /\ Origin[g] = n /\ g \in Path /\ content \in Version
  BY <1>0, <1>1, NamesArePaths DEF NetInv, GivenInv
<1>3. content \in Seq(AllBytes) /\ content # Missing
  BY <1>2, AllBytesAlphabet, VersionAssumption
<1>4. new \in Seq(Tasks(n)) /\ \A k \in Node : todo[k] \in Seq(Tasks(k))
  BY <1>0, <1>2, EntriesAreTasks DEF NetInv
<1> HIDE DEF g, content, new
<1>5. /\ \A k \in Node : k # n => todo'[k] = todo[k] /\ cp'[k] = cp[k]
      /\ todo'[n] = todo[n] \o new
  BY <1>0, <1>1 DEF NetInv
<1>6. /\ DOMAIN todo'[n] = 1 .. Len(todo[n]) + Len(new) /\ Len(todo[n]) \in Nat
      /\ Len(new) \in Nat /\ DOMAIN todo[n] = 1 .. Len(todo[n]) /\ DOMAIN new = 1 .. Len(new)
      /\ \A i \in 1 .. Len(todo[n]) : todo'[n][i] = todo[n][i]
      /\ \A i \in 1 .. Len(new) : todo'[n][Len(todo[n]) + i] = new[i]
  BY <1>4, <1>5
<1>7. \A k \in Node : todo[k] # << >> => todo'[k] # << >> /\ Head(todo'[k]) = Head(todo[k])
  BY <1>4, <1>5
<1>8. NetInv'
  BY <1>0, AddEndsNet
<1>9. StreamInv(AllBytes)' /\ WorkInv'
  BY <1>1, <1>2, <1>3, <1>7, WriteKeeps
<1>10. \A f \in given : f \in Name /\ f \in Path /\ Origin[f] \in Node
  BY <1>0, OriginAssumption, NamesArePaths DEF GivenInv
<1>11. \A f \in given : f # g =>
         /\ home'[Origin[f]][f] = home[Origin[f]][f]
         /\ cp[Origin[f]].name = f => cp'[Origin[f]].name = f
  BY <1>0, <1>1, <1>2, <1>5, <1>10, StoreHome DEF g
<1>12. home'[n][g] = content
  BY <1>0, <1>1, <1>2 DEF Store, NetInv
<1>13. GivenInv'
  <2>1. \A k \in Node : cp'[k] # NoCopy => cp'[k] = cp[k]
    BY <1>0, <1>1 DEF NetInv
  <2> QED
    BY <1>0, <1>1, <1>2, <1>3, <1>11, <1>12, <2>1 DEF GivenInv
<1>14. ASSUME NEW f \in given, NEW m \in Node \ {Origin[f]}
       PROVE  cp'[Origin[f]].name = f \/ Queued(f, m)' \/ Sent(f, m)' \/ Arrived(f, m)'
  <2>1. CASE f = g
    <3>1. PICK i \in DOMAIN new : new[i] = <<f, m>>
      BY <1>2, <2>1, EntriesOfAll, ZenonT(60) DEF new
    <3>2. Len(todo[n]) + i \in DOMAIN todo'[n] /\ todo'[n][Len(todo[n]) + i] = <<f, m>>
      BY <1>6, <3>1, SMTT(30)
    <3>3. ASSUME Len(todo[n]) + i = 1, NEW t \in Transfer, xfer'[t].from = n,
                 xfer'[t].at = "copy"
          PROVE  FALSE
      <4>1. todo[n] = << >>
        BY <1>4, <1>6, <3>1, <3>3
      <4>2. xfer[t].from = n /\ xfer[t].at = "copy"
        BY <1>0, <1>1, <3>3, StoreXfer DEF NetInv, ConnInv
      <4> QED
        BY <1>0, <4>1, <4>2 DEF WorkInv, Sending
    <3> QED
      BY <1>2, <2>1, <3>2, <3>3 DEF Queued
  <2>2. CASE f # g
    <3>1. \A i \in DOMAIN todo[Origin[f]] :
            i \in DOMAIN todo'[Origin[f]] /\ todo'[Origin[f]][i] = todo[Origin[f]][i]
      <4>1. CASE Origin[f] = n
        BY <1>6, <4>1
      <4>2. CASE Origin[f] # n
        BY <1>5, <1>10, <4>2
      <4> QED
        BY <4>1, <4>2
    <3> QED
      BY <1>1, <1>2, <1>11, <2>2, <3>1, OtherFiles
  <2> QED
    BY <2>1, <2>2
<1> QED
  BY <1>1, <1>8, <1>9, <1>13, <1>14 DEF SyncInv, NoVersionLost

--------------------------------------------------------------------------------
(* The clients' steps. *)

LEMMA SendOldestSync ==
  ASSUME SyncInv, NEW n \in Node, SendOldest(n)
  PROVE  SyncInv'
<1>0. NetInv /\ WorkInv /\ GivenInv /\ Shape /\ StreamInv(AllBytes)
  BY DEF SyncInv, NetInv, ConnInv
<1>1. Head(todo[n]) \in Tasks(n) /\ todo[n] # << >>
  BY <1>0 DEF NetInv, SendOldest
<1>2. PICK m0 \in Node \ {n}, f0 \in Name : Origin[f0] = n /\ Head(todo[n]) = <<f0, m0>>
  BY <1>1 DEF Tasks
<1>3. PICK t \in Transfer : Dial(t, n, m0, f0)
  BY <1>2 DEF SendOldest
<1>4. todo' = todo /\ cp' = cp /\ given' = given
  BY DEF SendOldest, network
<1>5. /\ up' = up /\ home' = home /\ xfer[t].at = "unused"
      /\ srv' = [srv EXCEPT ![m0].backlog = Append(srv[m0].backlog, t)]
      /\ xfer' = [xfer EXCEPT ![t] =
           [NoTransfer EXCEPT !.from = n, !.to = m0, !.name = f0, !.at = "name"]]
  BY <1>0, <1>2, <1>3 DEF Dial, NetInv
<1>6. /\ xfer'[t].from = n /\ xfer'[t].to = m0 /\ xfer'[t].name = f0 /\ xfer'[t].at = "name"
      /\ xfer'[t].stable = TRUE
      /\ \A u \in Transfer : u # t => xfer'[u] = xfer[u]
  BY <1>0, <1>5 DEF Shape, NoTransfer
<1>7. \A u \in Transfer : ~ (xfer[u].from = n /\ xfer[u].at \in Sending)
  <2> DEFINE Busy == {u \in Transfer : xfer[u].from = n /\ xfer[u].at \in Sending}
  <2>1. IsFiniteSet(Busy)
    BY FiniteAssumption, FS_Subset
  <2>2. Cardinality(Busy) < 1
    BY <1>3, ModeAssumption DEF Dial
  <2>3. Cardinality(Busy) \in Nat /\ (Cardinality(Busy) = 0 <=> Busy = {})
    BY <2>1, FS_CardinalityType, FS_EmptySet
  <2> QED
    BY <2>2, <2>3
<1>8. NetInv'
  BY <1>0, SendNet
<1>9. StreamInv(AllBytes)'
  <2>1. Next
    BY <1>2, <1>3 DEF Next
  <2> QED
    BY <1>0, <2>1, AllBytesAlphabet, StepStream DEF NetInv
<1>10. WorkInv'
  <2>1. \A u, v \in Transfer :
          xfer'[u].at \in Sending /\ xfer'[v].at \in Sending /\ xfer'[u].from = xfer'[v].from
            => u = v
    BY <1>0, <1>6, <1>7 DEF WorkInv
  <2>2. \A u \in Transfer : xfer'[u].at \in Sending =>
          /\ todo'[xfer'[u].from] # << >>
          /\ Head(todo'[xfer'[u].from]) = <<xfer'[u].name, xfer'[u].to>>
    BY <1>0, <1>1, <1>2, <1>4, <1>6 DEF WorkInv
  <2>3. \A u \in Transfer : xfer'[u].at \in {"name", "await"} => xfer'[u].stable
    BY <1>0, <1>6 DEF WorkInv
  <2>4. /\ \A k \in Node : srv'[k].at = srv[k].at /\ srv'[k].cur = srv[k].cur
        /\ \A k \in Node : k # m0 => srv'[k].backlog = srv[k].backlog
        /\ srv'[m0].backlog = Append(srv[m0].backlog, t)
    BY <1>0, <1>2, <1>5 DEF Shape
  <2>5. srv[m0].backlog \in Seq(Transfer)
    BY <1>0, <1>2 DEF StreamInv, SrvType
  <2>6. \A u : In(Append(srv[m0].backlog, t), u) <=> u = t \/ In(srv[m0].backlog, u)
    BY <2>5, AppendFacts
  <2>7. ASSUME NEW u \in Transfer, NEW k \in Node, Waits(k, u) PROVE Waits(k, u)'
    <3>1. CASE k # m0
      BY <2>4, <2>7, <3>1 DEF Waits
    <3>2. CASE k = m0
      <4>1. In(srv'[m0].backlog, u)
        BY <2>4, <2>6, <2>7, <3>2 DEF Waits, In
      <4> QED
        BY <3>2, <4>1 DEF Waits, In
    <3> QED
      BY <3>1, <3>2
  <2>8. Waits(m0, t)'
    <3>1. In(srv'[m0].backlog, t)
      BY <2>4, <2>6
    <3> QED
      BY <3>1 DEF Waits, In
  <2>9. ASSUME NEW u \in Transfer, xfer'[u].at # "unused" PROVE Held(u, xfer[u].to)'
    <3>1. CASE u = t
      <4>1. xfer'[u].to = m0 /\ Held(u, m0)'
        BY <1>6, <2>8, <3>1 DEF Held
      <4> QED
        BY <4>1 DEF Held, Waits
    <3>2. CASE u # t
      <4>1. xfer'[u] = xfer[u] /\ Held(u, xfer[u].to) /\ xfer[u].to \in Node
        BY <1>0, <1>6, <2>9, <3>2, FromOrigin DEF WorkInv
      <4> QED
        BY <2>4, <2>7, <4>1 DEF Held
    <3> QED
      BY <3>1, <3>2
  <2> QED
    BY <2>1, <2>2, <2>3, <2>9 DEF WorkInv
<1>11. GivenInv'
  BY <1>0, <1>4, <1>5 DEF GivenInv
<1>12. ASSUME NEW f \in given, NEW m \in Node \ {Origin[f]}
       PROVE  cp'[Origin[f]].name = f \/ Queued(f, m)' \/ Sent(f, m)' \/ Arrived(f, m)'
  <2>0. f \in Name /\ Origin[f] \in Node
    BY <1>0, OriginAssumption DEF GivenInv
  <2>1. cp[Origin[f]].name = f \/ Queued(f, m) \/ Sent(f, m) \/ Arrived(f, m)
    BY DEF SyncInv, NoVersionLost
  <2>2. CASE Queued(f, m)
    <3>1. PICK i \in DOMAIN todo[Origin[f]] :
            /\ todo[Origin[f]][i] = <<f, m>>
            /\ i = 1 => \A u \in Transfer :
                          xfer[u].from = Origin[f] /\ xfer[u].at = "copy" => xfer[u].stable
      BY <2>2 DEF Queued
    <3> QED
      BY <1>4, <1>6, <3>1 DEF Queued
  <2>3. CASE Sent(f, m)
    <3>1. PICK u \in Transfer : /\ Carries(u, f, m) /\ xfer[u].at = "done" /\ xfer[u].stable
                                /\ xfer[u].src = home[Origin[f]][f]
      BY <2>3 DEF Sent
    <3>2. xfer'[u] = xfer[u]
      BY <1>5, <1>6, <3>1
    <3> QED
      BY <1>5, <3>1, <3>2 DEF Sent, Carries
  <2>4. CASE Arrived(f, m)
    <3>1. CASE f0 = f /\ m0 = m
      <4>1. Carries(t, f, m)'
        BY <1>6, <3>1 DEF Carries
      <4>2. NetInv' /\ WorkInv'
        BY <1>8, <1>10
      <4>3. 1 \in DOMAIN todo[n] /\ todo[n][1] = <<f, m>> /\ Origin[f] = n
        BY <1>0, <1>1, <1>2, <3>1, HeadIsFirst
      <4>4. \A u \in Transfer : ~ (xfer'[u].from = n /\ xfer'[u].at = "copy")
        BY <1>6, <1>7 DEF Sending
      <4> QED
        BY <1>4, <4>3, <4>4 DEF Queued
    <3>2. CASE ~ (f0 = f /\ m0 = m)
      BY <1>5, <1>6, <2>4, <3>2 DEF Arrived, SameAtPeer, Carries
    <3> QED
      BY <3>1, <3>2
  <2> QED
    BY <1>4, <2>1, <2>2, <2>3, <2>4
<1> QED
  BY <1>4, <1>8, <1>9, <1>10, <1>11, <1>12 DEF SyncInv, NoVersionLost

\* What a step of transfer t's client does, in a network where nobody dies.
LEMMA ClientFacts ==
  ASSUME SyncInv, NEW t \in Transfer, ClientStep(t)
  PROVE  /\ \A u \in Transfer : u # t => xfer'[u] = xfer[u]
         /\ xfer[t].at \in Sending /\ home' = home /\ srv' = srv
         /\ xfer'[t].from = xfer[t].from /\ xfer'[t].to = xfer[t].to
         /\ xfer'[t].name = xfer[t].name /\ xfer'[t].stable = xfer[t].stable
         /\ \/ xfer[t].at = "name" /\ xfer'[t].at = "await"
            \/ xfer[t].at = "await" /\ xfer'[t].at = "copy"
            \/ xfer[t].at = "copy" /\ xfer'[t].at = "copy"
            \/ xfer[t].at = "copy" /\ xfer'[t].at = "done" /\ xfer'[t].src = xfer[t].src
            \/ /\ xfer[t].at = "await" /\ xfer'[t].at = "done"
               /\ home[xfer[t].from][xfer[t].name] = Missing
<1>0. Shape /\ NetInv /\ xfer[t].at \in Sending /\ xfer[t].at # "unused"
  BY DEF SyncInv, NetInv, ConnInv, ClientStep, SendName, GetAnswer, SendChunk, Finish, Sending
<1>1. up[xfer[t].to]
  BY <1>0, FromOrigin DEF NetInv
<1>2. CASE SendName(t)
  <2> DEFINE x == [xfer[t] EXCEPT !.at = "await"]
  <2>1. /\ x.to = xfer[t].to /\ x.from = xfer[t].from /\ x.name = xfer[t].name
        /\ x.at = "await" /\ x.stable = xfer[t].stable /\ DOMAIN x = DOMAIN xfer[t]
    BY <1>0 DEF Shape
  <2>2. xfer[t].at = "name" /\ Write(t, xfer[t].name, x) /\ home' = home /\ srv' = srv
    BY <1>2 DEF SendName
  <2> HIDE DEF x
  <2>3. xfer' = [xfer EXCEPT ![t] = [x EXCEPT !.out = x.out \o xfer[t].name,
                                              !.wrote = x.wrote \o xfer[t].name]]
    BY <1>1, <2>1, <2>2 DEF Write
  <2> QED
    BY <1>0, <2>1, <2>2, <2>3 DEF Shape
<1>3. CASE SendChunk(t)
  <2> DEFINE x == [xfer[t] EXCEPT !.pos = xfer[t].pos + Len(Ahead(t))]
             bytes == Ahead(t)
  <2>1. /\ x.to = xfer[t].to /\ x.from = xfer[t].from /\ x.name = xfer[t].name
        /\ x.at = xfer[t].at /\ x.stable = xfer[t].stable /\ DOMAIN x = DOMAIN xfer[t]
    BY <1>0 DEF Shape
  <2>2. xfer[t].at = "copy" /\ Write(t, bytes, x) /\ home' = home /\ srv' = srv
    BY <1>3 DEF SendChunk
  <2> HIDE DEF x, bytes
  <2>3. xfer' = [xfer EXCEPT ![t] = [x EXCEPT !.out = x.out \o bytes,
                                              !.wrote = x.wrote \o bytes]]
    BY <1>1, <2>1, <2>2 DEF Write
  <2> QED
    BY <1>0, <2>1, <2>2, <2>3 DEF Shape
<1>4. CASE GetAnswer(t)
  <2> DEFINE f == home[xfer[t].from][xfer[t].name]
  <2>1. /\ xfer[t].at = "await" /\ home' = home /\ srv' = srv
        /\ f = Missing => xfer' = [xfer EXCEPT ![t] = [xfer[t] EXCEPT !.at = "done"]]
        /\ f # Missing => xfer' = [xfer EXCEPT ![t] = [xfer[t] EXCEPT !.at = "copy", !.src = f]]
    BY <1>0, <1>1, <1>4 DEF GetAnswer, Closed, Shape
  <2> HIDE DEF f
  <2>2. CASE f = Missing
    BY <1>0, <2>1, <2>2 DEF Shape, f
  <2>3. CASE f # Missing
    <3> DEFINE y == [xfer[t] EXCEPT !.at = "copy", !.src = f]
    <3>1. /\ y.to = xfer[t].to /\ y.from = xfer[t].from /\ y.name = xfer[t].name
          /\ y.at = "copy" /\ y.stable = xfer[t].stable /\ y.src = f
      BY <1>0 DEF Shape
    <3>2. xfer' = [xfer EXCEPT ![t] = y]
      BY <2>1, <2>3
    <3> HIDE DEF y
    <3> QED
      BY <1>0, <2>1, <2>3, <3>1, <3>2 DEF Shape
  <2> QED
    BY <2>2, <2>3
<1>5. CASE Finish(t)
  <2>1. /\ xfer[t].at = "copy" /\ home' = home /\ srv' = srv
        /\ xfer' = [xfer EXCEPT ![t] = [xfer[t] EXCEPT !.at = "done"]]
    BY <1>1, <1>5 DEF Finish, Closed
  <2> QED
    BY <1>0, <2>1 DEF Shape
<1> QED
  BY <1>2, <1>3, <1>4, <1>5 DEF ClientStep

LEMMA ClientSync ==
  ASSUME SyncInv, NEW t \in Transfer, ClientMoves(t)
  PROVE  SyncInv'
<1> DEFINE n == xfer[t].from
<1>0. NetInv /\ WorkInv /\ GivenInv /\ Shape /\ StreamInv(AllBytes)
  BY DEF SyncInv, NetInv, ConnInv
<1>1. ClientStep(t) /\ cp' = cp /\ given' = given
  BY DEF ClientMoves
<1>2. /\ \A u \in Transfer : u # t => xfer'[u] = xfer[u]
      /\ xfer[t].at \in Sending /\ home' = home /\ srv' = srv
      /\ xfer'[t].from = n /\ xfer'[t].to = xfer[t].to
      /\ xfer'[t].name = xfer[t].name /\ xfer'[t].stable = xfer[t].stable
      /\ xfer'[t].at \in {"await", "copy", "done"}
      /\ xfer'[t].at = "await" => xfer[t].at = "name"
      /\ xfer'[t].at = "copy" => xfer[t].at \in {"await", "copy"}
      /\ xfer'[t].at = "done" =>
           \/ xfer[t].at = "copy" /\ xfer'[t].src = xfer[t].src
           \/ xfer[t].at = "await" /\ home[n][xfer[t].name] = Missing
  BY <1>1, ClientFacts DEF Sending
<1>3. /\ n \in Node /\ xfer[t].to \in Node /\ xfer[t].name \in Name
      /\ n = Origin[xfer[t].name] /\ xfer[t].at # "unused"
      /\ todo[n] # << >> /\ Head(todo[n]) = <<xfer[t].name, xfer[t].to>>
  BY <1>0, <1>2, FromOrigin DEF WorkInv, Sending
<1>4. /\ xfer'[t].at # "done" => todo' = todo
      /\ xfer'[t].at = "done" => todo' = [todo EXCEPT ![n] = Drop(todo[n], 1)]
  BY <1>2 DEF ClientMoves, Sending
<1> HIDE DEF n
<1>5. NetInv'
  BY <1>0, ClientNet
<1>6. StreamInv(AllBytes)'
  <2>1. Next
    BY <1>1 DEF Next
  <2> QED
    BY <1>0, <2>1, AllBytesAlphabet, StepStream DEF NetInv
<1>7. WorkInv'
  <2>1. \A u, v \in Transfer :
          xfer'[u].at \in Sending /\ xfer'[v].at \in Sending /\ xfer'[u].from = xfer'[v].from
            => u = v
    BY <1>0, <1>2 DEF WorkInv, n
  <2>2. ASSUME NEW u \in Transfer, xfer'[u].at \in Sending
        PROVE  /\ todo'[xfer'[u].from] # << >>
               /\ Head(todo'[xfer'[u].from]) = <<xfer'[u].name, xfer'[u].to>>
    <3>1. /\ xfer[u].at \in Sending /\ xfer'[u].from = xfer[u].from
          /\ xfer'[u].name = xfer[u].name /\ xfer'[u].to = xfer[u].to
      BY <1>2, <2>2 DEF n
    <3>2. /\ todo[xfer[u].from] # << >>
          /\ Head(todo[xfer[u].from]) = <<xfer[u].name, xfer[u].to>>
      BY <1>0, <3>1 DEF WorkInv
    <3>3. todo'[xfer[u].from] = todo[xfer[u].from]
      <4>1. CASE xfer'[t].at # "done"
        BY <1>4, <4>1
      <4>2. CASE xfer'[t].at = "done"
        <5>1. u # t
          BY <2>2, <4>2 DEF Sending
        <5>2. xfer[u].from # n
          BY <1>0, <1>2, <3>1, <5>1 DEF WorkInv, n
        <5>3. xfer[u].from \in Node
          BY <1>0, <3>1, FromOrigin DEF Sending
        <5> QED
          BY <1>0, <1>4, <4>2, <5>2, <5>3 DEF NetInv
      <4> QED
        BY <4>1, <4>2
    <3> QED
      BY <3>1, <3>2, <3>3
  <2>3. \A u \in Transfer : xfer'[u].at \in {"name", "await"} => xfer'[u].stable
    BY <1>0, <1>2 DEF WorkInv
  <2>4. \A u \in Transfer : xfer'[u].at # "unused" => Held(u, xfer[u].to)'
    <3>1. \A u \in Transfer : xfer[u].at # "unused" => Held(u, xfer[u].to)
      BY <1>0 DEF WorkInv
    <3>2. \A u \in Transfer : xfer'[u].at # "unused" =>
            xfer[u].at # "unused" /\ xfer'[u].to = xfer[u].to
      BY <1>2, <1>3
    <3>3. srv' = srv
      BY <1>2
    <3> QED
      BY <3>1, <3>2, <3>3 DEF Held, Waits
  <2> QED
    BY <2>1, <2>2, <2>3, <2>4 DEF WorkInv
<1>8. GivenInv'
  BY <1>0, <1>1, <1>2 DEF GivenInv
<1>9. ASSUME NEW f \in given, NEW m \in Node \ {Origin[f]}
      PROVE  cp'[Origin[f]].name = f \/ Queued(f, m)' \/ Sent(f, m)' \/ Arrived(f, m)'
  <2>0. f \in Name /\ Origin[f] \in Node
    BY <1>0, OriginAssumption DEF GivenInv
  <2>1. cp[Origin[f]].name = f \/ Queued(f, m) \/ Sent(f, m) \/ Arrived(f, m)
    BY DEF SyncInv, NoVersionLost
  <2>2. CASE Sent(f, m)
    <3>1. PICK u \in Transfer : /\ Carries(u, f, m) /\ xfer[u].at = "done" /\ xfer[u].stable
                                /\ xfer[u].src = home[Origin[f]][f]
      BY <2>2 DEF Sent
    <3>2. xfer'[u] = xfer[u]
      BY <1>2, <3>1 DEF Sending
    <3> QED
      BY <1>2, <3>1, <3>2 DEF Sent, Carries
  <2>3. CASE Arrived(f, m)
    BY <1>2, <1>3, <2>3 DEF Arrived, SameAtPeer, Carries
  <2>4. CASE Queued(f, m)
    <3>1. PICK i \in DOMAIN todo[Origin[f]] :
            /\ todo[Origin[f]][i] = <<f, m>>
            /\ i = 1 => \A u \in Transfer :
                          xfer[u].from = Origin[f] /\ xfer[u].at = "copy" => xfer[u].stable
      BY <2>4 DEF Queued
    <3>2. ASSUME NEW u \in Transfer, xfer'[u].from = Origin[f], xfer'[u].at = "copy", i = 1
          PROVE  xfer'[u].stable
      BY <1>0, <1>2, <3>1, <3>2 DEF WorkInv, n
    <3>3. CASE xfer'[t].at # "done" \/ Origin[f] # n
      <4>1. todo'[Origin[f]] = todo[Origin[f]]
        <5>1. CASE xfer'[t].at # "done"
          BY <1>4, <5>1
        <5>2. CASE xfer'[t].at = "done" /\ Origin[f] # n
          BY <1>0, <1>4, <2>0, <5>2 DEF NetInv
        <5> QED
          BY <3>3, <5>1, <5>2
      <4> QED
        BY <3>1, <3>2, <4>1 DEF Queued
    <3>4. CASE xfer'[t].at = "done" /\ Origin[f] = n
      <4>1. /\ todo[n] \in Seq(Tasks(n)) /\ todo'[n] = Drop(todo[n], 1)
            /\ Len(todo[n]) \in Nat /\ DOMAIN todo[n] = 1 .. Len(todo[n])
        BY <1>0, <1>3, <1>4, <3>4, SMTT(30) DEF NetInv
      <4>2. /\ DOMAIN todo'[n] = 1 .. Len(todo[n]) - 1
            /\ \A j \in 1 .. Len(todo[n]) - 1 : todo'[n][j] = todo[n][j + 1]
        BY <4>1 DEF Drop
      <4>3. CASE i # 1
        <5>1. i - 1 \in DOMAIN todo'[n] /\ todo'[n][i - 1] = <<f, m>>
          <6>1. i \in 1 .. Len(todo[n]) /\ todo[n][i] = <<f, m>>
            BY <3>1, <3>4, <4>1
          <6>2. i - 1 \in 1 .. Len(todo[n]) - 1 /\ (i - 1) + 1 = i
            BY <4>1, <4>3, <6>1
          <6> QED
            BY <4>2, <6>1, <6>2
        <5>2. \A u \in Transfer : ~ (xfer'[u].from = n /\ xfer'[u].at = "copy")
          BY <1>0, <1>2, <3>4 DEF WorkInv, n, Sending
        <5> QED
          BY <3>4, <5>1, <5>2 DEF Queued
      <4>4. CASE i = 1
        <5>1. xfer[t].name = f /\ xfer[t].to = m
          BY <1>0, <1>2, <2>0, <3>1, <3>4, <4>4, AtWork DEF n
        <5>2. CASE cp[n].name = f
          BY <1>1, <3>4, <5>2
        <5>3. CASE cp[n].name # f
          <6>1. home[n][f] # Missing
            BY <1>0, <3>4, <5>3 DEF GivenInv
          <6>2. xfer[t].at = "copy" /\ xfer'[t].src = xfer[t].src
            BY <1>2, <3>4, <5>1, <6>1
          <6>3. xfer[t].stable
            BY <3>1, <3>4, <4>4, <6>2 DEF n
          <6>4. Copied(xfer[t])
            BY <1>0, <1>3 DEF StreamInv, NetInv
          <6>5. xfer[t].src = home[n][f]
            BY <5>1, <6>2, <6>3, <6>4 DEF Copied, n
          <6>6. Carries(t, f, m)'
            BY <1>2, <3>4, <5>1 DEF Carries
          <6> QED
            BY <1>2, <3>4, <6>2, <6>3, <6>5, <6>6 DEF Sent
        <5> QED
          BY <5>2, <5>3
      <4> QED
        BY <4>3, <4>4
    <3> QED
      BY <3>3, <3>4
  <2> QED
    BY <1>1, <2>1, <2>2, <2>3, <2>4
<1> QED
  BY <1>1, <1>5, <1>6, <1>7, <1>8, <1>9 DEF SyncInv, NoVersionLost

--------------------------------------------------------------------------------
(* The servers' steps. *)

\* Whom a server serves, and what.
LEMMA ServesWhom ==
  ASSUME NetInv, NEW n \in Node, srv[n].at \in {"reply", "open", "body"}
  PROVE  /\ srv[n].cur \in Transfer /\ xfer[srv[n].cur].at # "unused"
         /\ xfer[srv[n].cur].to = n /\ xfer[srv[n].cur].name = srv[n].path
<1> DEFINE t == srv[n].cur
<1>1. t \in Transfer /\ Named(n, t)
  BY DEF NetInv, ConnInv, Connections
<1>2. xfer[t].name \in Name /\ up[xfer[t].from]
  BY <1>1, FromOrigin DEF NetInv, Named
<1> QED
  BY <1>1, <1>2, FitAssumption DEF Named

\* A server never writes a file that a client of its own machine may be reading.
LEMMA StoreUnmarked ==
  ASSUME NetInv, NEW n \in Node, NEW p \in Name, Origin[p] # n, NEW content, NEW x,
         Store(n, p, content, x), \A u \in Transfer : x[u] \in {xfer[u], NoTransfer}
  PROVE  \A u \in Transfer : xfer'[u] = x[u]
<1>1. ASSUME NEW u \in Transfer, x[u].at = "copy", x[u].from = n, x[u].name = p
      PROVE  FALSE
  <2>1. x[u] = xfer[u] /\ xfer[u].at # "unused"
    BY <1>1 DEF NoTransfer
  <2> QED
    BY <1>1, <2>1, FromOrigin
<1> QED
  BY <1>1 DEF Store

\* What the client knows of transfer u is as before.
SameClient(u) ==
  /\ xfer'[u].at = xfer[u].at /\ xfer'[u].from = xfer[u].from /\ xfer'[u].to = xfer[u].to
  /\ xfer'[u].name = xfer[u].name /\ xfer'[u].src = xfer[u].src
  /\ xfer'[u].stable = xfer[u].stable

\* A step of server n is of one connection, which it ends by closing it, and of
\* the file that is being received.
LEMMA ServerFacts ==
  ASSUME NetInv, NEW n \in Node, ServerStep(n) \/ Flush(n)
  PROVE  /\ \A k \in Node : k # n => srv'[k] = srv[k]
         /\ \A u \in Transfer :
              SameClient(u) \/ (u = srv[n].cur /\ Close(n) /\ xfer'[u].at = "unused")
         /\ \A k \in Node, q \in Path : home'[k][q] # home[k][q] =>
              k = n /\ q = srv[n].path /\ srv[n].at \in {"open", "body"}
         /\ Close(n) => home'[n][srv[n].path] = srv[n].got /\ srv[n].path # << >>
         /\ \A u \in Transfer : Held(u, n) => Held(u, n)' \/ (u = srv[n].cur /\ Close(n))
<1>0. Shape /\ Connections(n) /\ DOMAIN home = Node /\ \A k \in Node : DOMAIN home[k] = Path
  BY DEF NetInv, ConnInv
<1>1. CASE Accept(n)
  <2> DEFINE s == srv[n].backlog
  <2>1. /\ srv'[n] = [IdleServer EXCEPT !.at = "name", !.cur = Head(s), !.backlog = Tail(s)]
        /\ \A k \in Node : k # n => srv'[k] = srv[k]
        /\ xfer' = xfer /\ home' = home /\ s # << >> /\ srv[n].at = "accept"
    BY <1>0, <1>1 DEF Accept, At, Shape
  <2>2. srv'[n].at = "name" /\ srv'[n].cur = Head(s) /\ srv'[n].backlog = Tail(s)
    BY <2>1 DEF IdleServer
  <2>3. s \in Seq(Transfer)
    BY <1>0 DEF Connections
  <2> HIDE DEF s
  <2>4. ASSUME NEW u, NEW i \in DOMAIN s, s[i] = u
        PROVE  u = Head(s) \/ In(Tail(s), u)
    <3>1. Len(s) \in Nat /\ i \in 1 .. Len(s) /\ DOMAIN Tail(s) = 1 .. Len(s) - 1
      BY <2>1, <2>3, <2>4
    <3>2. CASE i = 1
      BY <2>1, <2>3, <2>4, <3>2
    <3>3. CASE i # 1
      <4>1. i - 1 \in 1 .. Len(s) - 1 /\ (i - 1) + 1 = i
        BY <3>1, <3>3
      <4>2. Tail(s)[i - 1] = s[(i - 1) + 1]
        BY <2>1, <2>3, <4>1
      <4> QED
        BY <2>4, <3>1, <4>1, <4>2 DEF In
    <3> QED
      BY <3>2, <3>3
  <2>5. ASSUME NEW u \in Transfer, Held(u, n) PROVE Held(u, n)'
    <3>1. \E i \in DOMAIN s : s[i] = u
      BY <2>1, <2>5 DEF Held, Waits, s
    <3>2. u = Head(s) \/ In(Tail(s), u)
      BY <2>4, <3>1
    <3>3. u = srv'[n].cur \/ In(srv'[n].backlog, u)
      BY <2>2, <3>2
    <3> QED
      BY <2>2, <3>3 DEF Held, Waits, In
  <2>6. ~ Close(n)
    BY <2>1 DEF Close, At
  <2> QED
    BY <2>1, <2>5, <2>6 DEF SameClient
<1>2. ASSUME srv[n].at # "accept", srv'[n].at # "accept", srv'[n].cur = srv[n].cur,
             srv'[n].backlog = srv[n].backlog
      PROVE  /\ ~ Close(n)
             /\ \A u \in Transfer : Held(u, n) => Held(u, n)'
  <2>1. ~ Close(n)
    <3>1. ASSUME Close(n) PROVE FALSE
      <4>1. srv[n].at = "body"
        BY <3>1 DEF Close, At
      <4>2. srv[n].path # << >>
        BY <4>1, ServesOthers
      <4>3. srv' = [srv EXCEPT ![n] = [IdleServer EXCEPT !.backlog = srv[n].backlog]]
        BY <3>1, <4>2 DEF Close
      <4> QED
        BY <1>0, <1>2, <4>3 DEF IdleServer, Shape
    <3> QED
      BY <3>1
  <2> QED
    BY <1>2, <2>1 DEF Held, Waits
<1>3. CASE RecvName(n) \/ ReadBody(n) \/ Reply(n)
  <2>1. /\ \E t : \/ \E s : xfer' = [xfer EXCEPT ![t].out = s]
                  \/ xfer' = [xfer EXCEPT ![t].ok = TRUE]
        /\ home' = home
    BY <1>3 DEF RecvName, ReadBody, Reply
  <2>2. \A u \in Transfer : SameClient(u)
    BY <1>0, <2>1 DEF Shape, SameClient
  <2>3. /\ srv[n].at # "accept" /\ srv'[n].at # "accept" /\ srv'[n].cur = srv[n].cur
        /\ srv'[n].backlog = srv[n].backlog
        /\ \A k \in Node : k # n => srv'[k] = srv[k]
    <3>1. CASE RecvName(n)
      <4>1. PICK p : srv' = [srv EXCEPT ![n].at = "reply", ![n].path = p]
        BY <3>1 DEF RecvName
      <4> QED
        BY <1>0, <3>1, <4>1 DEF RecvName, At, Shape
    <3>2. CASE Reply(n)
      BY <1>0, <3>2 DEF Reply, At, Shape
    <3>3. CASE ReadBody(n)
      <4>1. PICK g : srv' = [srv EXCEPT ![n].got = g]
        BY <3>3 DEF ReadBody
      <4> QED
        BY <1>0, <3>3, <4>1 DEF ReadBody, At, Shape
    <3> QED
      BY <1>3, <3>1, <3>2, <3>3
  <2> QED
    BY <1>2, <2>1, <2>2, <2>3
<1>4. CASE Open(n) \/ Flush(n)
  <2>1. srv[n].at \in {"open", "body"}
    BY <1>4 DEF Open, Flush, At
  <2>2. srv[n].path \in Name /\ srv[n].path # << >> /\ Origin[srv[n].path] # n
    BY <2>1, ServesOthers
  <2>3. PICK content : Store(n, srv[n].path, content, xfer)
    BY <1>4, <2>2 DEF Open, Flush
  <2>4. \A u \in Transfer : SameClient(u)
    BY <2>2, <2>3, StoreUnmarked DEF SameClient
  <2>5. \A k \in Node, q \in Path : home'[k][q] # home[k][q] => k = n /\ q = srv[n].path
    BY <2>2, <2>3, StoreHome, NamesArePaths
  <2>6. /\ srv'[n].at # "accept" /\ srv'[n].cur = srv[n].cur
        /\ srv'[n].backlog = srv[n].backlog
        /\ \A k \in Node : k # n => srv'[k] = srv[k]
    BY <1>0, <1>4, <2>1 DEF Open, Flush, Shape
  <2> QED
    BY <1>2, <2>1, <2>4, <2>5, <2>6
<1>5. CASE Close(n)
  <2> DEFINE t == srv[n].cur
             path == srv[n].path
             x == [xfer EXCEPT ![t] = NoTransfer]
  <2>1. srv[n].at = "body"
    BY <1>5 DEF Close, At
  <2>2. path \in Name /\ path # << >> /\ Origin[path] # n /\ t \in Transfer /\ path \in Path
    BY <2>1, ServesOthers, ServesWhom, NamesArePaths
  <2>3. /\ Store(n, path, srv[n].got, x)
        /\ srv' = [srv EXCEPT ![n] = [IdleServer EXCEPT !.backlog = srv[n].backlog]]
    BY <1>5, <2>2 DEF Close
  <2>4. x[t] = NoTransfer /\ \A u \in Transfer : u # t => x[u] = xfer[u]
    BY <1>0, <2>2 DEF Shape
  <2> HIDE DEF x, t, path
  <2>5. \A u \in Transfer : xfer'[u] = x[u]
    BY <2>2, <2>3, <2>4, StoreUnmarked
  <2>6. \A u \in Transfer : SameClient(u) \/ (u = t /\ xfer'[u].at = "unused")
    BY <2>4, <2>5 DEF SameClient, NoTransfer
  <2>7. \A k \in Node, q \in Path : home'[k][q] # home[k][q] => k = n /\ q = path
    BY <2>2, <2>3, StoreHome
  <2>8. home'[n][path] = srv[n].got
    BY <1>0, <2>2, <2>3 DEF Store
  <2>9. srv'[n].backlog = srv[n].backlog /\ \A k \in Node : k # n => srv'[k] = srv[k]
    BY <1>0, <2>3 DEF Shape, IdleServer
  <2>10. \A u \in Transfer : Held(u, n) => Held(u, n)' \/ u = t
    BY <2>9 DEF Held, Waits, t
  <2> QED
    BY <1>5, <2>1, <2>2, <2>6, <2>7, <2>8, <2>9, <2>10 DEF t, path
<1> QED
  BY <1>1, <1>3, <1>4, <1>5 DEF ServerStep

LEMMA ServerSync ==
  ASSUME SyncInv, NEW n \in Node, ServerMoves(n) \/ FlushMoves(n)
  PROVE  SyncInv'
<1> DEFINE c == srv[n].cur
<1>0. NetInv /\ WorkInv /\ GivenInv /\ Shape /\ ConnInv /\ StreamInv(AllBytes)
  BY DEF SyncInv, NetInv, ConnInv
<1>1. (ServerStep(n) \/ Flush(n)) /\ todo' = todo /\ cp' = cp /\ given' = given
  BY DEF ServerMoves, FlushMoves, network
<1>2. /\ \A k \in Node : k # n => srv'[k] = srv[k]
      /\ \A u \in Transfer : SameClient(u) \/ (u = c /\ Close(n) /\ xfer'[u].at = "unused")
      /\ \A k \in Node, q \in Path : home'[k][q] # home[k][q] =>
           k = n /\ q = srv[n].path /\ srv[n].at \in {"open", "body"}
      /\ Close(n) => home'[n][srv[n].path] = srv[n].got /\ srv[n].path # << >>
      /\ \A u \in Transfer : Held(u, n) => Held(u, n)' \/ (u = c /\ Close(n))
  BY <1>0, <1>1, ServerFacts
<1>3. \A u \in Transfer : xfer'[u].at # "unused" => SameClient(u) /\ xfer[u].at # "unused"
  BY <1>2 DEF SameClient
<1>4. NetInv' /\ Onward
  BY <1>0, ServerNet
<1>5. StreamInv(AllBytes)'
  <2>1. Next
    BY <1>1 DEF Next
  <2> QED
    BY <1>0, <2>1, AllBytesAlphabet, StepStream
<1>6. Close(n) => xfer'[c].at = "unused"
  <2>1. ASSUME Close(n) PROVE xfer'[c].at = "unused"
    <3>1. srv[n].at = "body"
      BY <2>1 DEF Close, At
    <3>2. srv[n].path \in Name /\ Origin[srv[n].path] # n /\ c \in Transfer
      BY <1>0, <3>1, ServesOthers, ServesWhom
    <3> DEFINE x == [xfer EXCEPT ![c] = NoTransfer]
    <3>3. Store(n, srv[n].path, srv[n].got, x)
      BY <1>2, <2>1 DEF Close
    <3>4. x[c] = NoTransfer /\ \A u \in Transfer : x[u] \in {xfer[u], NoTransfer}
      BY <1>0, <3>2 DEF Shape
    <3> HIDE DEF x, c
    <3>5. xfer'[c] = NoTransfer
      BY <1>0, <3>2, <3>3, <3>4, StoreUnmarked
    <3> QED
      BY <3>5 DEF NoTransfer
  <2> QED
    BY <2>1
<1> HIDE DEF c
<1>7. WorkInv'
  <2>1. \A u, v \in Transfer :
          xfer'[u].at \in Sending /\ xfer'[v].at \in Sending /\ xfer'[u].from = xfer'[v].from
            => u = v
    BY <1>0, <1>3 DEF WorkInv, SameClient, Sending
  <2>2. \A u \in Transfer : xfer'[u].at \in Sending =>
          /\ todo'[xfer'[u].from] # << >>
          /\ Head(todo'[xfer'[u].from]) = <<xfer'[u].name, xfer'[u].to>>
    BY <1>0, <1>1, <1>3, ZenonT(60) DEF WorkInv, SameClient, Sending
  <2>3. \A u \in Transfer : xfer'[u].at \in {"name", "await"} => xfer'[u].stable
    BY <1>0, <1>3 DEF WorkInv, SameClient
  <2>4. ASSUME NEW u \in Transfer, xfer'[u].at # "unused" PROVE Held(u, xfer[u].to)'
    <3>1. /\ xfer'[u].to = xfer[u].to /\ xfer[u].to \in Node /\ Held(u, xfer[u].to)
          /\ ~ (u = c /\ Close(n))
      BY <1>0, <1>3, <1>6, <2>4, FromOrigin DEF WorkInv, SameClient
    <3>2. CASE xfer[u].to = n
      BY <1>2, <3>1, <3>2 DEF Held, Waits
    <3>3. CASE xfer[u].to # n
      BY <1>2, <3>1, <3>3 DEF Held, Waits
    <3> QED
      BY <3>2, <3>3
  <2> QED
    BY <2>1, <2>2, <2>3, <2>4 DEF WorkInv
<1>8. \A f \in given : f \in Name /\ f \in Path /\ Origin[f] \in Node
  BY <1>0, OriginAssumption, NamesArePaths DEF GivenInv
<1>9. \A f \in given : home'[Origin[f]][f] = home[Origin[f]][f]
  BY <1>4, <1>8 DEF Onward
<1>10. GivenInv'
  BY <1>0, <1>1, <1>9 DEF GivenInv
<1>11. ASSUME NEW f \in given, NEW m \in Node, Queued(f, m) PROVE Queued(f, m)'
  <2>1. PICK i \in DOMAIN todo[Origin[f]] :
          /\ todo[Origin[f]][i] = <<f, m>>
          /\ i = 1 => \A u \in Transfer :
                        xfer[u].from = Origin[f] /\ xfer[u].at = "copy" => xfer[u].stable
    BY <1>11 DEF Queued
  <2>2. ASSUME i = 1, NEW u \in Transfer, xfer'[u].from = Origin[f], xfer'[u].at = "copy"
        PROVE  xfer'[u].stable
    BY <1>3, <2>1, <2>2 DEF SameClient
  <2> QED
    BY <1>1, <2>1, <2>2 DEF Queued
<1>12. ASSUME NEW f \in given, NEW m \in Node \ {Origin[f]}
       PROVE  cp'[Origin[f]].name = f \/ Queued(f, m)' \/ Sent(f, m)' \/ Arrived(f, m)'
  <2>1. cp[Origin[f]].name = f \/ Queued(f, m) \/ Sent(f, m) \/ Arrived(f, m)
    BY DEF SyncInv, NoVersionLost
  <2>2. CASE Sent(f, m)
    <3>1. PICK u \in Transfer : /\ Carries(u, f, m) /\ xfer[u].at = "done" /\ xfer[u].stable
                                /\ xfer[u].src = home[Origin[f]][f]
      BY <2>2 DEF Sent
    <3>2. CASE SameClient(u)
      BY <1>8, <1>9, <3>1, <3>2, ZenonT(60) DEF Sent, Carries, SameClient
    <3>3. CASE ~ SameClient(u)
      <4>1. u = c /\ Close(n) /\ xfer'[u].at = "unused" /\ srv[n].at = "body"
        BY <1>2, <3>3 DEF Close, At
      <4>2. m = n /\ srv[n].path = f /\ srv[n].path # << >>
        <5>1. xfer[c].to = n /\ xfer[c].name = srv[n].path
          BY <1>0, <4>1, ServesWhom DEF c
        <5> QED
          BY <1>2, <3>1, <4>1, <5>1 DEF Carries
      <4>3. /\ Len(xfer[u].name) < NAMEBUF
            /\ srv[n].got \in Seq(AllBytes)
        BY <1>0, <1>8, <3>1, FitAssumption DEF Carries, StreamInv, SrvType
      <4>4. PICK rest \in Seq(AllBytes) :
              NonNul(xfer[u].src) = srv[n].got \o rest /\ rest = << >>
        <5>1. At(n, "body") /\ u = srv[n].cur /\ xfer[u].out = << >>
          BY <4>1 DEF Close, c
        <5>2. Alphabet(AllBytes) /\ ConnInv /\ StreamInv(AllBytes)
          BY <1>0, AllBytesAlphabet DEF NetInv
        <5> QED
          BY <3>1, <4>2, <4>3, <5>1, <5>2, PartOfCopy
      <4>5. NonNul(home[Origin[f]][f]) = srv[n].got
        BY <3>1, <4>3, <4>4, ConcatEmptySeq
      <4>6. SameAtPeer(f, m)'
        BY <1>2, <1>8, <1>9, <4>1, <4>2, <4>5 DEF SameAtPeer
      <4>7. ASSUME NEW v \in Transfer, Carries(v, f, m)' PROVE Queued(f, m)'
        <5>1. Carries(v, f, m) /\ v # c
          BY <1>3, <4>1, <4>7 DEF Carries, SameClient
        <5>2. Waits(n, v)
          BY <1>0, <4>2, <5>1 DEF WorkInv, Held, Carries, c
        <5>3. Fresh(n, v)
          BY <1>0, <5>2 DEF NetInv, ConnInv, Connections
        <5>4. Queued(f, m)
          BY <1>0, <1>8, <5>1, <5>3, BeforeReading DEF Fresh
        <5> QED
          BY <1>11, <5>4
      <4> QED
        BY <4>6, <4>7 DEF Arrived
    <3> QED
      BY <3>2, <3>3
  <2>3. CASE Arrived(f, m)
    <3>1. \A u \in Transfer : ~ Carries(u, f, m)'
      BY <1>3, <2>3 DEF Arrived, Carries, SameClient
    <3>2. home'[m][f] = home[m][f]
      <4>1. ASSUME home'[m][f] # home[m][f] PROVE FALSE
        <5>1. m = n /\ f = srv[n].path /\ srv[n].at \in {"open", "body"}
          BY <1>2, <1>8, <4>1
        <5>2. c \in Transfer /\ Carries(c, f, m)
          BY <1>0, <5>1, ServesWhom DEF Carries, c
        <5> QED
          BY <2>3, <5>2 DEF Arrived
      <4> QED
        BY <4>1
    <3> QED
      BY <1>8, <1>9, <2>3, <3>1, <3>2 DEF Arrived, SameAtPeer
  <2> QED
    BY <1>1, <1>11, <2>1, <2>2, <2>3
<1> QED
  BY <1>1, <1>4, <1>5, <1>7, <1>10, <1>12 DEF SyncInv, NoVersionLost

--------------------------------------------------------------------------------
(* The theorems. *)

LEMMA InitSync == NetworkInit => SyncInv
<1> SUFFICES ASSUME NetworkInit PROVE SyncInv
  OBVIOUS
<1>1. NetInv /\ StreamInv(AllBytes)
  BY InitNet, InitStream, AllBytesAlphabet DEF NetworkInit
<1>2. given = {} /\ \A n \in Node : cp[n] = NoCopy
  BY DEF NetworkInit
<1>3. \A t \in Transfer : xfer[t].at = "unused"
  BY DEF NetworkInit, Init, NoTransfer
<1> QED
  BY <1>1, <1>2, <1>3 DEF SyncInv, WorkInv, GivenInv, NoVersionLost, Sending

LEMMA StepSync == SyncInv /\ [NetworkNext]_allvars => SyncInv'
<1> SUFFICES ASSUME SyncInv, [NetworkNext]_allvars PROVE SyncInv'
  OBVIOUS
<1>1. CASE UNCHANGED allvars
  <2>1. /\ NetInv' /\ StreamInv(AllBytes)'
    BY <1>1, StepNet, AllBytesAlphabet, StepStream DEF allvars, SyncInv, NetInv
  <2>2. WorkInv' /\ GivenInv'
    BY <1>1 DEF allvars, vars, network, SyncInv, WorkInv, GivenInv, Held, Waits
  <2>3. NoVersionLost'
    <3>1. xfer' = xfer /\ home' = home /\ todo' = todo /\ cp' = cp /\ given' = given
      BY <1>1 DEF allvars, vars, network
    <3>2. \A f, m : /\ Queued(f, m)' <=> Queued(f, m)
                    /\ Sent(f, m)' <=> Sent(f, m)
                    /\ Arrived(f, m)' <=> Arrived(f, m)
      BY <3>1 DEF Queued, Sent, Arrived, Carries, SameAtPeer
    <3> QED
      BY <3>1, <3>2 DEF SyncInv, NoVersionLost
  <2> QED
    BY <2>1, <2>2, <2>3 DEF SyncInv
<1> QED
  BY <1>1, AddBeginsSync, AddEndsSync, SendOldestSync, ClientSync, ServerSync
     DEF NetworkNext

\* Of a file that was given, the newest version is never lost: it is queued, or on
\* its way, or there; for every number of machines, files, versions and additions.
THEOREM NoVersionIsLost == NetworkSpec => []NoVersionLost
<1>1. SyncInv => NoVersionLost
  BY DEF SyncInv
<1> QED
  BY <1>1, InitSync, StepSync, PTL DEF NetworkSpec

\* So when nothing is left to do for it, every machine has it.
THEOREM SettledIsSynced == NetworkSpec => []SettledMeansSynced
<1>1. SyncInv => SettledMeansSynced
  <2> SUFFICES ASSUME SyncInv, NEW f \in given, Settled(f), NEW m \in Node \ {Origin[f]}
               PROVE  SameAtPeer(f, m)
    BY DEF SettledMeansSynced
  <2>1. f \in Name /\ Origin[f] \in Node
    BY OriginAssumption DEF SyncInv, GivenInv
  <2>2. cp[Origin[f]].name # f
    BY <2>1 DEF Settled
  <2>3. ~ Queued(f, m)
    <3>1. DOMAIN todo[Origin[f]] = 1 .. Len(todo[Origin[f]])
      BY <2>1, HeadIsFirst DEF SyncInv
    <3> QED
      BY <2>1, <3>1 DEF Settled, Queued, Contains
  <2>4. ~ Sent(f, m)
    BY DEF Settled, Sent, Carries
  <2> QED
    BY <2>2, <2>3, <2>4 DEF SyncInv, NoVersionLost, Arrived
<1> QED
  BY <1>1, InitSync, StepSync, PTL DEF NetworkSpec

================================================================================
