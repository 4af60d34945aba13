---------------------------- MODULE GuiRequestsProofs --------------------------
(******************************************************************************)
(* Theorems about GuiRequests, for every set of paths and ports, whatever the *)
(* listener's stack and the heap held before, and every length of the queue.  *)
(******************************************************************************)
EXTENDS GuiRequests, DatagramProofs

USE DEF HEAD

--------------------------------------------------------------------------------
(* The messages the GUI makes. *)

LEMMA AddMessage ==
  ASSUME NEW path \in Path
  PROVE  LET msg == set_add_sync_file_msg(path)
         IN  /\ IsHead(msg.head) /\ \A i \in 1 .. 5 : msg.head[i] # 0
             /\ msg.head[1] = 1 /\ msg.head[2] = 10 + PathLen[path]
             /\ msg.text = path
<1>1. PathLen[path] \in 1 .. 199
  BY InputAssumption
<1>2. Byte(10 + PathLen[path]) = 10 + PathLen[path]
  BY <1>1 DEF Byte
<1> QED
  BY <1>1, <1>2 DEF set_add_sync_file_msg, SYAW_MSG_ADD_SYNC_FILE, Space, IsHead

LEMMA ModeMessage ==
  ASSUME NEW mode \in Mode, NEW port \in Port
  PROVE  LET msg == set_set_trans_mode_msg(mode, port)
         IN  /\ IsHead(msg.head) /\ msg.text = Filler
             /\ msg.head = <<2, 26, mode, High(port), Low(port)>>
<1>1. port \in Word /\ mode \in 1 .. 2
  BY InputAssumption DEF Mode, TCP, UDP
<1>2. High(port) \in 0 .. 255 /\ Low(port) \in 0 .. 255
  BY <1>1, PortBytes
<1> QED
  BY <1>1, <1>2 DEF set_set_trans_mode_msg, SYAW_MSG_NOTIFY_PROTOCOL, IsHead

--------------------------------------------------------------------------------
(* What the listener makes of a request. *)

AddMsg(path) == [data |-> Sent(set_add_sync_file_msg(path)), req |-> Add(path)]
ModeMsg(mode, port) ==
  [data |-> Sent(set_set_trans_mode_msg(mode, port)), req |-> SetMode(mode, port)]

\* The datagrams the GUI sends, each with its request.
Carried == {AddMsg(path) : path \in Path} \cup {ModeMsg(m, q) : m \in Mode, q \in Port}

Buffer == [head : [1 .. 5 -> 0 .. 255], text : Path \cup {Filler}, fresh : BOOLEAN]

\* The types, and that nothing else is ever at the socket.
RequestInv ==
  /\ gui \in BOOLEAN /\ daemon \in BOOLEAN
  /\ sock \in Seq(Carried)
  /\ buf \in Buffer
  /\ added \in Seq(Path \cup {Unterminated})
  /\ settings \in [mode : Mode, port : [Mode -> Word]]
  /\ asked \in 0 .. MaxRequests /\ deaths \in 0 .. MaxDeaths

LEMMA AddArrives ==
  ASSUME NEW path \in Path, NEW old \in Buffer
  PROVE  LET b == Received(old, AddMsg(path).data)
         IN  /\ b.head \in [1 .. 5 -> 0 .. 255] /\ b.text = path
             /\ b.head[1] = 1
             /\ Decodable(b) <=> PathLen[path] <= 117
<1> DEFINE msg == set_add_sync_file_msg(path)
           b == Received(old, Sent(msg))
<1>1. /\ IsHead(msg.head) /\ \A i \in 1 .. 5 : msg.head[i] # 0
      /\ msg.head[1] = 1 /\ msg.head[2] = 10 + PathLen[path] /\ msg.text = path
  BY AddMessage
<1>2. old.head \in [1 .. 5 -> 0 .. 255]
  BY DEF Buffer
<1> HIDE DEF msg
<1>3. /\ b.head \in [1 .. 5 -> 0 .. 255] /\ b.text = path
      /\ b.head[1] = 1 /\ b.head[2] = 10 + PathLen[path]
  BY <1>1, <1>2, ArrivesFacts, SMTT(30)
<1>4. PathLen[path] \in 1 .. 199
  BY InputAssumption
<1> HIDE DEF b
<1>5. Decodable(b) <=> PathLen[path] <= 117
  BY <1>3, <1>4 DEF Decodable, Signed
<1> QED
  BY <1>3, <1>5 DEF AddMsg, b, msg

LEMMA ModeArrives ==
  ASSUME NEW mode \in Mode, NEW port \in Port, NEW old \in Buffer
  PROVE  LET b == Received(old, ModeMsg(mode, port).data)
         IN  /\ b.head \in [1 .. 5 -> 0 .. 255] /\ b.text \in {Filler, old.text}
             /\ b.head[1] = 2
             /\ DecodedMode(b) = mode
             /\ DecodedPort(b) \in Word
             /\ DecodedPort(b) \in IF port < 256 THEN 0 .. 255 ELSE {port}
<1> DEFINE msg == set_set_trans_mode_msg(mode, port)
           b == Received(old, Sent(msg))
<1>1. /\ IsHead(msg.head) /\ msg.text = Filler
      /\ msg.head = <<2, 26, mode, High(port), Low(port)>>
  BY ModeMessage
<1>2. old.head \in [1 .. 5 -> 0 .. 255]
  BY DEF Buffer
<1>3. port \in Word /\ mode \in 1 .. 2 /\ (mode = 1 \/ mode = 2)
  BY InputAssumption DEF Mode, TCP, UDP
<1>4. /\ High(port) \in 0 .. 255 /\ Low(port) \in 0 .. 255
      /\ PortOf(High(port), Low(port)) = port
      /\ High(port) = 0 <=> port < 256
  BY <1>3, PortBytes
<1> HIDE DEF msg
<1>5. /\ b.head \in [1 .. 5 -> 0 .. 255] /\ b.text \in {Filler, old.text}
      /\ \A i \in 1 .. 5 :
           (\A j \in 1 .. i - 1 : msg.head[j] # 0) => b.head[i] = msg.head[i]
  BY <1>1, <1>2, ArrivesFacts
<1> HIDE DEF b
<1>6. /\ b.head[1] = 2 /\ b.head[3] = mode /\ b.head[4] = High(port)
      /\ High(port) # 0 => b.head[5] = Low(port)
  BY <1>1, <1>3, <1>5
<1>7. b.head[5] \in 0 .. 255
  BY <1>5
<1>8. DecodedMode(b) = mode
  BY <1>3, <1>6 DEF DecodedMode, TCP, UDP
<1>9. CASE High(port) = 0
  <2>1. DecodedPort(b) = b.head[5]
    BY <1>6, <1>7, <1>9 DEF DecodedPort, PortOf
  <2>2. b.head[5] \in Word
    BY <1>7, ByteIsWord
  <2> QED
    BY <1>4, <1>5, <1>6, <1>7, <1>8, <1>9, <2>1, <2>2, SMTT(30) DEF ModeMsg, b, msg
<1>10. CASE High(port) # 0
  <2>1. DecodedPort(b) = port
    BY <1>4, <1>6, <1>10 DEF DecodedPort
  <2> QED
    BY <1>3, <1>4, <1>5, <1>6, <1>8, <1>10, <2>1 DEF ModeMsg, b, msg
<1> QED
  BY <1>9, <1>10

\* What a turn of the listener may do about a request: end the daemon, if that adds a
\* path that is too long, or what the request asks.
EndsOf(r) ==
  /\ r.op = "add" /\ r.path \in Path /\ PathLen[r.path] > 117
  /\ Die

Adds(r) ==
  /\ r.op = "add" /\ r.path \in Path
  /\ \E path \in IF CleanHeap THEN {r.path} ELSE {r.path, Unterminated} :
       added' = Append(added, path)
  /\ sock' = Tail(sock)
  /\ UNCHANGED <<daemon, settings>>

Sets(r) ==
  /\ r.op = "mode" /\ r.mode \in Mode /\ r.port \in Port
  /\ \E port \in Word :
       /\ port \in IF r.port < 256 THEN 0 .. 255 ELSE {r.port}
       /\ settings' = [mode |-> r.mode, port |-> [settings.port EXCEPT ![r.mode] = port]]
  /\ sock' = Tail(sock)
  /\ UNCHANGED <<daemon, added>>

LEMMA ListenFacts ==
  ASSUME RequestInv, Listen, NEW r, r = Head(sock).req
  PROVE  /\ sock # << >> /\ buf' \in Buffer
         /\ EndsOf(r) \/ Adds(r) \/ Sets(r)
<1> DEFINE d == Head(sock)
           b == Received(buf, d.data)
<1>1. sock # << >> /\ d \in Carried /\ buf \in Buffer
  BY DEF Listen, RequestInv
<1>2. /\ buf' = [head |-> b.head, text |-> b.text, fresh |-> FALSE]
      /\ \/ b.head[1] = 1 /\ ~ Decodable(b) /\ Die
         \/ b.head[1] = 1 /\ Decodable(b) /\ ApplyAdd(b) /\ sock' = Tail(sock)
         \/ b.head[1] = 2 /\ ApplyMode(b) /\ sock' = Tail(sock)
  BY DEF Listen, SYAW_MSG_ADD_SYNC_FILE, SYAW_MSG_NOTIFY_PROTOCOL
<1>3. ASSUME NEW path \in Path, d = AddMsg(path)
      PROVE  buf' \in Buffer /\ (EndsOf(r) \/ Adds(r))
  <2>1. /\ b.head \in [1 .. 5 -> 0 .. 255] /\ b.text = path
        /\ b.head[1] = 1
        /\ Decodable(b) <=> PathLen[path] <= 117
    <3> DEFINE a == Received(buf, AddMsg(path).data)
    <3>1. /\ a.head \in [1 .. 5 -> 0 .. 255] /\ a.text = path
          /\ a.head[1] = 1
          /\ Decodable(a) <=> PathLen[path] <= 117
      BY <1>1, AddArrives
    <3>2. b = a
      BY <1>3
    <3> HIDE DEF a, b
    <3> QED
      BY <3>1, <3>2
  <2>2. r.op = "add" /\ r.path = path
    BY <1>3 DEF AddMsg, Add
  <2>3. PathLen[path] \in Nat
    BY InputAssumption
  <2> HIDE DEF d, b
  <2>4. buf' \in Buffer
    BY <1>2, <2>1 DEF Buffer
  <2>5. CASE Decodable(b)
    <3>1. ApplyAdd(b) /\ sock' = Tail(sock)
      BY <1>2, <2>1, <2>5
    <3> QED
      BY <2>1, <2>2, <2>4, <3>1 DEF ApplyAdd, DecodedPath, Adds
  <2>6. CASE ~ Decodable(b)
    <3>1. Die
      BY <1>2, <2>1, <2>6
    <3> QED
      BY <2>1, <2>2, <2>3, <2>4, <2>6, <3>1 DEF EndsOf
  <2> QED
    BY <2>5, <2>6
<1>4. ASSUME NEW mode \in Mode, NEW port \in Port, d = ModeMsg(mode, port)
      PROVE  buf' \in Buffer /\ Sets(r)
  <2>1. /\ b.head \in [1 .. 5 -> 0 .. 255] /\ b.text \in {Filler, buf.text}
        /\ b.head[1] = 2
        /\ DecodedMode(b) = mode
        /\ DecodedPort(b) \in Word
        /\ DecodedPort(b) \in IF port < 256 THEN 0 .. 255 ELSE {port}
    <3> DEFINE a == Received(buf, ModeMsg(mode, port).data)
    <3>1. /\ a.head \in [1 .. 5 -> 0 .. 255] /\ a.text \in {Filler, buf.text}
          /\ a.head[1] = 2
          /\ DecodedMode(a) = mode
          /\ DecodedPort(a) \in Word
          /\ DecodedPort(a) \in IF port < 256 THEN 0 .. 255 ELSE {port}
      BY <1>1, ModeArrives
    <3>2. b = a
      BY <1>4
    <3> HIDE DEF a, b
    <3> QED
      BY <3>1, <3>2
  <2>2. r.op = "mode" /\ r.mode = mode /\ r.port = port
    BY <1>4 DEF ModeMsg, SetMode
  <2> HIDE DEF d, b
  <2>3. buf' \in Buffer
    BY <1>1, <1>2, <2>1 DEF Buffer
  <2>4. ApplyMode(b) /\ sock' = Tail(sock)
    BY <1>2, <2>1
  <2> QED
    BY <2>1, <2>2, <2>3, <2>4 DEF ApplyMode, Sets
<1> QED
  BY <1>1, <1>3, <1>4 DEF Carried

--------------------------------------------------------------------------------
(* The types. *)

LEMMA DefaultsType == Defaults \in [mode : Mode, port : [Mode -> Word]]
BY InputAssumption DEF Defaults, Mode

\* What the GUI sends is a datagram that is carried, and is never empty.
LEMMA CarriedFacts ==
  /\ \A path \in Path : AddMsg(path) \in Carried
  /\ \A mode \in Mode, port \in Port : ModeMsg(mode, port) \in Carried
  /\ \A d \in Carried : Len(d.data.head) \in 1 .. HEAD
<1>1. ASSUME NEW msg, IsHead(msg.head) PROVE Len(Sent(msg).head) \in 1 .. HEAD
  <2>1. PICK n \in 1 .. 5 : Sent(msg).head = SubSeq(msg.head, 1, n)
    BY <1>1, SentFacts
  <2>2. Len(SubSeq(msg.head, 1, n)) = n
    BY <1>1 DEF IsHead
  <2> QED
    BY <2>1, <2>2
<1>2. ASSUME NEW path \in Path PROVE Len(AddMsg(path).data.head) \in 1 .. HEAD
  BY <1>1, AddMessage DEF AddMsg
<1>3. ASSUME NEW mode \in Mode, NEW port \in Port
      PROVE  Len(ModeMsg(mode, port).data.head) \in 1 .. HEAD
  BY <1>1, ModeMessage DEF ModeMsg
<1> QED
  BY <1>2, <1>3 DEF Carried

LEMMA FreshType == FreshBuffer \subseteq Buffer
<1>1. [1 .. HEAD -> StackByte] \subseteq [1 .. 5 -> 0 .. 255]
  <2>1. StackByte \subseteq 0 .. 255
    BY InputAssumption
  <2> QED
    BY <2>1
<1> DEFINE H == [1 .. HEAD -> StackByte]
           I == [1 .. 5 -> 0 .. 255]
<1> HIDE DEF H, I
<1>2. [head : H, text : {Filler}, fresh : {TRUE}]
        \subseteq [head : I, text : Path \cup {Filler}, fresh : BOOLEAN]
  BY <1>1 DEF H, I
<1> QED
  BY <1>2 DEF H, I, FreshBuffer, Buffer

\* What ends with the daemon.
LEMMA DieType ==
  ASSUME Die
  PROVE  /\ daemon' \in BOOLEAN /\ sock' \in Seq(Carried)
         /\ added' \in Seq(Path \cup {Unterminated})
         /\ settings' \in [mode : Mode, port : [Mode -> Word]]
<1>1. settings' = Defaults /\ daemon' = FALSE /\ sock' = << >> /\ added' = << >>
  BY DEF Die
<1>2. daemon' \in BOOLEAN /\ sock' \in Seq(Carried)
  BY <1>1, NoneOf
<1>3. added' \in Seq(Path \cup {Unterminated})
  BY <1>1
<1> QED
  BY <1>1, <1>2, <1>3, DefaultsType

LEMMA SetType ==
  ASSUME NEW s \in [mode : Mode, port : [Mode -> Word]], NEW m \in Mode, NEW port \in Word
  PROVE  [mode |-> m, port |-> [s.port EXCEPT ![m] = port]]
           \in [mode : Mode, port : [Mode -> Word]]
OBVIOUS

LEMMA InitRequests == Init => RequestInv
<1> SUFFICES ASSUME Init PROVE RequestInv
  OBVIOUS
<1>1. buf \in Buffer
  BY FreshType DEF Init
<1> QED
  BY <1>1, DefaultsType, InputAssumption DEF Init, RequestInv

\* What the parts of TypeOK say of a socket and a buffer.
LEMMA SocketTypes ==
  ASSUME NEW s \in Seq(Carried)
  PROVE  \A i \in DOMAIN s : Len(s[i].data.head) \in 1 .. HEAD
BY CarriedFacts

LEMMA RequestTypes == RequestInv => TypeOK
BY SocketTypes DEF RequestInv, TypeOK, Buffer

LEMMA StepRequests == RequestInv /\ [Next]_vars => RequestInv'
<1> SUFFICES ASSUME RequestInv, [Next]_vars PROVE RequestInv'
  OBVIOUS
<1>1. MaxRequests \in Nat /\ MaxDeaths \in Nat
  BY InputAssumption
<1>2. ASSUME NEW r, NEW msg, Request(r, msg), [data |-> Sent(msg), req |-> r] \in Carried
      PROVE  RequestInv'
  <2>1. sock' \in Seq(Carried) /\ gui' \in BOOLEAN
    <3>1. CASE daemon
      BY <1>2, <3>1, SMTT(30) DEF RequestInv, Request, send_msg_to_daemon
    <3>2. CASE ~ daemon
      BY <1>2, <3>2 DEF RequestInv, Request, send_msg_to_daemon
    <3> QED
      BY <3>1, <3>2
  <2> QED
    BY <1>1, <1>2, <2>1 DEF RequestInv, Request
<1>3. ASSUME NEW path \in Path, AddEntry(path)
      PROVE  RequestInv'
  BY <1>2, <1>3, CarriedFacts DEF AddEntry, AddMsg
<1>4. ASSUME NEW mode \in Mode, NEW port \in Port, RadioButtonToggled(mode, port)
      PROVE  RequestInv'
  BY <1>2, <1>4, CarriedFacts DEF RadioButtonToggled, ModeMsg
<1>5. CASE StartGui
  BY <1>5 DEF RequestInv, StartGui
<1>6. CASE Listen
  <2>1. /\ UNCHANGED <<gui, asked, deaths>>
        /\ sock # << >> /\ buf' \in Buffer
    BY <1>6, ListenFacts DEF Listen
  <2>2. Tail(sock) \in Seq(Carried)
    BY <2>1, TailOf DEF RequestInv
  <2>3. PICK r : EndsOf(r) \/ Adds(r) \/ Sets(r)
    BY <1>6, ListenFacts
  <2>4. CASE EndsOf(r)
    BY <2>1, <2>4, DieType DEF RequestInv, EndsOf
  <2>5. CASE Adds(r)
    <3>1. added' \in Seq(Path \cup {Unterminated})
      BY <2>5 DEF RequestInv, Adds
    <3> QED
      BY <2>1, <2>2, <2>5, <3>1 DEF RequestInv, Adds
  <2>6. CASE Sets(r)
    <3>1. settings' \in [mode : Mode, port : [Mode -> Word]]
      BY <2>6, SetType DEF RequestInv, Sets
    <3> QED
      BY <2>1, <2>2, <2>6, <3>1 DEF RequestInv, Sets
  <2> QED
    BY <2>3, <2>4, <2>5, <2>6
<1>7. CASE ListenFails
  BY <1>7, DieType DEF RequestInv, ListenFails
<1>8. CASE Kill
  BY <1>1, <1>8, DieType DEF RequestInv, Kill
<1>9. CASE StartDaemon
  <2>1. buf' \in Buffer
    BY <1>9, FreshType DEF StartDaemon
  <2> QED
    BY <1>9, <2>1 DEF RequestInv, StartDaemon
<1>10. CASE UNCHANGED vars
  BY <1>10 DEF RequestInv, vars
<1> QED
  BY <1>3, <1>4, <1>5, <1>6, <1>7, <1>8, <1>9, <1>10 DEF Next

\* Type correctness: whatever the stack held, nothing the listener takes from its
\* buffer is out of range, no datagram is empty, and each port fits sixteen bits.
THEOREM RequestsTypeCorrect == Spec => []TypeOK
<1>1. RequestInv => TypeOK
  BY RequestTypes
<1> QED
  BY <1>1, InitRequests, StepRequests, PTL DEF Spec

--------------------------------------------------------------------------------
(* Step simulation of RequestQueue. *)

Pending == [i \in DOMAIN sock |-> sock[i].req]

\* The requests at the socket, as a sequence.
LEMMA PendingFacts ==
  ASSUME NEW s \in Seq(Carried), NEW p, p = [i \in DOMAIN s |-> s[i].req]
  PROVE  /\ s = << >> => p = << >>
         /\ s # << >> => /\ p # << >> /\ Head(p) = Head(s).req
                         /\ Tail(p) = [i \in DOMAIN Tail(s) |-> Tail(s)[i].req]
         /\ \A d \in Carried :
              Append(p, d.req) = [i \in DOMAIN Append(s, d) |-> Append(s, d)[i].req]
<1> DEFINE R == {d.req : d \in Carried}
<1>1. p \in Seq(R) /\ Len(p) = Len(s) /\ \A i \in 1 .. Len(s) : p[i] = s[i].req
  OBVIOUS
<1>2. ASSUME s # << >>
      PROVE  /\ p # << >> /\ Head(p) = Head(s).req
             /\ Tail(p) = [i \in DOMAIN Tail(s) |-> Tail(s)[i].req]
  BY <1>1, <1>2
<1>3. ASSUME NEW d \in Carried
      PROVE  Append(p, d.req) = [i \in DOMAIN Append(s, d) |-> Append(s, d)[i].req]
  BY <1>1
<1> QED
  BY <1>2, <1>3

LEMMA InitChannel == Init => Channel!Init
BY DEF Init, Channel!Init

LEMMA DieLoses == Die => Channel!Lose
BY DEF Die, Channel!Lose

\* A request of the GUI joins the others, or finds no daemon.
LEMMA RequestSubmits ==
  ASSUME RequestInv, NEW r \in Channel!Request, NEW msg, Request(r, msg),
         [data |-> Sent(msg), req |-> r] \in Carried
  PROVE  [Channel!Next]_(Channel!vars)
<1> DEFINE d == [data |-> Sent(msg), req |-> r]
<1>1. UNCHANGED <<added, settings>>
  BY DEF Request
<1>2. CASE daemon
  <2>1. sock' = Append(sock, d)
    BY <1>2 DEF Request, send_msg_to_daemon
  <2>2. Pending' = Append(Pending, d.req)
    BY <2>1, PendingFacts DEF Pending, RequestInv
  <2> QED
    BY <1>1, <2>2 DEF Pending, Channel!Next, Channel!Submit
<1>3. CASE ~ daemon
  BY <1>1, <1>3 DEF Request, send_msg_to_daemon, Channel!vars
<1> QED
  BY <1>2, <1>3

\* A turn of the listener performs the oldest request, or loses them all.
LEMMA ListenPerforms ==
  ASSUME RequestInv, Listen
  PROVE  Channel!Perform \/ Channel!Lose
<1> DEFINE r == Head(sock).req
<1>1. sock # << >> /\ (EndsOf(r) \/ Adds(r) \/ Sets(r))
  BY ListenFacts
<1> HIDE DEF r
<1>2. Pending # << >> /\ Head(Pending) = r
  BY <1>1, PendingFacts DEF RequestInv, Pending, r
<1>3. sock' = Tail(sock) => Pending' = Tail(Pending)
  BY <1>1, PendingFacts DEF RequestInv, Pending
<1>4. CASE EndsOf(r)
  BY <1>4, DieLoses DEF EndsOf
<1>5. CASE Adds(r)
  <2>1. PICK path \in IF CleanHeap THEN {r.path} ELSE {r.path, Unterminated} :
          added' = Append(added, path)
    BY <1>5 DEF Adds
  <2>2. r.op = "add" /\ Pending' = Tail(Pending) /\ UNCHANGED settings
    BY <1>3, <1>5 DEF Adds
  <2>3. Add(path) \in Understood(r)
    BY <2>1, <2>2 DEF Understood
  <2>4. Add(path).op = "add" /\ Add(path).path = path
    BY DEF Add
  <2> QED
    BY <1>2, <2>1, <2>2, <2>3, <2>4 DEF Pending, Channel!Perform
<1>6. CASE Sets(r)
  <2>1. PICK port \in Word :
          /\ port \in IF r.port < 256 THEN 0 .. 255 ELSE {r.port}
          /\ settings' = [mode |-> r.mode, port |-> [settings.port EXCEPT ![r.mode] = port]]
    BY <1>6 DEF Sets
  <2>2. r.op = "mode" /\ Pending' = Tail(Pending) /\ UNCHANGED added
    BY <1>3, <1>6 DEF Sets
  <2>3. SetMode(r.mode, port) \in Understood(r)
    BY <2>1, <2>2 DEF Understood
  <2>4. /\ SetMode(r.mode, port).op = "mode" /\ SetMode(r.mode, port).mode = r.mode
        /\ SetMode(r.mode, port).port = port
    BY DEF SetMode
  <2> QED
    BY <1>2, <2>1, <2>2, <2>3, <2>4 DEF Pending, Channel!Perform
<1> QED
  BY <1>1, <1>4, <1>5, <1>6

LEMMA StepChannel == RequestInv /\ [Next]_vars => [Channel!Next]_(Channel!vars)
<1> SUFFICES ASSUME RequestInv, [Next]_vars PROVE [Channel!Next]_(Channel!vars)
  OBVIOUS
<1>1. ASSUME NEW path \in Path, AddEntry(path) PROVE [Channel!Next]_(Channel!vars)
  <2>1. Add(path) \in Channel!Request
    BY DEF Add, Channel!Request
  <2> QED
    BY <1>1, <2>1, RequestSubmits, CarriedFacts DEF AddEntry, AddMsg
<1>2. ASSUME NEW mode \in Mode, NEW port \in Port, RadioButtonToggled(mode, port)
      PROVE  [Channel!Next]_(Channel!vars)
  <2>1. SetMode(mode, port) \in Channel!Request
    BY DEF SetMode, Channel!Request
  <2> QED
    BY <1>2, <2>1, RequestSubmits, CarriedFacts DEF RadioButtonToggled, ModeMsg
<1>3. CASE Listen
  BY <1>3, ListenPerforms DEF Channel!Next
<1>4. CASE Die
  BY <1>4, DieLoses DEF Channel!Next
<1>5. CASE UNCHANGED <<sock, added, settings>>
  BY <1>5 DEF Channel!vars
<1> QED
  BY <1>1, <1>2, <1>3, <1>4, <1>5 DEF Next, StartGui, ListenFails, Kill, StartDaemon, vars

\* For every path and port, whatever the buffer held: the daemon does each thing it was
\* asked, once, in order and as it is understood, or dies.  (That it does so in the end,
\* the other half of ImplementsRequests, is fairness.)
THEOREM RequestsAreDone == Spec => Channel!Init /\ [][Channel!Next]_(Channel!vars)
BY InitRequests, StepRequests, InitChannel, StepChannel, PTL DEF Spec

\* Only a path of more than 117 characters, or the first request of all, ends the daemon.
THEOREM LongPathsEnd == Spec => DiesOfLongPaths
<1> DEFINE OnlyLong == daemon /\ ~ daemon' /\ deaths' = deaths =>
                         \/ LastAsked.op = "add" /\ PathLen[LastAsked.path] > 117
                         \/ buf.fresh
<1>1. ASSUME RequestInv, [Next]_vars PROVE [OnlyLong]_vars
  <2>1. CASE Listen
    <3>1. EndsOf(LastAsked) \/ Adds(LastAsked) \/ Sets(LastAsked)
      BY <1>1, <2>1, ListenFacts DEF LastAsked
    <3> QED
      BY <3>1 DEF EndsOf, Adds, Sets
  <2>2. CASE ListenFails
    BY <2>2 DEF ListenFails
  <2>3. CASE Kill
    <3>1. deaths \in Nat /\ deaths' = deaths + 1
      BY <1>1, <2>3, InputAssumption DEF RequestInv, Kill
    <3> QED
      BY <3>1
  <2>4. CASE \/ \E path \in Path : AddEntry(path)
             \/ \E mode \in Mode, port \in Port : RadioButtonToggled(mode, port)
             \/ StartGui \/ StartDaemon
    BY <2>4 DEF AddEntry, RadioButtonToggled, Request, StartGui, StartDaemon
  <2> QED
    BY <1>1, <2>1, <2>2, <2>3, <2>4 DEF Next
<1> QED
  BY <1>1, InitRequests, StepRequests, PTL DEF Spec, DiesOfLongPaths

================================================================================
