-------------------------- MODULE ProgressReportProofs -------------------------
(******************************************************************************)
(* Theorems about ProgressReport, for every set of files, lengths and ports,  *)
(* every size of the client's buffer and of the GUI's socket, and any number  *)
(* of transfers, of rewritten files and of ends of the GUI.                   *)
(******************************************************************************)
EXTENDS ProgressReport, DatagramProofs

USE DEF HEAD

--------------------------------------------------------------------------------
(* Quotients. *)

\* A product grows with its factor.
LEMMA TimesMono ==
  ASSUME NEW a \in Nat, NEW b \in Nat, a < b, NEW C \in Nat \ {0}
  PROVE  a * C + C <= b * C
<1> DEFINE d == b - a - 1
<1>1. d \in Nat /\ b = a + 1 + d
  OBVIOUS
<1> HIDE DEF d
<1>2. b * C = a * C + C + d * C /\ d * C \in Nat
  BY <1>1
<1>3. a * C \in Nat
  OBVIOUS
<1> QED
  BY <1>2, <1>3

LEMMA DivMono ==
  ASSUME NEW a \in Nat, NEW b \in Nat, a <= b, NEW C \in Nat \ {0}
  PROVE  a \div C <= b \div C
<1> DEFINE p == a \div C
           q == b \div C
<1>1. /\ p \in Nat /\ a % C \in 0 .. C - 1 /\ a = p * C + (a % C)
      /\ q \in Nat /\ b % C \in 0 .. C - 1 /\ b = q * C + (b % C)
  BY DivMod
<1> HIDE DEF p, q
<1>2. ASSUME q < p PROVE FALSE
  <2>1. q * C + C <= p * C
    BY <1>1, <1>2, TimesMono
  <2>2. p * C \in Nat /\ q * C \in Nat
    BY <1>1
  <2> QED
    BY <1>1, <2>1, <2>2
<1> QED
  BY <1>1, <1>2 DEF p, q

\* All of something is a hundred percent of it.
LEMMA Hundred ==
  ASSUME NEW n \in Nat \ {0}
  PROVE  (100 * n) \div n = 100
<1> DEFINE q == (100 * n) \div n
<1>1. 100 * n \in Nat
  OBVIOUS
<1>2. q \in Nat /\ (100 * n) % n \in 0 .. n - 1 /\ 100 * n = q * n + ((100 * n) % n)
  BY <1>1, DivMod
<1> HIDE DEF q
<1>3. ~ q < 100
  <2> SUFFICES ASSUME q < 100 PROVE FALSE
    OBVIOUS
  <2>1. q * n + n <= 100 * n /\ q * n \in Nat
    BY <1>2, TimesMono
  <2> QED
    BY <1>1, <1>2, <2>1
<1>4. ~ 100 < q
  <2> SUFFICES ASSUME 100 < q PROVE FALSE
    OBVIOUS
  <2>1. 100 * n + n <= q * n /\ q * n \in Nat
    BY <1>2, TimesMono
  <2> QED
    BY <1>1, <1>2, <2>1
<1> QED
  BY <1>2, <1>3, <1>4 DEF q

LEMMA PercentMono ==
  ASSUME NEW a \in Nat, NEW b \in Nat, a <= b, NEW n \in Nat \ {0}, b <= n
  PROVE  /\ (100 * a) \div n \in 0 .. 100
         /\ (100 * a) \div n <= (100 * b) \div n
<1>1. /\ 100 * a \in Nat /\ 100 * b \in Nat /\ 100 * n \in Nat
      /\ 100 * a <= 100 * b /\ 100 * a <= 100 * n
  OBVIOUS
<1>2. (100 * a) \div n <= (100 * b) \div n /\ (100 * a) \div n <= (100 * n) \div n
  BY <1>1, DivMono
<1>3. (100 * a) \div n \in Nat
  BY <1>1, DivMod
<1> QED
  BY <1>2, <1>3, Hundred

\* What the bar shows for two numbers.
LEMMA BarFacts ==
  ASSUME NEW s \in Nat, NEW z \in Nat, NEW bar \in set_progress_bar(s, z)
  PROVE  /\ s > z => bar.percent = 100 /\ bar.secs = z
         /\ ~ s > z => bar.secs = 0
         /\ ~ s > z /\ z # 0 => bar.percent = (100 * s) \div z
         /\ bar.percent \in 0 .. 100 \cup {INT_MIN} /\ bar.secs \in Nat
<1>1. CASE s > z
  <2>1. bar \in [percent : {(100 * s) \div s}, secs : {z}]
    BY <1>1 DEF set_progress_bar, Finished
  <2>2. (100 * s) \div s = 100
    BY <1>1, Hundred
  <2> QED
    BY <1>1, <2>1, <2>2
<1>2. CASE ~ s > z /\ z # 0
  <2>1. bar \in [percent : {(100 * s) \div z}, secs : {0}]
    BY <1>2 DEF set_progress_bar, Finished
  <2>2. (100 * s) \div z \in 0 .. 100
    BY <1>2, PercentMono
  <2> QED
    BY <1>2, <2>1, <2>2
<1>3. CASE ~ s > z /\ z = 0
  <2>1. bar \in [percent : {0, INT_MIN}, secs : {0}]
    BY <1>3 DEF set_progress_bar, Finished
  <2> QED
    BY <1>3, <2>1
<1> QED
  BY <1>1, <1>2, <1>3

--------------------------------------------------------------------------------
(* The reports the client makes, and what the listener makes of one. *)

Report == {r \in [id : Nat \ {0}, file : File, port : Port, sent : Nat, size : Nat,
                  last : BOOLEAN] : r.last \/ r.sent > 0}
Text == [sent : Nat, size : Nat, file : File \cup {Mangled}]
Buffer == [head : [1 .. 5 -> 0 .. 255], text : Text]
Label == [name : File \cup {Mangled}, port : Word, percent : 0 .. 100 \cup {INT_MIN},
          secs : Nat]

Mail(r) == [data |-> Sent(set_progress_notify_info(r)), rep |-> r]
Mails == {Mail(r) : r \in Report}

TextOf(r) == [sent |-> r.sent, size |-> r.size, file |-> r.file]

\* A report with no NUL in front of its text.
Whole(r) == High(r.port) # 0 /\ Low(r.port) # 0 /\ PadByte # 0

LEMMA Messages ==
  ASSUME NEW r \in Report
  PROVE  LET msg == set_progress_notify_info(r)
         IN  /\ IsHead(msg.head) /\ msg.text = TextOf(r)
             /\ msg.head[2] = 36 + NameLen[r.file] /\ msg.head[2] # 0
             /\ msg.head[3] = High(r.port) /\ msg.head[4] = Low(r.port)
             /\ Whole(r) <=> \A i \in 1 .. 5 : msg.head[i] # 0
<1> DEFINE msg == set_progress_notify_info(r)
<1>1. NameLen[r.file] \in 1 .. 49 /\ r.port \in Word /\ PadByte \in 0 .. 255
  BY InputAssumption DEF Report
<1>2. Byte(36 + NameLen[r.file]) = 36 + NameLen[r.file]
  BY <1>1 DEF Byte
<1>3. High(r.port) \in 0 .. 255 /\ Low(r.port) \in 0 .. 255
  BY <1>1, PortBytes
<1>4. /\ msg.head = <<1, 36 + NameLen[r.file], High(r.port), Low(r.port), PadByte>>
      /\ msg.text = TextOf(r)
  BY <1>2 DEF set_progress_notify_info, GUI_MSG_PROGRESS_NOTIFY, TextOf
<1> HIDE DEF msg
<1>5. /\ msg.head[1] = 1 /\ msg.head[2] = 36 + NameLen[r.file]
      /\ msg.head[3] = High(r.port) /\ msg.head[4] = Low(r.port) /\ msg.head[5] = PadByte
      /\ msg.head \in Seq(0 .. 255) /\ Len(msg.head) = 5
  BY <1>1, <1>3, <1>4
<1>6. Whole(r) <=> \A i \in 1 .. 5 : msg.head[i] # 0
  <2> DEFINE h == msg.head
  <2> HIDE DEF h
  <2>1. (\A i \in 1 .. 5 : h[i] # 0)
          <=> h[1] # 0 /\ h[2] # 0 /\ h[3] # 0 /\ h[4] # 0 /\ h[5] # 0
    <3>1. \A i \in 1 .. 5 : i = 1 \/ i = 2 \/ i = 3 \/ i = 4 \/ i = 5
      OBVIOUS
    <3> QED
      BY <3>1
  <2>2. 1 # 0 /\ 36 + NameLen[r.file] # 0
    BY <1>1
  <2>3. h[1] # 0 /\ h[2] # 0
    BY <1>5, <2>2 DEF h
  <2> QED
    BY <1>5, <2>1, <2>3 DEF Whole, h
<1> QED
  BY <1>1, <1>4, <1>5, <1>6 DEF IsHead, msg

\* A datagram is whole when its report has no NUL there.
LEMMA MailFacts ==
  ASSUME NEW r \in Report, NEW old \in Buffer
  PROVE  LET d == Mail(r).data
             b == Received(old, d)
         IN  /\ d.whole \in BOOLEAN /\ (d.whole <=> Whole(r))
             /\ b \in Buffer
             /\ Whole(r) => b.text = TextOf(r)
             /\ ~ Whole(r) => b.text = old.text
             /\ b.head[2] = 36 + NameLen[r.file]
             /\ PortOf(b.head[3], b.head[4]) \in Word
             /\ r.port < 256 \/ PortOf(b.head[3], b.head[4]) = r.port
<1> DEFINE msg == set_progress_notify_info(r)
           d == Sent(msg)
           b == Received(old, d)
<1>1. /\ IsHead(msg.head) /\ msg.text = TextOf(r)
      /\ msg.head[2] = 36 + NameLen[r.file] /\ msg.head[2] # 0
      /\ msg.head[3] = High(r.port) /\ msg.head[4] = Low(r.port)
      /\ Whole(r) <=> \A i \in 1 .. 5 : msg.head[i] # 0
  BY Messages
<1>2. msg.head[1] # 0
  BY <1>1 DEF IsHead
<1> HIDE DEF msg
<1>3. PICK n \in 1 .. 5 :
        /\ d = [head |-> SubSeq(msg.head, 1, n), text |-> msg.text, whole |-> n = 5]
        /\ \A i \in 1 .. n : msg.head[i] # 0
        /\ n = 5 \/ msg.head[n + 1] = 0
  BY <1>1, SentFacts
<1>4. d.whole = (n = 5) /\ d.text = msg.text
  BY <1>3
<1>5. n = 5 <=> Whole(r)
  <2>1. n # 5 => n + 1 \in 1 .. 5
    OBVIOUS
  <2> QED
    BY <1>1, <1>3, <2>1
<1>6. old.head \in [1 .. 5 -> 0 .. 255] /\ old.text \in Text
  BY DEF Buffer
<1>7. /\ b.head \in [1 .. 5 -> 0 .. 255]
      /\ \A i \in 1 .. 5 : (\A j \in 1 .. i - 1 : msg.head[j] # 0) => b.head[i] = msg.head[i]
  BY <1>1, <1>6, ArrivesFacts
<1>8. /\ b = [head |-> b.head, text |-> b.text]
      /\ b.text = IF d.whole THEN d.text ELSE old.text
  BY DEF Received
<1> HIDE DEF b, d
<1>9. TextOf(r) \in Text
  BY DEF Report, TextOf, Text
<1>10. b.text \in Text
  BY <1>1, <1>4, <1>6, <1>8, <1>9
<1>11. b \in Buffer
  BY <1>7, <1>8, <1>10 DEF Buffer
<1>12. b.head[2] = 36 + NameLen[r.file] /\ b.head[3] = High(r.port)
  BY <1>1, <1>2, <1>7
<1>13. High(r.port) # 0 => b.head[4] = Low(r.port)
  BY <1>1, <1>2, <1>7
<1>14. r.port \in Word
  BY InputAssumption DEF Report
<1>15. r.port < 256 \/ PortOf(b.head[3], b.head[4]) = r.port
  BY <1>12, <1>13, <1>14, PortBytes
<1>16. PortOf(b.head[3], b.head[4]) \in Word
  <2>1. b.head[3] \in 0 .. 255 /\ b.head[4] \in 0 .. 255
    BY <1>7
  <2> QED
    BY <2>1, BytesAreWord
<1> QED
  BY <1>1, <1>4, <1>5, <1>8, <1>11, <1>12, <1>15, <1>16 DEF Mail, b, d, msg

--------------------------------------------------------------------------------
(* What the label shows, however the files change and the reports are cut. *)

\* The label shows the two numbers of report r.
Shows(r) ==
  \E bar \in set_progress_bar(r.sent, r.size) :
    label.percent = bar.percent /\ label.secs = bar.secs

Types ==
  /\ gui \in BOOLEAN /\ daemon \in BOOLEAN
  /\ len \in [File -> Size]
  /\ client \in [at : {"idle", "copy"}, id : 0 .. MaxTransfers,
                 file : File \cup {Mangled}, port : Port \cup {0},
                 size : Nat, sent : Nat, turns : Nat]
  /\ client.at = "copy" => client.file \in File /\ client.port \in Port /\ client.id # 0
  /\ sock \in Seq(Mails) /\ Len(sock) <= QLEN
  /\ buf \in Buffer /\ label \in Label
  /\ taken \in Report \cup {NoReport} /\ whole \in Report \cup {NoReport}
  /\ rewrites \in 0 .. MaxRewrites /\ stops \in 0 .. MaxStops

\* The buffer's text is that of the last report that came whole, the label shows
\* its numbers, and a whole report is the last of those.
LabelInv ==
  /\ Types
  /\ whole \in Report => Whole(whole) /\ buf.text = TextOf(whole) /\ Shows(whole)
  /\ taken \in Report => taken.port < 256 \/ label.port = taken.port
  /\ taken \in Report /\ Whole(taken) => taken = whole
  /\ taken \in Report /\ taken = whole => label.name = taken.file

LEMMA NoReportIsNone == NoReport \notin Report /\ NoReport.id = 0 /\ NoReport.port = 0
BY DEF NoReport, Report

LEMMA InitLabel == Init => LabelInv
<1> SUFFICES ASSUME Init PROVE LabelInv
  OBVIOUS
<1>1. taken = NoReport /\ whole = NoReport
  BY DEF Init
<1>2. buf \in Buffer /\ label \in Label
  <2>1. FreshBuffer \in Buffer
    BY DEF FreshBuffer, Buffer, Text
  <2>2. 0 \in Word
    BY ByteIsWord
  <2>3. EmptyLabel \in Label
    BY <2>2 DEF EmptyLabel, Label
  <2> QED
    BY <2>1, <2>3 DEF Init
<1>3. sock \in Seq(Mails) /\ Len(sock) <= QLEN
  BY NoneOf, InputAssumption DEF Init
<1>4. /\ client \in [at : {"idle", "copy"}, id : 0 .. MaxTransfers,
                     file : File \cup {Mangled}, port : Port \cup {0},
                     size : Nat, sent : Nat, turns : Nat]
      /\ client.at # "copy"
  BY BoundAssumption DEF Init
<1>5. /\ gui \in BOOLEAN /\ daemon \in BOOLEAN /\ len \in [File -> Size]
      /\ rewrites \in 0 .. MaxRewrites /\ stops \in 0 .. MaxStops
  BY BoundAssumption DEF Init
<1>6. Types
  BY <1>1, <1>2, <1>3, <1>4, <1>5 DEF Types
<1> QED
  BY <1>1, <1>6, NoReportIsNone DEF LabelInv

\* Steps that leave the display alone.
LEMMA DisplayKept ==
  ASSUME LabelInv, Types', UNCHANGED display
  PROVE  LabelInv'
BY DEF LabelInv, display, Shows

\* A report put behind the others.
LEMMA SendTypes ==
  ASSUME Types, NEW r \in Report, send_msg_to_gui(r)
  PROVE  daemon' \in BOOLEAN /\ sock' \in Seq(Mails) /\ Len(sock') <= QLEN
<1>1. CASE gui
  <2>1. sock' = Append(sock, Mail(r)) /\ daemon' = daemon /\ Len(sock) < QLEN
    BY <1>1 DEF send_msg_to_gui, Mail
  <2>2. Mail(r) \in Mails
    BY DEF Mails
  <2>3. sock \in Seq(Mails) /\ QLEN \in Nat
    BY InputAssumption DEF Types
  <2> HIDE DEF Mails
  <2>4. sock' \in Seq(Mails) /\ Len(sock') = Len(sock) + 1 /\ Len(sock) \in Nat
    BY <2>1, <2>2, <2>3
  <2> QED
    BY <2>1, <2>3, <2>4 DEF Types
<1>2. CASE ~ gui
  BY <1>2 DEF send_msg_to_gui, Types
<1> QED
  BY <1>1, <1>2

\* What the loop reads, when it reads at all.
LEMMA Reads ==
  ASSUME Types, client.at = "copy"
  PROVE  /\ numRead \in Nat /\ numRead <= BUF
         /\ numRead = IF len[client.file] - client.sent <= 0 THEN 0
                      ELSE IF len[client.file] - client.sent < BUF
                           THEN len[client.file] - client.sent ELSE BUF
<1>1. len[client.file] \in Nat /\ client.sent \in Nat /\ BUF \in Nat \ {0}
  BY InputAssumption DEF Types
<1> QED
  BY <1>1 DEF numRead

\* What a turn makes of the client, and the report it may send.
Turned == [client EXCEPT !.sent = @ + numRead, !.turns = @ + 1]

LEMMA ChunkFacts ==
  ASSUME Types, Chunk
  PROVE  /\ client.at = "copy" /\ numRead > 0 /\ client' = Turned
         /\ Turned.at = "copy" /\ Turned.id = client.id /\ Turned.file = client.file
         /\ Turned.port = client.port /\ Turned.size = client.size
         /\ Turned.sent = client.sent + numRead /\ Turned.turns = client.turns + 1
         /\ Turned.sent \in Nat \ {0} /\ Turned.turns \in Nat \ {0}
         /\ ReportOf(Turned, client.size, FALSE) \in Report
         /\ \/ Turned.turns % REPORT = 0 /\ send_msg_to_gui(ReportOf(Turned, client.size, FALSE))
            \/ Turned.turns % REPORT # 0 /\ daemon' = daemon /\ sock' = sock
<1>1. client.at = "copy" /\ numRead > 0 /\ client' = Turned
  BY DEF Chunk, Turned
<1>2. numRead \in Nat /\ client.sent \in Nat /\ client.turns \in Nat
  BY <1>1, Reads DEF Types
<1>3. /\ Turned.at = "copy" /\ Turned.id = client.id /\ Turned.file = client.file
      /\ Turned.port = client.port /\ Turned.size = client.size
      /\ Turned.sent = client.sent + numRead /\ Turned.turns = client.turns + 1
  BY <1>1 DEF Turned, Types
<1>4. Turned.sent \in Nat \ {0} /\ Turned.turns \in Nat \ {0}
  BY <1>1, <1>2, <1>3
<1>5. \/ Turned.turns % REPORT = 0 /\ send_msg_to_gui(ReportOf(Turned, Turned.size, FALSE))
      \/ Turned.turns % REPORT # 0 /\ daemon' = daemon /\ sock' = sock
  BY DEF Chunk, Turned
<1> HIDE DEF Turned
<1>6. ReportOf(Turned, client.size, FALSE) \in Report
  BY <1>1, <1>3, <1>4 DEF ReportOf, Report, Types
<1> QED
  BY <1>1, <1>3, <1>4, <1>5, <1>6

LEMMA BeginTypes ==
  ASSUME Types, NEW f \in File, NEW port \in Port, Begin(f, port)
  PROVE  Types' /\ UNCHANGED <<sock, display, rewrites>>
<1>1. /\ client' = [at |-> "copy", id |-> client.id + 1, file |-> f, port |-> port,
                    size |-> len[f], sent |-> 0, turns |-> 0]
      /\ client.id < MaxTransfers
      /\ UNCHANGED <<gui, daemon, len, sock, display, rewrites, stops>>
  BY DEF Begin
<1>2. len[f] \in Nat /\ client.id + 1 \in 1 .. MaxTransfers
  <2>1. len \in [File -> Size] /\ client.id \in 0 .. MaxTransfers
    BY DEF Types
  <2>2. len[f] \in Nat
    BY <2>1, InputAssumption
  <2>3. client.id \in Nat /\ client.id + 1 \in Nat \ {0} /\ client.id + 1 <= MaxTransfers
    BY <1>1, <2>1, BoundAssumption
  <2> QED
    BY <2>2, <2>3, BoundAssumption
<1>3. /\ client' \in [at : {"idle", "copy"}, id : 0 .. MaxTransfers,
                      file : File \cup {Mangled}, port : Port \cup {0},
                      size : Nat, sent : Nat, turns : Nat]
      /\ client'.file \in File /\ client'.port \in Port /\ client'.id # 0
  BY <1>1, <1>2
<1> QED
  BY <1>1, <1>3 DEF Types, display

LEMMA ChunkTypes ==
  ASSUME Types, Chunk
  PROVE  Types' /\ UNCHANGED <<len, display, rewrites>>
<1>1. UNCHANGED <<gui, len, display, rewrites, stops>>
  BY DEF Chunk
<1>2. /\ client.at = "copy" /\ client' = Turned
      /\ Turned.at = "copy" /\ Turned.id = client.id /\ Turned.file = client.file
      /\ Turned.port = client.port /\ Turned.size = client.size
      /\ Turned.sent \in Nat /\ Turned.turns \in Nat
      /\ ReportOf(Turned, client.size, FALSE) \in Report
      /\ \/ send_msg_to_gui(ReportOf(Turned, client.size, FALSE))
         \/ daemon' = daemon /\ sock' = sock
  BY ChunkFacts
<1>3. Turned \in [at : {"idle", "copy"}, id : 0 .. MaxTransfers,
                  file : File \cup {Mangled}, port : Port \cup {0},
                  size : Nat, sent : Nat, turns : Nat]
  <2>1. client.sent + numRead \in Nat /\ client.turns + 1 \in Nat
    BY <1>2 DEF Turned, Types
  <2> QED
    BY <2>1 DEF Turned, Types
<1> HIDE DEF Turned
<1>4. /\ client' \in [at : {"idle", "copy"}, id : 0 .. MaxTransfers,
                      file : File \cup {Mangled}, port : Port \cup {0},
                      size : Nat, sent : Nat, turns : Nat]
      /\ client'.file \in File /\ client'.port \in Port /\ client'.id # 0
  BY <1>2, <1>3 DEF Types
<1>5. daemon' \in BOOLEAN /\ sock' \in Seq(Mails) /\ Len(sock') <= QLEN
  BY <1>2, SendTypes DEF Types
<1> QED
  BY <1>1, <1>4, <1>5 DEF Types, display

LEMMA EndTypes ==
  ASSUME Types, End
  PROVE  /\ Types' /\ UNCHANGED <<len, display, rewrites>>
         /\ client.at = "copy" /\ numRead = 0
         /\ client' = [client EXCEPT !.at = "idle"]
         /\ \E duration \in Seconds :
              /\ ReportOf(client, duration, TRUE) \in Report
              /\ send_msg_to_gui(ReportOf(client, duration, TRUE))
<1>1. /\ client.at = "copy" /\ client' = [client EXCEPT !.at = "idle"] /\ numRead = 0
      /\ UNCHANGED <<gui, len, display, rewrites, stops>>
  BY DEF End
<1>2. PICK duration \in Seconds : send_msg_to_gui(ReportOf(client, duration, TRUE))
  BY DEF End
<1>3. ReportOf(client, duration, TRUE) \in Report
  BY <1>1, InputAssumption DEF ReportOf, Report, Types
<1>4. daemon' \in BOOLEAN /\ sock' \in Seq(Mails) /\ Len(sock') <= QLEN
  BY <1>2, <1>3, SendTypes
<1>5. /\ client' \in [at : {"idle", "copy"}, id : 0 .. MaxTransfers,
                      file : File \cup {Mangled}, port : Port \cup {0},
                      size : Nat, sent : Nat, turns : Nat]
      /\ client'.at # "copy"
  BY <1>1 DEF Types
<1>6. Types'
  BY <1>1, <1>4, <1>5 DEF Types, display
<1> QED
  BY <1>1, <1>2, <1>3, <1>6

\* What one turn of the listener does with the oldest datagram.
LEMMA ListenFacts ==
  ASSUME LabelInv, ListenGui
  PROVE  \E r \in Report :
           /\ sock # << >> /\ Head(sock) = Mail(r) /\ sock' = Tail(sock)
           /\ taken' = r /\ whole' = IF Whole(r) THEN r ELSE whole
           /\ buf' \in Buffer
           /\ buf'.text = IF Whole(r) THEN TextOf(r) ELSE buf.text
           /\ \E bar \in set_progress_bar(buf'.text.sent, buf'.text.size) :
                label'.percent = bar.percent /\ label'.secs = bar.secs
           /\ label' \in Label
           /\ r.port < 256 \/ label'.port = r.port
           /\ Whole(r) => label'.name = r.file
           /\ UNCHANGED <<gui, daemon, transfer, stops>>
<1>1. sock # << >> /\ sock \in Seq(Mails) /\ buf \in Buffer
  BY DEF ListenGui, LabelInv, Types
<1>2. PICK r \in Report : Head(sock) = Mail(r)
  <2>1. Head(sock) \in Mails
    <3> HIDE DEF Mails
    <3> QED
      BY <1>1, TailOf
  <2> QED
    BY <2>1 DEF Mails
<1> DEFINE b == Received(buf, Mail(r).data)
<1>3. /\ Mail(r).data.whole \in BOOLEAN /\ (Mail(r).data.whole <=> Whole(r))
      /\ b \in Buffer
      /\ Whole(r) => b.text = TextOf(r)
      /\ ~ Whole(r) => b.text = buf.text
      /\ b.head[2] = 36 + NameLen[r.file]
      /\ PortOf(b.head[3], b.head[4]) \in Word
      /\ r.port < 256 \/ PortOf(b.head[3], b.head[4]) = r.port
  BY <1>1, MailFacts
<1>4. Mail(r).rep = r
  BY DEF Mail
<1>5. PICK bar \in set_progress_bar(b.text.sent, b.text.size) :
        label' = [name |-> DecodedName(b), port |-> PortOf(b.head[3], b.head[4]),
                  percent |-> bar.percent, secs |-> bar.secs]
  BY <1>2 DEF ListenGui
<1>6. /\ taken' = r /\ buf' = b /\ sock' = Tail(sock)
      /\ whole' = IF Whole(r) THEN r ELSE whole
      /\ UNCHANGED <<gui, daemon, transfer, stops>>
  BY <1>2, <1>3, <1>4 DEF ListenGui
<1> HIDE DEF b
<1>7. bar.percent \in 0 .. 100 \cup {INT_MIN} /\ bar.secs \in Nat
  <2>1. b.text.sent \in Nat /\ b.text.size \in Nat
    BY <1>3 DEF Buffer, Text
  <2> QED
    BY <2>1, BarFacts
<1>8. DecodedName(b) \in File \cup {Mangled}
  BY DEF DecodedName
<1>9. Whole(r) => DecodedName(b) = r.file
  <2>1. r.file \in File
    BY DEF Report
  <2> QED
    BY <1>3, <2>1 DEF DecodedName, TextOf
<1>10. label' \in Label
  BY <1>3, <1>5, <1>7, <1>8 DEF Label
<1>11. /\ label'.percent = bar.percent /\ label'.secs = bar.secs
       /\ label'.name = DecodedName(b) /\ label'.port = PortOf(b.head[3], b.head[4])
  BY <1>5
<1> QED
  BY <1>1, <1>2, <1>3, <1>5, <1>6, <1>9, <1>10, <1>11

LEMMA ListenLabel ==
  ASSUME LabelInv, ListenGui
  PROVE  LabelInv'
<1>0. PICK r \in Report :
        /\ sock # << >> /\ Head(sock) = Mail(r) /\ sock' = Tail(sock)
        /\ taken' = r /\ whole' = IF Whole(r) THEN r ELSE whole
        /\ buf' \in Buffer
        /\ buf'.text = IF Whole(r) THEN TextOf(r) ELSE buf.text
        /\ \E bar \in set_progress_bar(buf'.text.sent, buf'.text.size) :
             label'.percent = bar.percent /\ label'.secs = bar.secs
        /\ label' \in Label
        /\ r.port < 256 \/ label'.port = r.port
        /\ Whole(r) => label'.name = r.file
        /\ UNCHANGED <<gui, daemon, transfer, stops>>
  BY ListenFacts
<1>1. sock' \in Seq(Mails) /\ Len(sock') <= QLEN
  <2>1. sock \in Seq(Mails) /\ Len(sock) <= QLEN /\ QLEN \in Nat
    BY InputAssumption DEF LabelInv, Types
  <2> HIDE DEF Mails
  <2>2. Tail(sock) \in Seq(Mails) /\ Len(Tail(sock)) = Len(sock) - 1 /\ Len(sock) \in Nat
    BY <1>0, <2>1
  <2> QED
    BY <1>0, <2>1, <2>2
<1>2. Types'
  BY <1>0, <1>1 DEF LabelInv, Types, transfer
<1>3. whole' \in Report => /\ Whole(whole') /\ buf'.text = TextOf(whole')
                           /\ \E bar \in set_progress_bar(whole'.sent, whole'.size) :
                                label'.percent = bar.percent /\ label'.secs = bar.secs
  BY <1>0 DEF LabelInv, TextOf
<1>4. taken' \in Report /\ taken' = whole' => label'.name = taken'.file
  BY <1>0 DEF LabelInv
<1> QED
  BY <1>0, <1>2, <1>3, <1>4 DEF LabelInv, Shows, Whole

LEMMA StepLabel == LabelInv /\ [Next]_vars => LabelInv'
<1> SUFFICES ASSUME LabelInv, [Next]_vars PROVE LabelInv'
  OBVIOUS
<1>0. Types
  BY DEF LabelInv
<1>1. ASSUME NEW f \in File, NEW port \in Port, Begin(f, port) PROVE LabelInv'
  BY <1>0, <1>1, BeginTypes, DisplayKept DEF display
<1>2. CASE Sending
  BY <1>0, <1>2, ChunkTypes, EndTypes, DisplayKept DEF Sending, display
<1>3. ASSUME NEW n \in Size, Rewrite(n) PROVE LabelInv'
  <2>1. Types'
    BY <1>0, <1>3, BoundAssumption DEF Rewrite, Types, display
  <2> QED
    BY <1>3, <2>1, DisplayKept DEF Rewrite
<1>4. CASE StopGui
  <2>1. stops' \in 0 .. MaxStops
    BY <1>0, <1>4, BoundAssumption DEF StopGui, Types
  <2>2. sock' \in Seq(Mails) /\ Len(sock') <= QLEN
    <3>1. Len(<< >>) <= QLEN
      BY InputAssumption
    <3> QED
      BY <1>4, <3>1, NoneOf DEF StopGui
  <2>3. Types'
    BY <1>0, <1>4, <2>1, <2>2 DEF StopGui, Types, display, transfer
  <2> QED
    BY <1>4, <2>3, DisplayKept DEF StopGui
<1>5. CASE StartGui
  <2>1. FreshBuffer \in Buffer
    BY DEF FreshBuffer, Buffer, Text
  <2>2. EmptyLabel \in Label
    BY ByteIsWord DEF EmptyLabel, Label
  <2>3. Types'
    BY <1>0, <1>5, <2>1, <2>2 DEF StartGui, Types, transfer
  <2> QED
    BY <1>5, <2>3, NoReportIsNone DEF StartGui, LabelInv
<1>6. CASE UNCHANGED vars
  <2>1. Types'
    BY <1>0, <1>6 DEF vars, transfer, display, Types
  <2> QED
    BY <1>6, <2>1, DisplayKept DEF vars
<1> QED
  BY <1>1, <1>2, <1>3, <1>4, <1>5, <1>6, ListenLabel DEF Next

LEMMA LabelAlways == Spec => []LabelInv
BY InitLabel, StepLabel, PTL DEF Spec

\* The state has its types: the percentage is one, or what the machine makes of
\* zero divided by zero.
THEOREM ReportsTypeCorrect == Spec => []TypeOK
<1>1. LabelInv => TypeOK
  BY DEF LabelInv, Types, TypeOK, Buffer, Label
<1> QED
  BY <1>1, LabelAlways, PTL

\* The label shows what the last report means that came whole, for every file,
\* length, port and duration, however the GUI ends and begins in between.
THEOREM LabelIsRight == Spec => []LabelIsLastWhole
<1>1. ASSUME LabelInv PROVE LabelIsLastWhole
  <2>1. ASSUME whole.id # 0, Plain(whole)
        PROVE  label.percent = Percent(whole) /\ label.secs = Secs(whole)
    <3>1. whole \in Report /\ Shows(whole)
      BY <1>1, <2>1, NoReportIsNone DEF LabelInv, Types
    <3>2. PICK bar \in set_progress_bar(whole.sent, whole.size) :
            label.percent = bar.percent /\ label.secs = bar.secs
      BY <3>1 DEF Shows
    <3>3. /\ whole.sent \in Nat /\ whole.size \in Nat /\ whole.last \in BOOLEAN
          /\ whole.last \/ whole.sent > 0
      BY <3>1 DEF Report
    <3>4. /\ whole.sent > whole.size => bar.percent = 100 /\ bar.secs = whole.size
          /\ ~ whole.sent > whole.size => bar.secs = 0
          /\ ~ whole.sent > whole.size /\ whole.size # 0
               => bar.percent = (100 * whole.sent) \div whole.size
      BY <3>2, <3>3, BarFacts
    <3>5. CASE whole.last
      BY <2>1, <3>2, <3>4, <3>5 DEF Plain, Percent, Secs
    <3>6. CASE ~ whole.last
      <4>1. ~ whole.sent > whole.size /\ whole.size # 0
        BY <2>1, <3>3, <3>6 DEF Plain
      <4> QED
        BY <3>2, <3>4, <3>6, <4>1 DEF Percent, Secs
    <3> QED
      BY <3>5, <3>6
  <2>2. taken.id # 0 => taken \in Report
    BY <1>1, NoReportIsNone DEF LabelInv, Types
  <2> QED
    BY <1>1, <2>1, <2>2 DEF LabelInv, LabelIsLastWhole
<1> QED
  BY <1>1, LabelAlways, PTL

--------------------------------------------------------------------------------
(* The order of a transfer's reports, while no file is rewritten. *)

\* Report s follows report r of the same transfer.
Before(r, s) ==
  /\ ~ r.last /\ r.port = s.port /\ r.sent <= s.sent /\ r.sent <= r.size
  /\ IF s.last THEN s.sent > s.size ELSE s.size = r.size /\ s.sent <= s.size

\* No report is of a transfer to come; one of the transfer at work tells of the
\* client as it is or was, with a report's turns behind it at the least.
Behind(r) ==
  /\ r.id <= client.id
  /\ rewrites = 0 /\ client.at = "copy" /\ r.id = client.id =>
       /\ ~ r.last /\ r.port = client.port /\ r.size = client.size
       /\ r.sent <= client.sent /\ r.sent <= r.size /\ r.sent > BUF * (REPORT - 1)

\* Every turn but the last reads a full buffer.
Counted ==
  LET c == client
  IN  rewrites = 0 /\ c.at = "copy" =>
        /\ len[c.file] = c.size /\ c.sent <= c.size
        /\ c.turns # 0 => c.sent > BUF * (c.turns - 1)
        /\ c.sent < c.size => c.sent = BUF * c.turns

OrderInv ==
  /\ Counted
  /\ \A i \in 1 .. Len(sock) : Behind(sock[i].rep)
  /\ taken \in Report => Behind(taken)
  /\ rewrites = 0 =>
       /\ \A i, j \in 1 .. Len(sock) :
            i < j /\ sock[i].rep.id = sock[j].rep.id => Before(sock[i].rep, sock[j].rep)
       /\ taken \in Report => \A i \in 1 .. Len(sock) :
            taken.id = sock[i].rep.id => Before(taken, sock[i].rep)

LEMMA InitOrder == Init => OrderInv
BY NoReportIsNone DEF Init, OrderInv, Counted

\* Each report at the socket is one.
LEMMA AtSocket ==
  ASSUME Types
  PROVE  Len(sock) \in Nat /\ \A i \in 1 .. Len(sock) : sock[i].rep \in Report
<1>1. sock \in Seq(Mails)
  BY DEF Types
<1>2. Len(sock) \in Nat /\ \A i \in 1 .. Len(sock) : sock[i] \in Mails
  <2> HIDE DEF Mails
  <2> QED
    BY <1>1
<1> QED
  BY <1>2 DEF Mails, Mail

\* What stands behind a step of the client: the socket may get one report more, r,
\* which follows those of its transfer.
LEMMA SendOrder ==
  ASSUME Types, OrderInv, NEW r \in Report, Counted', rewrites' = rewrites,
         taken' = taken,
         sock' = sock \/ (sock' = Append(sock, Mail(r)) /\ Behind(r)'),
         \A q \in Report : Behind(q) =>
           Behind(q)' /\ (rewrites = 0 /\ q.id = r.id => Before(q, r))
  PROVE  OrderInv'
<1>1. Len(sock) \in Nat /\ \A i \in 1 .. Len(sock) : sock[i].rep \in Report
  BY AtSocket
<1>2. taken \in Report => Behind(taken)'
  BY DEF OrderInv
<1>3. CASE sock' = sock
  BY <1>1, <1>2, <1>3 DEF OrderInv
<1>4. CASE sock' = Append(sock, Mail(r)) /\ Behind(r)'
  <2>1. /\ Len(sock') = Len(sock) + 1
        /\ \A i \in 1 .. Len(sock) : sock'[i] = sock[i]
        /\ sock'[Len(sock) + 1] = Mail(r)
    BY <1>4 DEF Types
  <2>2. Mail(r).rep = r
    BY DEF Mail
  <2>3. \A i \in 1 .. Len(sock') : i = Len(sock) + 1 \/ i \in 1 .. Len(sock)
    BY <1>1, <2>1
  <2>4. ASSUME NEW i \in 1 .. Len(sock') PROVE Behind(sock[i].rep)'
    <3>1. CASE i \in 1 .. Len(sock)
      <4>1. Behind(sock[i].rep) /\ sock[i].rep \in Report /\ sock'[i].rep = sock[i].rep
        BY <1>1, <2>1, <3>1 DEF OrderInv
      <4> QED
        BY <4>1 DEF Behind
    <3>2. CASE i = Len(sock) + 1
      BY <1>4, <2>1, <2>2, <3>2 DEF Behind
    <3> QED
      BY <2>3, <3>1, <3>2
  <2>5. ASSUME rewrites = 0, NEW i \in 1 .. Len(sock'), NEW j \in 1 .. Len(sock'), i < j,
               sock'[i].rep.id = sock'[j].rep.id
        PROVE  Before(sock'[i].rep, sock'[j].rep)
    <3>1. i \in 1 .. Len(sock)
      BY <1>1, <2>1, <2>5
    <3>2. CASE j \in 1 .. Len(sock)
      BY <2>1, <2>5, <3>1, <3>2 DEF OrderInv
    <3>3. CASE j = Len(sock) + 1
      BY <1>1, <2>1, <2>2, <2>5, <3>1, <3>3 DEF OrderInv
    <3> QED
      BY <2>3, <3>2, <3>3
  <2>6. ASSUME rewrites = 0, taken \in Report, NEW i \in 1 .. Len(sock'),
               taken.id = sock'[i].rep.id
        PROVE  Before(taken, sock'[i].rep)
    <3>1. CASE i \in 1 .. Len(sock)
      BY <2>1, <2>6, <3>1 DEF OrderInv
    <3>2. CASE i = Len(sock) + 1
      BY <2>1, <2>2, <2>6, <3>2 DEF OrderInv
    <3> QED
      BY <2>3, <3>1, <3>2
  <2>7. ASSUME rewrites' = 0
        PROVE  /\ \A i, j \in 1 .. Len(sock') :
                    i < j /\ sock'[i].rep.id = sock'[j].rep.id
                      => Before(sock'[i].rep, sock'[j].rep)
               /\ taken' \in Report => \A i \in 1 .. Len(sock') :
                    taken'.id = sock'[i].rep.id => Before(taken', sock'[i].rep)
    BY <2>5, <2>6, <2>7
  <2>8. taken' \in Report => Behind(taken)'
    BY <1>2
  <2>9. \A i \in 1 .. Len(sock') : Behind(sock[i].rep)'
    BY <2>4
  <2> QED
    BY <2>7, <2>8, <2>9 DEF OrderInv
<1> QED
  BY <1>3, <1>4

\* The turn that reports has a report's turns behind it.
LEMMA ReportTurns ==
  ASSUME NEW C \in Nat \ {0}, NEW n \in Nat \ {0}, n % C = 0
  PROVE  n >= C
<1> SUFFICES ASSUME n < C PROVE FALSE
  OBVIOUS
<1>1. n \in 0 .. C - 1
  OBVIOUS
<1> QED
  BY <1>1, SmallRest

LEMMA TimesLE ==
  ASSUME NEW a \in Nat, NEW b \in Nat, a <= b, NEW C \in Nat \ {0}
  PROVE  C * a <= C * b /\ C * a \in Nat /\ C * b \in Nat
<1>1. C * a = a * C /\ C * b = b * C /\ a * C \in Nat /\ b * C \in Nat
  OBVIOUS
<1>2. CASE a = b
  BY <1>1, <1>2
<1>3. CASE a < b
  <2>1. a * C + C <= b * C
    BY <1>3, TimesMono
  <2> QED
    BY <1>1, <2>1
<1> QED
  BY <1>2, <1>3

\* One turn, counted.
LEMMA ChunkCounted ==
  ASSUME Types, Counted, Chunk
  PROVE  /\ Counted'
         /\ rewrites = 0 =>
              /\ Turned.sent <= Turned.size /\ client.sent <= Turned.sent
              /\ Turned.sent > BUF * (Turned.turns - 1)
<1>1. /\ client.at = "copy" /\ numRead > 0 /\ client' = Turned
      /\ Turned.file = client.file /\ Turned.size = client.size
      /\ Turned.sent = client.sent + numRead /\ Turned.turns = client.turns + 1
  BY ChunkFacts
<1>2. /\ numRead \in Nat /\ numRead <= BUF
      /\ numRead = IF len[client.file] - client.sent <= 0 THEN 0
                   ELSE IF len[client.file] - client.sent < BUF
                        THEN len[client.file] - client.sent ELSE BUF
  BY <1>1, Reads
<1>3. len' = len /\ rewrites' = rewrites
  BY ChunkTypes
<1>4. /\ client.sent \in Nat /\ client.turns \in Nat /\ client.size \in Nat
      /\ BUF \in Nat \ {0}
  BY InputAssumption DEF Types
<1> DEFINE p == BUF * client.turns
           k == numRead
<1>5. p \in Nat /\ BUF * (client.turns + 1) = p + BUF /\ client.turns + 1 - 1 = client.turns
  BY <1>4
<1> HIDE DEF p, k, Turned
<1>6. ASSUME rewrites = 0
      PROVE  /\ client.sent = p /\ client.sent < client.size
             /\ k = IF client.size - client.sent < BUF THEN client.size - client.sent ELSE BUF
  <2>1. len[client.file] = client.size
    BY <1>1, <1>6 DEF Counted
  <2>2. client.sent < client.size
    BY <1>1, <1>2, <1>4, <2>1
  <2>3. k = IF client.size - client.sent < BUF THEN client.size - client.sent ELSE BUF
    BY <1>2, <1>4, <2>1, <2>2 DEF k
  <2> QED
    BY <1>1, <1>6, <2>2, <2>3 DEF Counted, p
<1>7. ASSUME rewrites = 0
      PROVE  /\ client.sent + k <= client.size /\ client.sent <= client.sent + k
             /\ client.sent + k > p
             /\ client.sent + k < client.size => client.sent + k = p + BUF
  BY <1>1, <1>2, <1>4, <1>5, <1>6, <1>7 DEF k
<1>8. ASSUME rewrites = 0
      PROVE  /\ Turned.sent <= Turned.size /\ client.sent <= Turned.sent
             /\ Turned.sent > BUF * (Turned.turns - 1)
             /\ Turned.sent < Turned.size => Turned.sent = BUF * Turned.turns
  <2>1. Turned.sent = client.sent + k /\ Turned.size = client.size
    BY <1>1 DEF k
  <2>2. BUF * Turned.turns = p + BUF
    BY <1>1, <1>5
  <2>3. BUF * (Turned.turns - 1) = p
    <3>1. Turned.turns - 1 = client.turns
      BY <1>1, <1>4
    <3> QED
      BY <3>1 DEF p
  <2> QED
    BY <1>7, <1>8, <2>1, <2>2, <2>3
<1>9. Counted'
  BY <1>1, <1>3, <1>8 DEF Counted
<1> QED
  BY <1>8, <1>9

LEMMA ChunkOrder ==
  ASSUME Types, OrderInv, Chunk
  PROVE  OrderInv'
<1>0. PICK r \in Report : r = ReportOf(Turned, client.size, FALSE)
  BY ChunkFacts
<1>1. /\ client.at = "copy" /\ client' = Turned
      /\ Turned.at = "copy" /\ Turned.id = client.id
      /\ Turned.port = client.port /\ Turned.size = client.size
      /\ Turned.sent \in Nat /\ Turned.turns \in Nat \ {0}
      /\ \/ Turned.turns % REPORT = 0 /\ send_msg_to_gui(r)
         \/ Turned.turns % REPORT # 0 /\ daemon' = daemon /\ sock' = sock
  BY <1>0, ChunkFacts
<1>2. UNCHANGED <<len, display, rewrites>>
  BY ChunkTypes
<1>3. /\ Counted'
      /\ rewrites = 0 =>
           /\ Turned.sent <= Turned.size /\ client.sent <= Turned.sent
           /\ Turned.sent > BUF * (Turned.turns - 1)
  BY ChunkCounted DEF OrderInv
<1>4. /\ r.id = client.id /\ ~ r.last /\ r.port = client.port /\ r.size = client.size
      /\ r.sent = Turned.sent
  BY <1>0, <1>1 DEF ReportOf
<1> HIDE DEF Turned
<1>5. ASSUME NEW q \in Report, Behind(q)
      PROVE  Behind(q)' /\ (rewrites = 0 /\ q.id = r.id => Before(q, r))
  <2>1. q.sent \in Nat /\ client.sent \in Nat
    BY DEF Report, Types
  <2>2. ASSUME rewrites = 0, q.id = client.id
        PROVE  /\ ~ q.last /\ q.port = client.port /\ q.size = client.size
               /\ q.sent <= Turned.sent /\ q.sent <= q.size /\ q.sent > BUF * (REPORT - 1)
    BY <1>1, <1>3, <1>5, <2>1, <2>2 DEF Behind
  <2>3. Behind(q)'
    BY <1>1, <1>2, <1>5, <2>2 DEF Behind
  <2>4. rewrites = 0 /\ q.id = r.id => Before(q, r)
    BY <1>1, <1>3, <1>4, <2>2 DEF Before
  <2> QED
    BY <2>3, <2>4
<1>6. ASSUME Turned.turns % REPORT = 0 PROVE Behind(r)'
  <2>1. Turned.turns >= REPORT /\ REPORT \in Nat \ {0} /\ BUF \in Nat \ {0}
    BY <1>1, <1>6, ReportTurns, InputAssumption
  <2>2. REPORT - 1 \in Nat /\ Turned.turns - 1 \in Nat /\ REPORT - 1 <= Turned.turns - 1
    BY <1>1, <2>1
  <2>3. /\ BUF * (REPORT - 1) <= BUF * (Turned.turns - 1)
        /\ BUF * (REPORT - 1) \in Nat /\ BUF * (Turned.turns - 1) \in Nat
    BY <2>1, <2>2, TimesLE
  <2>4. rewrites = 0 => Turned.sent > BUF * (REPORT - 1)
    BY <1>1, <1>3, <2>3
  <2>5. client.id <= client.id
    BY DEF Types
  <2> QED
    BY <1>1, <1>2, <1>3, <1>4, <2>4, <2>5 DEF Behind
<1>7. sock' = sock \/ (sock' = Append(sock, Mail(r)) /\ Behind(r)')
  BY <1>1, <1>6 DEF send_msg_to_gui, Mail
<1> QED
  BY <1>1, <1>2, <1>3, <1>5, <1>7, SendOrder DEF display

LEMMA EndOrder ==
  ASSUME Types, OrderInv, End
  PROVE  OrderInv'
<1>1. PICK duration \in Seconds :
        /\ ReportOf(client, duration, TRUE) \in Report
        /\ send_msg_to_gui(ReportOf(client, duration, TRUE))
  BY EndTypes
<1>2. /\ UNCHANGED <<len, display, rewrites>> /\ client.at = "copy"
      /\ client' = [client EXCEPT !.at = "idle"]
  BY EndTypes
<1>3. client'.at = "idle" /\ client'.id = client.id
  BY <1>2 DEF Types
<1>r. PICK r \in Report : r = ReportOf(client, duration, TRUE)
  BY <1>1
<1>4. /\ r.id = client.id /\ r.last /\ r.port = client.port /\ r.size = duration
      /\ r.sent = client.sent
  BY <1>r DEF ReportOf
<1>5. ASSUME NEW q \in Report, Behind(q)
      PROVE  Behind(q)' /\ (rewrites = 0 /\ q.id = r.id => Before(q, r))
  <2>1. Behind(q)'
    BY <1>3, <1>5 DEF Behind
  <2>2. ASSUME rewrites = 0, q.id = r.id PROVE Before(q, r)
    <3>1. /\ ~ q.last /\ q.port = client.port
          /\ q.sent <= client.sent /\ q.sent <= q.size /\ q.sent > BUF * (REPORT - 1)
      BY <1>2, <1>4, <1>5, <2>2 DEF Behind
    <3>2. duration <= BUF * (REPORT - 1) /\ duration \in Nat
      BY InputAssumption
    <3>3. q.sent \in Nat /\ client.sent \in Nat /\ BUF * (REPORT - 1) \in Nat
      <4>1. REPORT - 1 \in Nat /\ BUF \in Nat \ {0}
        BY InputAssumption
      <4> QED
        BY <4>1, TimesLE, SMTT(30) DEF Report, Types
    <3>4. r.sent > r.size
      BY <1>4, <3>1, <3>2, <3>3
    <3> QED
      BY <1>4, <3>1, <3>4 DEF Before
  <2> QED
    BY <2>1, <2>2
<1>6. Counted'
  BY <1>3 DEF Counted
<1>7. Behind(r)'
  <2>1. client.id <= client.id
    BY DEF Types
  <2> QED
    BY <1>3, <1>4, <2>1 DEF Behind
<1>8. sock' = sock \/ (sock' = Append(sock, Mail(r)) /\ Behind(r)')
  BY <1>1, <1>r, <1>7 DEF send_msg_to_gui, Mail
<1> QED
  BY <1>1, <1>2, <1>5, <1>6, <1>8, SendOrder DEF display

LEMMA BeginOrder ==
  ASSUME Types, OrderInv, NEW f \in File, NEW port \in Port, Begin(f, port)
  PROVE  OrderInv'
<1>1. /\ client' = [at |-> "copy", id |-> client.id + 1, file |-> f, port |-> port,
                    size |-> len[f], sent |-> 0, turns |-> 0]
      /\ UNCHANGED <<len, sock, display, rewrites>>
  BY DEF Begin
<1>2. client.id \in Nat
  BY BoundAssumption DEF Types
<1>3. ASSUME NEW q \in Report, Behind(q) PROVE Behind(q)'
  <2>1. q.id \in Nat /\ q.id <= client.id
    BY <1>3 DEF Behind, Report
  <2>2. q.id <= client.id + 1 /\ q.id # client.id + 1
    BY <1>2, <2>1
  <2> QED
    BY <1>1, <2>2 DEF Behind
<1>4. Counted'
  <2>1. len[f] \in Nat
    <3>1. len[f] \in Size
      BY DEF Types
    <3> QED
      BY <3>1, InputAssumption
  <2>2. BUF * 0 = 0
    BY InputAssumption
  <2> QED
    BY <1>1, <2>1, <2>2 DEF Counted
<1>5. \A i \in 1 .. Len(sock) : sock[i].rep \in Report
  BY AtSocket
<1>6. taken' = taken /\ sock' = sock /\ rewrites' = rewrites
  BY <1>1 DEF display
<1>7. \A i \in 1 .. Len(sock) : Behind(sock[i].rep)'
  <2>1. ASSUME NEW i \in 1 .. Len(sock) PROVE Behind(sock[i].rep)'
    <3> DEFINE q == sock[i].rep
    <3>1. q \in Report /\ Behind(q) /\ q' = q
      BY <1>5, <1>6 DEF OrderInv
    <3>2. q.id \in Nat /\ q.id <= client.id
      BY <3>1 DEF Behind, Report
    <3>3. q.id <= client.id + 1 /\ q.id # client.id + 1
      BY <1>2, <3>2
    <3> QED
      BY <1>1, <1>6, <3>3 DEF Behind
  <2> QED
    BY <2>1
<1>8. taken \in Report => Behind(taken)'
  <2>1. ASSUME taken \in Report PROVE Behind(taken)'
    <3>1. Behind(taken) /\ taken.id \in Nat
      BY <2>1 DEF OrderInv, Report
    <3>2. taken.id <= client.id
      BY <3>1 DEF Behind
    <3>3. taken.id <= client.id + 1 /\ taken.id # client.id + 1
      BY <1>2, <3>1, <3>2
    <3> QED
      BY <1>1, <1>6, <3>3 DEF Behind
  <2> QED
    BY <2>1
<1> QED
  BY <1>4, <1>6, <1>7, <1>8 DEF OrderInv, Behind

\* The oldest report is taken: those behind it follow it.
LEMMA ListenOrder ==
  ASSUME LabelInv, OrderInv, ListenGui
  PROVE  /\ OrderInv'
         /\ rewrites = 0 /\ taken \in Report /\ taken.id = taken'.id => Before(taken, taken')
<1>1. PICK r \in Report :
        /\ sock # << >> /\ Head(sock) = Mail(r) /\ sock' = Tail(sock) /\ taken' = r
        /\ UNCHANGED transfer
  BY ListenFacts
<1>2. /\ Len(sock) \in Nat \ {0} /\ Len(sock') = Len(sock) - 1 /\ sock[1] = Mail(r)
      /\ \A i \in 1 .. Len(sock') : i + 1 \in 1 .. Len(sock) /\ sock'[i] = sock[i + 1]
  <2>1. sock \in Seq(Mails)
    BY DEF LabelInv, Types
  <2> HIDE DEF Mails
  <2> QED
    BY <1>1, <2>1
<1>3. sock[1].rep = r /\ 1 \in 1 .. Len(sock)
  BY <1>2 DEF Mail
<1>4. Behind(r)
  BY <1>3 DEF OrderInv
<1>5. len' = len /\ client' = client /\ rewrites' = rewrites
  BY <1>1 DEF transfer
<1>6. Counted'
  BY <1>5 DEF OrderInv, Counted
<1>7. ASSUME NEW i \in 1 .. Len(sock') PROVE Behind(sock[i].rep)'
  <2>1. Behind(sock[i + 1].rep) /\ sock'[i] = sock[i + 1]
    BY <1>2 DEF OrderInv
  <2> QED
    BY <1>5, <2>1 DEF Behind
<1>8. ASSUME rewrites = 0, NEW i \in 1 .. Len(sock'), NEW j \in 1 .. Len(sock'), i < j,
             sock'[i].rep.id = sock'[j].rep.id
      PROVE  Before(sock'[i].rep, sock'[j].rep)
  <2>1. i + 1 < j + 1 /\ i + 1 \in 1 .. Len(sock) /\ j + 1 \in 1 .. Len(sock)
        /\ sock'[i] = sock[i + 1] /\ sock'[j] = sock[j + 1]
    BY <1>2, <1>8
  <2> QED
    BY <1>8, <2>1 DEF OrderInv
<1>9. ASSUME rewrites = 0, NEW i \in 1 .. Len(sock'), r.id = sock'[i].rep.id
      PROVE  Before(r, sock'[i].rep)
  <2>1. 1 < i + 1 /\ i + 1 \in 1 .. Len(sock) /\ sock'[i] = sock[i + 1]
    BY <1>2
  <2> QED
    BY <1>3, <1>9, <2>1 DEF OrderInv
<1>10. Behind(taken)'
  BY <1>1, <1>4, <1>5 DEF Behind
<1>11. rewrites = 0 /\ taken \in Report /\ taken.id = r.id => Before(taken, r)
  BY <1>3 DEF OrderInv
<1> QED
  BY <1>1, <1>5, <1>6, <1>7, <1>8, <1>9, <1>10, <1>11 DEF OrderInv

LEMMA StepOrder == LabelInv /\ OrderInv /\ [Next]_vars => OrderInv'
<1> SUFFICES ASSUME LabelInv, OrderInv, [Next]_vars PROVE OrderInv'
  OBVIOUS
<1>0. Types
  BY DEF LabelInv
<1>1. CASE Sending
  BY <1>0, <1>1, ChunkOrder, EndOrder DEF Sending
<1>2. ASSUME NEW n \in Size, Rewrite(n) PROVE OrderInv'
  <2>1. UNCHANGED <<client, sock, display>> /\ rewrites' # 0
    BY <1>0, <1>2, BoundAssumption DEF Rewrite, Types
  <2> QED
    BY <2>1 DEF OrderInv, Behind, Counted, display
<1>3. CASE StopGui
  <2>1. UNCHANGED <<transfer, display>> /\ Len(sock') = 0
    BY <1>3 DEF StopGui
  <2>2. \A i \in 1 .. 0 : FALSE
    OBVIOUS
  <2> QED
    BY <2>1, <2>2 DEF OrderInv, Behind, Counted, display, transfer
<1>4. CASE StartGui
  <2>1. UNCHANGED <<transfer, sock>> /\ taken' \notin Report
    BY <1>4, NoReportIsNone DEF StartGui
  <2> QED
    BY <2>1 DEF OrderInv, Behind, Counted, transfer
<1>5. CASE UNCHANGED vars
  BY <1>5 DEF vars, OrderInv, Behind, Counted, transfer, display
<1> QED
  BY <1>0, <1>1, <1>2, <1>3, <1>4, <1>5, BeginOrder, ListenOrder DEF Next

LEMMA IntMin == INT_MIN \in Int
BY SMT DEF INT_MIN

\* Two reports of one transfer, one after the other: the bar does not go back.
LEMMA BarGrows ==
  ASSUME NEW r \in Report, NEW s \in Report, Before(r, s),
         NEW a \in set_progress_bar(r.sent, r.size),
         NEW b \in set_progress_bar(s.sent, s.size)
  PROVE  b.percent >= a.percent
<1>1. /\ r.sent \in Nat \ {0} /\ r.size \in Nat \ {0} /\ r.sent <= r.size
      /\ s.sent \in Nat /\ s.size \in Nat /\ r.sent <= s.sent
  BY DEF Report, Before
<1>2. a.percent = (100 * r.sent) \div r.size
  BY <1>1, BarFacts
<1>3. CASE s.sent > s.size
  <2>1. b.percent = 100
    BY <1>1, <1>3, BarFacts
  <2>2. (100 * r.sent) \div r.size \in 0 .. 100
    BY <1>1, PercentMono
  <2> QED
    BY <1>2, <2>1, <2>2
<1>4. CASE s.size = r.size /\ s.sent <= s.size
  <2>1. b.percent = (100 * s.sent) \div r.size
    BY <1>1, <1>4, BarFacts
  <2>2. /\ (100 * r.sent) \div r.size \in 0 .. 100
        /\ (100 * r.sent) \div r.size <= (100 * s.sent) \div r.size
    BY <1>1, <1>4, PercentMono
  <2>3. (100 * s.sent) \div r.size \in 0 .. 100
    <3>1. s.sent <= s.sent /\ s.sent <= r.size
      BY <1>1, <1>4
    <3> QED
      BY <1>1, <3>1, PercentMono
  <2> QED
    BY <1>2, <2>1, <2>2, <2>3
<1> QED
  BY <1>3, <1>4 DEF Before

LEMMA StepBar ==
  ASSUME PadByte # 0, LabelInv, LabelInv', OrderInv, [Next]_vars,
         rewrites = 0, taken'.id = taken.id, Plainly(taken.port)
  PROVE  label'.percent >= label.percent
<1>1. taken \in Report /\ Whole(taken) /\ taken = whole /\ Shows(taken)
  <2>1. taken \in Report
    <3>1. High(0) = 0
      BY DivMod, SmallRest DEF High, Byte
    <3> QED
      BY <3>1, NoReportIsNone DEF LabelInv, Types, Plainly
  <2>2. Whole(taken)
    BY DEF Plainly, Whole
  <2> QED
    BY <2>1, <2>2 DEF LabelInv
<1>2. CASE label' = label
  <2>1. label.percent \in Int
    <3>1. label.percent \in 0 .. 100 \cup {INT_MIN}
      BY DEF LabelInv, Types, Label
    <3> QED
      BY <3>1, IntMin
  <2> QED
    BY <1>2, <2>1
<1>3. CASE StartGui
  BY <1>1, <1>3, NoReportIsNone DEF StartGui, Report
<1>4. CASE ListenGui
  <2>1. Before(taken, taken')
    BY <1>1, <1>4, ListenOrder
  <2>2. taken' \in Report
    BY <1>4, ListenFacts
  <2>3. taken'.port = taken.port
    BY <2>1 DEF Before
  <2>4. Whole(taken)'
    BY <1>1, <2>3 DEF Whole
  <2>5. taken' = whole' /\ Shows(taken)'
    BY <2>2, <2>4 DEF LabelInv
  <2>6. PICK a \in set_progress_bar(taken.sent, taken.size) : label.percent = a.percent
    BY <1>1 DEF Shows
  <2>7. PICK b \in set_progress_bar(taken'.sent, taken'.size) : label'.percent = b.percent
    BY <2>5 DEF Shows, set_progress_bar
  <2> QED
    BY <1>1, <2>1, <2>2, <2>6, <2>7, BarGrows
<1> QED
  BY <1>2, <1>3, <1>4
     DEF Next, Begin, Sending, Chunk, End, Rewrite, StopGui, vars, display

\* The bar never goes back, at any size of file, of buffer and of queue: where the
\* bytes behind the address are not NUL.
THEOREM BarOnlyGrows == PadByte # 0 => (Spec => BarNeverGoesBack)
<1> SUFFICES ASSUME PadByte # 0 PROVE Spec => BarNeverGoesBack
  OBVIOUS
<1>1. Init => LabelInv /\ OrderInv
  BY InitLabel, InitOrder
<1>2. LabelInv /\ OrderInv /\ [Next]_vars => (LabelInv /\ OrderInv)'
  BY StepLabel, StepOrder
<1>3. LabelInv /\ LabelInv' /\ OrderInv /\ [Next]_vars
        => [rewrites = 0 /\ taken'.id = taken.id /\ Plainly(taken.port)
              => label'.percent >= label.percent]_vars
  BY StepBar
<1> QED
  BY <1>1, <1>2, <1>3, PTL DEF Spec, BarNeverGoesBack

================================================================================
