----------------------------- MODULE DatagramProofs ----------------------------
(******************************************************************************)
(* What becomes of bytes and of messages on their way through a datagram and  *)
(* a buffer, for every message that has a type.                               *)
(******************************************************************************)
EXTENDS Datagram, TLAPS

USE DEF HEAD

--------------------------------------------------------------------------------
(* Sequences, bytes and ports. *)

\* Quotient and remainder.
LEMMA DivMod ==
  ASSUME NEW n \in Nat, NEW C \in Nat \ {0}
  PROVE  /\ n \div C \in Nat /\ n % C \in 0 .. C - 1
         /\ n = (n \div C) * C + (n % C)
OBVIOUS

LEMMA SmallRest ==
  ASSUME NEW C \in Nat \ {0}, NEW n \in 0 .. C - 1
  PROVE  n % C = n
OBVIOUS

LEMMA HighPart ==
  ASSUME NEW C \in Nat \ {0}, NEW q \in Nat, NEW r \in 0 .. C - 1, q * C + r < C * C
  PROVE  q \in 0 .. C - 1 /\ (q = 0 <=> q * C + r < C)
OBVIOUS

\* A port is its two bytes, and the high one is NUL below 256.
LEMMA PortBytes ==
  ASSUME NEW port \in Word
  PROVE  /\ High(port) \in 0 .. 255 /\ Low(port) \in 0 .. 255
         /\ PortOf(High(port), Low(port)) = port
         /\ High(port) = 0 <=> port < 256
<1> DEFINE q == port \div 256
           r == port % 256
<1>1. port \in Nat /\ port < 256 * 256
  BY SMTT(30) DEF Word
<1>2. q \in Nat /\ r \in 0 .. 255 /\ port = q * 256 + r
  BY <1>1, DivMod
<1> HIDE DEF q, r
<1>3. q \in 0 .. 255 /\ (q = 0 <=> port < 256)
  BY <1>1, <1>2, HighPart
<1>4. q % 256 = q
  BY <1>3, SmallRest
<1>5. High(port) = q /\ Low(port) = r
  BY <1>4 DEF High, Low, Byte, q, r
<1> QED
  BY <1>1, <1>2, <1>3, <1>5 DEF PortOf

\* A number that is not too large is a port.
LEMMA InWord ==
  ASSUME NEW n \in Nat, n <= 256 * 256 - 1
  PROVE  n \in Word
<1> DEFINE top == 256 * 256 - 1
<1>1. top \in Int /\ n <= top
  OBVIOUS
<1> HIDE DEF top
<1>2. n \in 0 .. top
  BY <1>1
<1> QED
  BY <1>2 DEF Word, top

\* A byte is one, too.
LEMMA ByteIsWord ==
  ASSUME NEW n \in 0 .. 255
  PROVE  n \in Word
<1>1. n \in Nat /\ n <= 256 * 256 - 1
  OBVIOUS
<1> QED
  BY <1>1, InWord

\* Two bytes always are.
LEMMA BytesAreWord ==
  ASSUME NEW i \in 0 .. 255, NEW j \in 0 .. 255
  PROVE  PortOf(i, j) \in Word
<1> DEFINE n == 256 * i + j
<1>1. n \in Nat /\ n <= 256 * 256 - 1
  OBVIOUS
<1> HIDE DEF n
<1>2. n \in Word
  BY <1>1, InWord
<1> QED
  BY <1>2 DEF PortOf, n

\* What the library's operators make of a sequence.
LEMMA NoneOf ==
  ASSUME NEW S
  PROVE  << >> \in Seq(S)
OBVIOUS

LEMMA TailOf ==
  ASSUME NEW S, NEW s \in Seq(S), s # << >>
  PROVE  Head(s) \in S /\ Tail(s) \in Seq(S)
OBVIOUS

LEMMA Member ==
  ASSUME NEW S, NEW h \in Seq(S), NEW i \in 1 .. Len(h)
  PROVE  h[i] \in S
OBVIOUS

--------------------------------------------------------------------------------
(* Messages. *)

\* The head of a message: five bytes, the first of which, the type, is not NUL.
IsHead(h) == /\ h \in Seq(0 .. 255) /\ Len(h) = 5
             /\ h[1] # 0

LEMMA HeadBytes ==
  ASSUME NEW h, IsHead(h), NEW i \in 1 .. 5
  PROVE  h[i] \in 0 .. 255
BY Member DEF IsHead

\* How much of a message goes: all that is before its first NUL.
LEMMA SentFacts ==
  ASSUME NEW msg, IsHead(msg.head)
  PROVE  \E n \in 1 .. 5 :
           /\ Sent(msg) = [head |-> SubSeq(msg.head, 1, n), text |-> msg.text,
                           whole |-> n = 5]
           /\ \A i \in 1 .. n : msg.head[i] # 0
           /\ n = 5 \/ msg.head[n + 1] = 0
<1> DEFINE nuls == {i \in 1 .. 5 : msg.head[i] = 0}
           Ends(n) == (n = 5 \/ n + 1 \in nuls) /\ nuls \cap (1 .. n) = {}
           cnt == CHOOSE n \in 0 .. 5 : Ends(n)
<1>1. \E n \in 0 .. 5 : Ends(n)
  <2>1. CASE 2 \in nuls
    BY <2>1 DEF IsHead
  <2>2. CASE 2 \notin nuls /\ 3 \in nuls
    BY <2>2 DEF IsHead
  <2>3. CASE 2 \notin nuls /\ 3 \notin nuls /\ 4 \in nuls
    BY <2>3 DEF IsHead
  <2>4. CASE 2 \notin nuls /\ 3 \notin nuls /\ 4 \notin nuls /\ 5 \in nuls
    BY <2>4 DEF IsHead
  <2>5. CASE 2 \notin nuls /\ 3 \notin nuls /\ 4 \notin nuls /\ 5 \notin nuls
    BY <2>5 DEF IsHead
  <2> QED
    BY <2>1, <2>2, <2>3, <2>4, <2>5
<1>2. cnt \in 0 .. 5 /\ Ends(cnt)
  <2> HIDE DEF Ends
  <2> QED
    BY <1>1
<1>3. Sent(msg) = [head |-> SubSeq(msg.head, 1, cnt), text |-> msg.text, whole |-> cnt = 5]
  BY DEF Sent
<1> HIDE DEF cnt
<1>4. cnt # 0
  BY <1>2 DEF IsHead
<1>5. cnt \in 1 .. 5
  BY <1>2, <1>4
<1>6. cnt = 5 \/ msg.head[cnt + 1] = 0
  BY <1>2
<1>7. \A i \in 1 .. cnt : msg.head[i] # 0
  BY <1>2, <1>5
<1> QED
  BY <1>3, <1>5, <1>6, <1>7

\* What arrives of a message: each byte before the first NUL, and that NUL; behind
\* it, what was in the buffer.
LEMMA ArrivesFacts ==
  ASSUME NEW msg, IsHead(msg.head),
         NEW old, old.head \in [1 .. 5 -> 0 .. 255]
  PROVE  LET b == Received(old, Sent(msg))
         IN  /\ b.head \in [1 .. 5 -> 0 .. 255]
             /\ \A i \in 1 .. 5 :
                  (\A j \in 1 .. i - 1 : msg.head[j] # 0) => b.head[i] = msg.head[i]
             /\ (\A i \in 1 .. 5 : msg.head[i] # 0) => b.text = msg.text
             /\ b.text \in {msg.text, old.text}
<1> DEFINE b == Received(old, Sent(msg))
<1>1. PICK n \in 1 .. 5 :
        /\ Sent(msg) = [head |-> SubSeq(msg.head, 1, n), text |-> msg.text, whole |-> n = 5]
        /\ \A i \in 1 .. n : msg.head[i] # 0
        /\ n = 5 \/ msg.head[n + 1] = 0
  BY SentFacts
<1> DEFINE d == Sent(msg)
<1>2. \A i \in 1 .. 5 : msg.head[i] \in 0 .. 255
  BY HeadBytes
<1>3. /\ Len(d.head) = n /\ \A i \in 1 .. n : d.head[i] = msg.head[i]
      /\ d.text = msg.text /\ d.whole = (n = 5)
  <2>1. d.head = SubSeq(msg.head, 1, n) /\ d.text = msg.text /\ d.whole = (n = 5)
    BY <1>1
  <2>2. msg.head \in Seq(0 .. 255) /\ Len(msg.head) = 5
    BY DEF IsHead
  <2>3. /\ Len(SubSeq(msg.head, 1, n)) = n
        /\ \A i \in 1 .. n : SubSeq(msg.head, 1, n)[i] = msg.head[i]
    BY <2>2
  <2> QED
    BY <2>1, <2>3
<1> HIDE DEF d
<1>8. /\ b.head = [i \in 1 .. 5 |-> IF i <= n THEN d.head[i]
                                    ELSE IF i = n + 1 THEN 0 ELSE old.head[i]]
      /\ b.text = IF n = 5 THEN msg.text ELSE old.text
  BY <1>3 DEF Received, d
<1> HIDE DEF b
<1>4. ASSUME NEW i \in 1 .. 5
      PROVE  b.head[i] = IF i <= n THEN msg.head[i]
                         ELSE IF i = n + 1 THEN 0 ELSE old.head[i]
  BY <1>3, <1>8
<1>5. b.head \in [1 .. 5 -> 0 .. 255]
  <2>1. ASSUME NEW i \in 1 .. 5 PROVE b.head[i] \in 0 .. 255
    <3>1. old.head[i] \in 0 .. 255
      OBVIOUS
    <3>2. msg.head[i] \in 0 .. 255
      BY <1>2
    <3>3. b.head[i] \in {msg.head[i], 0, old.head[i]}
      BY <1>4
    <3> QED
      BY <3>1, <3>2, <3>3
  <2>2. b.head = [i \in 1 .. 5 |-> b.head[i]]
    BY <1>8
  <2> QED
    BY <2>1, <2>2
<1>6. ASSUME NEW i \in 1 .. 5, \A j \in 1 .. i - 1 : msg.head[j] # 0
      PROVE  b.head[i] = msg.head[i]
  <2>1. i <= n + 1
    BY <1>1, <1>6
  <2> QED
    BY <1>1, <1>4, <2>1
<1>7. (\A i \in 1 .. 5 : msg.head[i] # 0) => n = 5
  BY <1>1
<1> QED
  BY <1>5, <1>6, <1>7, <1>8 DEF b

================================================================================
