-------------------------------- MODULE Datagram -------------------------------
(******************************************************************************)
(* The datagrams between the GUI and the daemon, in both directions.  Sender  *)
(* and receiver treat them as C strings: the sender sends strlen(msg) bytes,  *)
(* the receiver keeps one buffer for all of them and ends each one with a     *)
(* NUL, behind which the previous one goes on.                                *)
(*                                                                            *)
(* A message is its head, the bytes in front that are numbers and may be NUL, *)
(* and its text, the rest, which never holds one.                             *)
(******************************************************************************)
EXTENDS Integers, Sequences

HEAD == 5           \* bytes of the head

\* What an unsigned byte keeps of a number.
Byte(n) == n % 256

\* What a char holding byte b becomes when it is taken for a number.
Signed(b) == IF b < 128 THEN b ELSE b - 256

\* The numbers that two bytes hold.
Word == 0 .. 256 * 256 - 1

\* A port as its high and its low byte, and, below, back.
High(port) == Byte(port \div 256)
Low(port) == Byte(port)

\* Fault: the high byte is taken for a signed number.
PortOfSigned(high, low) == 256 * Signed(high) + low

PortOf(high, low) == 256 * high + low

\* sendto(sock, msg, strlen(msg), ...): the bytes before the first NUL; the text
\* is not among them if that is in the head.
Sent(msg) ==
  LET nuls == {i \in 1 .. HEAD : msg.head[i] = 0}
      cnt == CHOOSE n \in 0 .. HEAD :
               (n = HEAD \/ n + 1 \in nuls) /\ nuls \cap (1 .. n) = {}
  IN  [head |-> SubSeq(msg.head, 1, cnt), text |-> msg.text, whole |-> cnt = HEAD]

\* The buffer after recvfrom and buf[cnt] = '\0': the datagram, a NUL, and what
\* was in the buffer before.
Received(buf, datagram) ==
  LET cnt == Len(datagram.head)
  IN  [head |-> [i \in 1 .. HEAD |->
                   IF i <= cnt THEN datagram.head[i]
                   ELSE IF i = cnt + 1 THEN 0 ELSE buf.head[i]],
       text |-> IF datagram.whole THEN datagram.text ELSE buf.text]

================================================================================
