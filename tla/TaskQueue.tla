------------------------------- MODULE TaskQueue -------------------------------
(******************************************************************************)
(* What the synchronisation repository promises its users, with no ring, no   *)
(* threads and no lock: every (file, destination) pair put into it is sent    *)
(* exactly once, in the order the pairs were put, unless the daemon dies and  *)
(* takes its volatile queue with it.                                          *)
(*                                                                            *)
(* SyncDaemon is shown to implement this module.                              *)
(******************************************************************************)
EXTENDS Sequences

CONSTANT Task       \* the pairs that may be put

VARIABLES
  queue,            \* the tasks put and not yet sent, oldest first
  sent              \* every task ever sent, in sending order

Init ==
  /\ queue = << >>
  /\ sent = << >>

\* A task joins the end of the queue.
Put ==
  \E t \in Task :
    /\ queue' = Append(queue, t)
    /\ UNCHANGED sent

\* The oldest task, and no other, is sent and leaves the queue.
Send ==
  /\ queue # << >>
  /\ sent' = Append(sent, Head(queue))
  /\ queue' = Tail(queue)

\* The daemon dies: nothing of the queue was on disk.
Lose ==
  /\ queue' = << >>
  /\ UNCHANGED sent

Next == Put \/ Send \/ Lose

Spec == Init /\ [][Next]_<<queue, sent>>

================================================================================
