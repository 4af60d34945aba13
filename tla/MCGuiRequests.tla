----------------------------- MODULE MCGuiRequests -----------------------------
(******************************************************************************)
(* A small instance of GuiRequests for TLC: paths and ports on both sides of  *)
(* the boundaries of a byte.                                                  *)
(******************************************************************************)
EXTENDS GuiRequests, TLC

CONSTANTS short, longest, toolong

\* The longest path whose message fits a signed length, and one more.
MCPathLen == short :> 20 @@ longest :> 117 @@ toolong :> 118

\* A default, the largest port and the least with a high byte, one whose low byte
\* is NUL; one without a high byte, and what the GUI sends for an entry that holds
\* no number.
MCPorts == {20000, 65535, 256, 80, 0}

================================================================================
