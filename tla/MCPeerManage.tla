------------------------------ MODULE MCPeerManage -----------------------------
(******************************************************************************)
(* A small instance of PeerManage for TLC.                                    *)
(******************************************************************************)
EXTENDS PeerManage

================================================================================
