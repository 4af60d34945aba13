----------------------------- MODULE MCDescriptors -----------------------------
(******************************************************************************)
(* A small instance of Descriptors for TLC: both clients at work, and a table *)
(* that has room for the peak and a few leaks.                                *)
(******************************************************************************)
EXTENDS Descriptors

================================================================================
