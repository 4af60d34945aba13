------------------------------ MODULE MCSyncNetwork ----------------------------
(******************************************************************************)
(* A small instance of SyncNetwork for TLC: two machines, each the origin of  *)
(* a file.                                                                    *)
(******************************************************************************)
EXTENDS SyncNetwork

CONSTANTS n1, n2

MCNames == {<<"f">>, <<"g">>}
MCOrigin == <<"f">> :> n1 @@ <<"g">> :> n2

\* Nobody has a file yet.
MCNoFiles == [n \in Node |-> [p \in Path |-> Missing]]

\* Two versions: one that takes two turns of the client's loop and has a NUL, one
\* that takes one.
MCVersions == {<<"a", NUL>>, <<"c">>}

================================================================================
