----------------------------- MODULE MCFileTransfer ----------------------------
(******************************************************************************)
(* Small instances of FileTransfer for TLC: the names and the files of two    *)
(* nodes.                                                                     *)
(******************************************************************************)
EXTENDS FileTransfer

CONSTANTS n1, n2

\* One name that fits the server's array with its terminator.
MCShortName == {<<"f">>}

\* A name that is blank, one that fits, one that fills the array and one that is
\* longer (with NAMEBUF = 2).
MCNames == {<< >>, <<"f">>, <<"f", "g", "h">>}

Files(f) == [p \in Path |-> IF p = <<"f">> THEN f ELSE Missing]

\* The file is on the first node only.
MCOneHome == n1 :> Files(<<NUL, "a">>) @@ n2 :> Files(Missing)

\* Both nodes have a file of that name: one with a NUL inside and longer than a
\* buffer of two, one empty.
MCTwoHomes == n1 :> Files(<<"a", NUL, "b">>) @@ n2 :> Files(<< >>)

\* Transfers are told apart by nothing but what they hold.
Symmetry == Permutations(Transfer)

================================================================================
