----------------------------- MODULE StartupProofs -----------------------------
(******************************************************************************)
(* Theorems about Startup, for every set of processes and of ports and for    *)
(* any number of starts.                                                      *)
(******************************************************************************)
EXTENDS Startup, TLAPS

Kinds == {"daemon", "gui"}

LEMMA KindFacts == \A p : Kind(p) \in Kinds
BY DEF Kind, Kinds

--------------------------------------------------------------------------------
(* The home directory. *)

Making(p) == pc[p] \in {"peers", "resources"}

\* Types, and what is left of the work of whoever makes the directory: the files
\* are made in their order, and a directory without all of them has somebody at
\* work in it, or lost him there.
HomeInv ==
  /\ TypeOK
  /\ \A p \in Processes : Making(p) \/ PastHome(p) => dir
  /\ \A p \in Processes : pc[p] = "resources" => "peers" \in files
  /\ dir => files = {"peers", "resources"} \/ torn \/ \E p \in Processes : Making(p)

LEMMA InitHome == Init => HomeInv
<1> SUFFICES ASSUME Init PROVE HomeInv
  OBVIOUS
<1>1. 0 \in 0 .. MaxStarts
  BY ProcessAssumption
<1>2. path \in [{"daemon", "gui"} -> Processes \cup {NoFile, Stale}]
  BY DEF Init
<1>3. port \in [Ports -> Daemons \cup {Nobody, Lingers}]
  BY DEF Init
<1>4. pc \in [Processes -> {"none", "stat", "mkdir", "peers", "resources",
                           "unlink", "bind", "ready"}]
  BY DEF Init
<1>5. TypeOK
  BY <1>1, <1>2, <1>3, <1>4 DEF Init, TypeOK
<1> QED
  BY <1>5 DEF Init, HomeInv, Making, PastHome

\* A process that ends leaves the directory as it is; one that was at work in it is
\* remembered as torn.
LEMMA EndHome ==
  ASSUME HomeInv, NEW p \in Processes, End(p)
  PROVE  HomeInv'
<1>1. PICK left \in [Ports -> {Nobody, Lingers}] :
        port' = [q \in Ports |-> IF port[q] = p THEN left[q] ELSE port[q]]
  BY DEF End
<1>2. port' \in [Ports -> Daemons \cup {Nobody, Lingers}]
  BY <1>1 DEF HomeInv, TypeOK
<1>3. path' \in [Kinds -> Processes \cup {NoFile, Stale}]
  BY DEF End, HomeInv, TypeOK, Kinds
<1>4. TypeOK'
  BY <1>2, <1>3 DEF End, GoTo, HomeInv, TypeOK, Kinds
<1>5. \A q \in Processes \ {p} : pc'[q] = pc[q]
  BY DEF End, GoTo, HomeInv, TypeOK
<1>6. pc'[p] = "none"
  BY DEF End, GoTo, HomeInv, TypeOK
<1>7. ASSUME dir'
      PROVE  files' = {"peers", "resources"} \/ torn' \/ \E q \in Processes : Making(q)'
  <2>1. CASE Making(p)
    BY <2>1 DEF End, Making
  <2>2. CASE ~ Making(p)
    BY <1>5, <1>7, <2>2 DEF End, HomeInv, Making
  <2> QED
    BY <2>1, <2>2
<1> QED
  BY <1>4, <1>5, <1>6, <1>7 DEF End, HomeInv, Making, PastHome

\* A process that goes on, and neither begins nor ends work in the directory.
LEMMA MoveHome ==
  ASSUME HomeInv, NEW p \in Processes, NEW to \in {"stat", "mkdir", "unlink", "bind", "ready"},
         ~ Making(p), GoTo(p, to), to \in {"unlink", "bind", "ready"} => dir,
         TypeOK', UNCHANGED <<dir, files, torn>>
  PROVE  HomeInv'
<1>1. \A q \in Processes \ {p} : pc'[q] = pc[q]
  BY DEF GoTo, HomeInv, TypeOK
<1>2. pc'[p] = to
  BY DEF GoTo, HomeInv, TypeOK
<1> QED
  BY <1>1, <1>2 DEF HomeInv, Making, PastHome

LEMMA StepHome == HomeInv /\ [Next]_vars => HomeInv'
<1> SUFFICES ASSUME HomeInv, [Next]_vars PROVE HomeInv'
  OBVIOUS
<1> USE DEF HomeInv, TypeOK
<1>1. ASSUME NEW p \in Processes, Start(p) PROVE HomeInv'
  <2>1. TypeOK'
    BY <1>1, ProcessAssumption DEF Start, GoTo, Running
  <2> QED
    BY <1>1, <2>1, MoveHome DEF Start, Running, Making
<1>2. ASSUME NEW p \in Processes, StatHome(p) PROVE HomeInv'
  <2>1. TypeOK'
    BY <1>2 DEF StatHome, GoTo
  <2> QED
    BY <1>2, <2>1, MoveHome DEF StatHome, Making
<1>3. ASSUME NEW p \in Processes, MakeHome(p) PROVE HomeInv'
  <2>1. TypeOK'
    BY <1>3 DEF MakeHome, GoTo
  <2>2. Making(p)'
    BY <1>3 DEF MakeHome, GoTo, Making
  <2> QED
    BY <1>3, <2>1, <2>2 DEF MakeHome, GoTo, Making, PastHome
<1>4. ASSUME NEW p \in Processes, MakePeerList(p) PROVE HomeInv'
  <2>1. TypeOK'
    BY <1>4 DEF MakePeerList, GoTo, Making
  <2>2. Making(p)'
    BY <1>4 DEF MakePeerList, GoTo, Making
  <2> QED
    BY <1>4, <2>1, <2>2 DEF MakePeerList, GoTo, Making, PastHome
<1>5. ASSUME NEW p \in Processes, MakeResourceList(p) PROVE HomeInv'
  <2>1. TypeOK'
    BY <1>5 DEF MakeResourceList, GoTo, Making
  <2>2. files' = {"peers", "resources"}
    BY <1>5 DEF MakeResourceList
  <2> QED
    BY <1>5, <2>1, <2>2 DEF MakeResourceList, GoTo, Making, PastHome
<1>6. ASSUME NEW p \in Processes, Unlink(p) PROVE HomeInv'
  <2>1. TypeOK'
    BY <1>6 DEF Unlink, GoTo
  <2> QED
    BY <1>6, <2>1, MoveHome DEF Unlink, Making, PastHome
<1>7. ASSUME NEW p \in Processes, BindPath(p) PROVE HomeInv'
  <2>1. CASE path[Kind(p)] = NoFile
    <3>1. TypeOK'
      BY <1>7, <2>1, KindFacts, ZenonT(60) DEF BindPath, GoTo, Kinds
    <3> QED
      BY <1>7, <2>1, <3>1, MoveHome DEF BindPath, Making, PastHome
  <2>2. CASE path[Kind(p)] # NoFile
    BY <1>7, <2>2, EndHome DEF BindPath
  <2> QED
    BY <2>1, <2>2
<1>8. ASSUME NEW d \in Daemons, NEW q \in Ports, BindPort(d, q) PROVE HomeInv'
  <2>1. CASE port[q] = Nobody
    BY <1>8, <2>1 DEF BindPort, Making, PastHome
  <2>2. CASE port[q] # Nobody
    BY <1>8, <2>2, EndHome DEF BindPort, Processes
  <2> QED
    BY <2>1, <2>2
<1>9. ASSUME NEW p \in Processes, Send(p) PROVE HomeInv'
  BY <1>9, EndHome DEF Send
<1>10. ASSUME NEW p \in Processes, Quit(p) PROVE HomeInv'
  BY <1>10, EndHome DEF Quit
<1>11. ASSUME NEW q \in Ports, Expire(q) PROVE HomeInv'
  BY <1>11 DEF Expire, Making, PastHome
<1>12. CASE UNCHANGED vars
  BY <1>12 DEF vars, Making, PastHome
<1> QED
  BY <1>1, <1>2, <1>3, <1>4, <1>5, <1>6, <1>7, <1>8, <1>9, <1>10, <1>11, <1>12
     DEF Next, Home, Listening

LEMMA HomeAlways == Spec => []HomeInv
BY InitHome, StepHome, PTL DEF Spec

\* Every reachable state of every set of processes has its type.
THEOREM StartupTypeCorrect == Spec => []TypeOK
<1>1. HomeInv => TypeOK
  BY DEF HomeInv
<1> QED
  BY <1>1, HomeAlways, PTL

\* Processes that find no home directory at the same time do not harm each other:
\* set_sync_home's check-then-act leaves a process without its files only if one
\* was ended between mkdir and the last file.
THEOREM HomeKept == Spec => []HomeIsMade
<1>1. HomeInv => HomeIsMade
  BY DEF HomeInv, HomeIsMade, Making, PastHome
<1> QED
  BY <1>1, HomeAlways, PTL

--------------------------------------------------------------------------------
(* The socket paths. *)

\* Until two of a kind have run together, a process is the only one of its kind,
\* and the path is its own once it is bound.
PathInv ==
  ~ crowded =>
    /\ \A p, q \in Processes :
         Running(p) /\ Running(q) /\ Kind(p) = Kind(q) => p = q
    /\ \A p \in Processes : pc[p] = "ready" => path[Kind(p)] = p

LEMMA InitPath == Init => PathInv
BY DEF Init, PathInv, Running

\* The path of a process that ends is nobody else's.
LEMMA EndPath ==
  ASSUME TypeOK, PathInv, NEW p \in Processes, End(p)
  PROVE  PathInv'
<1>1. \A q \in Processes \ {p} : pc'[q] = pc[q]
  BY DEF End, GoTo, TypeOK
<1>2. pc'[p] = "none"
  BY DEF End, GoTo, TypeOK
<1>3. \A q \in Processes \ {p} : path[Kind(q)] = q => path'[Kind(q)] = q
  BY KindFacts DEF End, TypeOK, Kinds
<1> QED
  BY <1>1, <1>2, <1>3 DEF End, PathInv, Running

\* A running process that goes on to a place short of "ready".
LEMMA MovePath ==
  ASSUME TypeOK, PathInv, NEW p \in Processes, Running(p),
         NEW to \in {"mkdir", "peers", "resources", "unlink"},
         GoTo(p, to), UNCHANGED <<path, crowded>>
  PROVE  PathInv'
<1>1. \A q \in Processes : pc'[q] = IF q = p THEN to ELSE pc[q]
  BY DEF GoTo, TypeOK
<1> QED
  BY <1>1 DEF PathInv, Running

LEMMA StepPath == TypeOK /\ PathInv /\ [Next]_vars => PathInv'
<1> SUFFICES ASSUME TypeOK, PathInv, [Next]_vars PROVE PathInv'
  OBVIOUS
<1>1. ASSUME NEW p \in Processes, Start(p) PROVE PathInv'
  <2>1. \A q \in Processes : pc'[q] = IF q = p THEN "stat" ELSE pc[q]
    BY <1>1 DEF Start, GoTo, TypeOK
  <2> QED
    BY <1>1, <2>1 DEF Start, PathInv, Running
<1>2. ASSUME NEW p \in Processes, Home(p) PROVE PathInv'
  BY <1>2, MovePath DEF Home, StatHome, MakeHome, MakePeerList, MakeResourceList, Running
<1>3. ASSUME NEW p \in Processes, Unlink(p) PROVE PathInv'
  <2>1. \A q \in Processes : pc'[q] = IF q = p THEN "bind" ELSE pc[q]
    BY <1>3 DEF Unlink, GoTo, TypeOK
  <2>2. \A q \in Processes : Kind(q) # Kind(p) => path'[Kind(q)] = path[Kind(q)]
    BY <1>3, KindFacts DEF Unlink, TypeOK, Kinds
  <2> QED
    BY <1>3, <2>1, <2>2 DEF Unlink, PathInv, Running
<1>4. ASSUME NEW p \in Processes, BindPath(p) PROVE PathInv'
  <2>1. CASE path[Kind(p)] = NoFile
    <3>1. \A q \in Processes : pc'[q] = IF q = p THEN "ready" ELSE pc[q]
      BY <1>4, <2>1 DEF BindPath, GoTo, TypeOK
    <3>2. \A q \in Processes :
            path'[Kind(q)] = IF Kind(q) = Kind(p) THEN p ELSE path[Kind(q)]
      BY <1>4, <2>1, KindFacts DEF BindPath, TypeOK, Kinds
    <3> QED
      BY <1>4, <2>1, <3>1, <3>2 DEF BindPath, PathInv, Running
  <2>2. CASE path[Kind(p)] # NoFile
    BY <1>4, <2>2, EndPath DEF BindPath
  <2> QED
    BY <2>1, <2>2
<1>5. ASSUME NEW d \in Daemons, NEW q \in Ports, BindPort(d, q) PROVE PathInv'
  <2>1. CASE port[q] = Nobody
    BY <1>5, <2>1 DEF BindPort, PathInv, Running
  <2>2. CASE port[q] # Nobody
    BY <1>5, <2>2, EndPath DEF BindPort, Processes
  <2> QED
    BY <2>1, <2>2
<1>6. ASSUME NEW p \in Processes, Send(p) \/ Quit(p) PROVE PathInv'
  BY <1>6, EndPath DEF Send, Quit
<1>7. ASSUME NEW q \in Ports, Expire(q) PROVE PathInv'
  BY <1>7 DEF Expire, PathInv, Running
<1>8. CASE UNCHANGED vars
  BY <1>8 DEF vars, PathInv, Running
<1> QED
  BY <1>1, <1>2, <1>3, <1>4, <1>5, <1>6, <1>7, <1>8 DEF Next, Listening

\* Until two of a kind have run together, what is sent to a path comes to the
\* process whose listener is at work, whatever processes came and went before.
THEOREM EachHears == Spec => []ListenerHears
<1>1. PathInv => ListenerHears
  BY DEF PathInv, ListenerHears
<1> QED
  BY <1>1, InitPath, StepPath, StartupTypeCorrect, PTL DEF Spec

================================================================================
