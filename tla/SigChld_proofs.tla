--------------------------- MODULE SigChld_proofs ---------------------------
(***************************************************************************)
(* Proofs about SigChld for every number of children and stops.            *)
(***************************************************************************)
EXTENDS SigChld, FiniteSetTheorems, TLAPS

USE SigChldAssumption DEF Kids, States

(***************************************************************************)
(* numkids tells how many children have not exited and been waited for,    *)
(* but for the one a handler has yet to count.  It counts children that    *)
(* were made: the others have no past.  A handler runs, or is about to,    *)
(* only when a zombie is there for it, and a signal raised while one waits *)
(* has a zombie of its own.                                                *)
(***************************************************************************)
Uncounted == IF handler = "counting" /\ status = "exited" THEN 1 ELSE 0
Counted == numkids + Cardinality(Are("reaped")) = N + Uncounted

NotMade == \A k \in Kids : k >= forked => child[k] = "none"

Left == main = "done" => handler = "idle" /\ numkids <= 0

NoneStopped == stops = 0 => Are("stopped") = {}

ZombieEach ==
  stops = 0 /\ Running =>
    /\ pending \/ handler = "waiting" => Zombies # {}
    /\ pending /\ handler = "waiting" => \E k, l \in Zombies : k # l

IInv == TypeOK /\ Counted /\ NotMade /\ Left /\ NoneStopped /\ ZombieEach

-----------------------------------------------------------------------------
(* Lemmas about the sets of children                                       *)

\* There are N children, and as many in a state only if all are in it.
LEMMA KidsFinite ==
  ASSUME TypeOK, NEW how \in States
  PROVE  /\ IsFiniteSet(Are(how))
         /\ Cardinality(Are(how)) \in 0 .. N
         /\ Cardinality(Are(how)) = N => Are(how) = Kids
<1>1. IsFiniteSet(Kids) /\ Cardinality(Kids) = N
  BY FS_Interval
<1>2. Are(how) \in SUBSET Kids
  BY DEF Are
<1>3. /\ IsFiniteSet(Are(how))
      /\ Cardinality(Are(how)) <= N
      /\ N = Cardinality(Are(how)) => Kids = Are(how)
  BY <1>1, <1>2, FS_Subset
<1>4. Cardinality(Are(how)) \in Nat
  BY <1>3, FS_CardinalityType
<1> QED
  BY <1>3, <1>4

\* A step of one child changes the set of those in a state by that child.
LEMMA OneMoves ==
  ASSUME TypeOK, NEW k \in Kids, NEW to \in States, NEW how \in States,
         child' = [child EXCEPT ![k] = to]
  PROVE  Are(how)' = IF to = how THEN Are(how) \cup {k} ELSE Are(how) \ {k}
BY DEF Are, TypeOK

\* A child that was not a zombie and becomes one joins the others.
LEMMA OneDies ==
  ASSUME TypeOK, NEW k \in Kids, k \notin Zombies, NEW to \in {"exited", "killed"},
         child' = [child EXCEPT ![k] = to]
  PROVE  Zombies' = Zombies \cup {k} /\ k \in Zombies'
<1>1. /\ Are("exited")' = IF to = "exited" THEN Are("exited") \cup {k} ELSE Are("exited") \ {k}
      /\ Are("killed")' = IF to = "killed" THEN Are("killed") \cup {k} ELSE Are("killed") \ {k}
  BY OneMoves
<1> QED
  BY <1>1 DEF Zombies

\* A child that neither is nor becomes a zombie leaves them alone.
LEMMA ZombiesStay ==
  ASSUME TypeOK, NEW k \in Kids, k \notin Zombies, NEW to \in States \ {"exited", "killed"},
         child' = [child EXCEPT ![k] = to]
  PROVE  Zombies' = Zombies
<1>1. Are("exited")' = Are("exited") \ {k} /\ Are("killed")' = Are("killed") \ {k}
  BY OneMoves
<1> QED
  BY <1>1 DEF Zombies

\* A child that was not waited for and is not now leaves the count alone.
LEMMA CountStays ==
  ASSUME TypeOK, Counted, NEW k \in Kids, child[k] # "reaped", NEW to \in States \ {"reaped"},
         child' = [child EXCEPT ![k] = to], UNCHANGED <<numkids, handler, status>>
  PROVE  Counted'
<1>1. Are("reaped")' = Are("reaped") \ {k}
  BY OneMoves
<1>2. k \notin Are("reaped")
  BY DEF Are
<1>3. Are("reaped")' = Are("reaped")
  BY <1>1, <1>2
<1> QED
  BY <1>3 DEF Counted, Uncounted

-----------------------------------------------------------------------------
(* The invariant                                                           *)

\* It holds at the start.
LEMMA Initially == Init => IInv
<1> SUFFICES ASSUME Init PROVE IInv
  OBVIOUS
<1> USE DEF Init
<1>1. TypeOK
  <2>1. child \in [Kids -> States]
    OBVIOUS
  <2>2. forked \in 0 .. N /\ numkids \in 0 .. N /\ stops \in 0 .. MaxStops
    OBVIOUS
  <2>3. pending \in BOOLEAN /\ kills \in BOOLEAN
    OBVIOUS
  <2> QED
    BY <2>1, <2>2, <2>3, Zenon DEF TypeOK
<1>2. \A how \in States \ {"none"} : Are(how) = {}
  BY DEF Are
<1>3. Counted
  BY <1>2, FS_EmptySet DEF Counted, Uncounted
<1>4. NotMade /\ Left
  BY DEF NotMade, Left
<1>5. NoneStopped
  BY <1>2 DEF NoneStopped
<1>6. ZombieEach
  BY DEF ZombieEach
<1> QED
  BY <1>1, <1>3, <1>4, <1>5, <1>6 DEF IInv

\* The main program makes children, starts computing, stops.
LEMMA MainPreserves == IInv /\ (Main \/ ForkFails) => IInv'
<1> SUFFICES ASSUME IInv, Main \/ ForkFails PROVE IInv'
  OBVIOUS
<1> USE DEF IInv, mainVars, handlerVars, childVars
<1>1. CASE Fork
  <2> USE <1>1 DEF Fork
  <2>1. forked \in Kids /\ child[forked] = "none" /\ forked \notin Zombies
    BY DEF TypeOK, NotMade, Zombies, Are
  <2>2. TypeOK'
    BY DEF TypeOK
  <2>3. Counted'
    BY <2>1, CountStays
  <2>4. NotMade'
    BY DEF NotMade, TypeOK
  <2>5. Left'
    BY DEF Left
  <2>6. Are("stopped")' = Are("stopped") \ {forked} /\ Zombies' = Zombies
    BY <2>1, OneMoves, ZombiesStay
  <2>7. NoneStopped' /\ ZombieEach'
    BY <2>6 DEF NoneStopped, ZombieEach, Running
  <2> QED
    BY <2>2, <2>3, <2>4, <2>5, <2>7
<1>2. CASE ForkFails \/ AllForked \/ LeaveLoop
  <2> USE <1>2 DEF ForkFails, AllForked, LeaveLoop
  <2>1. TypeOK'
    BY DEF TypeOK
  <2>2. UNCHANGED <<handler, status, numkids, pending, forked, child, stops>>
    OBVIOUS
  <2>3. Are("reaped")' = Are("reaped") /\ Are("stopped")' = Are("stopped") /\ Zombies' = Zombies
    BY <2>2 DEF Are, Zombies
  <2>4. Counted' /\ NotMade' /\ NoneStopped'
    BY <2>2, <2>3 DEF Counted, Uncounted, NotMade, NoneStopped
  <2>5. Left'
    BY DEF Left
  <2>6. ZombieEach'
    BY <2>3 DEF ZombieEach, Running
  <2> QED
    BY <2>1, <2>4, <2>5, <2>6
<1> QED
  BY <1>1, <1>2 DEF Main

\* The handler takes a signal, a zombie, and counts it.
LEMMA HandlerPreserves == IInv /\ Handler => IInv'
<1> SUFFICES ASSUME IInv, Handler PROVE IInv'
  OBVIOUS
<1> USE DEF IInv, mainVars, handlerVars, childVars
<1>1. CASE Deliver
  <2> USE <1>1 DEF Deliver
  <2>1. Are("reaped")' = Are("reaped") /\ Are("stopped")' = Are("stopped") /\ Zombies' = Zombies
    BY DEF Are, Zombies
  <2>2. TypeOK' /\ NotMade'
    BY DEF TypeOK, NotMade
  <2>3. Counted' /\ NoneStopped'
    BY <2>1 DEF Counted, Uncounted, NoneStopped
  <2>4. Left' /\ ZombieEach'
    BY <2>1 DEF Left, ZombieEach, Running
  <2> QED
    BY <2>2, <2>3, <2>4
<1>2. CASE Wait
  <2> USE <1>2 DEF Wait
  <2>1. PICK k \in Zombies : /\ status' = child[k]
                             /\ child' = [child EXCEPT ![k] = AfterWait(child[k])]
    OBVIOUS
  <2>2. k \in Kids /\ child[k] \in {"exited", "killed"}
    BY DEF Zombies, Are
  <2>3. /\ AfterWait(child[k]) \in {"reaped", "buried"}
        /\ AfterWait(child[k]) = "reaped" <=> status' = "exited"
    BY <2>1, <2>2 DEF AfterWait
  <2>4. TypeOK'
    BY <2>1, <2>2, <2>3 DEF TypeOK
  <2>5. Counted'
    <3>1. k \notin Are("reaped") /\ IsFiniteSet(Are("reaped"))
      BY <2>2, KidsFinite DEF Are
    <3>2. Cardinality(Are("reaped")) \in Nat
      BY <3>1, FS_CardinalityType
    <3>3. Are("reaped")' = IF status' = "exited" THEN Are("reaped") \cup {k}
                                                 ELSE Are("reaped") \ {k}
      BY <2>1, <2>2, <2>3, OneMoves
    <3>4. Cardinality(Are("reaped"))' = IF status' = "exited"
                                        THEN Cardinality(Are("reaped")) + 1
                                        ELSE Cardinality(Are("reaped"))
      BY <3>1, <3>3, FS_AddElement, FS_RemoveElement
    <3> QED
      BY <3>2, <3>4 DEF Counted, Uncounted, TypeOK
  <2>6. NotMade' /\ Left'
    BY <2>1, <2>2 DEF NotMade, TypeOK, Left, Running
  <2>7. /\ Are("stopped")' = Are("stopped") \ {k}
        /\ Are("exited")' = Are("exited") \ {k}
        /\ Are("killed")' = Are("killed") \ {k}
    BY <2>1, <2>2, <2>3, OneMoves
  <2>8. Zombies' = Zombies \ {k}
    BY <2>7 DEF Zombies
  <2>9. NoneStopped' /\ ZombieEach'
    BY <2>7, <2>8 DEF NoneStopped, ZombieEach, Running
  <2> QED
    BY <2>4, <2>5, <2>6, <2>9
<1>3. CASE WaitFails
  <2> USE <1>3 DEF WaitFails
  <2>1. TypeOK'
    BY DEF TypeOK
  <2>2. Counted' /\ NotMade' /\ NoneStopped'
    BY DEF Counted, Uncounted, NotMade, NoneStopped, Are
  <2>3. Left' /\ ZombieEach'
    BY DEF Left, ZombieEach, Running
  <2> QED
    BY <2>1, <2>2, <2>3
<1>4. CASE Count
  <2> USE <1>4 DEF Count
  <2>1. Are("reaped")' = Are("reaped") /\ Are("stopped")' = Are("stopped") /\ Zombies' = Zombies
    BY DEF Are, Zombies
  <2>2. Cardinality(Are("reaped")) \in 0 .. N
    BY KidsFinite
  <2>3. numkids' = numkids - Uncounted
    BY DEF Uncounted, TypeOK
  <2>4. Counted' /\ numkids' \in 0 .. N
    BY <2>1, <2>2, <2>3 DEF Counted, Uncounted, TypeOK
  <2>5. TypeOK' /\ NotMade'
    BY <2>4 DEF TypeOK, NotMade
  <2>6. NoneStopped' /\ Left' /\ ZombieEach'
    BY <2>1 DEF NoneStopped, Left, ZombieEach, Running
  <2> QED
    BY <2>4, <2>5, <2>6
<1> QED
  BY <1>1, <1>2, <1>3, <1>4 DEF Handler

\* The children end, stop and go on whatever the parent does.
LEMMA ChildPreserves ==
  ASSUME IInv, NEW k \in Kids,
         ChildExits(k) \/ ChildKilled(k) \/ ChildStops(k) \/ ChildContinues(k)
  PROVE  IInv'
<1> USE DEF IInv, mainVars, handlerVars, childVars
<1>1. CASE ChildExits(k) \/ ChildKilled(k)
  <2> USE <1>1 DEF ChildExits, ChildKilled
  <2>1. PICK to \in {"exited", "killed"} : child' = [child EXCEPT ![k] = to]
    OBVIOUS
  <2>2. child[k] \in {"running", "stopped"} /\ k \notin Zombies
    BY DEF Zombies, Are
  <2>3. TypeOK'
    BY <2>1 DEF TypeOK
  <2>4. Counted'
    BY <2>1, <2>2, CountStays
  <2>5. NotMade' /\ Left'
    BY <2>1, <2>2 DEF NotMade, TypeOK, Left
  <2>6. Are("stopped")' = Are("stopped") \ {k}
    BY <2>1, OneMoves
  <2>7. Zombies' = Zombies \cup {k} /\ k \in Zombies'
    BY <2>1, <2>2, OneDies
  <2>8. NoneStopped'
    BY <2>6 DEF NoneStopped
  <2>9. ZombieEach'
    <3> SUFFICES ASSUME stops = 0, Running, handler = "waiting"
                 PROVE  \E j, l \in Zombies' : j # l
      BY <2>7 DEF ZombieEach, Running
    <3>1. PICK j \in Zombies : TRUE
      BY DEF ZombieEach
    <3> QED
      BY <2>2, <2>7, <3>1
  <2> QED
    BY <2>3, <2>4, <2>5, <2>8, <2>9
<1>2. CASE ChildStops(k)
  <2> USE <1>2 DEF ChildStops
  <2>1. TypeOK' /\ stops' # 0
    BY DEF TypeOK
  <2>2. Counted'
    BY CountStays
  <2>3. NotMade' /\ Left'
    BY DEF NotMade, TypeOK, Left
  <2> QED
    BY <2>1, <2>2, <2>3 DEF NoneStopped, ZombieEach
<1>3. CASE ChildContinues(k)
  <2> USE <1>3 DEF ChildContinues
  <2>1. TypeOK' /\ stops' = stops
    BY DEF TypeOK
  <2>2. stops # 0
    BY DEF NoneStopped, Are
  <2>3. Counted'
    BY CountStays
  <2>4. NotMade' /\ Left'
    BY DEF NotMade, TypeOK, Left
  <2> QED
    BY <2>1, <2>2, <2>3, <2>4 DEF NoneStopped, ZombieEach
<1> QED
  BY <1>1, <1>2, <1>3

\* A step of nobody changes nothing.
LEMMA StutterPreserves == IInv /\ UNCHANGED vars => IInv'
BY DEF IInv, TypeOK, Counted, Uncounted, NotMade, Left, NoneStopped, ZombieEach,
       Running, Zombies, Are, vars, mainVars, handlerVars, childVars

\* It holds always.
LEMMA Invariance == Spec => []IInv
<1>1. IInv /\ [Next]_vars => IInv'
  BY MainPreserves, HandlerPreserves, ChildPreserves, StutterPreserves DEF Next
<1> QED
  BY Initially, <1>1, PTL DEF Spec

-----------------------------------------------------------------------------
(* The theorems                                                            *)

\* The variables have their types; numkids never goes below 0.
THEOREM TypeCorrect == Spec => []TypeOK
<1>1. IInv => TypeOK
  BY DEF IInv
<1> QED
  BY <1>1, Invariance, PTL

\* The process leaves its loop only after every child has exited and was
\* waited for: at that moment the count says that all N of them are reaped.
THEOREM DoneCorrect == Spec => []DoneMeansReaped
<1>1. IInv => DoneMeansReaped
  <2> SUFFICES ASSUME IInv, main = "done" PROVE Are("reaped") = Kids
    BY DEF DoneMeansReaped
  <2>1. numkids = 0 /\ Uncounted = 0
    BY DEF IInv, Left, TypeOK, Uncounted
  <2>2. Cardinality(Are("reaped")) \in 0 .. N
    BY KidsFinite DEF IInv
  <2>3. Cardinality(Are("reaped")) = N
    BY <2>1, <2>2 DEF IInv, Counted
  <2> QED
    BY <2>3, KidsFinite DEF IInv
<1> QED
  BY <1>1, Invariance, PTL

\* While no child is stopped, the handler's wait() finds a zombie.
THEOREM ZombieFound == Spec => []HandlerFindsZombie
<1>1. IInv => HandlerFindsZombie
  BY DEF IInv, ZombieEach, HandlerFindsZombie
<1> QED
  BY <1>1, Invariance, PTL
=============================================================================
