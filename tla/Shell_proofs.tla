----------------------------- MODULE Shell_proofs -----------------------------
(***************************************************************************)
(* Proofs about Shell, for command lines of any length and any number of   *)
(* processes and pipes: no program keeps a pipe end that is not its own,   *)
(* every wait() has a child to wait for, and the loop ends exactly when    *)
(* its line asked for it.  All follow from one inductive invariant, IInv.  *)
(***************************************************************************)
EXTENDS Shell, FiniteSetTheorems, SequenceTheorems, WellFoundedInduction, TLAPS

-----------------------------------------------------------------------------
(* The inductive invariant                                                 *)

\* A process, and what its fields are.
AllEnds == UNION {Ends(p) : p \in Pipes}
Procs == [pc : States, parent : Pids \cup {nobody}, cmd : Seq(Kinds),
          in : Pipes \cup {0}, out : Pipes \cup {0}, held : SUBSET AllEnds,
          pfd : Pipes \cup {0}, waits : 0 .. 2, bad : BOOLEAN, code : {0, 255}]
Typed ==
  /\ proc \in [Pids -> Procs]
  /\ eof \in BOOLEAN /\ recycled \in BOOLEAN /\ garbage \in BOOLEAN /\ asked \in BOOLEAN
  /\ fails \in 0 .. MaxFails /\ later \in 0 .. MaxLater

\* Between pipe() and the last close() of a process; what a process of main's
\* can be doing.
Piping == {"piped", "half", "forked", "left", "right"}
Parent == {"prompt", "ended", "crashed", "run", "wait", "piped", "half", "forked"}

\* What the fields of one process have to do with each other.
Shape(q) ==
  LET p == proc[q]
  IN  /\ q = main => /\ p.pc \in Parent /\ p.parent = nobody /\ p.in = 0 /\ p.out = 0
                     /\ p.pc = "run" => p.cmd # <<"badredir">>
      /\ q # main => p.pc \notin {"prompt", "ended", "crashed"}
      /\ p.pc \in {"run", "wait", "left", "right", "program"} => p.cmd # <<>>
      /\ p.pc \in {"piped", "half", "forked"} => Len(p.cmd) > 1
      /\ p.pc = "program" => Len(p.cmd) = 1
      /\ p.pc \in Piping => p.pfd \in Pipes
      /\ p.pc = "wait" => p.waits # 0 /\ (p.waits = 2 => Len(p.cmd) > 1)

\* The children a process has made and not yet waited for.
Due(q) == IF proc[q].pc = "wait" THEN proc[q].waits
          ELSE IF proc[q].pc = "forked" THEN 2 ELSE IF proc[q].pc = "half" THEN 1 ELSE 0
Enough == \A q \in Pids : Cardinality(Children(q)) >= Due(q)

\* As long as no call has failed, it has no others; no process is an orphan,
\* and everything comes from main.
Exact == \A q \in Pids : Cardinality(Children(q)) <= Due(q)
Reached ==
  \A C \in SUBSET Pids :
    main \in C /\ (\A q \in C : Children(q) \subseteq C) => \A q \in Pids \ C : proc[q].pc = "none"

\* A program is the child of a process with one segment, every other process
\* of one with a pipeline.
Pipeliners == {"run", "wait", "left", "right", "piped", "half", "forked"}
Placed ==
  \A q \in Pids \ {main} :
    /\ proc[q].pc # "none" => proc[q].parent \in Pids \ {q}
    /\ proc[q].pc = "program" => Len(proc[proc[q].parent].cmd) = 1
    /\ proc[q].pc \in Pipeliners => Len(proc[proc[q].parent].cmd) > 1

\* The pipe ends held besides stdin and stdout; the two ends of a pipe that
\* is being connected are not among these.
Holding ==
  \A q \in Pids :
    /\ proc[q].held = IF proc[q].pc \in Piping THEN Ends(proc[q].pfd) ELSE {}
    /\ proc[q].pc \in Piping => proc[q].in # proc[q].pfd /\ proc[q].out # proc[q].pfd

\* Who has a pipe as the stdin of its program, or will pass it on to the one
\* process that has; the same for stdout.
UsesIn(q, p) ==
  \/ proc[q].in = p /\ proc[q].pc \in {"run", "piped", "left", "program"}
  \/ proc[q].pfd = p /\ proc[q].pc \in {"piped", "half", "right"}
UsesOut(q, p) ==
  \/ proc[q].out = p /\ proc[q].pc \in {"run", "piped", "half", "right", "program"}
  \/ proc[q].pfd = p /\ proc[q].pc \in {"piped", "left"}
Alone ==
  \A p \in Pipes, q \in Pids, r \in Pids :
    (UsesIn(q, p) /\ UsesIn(r, p)) \/ (UsesOut(q, p) /\ UsesOut(r, p)) => q = r

\* The wish to end the shell is on its way to main: as the status 255 of a
\* process of a pipeline, or as what a process has seen of one.
Carries(q) ==
  \/ /\ proc[q].pc = "zombie" /\ proc[q].code = 255
     /\ proc[q].parent # main \/ Len(proc[main].cmd) > 1
  \/ proc[q].pc = "wait" /\ proc[q].bad /\ Len(proc[q].cmd) > 1
Wished ==
  /\ proc[main].pc \notin {"ended", "crashed"} => (asked <=> \E q \in Pids : Carries(q))
  /\ proc[main].pc = "ended" => asked

Calm == Exact /\ Reached /\ Placed /\ Holding /\ Alone /\ Wished

IInv == Typed /\ (\A q \in Pids : Shape(q)) /\ Enough /\ (fails = 0 => Calm)

-----------------------------------------------------------------------------
(* Numbers, processes and pipes                                            *)

\* A set of numbers that is not empty has a lowest one.
LEMMA Lowest ==
  ASSUME NEW S, S \subseteq Nat, S # {}
  PROVE  LowestOf(S) \in S
<1>1. PICK x \in S : \A y \in S : ~(<<y, x>> \in OpToRel(<, Nat))
  BY NatLessThanWellFounded, WFMin
<1>2. \A y \in S : x <= y
  <2> TAKE y \in S
  <2>1. x \in Nat /\ y \in Nat
    OBVIOUS
  <2>2. y < x => <<y, x>> \in OpToRel(<, Nat)
    BY <2>1 DEF OpToRel
  <2>3. ~(y < x)
    BY <1>1, <2>2
  <2> QED
    BY <2>1, <2>3
<1> QED
  BY <1>2 DEF LowestOf

\* Pids and pipes are numbers; 0 is main and no pipe.
LEMMA Numbers ==
  /\ MaxPid \in Nat /\ MaxFails \in Nat /\ MaxLater \in Nat
  /\ IsFiniteSet(Pids) /\ Pids \subseteq Nat /\ main \in Pids /\ main = 0 /\ nobody \notin Pids
  /\ Pipes \subseteq Nat /\ 0 \notin Pipes
  /\ Lines \subseteq Seq(Kinds) /\ <<>> \notin Lines
<1>1. IsFiniteSet(Pids)
  BY ShellAssumption, FS_Interval DEF Pids
<1> QED
  BY <1>1, ShellAssumption DEF Pids, Pipes, main, nobody

\* The fields of a process.
LEMMA Fields ==
  ASSUME NEW p \in Procs
  PROVE  /\ p.pc \in States /\ p.parent \in Pids \cup {nobody} /\ p.cmd \in Seq(Kinds)
         /\ p.in \in Pipes \cup {0} /\ p.out \in Pipes \cup {0} /\ p.held \subseteq AllEnds
         /\ p.pfd \in Pipes \cup {0} /\ p.waits \in 0 .. 2 /\ p.bad \in BOOLEAN
         /\ p.code \in {0, 255}
BY DEF Procs

\* A process that does not exist.
LEMMA Missing ==
  /\ NoProc \in Procs /\ NoProc.pc = "none" /\ NoProc.parent = nobody /\ NoProc.held = {}
  /\ \A q \in Pids : Shape(q) \/ proc[q] # NoProc \/ q = main
<1>1. <<>> \in Seq(Kinds)
  BY EmptySeq
<1>2. NoProc \in Procs /\ NoProc.pc = "none" /\ NoProc.parent = nobody /\ NoProc.held = {}
  BY <1>1 DEF NoProc, Procs, States
<1> QED
  BY <1>2 DEF Shape, Piping

\* The children of a process are processes.
LEMMA SomePids ==
  \A q : Children(q) \subseteq Pids /\ IsFiniteSet(Children(q)) /\ Cardinality(Children(q)) \in Nat
<1> TAKE q
<1>1. Children(q) \subseteq Pids
  BY DEF Children
<1> QED
  BY <1>1, Numbers, FS_Subset, FS_CardinalityType

\* A process that has made no child, or has waited for all, has none.
LEMMA Childless ==
  ASSUME Exact, NEW x \in Pids, Due(x) = 0
  PROVE  Children(x) = {}
<1>1. Cardinality(Children(x)) <= 0 /\ Cardinality(Children(x)) \in Nat /\ IsFiniteSet(Children(x))
  BY SomePids DEF Exact
<1>2. Cardinality(Children(x)) = 0
  BY <1>1
<1> QED
  BY <1>1, <1>2, FS_EmptySet

\* When all children of main have ended nothing else is left.
LEMMA NothingElse ==
  ASSUME Exact, Reached, NEW R \in SUBSET Pids, Children(main) \subseteq R,
         \A x \in R : Due(x) = 0
  PROVE  \A x \in Pids : x # main /\ x \notin R => proc[x].pc = "none"
<1>1. {main} \cup R \in SUBSET Pids /\ main \in {main} \cup R
  BY Numbers
<1>2. \A x \in {main} \cup R : Children(x) \subseteq {main} \cup R
  <2> TAKE x \in {main} \cup R
  <2>1. CASE x = main
    BY <2>1
  <2>2. CASE x \in R
    BY <2>2, Childless
  <2> QED
    BY <2>1, <2>2
<1>3. \A x \in Pids \ ({main} \cup R) : proc[x].pc = "none"
  BY <1>1, <1>2 DEF Reached
<1> QED
  BY <1>3

-----------------------------------------------------------------------------
(* A process that goes on                                                  *)

\* What does not concern the processes.
FlagsTyped ==
  /\ eof \in BOOLEAN /\ recycled \in BOOLEAN /\ garbage \in BOOLEAN /\ asked \in BOOLEAN
  /\ fails \in 0 .. MaxFails /\ later \in 0 .. MaxLater

\* Process q becomes new, which has as many children as before.
MoveGiven(q, new) ==
  /\ proc' = [proc EXCEPT ![q] = new]
  /\ new.pc # "none" /\ proc[q].pc # "none" /\ new.parent = proc[q].parent
  /\ Due(q)' = Due(q) /\ Shape(q)' /\ FlagsTyped'
MoveDone(q, new) ==
  /\ proc'[q] = new /\ new.parent = proc[q].parent
  /\ \A x \in Pids : x # q => proc'[x] = proc[x]
  /\ \A x \in Pids : Children(x)' = Children(x)
  /\ Typed' /\ (\A x \in Pids : Shape(x)') /\ Enough'
  /\ Calm => Exact' /\ Reached'
LEMMA Moved ==
  ASSUME IInv, NEW q \in Pids, NEW new \in Procs, MoveGiven(q, new)
  PROVE  MoveDone(q, new)
<1>1. /\ proc \in [Pids -> Procs] /\ Enough /\ \A x \in Pids : Shape(x)
      /\ proc' = [proc EXCEPT ![q] = new]
      /\ new.pc # "none" /\ proc[q].pc # "none" /\ new.parent = proc[q].parent
      /\ Due(q)' = Due(q) /\ Shape(q)' /\ FlagsTyped'
  BY DEF IInv, Typed, MoveGiven
<1>2. /\ proc' \in [Pids -> Procs] /\ proc'[q] = new
      /\ \A x \in Pids : x # q => proc'[x] = proc[x]
  BY <1>1
<1>3. \A x \in Pids : Children(x)' = Children(x)
  BY <1>1, <1>2 DEF Children
<1>4. \A x \in Pids : Due(x)' = Due(x)
  BY <1>1, <1>2 DEF Due
<1>5. Typed'
  BY <1>1, <1>2 DEF Typed, FlagsTyped
<1>6. \A x \in Pids : Shape(x)'
  BY <1>1, <1>2 DEF Shape
<1>7. Enough'
  BY <1>1, <1>3, <1>4 DEF Enough
<1>8. Exact => Exact'
  BY <1>3, <1>4 DEF Exact
<1>9. Reached => Reached'
  <2> SUFFICES ASSUME Reached, NEW C \in SUBSET Pids, main \in C,
                      \A x \in C : Children(x)' \subseteq C, NEW y \in Pids \ C
               PROVE  proc'[y].pc = "none"
    BY DEF Reached
  <2>1. \A x \in C : Children(x) \subseteq C
    BY <1>3
  <2>2. proc[y].pc = "none"
    BY <2>1 DEF Reached
  <2> QED
    BY <1>1, <1>2, <2>2
<1> QED
  BY <1>1, <1>2, <1>3, <1>5, <1>6, <1>7, <1>8, <1>9 DEF MoveDone, Calm

\* The move is one of a process in the middle of a command, and does not end it.
MoveCalm(q, new) ==
  /\ new.cmd = proc[q].cmd /\ new.pc \in Pipeliners /\ proc[q].pc \in Pipeliners \ {"wait"}
  /\ new.pc = "wait" => ~new.bad
  /\ new.held = IF new.pc \in Piping THEN Ends(new.pfd) ELSE {}
  /\ new.pc \in Piping => new.in # new.pfd /\ new.out # new.pfd
LEMMA MovedCalm ==
  ASSUME IInv, Calm, NEW q \in Pids, NEW new \in Procs, MoveDone(q, new),
         MoveCalm(q, new), asked' = asked, Alone'
  PROVE  Calm'
<1>1. /\ proc'[q] = new /\ new.parent = proc[q].parent
      /\ \A x \in Pids : x # q => proc'[x] = proc[x]
      /\ Exact' /\ Reached' /\ \A x \in Pids : Shape(x)'
  BY DEF MoveDone
<1>2. /\ new.cmd = proc[q].cmd /\ new.pc \in Pipeliners /\ proc[q].pc \in Pipeliners
      /\ proc[q].pc # "wait"
      /\ new.pc = "wait" => ~new.bad
      /\ new.held = IF new.pc \in Piping THEN Ends(new.pfd) ELSE {}
      /\ new.pc \in Piping => new.in # new.pfd /\ new.out # new.pfd
  BY DEF MoveCalm
<1>3. /\ proc \in [Pids -> Procs] /\ Placed /\ Holding /\ Wished /\ \A x \in Pids : Shape(x)
  BY DEF IInv, Typed, Calm
<1>4. \A x \in Pids : proc'[x].cmd = proc[x].cmd
  BY <1>1, <1>2
<1>5. \A x \in Pids : proc'[x].parent = proc[x].parent
  BY <1>1
<1>6. Placed'
  <2> SUFFICES ASSUME NEW x \in Pids \ {main}
               PROVE  /\ proc'[x].pc # "none" => proc'[x].parent \in Pids \ {x}
                      /\ proc'[x].pc = "program" => Len(proc'[proc'[x].parent].cmd) = 1
                      /\ proc'[x].pc \in Pipeliners => Len(proc'[proc'[x].parent].cmd) > 1
    BY DEF Placed
  <2>1. /\ proc[x].pc # "none" => proc[x].parent \in Pids \ {x}
        /\ proc[x].pc = "program" => Len(proc[proc[x].parent].cmd) = 1
        /\ proc[x].pc \in Pipeliners => Len(proc[proc[x].parent].cmd) > 1
    BY <1>3 DEF Placed
  <2>2. /\ proc'[x].pc # "none" => proc[x].pc # "none"
        /\ proc'[x].pc = "program" => proc[x].pc = "program"
        /\ proc'[x].pc \in Pipeliners => proc[x].pc \in Pipeliners
    BY <1>1, <1>2 DEF Pipeliners
  <2>3. proc[x].pc \in Pipeliners => proc[x].pc # "none"
    BY DEF Pipeliners
  <2> QED
    BY <1>4, <1>5, <2>1, <2>2, <2>3
<1>7. Holding'
  BY <1>1, <1>2, <1>3 DEF Holding
<1>8. \A x \in Pids : Carries(x)' <=> Carries(x)
  BY <1>1, <1>2, <1>4, <1>5, Numbers DEF Carries, Pipeliners
<1>9. /\ proc'[main].pc \notin {"ended", "crashed"} => proc[main].pc \notin {"ended", "crashed"}
      /\ proc'[main].pc = "ended" => proc[main].pc = "ended"
  BY <1>1, <1>2, Numbers DEF Pipeliners
<1>10. Wished'
  BY <1>3, <1>8, <1>9 DEF Wished
<1> QED
  BY <1>1, <1>6, <1>7, <1>10 DEF Calm

\* A process is the record of its fields.
Fielded(p) ==
  [pc |-> p.pc, parent |-> p.parent, cmd |-> p.cmd, in |-> p.in, out |-> p.out,
   held |-> p.held, pfd |-> p.pfd, waits |-> p.waits, bad |-> p.bad, code |-> p.code]
LEMMA AllFields == \A p \in Procs : p = Fielded(p)
BY DEF Procs, Fielded

\* The steps of execute_complex_command that neither make a process nor end one.
LEMMA MakePipeKeeps == ASSUME NEW q \in Pids PROVE IInv /\ MakePipe(q) => IInv'
<1> SUFFICES ASSUME IInv, MakePipe(q) PROVE IInv'
  OBVIOUS
<1> USE DEF history
<1>1. /\ proc[q] \in Procs /\ Shape(q) /\ proc[q].pc = "run" /\ Len(proc[q].cmd) > 1
      /\ proc[q].held \subseteq AllEnds
      /\ eof' = eof /\ recycled' = recycled /\ garbage' = garbage /\ asked' = asked
      /\ fails' = fails /\ later' = later
  BY Fields DEF IInv, Typed, MakePipe, At
<1>2. PICK p \in FreePipes : p = LowestOf(FreePipes)
  BY Numbers, Lowest DEF MakePipe, FreePipes
<1>3. p \in Pipes /\ Readers(p) = {} /\ Writers(p) = {}
  BY DEF FreePipes
<1>4. PICK new : new = [proc[q] EXCEPT !.pc = "piped", !.pfd = p, !.held = @ \cup Ends(p)]
  OBVIOUS
<1>5. /\ new \in Procs
      /\ new.pc = "piped" /\ new.pfd = p /\ new.held = proc[q].held \cup Ends(p)
      /\ new.parent = proc[q].parent /\ new.cmd = proc[q].cmd
      /\ new.in = proc[q].in /\ new.out = proc[q].out
  <2>1. proc[q].held \cup Ends(p) \in SUBSET AllEnds
    BY <1>1, <1>3 DEF AllEnds
  <2>2. "piped" \in States
    BY DEF States
  <2> QED
    BY <1>1, <1>3, <1>4, <2>1, <2>2, ZenonT(60) DEF Procs
<1>6. proc' = [proc EXCEPT ![q] = new] /\ proc'[q] = new
  BY <1>2, <1>4 DEF MakePipe, Update, IInv, Typed
<1>7. MoveGiven(q, new)
  <2>1. Due(q)' = Due(q)
    BY <1>1, <1>5, <1>6 DEF Due
  <2>2. Shape(q)'
    BY <1>1, <1>3, <1>5, <1>6 DEF Shape, Parent, Piping
  <2>3. FlagsTyped'
    BY <1>1 DEF IInv, Typed, FlagsTyped
  <2> QED
    BY <1>1, <1>5, <1>6, <2>1, <2>2, <2>3 DEF MoveGiven
<1>8. MoveDone(q, new)
  BY <1>5, <1>7, Moved
<1>9. fails = 0 => Calm'
  <2> SUFFICES ASSUME fails = 0 PROVE Calm'
    OBVIOUS
  <2>1. Calm /\ Holding /\ Alone
    BY DEF IInv, Calm
  <2>2. Alive(q)
    BY <1>1 DEF Alive
  <2>3. proc[q].in # p /\ proc[q].out # p /\ proc[q].held = {}
    BY <1>1, <1>3, <2>1, <2>2 DEF Readers, Writers, Holding, Piping
  <2>4. MoveCalm(q, new)
    BY <1>1, <1>5, <2>3 DEF MoveCalm, Pipeliners, Piping
  <2>5. ASSUME NEW x \in Pids PROVE ~UsesIn(x, p) /\ ~UsesOut(x, p)
    <3>1. Alive(x) => /\ proc[x].in # p /\ proc[x].out # p
                      /\ <<p, "r">> \notin proc[x].held
      BY <1>3 DEF Readers, Writers
    <3>2. proc[x].pc \in Piping => proc[x].held = Ends(proc[x].pfd)
      BY <2>1 DEF Holding
    <3>3. proc[x].pc \in Piping => proc[x].pfd # p
      BY <3>1, <3>2 DEF Ends, Alive, Piping
    <3> QED
      BY <3>1, <3>3 DEF UsesIn, UsesOut, Alive, Piping
  <2>6. ASSUME NEW x \in Pids, NEW pipe \in Pipes
        PROVE  /\ UsesIn(x, pipe)' => IF pipe = p THEN x = q ELSE UsesIn(x, pipe)
               /\ UsesOut(x, pipe)' => IF pipe = p THEN x = q ELSE UsesOut(x, pipe)
    BY <1>1, <1>5, <1>8, <2>3, <2>5 DEF MoveDone, UsesIn, UsesOut
  <2>7. Alone'
    BY <2>1, <2>6 DEF Alone
  <2> QED
    BY <1>1, <1>5, <1>8, <2>1, <2>4, <2>7, MovedCalm
<1> QED
  BY <1>1, <1>8, <1>9 DEF IInv, MoveDone

\* A child on either side connects its end of the pipe, and closes both.
LEMMA ConnectLeftKeeps == ASSUME NEW q \in Pids PROVE IInv /\ ConnectLeft(q) => IInv'
<1> SUFFICES ASSUME IInv, ConnectLeft(q) PROVE IInv'
  OBVIOUS
<1> USE DEF history
<1>1. /\ proc[q] \in Procs /\ Shape(q) /\ proc[q].pc = "left" /\ proc[q].held \subseteq AllEnds
      /\ eof' = eof /\ recycled' = recycled /\ garbage' = garbage /\ asked' = asked
      /\ fails' = fails /\ later' = later
  BY Fields DEF IInv, Typed, ConnectLeft, At
<1>2. q # main /\ proc[q].cmd # <<>> /\ proc[q].pfd \in Pipes
  BY <1>1 DEF Shape, Parent, Piping
<1>3. PICK new : new = [proc[q] EXCEPT !.pc = "run", !.out = proc[q].pfd, !.pfd = 0,
                                       !.held = @ \ Ends(proc[q].pfd)]
  OBVIOUS
<1>4. /\ new \in Procs
      /\ new.pc = "run" /\ new.held = proc[q].held \ Ends(proc[q].pfd)
      /\ new.parent = proc[q].parent /\ new.cmd = proc[q].cmd
      /\ new.out = proc[q].pfd /\ new.in = proc[q].in /\ new.pfd = 0
  <2>1. proc[q].held \ Ends(proc[q].pfd) \in SUBSET AllEnds
    BY <1>1
  <2>2. "run" \in States
    BY DEF States
  <2> QED
    BY <1>1, <1>2, <1>3, <2>1, <2>2, ZenonT(60) DEF Procs
<1>5. proc' = [proc EXCEPT ![q] = new] /\ proc'[q] = new
  BY <1>3 DEF ConnectLeft, Update, IInv, Typed
<1>6. MoveGiven(q, new)
  <2>1. Due(q)' = Due(q)
    BY <1>1, <1>4, <1>5 DEF Due
  <2>2. Shape(q)'
    BY <1>2, <1>4, <1>5 DEF Shape, Piping
  <2>3. FlagsTyped'
    BY <1>1 DEF IInv, Typed, FlagsTyped
  <2> QED
    BY <1>1, <1>4, <1>5, <2>1, <2>2, <2>3 DEF MoveGiven
<1>7. MoveDone(q, new)
  BY <1>4, <1>6, Moved
<1>8. fails = 0 => Calm'
  <2> SUFFICES ASSUME fails = 0 PROVE Calm'
    OBVIOUS
  <2>1. Calm /\ Holding /\ Alone
    BY DEF IInv, Calm
  <2>2. proc[q].held = Ends(proc[q].pfd)
    BY <1>1, <2>1 DEF Holding, Piping
  <2>3. MoveCalm(q, new)
    BY <1>1, <1>4, <2>2 DEF MoveCalm, Pipeliners, Piping
  <2>4. ASSUME NEW x \in Pids, NEW pipe \in Pipes
        PROVE  /\ UsesIn(x, pipe)' => UsesIn(x, pipe)
               /\ UsesOut(x, pipe)' => UsesOut(x, pipe)
    BY <1>1, <1>4, <1>7, Numbers DEF MoveDone, UsesIn, UsesOut
  <2>5. Alone'
    BY <2>1, <2>4 DEF Alone
  <2> QED
    BY <1>1, <1>4, <1>7, <2>1, <2>3, <2>5, MovedCalm
<1> QED
  BY <1>1, <1>7, <1>8 DEF IInv, MoveDone

\* The right one.
LEMMA ConnectRightKeeps == ASSUME NEW q \in Pids PROVE IInv /\ ConnectRight(q) => IInv'
<1> SUFFICES ASSUME IInv, ConnectRight(q) PROVE IInv'
  OBVIOUS
<1> USE DEF history
<1>1. /\ proc[q] \in Procs /\ Shape(q) /\ proc[q].pc = "right" /\ proc[q].held \subseteq AllEnds
      /\ eof' = eof /\ recycled' = recycled /\ garbage' = garbage /\ asked' = asked
      /\ fails' = fails /\ later' = later
  BY Fields DEF IInv, Typed, ConnectRight, At
<1>2. q # main /\ proc[q].cmd # <<>> /\ proc[q].pfd \in Pipes
  BY <1>1 DEF Shape, Parent, Piping
<1>3. PICK new : new = [proc[q] EXCEPT !.pc = "run", !.in = proc[q].pfd, !.pfd = 0,
                                       !.held = @ \ Ends(proc[q].pfd)]
  OBVIOUS
<1>4. /\ new \in Procs
      /\ new.pc = "run" /\ new.held = proc[q].held \ Ends(proc[q].pfd)
      /\ new.parent = proc[q].parent /\ new.cmd = proc[q].cmd
      /\ new.in = proc[q].pfd /\ new.out = proc[q].out /\ new.pfd = 0
  <2>1. proc[q].held \ Ends(proc[q].pfd) \in SUBSET AllEnds
    BY <1>1
  <2>2. "run" \in States
    BY DEF States
  <2> QED
    BY <1>1, <1>2, <1>3, <2>1, <2>2, ZenonT(60) DEF Procs
<1>5. proc' = [proc EXCEPT ![q] = new] /\ proc'[q] = new
  BY <1>3 DEF ConnectRight, Update, IInv, Typed
<1>6. MoveGiven(q, new)
  <2>1. Due(q)' = Due(q)
    BY <1>1, <1>4, <1>5 DEF Due
  <2>2. Shape(q)'
    BY <1>2, <1>4, <1>5 DEF Shape, Piping
  <2>3. FlagsTyped'
    BY <1>1 DEF IInv, Typed, FlagsTyped
  <2> QED
    BY <1>1, <1>4, <1>5, <2>1, <2>2, <2>3 DEF MoveGiven
<1>7. MoveDone(q, new)
  BY <1>4, <1>6, Moved
<1>8. fails = 0 => Calm'
  <2> SUFFICES ASSUME fails = 0 PROVE Calm'
    OBVIOUS
  <2>1. Calm /\ Holding /\ Alone
    BY DEF IInv, Calm
  <2>2. proc[q].held = Ends(proc[q].pfd)
    BY <1>1, <2>1 DEF Holding, Piping
  <2>3. MoveCalm(q, new)
    BY <1>1, <1>4, <2>2 DEF MoveCalm, Pipeliners, Piping
  <2>4. ASSUME NEW x \in Pids, NEW pipe \in Pipes
        PROVE  /\ UsesIn(x, pipe)' => UsesIn(x, pipe)
               /\ UsesOut(x, pipe)' => UsesOut(x, pipe)
    BY <1>1, <1>4, <1>7, Numbers DEF MoveDone, UsesIn, UsesOut
  <2>5. Alone'
    BY <2>1, <2>4 DEF Alone
  <2> QED
    BY <1>1, <1>4, <1>7, <2>1, <2>3, <2>5, MovedCalm
<1> QED
  BY <1>1, <1>7, <1>8 DEF IInv, MoveDone

\* The parent closes both, and begins to wait.
LEMMA CloseEndsKeeps == ASSUME NEW q \in Pids PROVE IInv /\ CloseEnds(q) => IInv'
<1> SUFFICES ASSUME IInv, CloseEnds(q) PROVE IInv'
  OBVIOUS
<1> USE DEF history
<1>1. /\ proc[q] \in Procs /\ Shape(q) /\ proc[q].pc = "forked" /\ proc[q].held \subseteq AllEnds
      /\ eof' = eof /\ recycled' = recycled /\ garbage' = garbage /\ asked' = asked
      /\ fails' = fails /\ later' = later
  BY Fields DEF IInv, Typed, CloseEnds, At
<1>2. Len(proc[q].cmd) > 1 /\ proc[q].cmd # <<>>
  <2>1. Len(<<>>) = 0
    BY EmptySeq, Zenon
  <2>2. Len(proc[q].cmd) > 1
    BY <1>1 DEF Shape
  <2>3. Len(proc[q].cmd) # 0
    BY <2>2
  <2> QED
    BY <2>1, <2>2, <2>3, Zenon
<1>3. PICK new : new = [proc[q] EXCEPT !.pc = "wait", !.waits = 2, !.bad = FALSE, !.pfd = 0,
                                       !.held = @ \ Ends(proc[q].pfd)]
  OBVIOUS
<1>4. /\ new \in Procs
      /\ new.pc = "wait" /\ new.waits = 2 /\ ~new.bad /\ new.held = proc[q].held \ Ends(proc[q].pfd)
      /\ new.parent = proc[q].parent /\ new.cmd = proc[q].cmd
      /\ new.out = proc[q].out /\ new.in = proc[q].in /\ new.pfd = 0
  <2>1. proc[q].held \ Ends(proc[q].pfd) \in SUBSET AllEnds
    BY <1>1
  <2>2. proc[q] = Fielded(proc[q])
    BY <1>1, AllFields
  <2>3. new = [Fielded(proc[q]) EXCEPT !.pc = "wait", !.waits = 2, !.bad = FALSE, !.pfd = 0,
                                       !.held = proc[q].held \ Ends(proc[q].pfd)]
    BY <1>3, <2>2
  <2>4. new = [pc |-> "wait", parent |-> proc[q].parent, cmd |-> proc[q].cmd,
               in |-> proc[q].in, out |-> proc[q].out,
               held |-> proc[q].held \ Ends(proc[q].pfd), pfd |-> 0,
               waits |-> 2, bad |-> FALSE, code |-> proc[q].code]
    BY <2>3 DEF Fielded
  <2>5. /\ new.pc = "wait" /\ new.waits = 2 /\ new.pfd = 0
        /\ new.held = proc[q].held \ Ends(proc[q].pfd)
        /\ new.parent = proc[q].parent /\ new.cmd = proc[q].cmd
        /\ new.in = proc[q].in /\ new.out = proc[q].out
    BY <2>4
  <2>6. ~new.bad
    BY <2>4, Zenon
  <2>7. new \in Procs
    <3>1. "wait" \in States
      BY DEF States
    <3> QED
      BY <1>1, <2>1, <2>4, <3>1, Fields DEF Procs
  <2> QED
    BY <2>5, <2>6, <2>7
<1>5. proc' = [proc EXCEPT ![q] = new] /\ proc'[q] = new
  BY <1>3 DEF CloseEnds, Update, IInv, Typed
<1>6. MoveGiven(q, new)
  <2>1. Due(q)' = Due(q)
    BY <1>1, <1>4, <1>5 DEF Due
  <2>2. Shape(q)'
    BY <1>1, <1>2, <1>4, <1>5 DEF Shape, Piping, Parent
  <2>3. FlagsTyped'
    BY <1>1 DEF IInv, Typed, FlagsTyped
  <2> QED
    BY <1>1, <1>4, <1>5, <2>1, <2>2, <2>3 DEF MoveGiven
<1>7. MoveDone(q, new)
  BY <1>4, <1>6, Moved
<1>8. fails = 0 => Calm'
  <2> SUFFICES ASSUME fails = 0 PROVE Calm'
    OBVIOUS
  <2>1. Calm /\ Holding /\ Alone
    BY DEF IInv, Calm
  <2>2. proc[q].held = Ends(proc[q].pfd)
    BY <1>1, <2>1 DEF Holding, Piping
  <2>3. MoveCalm(q, new)
    BY <1>1, <1>4, <2>2 DEF MoveCalm, Pipeliners, Piping
  <2>4. ASSUME NEW x \in Pids, NEW pipe \in Pipes
        PROVE  /\ UsesIn(x, pipe)' => UsesIn(x, pipe)
               /\ UsesOut(x, pipe)' => UsesOut(x, pipe)
    BY <1>1, <1>4, <1>7, Numbers DEF MoveDone, UsesIn, UsesOut
  <2>5. Alone'
    BY <2>1, <2>4 DEF Alone
  <2> QED
    BY <1>1, <1>4, <1>7, <2>1, <2>3, <2>5, MovedCalm
<1> QED
  BY <1>1, <1>7, <1>8 DEF IInv, MoveDone

-----------------------------------------------------------------------------
(* A process that forks                                                    *)

\* Process q becomes new, and makes child of the free number k.
ForkGiven(q, k, new, child) ==
  /\ proc[k].pc = "none" /\ proc' = [proc EXCEPT ![q] = new, ![k] = child]
  /\ new.pc # "none" /\ proc[q].pc # "none" /\ new.parent = proc[q].parent
  /\ child.pc # "none" /\ child.parent = q
  /\ Due(q)' = Due(q) + 1 /\ Due(k)' = 0
  /\ Shape(q)' /\ Shape(k)' /\ FlagsTyped'
ForkDone(q, k, new, child) ==
  /\ k # q /\ k # main /\ proc[k].pc = "none" /\ proc'[q] = new /\ proc'[k] = child
  /\ new.parent = proc[q].parent /\ child.parent = q
  /\ \A x \in Pids : x # q /\ x # k => proc'[x] = proc[x]
  /\ Typed' /\ (\A x \in Pids : Shape(x)') /\ Enough'
  /\ Calm => /\ Exact' /\ Reached'
             /\ \A x \in Pids : proc[x].pc # "none" => proc[x].parent # k
LEMMA Forked ==
  ASSUME IInv, NEW q \in Pids, NEW k \in Pids, NEW new \in Procs, NEW child \in Procs,
         ForkGiven(q, k, new, child)
  PROVE  ForkDone(q, k, new, child)
<1>1. /\ proc \in [Pids -> Procs] /\ Enough /\ \A x \in Pids : Shape(x)
      /\ proc[k].pc = "none" /\ proc' = [proc EXCEPT ![q] = new, ![k] = child]
      /\ new.pc # "none" /\ proc[q].pc # "none" /\ new.parent = proc[q].parent
      /\ child.pc # "none" /\ child.parent = q
      /\ Due(q)' = Due(q) + 1 /\ Due(k)' = 0
      /\ Shape(q)' /\ Shape(k)' /\ FlagsTyped'
  BY DEF IInv, Typed, ForkGiven
<1>2. k # q /\ k # main
  BY <1>1, Numbers DEF Shape, Parent
<1>3. /\ proc' \in [Pids -> Procs] /\ proc'[q] = new /\ proc'[k] = child
      /\ \A x \in Pids : x # q /\ x # k => proc'[x] = proc[x]
  BY <1>1, <1>2
<1>4. /\ \A x \in Pids : x # q => Children(x)' = Children(x)
      /\ Children(q)' = Children(q) \cup {k} /\ k \notin Children(q)
  BY <1>1, <1>2, <1>3 DEF Children
<1>5. /\ \A x \in Pids : x # q /\ x # k => Due(x)' = Due(x)
      /\ Due(k) = 0 /\ Due(q) \in Nat
  <2>1. \A x \in Pids : x # q /\ x # k => Due(x)' = Due(x)
    BY <1>3 DEF Due
  <2>2. Due(k) = 0
    BY <1>1 DEF Due
  <2>3. Due(q) \in Nat
    BY <1>1, Fields DEF Due
  <2> QED
    BY <2>1, <2>2, <2>3
<1>6. Typed'
  BY <1>1, <1>3 DEF Typed, FlagsTyped
<1>7. \A x \in Pids : Shape(x)'
  <2> TAKE x \in Pids
  <2>1. CASE x = q \/ x = k
    BY <1>1, <2>1
  <2>2. CASE x # q /\ x # k
    BY <1>1, <1>3, <2>2 DEF Shape
  <2> QED
    BY <2>1, <2>2
<1>8. /\ Cardinality(Children(q) \cup {k}) = Cardinality(Children(q)) + 1
      /\ \A x \in Pids : Cardinality(Children(x)) \in Nat
  BY <1>4, SomePids, FS_AddElement
<1>9. Enough'
  <2> SUFFICES ASSUME NEW x \in Pids PROVE Cardinality(Children(x)') >= Due(x)'
    BY DEF Enough
  <2>1. Cardinality(Children(x)) >= Due(x)
    BY <1>1 DEF Enough
  <2>2. CASE x = q
    <3>1. PICK m \in Nat : m = Cardinality(Children(q))
      BY <1>8
    <3>2. PICK d \in Nat : d = Due(q)
      BY <1>5
    <3>3. Cardinality(Children(q)') = m + 1
      BY <1>4, <1>8, <3>1
    <3>4. Due(q)' = d + 1
      BY <1>1, <3>2
    <3>5. m >= d
      BY <2>1, <2>2, <3>1, <3>2
    <3> QED
      BY <2>2, <3>3, <3>4, <3>5
  <2>3. CASE x = k
    BY <1>1, <1>2, <1>4, <1>8, <2>3
  <2>4. CASE x # q /\ x # k
    BY <1>4, <1>5, <2>1, <2>4
  <2> QED
    BY <2>2, <2>3, <2>4
<1>10. ASSUME Calm
       PROVE  /\ Exact' /\ Reached'
              /\ \A x \in Pids : proc[x].pc # "none" => proc[x].parent # k
  <2>1. Exact /\ Reached
    BY <1>10 DEF Calm
  <2>2. Exact'
    <3> SUFFICES ASSUME NEW x \in Pids PROVE Cardinality(Children(x)') <= Due(x)'
      BY DEF Exact
    <3>1. Cardinality(Children(x)) <= Due(x)
      BY <2>1 DEF Exact
    <3>2. CASE x = q
      BY <1>1, <1>4, <1>5, <1>8, <3>1, <3>2
    <3>3. CASE x = k
      BY <1>1, <1>2, <1>4, <1>5, <3>1, <3>3
    <3>4. CASE x # q /\ x # k
      BY <1>4, <1>5, <3>1, <3>4
    <3> QED
      BY <3>2, <3>3, <3>4
  <2>3. Reached'
    <3> SUFFICES ASSUME NEW C \in SUBSET Pids, main \in C,
                        \A x \in C : Children(x)' \subseteq C, NEW y \in Pids \ C
                 PROVE  proc'[y].pc = "none"
      BY DEF Reached
    <3>1. \A x \in C : Children(x) \subseteq C
      BY <1>4
    <3>2. \A x \in Pids \ C : proc[x].pc = "none"
      BY <2>1, <3>1 DEF Reached
    <3>3. q \in C
      BY <1>1, <3>2
    <3>4. k \in C
      BY <1>4, <3>3
    <3> QED
      BY <1>3, <3>2, <3>3, <3>4
  <2>4. Children(k) = {}
    BY <1>5, <2>1, Childless
  <2>5. \A x \in Pids : proc[x].pc # "none" => proc[x].parent # k
    BY <2>4 DEF Children
  <2> QED
    BY <2>2, <2>3, <2>5
<1> QED
  BY <1>1, <1>2, <1>3, <1>6, <1>7, <1>9, <1>10 DEF ForkDone

\* The fork is one of a process in the middle of a command.
ForkCalm(q, new, child) ==
  /\ new.cmd = proc[q].cmd /\ new.pc \in Pipeliners /\ proc[q].pc \in Pipeliners \ {"wait"}
  /\ new.pc = "wait" => ~new.bad
  /\ new.held = IF new.pc \in Piping THEN Ends(new.pfd) ELSE {}
  /\ new.pc \in Piping => new.in # new.pfd /\ new.out # new.pfd
  /\ child.pc \in {"left", "right", "program"}
  /\ IF child.pc = "program" THEN Len(new.cmd) = 1 ELSE Len(new.cmd) > 1
  /\ child.held = IF child.pc \in Piping THEN Ends(child.pfd) ELSE {}
  /\ child.pc \in Piping => child.in # child.pfd /\ child.out # child.pfd
LEMMA ForkedCalm ==
  ASSUME IInv, Calm, NEW q \in Pids, NEW k \in Pids, NEW new \in Procs, NEW child \in Procs,
         ForkDone(q, k, new, child), ForkCalm(q, new, child), asked' = asked, Alone'
  PROVE  Calm'
<1>1. /\ k # q /\ k # main /\ proc'[q] = new /\ proc'[k] = child
      /\ new.parent = proc[q].parent /\ child.parent = q
      /\ \A x \in Pids : x # q /\ x # k => proc'[x] = proc[x]
      /\ Exact' /\ Reached'
      /\ \A x \in Pids : proc[x].pc # "none" => proc[x].parent # k
  BY DEF ForkDone
<1>2. /\ new.cmd = proc[q].cmd /\ new.pc \in Pipeliners /\ proc[q].pc \in Pipeliners
      /\ proc[q].pc # "wait"
      /\ new.pc = "wait" => ~new.bad
      /\ new.held = IF new.pc \in Piping THEN Ends(new.pfd) ELSE {}
      /\ new.pc \in Piping => new.in # new.pfd /\ new.out # new.pfd
      /\ child.pc \in {"left", "right", "program"}
      /\ IF child.pc = "program" THEN Len(new.cmd) = 1 ELSE Len(new.cmd) > 1
      /\ child.held = IF child.pc \in Piping THEN Ends(child.pfd) ELSE {}
      /\ child.pc \in Piping => child.in # child.pfd /\ child.out # child.pfd
  BY DEF ForkCalm
<1>3. /\ proc \in [Pids -> Procs] /\ Placed /\ Holding /\ Wished /\ \A x \in Pids : Shape(x)
  BY DEF IInv, Typed, Calm
<1>4. \A x \in Pids : x # k => proc'[x].cmd = proc[x].cmd /\ proc'[x].parent = proc[x].parent
  BY <1>1, <1>2
<1>5. Placed'
  <2> SUFFICES ASSUME NEW x \in Pids \ {main}
               PROVE  /\ proc'[x].pc # "none" => proc'[x].parent \in Pids \ {x}
                      /\ proc'[x].pc = "program" => Len(proc'[proc'[x].parent].cmd) = 1
                      /\ proc'[x].pc \in Pipeliners => Len(proc'[proc'[x].parent].cmd) > 1
    BY DEF Placed
  <2>1. CASE x = k
    <3>1. proc'[x].parent = q /\ proc'[q].cmd = new.cmd /\ proc'[x].pc = child.pc
      BY <1>1, <2>1
    <3> QED
      BY <1>1, <1>2, <2>1, <3>1 DEF Pipeliners
  <2>2. CASE x # k
    <3>1. /\ proc[x].pc # "none" => proc[x].parent \in Pids \ {x}
          /\ proc[x].pc = "program" => Len(proc[proc[x].parent].cmd) = 1
          /\ proc[x].pc \in Pipeliners => Len(proc[proc[x].parent].cmd) > 1
      BY <1>3 DEF Placed
    <3>2. /\ proc'[x].pc # "none" => proc[x].pc # "none"
          /\ proc'[x].pc = "program" => proc[x].pc = "program"
          /\ proc'[x].pc \in Pipeliners => proc[x].pc \in Pipeliners
      BY <1>1, <1>2, <2>2 DEF Pipeliners
    <3>3. proc[x].pc \in Pipeliners => proc[x].pc # "none"
      BY DEF Pipeliners
    <3>4. proc[x].pc # "none" => proc[x].parent # k
      BY <1>1
    <3> QED
      BY <1>4, <2>2, <3>1, <3>2, <3>3, <3>4
  <2> QED
    BY <2>1, <2>2
<1>6. Holding'
  BY <1>1, <1>2, <1>3 DEF Holding
<1>7. \A x \in Pids : x # k => (Carries(x)' <=> Carries(x))
  BY <1>1, <1>2, <1>4, Numbers, SMTT(30) DEF Carries, Pipeliners
<1>8. ~Carries(k)' /\ ~Carries(k)
  <2>1. ~Carries(k)'
    BY <1>1, <1>2 DEF Carries
  <2>2. proc[k].pc = "none"
    BY DEF ForkDone
  <2> QED
    BY <2>1, <2>2 DEF Carries
<1>9. /\ proc'[main].pc \notin {"ended", "crashed"} => proc[main].pc \notin {"ended", "crashed"}
      /\ proc'[main].pc = "ended" => proc[main].pc = "ended"
  BY <1>1, <1>2, Numbers DEF Pipeliners
<1>10. Wished'
  BY <1>3, <1>7, <1>8, <1>9 DEF Wished
<1> QED
  BY <1>1, <1>5, <1>6, <1>10 DEF Calm

\* What a pipe end is used for is passed on to one process at most.
PassedOn(q, k) ==
  \A p \in Pipes, x \in Pids :
    /\ UsesIn(x, p)' => UsesIn(IF x = k THEN q ELSE x, p)
    /\ UsesOut(x, p)' => UsesOut(IF x = k THEN q ELSE x, p)
    /\ ~(UsesIn(q, p)' /\ UsesIn(k, p)') /\ ~(UsesOut(q, p)' /\ UsesOut(k, p)')
LEMMA StillAlone ==
  ASSUME Alone, NEW q \in Pids, NEW k \in Pids, PassedOn(q, k)
  PROVE  Alone'
BY DEF Alone, PassedOn

\* The steps that make a process.
LEMMA ForkLeftKeeps == ASSUME NEW q \in Pids PROVE IInv /\ ForkLeft(q) => IInv'
<1> SUFFICES ASSUME IInv, ForkLeft(q) PROVE IInv'
  OBVIOUS
<1> USE DEF history
<1>1. /\ proc[q] \in Procs /\ Shape(q) /\ proc[q].pc = "piped" /\ FreePids # {}
      /\ proc \in [Pids -> Procs]
      /\ eof' = eof /\ recycled' = recycled /\ garbage' = garbage /\ asked' = asked
      /\ fails' = fails /\ later' = later
  BY DEF IInv, Typed, ForkLeft, At
<1>2. Len(proc[q].cmd) > 1 /\ proc[q].cmd \in Seq(Kinds) /\ proc[q].pfd \in Pipes
  BY <1>1, Fields DEF Shape, Piping
<1>3. PICK k \in FreePids : k = LowestOf(FreePids)
  BY <1>1, Numbers, Lowest DEF FreePids
<1>4. k \in Pids /\ proc[k].pc = "none" /\ k # q
  BY <1>1 DEF FreePids
<1>5. PICK new : new = [proc[q] EXCEPT !.pc = "half"]
  OBVIOUS
<1>6. /\ new \in Procs
      /\ new.pc = "half" /\ new.held = proc[q].held /\ new.pfd = proc[q].pfd
      /\ new.parent = proc[q].parent /\ new.cmd = proc[q].cmd
      /\ new.out = proc[q].out /\ new.in = proc[q].in
  <2>1. "half" \in States
    BY DEF States
  <2> QED
    BY <1>1, <1>5, <2>1 DEF Procs
<1>7. PICK first : first = <<Head(proc[q].cmd)>>
  OBVIOUS
<1>8. first \in Seq(Kinds) /\ first # <<>>
  <2>1. proc[q].cmd # <<>> => Head(proc[q].cmd) \in Kinds
    BY <1>2, HeadTailProperties
  <2>2. proc[q].cmd # <<>>
    BY <1>2
  <2> QED
    BY <1>7, <2>1, <2>2
<1>9. PICK child : child = [[proc[q] EXCEPT !.pc = "left", !.cmd = first] EXCEPT !.parent = q]
  OBVIOUS
<1>10. /\ child \in Procs
       /\ child.pc = "left" /\ child.held = proc[q].held /\ child.pfd = proc[q].pfd
       /\ child.parent = q /\ child.cmd = first
       /\ child.out = proc[q].out /\ child.in = proc[q].in
  <2>1. "left" \in States
    BY DEF States
  <2> QED
    BY <1>1, <1>8, <1>9, <2>1, ZenonT(60) DEF Procs
<1>11. proc' = [proc EXCEPT ![q] = new, ![k] = child]
  <2>1. [proc[q] EXCEPT !.pc = "left", !.cmd = <<Head(@)>>] = [proc[q] EXCEPT !.pc = "left", !.cmd = first]
    BY <1>7
  <2> QED
    BY <1>3, <1>5, <1>9, <2>1 DEF ForkLeft, Forks
<1>12. proc'[q] = new /\ proc'[k] = child
  BY <1>1, <1>4, <1>11
<1>13. ForkGiven(q, k, new, child)
  <2>1. Due(q)' = Due(q) + 1 /\ Due(k)' = 0
    BY <1>1, <1>6, <1>10, <1>12 DEF Due
  <2>2. Shape(q)'
    BY <1>1, <1>2, <1>6, <1>12 DEF Shape, Piping, Parent
  <2>3. Shape(k)'
    <3>1. k # main
      BY <1>1, <1>4, Numbers DEF IInv, Shape, Parent
    <3> QED
      BY <1>2, <1>8, <1>10, <1>12, <3>1 DEF Shape, Piping
  <2>4. FlagsTyped'
    BY <1>1 DEF IInv, Typed, FlagsTyped
  <2> QED
    BY <1>1, <1>4, <1>6, <1>10, <1>11, <2>1, <2>2, <2>3, <2>4 DEF ForkGiven
<1>14. ForkDone(q, k, new, child)
  BY <1>4, <1>6, <1>10, <1>13, Forked
<1>15. fails = 0 => Calm'
  <2> SUFFICES ASSUME fails = 0 PROVE Calm'
    OBVIOUS
  <2>1. Calm /\ Holding /\ Alone
    BY DEF IInv, Calm
  <2>2. /\ proc[q].held = Ends(proc[q].pfd)
        /\ proc[q].in # proc[q].pfd /\ proc[q].out # proc[q].pfd
    BY <1>1, <2>1 DEF Holding, Piping
  <2>3. ForkCalm(q, new, child)
    BY <1>1, <1>2, <1>6, <1>10, <2>2 DEF ForkCalm, Pipeliners, Piping
  <2>4. PassedOn(q, k)
    <3> SUFFICES ASSUME NEW p \in Pipes, NEW x \in Pids
                 PROVE  /\ UsesIn(x, p)' => UsesIn(IF x = k THEN q ELSE x, p)
                        /\ UsesOut(x, p)' => UsesOut(IF x = k THEN q ELSE x, p)
                        /\ ~(UsesIn(q, p)' /\ UsesIn(k, p)') /\ ~(UsesOut(q, p)' /\ UsesOut(k, p)')
      BY DEF PassedOn
    <3>1. /\ UsesIn(q, p)' => proc[q].pfd = p
          /\ UsesIn(k, p)' => proc[q].in = p
          /\ UsesOut(q, p)' => proc[q].out = p
          /\ UsesOut(k, p)' => proc[q].pfd = p
      BY <1>6, <1>10, <1>12 DEF UsesIn, UsesOut
    <3>2. x # q /\ x # k => (UsesIn(x, p)' => UsesIn(x, p)) /\ (UsesOut(x, p)' => UsesOut(x, p))
      BY <1>14 DEF ForkDone, UsesIn, UsesOut
    <3>3. /\ proc[q].pfd = p \/ proc[q].in = p => UsesIn(q, p)
          /\ proc[q].pfd = p \/ proc[q].out = p => UsesOut(q, p)
      BY <1>1 DEF UsesIn, UsesOut
    <3> QED
      BY <2>2, <3>1, <3>2, <3>3
  <2>5. Alone'
    BY <1>4, <2>1, <2>4, StillAlone
  <2> QED
    BY <1>1, <1>4, <1>6, <1>10, <1>14, <2>1, <2>3, <2>5, ForkedCalm
<1> QED
  BY <1>1, <1>14, <1>15 DEF IInv, ForkDone

\* The right side of the pipe is made.
LEMMA ForkRightKeeps == ASSUME NEW q \in Pids PROVE IInv /\ ForkRight(q) => IInv'
<1> SUFFICES ASSUME IInv, ForkRight(q) PROVE IInv'
  OBVIOUS
<1> USE DEF history
<1>1. /\ proc[q] \in Procs /\ Shape(q) /\ proc[q].pc = "half" /\ FreePids # {}
      /\ proc \in [Pids -> Procs]
      /\ eof' = eof /\ recycled' = recycled /\ garbage' = garbage /\ asked' = asked
      /\ fails' = fails /\ later' = later
  BY DEF IInv, Typed, ForkRight, At
<1>2. Len(proc[q].cmd) > 1 /\ proc[q].cmd \in Seq(Kinds) /\ proc[q].pfd \in Pipes
  BY <1>1, Fields DEF Shape, Piping
<1>3. PICK k \in FreePids : k = LowestOf(FreePids)
  BY <1>1, Numbers, Lowest DEF FreePids
<1>4. k \in Pids /\ proc[k].pc = "none" /\ k # q
  BY <1>1 DEF FreePids
<1>5. PICK new : new = [proc[q] EXCEPT !.pc = "forked"]
  OBVIOUS
<1>6. /\ new \in Procs
      /\ new.pc = "forked" /\ new.held = proc[q].held /\ new.pfd = proc[q].pfd
      /\ new.parent = proc[q].parent /\ new.cmd = proc[q].cmd
      /\ new.out = proc[q].out /\ new.in = proc[q].in
  <2>1. "forked" \in States
    BY DEF States
  <2> QED
    BY <1>1, <1>5, <2>1 DEF Procs
<1>7. PICK rest : rest = Tail(proc[q].cmd)
  OBVIOUS
<1>8. rest \in Seq(Kinds) /\ rest # <<>>
  <2>1. proc[q].cmd # <<>> => rest \in Seq(Kinds) /\ Len(rest) = Len(proc[q].cmd) - 1
    BY <1>2, <1>7, HeadTailProperties
  <2>2. proc[q].cmd # <<>>
    BY <1>2
  <2>3. Len(<<>>) = 0
    BY EmptySeq, Zenon
  <2>4. Len(rest) # 0
    BY <1>2, <2>1, <2>2
  <2> QED
    BY <2>1, <2>2, <2>3, <2>4, Zenon
<1>9. PICK child : child = [[proc[q] EXCEPT !.pc = "right", !.cmd = rest] EXCEPT !.parent = q]
  OBVIOUS
<1>10. /\ child \in Procs
       /\ child.pc = "right" /\ child.held = proc[q].held /\ child.pfd = proc[q].pfd
       /\ child.parent = q /\ child.cmd = rest
       /\ child.out = proc[q].out /\ child.in = proc[q].in
  <2>1. "right" \in States
    BY DEF States
  <2> QED
    BY <1>1, <1>8, <1>9, <2>1, ZenonT(60) DEF Procs
<1>11. proc' = [proc EXCEPT ![q] = new, ![k] = child]
  <2>1. [proc[q] EXCEPT !.pc = "right", !.cmd = Tail(@)] = [proc[q] EXCEPT !.pc = "right", !.cmd = rest]
    BY <1>7
  <2> QED
    BY <1>3, <1>5, <1>9, <2>1 DEF ForkRight, Forks
<1>12. proc'[q] = new /\ proc'[k] = child
  BY <1>1, <1>4, <1>11
<1>13. ForkGiven(q, k, new, child)
  <2>1. Due(q)' = Due(q) + 1 /\ Due(k)' = 0
    BY <1>1, <1>6, <1>10, <1>12 DEF Due
  <2>2. Shape(q)'
    BY <1>1, <1>2, <1>6, <1>12 DEF Shape, Piping, Parent
  <2>3. Shape(k)'
    <3>1. k # main
      BY <1>1, <1>4, Numbers DEF IInv, Shape, Parent
    <3> QED
      BY <1>2, <1>8, <1>10, <1>12, <3>1 DEF Shape, Piping
  <2>4. FlagsTyped'
    BY <1>1 DEF IInv, Typed, FlagsTyped
  <2> QED
    BY <1>1, <1>4, <1>6, <1>10, <1>11, <2>1, <2>2, <2>3, <2>4 DEF ForkGiven
<1>14. ForkDone(q, k, new, child)
  BY <1>4, <1>6, <1>10, <1>13, Forked
<1>15. fails = 0 => Calm'
  <2> SUFFICES ASSUME fails = 0 PROVE Calm'
    OBVIOUS
  <2>1. Calm /\ Holding /\ Alone
    BY DEF IInv, Calm
  <2>2. /\ proc[q].held = Ends(proc[q].pfd)
        /\ proc[q].in # proc[q].pfd /\ proc[q].out # proc[q].pfd
    BY <1>1, <2>1 DEF Holding, Piping
  <2>3. ForkCalm(q, new, child)
    BY <1>1, <1>2, <1>6, <1>10, <2>2 DEF ForkCalm, Pipeliners, Piping
  <2>4. PassedOn(q, k)
    <3> SUFFICES ASSUME NEW p \in Pipes, NEW x \in Pids
                 PROVE  /\ UsesIn(x, p)' => UsesIn(IF x = k THEN q ELSE x, p)
                        /\ UsesOut(x, p)' => UsesOut(IF x = k THEN q ELSE x, p)
                        /\ ~(UsesIn(q, p)' /\ UsesIn(k, p)') /\ ~(UsesOut(q, p)' /\ UsesOut(k, p)')
      BY DEF PassedOn
    <3>1. /\ ~UsesIn(q, p)' /\ ~UsesOut(q, p)'
          /\ UsesIn(k, p)' => proc[q].pfd = p
          /\ UsesOut(k, p)' => proc[q].out = p
      BY <1>6, <1>10, <1>12 DEF UsesIn, UsesOut
    <3>2. x # q /\ x # k => (UsesIn(x, p)' => UsesIn(x, p)) /\ (UsesOut(x, p)' => UsesOut(x, p))
      BY <1>14 DEF ForkDone, UsesIn, UsesOut
    <3>3. /\ proc[q].pfd = p => UsesIn(q, p)
          /\ proc[q].out = p => UsesOut(q, p)
      BY <1>1 DEF UsesIn, UsesOut
    <3> QED
      BY <3>1, <3>2, <3>3
  <2>5. Alone'
    BY <1>4, <2>1, <2>4, StillAlone
  <2> QED
    BY <1>1, <1>4, <1>6, <1>10, <1>14, <2>1, <2>3, <2>5, ForkedCalm
<1> QED
  BY <1>1, <1>14, <1>15 DEF IInv, ForkDone

\* A child becomes the program.
LEMMA ForkProgramKeeps == ASSUME NEW q \in Pids PROVE IInv /\ ForkProgram(q) => IInv'
<1> SUFFICES ASSUME IInv, ForkProgram(q) PROVE IInv'
  OBVIOUS
<1> USE DEF history
<1>1. /\ proc[q] \in Procs /\ Shape(q) /\ proc[q].pc = "run" /\ Len(proc[q].cmd) = 1 /\ FreePids # {}
      /\ proc \in [Pids -> Procs]
      /\ eof' = eof /\ recycled' = recycled /\ garbage' = garbage /\ asked' = asked
      /\ fails' = fails /\ later' = later
  BY DEF IInv, Typed, ForkProgram, Runs
<1>2. proc[q].cmd # <<>>
  BY <1>1 DEF Shape
<1>3. PICK k \in FreePids : k = LowestOf(FreePids)
  BY <1>1, Numbers, Lowest DEF FreePids
<1>4. k \in Pids /\ proc[k].pc = "none" /\ k # q
  BY <1>1 DEF FreePids
<1>5. PICK new : new = [proc[q] EXCEPT !.pc = "wait", !.waits = 1, !.bad = FALSE]
  OBVIOUS
<1>6. /\ new \in Procs
      /\ new.pc = "wait" /\ new.waits = 1 /\ ~new.bad /\ new.held = proc[q].held
      /\ new.parent = proc[q].parent /\ new.cmd = proc[q].cmd
      /\ new.out = proc[q].out /\ new.in = proc[q].in
  <2>1. proc[q] = Fielded(proc[q])
    BY <1>1, AllFields
  <2>2. new = [Fielded(proc[q]) EXCEPT !.pc = "wait", !.waits = 1, !.bad = FALSE]
    BY <1>5, <2>1
  <2>3. new = [pc |-> "wait", parent |-> proc[q].parent, cmd |-> proc[q].cmd,
               in |-> proc[q].in, out |-> proc[q].out,
               held |-> proc[q].held, pfd |-> proc[q].pfd,
               waits |-> 1, bad |-> FALSE, code |-> proc[q].code]
    BY <2>2 DEF Fielded
  <2>4. /\ new.pc = "wait" /\ new.waits = 1 /\ new.held = proc[q].held
        /\ new.parent = proc[q].parent /\ new.cmd = proc[q].cmd
        /\ new.in = proc[q].in /\ new.out = proc[q].out
    BY <2>3
  <2>5. ~new.bad
    BY <2>3, Zenon
  <2>6. new \in Procs
    <3>1. "wait" \in States
      BY DEF States
    <3> QED
      BY <1>1, <2>3, <3>1, Fields DEF Procs
  <2> QED
    BY <2>4, <2>5, <2>6
<1>7. PICK out \in {0, proc[q].out} : out = IF proc[q].cmd[1] = "tofile" THEN 0 ELSE proc[q].out
  OBVIOUS
<1>8. PICK child : child = [[proc[q] EXCEPT !.pc = "program", !.pfd = 0, !.out = out] EXCEPT !.parent = q]
  OBVIOUS
<1>9. /\ child \in Procs
      /\ child.pc = "program" /\ child.held = proc[q].held
      /\ child.parent = q /\ child.cmd = proc[q].cmd
      /\ child.out = out /\ child.in = proc[q].in
  <2>1. "program" \in States /\ out \in Pipes \cup {0}
    BY <1>1, Fields DEF States
  <2> QED
    BY <1>1, <1>8, <2>1, ZenonT(60) DEF Procs
<1>10. proc' = [proc EXCEPT ![q] = new, ![k] = child]
  <2>1. [proc[q] EXCEPT !.pc = "program", !.pfd = 0, !.out = IF proc[q].cmd[1] = "tofile" THEN 0 ELSE @]
          = [proc[q] EXCEPT !.pc = "program", !.pfd = 0, !.out = out]
    BY <1>7
  <2> QED
    BY <1>3, <1>5, <1>8, <2>1 DEF ForkProgram, Forks
<1>11. proc'[q] = new /\ proc'[k] = child
  BY <1>1, <1>4, <1>10
<1>12. ForkGiven(q, k, new, child)
  <2>1. Due(q)' = Due(q) + 1 /\ Due(k)' = 0
    BY <1>1, <1>6, <1>9, <1>11 DEF Due
  <2>2. Shape(q)'
    BY <1>1, <1>2, <1>6, <1>11 DEF Shape, Piping, Parent
  <2>3. Shape(k)'
    <3>1. k # main
      BY <1>1, <1>4, Numbers DEF IInv, Shape, Parent
    <3> QED
      BY <1>1, <1>2, <1>9, <1>11, <3>1 DEF Shape, Piping
  <2>4. FlagsTyped'
    BY <1>1 DEF IInv, Typed, FlagsTyped
  <2> QED
    BY <1>1, <1>4, <1>6, <1>9, <1>10, <2>1, <2>2, <2>3, <2>4 DEF ForkGiven
<1>13. ForkDone(q, k, new, child)
  BY <1>4, <1>6, <1>9, <1>12, Forked
<1>14. fails = 0 => Calm'
  <2> SUFFICES ASSUME fails = 0 PROVE Calm'
    OBVIOUS
  <2>1. Calm /\ Holding /\ Alone
    BY DEF IInv, Calm
  <2>2. proc[q].held = {}
    BY <1>1, <2>1 DEF Holding, Piping
  <2>3. ForkCalm(q, new, child)
    BY <1>1, <1>6, <1>9, <2>2 DEF ForkCalm, Pipeliners, Piping
  <2>4. PassedOn(q, k)
    <3> SUFFICES ASSUME NEW p \in Pipes, NEW x \in Pids
                 PROVE  /\ UsesIn(x, p)' => UsesIn(IF x = k THEN q ELSE x, p)
                        /\ UsesOut(x, p)' => UsesOut(IF x = k THEN q ELSE x, p)
                        /\ ~(UsesIn(q, p)' /\ UsesIn(k, p)') /\ ~(UsesOut(q, p)' /\ UsesOut(k, p)')
      BY DEF PassedOn
    <3>1. /\ ~UsesIn(q, p)' /\ ~UsesOut(q, p)'
          /\ UsesIn(k, p)' => proc[q].in = p
          /\ UsesOut(k, p)' => proc[q].out = p
      BY <1>6, <1>7, <1>9, <1>11, Numbers DEF UsesIn, UsesOut
    <3>2. x # q /\ x # k => (UsesIn(x, p)' => UsesIn(x, p)) /\ (UsesOut(x, p)' => UsesOut(x, p))
      BY <1>13 DEF ForkDone, UsesIn, UsesOut
    <3>3. /\ proc[q].in = p => UsesIn(q, p)
          /\ proc[q].out = p => UsesOut(q, p)
      BY <1>1 DEF UsesIn, UsesOut
    <3> QED
      BY <3>1, <3>2, <3>3
  <2>5. Alone'
    BY <1>4, <2>1, <2>4, StillAlone
  <2> QED
    BY <1>1, <1>4, <1>6, <1>9, <1>13, <2>1, <2>3, <2>5, ForkedCalm
<1> QED
  BY <1>1, <1>13, <1>14 DEF IInv, ForkDone

-----------------------------------------------------------------------------
(* A process that ends                                                     *)

\* What is left of a process that has ended, and of its children.
LEMMA Remains ==
  ASSUME NEW p \in Procs, NEW code \in {0, 255}
  PROVE  /\ Dead(p, code) \in Procs /\ Orphaned(p) \in Procs
         /\ p.parent = nobody => Dead(p, code) = NoProc
         /\ p.parent # nobody => /\ Dead(p, code).pc = "zombie" /\ Dead(p, code).parent = p.parent
                                 /\ Dead(p, code).code = code /\ Dead(p, code).held = {}
         /\ p.pc = "zombie" => Orphaned(p) = NoProc
         /\ p.pc # "zombie" => /\ Orphaned(p).parent = nobody /\ Orphaned(p).pc = p.pc
                               /\ Orphaned(p).cmd = p.cmd /\ Orphaned(p).pfd = p.pfd
                               /\ Orphaned(p).in = p.in /\ Orphaned(p).out = p.out
                               /\ Orphaned(p).waits = p.waits /\ Orphaned(p).held = p.held
<1>1. NoProc \in Procs
  BY Missing
<1>2. ASSUME p.parent # nobody
      PROVE  /\ Dead(p, code) \in Procs
             /\ Dead(p, code).pc = "zombie" /\ Dead(p, code).parent = p.parent
             /\ Dead(p, code).code = code /\ Dead(p, code).held = {}
  <2>1. PICK dead : dead = [NoProc EXCEPT !.pc = "zombie", !.parent = p.parent, !.code = code]
    OBVIOUS
  <2>2. "zombie" \in States
    BY DEF States
  <2>3. dead \in Procs
    BY <1>1, <2>1, <2>2, Fields, ZenonT(60) DEF Procs
  <2>4. dead.pc = "zombie" /\ dead.parent = p.parent /\ dead.code = code /\ dead.held = {}
    BY <1>1, <2>1, Missing DEF Procs
  <2> QED
    BY <1>2, <2>1, <2>3, <2>4 DEF Dead
<1>3. ASSUME p.pc # "zombie"
      PROVE  /\ Orphaned(p) \in Procs
             /\ Orphaned(p).parent = nobody /\ Orphaned(p).pc = p.pc
             /\ Orphaned(p).cmd = p.cmd /\ Orphaned(p).pfd = p.pfd
             /\ Orphaned(p).in = p.in /\ Orphaned(p).out = p.out
             /\ Orphaned(p).waits = p.waits /\ Orphaned(p).held = p.held
  <2>1. PICK orphan : orphan = [p EXCEPT !.parent = nobody]
    OBVIOUS
  <2>2. /\ orphan \in Procs /\ orphan.parent = nobody /\ orphan.pc = p.pc
        /\ orphan.cmd = p.cmd /\ orphan.pfd = p.pfd
        /\ orphan.in = p.in /\ orphan.out = p.out
        /\ orphan.waits = p.waits /\ orphan.held = p.held
    BY <2>1 DEF Procs
  <2> QED
    BY <1>3, <2>1, <2>2 DEF Orphaned
<1>4. p.parent = nobody => Dead(p, code) = NoProc
  BY DEF Dead
<1>5. p.pc = "zombie" => Orphaned(p) = NoProc
  BY DEF Orphaned
<1> QED
  BY <1>1, <1>2, <1>3, <1>4, <1>5

\* The process q, which is not main, ends.
DieGiven(q, code) ==
  /\ q # main /\ proc[q].pc \notin {"none", "zombie", "prompt", "ended", "crashed"}
  /\ Dies(q, code) /\ FlagsTyped'
DieDone(q, code) ==
  /\ proc' \in [Pids -> Procs]
  /\ proc'[q] = Dead(proc[q], code)
  /\ \A x \in Pids : x # q /\ proc[x].parent = q => proc'[x] = Orphaned(proc[x])
  /\ \A x \in Pids : x # q /\ proc[x].parent # q => proc'[x] = proc[x]
  /\ Typed' /\ (\A x \in Pids : Shape(x)') /\ Enough'
LEMMA Died ==
  ASSUME IInv, NEW q \in Pids, NEW code \in {0, 255}, DieGiven(q, code)
  PROVE  DieDone(q, code)
<1>1. /\ proc \in [Pids -> Procs] /\ Enough /\ (\A x \in Pids : Shape(x))
      /\ q # main /\ proc[q].pc \notin {"none", "zombie", "prompt", "ended", "crashed"}
      /\ proc' = [r \in Pids |-> IF r = q THEN Dead(proc[q], code)
                                 ELSE IF proc[r].parent = q THEN Orphaned(proc[r])
                                 ELSE proc[r]]
      /\ FlagsTyped'
  BY DEF IInv, Typed, DieGiven, Dies
<1>2. /\ proc'[q] = Dead(proc[q], code)
      /\ \A x \in Pids : x # q /\ proc[x].parent = q => proc'[x] = Orphaned(proc[x])
      /\ \A x \in Pids : x # q /\ proc[x].parent # q => proc'[x] = proc[x]
  BY <1>1
<1>3. proc' \in [Pids -> Procs]
  <2>1. \A x \in Pids : proc'[x] \in Procs
    BY <1>1, <1>2, Remains
  <2> QED
    BY <1>1, <2>1
<1>4. Typed'
  BY <1>1, <1>3 DEF Typed, FlagsTyped
<1>5. ASSUME NEW x \in Pids PROVE Shape(x)'
  <2>1. proc[x] \in Procs /\ Shape(x)
    BY <1>1
  <2>2. CASE x = q
    <3>1. proc'[x].pc \in {"none", "zombie"}
      BY <1>1, <1>2, <2>2, Remains, Missing
    <3> QED
      BY <1>1, <2>2, <3>1 DEF Shape, Piping
  <2>3. CASE x # q /\ proc[x].parent = q /\ proc[x].pc = "zombie"
    <3>1. proc'[x].pc = "none"
      BY <1>2, <2>1, <2>3, Remains, Missing
    <3>2. x # main
      BY <2>1, <2>3 DEF Shape, Parent
    <3> QED
      BY <3>1, <3>2 DEF Shape, Piping
  <2>4. CASE x # q /\ proc[x].parent = q /\ proc[x].pc # "zombie"
    <3>1. /\ proc'[x].pc = proc[x].pc /\ proc'[x].cmd = proc[x].cmd /\ proc'[x].pfd = proc[x].pfd
          /\ proc'[x].waits = proc[x].waits
      BY <1>2, <2>1, <2>4, Remains
    <3>2. x # main
      BY <1>1, <2>1, <2>4, Numbers DEF Shape
    <3> QED
      BY <2>1, <3>1, <3>2 DEF Shape
  <2>5. CASE x # q /\ proc[x].parent # q
    BY <1>2, <2>1, <2>5 DEF Shape
  <2> QED
    BY <2>2, <2>3, <2>4, <2>5
<1>6. Enough'
  <2> SUFFICES ASSUME NEW x \in Pids PROVE Cardinality(Children(x)') >= Due(x)'
    BY DEF Enough
  <2>1. Cardinality(Children(x)) >= Due(x) /\ Cardinality(Children(x)) \in Nat
    BY <1>1, SomePids DEF Enough
  <2>2. Children(x)' \subseteq Pids
    BY DEF Children
  <2>3. IsFiniteSet(Children(x)') /\ Cardinality(Children(x)') \in Nat
    BY <2>2, Numbers, FS_Subset, FS_CardinalityType
  <2>4. CASE x = q
    <3>1. proc'[x].pc \in {"none", "zombie"}
      BY <1>1, <1>2, <2>4, Remains, Missing
    <3>2. Due(x)' = 0
      BY <3>1 DEF Due
    <3> QED
      BY <2>3, <3>2
  <2>5. CASE x # q
    <3>1. Due(x)' = Due(x)
      <4>1. CASE proc[x].parent # q
        BY <1>2, <2>5, <4>1 DEF Due
      <4>2. CASE proc[x].parent = q /\ proc[x].pc = "zombie"
        <5>1. proc'[x].pc = "none"
          BY <1>1, <1>2, <2>5, <4>2, Remains, Missing
        <5> QED
          BY <4>2, <5>1 DEF Due
      <4>3. CASE proc[x].parent = q /\ proc[x].pc # "zombie"
        <5>1. proc'[x].pc = proc[x].pc /\ proc'[x].waits = proc[x].waits
          BY <1>1, <1>2, <2>5, <4>3, Remains
        <5> QED
          BY <5>1 DEF Due
      <4> QED
        BY <4>1, <4>2, <4>3
    <3>2. Children(x) \subseteq Children(x)'
      <4> SUFFICES ASSUME NEW r \in Pids, proc[r].pc # "none", proc[r].parent = x
                   PROVE  proc'[r].pc # "none" /\ proc'[r].parent = x
        BY DEF Children
      <4>1. CASE r = q
        <5>1. proc[r].parent # nobody
          BY Numbers
        <5>2. proc'[r].pc = "zombie" /\ proc'[r].parent = x
          BY <1>1, <1>2, <4>1, <5>1, Remains
        <5> QED
          BY <5>2
      <4>2. CASE r # q
        BY <1>2, <2>5, <4>2
      <4> QED
        BY <4>1, <4>2
    <3>3. Cardinality(Children(x)) <= Cardinality(Children(x)')
      BY <2>3, <3>2, FS_Subset
    <3>4. Due(x) \in Nat
      BY <1>1, Fields DEF Due
    <3> QED
      BY <2>1, <2>3, <3>1, <3>3, <3>4
  <2> QED
    BY <2>4, <2>5
<1> QED
  BY <1>2, <1>3, <1>4, <1>5, <1>6 DEF DieDone

\* It leaves none behind that has not ended as well.  What they carried is
\* lost, and what it carries depends on code.
CarriedBy(q, code) == code = 255 /\ (proc[q].parent # main \/ Len(proc[main].cmd) > 1)
DieCalm(q, code) ==
  /\ Exact' /\ Reached' /\ Placed' /\ Holding' /\ Alone' /\ proc'[main] = proc[main]
  /\ \A x \in Pids : Carries(x)' <=> IF x = q THEN CarriedBy(q, code)
                                     ELSE x \notin Children(q) /\ Carries(x)
LEMMA DiedCalm ==
  ASSUME IInv, Calm, NEW q \in Pids, NEW code \in {0, 255}, DieGiven(q, code),
         \A x \in Children(q) : proc[x].pc = "zombie"
  PROVE  DieCalm(q, code)
<1>1. /\ proc \in [Pids -> Procs] /\ (\A x \in Pids : Shape(x))
      /\ q # main /\ proc[q].pc \notin {"none", "zombie", "prompt", "ended", "crashed"}
      /\ Exact /\ Reached /\ Placed /\ Holding /\ Alone
  BY DEF IInv, Typed, DieGiven, Calm
<1>2. /\ proc'[q] = Dead(proc[q], code)
      /\ \A x \in Pids : x # q /\ proc[x].parent = q => proc'[x] = Orphaned(proc[x])
      /\ \A x \in Pids : x # q /\ proc[x].parent # q => proc'[x] = proc[x]
  BY Died DEF DieDone
<1>3. proc[q].parent \in Pids \ {q} /\ proc[q].parent # nobody
  BY <1>1, Numbers DEF Placed
<1>4. /\ proc'[q].pc = "zombie" /\ proc'[q].parent = proc[q].parent
      /\ proc'[q].code = code /\ proc'[q].held = {}
  BY <1>1, <1>2, <1>3, Remains
<1>5. \A x \in Children(q) : x \in Pids /\ x # q /\ Children(x) = {} /\ proc'[x].pc = "none" /\ proc'[x].held = {}
  <2> TAKE x \in Children(q)
  <2>1. x \in Pids /\ proc[x].parent = q /\ proc[x].pc = "zombie"
    BY DEF Children
  <2>2. x # q
    BY <1>3, <2>1
  <2>3. Due(x) = 0
    BY <2>1 DEF Due
  <2>4. proc'[x] = NoProc
    BY <1>1, <1>2, <2>1, <2>2, Remains
  <2> QED
    BY <1>1, <2>1, <2>2, <2>3, <2>4, Childless, Missing
<1>6. \A x \in Pids : x # q /\ x \notin Children(q) =>
        /\ proc'[x].pc = proc[x].pc /\ proc'[x].cmd = proc[x].cmd /\ proc'[x].held = proc[x].held
        /\ proc[x].pc # "none" => proc'[x] = proc[x] /\ proc[x].parent # q
  <2> SUFFICES ASSUME NEW x \in Pids, x # q, x \notin Children(q)
               PROVE  /\ proc'[x].pc = proc[x].pc /\ proc'[x].cmd = proc[x].cmd /\ proc'[x].held = proc[x].held
                      /\ proc[x].pc # "none" => proc'[x] = proc[x] /\ proc[x].parent # q
    OBVIOUS
  <2>1. CASE proc[x].parent = q
    <3>1. proc[x].pc = "none"
      BY <2>1 DEF Children
    <3> QED
      BY <1>1, <1>2, <2>1, <3>1, Remains
  <2>2. CASE proc[x].parent # q
    BY <1>2, <2>2
  <2> QED
    BY <2>1, <2>2
<1>7. proc'[main] = proc[main]
  <2>1. proc[main].parent = nobody
    BY <1>1, Numbers DEF Shape
  <2> QED
    BY <1>1, <1>2, <2>1, Numbers
<1>8. /\ \A x \in Pids : x # q => Children(x)' \subseteq Children(x) /\ (x \notin Children(q) => Children(x) \subseteq Children(x)')
      /\ Children(q)' = {}
  <2>1. ASSUME NEW x \in Pids, NEW r \in Pids
        PROVE  /\ proc'[r].pc # "none" /\ proc'[r].parent = x
                    => x # q /\ proc[r].pc # "none" /\ proc[r].parent = x
               /\ proc[r].pc # "none" /\ proc[r].parent = x /\ x # q
                    => proc'[r].pc # "none" /\ proc'[r].parent = x
    <3>1. CASE r = q
      BY <1>1, <1>3, <1>4, <3>1
    <3>2. CASE r \in Children(q)
      <4>1. proc[r].parent = q /\ proc'[r].pc = "none"
        BY <1>5, <3>2 DEF Children
      <4> QED
        BY <4>1
    <3>3. CASE r # q /\ r \notin Children(q)
      <4>1. proc'[r].pc = proc[r].pc /\ (proc[r].pc # "none" => proc'[r] = proc[r] /\ proc[r].parent # q)
        BY <1>6, <3>3
      <4> QED
        BY <4>1
    <3> QED
      BY <3>1, <3>2, <3>3
  <2>2. ASSUME NEW x \in Pids PROVE Children(x)' = IF x = q THEN {} ELSE Children(x)
    BY <2>1 DEF Children
  <2> QED
    BY <2>2
<1>9. Exact'
  <2> SUFFICES ASSUME NEW x \in Pids PROVE Cardinality(Children(x)') <= Due(x)'
    BY DEF Exact
  <2>1. CASE x = q
    <3>1. Due(x)' = 0
      BY <1>4, <2>1 DEF Due
    <3> QED
      BY <1>8, <2>1, <3>1, FS_EmptySet
  <2>2. CASE x \in Children(q)
    <3>1. x \in Pids /\ x # q /\ Children(x) = {} /\ proc'[x].pc = "none"
      BY <1>5, <2>2
    <3>2. Children(x)' = {}
      BY <1>8, <3>1
    <3>3. Due(x)' = 0
      BY <3>1 DEF Due
    <3> QED
      BY <3>2, <3>3, FS_EmptySet
  <2>3. CASE x # q /\ x \notin Children(q)
    <3>1. Children(x)' = Children(x)
      BY <1>8, <2>3
    <3>2. Due(x)' = Due(x)
      BY <1>6, <2>3 DEF Due
    <3>3. Cardinality(Children(x)) <= Due(x)
      BY <1>1 DEF Exact
    <3> QED
      BY <3>1, <3>2, <3>3
  <2> QED
    BY <2>1, <2>2, <2>3
<1>10. Reached'
  <2> SUFFICES ASSUME NEW C \in SUBSET Pids, main \in C,
                      \A x \in C : Children(x)' \subseteq C, NEW y \in Pids \ C
               PROVE  proc'[y].pc = "none"
    BY DEF Reached
  <2>1. Children(q) \subseteq Pids
    BY SomePids
  <2>2. C \cup Children(q) \in SUBSET Pids /\ main \in C \cup Children(q)
    BY <2>1
  <2>3. \A x \in C \cup Children(q) : Children(x) \subseteq C \cup Children(q)
    <3> TAKE x \in C \cup Children(q)
    <3>1. CASE x = q
      BY <3>1
    <3>2. CASE x \in Children(q)
      BY <1>5, <3>2
    <3>3. CASE x # q /\ x \notin Children(q)
      BY <1>8, <2>2, <3>3
    <3> QED
      BY <3>1, <3>2, <3>3
  <2>4. \A x \in Pids \ (C \cup Children(q)) : proc[x].pc = "none"
    <3>1. PICK D \in SUBSET Pids : D = C \cup Children(q)
      BY <2>2
    <3>2. main \in D /\ \A x \in D : Children(x) \subseteq D
      BY <2>2, <2>3, <3>1
    <3>3. \A x \in Pids \ D : proc[x].pc = "none"
      BY <1>1, <3>2, Zenon DEF Reached
    <3> QED
      BY <3>1, <3>3
  <2>5. CASE y \in Children(q)
    BY <1>5, <2>5
  <2>6. CASE y \notin Children(q)
    <3>1. proc[y].pc = "none"
      BY <2>4, <2>6
    <3>2. y # q
      BY <1>1, <3>1
    <3> QED
      BY <1>6, <2>6, <3>1, <3>2
  <2> QED
    BY <2>5, <2>6
<1>11. Placed'
  <2> SUFFICES ASSUME NEW x \in Pids \ {main}
               PROVE  /\ proc'[x].pc # "none" => proc'[x].parent \in Pids \ {x}
                      /\ proc'[x].pc = "program" => Len(proc'[proc'[x].parent].cmd) = 1
                      /\ proc'[x].pc \in Pipeliners => Len(proc'[proc'[x].parent].cmd) > 1
    BY DEF Placed
  <2>1. CASE x = q
    BY <1>3, <1>4, <2>1 DEF Pipeliners
  <2>2. CASE x \in Children(q)
    BY <1>5, <2>2 DEF Pipeliners
  <2>3. CASE x # q /\ x \notin Children(q) /\ proc[x].pc = "none"
    BY <1>6, <2>3 DEF Pipeliners
  <2>4. CASE x # q /\ x \notin Children(q) /\ proc[x].pc # "none"
    <3>1. proc'[x] = proc[x] /\ proc[x].parent # q
      BY <1>6, <2>4
    <3>2. /\ proc[x].parent \in Pids \ {x}
          /\ proc[x].pc = "program" => Len(proc[proc[x].parent].cmd) = 1
          /\ proc[x].pc \in Pipeliners => Len(proc[proc[x].parent].cmd) > 1
      BY <1>1, <2>4 DEF Placed
    <3>3. x \in Children(proc[x].parent)
      BY <2>4 DEF Children
    <3>4. proc[x].parent \notin Children(q)
      BY <1>5, <3>3
    <3>5. proc'[proc[x].parent].cmd = proc[proc[x].parent].cmd
      BY <1>6, <3>1, <3>2, <3>4
    <3> QED
      BY <3>1, <3>2, <3>5
  <2> QED
    BY <2>1, <2>2, <2>3, <2>4
<1>12. Holding'
  <2> SUFFICES ASSUME NEW x \in Pids
               PROVE  /\ proc'[x].held = IF proc'[x].pc \in Piping THEN Ends(proc'[x].pfd) ELSE {}
                      /\ proc'[x].pc \in Piping => proc'[x].in # proc'[x].pfd /\ proc'[x].out # proc'[x].pfd
    BY DEF Holding
  <2>1. /\ proc[x].held = IF proc[x].pc \in Piping THEN Ends(proc[x].pfd) ELSE {}
        /\ proc[x].pc \in Piping => proc[x].in # proc[x].pfd /\ proc[x].out # proc[x].pfd
    BY <1>1 DEF Holding
  <2>2. CASE x = q
    BY <1>4, <2>2 DEF Piping
  <2>3. CASE x \in Children(q)
    BY <1>5, <2>3, ZenonT(60) DEF Piping
  <2>4. CASE x # q /\ x \notin Children(q) /\ proc[x].pc = "none"
    BY <1>6, <2>1, <2>4, ZenonT(60) DEF Piping
  <2>5. CASE x # q /\ x \notin Children(q) /\ proc[x].pc # "none"
    BY <1>6, <2>1, <2>5
  <2> QED
    BY <2>2, <2>3, <2>4, <2>5
<1>13. Alone'
  <2>1. ASSUME NEW x \in Pids, NEW p \in Pipes
        PROVE  (UsesIn(x, p)' => UsesIn(x, p)) /\ (UsesOut(x, p)' => UsesOut(x, p))
    <3>1. \/ proc'[x].pc \in {"none", "zombie"}
          \/ proc'[x] = proc[x]
      BY <1>4, <1>5, <1>6
    <3> QED
      BY <3>1 DEF UsesIn, UsesOut
  <2> QED
    BY <1>1, <2>1 DEF Alone
<1>14. ASSUME NEW x \in Pids
       PROVE  Carries(x)' <=> IF x = q THEN CarriedBy(q, code)
                              ELSE x \notin Children(q) /\ Carries(x)
  <2>1. CASE x = q
    BY <1>4, <1>7, <2>1 DEF Carries, CarriedBy
  <2>2. CASE x \in Children(q)
    BY <1>5, <2>2 DEF Carries
  <2>3. CASE x # q /\ x \notin Children(q) /\ proc[x].pc = "none"
    BY <1>6, <2>3 DEF Carries
  <2>4. CASE x # q /\ x \notin Children(q) /\ proc[x].pc # "none"
    <3>1. proc'[x] = proc[x]
      BY <1>6, <2>4
    <3> QED
      BY <1>7, <2>4, <3>1 DEF Carries
  <2> QED
    BY <2>1, <2>2, <2>3, <2>4
<1> QED
  BY <1>7, <1>9, <1>10, <1>11, <1>12, <1>13, <1>14 DEF DieCalm

\* The end of a process whose children have ended keeps the invariant, if
\* asked goes with what is carried.
DieAsked(q, code) ==
  /\ asked => asked'
  /\ proc[main].pc \notin {"ended", "crashed"} =>
       (asked' <=> CarriedBy(q, code) \/ \E x \in Pids : x # q /\ x \notin Children(q) /\ Carries(x))
LEMMA DieKeeps ==
  ASSUME IInv, NEW q \in Pids, NEW code \in {0, 255}, DieGiven(q, code),
         fails' = 0 => /\ fails = 0 /\ (\A x \in Children(q) : proc[x].pc = "zombie")
                       /\ DieAsked(q, code)
  PROVE  IInv'
<1>1. Typed' /\ (\A x \in Pids : Shape(x)') /\ Enough'
  BY Died DEF DieDone
<1>2. ASSUME fails' = 0 PROVE Calm'
  <2>1. Calm /\ (\A x \in Children(q) : proc[x].pc = "zombie") /\ DieAsked(q, code)
    BY <1>2 DEF IInv
  <2>2. DieCalm(q, code)
    BY <2>1, DiedCalm
  <2>3. /\ Exact' /\ Reached' /\ Placed' /\ Holding' /\ Alone' /\ proc'[main] = proc[main]
        /\ \A x \in Pids : Carries(x)' <=> IF x = q THEN CarriedBy(q, code)
                                           ELSE x \notin Children(q) /\ Carries(x)
    BY <2>2 DEF DieCalm
  <2>4. (\E x \in Pids : Carries(x)')
          <=> (CarriedBy(q, code) \/ \E x \in Pids : x # q /\ x \notin Children(q) /\ Carries(x))
    BY <2>3
  <2>5. Wished'
    <3>1. proc[main].pc = "ended" => asked
      BY <2>1 DEF Calm, Wished
    <3>2. /\ proc'[main].pc \notin {"ended", "crashed"} => (asked' <=> \E x \in Pids : Carries(x)')
          /\ proc'[main].pc = "ended" => asked'
      BY <2>1, <2>3, <2>4, <3>1 DEF DieAsked
    <3> QED
      BY <3>2 DEF Wished
  <2> QED
    BY <2>3, <2>5 DEF Calm
<1> QED
  BY <1>1, <1>2 DEF IInv

\* The same for a process without children.
LEMMA ChildlessDies ==
  ASSUME IInv, NEW q \in Pids, NEW code \in {0, 255}, DieGiven(q, code),
         proc[q].pc \in {"run", "program"}, fails' = fails,
         asked' \in BOOLEAN, fails = 0 => (asked' <=> asked \/ CarriedBy(q, code))
  PROVE  IInv'
<1>1. ASSUME fails = 0
      PROVE  (\A x \in Children(q) : proc[x].pc = "zombie") /\ DieAsked(q, code)
  <2>1. Exact /\ Wished /\ asked \in BOOLEAN
    BY <1>1 DEF IInv, Calm, Typed
  <2>2. Children(q) = {}
    <3>1. Due(q) = 0
      BY DEF Due
    <3> QED
      BY <2>1, <3>1, Childless
  <2>3. ~Carries(q)
    BY DEF Carries
  <2>4. (\E x \in Pids : Carries(x)) <=> (\E x \in Pids : x # q /\ x \notin Children(q) /\ Carries(x))
    BY <2>2, <2>3
  <2>5. asked' <=> asked \/ CarriedBy(q, code)
    BY <1>1
  <2>6. proc[main].pc \notin {"ended", "crashed"} => (asked <=> \E x \in Pids : Carries(x))
    BY <2>1 DEF Wished
  <2>7. DieAsked(q, code)
    BY <2>4, <2>5, <2>6, Zenon DEF DieAsked
  <2> QED
    BY <2>2, <2>7
<1> QED
  BY <1>1, DieKeeps

\* What is carried by a process that ends with 0.
LEMMA NothingCarried == \A q \in Pids : ~CarriedBy(q, 0)
BY DEF CarriedBy

\* A program that ends with 0, in whatever way.
LEMMA ProgramDies ==
  ASSUME IInv, NEW q \in Pids, proc[q].pc = "program", Dies(q, 0),
         UNCHANGED <<eof, recycled, garbage, asked, fails, later>>
  PROVE  IInv'
<1>1. FlagsTyped' /\ asked' = asked /\ asked' \in BOOLEAN /\ fails' = fails
  BY DEF IInv, Typed, FlagsTyped
<1>2. q # main
  BY DEF IInv, Shape, Parent
<1>3. DieGiven(q, 0)
  BY <1>1, <1>2 DEF DieGiven
<1>4. asked' <=> asked \/ CarriedBy(q, 0)
  <2>1. ~CarriedBy(q, 0)
    BY NothingCarried
  <2>2. asked \in BOOLEAN
    BY DEF IInv, Typed
  <2> QED
    BY <1>1, <2>1, <2>2
<1> QED
  BY <1>1, <1>3, <1>4, ChildlessDies

\* All the ways but exit().
LEMMA ProgramsKeep ==
  ASSUME NEW q \in Pids
  PROVE  IInv /\ (ProgramFails(q) \/ InputEnds(q) \/ TerminalEnds(q) \/ BrokenPipe(q)) => IInv'
BY ProgramDies DEF ProgramFails, InputEnds, TerminalEnds, BrokenPipe, Program, At, history

\* exit(): a status of 255 is a wish only inside a pipeline.
LEMMA ProgramExitsKeeps == ASSUME NEW q \in Pids PROVE IInv /\ ProgramExits(q) => IInv'
<1> SUFFICES ASSUME IInv, ProgramExits(q) PROVE IInv'
  OBVIOUS
<1>1. PICK code \in {0, 255} :
        Dies(q, code) /\ asked' = (asked \/ (code = 255 /\ proc[q].parent \notin {main, nobody}))
  BY DEF ProgramExits
<1>2. /\ proc[q].pc = "program" /\ eof' = eof /\ recycled' = recycled /\ garbage' = garbage
      /\ fails' = fails /\ later' = later
  BY DEF ProgramExits, Program, At
<1>3. q # main
  BY <1>2 DEF IInv, Shape, Parent
<1>4. asked' \in BOOLEAN /\ FlagsTyped'
  BY <1>1, <1>2 DEF IInv, Typed, FlagsTyped
<1>5. DieGiven(q, code)
  BY <1>1, <1>2, <1>3, <1>4 DEF DieGiven
<1>6. ASSUME fails = 0 PROVE asked' <=> asked \/ CarriedBy(q, code)
  <2>1. Placed
    BY <1>6 DEF IInv, Calm
  <2>2. proc[q].parent \in Pids /\ Len(proc[proc[q].parent].cmd) = 1
    BY <1>2, <1>3, <2>1 DEF Placed
  <2>3. CarriedBy(q, code) <=> (code = 255 /\ proc[q].parent \notin {main, nobody})
    <3>1. CASE proc[q].parent = main
      <4>1. Len(proc[main].cmd) = 1
        BY <2>2, <3>1, Zenon
      <4> QED
        BY <3>1, <4>1 DEF CarriedBy
    <3>2. CASE proc[q].parent # main
      <4>1. proc[q].parent # nobody
        BY <2>2, Numbers
      <4> QED
        BY <3>2, <4>1 DEF CarriedBy
    <3> QED
      BY <3>1, <3>2
  <2> QED
    BY <1>1, <2>3, Zenon
<1> QED
  BY <1>2, <1>4, <1>5, <1>6, ChildlessDies

\* The NULL command is never one of main itself.
LEMMA RunNullKeeps == ASSUME NEW q \in Pids PROVE IInv /\ RunNull(q) => IInv'
<1> SUFFICES ASSUME IInv, RunNull(q) PROVE IInv'
  OBVIOUS
<1> USE DEF history
<1>1. /\ proc[q].pc = "run" /\ Len(proc[q].cmd) = 1 /\ proc[q].cmd[1] = "badredir" /\ Dies(q, 0)
      /\ UNCHANGED <<eof, recycled, garbage, asked, fails, later>>
  BY DEF RunNull, Runs
<1>2. proc[q].cmd \in Seq(Kinds) /\ Shape(q)
  BY Fields DEF IInv, Typed
<1>3. proc[q].cmd = <<"badredir">>
  BY <1>1, <1>2
<1>4. q # main
  BY <1>1, <1>2, <1>3 DEF Shape
<1>5. FlagsTyped' /\ asked' = asked /\ asked' \in BOOLEAN /\ fails' = fails
  BY <1>1 DEF IInv, Typed, FlagsTyped
<1>6. DieGiven(q, 0)
  BY <1>1, <1>4, <1>5 DEF DieGiven
<1>7. asked' <=> asked \/ CarriedBy(q, 0)
  <2>1. ~CarriedBy(q, 0)
    BY NothingCarried
  <2>2. asked \in BOOLEAN
    BY DEF IInv, Typed
  <2> QED
    BY <1>5, <2>1, <2>2
<1> QED
  BY <1>1, <1>5, <1>6, <1>7, ChildlessDies

-----------------------------------------------------------------------------
(* The shell itself                                                        *)

\* Only main is left, at the prompt, past the end, or about to run a line.
Settles ==
  /\ proc'[main].pc \in {"prompt", "ended", "crashed", "run"} /\ proc'[main].held = {}
  /\ \A x \in Pids : x # main => proc'[x].pc = "none" /\ proc'[x].held = {}
  /\ proc'[main].pc = "ended" => asked'
  /\ proc'[main].pc \in {"prompt", "run"} => ~asked'
LEMMA Settled ==
  ASSUME Typed', Shape(main)', Settles
  PROVE  Calm'
<1>1. \A x \in Pids : Children(x)' = {}
  <2> SUFFICES ASSUME NEW x \in Pids, NEW r \in Pids PROVE ~(proc'[r].pc # "none" /\ proc'[r].parent = x)
    BY DEF Children
  <2>1. CASE r = main
    BY <2>1, Numbers DEF Shape
  <2>2. CASE r # main
    BY <2>2 DEF Settles
  <2> QED
    BY <2>1, <2>2
<1>2. Exact'
  <2>1. \A x \in Pids : Due(x)' \in Nat
    BY Fields DEF Typed, Due
  <2>2. \A x \in Pids : Cardinality(Children(x)') = 0
    BY <1>1, FS_EmptySet
  <2> QED
    BY <2>1, <2>2 DEF Exact
<1>3. Reached'
  BY DEF Reached, Settles
<1>4. Placed'
  BY DEF Placed, Settles, Pipeliners
<1>5. Holding'
  BY DEF Holding, Settles, Piping
<1>6. Alone'
  <2>1. ASSUME NEW x \in Pids, NEW p \in Pipes PROVE ~UsesIn(x, p)' /\ ~UsesOut(x, p)'
    <3>1. CASE x = main
      <4>1. proc'[main].in = 0 /\ proc'[main].out = 0
        BY DEF Shape
      <4> QED
        BY <3>1, <4>1, Numbers DEF Settles, UsesIn, UsesOut
    <3>2. CASE x # main
      BY <3>2 DEF Settles, UsesIn, UsesOut
    <3> QED
      BY <3>1, <3>2
  <2> QED
    BY <2>1 DEF Alone
<1>7. Wished'
  <2>1. \A x \in Pids : ~Carries(x)'
    BY DEF Settles, Carries
  <2>2. /\ proc'[main].pc = "ended" => asked'
        /\ proc'[main].pc \notin {"ended", "crashed"} => ~asked'
    BY DEF Settles
  <2> QED
    BY <2>1, <2>2 DEF Wished
<1> QED
  BY <1>2, <1>3, <1>4, <1>5, <1>6, <1>7 DEF Calm

\* Between two lines nothing but main is there.
LEMMA Quiet ==
  ASSUME Calm, NEW R \in SUBSET Pids, Children(main) \subseteq R, \A x \in R : Due(x) = 0
  PROVE  \A x \in Pids : x # main /\ x \notin R => proc[x].pc = "none" /\ proc[x].held = {}
<1>1. \A x \in Pids : x # main /\ x \notin R => proc[x].pc = "none"
  BY NothingElse DEF Calm
<1>2. Holding
  BY DEF Calm
<1> QED
  BY <1>1, <1>2 DEF Holding, Piping

\* The shell reads its next line.
LEMMA ObeyKeeps ==
  ASSUME IInv, proc[main].pc = "prompt", NEW line \in Seq(Kinds), line # <<>>, Obey(line),
         eof' \in BOOLEAN
  PROVE  IInv'
<1>1. /\ proc \in [Pids -> Procs] /\ proc[main] \in Procs /\ Shape(main) /\ main \in Pids
      /\ recycled \in BOOLEAN /\ fails \in 0 .. MaxFails /\ later \in 0 .. MaxLater
  BY Numbers DEF IInv, Typed
<1>2. /\ asked' = (line[1] = "exit") /\ garbage' \in {FALSE, recycled}
      /\ (fails > 0 => later < MaxLater) /\ later' = (IF fails > 0 THEN later + 1 ELSE later)
      /\ recycled' = recycled /\ fails' = fails
  BY DEF Obey
<1>3. FlagsTyped'
  <2>1. later' \in 0 .. MaxLater
    BY <1>1, <1>2, Numbers
  <2>2. asked' \in BOOLEAN /\ garbage' \in BOOLEAN /\ recycled' \in BOOLEAN
    BY <1>1, <1>2
  <2> QED
    BY <1>1, <1>2, <2>1, <2>2 DEF FlagsTyped
<1>4. PICK pc \in {"prompt", "ended", "crashed", "run"}, cmd \in {line, proc[main].cmd} :
        /\ proc' = [proc EXCEPT ![main] = [proc[main] EXCEPT !.pc = pc, !.cmd = cmd]]
        /\ pc = "ended" <=> line[1] = "exit"
        /\ pc = "run" => cmd = line /\ line # <<"badredir">>
  <2>1. CASE line[1] = "exit" /\ Stops("ended")
    <3>1. proc' = [proc EXCEPT ![main] = [proc[main] EXCEPT !.pc = "ended", !.cmd = proc[main].cmd]]
      BY <1>1, <2>1, ZenonT(60) DEF Stops, Update, Procs
    <3> QED
      BY <2>1, <3>1
  <2>2. CASE line = <<"empty">> /\ Update(main, [proc[main] EXCEPT !.cmd = line])
    <3>1. proc' = [proc EXCEPT ![main] = [proc[main] EXCEPT !.pc = "prompt", !.cmd = line]]
      <4>1. [proc[main] EXCEPT !.cmd = line] = [proc[main] EXCEPT !.pc = "prompt", !.cmd = line]
        BY <1>1, ZenonT(60) DEF Procs
      <4> QED
        BY <2>2, <4>1 DEF Update
    <3>2. line[1] # "exit"
      BY <2>2
    <3> QED
      BY <3>1, <3>2
  <2>3. CASE line[1] # "exit" /\ Stops("crashed")
    <3>1. proc' = [proc EXCEPT ![main] = [proc[main] EXCEPT !.pc = "crashed", !.cmd = proc[main].cmd]]
      BY <1>1, <2>3, ZenonT(60) DEF Stops, Update, Procs
    <3> QED
      BY <2>3, <3>1
  <2>4. CASE /\ line[1] # "exit" /\ line # <<"badredir">>
             /\ Update(main, [proc[main] EXCEPT !.pc = "run", !.cmd = line])
    <3>1. proc' = [proc EXCEPT ![main] = [proc[main] EXCEPT !.pc = "run", !.cmd = line]]
      BY <2>4 DEF Update
    <3> QED
      BY <2>4, <3>1
  <2> QED
    BY <2>1, <2>2, <2>3, <2>4 DEF Obey
<1>5. PICK new : new = [proc[main] EXCEPT !.pc = pc, !.cmd = cmd]
  OBVIOUS
<1>6. /\ new \in Procs /\ new.pc = pc /\ new.cmd = cmd /\ new.held = proc[main].held
      /\ new.parent = proc[main].parent /\ new.in = proc[main].in /\ new.out = proc[main].out
  <2>1. pc \in States /\ cmd \in Seq(Kinds)
    BY <1>1, Fields DEF States
  <2> QED
    BY <1>1, <1>5, <2>1, ZenonT(60) DEF Procs
<1>7. proc' = [proc EXCEPT ![main] = new] /\ proc'[main] = new
  BY <1>1, <1>4, <1>5
<1>8. Shape(main)'
  BY <1>1, <1>4, <1>6, <1>7 DEF Shape, Parent, Piping
<1>9. MoveGiven(main, new)
  <2>1. Due(main)' = Due(main)
    BY <1>6, <1>7 DEF Due
  <2> QED
    BY <1>3, <1>6, <1>7, <1>8, <2>1 DEF MoveGiven
<1>10. MoveDone(main, new)
  BY <1>1, <1>6, <1>9, Moved
<1>11. ASSUME fails = 0 PROVE Calm'
  <2>1. Calm /\ Holding
    BY <1>11 DEF IInv, Calm
  <2>2. proc[main].held = {}
    BY <1>1, <2>1 DEF Holding, Piping
  <2>3. Children(main) = {}
    <3>1. Due(main) = 0
      BY DEF Due
    <3> QED
      BY <1>1, <2>1, <3>1, Childless DEF Calm
  <2>4. \A x \in Pids : x # main => proc[x].pc = "none" /\ proc[x].held = {}
    BY <2>1, <2>3, Quiet
  <2>5. Settles
    BY <1>2, <1>4, <1>6, <1>7, <1>10, <2>2, <2>4 DEF Settles, MoveDone
  <2> QED
    BY <1>8, <1>10, <2>5, Settled DEF MoveDone
<1> QED
  BY <1>2, <1>10, <1>11 DEF IInv, MoveDone

LEMMA ReadLineKeeps == IInv /\ ReadLine => IInv'
<1> SUFFICES ASSUME IInv, ReadLine PROVE IInv'
  OBVIOUS
<1>1. PICK line \in Lines : Obey(line)
  BY DEF ReadLine
<1>2. line \in Seq(Kinds) /\ line # <<>>
  BY Numbers
<1>3. eof' \in BOOLEAN
  BY DEF IInv, Typed, ReadLine
<1> QED
  BY <1>1, <1>2, <1>3, ObeyKeeps DEF ReadLine

LEMMA ReadEofKeeps == IInv /\ ReadEof => IInv'
<1> SUFFICES ASSUME IInv, ReadEof PROVE IInv'
  OBVIOUS
<1>1. proc[main].cmd \in Seq(Kinds) /\ proc[main].cmd # <<>>
  BY Numbers, Fields DEF IInv, Typed, ReadEof
<1>2. PICK word : word = FirstWord(proc[main].cmd[1])
  OBVIOUS
<1>3. word \in Kinds
  <2>1. proc[main].cmd[1] \in Kinds
    BY <1>1
  <2> QED
    BY <1>2, <2>1 DEF FirstWord, Kinds, Programs
<1>4. PICK line : line = <<word>>
  OBVIOUS
<1>5. line \in Seq(Kinds) /\ line # <<>>
  BY <1>3, <1>4
<1>6. Obey(line) /\ eof' \in BOOLEAN
  BY <1>2, <1>4 DEF ReadEof
<1> QED
  BY <1>5, <1>6, ObeyKeeps DEF ReadEof

\* The shell has the result of its command, after it has waited for reaped.
MainGiven(result, reaped) ==
  /\ ResultAfter(main, result, reaped)
  /\ proc[main].pc \in {"run", "wait", "piped", "half"}
  /\ reaped \subseteq Children(main)
  /\ eof' = eof /\ later' = later /\ asked' \in BOOLEAN /\ fails' \in 0 .. MaxFails
  /\ fails' = 0 => /\ fails = 0 /\ proc[main].pc \in {"run", "wait"}
                   /\ Children(main) \subseteq reaped /\ \A x \in reaped : proc[x].pc = "zombie"
                   /\ asked' <=> result = -1
LEMMA MainKeeps ==
  ASSUME IInv, NEW result, NEW reaped \in SUBSET Pids, MainGiven(result, reaped)
  PROVE  IInv'
<1>1. /\ proc \in [Pids -> Procs] /\ proc[main] \in Procs /\ main \in Pids /\ Enough
      /\ (\A x \in Pids : Shape(x)) /\ recycled \in BOOLEAN
      /\ proc[main].parent = nobody /\ proc[main].in = 0 /\ proc[main].out = 0
      /\ reaped \subseteq Children(main) /\ proc[main].pc \in {"run", "wait", "piped", "half"}
  BY Numbers DEF IInv, Typed, MainGiven, Shape
<1>2. \A x \in reaped : x # main /\ proc[x].parent = main
  BY <1>1, Numbers DEF Children
<1>3. PICK how \in {"prompt", "ended", "crashed"} :
        /\ proc' = [r \in Pids |-> IF r \in reaped THEN NoProc
                                   ELSE IF r # main THEN proc[r]
                                   ELSE [proc[main] EXCEPT
                                           !.waits = 0, !.bad = FALSE, !.pfd = 0, !.pc = how]]
        /\ how = "ended" <=> result = -1
  <2>1. PICK how \in IF result = -1 THEN {"ended"} ELSE AfterRelease(proc[main].cmd) :
          proc' = [r \in Pids |-> IF r \in reaped THEN NoProc
                                  ELSE IF r # main THEN proc[r]
                                  ELSE [proc[main] EXCEPT
                                          !.waits = 0, !.bad = FALSE, !.pfd = 0, !.pc = how]]
    BY DEF MainGiven, ResultAfter
  <2>2. how \in {"prompt", "ended", "crashed"} /\ (how = "ended" <=> result = -1)
    BY <2>1 DEF AfterRelease
  <2> QED
    BY <2>1, <2>2
<1>4. PICK new : new = [proc[main] EXCEPT !.waits = 0, !.bad = FALSE, !.pfd = 0, !.pc = how]
  OBVIOUS
<1>5. /\ new \in Procs /\ new.pc = how /\ new.parent = nobody
      /\ new.held = proc[main].held /\ new.in = 0 /\ new.out = 0
  <2>1. proc[main] = Fielded(proc[main])
    BY <1>1, AllFields
  <2>2. new = [Fielded(proc[main]) EXCEPT !.waits = 0, !.bad = FALSE, !.pfd = 0, !.pc = how]
    BY <1>4, <2>1
  <2>3. new = [pc |-> how, parent |-> proc[main].parent, cmd |-> proc[main].cmd,
               in |-> proc[main].in, out |-> proc[main].out, held |-> proc[main].held,
               pfd |-> 0, waits |-> 0, bad |-> FALSE, code |-> proc[main].code]
    BY <2>2 DEF Fielded
  <2>4. how \in States
    BY DEF States
  <2>5. new \in Procs
    BY <1>1, <2>3, <2>4, Fields DEF Procs
  <2> QED
    BY <1>1, <2>3, <2>5
<1>6. /\ proc'[main] = new
      /\ \A x \in reaped : proc'[x] = NoProc
      /\ \A x \in Pids : x # main /\ x \notin reaped => proc'[x] = proc[x]
      /\ proc' \in [Pids -> Procs]
  <2>1. proc'[main] = new
    BY <1>1, <1>2, <1>3, <1>4
  <2>2. \A x \in reaped : proc'[x] = NoProc
    BY <1>3
  <2>3. \A x \in Pids : x # main /\ x \notin reaped => proc'[x] = proc[x]
    BY <1>3
  <2>4. \A x \in Pids : proc'[x] \in Procs
    BY <1>1, <1>5, <2>1, <2>2, <2>3, Missing
  <2>5. proc' = [r \in Pids |-> proc'[r]]
    BY <1>3
  <2> QED
    BY <2>1, <2>2, <2>3, <2>4, <2>5
<1>7. Typed'
  <2>1. /\ recycled' = (recycled \/ "tofile" \in Range(proc[main].cmd)) /\ garbage' = FALSE
        /\ eof' = eof /\ later' = later /\ asked' \in BOOLEAN /\ fails' \in 0 .. MaxFails
    BY DEF MainGiven, ResultAfter
  <2>2. recycled' \in BOOLEAN /\ garbage' \in BOOLEAN
    BY <2>1
  <2>3. eof' \in BOOLEAN /\ later' \in 0 .. MaxLater
    BY <2>1 DEF IInv, Typed
  <2> QED
    BY <1>6, <2>1, <2>2, <2>3 DEF Typed
<1>8. ASSUME NEW x \in Pids PROVE Shape(x)'
  <2>1. CASE x = main
    BY <1>5, <1>6, <2>1, Numbers DEF Shape, Parent, Piping
  <2>2. CASE x \in reaped
    BY <1>2, <1>6, <2>2, Missing DEF Shape, Piping
  <2>3. CASE x # main /\ x \notin reaped
    BY <1>1, <1>6, <2>3 DEF Shape
  <2> QED
    BY <2>1, <2>2, <2>3
<1>9. Enough'
  <2> SUFFICES ASSUME NEW x \in Pids PROVE Cardinality(Children(x)') >= Due(x)'
    BY DEF Enough
  <2>1. Children(x)' \subseteq Pids
    BY DEF Children
  <2>2. Cardinality(Children(x)') \in Nat
    BY <2>1, Numbers, FS_Subset, FS_CardinalityType
  <2>3. CASE x = main \/ x \in reaped
    <3>1. proc'[x].pc \in {"none", "prompt", "ended", "crashed"}
      BY <1>5, <1>6, <2>3, Missing
    <3>2. Due(x)' = 0
      BY <3>1 DEF Due
    <3> QED
      BY <2>2, <3>2
  <2>4. CASE x # main /\ x \notin reaped
    <3>1. Due(x)' = Due(x)
      BY <1>6, <2>4 DEF Due
    <3>2. ASSUME NEW r \in Pids
          PROVE  (proc'[r].pc # "none" /\ proc'[r].parent = x) <=> (proc[r].pc # "none" /\ proc[r].parent = x)
      <4>1. CASE r = main
        BY <1>1, <1>5, <1>6, <4>1, Numbers
      <4>2. CASE r \in reaped
        BY <1>2, <1>6, <2>4, <4>2, Missing
      <4>3. CASE r # main /\ r \notin reaped
        BY <1>6, <4>3
      <4> QED
        BY <4>1, <4>2, <4>3
    <3>3. Children(x)' = Children(x)
      BY <3>2 DEF Children
    <3> QED
      BY <1>1, <3>1, <3>3 DEF Enough
  <2> QED
    BY <2>3, <2>4
<1>10. ASSUME fails' = 0 PROVE Calm'
  <2>1. /\ fails = 0 /\ proc[main].pc \in {"run", "wait"} /\ Children(main) \subseteq reaped
        /\ \A x \in reaped : proc[x].pc = "zombie"
        /\ asked' <=> result = -1
    BY <1>10 DEF MainGiven
  <2>2. Calm /\ Holding
    BY <2>1 DEF IInv, Calm
  <2>3. \A x \in reaped : Due(x) = 0
    BY <2>1 DEF Due
  <2>4. \A x \in Pids : x # main /\ x \notin reaped => proc[x].pc = "none" /\ proc[x].held = {}
    BY <2>1, <2>2, <2>3, Quiet
  <2>5. \A x \in Pids : x # main => proc'[x].pc = "none" /\ proc'[x].held = {}
    BY <1>6, <2>4, Missing
  <2>6. proc'[main].held = {}
    BY <1>1, <1>5, <1>6, <2>1, <2>2 DEF Holding, Piping
  <2>7. Settles
    BY <1>3, <1>5, <1>6, <2>1, <2>5, <2>6 DEF Settles
  <2>8. Shape(main)'
    BY <1>1, <1>8
  <2> QED
    BY <1>7, <2>7, <2>8, Settled
<1> QED
  BY <1>7, <1>8, <1>9, <1>10 DEF IInv

\* exit() keeps the low eight bits of a result.
LEMMA Statuses ==
  Status(0) = 0 /\ Status(1) = 0 /\ Status(-1) = 255 /\ Status(255) = 255
<1>1. 0 % 256 = 0 /\ 1 % 256 = 1
  OBVIOUS
<1>2. 255 % 256 = 255
  OBVIOUS
<1>3. -1 % 256 = 255
  <2>1. \A x \in Int : (x + 256) % 256 = x % 256
    OBVIOUS
  <2>2. PICK m \in Int : m = -1
    OBVIOUS
  <2>3. PICK n \in Int : n = m + 256
    OBVIOUS
  <2>4. n = 255
    BY <2>2, <2>3
  <2>5. m % 256 = n % 256
    BY <2>1, <2>3
  <2>6. m % 256 = 255
    BY <1>2, <2>4, <2>5, ZenonT(60)
  <2> QED
    BY <2>2, <2>6, Zenon
<1> QED
  <2>1. 255 # 0 /\ 255 # 1
    OBVIOUS
  <2> QED
    BY <1>1, <1>2, <1>3, <2>1, ZenonT(60) DEF Status

\* A shell that runs a command, or has asked its last child, has no carrier
\* besides these.
LEMMA OnlyTheseCarry ==
  ASSUME IInv, Calm, NEW R \in SUBSET Pids, Children(main) \subseteq R,
         \A x \in R : Due(x) = 0, proc[main].pc \in {"run", "wait"}
  PROVE  asked <=> \E x \in R \cup {main} : Carries(x)
<1>1. \A x \in Pids : x # main /\ x \notin R => proc[x].pc = "none"
  BY Quiet
<1>2. \A x \in Pids : x # main /\ x \notin R => ~Carries(x)
  BY <1>1 DEF Carries
<1>3. asked <=> \E x \in Pids : Carries(x)
  BY DEF Calm, Wished
<1> QED
  BY <1>2, <1>3, Numbers

\* cd.
LEMMA ChangeDirKeeps == ASSUME NEW q \in Pids PROVE IInv /\ ChangeDir(q) => IInv'
<1> SUFFICES ASSUME IInv, ChangeDir(q) PROVE IInv'
  OBVIOUS
<1> USE DEF history
<1>1. /\ proc[q].pc = "run" /\ ResultAfter(q, 0, {})
      /\ eof' = eof /\ asked' = asked /\ fails' = fails /\ later' = later
      /\ asked \in BOOLEAN /\ fails \in 0 .. MaxFails
  BY DEF ChangeDir, Runs, Result, IInv, Typed
<1>2. CASE q # main
  <2>1. Dies(q, 0) /\ recycled' = recycled /\ garbage' = garbage
    BY <1>1, <1>2, Statuses DEF ResultAfter
  <2>2. FlagsTyped'
    BY <1>1, <2>1 DEF IInv, Typed, FlagsTyped
  <2>3. DieGiven(q, 0)
    BY <1>1, <1>2, <2>1, <2>2 DEF DieGiven
  <2>4. ~CarriedBy(q, 0)
    BY NothingCarried
  <2>5. asked' <=> asked \/ CarriedBy(q, 0)
    BY <1>1, <2>4
  <2> QED
    BY <1>1, <2>3, <2>5, ChildlessDies
<1>3. CASE q = main
  <2>1. ASSUME fails = 0 PROVE ~asked /\ Children(main) \subseteq {}
    <3>1. Calm
      BY <2>1 DEF IInv
    <3>2. Due(main) = 0
      BY <1>1, <1>3 DEF Due
    <3>3. Children(main) = {}
      BY <3>1, <3>2, Childless, Numbers DEF Calm
    <3>4. asked <=> \E x \in {} \cup {main} : Carries(x)
      BY <1>1, <1>3, <3>1, <3>3, OnlyTheseCarry
    <3>5. ~Carries(main)
      BY <1>1, <1>3 DEF Carries
    <3> QED
      BY <3>3, <3>4, <3>5
  <2>2. MainGiven(0, {})
    BY <1>1, <1>3, <2>1 DEF MainGiven
  <2> QED
    BY <2>2, MainKeeps
<1> QED
  BY <1>2, <1>3

\* exit, in the shell itself or in a pipeline.
LEMMA ExitKeeps == ASSUME NEW q \in Pids PROVE IInv /\ Exit(q) => IInv'
<1> SUFFICES ASSUME IInv, Exit(q) PROVE IInv'
  OBVIOUS
<1>1. /\ proc[q].pc = "run" /\ ResultAfter(q, -1, {})
      /\ eof' = eof /\ asked' = TRUE /\ fails' = fails /\ later' = later
      /\ fails \in 0 .. MaxFails
  BY DEF Exit, Runs, Result, IInv, Typed
<1>2. CASE q # main
  <2>1. Dies(q, 255) /\ recycled' = recycled /\ garbage' = garbage
    BY <1>1, <1>2, Statuses DEF ResultAfter
  <2>2. FlagsTyped'
    BY <1>1, <2>1 DEF IInv, Typed, FlagsTyped
  <2>3. DieGiven(q, 255)
    BY <1>1, <1>2, <2>1, <2>2 DEF DieGiven
  <2>4. ASSUME fails = 0 PROVE asked' <=> asked \/ CarriedBy(q, 255)
    <3>1. Len(proc[proc[q].parent].cmd) > 1
      BY <1>1, <1>2, <2>4 DEF IInv, Calm, Placed, Pipeliners
    <3>2. proc[q].parent = main => Len(proc[main].cmd) > 1
      BY <3>1
    <3>3. CarriedBy(q, 255)
      BY <3>2 DEF CarriedBy
    <3> QED
      BY <1>1, <3>3
  <2>5. asked' \in BOOLEAN
    BY <1>1
  <2> QED
    BY <1>1, <2>3, <2>4, <2>5, ChildlessDies
<1>3. CASE q = main
  <2>1. ASSUME fails = 0 PROVE Children(main) \subseteq {}
    <3>1. Exact
      BY <2>1 DEF IInv, Calm
    <3>2. Due(main) = 0
      BY <1>1, <1>3 DEF Due
    <3> QED
      BY <3>1, <3>2, Childless, Numbers
  <2>2. MainGiven(-1, {})
    BY <1>1, <1>3, <2>1 DEF MainGiven
  <2> QED
    BY <2>2, MainKeeps
<1> QED
  BY <1>2, <1>3

\* After a failed call only what does not need Calm is left to show.
LEMMA CallFailsKeeps == ASSUME NEW q \in Pids PROVE IInv /\ CallFails(q) => IInv'
<1> SUFFICES ASSUME IInv, CallFails(q) PROVE IInv'
  OBVIOUS
<1>1. /\ proc[q].pc \in {"run", "piped", "half"} /\ ResultAfter(q, 1, {})
      /\ fails < MaxFails /\ fails' = fails + 1
      /\ eof' = eof /\ asked' = asked /\ later' = later
      /\ asked \in BOOLEAN /\ fails \in 0 .. MaxFails
  BY DEF CallFails, At, Runs, Result, IInv, Typed
<1>2. fails' \in 0 .. MaxFails /\ fails' # 0
  BY <1>1, Numbers
<1>3. CASE q # main
  <2>1. Dies(q, 0) /\ recycled' = recycled /\ garbage' = garbage
    BY <1>1, <1>3, Statuses DEF ResultAfter
  <2>2. FlagsTyped'
    BY <1>1, <1>2, <2>1 DEF IInv, Typed, FlagsTyped
  <2>3. DieGiven(q, 0)
    BY <1>1, <1>3, <2>1, <2>2 DEF DieGiven
  <2> QED
    BY <1>2, <2>3, DieKeeps
<1>4. CASE q = main
  <2>1. MainGiven(1, {})
    BY <1>1, <1>2, <1>4 DEF MainGiven
  <2> QED
    BY <2>1, MainKeeps
<1> QED
  BY <1>3, <1>4

\* The first of two children is waited for: what it carried, its parent does.
LEMMA ReapKeeps ==
  ASSUME NEW q \in Pids, NEW r \in Pids PROVE IInv /\ Reap(q, r) => IInv'
<1> SUFFICES ASSUME IInv, Reap(q, r) PROVE IInv'
  OBVIOUS
<1> USE DEF history
<1>1. /\ proc \in [Pids -> Procs] /\ proc[q] \in Procs /\ proc[r] \in Procs
      /\ Enough /\ (\A x \in Pids : Shape(x))
      /\ proc[q].pc = "wait" /\ proc[q].waits > 1 /\ proc[r].pc = "zombie" /\ proc[r].parent = q
      /\ r \in Children(q) /\ q # r
      /\ eof' = eof /\ recycled' = recycled /\ garbage' = garbage /\ asked' = asked
      /\ fails' = fails /\ later' = later
  BY DEF IInv, Typed, Reap, At, Children
<1>2. r # main
  BY <1>1 DEF Shape, Parent
<1>3. proc[q].waits = 2 /\ Len(proc[q].cmd) > 1 /\ proc[q].cmd # <<>>
  BY <1>1, Fields DEF Shape
<1>4. PICK bad \in BOOLEAN : bad <=> (proc[q].bad \/ proc[r].code = 255)
  OBVIOUS
<1>5. PICK new : new = [proc[q] EXCEPT !.waits = 1, !.bad = bad]
  OBVIOUS
<1>6. /\ new \in Procs /\ new.pc = "wait" /\ new.waits = 1 /\ (new.bad <=> bad)
      /\ new.parent = proc[q].parent /\ new.cmd = proc[q].cmd /\ new.held = proc[q].held
      /\ new.in = proc[q].in /\ new.out = proc[q].out
  <2>1. proc[q] = Fielded(proc[q])
    BY <1>1, AllFields
  <2>2. new = [Fielded(proc[q]) EXCEPT !.waits = 1, !.bad = bad]
    BY <1>5, <2>1
  <2>3. new = [pc |-> proc[q].pc, parent |-> proc[q].parent, cmd |-> proc[q].cmd,
               in |-> proc[q].in, out |-> proc[q].out, held |-> proc[q].held,
               pfd |-> proc[q].pfd, waits |-> 1, bad |-> bad, code |-> proc[q].code]
    BY <2>2 DEF Fielded
  <2>4. /\ new.pc = proc[q].pc /\ new.waits = 1 /\ new.bad = bad
        /\ new.parent = proc[q].parent /\ new.cmd = proc[q].cmd /\ new.held = proc[q].held
        /\ new.in = proc[q].in /\ new.out = proc[q].out
    BY <2>3
  <2>5. new \in Procs
    BY <1>1, <2>3, Fields DEF Procs
  <2> QED
    BY <1>1, <2>4, <2>5
<1>7. proc' = [proc EXCEPT ![r] = NoProc, ![q] = new]
  <2>1. [proc[q] EXCEPT !.waits = @ - 1, !.bad = @ \/ proc[r].code = 255] = new
    <3>1. proc[q].waits - 1 = 1
      BY <1>3
    <3>2. proc[q].bad \in BOOLEAN /\ bad = (proc[q].bad \/ proc[r].code = 255)
      BY <1>1, <1>4, Fields
    <3> QED
      BY <1>5, <3>1, <3>2
  <2>2. proc' = [proc EXCEPT ![r] = NoProc,
                             ![q] = [proc[q] EXCEPT !.waits = @ - 1, !.bad = @ \/ proc[r].code = 255]]
    BY <1>1 DEF Reap
  <2> QED
    BY <2>1, <2>2
<1>8. /\ proc'[q] = new /\ proc'[r] = NoProc
      /\ \A x \in Pids : x # q /\ x # r => proc'[x] = proc[x]
      /\ proc' \in [Pids -> Procs]
  BY <1>1, <1>6, <1>7, Missing
<1>9. Typed'
  BY <1>1, <1>8 DEF IInv, Typed
<1>10. ASSUME NEW x \in Pids PROVE Shape(x)'
  <2>1. CASE x = q
    <3>1. q = main => new.pc \in Parent /\ new.parent = nobody /\ new.in = 0 /\ new.out = 0
      BY <1>1, <1>6, Numbers DEF Shape, Parent
    <3> QED
      BY <1>3, <1>6, <1>8, <2>1, <3>1 DEF Shape, Piping
  <2>2. CASE x = r
    BY <1>2, <1>8, <2>2, Missing DEF Shape, Piping
  <2>3. CASE x # q /\ x # r
    BY <1>1, <1>8, <2>3 DEF Shape
  <2> QED
    BY <2>1, <2>2, <2>3
<1>11. /\ \A x \in Pids : x # q => Children(x)' = Children(x)
       /\ Children(q)' = Children(q) \ {r}
  BY <1>1, <1>6, <1>8, Missing DEF Children
<1>12. /\ \A x \in Pids : x # q => Due(x)' = Due(x)
       /\ Due(q) = 2 /\ Due(q)' = 1
  BY <1>1, <1>3, <1>6, <1>8, Missing DEF Due
<1>13. PICK m \in Nat : m = Cardinality(Children(q))
  BY SomePids
<1>14. Cardinality(Children(q)') = m - 1
  BY <1>1, <1>11, <1>13, SomePids, FS_RemoveElement, ZenonT(60)
<1>15. Enough'
  <2> SUFFICES ASSUME NEW x \in Pids PROVE Cardinality(Children(x)') >= Due(x)'
    BY DEF Enough
  <2>1. Cardinality(Children(x)) >= Due(x)
    BY <1>1 DEF Enough
  <2>2. CASE x = q
    BY <1>12, <1>13, <1>14, <2>1, <2>2
  <2>3. CASE x # q
    BY <1>11, <1>12, <2>1, <2>3
  <2> QED
    BY <2>2, <2>3
<1>16. ASSUME fails = 0 PROVE Calm'
  <2>1. Calm /\ Exact /\ Reached /\ Placed /\ Holding /\ Alone /\ Wished
    BY <1>16 DEF IInv, Calm
  <2>2. Exact'
    <3> SUFFICES ASSUME NEW x \in Pids PROVE Cardinality(Children(x)') <= Due(x)'
      BY DEF Exact
    <3>1. Cardinality(Children(x)) <= Due(x)
      BY <2>1 DEF Exact
    <3>2. CASE x = q
      BY <1>12, <1>13, <1>14, <3>1, <3>2
    <3>3. CASE x # q
      BY <1>11, <1>12, <3>1, <3>3
    <3> QED
      BY <3>2, <3>3
  <2>3. Children(r) = {}
    <3>1. Due(r) = 0
      BY <1>1 DEF Due
    <3> QED
      BY <2>1, <3>1, Childless
  <2>4. Reached'
    <3> SUFFICES ASSUME NEW C \in SUBSET Pids, main \in C,
                        \A x \in C : Children(x)' \subseteq C, NEW y \in Pids \ C
                 PROVE  proc'[y].pc = "none"
      BY DEF Reached
    <3>1. PICK D \in SUBSET Pids : D = C \cup {r}
      OBVIOUS
    <3>2. main \in D /\ \A x \in D : Children(x) \subseteq D
      BY <1>11, <2>3, <3>1
    <3>3. \A x \in Pids \ D : proc[x].pc = "none"
      BY <2>1, <3>2, Zenon DEF Reached
    <3>4. CASE y = r
      BY <1>8, <3>4, Missing
    <3>5. CASE y # r
      <4>1. proc[y].pc = "none"
        BY <3>1, <3>3, <3>5
      <4>2. y # q
        BY <1>1, <4>1
      <4> QED
        BY <1>8, <3>5, <4>1, <4>2
    <3> QED
      BY <3>4, <3>5
  <2>5. \A x \in Pids : x # r => proc'[x].cmd = proc[x].cmd /\ proc'[x].parent = proc[x].parent
                                 /\ proc'[x].pc = proc[x].pc
    BY <1>1, <1>6, <1>8
  <2>6. Placed'
    <3> SUFFICES ASSUME NEW x \in Pids \ {main}
                 PROVE  /\ proc'[x].pc # "none" => proc'[x].parent \in Pids \ {x}
                        /\ proc'[x].pc = "program" => Len(proc'[proc'[x].parent].cmd) = 1
                        /\ proc'[x].pc \in Pipeliners => Len(proc'[proc'[x].parent].cmd) > 1
      BY DEF Placed
    <3>1. CASE x = r
      BY <1>8, <3>1, Missing DEF Pipeliners
    <3>2. CASE x # r /\ proc[x].pc = "none"
      BY <2>5, <3>2 DEF Pipeliners
    <3>3. CASE x # r /\ proc[x].pc # "none"
      <4>1. /\ proc[x].parent \in Pids \ {x}
            /\ proc[x].pc = "program" => Len(proc[proc[x].parent].cmd) = 1
            /\ proc[x].pc \in Pipeliners => Len(proc[proc[x].parent].cmd) > 1
        BY <2>1, <3>3 DEF Placed
      <4>2. proc[x].parent # r
        BY <2>3, <3>3 DEF Children
      <4>3. proc'[proc[x].parent].cmd = proc[proc[x].parent].cmd
        BY <2>5, <4>1, <4>2
      <4>4. proc'[x].parent = proc[x].parent /\ proc'[x].pc = proc[x].pc
        BY <2>5, <3>3
      <4> QED
        BY <4>1, <4>3, <4>4
    <3> QED
      BY <3>1, <3>2, <3>3
  <2>7. Holding'
    <3>1. new.held = {}
      BY <1>1, <1>6, <2>1 DEF Holding, Piping
    <3> SUFFICES ASSUME NEW x \in Pids
                 PROVE  /\ proc'[x].held = IF proc'[x].pc \in Piping THEN Ends(proc'[x].pfd) ELSE {}
                        /\ proc'[x].pc \in Piping => proc'[x].in # proc'[x].pfd /\ proc'[x].out # proc'[x].pfd
      BY DEF Holding
    <3>2. CASE x = q \/ x = r
      BY <1>6, <1>8, <3>1, <3>2, Missing DEF Piping
    <3>3. CASE x # q /\ x # r
      BY <1>8, <2>1, <3>3 DEF Holding
    <3> QED
      BY <3>2, <3>3
  <2>8. Alone'
    <3>1. ASSUME NEW x \in Pids, NEW p \in Pipes
          PROVE  (UsesIn(x, p)' => UsesIn(x, p)) /\ (UsesOut(x, p)' => UsesOut(x, p))
      <4>1. CASE x = q \/ x = r
        BY <1>6, <1>8, <4>1, Missing DEF UsesIn, UsesOut
      <4>2. CASE x # q /\ x # r
        BY <1>8, <4>2 DEF UsesIn, UsesOut
      <4> QED
        BY <4>1, <4>2
    <3> QED
      BY <2>1, <3>1 DEF Alone
  <2>9. proc'[main].cmd = proc[main].cmd /\ proc'[main].pc = proc[main].pc
    BY <1>2, <2>5, Numbers
  <2>10. \A x \in Pids : x # q /\ x # r => (Carries(x)' <=> Carries(x))
    BY <1>8, <2>9 DEF Carries
  <2>11. (Carries(q)' \/ Carries(r)') <=> (Carries(q) \/ Carries(r))
    <3>1. Carries(q)' <=> bad
      BY <1>3, <1>6, <1>8 DEF Carries
    <3>2. ~Carries(r)'
      BY <1>8, Missing DEF Carries
    <3>3. Carries(q) <=> proc[q].bad
      BY <1>1, <1>3 DEF Carries
    <3>4. Carries(r) <=> proc[r].code = 255
      <4>1. proc[r].parent = main => Len(proc[main].cmd) > 1
        BY <1>1, <1>3
      <4> QED
        BY <1>1, <4>1 DEF Carries
    <3> QED
      BY <1>4, <3>1, <3>2, <3>3, <3>4
  <2>12. Wished'
    <3>1. (\E x \in Pids : Carries(x)') <=> (\E x \in Pids : Carries(x))
      BY <2>10, <2>11
    <3> QED
      BY <1>1, <2>1, <2>9, <3>1 DEF Wished
  <2> QED
    BY <2>2, <2>4, <2>6, <2>7, <2>8, <2>12 DEF Calm
<1> QED
  BY <1>1, <1>9, <1>10, <1>15, <1>16 DEF IInv

\* The last child, too: its parent ends with what both carried, and main does
\* what that asks for.
LEMMA ReapLastKeeps ==
  ASSUME NEW q \in Pids, NEW r \in Pids PROVE IInv /\ ReapLast(q, r) => IInv'
<1> SUFFICES ASSUME IInv, ReapLast(q, r) PROVE IInv'
  OBVIOUS
<1> USE DEF history
<1>1. /\ proc \in [Pids -> Procs] /\ proc[q] \in Procs /\ proc[r] \in Procs
      /\ (\A x \in Pids : Shape(x))
      /\ proc[q].pc = "wait" /\ proc[q].waits = 1 /\ proc[r].pc = "zombie" /\ proc[r].parent = q
      /\ r \in Children(q) /\ q # r
      /\ ResultAfter(q, AfterWait(q, proc[r].code), {r})
      /\ eof' = eof /\ asked' = asked /\ fails' = fails /\ later' = later
      /\ asked \in BOOLEAN /\ fails \in 0 .. MaxFails
  BY DEF IInv, Typed, ReapLast, At, Children
<1>2. proc[r].code \in {0, 255} /\ proc[q].bad \in BOOLEAN
  BY <1>1, Fields
<1>3. Len(proc[q].cmd) \in Nat /\ (Len(proc[q].cmd) = 1 \/ Len(proc[q].cmd) > 1)
  <2>1. proc[q].cmd \in Seq(Kinds) /\ proc[q].cmd # <<>>
    BY <1>1, Fields DEF Shape
  <2>2. PICK n \in Nat : n = Len(proc[q].cmd)
    BY <2>1
  <2>3. n # 0
    BY <2>1, <2>2, EmptySeq
  <2>4. n = 1 \/ n > 1
    BY <2>3
  <2> QED
    BY <2>2, <2>4, Zenon
<1>4. PICK result \in {-1, 0, 255} :
        /\ result = AfterWait(q, proc[r].code)
        /\ Len(proc[q].cmd) = 1 => result = proc[r].code
        /\ Len(proc[q].cmd) > 1 => IF proc[q].bad \/ proc[r].code = 255 THEN result = -1 ELSE result = 0
  <2>1. CASE Len(proc[q].cmd) = 1
    BY <1>2, <2>1 DEF AfterWait
  <2>2. CASE Len(proc[q].cmd) > 1
    <3>1. Len(proc[q].cmd) # 1
      <4>1. PICK n \in Nat : n = Len(proc[q].cmd)
        BY <1>3
      <4>2. n > 1
        BY <2>2, <4>1
      <4>3. n # 1
        BY <4>2
      <4> QED
        BY <4>1, <4>3
    <3>2. CASE proc[q].bad \/ proc[r].code = 255
      <4>1. AfterWait(q, proc[r].code) = -1
        BY <3>1, <3>2 DEF AfterWait
      <4> QED
        BY <3>1, <3>2, <4>1
    <3>3. CASE ~(proc[q].bad \/ proc[r].code = 255)
      <4>1. AfterWait(q, proc[r].code) = 0
        BY <3>1, <3>3 DEF AfterWait
      <4> QED
        BY <3>1, <3>3, <4>1
    <3> QED
      BY <3>2, <3>3
  <2> QED
    BY <1>3, <2>1, <2>2
<1>5. ResultAfter(q, result, {r})
  BY <1>1, <1>4
<1>6. ASSUME fails = 0
      PROVE  Children(q) = {r}
  <2>1. Cardinality(Children(q)) <= 1
    BY <1>1, <1>6 DEF IInv, Calm, Exact, Due
  <2>2. Cardinality(Children(q) \ {r}) = Cardinality(Children(q)) - 1
    <3>1. PICK S \in SUBSET Pids : S = Children(q)
      BY SomePids
    <3>2. IsFiniteSet(S) /\ r \in S
      BY <1>1, <3>1, SomePids
    <3>3. Cardinality(S \ {r}) = Cardinality(S) - 1
      BY <3>2, FS_RemoveElement
    <3> QED
      BY <3>1, <3>3
  <2>3. Children(q) \ {r} \subseteq Pids
    BY SomePids
  <2>4. IsFiniteSet(Children(q) \ {r}) /\ Cardinality(Children(q) \ {r}) \in Nat
    BY <2>3, Numbers, FS_Subset, FS_CardinalityType
  <2>5. Cardinality(Children(q) \ {r}) = 0
    BY <2>1, <2>2, <2>4, SomePids
  <2>6. Children(q) \ {r} = {}
    BY <2>4, <2>5, FS_EmptySet
  <2> QED
    BY <1>1, <2>6
<1>7. Carries(q) <=> (proc[q].bad /\ Len(proc[q].cmd) > 1)
  BY <1>1 DEF Carries
<1>8. Carries(r) <=> (proc[r].code = 255 /\ (q # main \/ Len(proc[main].cmd) > 1))
  BY <1>1 DEF Carries
<1>9. CASE q # main
  <2>1. PICK code \in {0, 255} : code = Status(result)
    BY <1>4, Statuses
  <2>2. Dies(q, code) /\ recycled' = recycled /\ garbage' = garbage
    BY <1>5, <1>9, <2>1 DEF ResultAfter
  <2>3. FlagsTyped'
    BY <1>1, <2>2 DEF IInv, Typed, FlagsTyped
  <2>4. DieGiven(q, code)
    BY <1>1, <1>9, <2>2, <2>3 DEF DieGiven
  <2>5. code = 255 <=> (Carries(q) \/ Carries(r))
    <3>1. CASE Len(proc[q].cmd) = 1
      <4>1. code = proc[r].code
        BY <1>2, <1>4, <2>1, <3>1, Statuses
      <4> QED
        BY <1>7, <1>8, <1>9, <3>1, <4>1
    <3>2. CASE Len(proc[q].cmd) > 1
      <4>1. code = 255 <=> (proc[q].bad \/ proc[r].code = 255)
        <5>1. CASE proc[q].bad \/ proc[r].code = 255
          <6>1. result = -1
            BY <1>4, <3>2, <5>1
          <6> QED
            BY <2>1, <5>1, <6>1, Statuses
        <5>2. CASE ~(proc[q].bad \/ proc[r].code = 255)
          <6>1. result = 0
            BY <1>4, <3>2, <5>2
          <6>2. code = 0
            BY <2>1, <6>1, Statuses
          <6> QED
            BY <5>2, <6>2
        <5> QED
          BY <5>1, <5>2
      <4> QED
        BY <1>7, <1>8, <1>9, <3>2, <4>1
    <3> QED
      BY <1>3, <3>1, <3>2
  <2>6. ASSUME fails = 0
        PROVE  (\A x \in Children(q) : proc[x].pc = "zombie") /\ DieAsked(q, code)
    <3>1. Placed /\ Wished
      BY <2>6 DEF IInv, Calm
    <3>2. Children(q) = {r}
      BY <1>6, <2>6
    <3>3. Len(proc[proc[q].parent].cmd) > 1
      BY <1>1, <1>9, <3>1 DEF Placed, Pipeliners
    <3>4. proc[q].parent = main => Len(proc[main].cmd) > 1
      BY <3>3
    <3>5. CarriedBy(q, code) <=> (Carries(q) \/ Carries(r))
      BY <2>5, <3>4 DEF CarriedBy
    <3>6. (\E x \in Pids : Carries(x))
            <=> (CarriedBy(q, code) \/ \E x \in Pids : x # q /\ x \notin Children(q) /\ Carries(x))
      BY <3>2, <3>5
    <3>7. proc[main].pc \notin {"ended", "crashed"} => (asked <=> \E x \in Pids : Carries(x))
      BY <3>1 DEF Wished
    <3>8. DieAsked(q, code)
      BY <1>1, <3>6, <3>7 DEF DieAsked
    <3> QED
      BY <1>1, <3>2, <3>8
  <2> QED
    BY <1>1, <2>4, <2>6, DieKeeps
<1>10. CASE q = main
  <2>1. ASSUME fails = 0
        PROVE  Children(main) \subseteq {r} /\ (asked <=> result = -1)
    <3>1. Calm
      BY <2>1 DEF IInv
    <3>2. Children(main) \subseteq {r}
      BY <1>6, <1>10, <2>1
    <3>3. Due(r) = 0
      BY <1>1 DEF Due
    <3>4. asked <=> \E x \in {r} \cup {main} : Carries(x)
      BY <1>1, <1>10, <3>1, <3>2, <3>3, OnlyTheseCarry
    <3>5. asked <=> (Carries(q) \/ Carries(r))
      BY <1>10, <3>4
    <3>6. result = -1 <=> (Carries(q) \/ Carries(r))
      <4>1. CASE Len(proc[q].cmd) = 1
        <5>1. result # -1
          BY <1>2, <1>4, <4>1
        <5>2. Len(proc[main].cmd) = 1
          BY <1>10, <4>1
        <5> QED
          BY <1>7, <1>8, <1>10, <4>1, <5>1, <5>2
      <4>2. CASE Len(proc[q].cmd) > 1
        <5>1. Len(proc[main].cmd) > 1
          BY <1>10, <4>2
        <5>2. result = -1 <=> (proc[q].bad \/ proc[r].code = 255)
          BY <1>4, <4>2
        <5> QED
          BY <1>7, <1>8, <4>2, <5>1, <5>2
      <4> QED
        BY <1>3, <4>1, <4>2
    <3> QED
      BY <3>2, <3>5, <3>6
  <2>2. {r} \in SUBSET Pids /\ {r} \subseteq Children(main)
    BY <1>1, <1>10
  <2>3. MainGiven(result, {r})
    BY <1>1, <1>5, <1>10, <2>1, <2>2 DEF MainGiven
  <2> QED
    BY <2>2, <2>3, MainKeeps
<1> QED
  BY <1>9, <1>10

-----------------------------------------------------------------------------
(* The invariant                                                           *)

LEMMA InitHolds == Init => IInv
<1> SUFFICES ASSUME Init PROVE IInv
  OBVIOUS
<1>1. PICK first : first = [NoProc EXCEPT !.pc = "prompt"]
  OBVIOUS
<1>2. <<>> \in Seq(Kinds)
  BY EmptySeq
<1>3. first \in Procs /\ first.pc = "prompt" /\ first.parent = nobody
      /\ first.in = 0 /\ first.out = 0 /\ first.held = {}
  <2>1. first = [pc |-> "prompt", parent |-> nobody, cmd |-> <<>>, in |-> 0, out |-> 0,
                 held |-> {}, pfd |-> 0, waits |-> 0, bad |-> FALSE, code |-> 0]
    BY <1>1 DEF NoProc
  <2>2. "prompt" \in States
    BY DEF States
  <2>3. first \in Procs
    BY <1>2, <2>1, <2>2 DEF Procs
  <2> QED
    BY <2>1, <2>3
<1>4. /\ proc \in [Pids -> Procs] /\ proc[main] = first
      /\ \A x \in Pids : x # main => proc[x] = NoProc
  BY <1>1, <1>3, Numbers, Missing DEF Init
<1>5. Typed
  BY <1>4, Numbers DEF Init, Typed
<1>6. ASSUME NEW x \in Pids PROVE Shape(x)
  <2>1. CASE x = main
    BY <1>3, <1>4, <2>1 DEF Shape, Parent, Piping
  <2>2. CASE x # main
    BY <1>4, <2>2, Missing DEF Shape, Piping
  <2> QED
    BY <2>1, <2>2
<1>7. \A x \in Pids : Due(x) = 0 /\ Children(x) = {}
  <2> TAKE x \in Pids
  <2>1. Due(x) = 0
    BY <1>3, <1>4, Missing DEF Due
  <2>2. \A r \in Pids : ~(proc[r].pc # "none" /\ proc[r].parent = x)
    BY <1>3, <1>4, Numbers, Missing
  <2> QED
    BY <2>1, <2>2 DEF Children
<1>8. Enough /\ Exact
  BY <1>7, FS_EmptySet DEF Enough, Exact
<1>9. Reached
  BY <1>4, Missing DEF Reached
<1>10. Placed
  BY <1>4, Missing DEF Placed, Pipeliners
<1>11. Holding
  BY <1>3, <1>4, Missing DEF Holding, Piping
<1>12. Alone
  <2>1. \A x \in Pids, p \in Pipes : ~UsesIn(x, p) /\ ~UsesOut(x, p)
    BY <1>3, <1>4, Missing DEF UsesIn, UsesOut
  <2> QED
    BY <2>1 DEF Alone
<1>13. Wished
  <2>1. \A x \in Pids : ~Carries(x)
    BY <1>3, <1>4, Missing DEF Carries
  <2>2. ~asked
    BY DEF Init
  <2> QED
    BY <1>3, <1>4, <2>1, <2>2 DEF Wished
<1> QED
  BY <1>5, <1>6, <1>8, <1>9, <1>10, <1>11, <1>12, <1>13 DEF IInv, Calm

LEMMA StutterKeeps == IInv /\ UNCHANGED vars => IInv'
<1> SUFFICES ASSUME IInv, UNCHANGED vars PROVE IInv'
  OBVIOUS
<1>1. /\ proc' = proc /\ eof' = eof /\ recycled' = recycled /\ garbage' = garbage
      /\ asked' = asked /\ fails' = fails /\ later' = later
  BY DEF vars, history
<1>2. Typed'
  BY <1>1 DEF IInv, Typed
<1>3. \A x \in Pids : Shape(x)'
  BY <1>1 DEF IInv, Shape
<1>4. Enough'
  BY <1>1 DEF IInv, Enough, Children, Due
<1>5. Calm => Exact' /\ Reached'
  BY <1>1 DEF Calm, Exact, Reached, Children, Due
<1>6. Calm => Placed' /\ Holding'
  BY <1>1 DEF Calm, Placed, Holding
<1>7. Calm => Alone'
  BY <1>1 DEF Calm, Alone, UsesIn, UsesOut
<1>8. Calm => Wished'
  BY <1>1 DEF Calm, Wished, Carries
<1> QED
  BY <1>1, <1>2, <1>3, <1>4, <1>5, <1>6, <1>7, <1>8 DEF IInv, Calm

LEMMA StepKeeps == IInv /\ [Next]_vars => IInv'
<1> SUFFICES ASSUME IInv, [Next]_vars PROVE IInv'
  OBVIOUS
<1>1. CASE ReadLine
  BY <1>1, ReadLineKeeps
<1>2. CASE ReadEof
  BY <1>2, ReadEofKeeps
<1>3. ASSUME NEW q \in Pids, Step(q) PROVE IInv'
  <2>1. CASE ChangeDir(q)
    BY <2>1, ChangeDirKeeps
  <2>2. CASE Exit(q)
    BY <2>2, ExitKeeps
  <2>3. CASE RunNull(q)
    BY <2>3, RunNullKeeps
  <2>4. CASE ForkProgram(q)
    BY <2>4, ForkProgramKeeps
  <2>5. CASE MakePipe(q)
    BY <2>5, MakePipeKeeps
  <2>6. CASE ForkLeft(q)
    BY <2>6, ForkLeftKeeps
  <2>7. CASE ForkRight(q)
    BY <2>7, ForkRightKeeps
  <2>8. CASE ConnectLeft(q)
    BY <2>8, ConnectLeftKeeps
  <2>9. CASE ConnectRight(q)
    BY <2>9, ConnectRightKeeps
  <2>10. CASE CloseEnds(q)
    BY <2>10, CloseEndsKeeps
  <2>11. ASSUME NEW r \in Pids, Reap(q, r) PROVE IInv'
    BY <2>11, ReapKeeps
  <2>12. ASSUME NEW r \in Pids, ReapLast(q, r) PROVE IInv'
    BY <2>12, ReapLastKeeps
  <2>13. CASE ProgramExits(q)
    BY <2>13, ProgramExitsKeeps
  <2>14. CASE InputEnds(q) \/ BrokenPipe(q)
    BY <2>14, ProgramsKeep
  <2> QED
    BY <1>3, <2>1, <2>2, <2>3, <2>4, <2>5, <2>6, <2>7, <2>8, <2>9, <2>10, <2>11, <2>12,
       <2>13, <2>14 DEF Step
<1>4. ASSUME NEW q \in Pids, CallFails(q) PROVE IInv'
  BY <1>4, CallFailsKeeps
<1>5. ASSUME NEW q \in Pids, ProgramFails(q) \/ TerminalEnds(q) PROVE IInv'
  BY <1>5, ProgramsKeep
<1>6. CASE UNCHANGED vars
  BY <1>6, StutterKeeps
<1> QED
  BY <1>1, <1>2, <1>3, <1>4, <1>5, <1>6 DEF Next

LEMMA Invariance == Spec => []IInv
<1> QED
  BY InitHolds, StepKeeps, PTL DEF Spec

-----------------------------------------------------------------------------
(* The theorems                                                            *)

\* Every process keeps to its fields' types, and the counters to their bounds
\* (shell.c:44-134, 299-462).
THEOREM TypeCorrect == Spec => []TypeOK
<1>1. IInv => TypeOK
  <2> SUFFICES ASSUME IInv PROVE TypeOK
    OBVIOUS
  <2>1. ASSUME NEW q \in Pids
        PROVE  /\ proc[q].pc \in States
               /\ proc[q].parent \in Pids \cup {nobody}
               /\ proc[q].cmd \in Seq(Kinds)
               /\ {proc[q].in, proc[q].out, proc[q].pfd} \subseteq Pipes \cup {0}
               /\ proc[q].held \subseteq UNION {Ends(p) : p \in Pipes}
               /\ proc[q].waits \in 0 .. 2
               /\ proc[q].bad \in BOOLEAN
               /\ proc[q].code \in {0, 255}
    <3>1. proc[q] \in Procs
      BY DEF IInv, Typed
    <3> QED
      BY <3>1, Fields DEF AllEnds
  <2>2. /\ {eof, recycled, garbage, asked} \subseteq BOOLEAN
        /\ fails \in 0 .. MaxFails /\ later \in 0 .. MaxLater
    BY DEF IInv, Typed
  <2> QED
    BY <2>1, <2>2 DEF TypeOK
<1> QED
  BY <1>1, Invariance, PTL

\* However long a pipeline is and however its processes interleave, a program
\* has no pipe end but its own, and no other program has these (shell.c:369-435).
THEOREM OnlyOwnEndsHolds == Spec => []OnlyOwnEnds
<1>1. IInv => OnlyOwnEnds
  <2> SUFFICES ASSUME IInv, fails = 0
               PROVE  /\ \A q \in Pids : At(q, "program") \/ At(q, "wait") => proc[q].held = {}
                      /\ \A q, r \in Pids :
                           At(q, "program") /\ At(r, "program") /\ q # r
                             => (proc[q].in = proc[r].in => proc[q].in = 0)
                                /\ (proc[q].out = proc[r].out => proc[q].out = 0)
    BY DEF OnlyOwnEnds
  <2>1. Holding /\ Alone
    BY DEF IInv, Calm
  <2>2. \A q \in Pids : At(q, "program") \/ At(q, "wait") => proc[q].held = {}
    BY <2>1 DEF Holding, Piping, At
  <2>3. ASSUME NEW q \in Pids, NEW r \in Pids, At(q, "program"), At(r, "program"), q # r
        PROVE  /\ proc[q].in = proc[r].in => proc[q].in = 0
               /\ proc[q].out = proc[r].out => proc[q].out = 0
    <3>1. proc[q].in \in Pipes \cup {0} /\ proc[q].out \in Pipes \cup {0}
      BY Fields DEF IInv, Typed
    <3>2. proc[q].in = proc[r].in /\ proc[q].in \in Pipes => q = r
      BY <2>1, <2>3 DEF Alone, UsesIn, At
    <3>3. proc[q].out = proc[r].out /\ proc[q].out \in Pipes => q = r
      BY <2>1, <2>3 DEF Alone, UsesOut, At
    <3> QED
      BY <2>3, <3>1, <3>2, <3>3
  <2> QED
    BY <2>2, <2>3
<1> QED
  BY <1>1, Invariance, PTL

\* No process ever waits for a child that it does not have, and without a
\* failed call the prompt comes back only when none is left (shell.c:315-344, 440-462).
THEOREM ChildrenAccountedHolds == Spec => []ChildrenAccounted
<1>1. IInv => ChildrenAccounted
  <2> SUFFICES ASSUME IInv PROVE ChildrenAccounted
    OBVIOUS
  <2>1. \A q \in Pids : At(q, "wait") => Cardinality(Children(q)) >= proc[q].waits
    BY DEF IInv, Enough, Due, At
  <2>2. ASSUME At(main, "prompt"), fails = 0
        PROVE  (\A q \in Pids \ {main} : At(q, "none")) /\ proc[main].held = {}
    <3>1. Calm /\ Exact /\ Holding
      BY <2>2 DEF IInv, Calm
    <3>2. Due(main) = 0
      BY <2>2 DEF Due, At
    <3>3. Children(main) = {}
      BY <3>1, <3>2, Childless, Numbers
    <3>4. \A q \in Pids : q # main => proc[q].pc = "none"
      BY <3>1, <3>3, Quiet
    <3>5. proc[main].held = {}
      BY <2>2, <3>1, Numbers DEF Holding, Piping, At
    <3> QED
      BY <3>4, <3>5 DEF At
  <2> QED
    BY <2>1, <2>2 DEF ChildrenAccounted
<1> QED
  BY <1>1, Invariance, PTL

\* Nothing but exit, or a status 255 in a pipeline, ends the loop: whatever
\* process dies with whatever status, main carries -1 only after such a wish.
THEOREM EndsOnlyIfAskedHolds == Spec => []EndsOnlyIfAsked
<1>1. IInv => EndsOnlyIfAsked
  <2> SUFFICES ASSUME IInv, fails = 0, At(main, "ended") PROVE asked
    BY DEF EndsOnlyIfAsked
  <2> QED
    BY DEF IInv, Calm, Wished, At
<1> QED
  BY <1>1, Invariance, PTL
=============================================================================
