-------------------------------- MODULE Shell --------------------------------
(***************************************************************************)
(* The shell of assignment03: the loop of main, and execute_complex_command *)
(* with the processes it makes (shell.c), over the commands the parser      *)
(* builds (parser.c).                                                      *)
(*                                                                         *)
(* A line is a sequence of segments between pipe signs.  All that matters  *)
(* of a segment is its kind: one of the built-ins "cd" and "exit"; a       *)
(* program that ends by itself ("finite"), with its output in a file       *)
(* ("tofile"), that reads to the end of its input ("filter"), or that      *)
(* writes for ever ("endless"); a redirection without a file ("badredir"); *)
(* nothing ("empty").                                                      *)
(*                                                                         *)
(* A process holds pipe ends <<pipe, "r">> and <<pipe, "w">> besides its   *)
(* stdin and stdout, which are a pipe or 0: the terminal or a file.        *)
(*                                                                         *)
(* Operators named X_Fault are faulty forms of X, plausible mistakes in    *)
(* the code it models; no specification here uses them.                    *)
(***************************************************************************)
EXTENDS Integers, Sequences, FiniteSets, Functions

CONSTANTS Lines,            \* what the user types
          MaxPid,           \* processes besides the shell itself
          MaxPipe,          \* pipes at a time
          MaxFails,         \* calls of fork and pipe that fail
          MaxLater,         \* lines typed after one failed,
          LaterLines        \* which are among these

Programs == {"finite", "tofile", "filter", "endless"}
Kinds == Programs \cup {"cd", "exit", "badredir", "empty"}

ASSUME ShellAssumption ==
  /\ Lines \subseteq Seq(Kinds) \ {<<>>}
  /\ LaterLines \subseteq Lines
  /\ MaxPid \in Nat /\ MaxPipe \in Nat /\ MaxFails \in Nat /\ MaxLater \in Nat

VARIABLES
  proc,         \* the processes
  eof,          \* the end of stdin was reached
  recycled,     \* a freed token array may be handed out as a simple_command
  garbage,      \* this line's simple_command was one
  asked,        \* history: this line ran exit, or a program of a pipeline
                \* ended with status 255
  fails, later  \* calls that failed, lines read after that

history == <<asked, fails, later>>
vars == <<proc, eof, recycled, garbage, history>>

main == 0
nobody == -1                \* the parent of orphans
Pids == 0 .. MaxPid
Pipes == 1 .. MaxPipe
Ends(p) == {<<p, "r">>, <<p, "w">>}

NoProc == [pc |-> "none", parent |-> nobody, cmd |-> <<>>, in |-> 0, out |-> 0,
           held |-> {}, pfd |-> 0, waits |-> 0, bad |-> FALSE, code |-> 0]

-----------------------------------------------------------------------------
(* Processes and pipes                                                     *)

Alive(q) == proc[q].pc \notin {"none", "zombie", "ended", "crashed"}
Children(q) == {r \in Pids : proc[r].pc # "none" /\ proc[r].parent = q}
Readers(p) == {q \in Pids : Alive(q) /\ (proc[q].in = p \/ <<p, "r">> \in proc[q].held)}
Writers(p) == {q \in Pids : Alive(q) /\ (proc[q].out = p \/ <<p, "w">> \in proc[q].held)}

FreePids == {q \in Pids : proc[q].pc = "none"}
FreePipes == {p \in Pipes : Readers(p) = {} /\ Writers(p) = {}}
LowestOf(S) == CHOOSE x \in S : \A y \in S : x <= y

Update(q, new) == proc' = [proc EXCEPT ![q] = new]

\* fork: the child is a copy of q but for the fields of change.
Forks(q, child, new) ==
  proc' = [proc EXCEPT ![q] = new, ![LowestOf(FreePids)] = [child EXCEPT !.parent = q]]

\* A process ends: its descriptors are closed, its children are orphans, and
\* it stays for its parent to wait for; nobody waits for an orphan.
Dead(p, code) ==
  IF p.parent = nobody THEN NoProc
  ELSE [NoProc EXCEPT !.pc = "zombie", !.parent = p.parent, !.code = code]
Orphaned(p) == IF p.pc = "zombie" THEN NoProc ELSE [p EXCEPT !.parent = nobody]
Dies(q, code) ==
  proc' = [r \in Pids |-> IF r = q THEN Dead(proc[q], code)
                         ELSE IF proc[r].parent = q THEN Orphaned(proc[r])
                         ELSE proc[r]]

Stops(how) == Update(main, [proc[main] EXCEPT !.pc = how])

-----------------------------------------------------------------------------
(* The main loop                                                           *)

Init ==
  /\ proc = [q \in Pids |-> IF q = main THEN [NoProc EXCEPT !.pc = "prompt"] ELSE NoProc]
  /\ eof = FALSE
  /\ recycled = FALSE
  /\ garbage = FALSE
  /\ asked = FALSE
  /\ fails = 0
  /\ later = 0

\* The first word of a segment, without what follows it.
FirstWord(kind) == IF kind \in {"tofile", "badredir"} THEN "finite" ELSE kind

\* A line is parsed: an empty one is passed over, exit as its first word ends
\* the shell, nothing on one side of a pipe crashes the parser, and a command
\* that could not be built crashes the loop.  simple_command's in, out and err are not initialised:
\* in a recycled block they are not NULL.
Obey(line) ==
  /\ asked' = (line[1] = "exit")
  /\ garbage' \in {FALSE, recycled}
  /\ fails > 0 => later < MaxLater /\ line \in LaterLines
  /\ later' = IF fails > 0 THEN later + 1 ELSE later
  /\ UNCHANGED <<recycled, fails>>
  /\ \/ line[1] = "exit" /\ Stops("ended")
     \/ line = <<"empty">> /\ Update(main, [proc[main] EXCEPT !.cmd = line])
     \/ /\ line[1] # "exit" /\ line # <<"empty">>
        /\ "empty" \in Range(line) \/ line = <<"badredir">>
        /\ Stops("crashed")
     \/ /\ line[1] # "exit"
        /\ "empty" \notin Range(line) /\ line # <<"badredir">>
        /\ Update(main, [proc[main] EXCEPT !.pc = "run", !.cmd = line])

ReadLine ==
  /\ proc[main].pc = "prompt"
  /\ ~eof
  /\ \E line \in Lines : Obey(line)
  /\ UNCHANGED eof

\* At the end of stdin gets() leaves the buffer alone: the first word of the
\* last line is executed again and again.
ReadEof ==
  /\ proc[main].pc = "prompt"
  /\ proc[main].cmd # <<>>
  /\ eof' = TRUE
  /\ Obey(<<FirstWord(proc[main].cmd[1])>>)

\* exit() keeps the low eight bits, and nobody tells a status other than 255
\* from 0.
Status_Whole(result) == result
Status(result) == IF result % 256 = 255 THEN 255 ELSE 0

\* release_command frees the token array of a simple command with a file in
\* in, out or err.  Only one with a redirection was allocated: with garbage in
\* those fields free() is given another address and aborts.
AfterRelease(line) ==
  (IF garbage /\ "tofile" \notin Range(line) THEN {} ELSE {"prompt"})
    \cup (IF garbage /\ Range(line) # {"tofile"} THEN {"crashed"} ELSE {})

\* What a process does with the result of its command, after it has waited for
\* reaped.  In the shell itself -1 ends the loop; otherwise the command is
\* released.  Others pass the result on as their status.
ResultAfter(q, result, reaped) ==
  IF q # main
  THEN Dies(q, Status(result)) /\ UNCHANGED <<recycled, garbage>>
  ELSE /\ \E how \in IF result = -1 THEN {"ended"} ELSE AfterRelease(proc[main].cmd) :
            proc' = [r \in Pids |->
                    IF r \in reaped THEN NoProc
                    ELSE IF r # main THEN proc[r]
                    ELSE [proc[main] EXCEPT
                            !.waits = 0, !.bad = FALSE, !.pfd = 0,
                            !.pc = how]]
       /\ recycled' = (recycled \/ "tofile" \in Range(proc[main].cmd))
       /\ garbage' = FALSE
Result(q, result) == ResultAfter(q, result, {})

-----------------------------------------------------------------------------
(* execute_simple_command                                                  *)

Runs(q, kinds) ==
  /\ proc[q].pc = "run"
  /\ Len(proc[q].cmd) = 1
  /\ proc[q].cmd[1] \in kinds

\* chdir may fail; that is a status as well.
ChangeDir(q) ==
  /\ Runs(q, {"cd"})
  /\ Result(q, 0)
  /\ UNCHANGED <<eof, history>>

Exit(q) ==
  /\ Runs(q, {"exit"})
  /\ asked' = TRUE
  /\ Result(q, -1)
  /\ UNCHANGED <<eof, fails, later>>

\* The NULL command of a bad redirection kills the process that runs it.
RunNull(q) ==
  /\ Runs(q, {"badredir"})
  /\ Dies(q, 0)
  /\ UNCHANGED <<eof, recycled, garbage, history>>

\* A child replaces itself by the program; the process waits.
ForkProgram(q) ==
  /\ Runs(q, Programs)
  /\ FreePids # {}
  /\ Forks(q, [proc[q] EXCEPT !.pc = "program", !.pfd = 0,
                              !.out = IF proc[q].cmd[1] = "tofile" THEN 0 ELSE @],
              [proc[q] EXCEPT !.pc = "wait", !.waits = 1, !.bad = FALSE])
  /\ UNCHANGED <<eof, recycled, garbage, history>>

-----------------------------------------------------------------------------
(* execute_complex_command                                                 *)

At(q, pc) == proc[q].pc = pc

MakePipe(q) ==
  /\ At(q, "run") /\ Len(proc[q].cmd) > 1
  /\ FreePipes # {}
  /\ LET p == LowestOf(FreePipes)
     IN Update(q, [proc[q] EXCEPT !.pc = "piped", !.pfd = p, !.held = @ \cup Ends(p)])
  /\ UNCHANGED <<eof, recycled, garbage, history>>

ForkLeft(q) ==
  /\ At(q, "piped")
  /\ FreePids # {}
  /\ Forks(q, [proc[q] EXCEPT !.pc = "left", !.cmd = <<Head(@)>>],
              [proc[q] EXCEPT !.pc = "half"])
  /\ UNCHANGED <<eof, recycled, garbage, history>>

ForkRight(q) ==
  /\ At(q, "half")
  /\ FreePids # {}
  /\ Forks(q, [proc[q] EXCEPT !.pc = "right", !.cmd = Tail(@)],
              [proc[q] EXCEPT !.pc = "forked"])
  /\ UNCHANGED <<eof, recycled, garbage, history>>

\* Both children connect one end and close the pipe's two descriptors.
ConnectLeft_KeepsReadEnd(q) ==
  /\ At(q, "left")
  /\ Update(q, [proc[q] EXCEPT !.pc = "run", !.out = proc[q].pfd,
                               !.held = @ \ {<<proc[q].pfd, "w">>}])
  /\ UNCHANGED <<eof, recycled, garbage, history>>
ConnectLeft(q) ==
  /\ At(q, "left")
  /\ Update(q, [proc[q] EXCEPT !.pc = "run", !.out = proc[q].pfd, !.pfd = 0,
                               !.held = @ \ Ends(proc[q].pfd)])
  /\ UNCHANGED <<eof, recycled, garbage, history>>

ConnectRight(q) ==
  /\ At(q, "right")
  /\ Update(q, [proc[q] EXCEPT !.pc = "run", !.in = proc[q].pfd, !.pfd = 0,
                               !.held = @ \ Ends(proc[q].pfd)])
  /\ UNCHANGED <<eof, recycled, garbage, history>>

CloseEnds_KeepsWriteEnd(q) ==
  /\ At(q, "forked")
  /\ Update(q, [proc[q] EXCEPT !.pc = "wait", !.waits = 2, !.bad = FALSE,
                               !.held = @ \ {<<proc[q].pfd, "r">>}])
  /\ UNCHANGED <<eof, recycled, garbage, history>>
CloseEnds_WaitsOnce(q) ==
  /\ At(q, "forked")
  /\ Update(q, [proc[q] EXCEPT !.pc = "wait", !.waits = 1, !.bad = FALSE, !.pfd = 0,
                               !.held = @ \ Ends(proc[q].pfd)])
  /\ UNCHANGED <<eof, recycled, garbage, history>>
CloseEnds(q) ==
  /\ At(q, "forked")
  /\ Update(q, [proc[q] EXCEPT !.pc = "wait", !.waits = 2, !.bad = FALSE, !.pfd = 0,
                               !.held = @ \ Ends(proc[q].pfd)])
  /\ UNCHANGED <<eof, recycled, garbage, history>>

\* pipe() or fork() fails: the function returns 1, whatever pipe is open and
\* whatever child runs.
CallFails(q) ==
  /\ At(q, "piped") \/ At(q, "half") \/ (At(q, "run") /\ Len(proc[q].cmd) > 1) \/ Runs(q, Programs)
  /\ fails < MaxFails
  /\ fails' = fails + 1
  /\ Result(q, 1)
  /\ UNCHANGED <<eof, asked, later>>

-----------------------------------------------------------------------------
(* wait                                                                    *)

\* The result after the last wait: the status of the program, or -1 if a side
\* of the pipe ended with 255.
AfterWait_AnyStatus(q, code) == IF proc[q].bad \/ code = 255 THEN -1 ELSE 0
AfterWait(q, code) ==
  IF Len(proc[q].cmd) = 1 THEN code
  ELSE IF proc[q].bad \/ code = 255 THEN -1 ELSE 0

\* wait() takes any child that has ended.
Reap(q, r) ==
  /\ At(q, "wait")
  /\ proc[q].waits > 1
  /\ r \in Children(q) /\ At(r, "zombie")
  /\ proc' = [proc EXCEPT ![r] = NoProc,
                          ![q] = [proc[q] EXCEPT !.waits = @ - 1,
                                                 !.bad = @ \/ proc[r].code = 255]]
  /\ UNCHANGED <<eof, recycled, garbage, history>>

ReapLast(q, r) ==
  /\ At(q, "wait")
  /\ proc[q].waits = 1
  /\ r \in Children(q) /\ At(r, "zombie")
  /\ ResultAfter(q, AfterWait(q, proc[r].code), {r})
  /\ UNCHANGED <<eof, history>>

-----------------------------------------------------------------------------
(* The programs                                                            *)

Program(q, kinds) == At(q, "program") /\ proc[q].cmd[1] \in kinds

\* A program ends with any status; 255 has a meaning inside a pipeline.
ProgramExits(q) ==
  /\ Program(q, {"finite", "tofile"})
  /\ \E code \in {0, 255} :
       /\ Dies(q, code)
       /\ asked' = (asked \/ (code = 255 /\ proc[q].parent \notin {main, nobody}))
  /\ UNCHANGED <<eof, recycled, garbage, fails, later>>

\* A program that cannot be started is a finite one; so is any with garbage in
\* in, out or err, which name no file.
ProgramFails(q) ==
  /\ Program(q, {"filter", "endless"})
  /\ garbage
  /\ Dies(q, 0)
  /\ UNCHANGED <<eof, recycled, garbage, history>>

\* A filter ends at the end of its input: when nobody can write it any more.
InputEnds(q) ==
  /\ Program(q, {"filter"})
  /\ proc[q].in # 0 /\ Writers(proc[q].in) = {}
  /\ Dies(q, 0)
  /\ UNCHANGED <<eof, recycled, garbage, history>>

TerminalEnds(q) ==
  /\ Program(q, {"filter"})
  /\ proc[q].in = 0
  /\ Dies(q, 0)
  /\ UNCHANGED <<eof, recycled, garbage, history>>

\* Writing to a pipe that nobody can read kills; WEXITSTATUS makes it a 0.
BrokenPipe(q) ==
  /\ Program(q, {"endless", "filter"})
  /\ proc[q].out # 0 /\ Readers(proc[q].out) = {}
  /\ Dies(q, 0)
  /\ UNCHANGED <<eof, recycled, garbage, history>>

-----------------------------------------------------------------------------
(* The specification                                                       *)

Step(q) ==
  \/ ChangeDir(q) \/ Exit(q) \/ RunNull(q) \/ ForkProgram(q)
  \/ MakePipe(q) \/ ForkLeft(q) \/ ForkRight(q)
  \/ ConnectLeft(q) \/ ConnectRight(q) \/ CloseEnds(q)
  \/ \E r \in Pids : Reap(q, r) \/ ReapLast(q, r)
  \/ ProgramExits(q) \/ InputEnds(q) \/ BrokenPipe(q)

Next ==
  \/ ReadLine
  \/ ReadEof
  \/ \E q \in Pids : Step(q) \/ CallFails(q) \/ ProgramFails(q) \/ TerminalEnds(q)

\* Some process runs whenever one can; the steps of a line are finite in
\* number, so that is enough.  The user need not type anything.
Fairness == WF_vars(\E q \in Pids : Step(q))

Spec == Init /\ [][Next]_vars /\ Fairness

-----------------------------------------------------------------------------
(* Properties                                                              *)

States == {"none", "zombie", "prompt", "ended", "crashed", "run", "wait", "piped",
           "half", "forked", "left", "right", "program"}

TypeOK ==
  /\ \A q \in Pids :
       /\ proc[q].pc \in States
       /\ proc[q].parent \in Pids \cup {nobody}
       /\ proc[q].cmd \in Seq(Kinds)
       /\ {proc[q].in, proc[q].out, proc[q].pfd} \subseteq Pipes \cup {0}
       /\ proc[q].held \subseteq UNION {Ends(p) : p \in Pipes}
       /\ proc[q].waits \in 0 .. 2
       /\ proc[q].bad \in BOOLEAN
       /\ proc[q].code \in {0, 255}
  /\ {eof, recycled, garbage, asked} \subseteq BOOLEAN
  /\ fails \in 0 .. MaxFails
  /\ later \in 0 .. MaxLater

\* Each process starts with both ends of every pipe open in its parent
\* (shell.c:369,406).  Once a program runs, or a process waits for its
\* children, it has no pipe end but its stdin and its stdout, and no two
\* segments share one: what follows sees the end of its input.
OnlyOwnEnds ==
  fails = 0 =>
    /\ \A q \in Pids : At(q, "program") \/ At(q, "wait") => proc[q].held = {}
    /\ \A q, r \in Pids :
         At(q, "program") /\ At(r, "program") /\ q # r
           => (proc[q].in = proc[r].in => proc[q].in = 0)
              /\ (proc[q].out = proc[r].out => proc[q].out = 0)

\* The waits of a process and its children match (shell.c:315,455): wait()
\* never fails for want of a child, even after a failed fork has left one
\* behind, and without such a failure the prompt comes back with no process
\* left and no descriptor open.
ChildrenAccounted ==
  /\ \A q \in Pids : At(q, "wait") => Cardinality(Children(q)) >= proc[q].waits
  /\ At(main, "prompt") /\ fails = 0 =>
       /\ \A q \in Pids \ {main} : At(q, "none")
       /\ proc[main].held = {}

\* The shell leaves its loop only if exit was executed or a program of a
\* pipeline ended with 255: the status of a program on a line of its own, and
\* of those of earlier lines, never ends it (shell.c:61-70,315-319,455-468).
\* That a pipeline can end it at all is what BuiltinsIgnored denies.
EndsOnlyIfAsked == fails = 0 /\ At(main, "ended") => asked

\* A line whose programs end by themselves or by the end of their input, the
\* endless ones being followed by one that ends, gives the prompt back: no
\* process waits for a pipe that somebody forgot to close.
EndsByItself(line) ==
  /\ line # <<>>
  /\ line[1] # "filter"
  /\ \A k \in 1 .. Len(line) :
       line[k] = "endless" => k < Len(line) /\ line[k + 1] \notin {"endless", "filter"}
EveryLineEnds ==
  At(main, "run") /\ EndsByItself(proc[main].cmd)
    ~> proc[main].pc \in {"prompt", "ended", "crashed"} \/ fails > 0

-----------------------------------------------------------------------------
(* What a comment says and the code does not do                            *)

\* "If it's exit or cd, you should not execute these in a piped context, so
\* simply ignore builtin commands" (shell.c:336-337): the shell goes on after
\* a pipeline of built-ins.
BuiltinsIgnored ==
  [][ At(main, "wait") /\ Len(proc[main].cmd) > 1
        /\ Range(proc[main].cmd) \subseteq {"cd", "exit"}
      => proc'[main].pc # "ended" ]_vars
=============================================================================
