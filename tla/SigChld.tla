------------------------------- MODULE SigChld -------------------------------
(***************************************************************************)
(* lab09/sigchld.c: a process forks children, counts them down in its      *)
(* handler of SIGCHLD, and computes until none is left.                    *)
(*                                                                         *)
(* Signals do not queue: SIGCHLD is one pending bit.  A child that stops   *)
(* raises it too, as the handler is installed without SA_NOCLDSTOP.        *)
(*                                                                         *)
(* Operators named X_Fault are faulty forms of X, plausible mistakes in    *)
(* the code it models; no specification here uses them.                    *)
(***************************************************************************)
EXTENDS Integers, FiniteSets

CONSTANTS N,                \* the number of children asked for
          MaxStops          \* times a child is stopped

ASSUME SigChldAssumption == N \in Nat /\ MaxStops \in Nat

VARIABLES
  paced,        \* chosen at the start: children end one at a time, each after
                \* the one before was dealt with, as their sleeps intend
  main,         \* "forking", "computing", "done" or "failed"
  forked,       \* children made so far
  numkids,
  pending,      \* SIGCHLD is pending
  handler,      \* "idle", "waiting" in wait(), or "counting" after it
  status,       \* what wait() told: the child "exited" or was "killed"
  child,        \* per child: "none", "running", "stopped", "exited" or "killed"
                \* (a zombie), "reaped" or "buried" (waited for after either)
  stops, kills  \* history: stops so far, whether a child was killed

mainVars == <<main, forked>>
handlerVars == <<handler, status, numkids>>
childVars == <<child, stops, kills>>
vars == <<paced, mainVars, handlerVars, pending, childVars>>

Kids == 0 .. N - 1
States == {"none", "running", "stopped", "exited", "killed", "reaped", "buried"}
Are(how) == {k \in Kids : child[k] = how}
Zombies == Are("exited") \cup Are("killed")

-----------------------------------------------------------------------------
(* The main program                                                        *)

Init ==
  /\ paced \in BOOLEAN
  /\ main = "forking"
  /\ forked = 0
  /\ numkids = N
  /\ pending = FALSE
  /\ handler = "idle"
  /\ status = "exited"
  /\ child = [k \in Kids |-> "none"]
  /\ stops = 0
  /\ kills = FALSE

\* The loop runs to k, a copy of numkids, which the handler changes.
Fork_ToNumkids ==
  /\ main = "forking" /\ handler = "idle"
  /\ forked < numkids
  /\ child' = [child EXCEPT ![forked] = "running"]
  /\ forked' = forked + 1
  /\ UNCHANGED <<paced, main, handlerVars, pending, stops, kills>>
Fork ==
  /\ main = "forking"
  /\ handler = "idle"
  /\ forked < N
  /\ child' = [child EXCEPT ![forked] = "running"]
  /\ forked' = forked + 1
  /\ UNCHANGED <<paced, main, handlerVars, pending, stops, kills>>

ForkFails ==
  /\ main = "forking"
  /\ handler = "idle"
  /\ forked < N
  /\ main' = "failed"
  /\ UNCHANGED <<paced, forked, handlerVars, pending, childVars>>

AllForked ==
  /\ main = "forking"
  /\ handler = "idle"
  /\ forked = N
  /\ main' = "computing"
  /\ UNCHANGED <<paced, forked, handlerVars, pending, childVars>>

\* The loop's condition fails.
LeaveLoop_LastKid ==
  /\ main = "computing" /\ handler = "idle" /\ numkids <= 1
  /\ main' = "done"
  /\ UNCHANGED <<paced, forked, handlerVars, pending, childVars>>
LeaveLoop ==
  /\ main = "computing"
  /\ handler = "idle"
  /\ numkids <= 0
  /\ main' = "done"
  /\ UNCHANGED <<paced, forked, handlerVars, pending, childVars>>

-----------------------------------------------------------------------------
(* The handler, which interrupts the main program                          *)

Running == main \in {"forking", "computing"}

\* SIGCHLD is blocked while the handler runs.
Deliver ==
  /\ Running
  /\ pending
  /\ handler = "idle"
  /\ pending' = FALSE
  /\ handler' = "waiting"
  /\ UNCHANGED <<paced, mainVars, status, numkids, childVars>>

AfterWait(how) == IF how = "exited" THEN "reaped" ELSE "buried"

\* wait() takes any zombie, and blocks while there is none.
Wait_All ==
  /\ Running /\ handler = "waiting" /\ Zombies # {}
  /\ status' \in {child[k] : k \in Zombies}
  /\ child' = [k \in Kids |-> IF k \in Zombies THEN AfterWait(child[k]) ELSE child[k]]
  /\ handler' = "counting"
  /\ UNCHANGED <<paced, mainVars, numkids, pending, stops, kills>>
Wait ==
  /\ Running
  /\ handler = "waiting"
  /\ \E k \in Zombies :
       /\ status' = child[k]
       /\ child' = [child EXCEPT ![k] = AfterWait(child[k])]
  /\ handler' = "counting"
  /\ UNCHANGED <<paced, mainVars, numkids, pending, stops, kills>>

\* Without any child wait() fails and the handler ends the process.
WaitFails_GoesOn ==
  /\ Running /\ handler = "waiting"
  /\ \A k \in Kids : child[k] \in {"none", "reaped", "buried"}
  /\ handler' = "counting"
  /\ UNCHANGED <<paced, mainVars, status, numkids, pending, childVars>>
WaitFails ==
  /\ Running
  /\ handler = "waiting"
  /\ \A k \in Kids : child[k] \in {"none", "reaped", "buried"}
  /\ main' = "failed"
  /\ UNCHANGED <<paced, forked, handlerVars, pending, childVars>>

Count_Killed ==
  /\ Running /\ handler = "counting"
  /\ numkids' = numkids - 1
  /\ handler' = "idle"
  /\ UNCHANGED <<paced, mainVars, status, pending, childVars>>
Count ==
  /\ Running
  /\ handler = "counting"
  /\ numkids' = IF status = "exited" THEN numkids - 1 ELSE numkids
  /\ handler' = "idle"
  /\ UNCHANGED <<paced, mainVars, status, pending, childVars>>

-----------------------------------------------------------------------------
(* The children                                                            *)

Quiet == paced => ~pending /\ handler = "idle"

\* do_child: the child sleeps and exits.
ChildExits(k) ==
  /\ child[k] = "running"
  /\ Quiet
  /\ child' = [child EXCEPT ![k] = "exited"]
  /\ pending' = TRUE
  /\ UNCHANGED <<paced, mainVars, handlerVars, stops, kills>>

ChildKilled(k) ==
  /\ child[k] \in {"running", "stopped"}
  /\ Quiet
  /\ child' = [child EXCEPT ![k] = "killed"]
  /\ kills' = TRUE
  /\ pending' = TRUE
  /\ UNCHANGED <<paced, mainVars, handlerVars, stops>>

ChildStops(k) ==
  /\ child[k] = "running"
  /\ stops < MaxStops
  /\ child' = [child EXCEPT ![k] = "stopped"]
  /\ stops' = stops + 1
  /\ pending' = TRUE
  /\ UNCHANGED <<paced, mainVars, handlerVars, kills>>

ChildContinues(k) ==
  /\ child[k] = "stopped"
  /\ child' = [child EXCEPT ![k] = "running"]
  /\ pending' = TRUE
  /\ UNCHANGED <<paced, mainVars, handlerVars, stops, kills>>

-----------------------------------------------------------------------------
(* The specification                                                       *)

Main == Fork \/ AllForked \/ LeaveLoop
Handler == Deliver \/ Wait \/ WaitFails \/ Count

Next ==
  \/ Main
  \/ ForkFails
  \/ Handler
  \/ \E k \in Kids : ChildExits(k) \/ ChildKilled(k) \/ ChildStops(k) \/ ChildContinues(k)

\* The process is scheduled, its signals are delivered, its children wake up.
Fairness ==
  /\ WF_vars(Main)
  /\ WF_vars(Handler)
  /\ \A k \in Kids : WF_vars(ChildExits(k))

Spec == Init /\ [][Next]_vars /\ Fairness

-----------------------------------------------------------------------------
(* Properties                                                              *)

TypeOK ==
  /\ paced \in BOOLEAN
  /\ main \in {"forking", "computing", "done", "failed"}
  /\ forked \in 0 .. N
  /\ numkids \in 0 .. N
  /\ pending \in BOOLEAN
  /\ handler \in {"idle", "waiting", "counting"}
  /\ status \in {"exited", "killed"}
  /\ child \in [Kids -> States]
  /\ stops \in 0 .. MaxStops
  /\ kills \in BOOLEAN

\* The process does not leave its loop before every child was made, exited by
\* itself and was waited for, however signals merge, nest or come from
\* children that stop (sigchld.c:20-25,87).
DoneMeansReaped == main = "done" => Are("reaped") = Kids

\* There is a zombie for every run of the handler, so that its wait() neither
\* blocks the program nor fails and ends it (sigchld.c:16-19), as long as no
\* child is stopped: a signal is raised per death, and each run reaps one.
HandlerFindsZombie ==
  stops = 0 /\ Running /\ handler = "waiting" => Zombies # {}

\* The loop ends if the children end one at a time, as their sleeps intend.
\* (If two end before the signal of the first is delivered, one of them is
\* never waited for; a killed child is not counted: both leave the loop
\* running for ever.)
EndsWhenPaced ==
  paced => <>(~Running \/ stops > 0 \/ kills)
=============================================================================
