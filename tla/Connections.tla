---------------------------- MODULE Connections ----------------------------
(***************************************************************************)
(* What the file synchronisation server of assignment04 promises about the *)
(* connections it serves, without the table, the descriptor sets and the   *)
(* select loop it keeps that promise with.                                 *)
(*                                                                         *)
(* A connection is open from accept() to close().  While it is open it may *)
(* hold a session, that is, be the one on which its user's files are       *)
(* synchronised.  While the server serves, a step closes at most one       *)
(* connection and starts no session on another, a session starts only by a *)
(* login on its own connection, and a login takes the session of at most   *)
(* one other connection, which stays open.  DbServer implements this       *)
(* specification.                                                          *)
(***************************************************************************)
EXTENDS Integers

CONSTANT Fds                \* the descriptors a connection can have

VARIABLES up,               \* the server process serves
          open,             \* the accepted connections not closed yet
          session           \* the open connections that hold a session

vars == <<up, open, session>>

Init ==
  /\ up = TRUE
  /\ open = {}
  /\ session = {}

Connect(c) ==
  /\ up
  /\ c \notin open
  /\ open' = open \cup {c}
  /\ UNCHANGED <<up, session>>

\* c gets a session; displaced, if not empty, holds the one connection that
\* loses its session to it.
LogIn(c, displaced) ==
  /\ up
  /\ c \in open \ session
  /\ session' = (session \ displaced) \cup {c}
  /\ UNCHANGED <<up, open>>

\* A session ends while its connection stays open.
Demote(c) ==
  /\ up
  /\ c \in session
  /\ session' = session \ {c}
  /\ UNCHANGED <<up, open>>

Close(c) ==
  /\ up
  /\ c \in open
  /\ open' = open \ {c}
  /\ session' = session \ {c}
  /\ UNCHANGED up

\* The server shuts down, closing the connections it knows of, or its process
\* dies.
Stop ==
  /\ up
  /\ up' = FALSE
  /\ open' \in SUBSET open
  /\ session' = session \cap open'

Next ==
  \/ \E c \in Fds : Connect(c)
  \/ \E c \in Fds : LogIn(c, {})
  \/ \E c \in Fds, d \in session : LogIn(c, {d})
  \/ \E c \in Fds : Demote(c) \/ Close(c)
  \/ Stop

Spec == Init /\ [][Next]_vars
=============================================================================
