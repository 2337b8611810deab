------------------------------ MODULE Countdown ------------------------------
(***************************************************************************)
(* The time bomb of lab08: countdown.c counts down, once per two seconds   *)
(* in which its client says nothing, tells the client each number and      *)
(* explodes at 0; client.c shows the numbers and sends the ones its user   *)
(* types, which reset the counter.                                         *)
(*                                                                         *)
(* A message is an int that went through htons: two bytes, the other two   *)
(* are 0.  A byte has Byte values (256 in the code).                       *)
(*                                                                         *)
(* Operators named X_Fault are faulty forms of X, plausible mistakes in    *)
(* the code it models; no specification here uses them.                    *)
(***************************************************************************)
EXTENDS Integers, Sequences

CONSTANTS Byte,             \* the number of values of a byte
          START,            \* counter's first value
          Numbers,          \* what the user types
          NoNumber,         \* a line that is not a number
          MaxTyped,         \* lines the user types
          MaxWire           \* numbers on their way in one direction

ASSUME CountdownAssumption ==
  /\ Byte \in Nat /\ Byte >= 2
  /\ START \in 1 .. Byte * Byte - 1
  /\ Numbers \subseteq Int
  /\ NoNumber \notin Int
  /\ MaxTyped \in Nat
  /\ MaxWire \in Nat \ {0}

VARIABLES
  server,               \* "up", "exploded" or "exited"
  counter,
  client,               \* "up", "closed" or "killed"
  ready,                \* what select told the client and it has not handled
  shown,                \* the last number shown
  typed, eof,           \* lines read from stdin, its end reached
  line,                 \* what sscanf finds in buf
  asked,                \* history: the counters the client asked for
  toServer, toClient,   \* numbers on their way
  broken                \* the connection was reset

serverVars == <<server, counter>>
clientVars == <<client, ready, shown, typed, eof, line, asked>>
wireVars == <<toServer, toClient, broken>>
vars == <<serverVars, clientVars, wireVars>>

-----------------------------------------------------------------------------
(* Conversions                                                             *)

\* The 16 bits of an int, and their two bytes swapped.
Short == Byte * Byte
Swap(x) == LET s == x % Short IN (s % Byte) * Byte + s \div Byte
htons(x) == Swap(x)
ntohs(x) == Swap(x)

-----------------------------------------------------------------------------
(* The server                                                              *)

Up == server = "up"

\* The process ends and its socket is closed.  If it leaves messages unread
\* the connection is reset, and numbers on their way may be lost.
ServerEnds(how, sent) ==
  /\ server' = how
  /\ broken' = (broken \/ toServer # <<>>)
  /\ \E n \in (IF broken' THEN 0 ELSE Len(sent)) .. Len(sent) :
       toClient' = SubSeq(sent, 1, n)
  /\ toServer' = <<>>

\* What the server writes is lost if there is no client any more.
Sent_Twice(n) ==
  IF client = "up" THEN toClient \o <<htons(n), htons(n)>> ELSE toClient
Sent(n) == IF client = "up" THEN Append(toClient, htons(n)) ELSE toClient

\* Select times out: nothing from the client has arrived.  With the counter
\* at 0 nothing happens, for ever.
Tick_SkipZero ==
  /\ Up /\ counter > 0 /\ Len(toClient) < MaxWire
  /\ counter' = counter - 1
  /\ IF counter' <= 0
     THEN ServerEnds("exploded", toClient)
     ELSE toClient' = Sent(counter') /\ UNCHANGED <<server, toServer, broken>>
  /\ UNCHANGED clientVars
Tick_FromZero ==
  /\ Up /\ counter >= 0 /\ Len(toClient) < MaxWire
  /\ counter' = counter - 1
  /\ IF counter' = 0
     THEN ServerEnds("exploded", Sent(counter'))
     ELSE toClient' = Sent(counter') /\ UNCHANGED <<server, toServer, broken>>
  /\ UNCHANGED clientVars
Tick_Forever ==
  /\ Up /\ counter > 0 /\ Len(toClient) < MaxWire
  /\ counter' = counter - 1
  /\ toClient' = Sent(counter')
  /\ UNCHANGED <<server, toServer, broken, clientVars>>
Tick ==
  /\ Up
  /\ counter > 0
  /\ Len(toClient) < MaxWire
  /\ counter' = counter - 1
  /\ IF counter' <= 0
     THEN ServerEnds("exploded", Sent(counter'))
     ELSE toClient' = Sent(counter') /\ UNCHANGED <<server, toServer, broken>>
  /\ UNCHANGED clientVars

\* The client's number is the new counter.
Reset ==
  /\ Up
  /\ toServer # <<>>
  /\ counter' = ntohs(Head(toServer))
  /\ toServer' = Tail(toServer)
  /\ UNCHANGED <<server, clientVars, toClient, broken>>

\* read() returns 0 or -1 once the client is gone.
ClientGone ==
  /\ Up
  /\ client # "up"
  /\ toServer = <<>>
  /\ ServerEnds("exited", toClient)
  /\ UNCHANGED <<counter, clientVars>>

-----------------------------------------------------------------------------
(* The client                                                              *)

Waiting == client = "up" /\ ready = {}
StdinReady == eof \/ typed < MaxTyped
SocketReady == toClient # <<>> \/ ~Up

Select ==
  /\ Waiting
  /\ ready' \in SUBSET {"stdin", "socket"} \ {{}}
  /\ "stdin" \in ready' => StdinReady
  /\ eof => "stdin" \in ready'
  /\ "socket" \in ready' => SocketReady
  /\ UNCHANGED <<serverVars, client, shown, typed, eof, line, asked, wireVars>>

\* The process ends.  If it leaves numbers unread the connection is reset,
\* and numbers on their way may be lost.
ClientEnds(how) ==
  /\ client' = how
  /\ ready' = {}
  /\ broken' = (broken \/ toClient # <<>>)
  /\ \E n \in (IF broken' THEN 0 ELSE Len(toServer)) .. Len(toServer) :
       toServer' = SubSeq(toServer, 1, n)
  /\ toClient' = <<>>

\* The number found in the line is sent.  Without a server the first write
\* resets the connection, and a later one kills the client (SIGPIPE).
SendNumber(n) ==
  /\ asked' = asked \cup {n % Short}
  /\ \/ /\ Up
        /\ Len(toServer) < MaxWire
        /\ toServer' = Append(toServer, htons(n))
        /\ ready' = ready \ {"stdin"}
        /\ UNCHANGED <<client, toClient, broken>>
     \/ /\ ~Up
        /\ broken' = TRUE
        /\ ready' = ready \ {"stdin"}
        /\ UNCHANGED <<client, toServer, toClient>>
     \/ /\ ~Up
        /\ broken
        /\ ClientEnds("killed")

\* A line without a number makes the loop continue: the socket, ready or not,
\* is left for the next pass.
SkipLine ==
  /\ ready' = {}
  /\ UNCHANGED <<client, asked, wireVars>>

Parse == IF line' = NoNumber THEN SkipLine ELSE SendNumber(line')

\* The user types a number, or something else.  After an empty line sscanf
\* skips the newline and finds what earlier lines have left in buf.
ReadLine ==
  /\ "stdin" \in ready
  /\ ~eof
  /\ line' \in Numbers \cup {NoNumber}
  /\ typed' = typed + 1
  /\ Parse
  /\ UNCHANGED <<serverVars, shown, eof>>

\* At the end of stdin read() returns 0: buf is parsed as it is, in this pass
\* and in every later one.
ReadEof ==
  /\ "stdin" \in ready
  /\ eof' = TRUE
  /\ UNCHANGED <<serverVars, shown, typed, line>>
  /\ Parse

\* The socket is read after stdin.
ShowNumber ==
  /\ client = "up"
  /\ ready = {"socket"}
  /\ toClient # <<>>
  /\ shown' = ntohs(Head(toClient))
  /\ toClient' = Tail(toClient)
  /\ ready' = {}
  /\ UNCHANGED <<serverVars, client, typed, eof, line, asked, toServer, broken>>

ServerGone_OnlyError ==
  /\ client = "up"
  /\ ready = {"socket"}
  /\ toClient = <<>>
  /\ broken
  /\ ClientEnds("closed")
  /\ UNCHANGED <<serverVars, shown, typed, eof, line, asked>>
ServerGone ==
  /\ client = "up"
  /\ ready = {"socket"}
  /\ toClient = <<>>
  /\ ClientEnds("closed")
  /\ UNCHANGED <<serverVars, shown, typed, eof, line, asked>>

\* The user interrupts the client.
Interrupt ==
  /\ client = "up"
  /\ ClientEnds("killed")
  /\ UNCHANGED <<serverVars, shown, typed, eof, line, asked>>

-----------------------------------------------------------------------------
(* The specification                                                       *)

\* buf holds anything before the first line.
Init ==
  /\ server = "up"
  /\ counter = START
  /\ client = "up"
  /\ ready = {}
  /\ shown = START
  /\ typed = 0
  /\ eof = FALSE
  /\ line \in Numbers \cup {NoNumber}
  /\ asked = {}
  /\ toServer = <<>>
  /\ toClient = <<>>
  /\ broken = FALSE

ServerStep == Tick \/ Reset \/ ClientGone
HandleReady == ReadLine \/ ReadEof \/ ShowNumber \/ ServerGone

Next == ServerStep \/ Select \/ HandleReady \/ Interrupt

\* Both processes run; time passes, so that a timeout comes if nothing else
\* does; what is written arrives, so that select does not report the user's
\* input for ever and the socket never.
Fairness ==
  /\ WF_vars(Tick)
  /\ WF_vars(Reset \/ ClientGone)
  /\ WF_vars(HandleReady)
  /\ SF_vars(Select /\ "socket" \in ready')

Spec == Init /\ [][Next]_vars /\ Fairness

-----------------------------------------------------------------------------
(* Properties                                                              *)

TypeOK ==
  /\ server \in {"up", "exploded", "exited"}
  /\ counter \in 0 .. Short - 1
  /\ client \in {"up", "closed", "killed"}
  /\ ready \subseteq {"stdin", "socket"}
  /\ shown \in 0 .. Short - 1
  /\ typed \in 0 .. MaxTyped
  /\ eof \in BOOLEAN
  /\ line \in Numbers \cup {NoNumber}
  /\ asked \subseteq 0 .. Short - 1
  /\ toServer \in Seq(0 .. Short - 1)
  /\ toClient \in Seq(0 .. Short - 1)
  /\ broken \in BOOLEAN

\* A client that was not cut off has shown the 0 of the explosion when it
\* finds the server gone: the last number is written before the process exits
\* and read before the end of the stream (countdown.c:62-70).
LastShownIsZero ==
  server = "exploded" /\ client = "closed" /\ ~broken => shown = 0

\* Each time the client shows a number, it is one less than the number shown
\* before, or than one the client has asked for, whatever resets and ticks
\* crossed on the wire: without a request no count is skipped, shown twice or
\* garbled by the conversions (countdown.c:60-64,79; client.c:85,107).
ShownFollows ==
  [][ ShowNumber => shown' + 1 \in {shown} \cup asked ]_vars

\* The bomb explodes, or its client ends it, unless a number was typed whose
\* lower 16 bits are 0 (the counter then stands at 0 for ever) or stdin is at
\* its end (the client then sends its last number again and again).
Explodes == <>(~Up \/ 0 \in asked \/ eof)

\* Neither process outlives the other for long, unless stdin is at its end
\* with no number in buf: the client then never gets to its socket.
BothEnd ==
  /\ ~Up ~> client # "up" \/ (eof /\ line = NoNumber)
  /\ client # "up" ~> ~Up
=============================================================================
