------------------------------ MODULE BufServer ------------------------------
(***************************************************************************)
(* The line buffering server of lab07 (bufserver.c) with its clients       *)
(* (randclient.c), which send lines ending in "\r\n" in pieces that have   *)
(* nothing to do with the lines.                                           *)
(*                                                                         *)
(* A byte is CR, LF, NUL, JUNK (any other byte the memory held before), or *)
(* a number k, standing for the text of the k-th line of a connection.     *)
(* The buffer is modelled with the two bytes after it, which the search    *)
(* for a newline looks at when the buffer is full.  It is a local variable *)
(* that nothing initialises, and it keeps its contents from one connection *)
(* to the next.                                                            *)
(*                                                                         *)
(* Operators named X_Fault are faulty forms of X, plausible mistakes in    *)
(* the code it models; no specification here uses them.                    *)
(***************************************************************************)
EXTENDS Integers, FiniteSets, SequencesExt

CONSTANTS CAP,              \* sizeof(buf)
          MESSAGE,          \* sizeof(message): the length of randclient's line
          TIMES,            \* the lines a client sends
          MINCHARS, MAXCHARS,
          LineLengths,      \* what other clients send
          DirtyCells,       \* where the memory may hold a CR or an LF
          MaxConnections    \* bound of the instance

CR == -1
LF == -2
NUL == -3
JUNK == -4

ASSUME BufAssumption ==
  /\ CAP \in Nat \ {0}
  /\ MESSAGE \in Nat /\ MESSAGE >= 2
  /\ TIMES \in Nat
  /\ MINCHARS \in Nat \ {0} /\ MAXCHARS \in Nat /\ MINCHARS <= MAXCHARS
  /\ LineLengths \subseteq Nat /\ \A n \in LineLengths : n >= 2
  /\ MaxConnections \in Nat

\* One line of randclient's fits the buffer, and no two (18 bytes and 30).
ASSUME RandclientAssumption == MESSAGE <= CAP /\ CAP < 2 * MESSAGE

VARIABLES
  clients,      \* who connects: "randclient" or "others"
  clean,        \* history: the buffer began without CR and LF in it, and no
                \* connection ended between the two
  connections,  \* accepted so far
  lines,        \* the lines this connection's client wants to send
  client,       \* "sending", "closed" or "reset"
  unsent,       \* the bytes it has still to write
  wire,         \* the bytes written and not read
  server,       \* "accepting", "reading" or "crashed"
  buf, inbuf,
  printed       \* the lines printed for this connection

clientVars == <<clients, clean, connections, lines, client, unsent>>
vars == <<clientVars, wire, server, buf, inbuf, printed>>

-----------------------------------------------------------------------------
(* The lines of a client                                                   *)

Line(k, length) ==
  [i \in 1 .. length |-> CASE i = length     -> LF
                           [] i = length - 1 -> CR
                           [] OTHER          -> k]

Smaller(a, b) == IF a < b THEN a ELSE b

-----------------------------------------------------------------------------
(* The buffer                                                              *)

Cells == 0 .. CAP + 1
Bytes == {CR, LF, NUL, JUNK} \cup 1 .. TIMES

room_NoEnd == CAP + 1 - inbuf
room == CAP - inbuf

\* read() into the n bytes at after = buf + inbuf.
Filled(n) ==
  [i \in Cells |-> IF i \in inbuf .. inbuf + n - 1 THEN wire[i - inbuf + 1]
                                                   ELSE buf[i]]

\* The search ends at the first "\r\n", wherever its two bytes come from, or
\* after n bytes; what is there then decides.
find_network_newline_NewBytes(b, n) ==
  LET end == Min({i \in inbuf .. n : (b[i] = CR /\ b[i + 1] = LF) \/ i = n})
  IN IF b[end] = CR THEN end ELSE -1
find_network_newline_OnlyCR(b, n) ==
  LET cr == {i \in 0 .. n - 1 : b[i] = CR}
  IN IF cr = {} THEN -1 ELSE Min(cr)
find_network_newline(b, n) ==
  LET end == Min({i \in 0 .. n : (b[i] = CR /\ b[i + 1] = LF) \/ i = n})
  IN IF b[end] = CR THEN end ELSE -1

\* What printf shows of a line whose newline is at where: what comes before.
Shown(b, where) == [i \in 1 .. where |-> b[i - 1]]

\* The buffer after a line of line_len bytes was cut off its n bytes: the
\* line's end is overwritten for printf, then the rest moves down.
Shifted_FromLF(b, line_len, n) ==
  LET ended == [b EXCEPT ![line_len - 2] = LF, ![line_len - 1] = NUL]
  IN [i \in Cells |-> IF line_len + i < n THEN ended[line_len - 1 + i] ELSE ended[i]]
Shifted(b, line_len, n) ==
  LET ended == [b EXCEPT ![line_len - 2] = LF, ![line_len - 1] = NUL]
  IN [i \in Cells |-> IF line_len + i < n THEN ended[line_len + i] ELSE ended[i]]

-----------------------------------------------------------------------------
(* Actions                                                                 *)

Init ==
  /\ clients \in {"randclient", "others"}
  /\ \/ /\ clean = TRUE
        /\ buf = [i \in Cells |-> JUNK]
     \/ /\ clean = FALSE
        /\ \E i \in DirtyCells, b \in {CR, LF} :
             buf = [[c \in Cells |-> JUNK] EXCEPT ![i] = b]
  /\ connections = 0
  /\ lines = <<>>
  /\ client = "closed"
  /\ unsent = <<>>
  /\ wire = <<>>
  /\ server = "accepting"
  /\ inbuf = 0
  /\ printed = <<>>

\* A client connects and is accepted.
Accept ==
  /\ server = "accepting"
  /\ connections < MaxConnections
  /\ \E text \in [1 .. TIMES -> IF clients = "randclient" THEN {MESSAGE} ELSE LineLengths] :
       lines' = [k \in 1 .. TIMES |-> Line(k, text[k])]
  /\ connections' = connections + 1
  /\ client' = "sending"
  /\ unsent' = FlattenSeq(lines')
  /\ wire' = <<>>
  /\ server' = "reading"
  /\ inbuf' = 0
  /\ printed' = <<>>
  /\ UNCHANGED <<clients, clean, buf>>

\* The client writes a piece.
WritePiece ==
  /\ server = "reading"
  /\ client = "sending"
  /\ unsent # <<>>
  /\ \E howmany \in MINCHARS .. MAXCHARS :
       LET n == Smaller(howmany, Len(unsent))
       IN /\ wire' = wire \o SubSeq(unsent, 1, n)
          /\ unsent' = SubSeq(unsent, n + 1, Len(unsent))
  /\ UNCHANGED <<clients, clean, connections, lines, client, server, buf, inbuf, printed>>

\* The client closes its socket, at the end of its program or because it died.
ClientCloses ==
  /\ server = "reading"
  /\ client = "sending"
  /\ client' = "closed"
  /\ UNCHANGED <<clients, clean, connections, lines, unsent, wire, server, buf, inbuf, printed>>

\* The connection breaks; what was not read is lost.
ConnectionReset ==
  /\ server = "reading"
  /\ client = "sending"
  /\ client' = "reset"
  /\ wire' = <<>>
  /\ UNCHANGED <<clients, clean, connections, lines, unsent, server, buf, inbuf, printed>>

\* read() returns n bytes, at most what there is room for; one line is
\* printed and removed.  A newline that ends beyond the received bytes
\* makes inbuf negative: memmove gets a count near 2^64 and the server dies.
ReadBytes_NoShift(n) ==
  /\ server = "reading"
  /\ wire' = SubSeq(wire, n + 1, Len(wire))
  /\ LET got == Filled(n)
         where == find_network_newline(got, inbuf + n)
     IN /\ buf' = got
        /\ inbuf' = inbuf + n
        /\ printed' = IF where >= 0 THEN Append(printed, Shown(got, where)) ELSE printed
        /\ UNCHANGED <<clientVars, server>>
ReadBytes(n) ==
  /\ server = "reading"
  /\ wire' = SubSeq(wire, n + 1, Len(wire))
  /\ LET got == Filled(n)
         where == find_network_newline(got, inbuf + n)
         line_len == where + 2
     IN \/ /\ where < 0
           /\ buf' = got
           /\ inbuf' = inbuf + n
           /\ UNCHANGED <<clientVars, server, printed>>
        \/ /\ where >= 0
           /\ printed' = Append(printed, Shown(got, where))
           /\ IF line_len <= inbuf + n
              THEN /\ inbuf' = inbuf + n - line_len
                   /\ buf' = Shifted(got, line_len, inbuf + n)
                   /\ server' = server
              ELSE /\ server' = "crashed"
                   /\ UNCHANGED <<buf, inbuf>>
           /\ UNCHANGED clientVars

Read == \E n \in 1 .. Smaller(room, Len(wire)) : ReadBytes(n)

\* read() returns 0 or -1: the end of the stream, a broken connection, or no
\* room, which looks like the end of the stream.  What is left in the buffer
\* is forgotten.
AtEnd_HungUp == client # "sending" \/ room = 0
AtEnd == (client = "closed" /\ wire = <<>>) \/ client = "reset" \/ room = 0
CloseConnection ==
  /\ server = "reading"
  /\ AtEnd
  /\ server' = "accepting"
  /\ client' = IF client = "sending" THEN "reset" ELSE client
  /\ wire' = <<>>
  /\ clean' = (clean /\ ~(inbuf > 0 /\ buf[inbuf - 1] = CR))
  /\ UNCHANGED <<clients, connections, lines, unsent, buf, inbuf, printed>>

Next ==
  \/ Accept
  \/ WritePiece
  \/ ClientCloses
  \/ ConnectionReset
  \/ Read
  \/ CloseConnection

\* The server does nothing but read, and accept() and read() return when they
\* can.  Nothing makes a client write.
Fairness == WF_vars(Read \/ CloseConnection)

Spec == Init /\ [][Next]_vars /\ Fairness

-----------------------------------------------------------------------------
(* Properties                                                              *)

TypeOK ==
  /\ clients \in {"randclient", "others"}
  /\ clean \in BOOLEAN
  /\ connections \in 0 .. MaxConnections
  /\ lines \in Seq(Seq(Bytes))
  /\ client \in {"sending", "closed", "reset"}
  /\ unsent \in Seq(Bytes)
  /\ wire \in Seq(Bytes)
  /\ server \in {"accepting", "reading", "crashed"}
  /\ buf \in [Cells -> Bytes]
  /\ inbuf \in 0 .. CAP
  /\ printed \in Seq(Seq(Bytes))

\* The case the program is written for: its own client, and a buffer in which
\* no CR or LF is left but those of finished lines.  Without it the search may
\* find a newline that nobody sent: a client that dies after the CR of a line
\* leaves it for the next connection, and the server can crash there.
Calm == clients = "randclient" /\ clean

Text(k) == SubSeq(lines[k], 1, Len(lines[k]) - 2)
Received(b, n) == [i \in 1 .. n |-> b[i - 1]]
HoldsLine(bytes) ==
  \E i \in 1 .. Len(bytes) - 1 : bytes[i] = CR /\ bytes[i + 1] = LF

\* The lines of which every byte was written.
SentLines == 1 .. Len(lines) - Cardinality({i \in DOMAIN unsent : unsent[i] = LF})

\* Whatever the pieces and the reads, and whatever the lengths of the lines,
\* the lines come out whole, once each and in order, as long as the server
\* lives (bufserver.c:94-135).
PrintedInOrder ==
  server # "crashed" =>
    /\ Len(printed) <= Len(lines)
    /\ \A k \in 1 .. Len(printed) : printed[k] = Text(k)

\* Only one line leaves the buffer per read (bufserver.c:101).  For the
\* program's own client that is enough: no line stays behind in the buffer,
\* where the end of the connection would lose it.
NoLineWaits ==
  Calm /\ server = "reading" => ~HoldsLine(Received(buf, inbuf))

\* The search looks one byte past the received ones (bufserver.c:58): it may
\* take a leftover of an earlier line for the end of this one.  For the
\* program's own client it never does, on the first connection or on later
\* ones, so that inbuf stays non-negative.
CalmNeverCrashes == Calm => server # "crashed"

\* A full buffer makes read() return 0, which the server takes for the end of
\* the stream (bufserver.c:94,131).  That happens only to a client with a line
\* longer than the buffer, however many short lines pile up in it.
ClosedEarlyOnlyForLongLine ==
  [][ server = "reading" /\ server' = "accepting" /\ client = "sending"
        => \E k \in 1 .. Len(lines) : Len(lines[k]) > CAP ]_vars

\* Each line the program's own client has sent in full is printed, unless the
\* connection breaks: the server waits for no more input than the line itself,
\* and does not close before it has read everything.
EachLinePrinted ==
  \A k \in 1 .. TIMES :
    Calm /\ k \in SentLines ~> Len(printed) >= k \/ client = "reset"
=============================================================================
