---------------------------- MODULE SyncSession ----------------------------
(***************************************************************************)
(* One client of the file synchronisation system of assignment04 and the   *)
(* server's side of its session: the main loop of dbclient.c, do_sync and  *)
(* sync_to_client of dbserver.c, send_file and recv_chunk of filesync.c,   *)
(* over the two byte streams of a TCP connection.                          *)
(*                                                                         *)
(* A stream carries units; a sync message is three of them (its fields), a *)
(* file is one per element of its contents.  Every write() is one segment  *)
(* of units.  Segments arrive whole and in order.  On a "prompt" network   *)
(* the next one arrives once the reader has emptied its buffer; on a       *)
(* "merging" one segments pile up in the buffer and a read() takes as many *)
(* units as it asks for.                                                   *)
(*                                                                         *)
(* The session is logged in from the start (DbServer has the login), and   *)
(* readdir's entries that are not regular files are left out: the client   *)
(* skips them.  Each machine stamps files with its own clock, in seconds.  *)
(* Users change files at any time, on the client and, through other        *)
(* sessions, on the server, with two exceptions: a file the client has     *)
(* announced and may still read does not change before it is read to its   *)
(* end, nor does one on the server in the middle of do_sync.  A file made  *)
(* during a round is not among the entries readdir returns in it.  A file  *)
(* with modification time 0 does not exist.                                *)
(*                                                                         *)
(* Operators named X_Fault are faulty forms of X, plausible mistakes in    *)
(* the code it models; no specification here uses them.                    *)
(***************************************************************************)
EXTENDS Integers, Sequences

CONSTANTS Names,            \* the files, at most MAXFILES
          NoName,           \* the empty string
          Sizes,            \* the sizes users give to files
          CHUNKSIZE,
          SizeMod,          \* size_t counts modulo this
          Networks,         \* the kinds of network, of "prompt" and "merging"
          MaxSkew,          \* how far the two clocks may be apart
          MaxClock, MaxEdits, MaxCrashes    \* bounds of the instance

\* The units of a sync message: its fields.
SyncLen == 3

\* A message is no longer than a chunk (80 and 256 bytes).
ASSUME SessionAssumption ==
  /\ NoName \notin Names
  /\ CHUNKSIZE \in Nat /\ SyncLen <= CHUNKSIZE
  /\ SizeMod \in Nat /\ CHUNKSIZE < SizeMod
  /\ Sizes \subseteq 0 .. SizeMod - 1
  /\ Networks \subseteq {"prompt", "merging"}
  /\ MaxSkew \in Nat
  /\ MaxClock \in Nat \ {0} /\ MaxEdits \in Nat /\ MaxCrashes \in Nat

VARIABLES
  network,
  cclock, sclock,       \* the client's clock and the server's
  edits, crashes,       \* how many there have been
  cdisk, sdisk,         \* the client's and the server's directory
  toServer, toClient,   \* the streams: segments on the wire, units in the buffer
  pc,                   \* where dbclient's main loop is
  todo,                 \* the files readdir has still to return
  msg, reply,           \* the sync messages of the exchange in progress
  offset, bytes_left,   \* progress of the client's send_file or recv loop
  server,               \* state of the session at the server
  s_name, s_size, s_left,   \* file_in_transit, filesize, bytes_left there
  fresh,                \* history: a round has ended and no other begun
  edited,               \* history: files edited in or since the last round,
                        \* after their announcement in it
  skipped, patched      \* history: what this round's exchanges found, see below

disks == <<cdisk, sdisk>>
clientVars == <<pc, todo, msg, reply, offset, bytes_left>>
serverVars == <<server, s_name, s_size, s_left>>
history == <<fresh, edited, skipped, patched>>
environment == <<network, cclock, sclock, edits, crashes>>
vars == <<environment, disks, toServer, toClient, clientVars, serverVars, history>>

-----------------------------------------------------------------------------
(* Files                                                                   *)

NoFile == [mtime |-> 0, data |-> <<>>]
Smaller(a, b) == IF a < b THEN a ELSE b

\* What read() of a file returns at an offset.
ReadFile(data, at) == SubSeq(data, at + 1, Smaller(at + CHUNKSIZE, Len(data)))

\* What recv_chunk leaves of a file when it writes got: the first chunk is
\* written over the start of the old contents, which are not truncated, the
\* others at the end.
Written_AlwaysAtStart(data, got, first) ==
  got \o SubSeq(data, Len(got) + 1, Len(data))
Written(data, got, first) ==
  IF first
  THEN got \o SubSeq(data, Len(got) + 1, Len(data))
  ELSE data \o got

\* Bound: a transfer that would make a file too large for its size to be
\* counted does not take place.  Without O_TRUNC files may grow at every sync.
Countable(data) == Len(data) < SizeMod

\* recv_chunk refuses a read that is neither a full chunk nor the last one.
Expected_FullChunk(n, left) == n = CHUNKSIZE
Expected(n, left) == n = CHUNKSIZE \/ n = left

\* bytes_left is unsigned.
Minus_Signed(left, n) == left - n
Minus(left, n) == (left - n) % SizeMod

\* The state of the session after a chunk.
AfterChunk_OneChunk(left) == "SYNC"
AfterChunk(left) == IF left = 0 THEN "SYNC" ELSE "GETFILE"

\* The file a receiver ends up with is the one sent only if the old contents
\* were no longer than the first chunk of the new.
Overwrites(old, size) == Len(old) <= Smaller(size, CHUNKSIZE)

-----------------------------------------------------------------------------
(* Messages and streams                                                    *)

Message(n, t, s) == [name |-> n, mtime |-> t, size |-> s]
EmptyMessage == Message(NoName, 0, 0)

\* Which of two copies is newer, by their messages; both ends compare.
Newer(a, b) == a.mtime > b.mtime

\* init_sync_msg of an existing or a missing file.
init_sync_msg(disk, n) == Message(n, disk[n].mtime, Len(disk[n].data))

\* The units of a message and of a part of a file.
Encode(m) == [k \in 1 .. SyncLen |-> [is |-> k, of |-> m]]
Contents(data) == [k \in 1 .. Len(data) |-> [is |-> 0, of |-> data[k]]]
\* What a receiver of file contents makes of units; 0 stands for bytes of a
\* message.
Data(units) ==
  [k \in 1 .. Len(units) |-> IF units[k].is = 0 THEN units[k].of ELSE 0]

NoStream == [wire |-> <<>>, buf |-> <<>>]
Put(stream, units) == [stream EXCEPT !.wire = Append(@, units)]
Take(stream, n) == [stream EXCEPT !.buf = SubSeq(@, n + 1, Len(@))]
Front(stream, n) == SubSeq(stream.buf, 1, Smaller(n, Len(stream.buf)))

\* The message read() finds, when a whole one is there.
HasMessage(stream) ==
  /\ Len(stream.buf) >= SyncLen
  /\ stream.buf[1].is = 1
  /\ Front(stream, SyncLen) = Encode(stream.buf[1].of)

\* send_file on a file that does not change: its chunks, one write() each.
Chunks(data) ==
  [k \in 1 .. (Len(data) + CHUNKSIZE - 1) \div CHUNKSIZE |->
     Contents(ReadFile(data, (k - 1) * CHUNKSIZE))]

\* A write() to a peer that has gone leaves nothing to read.
ToClient(segments) ==
  toClient' = IF pc = "dead" THEN toClient
              ELSE [toClient EXCEPT !.wire = @ \o segments]

-----------------------------------------------------------------------------
Init ==
  /\ network \in Networks
  /\ cclock = 1 /\ sclock = 1 /\ edits = 0 /\ crashes = 0
  /\ cdisk = [n \in Names |-> NoFile]
  /\ sdisk = [n \in Names |-> NoFile]
  /\ toServer = NoStream /\ toClient = NoStream
  /\ pc = "asleep" /\ todo = {}
  /\ msg = EmptyMessage /\ reply = EmptyMessage
  /\ offset = 0 /\ bytes_left = 0
  /\ server = "SYNC" /\ s_name = NoName /\ s_size = 0 /\ s_left = 0
  /\ fresh = FALSE /\ edited = {} /\ skipped = {} /\ patched = {}

-----------------------------------------------------------------------------
(* Users, time, network, crashes                                           *)

\* A second passes on one machine or on both.
Tick ==
  /\ cclock' \in cclock .. Smaller(cclock + 1, MaxClock)
  /\ sclock' \in sclock .. Smaller(sclock + 1, MaxClock)
  /\ <<cclock', sclock'>> # <<cclock, sclock>>
  /\ cclock' \in sclock' - MaxSkew .. sclock' + MaxSkew
  /\ UNCHANGED <<network, edits, crashes, disks, toServer, toClient,
                 clientVars, serverVars, history>>

\* The client has announced n and may still read it.
Sending(n) == pc \in {"reply", "send"} /\ msg.name = n

\* A user gives a file new contents, all units of which tell its edit.
NewFile(size, now) == [mtime |-> now, data |-> [k \in 1 .. size |-> edits + 1]]
Edit(n, size) ==
  /\ edits < MaxEdits
  /\ edits' = edits + 1
  /\ \/ /\ ~Sending(n)
        /\ cdisk' = [cdisk EXCEPT ![n] = NewFile(size, cclock)]
        /\ UNCHANGED sdisk
     \/ /\ sdisk' = [sdisk EXCEPT ![n] = NewFile(size, sclock)]
        /\ UNCHANGED cdisk
  /\ edited' = edited \cup {n}
  /\ UNCHANGED <<network, cclock, sclock, crashes, toServer, toClient,
                 clientVars, serverVars, fresh, skipped, patched>>

Arrive(stream) ==
  [wire |-> Tail(stream.wire), buf |-> stream.buf \o Head(stream.wire)]
MayArrive(stream) ==
  /\ stream.wire # <<>>
  /\ network = "merging" \/ stream.buf = <<>>
Deliver ==
  /\ \/ /\ MayArrive(toServer)
        /\ toServer' = Arrive(toServer)
        /\ UNCHANGED toClient
     \/ /\ MayArrive(toClient)
        /\ toClient' = Arrive(toClient)
        /\ UNCHANGED toServer
  /\ UNCHANGED <<environment, disks, clientVars, serverVars, history>>

\* The client's process ends; what it sent still arrives, or is lost with the
\* reset of the connection.
Gone ==
  /\ pc' = "dead"
  /\ toClient' = NoStream
  /\ toServer' \in {toServer, [toServer EXCEPT !.wire = <<>>]}
  /\ UNCHANGED <<todo, msg, reply, offset, bytes_left>>

Crash ==
  /\ pc # "dead"
  /\ crashes < MaxCrashes
  /\ crashes' = crashes + 1
  /\ Gone
  /\ fresh' = FALSE
  /\ UNCHANGED <<network, cclock, sclock, edits, disks, serverVars, edited,
                 skipped, patched>>

\* The client is started again, once the server has dropped its old session.
Restart ==
  /\ pc = "dead"
  /\ server = "closed"
  /\ pc' = "asleep"
  /\ server' = "SYNC"
  /\ toServer' = NoStream
  /\ UNCHANGED <<environment, disks, toClient, todo, msg, reply, offset,
                 bytes_left, s_name, s_size, s_left, history>>

-----------------------------------------------------------------------------
(* dbclient's main loop                                                    *)

\* The sleep ends: opendir.
StartRound ==
  /\ pc = "asleep"
  /\ pc' = "scan"
  /\ todo' = {n \in Names : cdisk[n].mtime # 0}
  /\ fresh' = FALSE /\ edited' = {} /\ skipped' = {} /\ patched' = {}
  /\ UNCHANGED <<environment, disks, toServer, toClient, msg, reply, offset,
                 bytes_left, serverVars>>

\* The next file is announced; after the last one the empty message is sent.
SendSync ==
  /\ pc = "scan"
  /\ \/ \E n \in todo :
          /\ msg' = init_sync_msg(cdisk, n)
          /\ todo' = todo \ {n}
          /\ edited' = edited \ {n}
          /\ pc' = "reply"
     \/ /\ todo = {}
        /\ msg' = EmptyMessage
        /\ pc' = "poll"
        /\ UNCHANGED <<todo, edited>>
  /\ toServer' = Put(toServer, Encode(msg'))
  /\ UNCHANGED <<environment, disks, toClient, reply, offset, bytes_left,
                 serverVars, fresh, skipped, patched>>

\* The reply decides: receive the file, send it, or neither.
ReadReply ==
  /\ pc = "reply"
  /\ HasMessage(toClient)
  /\ reply' = toClient.buf[1].of
  /\ toClient' = Take(toClient, SyncLen)
  /\ \/ /\ Newer(reply', msg)
        /\ bytes_left' = reply'.size
        /\ pc' = IF reply'.size > 0 THEN "recv" ELSE "scan"
        /\ patched' = IF Overwrites(cdisk[msg.name].data, reply'.size)
                      THEN patched ELSE patched \cup {msg.name}
        /\ UNCHANGED <<offset, skipped>>
     \/ /\ Newer(msg, reply')
        /\ bytes_left' = msg.size
        /\ offset' = 0
        /\ pc' = IF msg.size > 0 THEN "send" ELSE "scan"
        /\ patched' = IF Overwrites(sdisk[msg.name].data, msg.size)
                      THEN patched ELSE patched \cup {msg.name}
        /\ UNCHANGED skipped
     \/ /\ ~Newer(reply', msg) /\ ~Newer(msg, reply')
        /\ pc' = "scan"
        /\ skipped' = skipped \cup {msg.name}
        /\ UNCHANGED <<offset, bytes_left, patched>>
  /\ UNCHANGED <<environment, disks, toServer, todo, msg, serverVars, fresh,
                 edited>>

\* One turn of send_file's loop.
SendChunk ==
  /\ pc = "send"
  /\ LET got == ReadFile(cdisk[msg.name].data, offset)
     IN  /\ toServer' = Put(toServer, Contents(got))
         /\ offset' = offset + Len(got)
         /\ bytes_left' = bytes_left - Len(got)
  /\ pc' = IF bytes_left' > 0 THEN "send" ELSE "scan"
  /\ UNCHANGED <<environment, disks, toClient, todo, msg, reply, serverVars, history>>

\* recv_chunk at the client, whose copy exists; on an error main returns.
ClientRecv ==
  /\ pc = "recv"
  /\ toClient.buf # <<>>
  /\ LET got == Front(toClient, CHUNKSIZE)
         first == bytes_left = reply.size
     IN  IF Expected(Len(got), bytes_left)
         THEN /\ Countable(Written(cdisk[reply.name].data, Data(got), first))
              /\ cdisk' = [cdisk EXCEPT ![reply.name] =
                  [mtime |-> cclock, data |-> Written(@.data, Data(got), first)]]
              /\ bytes_left' = Minus(bytes_left, Len(got))
              /\ toClient' = Take(toClient, Len(got))
              /\ pc' = IF bytes_left' > 0 THEN "recv" ELSE "scan"
              /\ UNCHANGED <<toServer, todo, msg, reply, offset>>
         ELSE Gone /\ UNCHANGED cdisk
  /\ UNCHANGED <<environment, sdisk, serverVars, history>>

\* The answer to the empty message is empty: the round is over.
ReadPollReply ==
  /\ pc = "poll"
  /\ HasMessage(toClient)
  /\ toClient.buf[1].of = EmptyMessage
  /\ reply' = toClient.buf[1].of
  /\ toClient' = Take(toClient, SyncLen)
  /\ pc' = "asleep"
  /\ fresh' = TRUE
  /\ UNCHANGED <<environment, disks, toServer, todo, msg, offset, bytes_left,
                 serverVars, edited, skipped, patched>>

\* The server is gone: a read returns 0 or a write fails, and main ends.
ServerGone ==
  /\ pc \notin {"asleep", "dead"}
  /\ server \in {"closed", "killed"}
  /\ toClient = NoStream
  /\ Gone
  /\ fresh' = FALSE
  /\ UNCHANGED <<environment, disks, serverVars, edited, skipped, patched>>

-----------------------------------------------------------------------------
(* The server's side of the session                                        *)

\* do_sync.  A write to a client that is gone may raise SIGPIPE.
DoSync ==
  /\ server = "SYNC"
  /\ HasMessage(toServer)
  /\ LET m == toServer.buf[1].of
         r == IF m = EmptyMessage THEN EmptyMessage ELSE init_sync_msg(sdisk, m.name)
         newer == Newer(r, m)
         older == Newer(m, r)
     IN  /\ ToClient(<<Encode(r)>> \o IF newer THEN Chunks(sdisk[m.name].data) ELSE <<>>)
         /\ IF older THEN /\ s_name' = m.name
                          /\ s_size' = m.size
                          /\ s_left' = m.size
                     ELSE UNCHANGED <<s_name, s_size, s_left>>
         /\ \/ server' = IF older THEN "GETFILE" ELSE "SYNC"
            \/ pc = "dead" /\ server' = "killed"
  /\ toServer' = Take(toServer, SyncLen)
  /\ UNCHANGED <<environment, disks, clientVars, history>>

\* The socket is readable: it has bytes, or its end has been reached.
AtEof == pc = "dead" /\ toServer.wire = <<>> /\ toServer.buf = <<>>

\* recv_chunk opens the file for its first chunk, before it reads from the
\* socket, and so creates a missing one even when the read then fails.
Created(disk, n) ==
  IF disk[n] = NoFile
  THEN [disk EXCEPT ![n] = [mtime |-> sclock, data |-> <<>>]]
  ELSE disk

\* recv_chunk for an empty file only creates it, and reads nothing; it runs
\* when the client's next message arrives.
CreateEmpty_Reading ==
  /\ server = "GETFILE"
  /\ s_size = 0
  /\ toServer.buf # <<>> \/ AtEof
  /\ toServer' = Take(toServer, CHUNKSIZE)
  /\ sdisk' = Created(sdisk, s_name)
  /\ server' = "SYNC"
  /\ UNCHANGED <<environment, cdisk, toClient, clientVars, s_name, s_size,
                 s_left, history>>
CreateEmpty ==
  /\ server = "GETFILE"
  /\ s_size = 0
  /\ toServer.buf # <<>> \/ AtEof
  /\ sdisk' = Created(sdisk, s_name)
  /\ server' = "SYNC"
  /\ UNCHANGED <<environment, cdisk, toServer, toClient, clientVars, s_name,
                 s_size, s_left, history>>

\* recv_chunk for a nonempty file; an error ends the session.
ServerRecv ==
  /\ server = "GETFILE"
  /\ s_size > 0
  /\ toServer.buf # <<>>
  /\ LET got == Front(toServer, CHUNKSIZE)
         first == s_left = s_size
     IN  IF Expected(Len(got), s_left)
         THEN /\ Countable(Written(sdisk[s_name].data, Data(got), first))
              /\ sdisk' = [sdisk EXCEPT ![s_name] =
                  [mtime |-> sclock, data |-> Written(@.data, Data(got), first)]]
              /\ s_left' = Minus(s_left, Len(got))
              /\ toServer' = Take(toServer, Len(got))
              /\ server' = AfterChunk(s_left')
         ELSE /\ server' = "closed"
              /\ toServer' = NoStream
              /\ sdisk' = IF s_left = s_size THEN Created(sdisk, s_name) ELSE sdisk
              /\ UNCHANGED s_left
  /\ UNCHANGED <<environment, cdisk, toClient, clientVars, s_name, s_size, history>>

\* read() returns 0: the session ends.
ReadEof_SyncOnly ==
  /\ server = "SYNC"
  /\ AtEof
  /\ server' = "closed"
  /\ UNCHANGED <<environment, disks, toServer, toClient, clientVars, s_name,
                 s_size, s_left, history>>
ReadEof ==
  /\ \/ server = "SYNC" /\ UNCHANGED sdisk
     \/ /\ server = "GETFILE"
        /\ s_size > 0
        /\ sdisk' = IF s_left = s_size THEN Created(sdisk, s_name) ELSE sdisk
  /\ AtEof
  /\ server' = "closed"
  /\ UNCHANGED <<environment, cdisk, toServer, toClient, clientVars, s_name,
                 s_size, s_left, history>>

-----------------------------------------------------------------------------
Client == StartRound \/ SendSync \/ ReadReply \/ SendChunk \/ ClientRecv
          \/ ReadPollReply \/ ServerGone
Server == DoSync \/ CreateEmpty \/ ServerRecv \/ ReadEof

Next ==
  \/ Tick
  \/ \E n \in Names, size \in Sizes : Edit(n, size)
  \/ Deliver
  \/ Crash
  \/ Restart
  \/ Client
  \/ Server

\* The server's select loop and the client's loop keep running, and the
\* network delivers.  Users, the clocks, crashes and restarts promise nothing.
Spec == Init /\ [][Next]_vars /\ WF_vars(Client) /\ WF_vars(Server) /\ WF_vars(Deliver)

-----------------------------------------------------------------------------
(* Correctness                                                             *)

Messages == [name : Names \cup {NoName}, mtime : 0 .. MaxClock, size : 0 .. SizeMod - 1]
Units == [is : 1 .. SyncLen, of : Messages] \cup [is : {0}, of : 0 .. MaxEdits]
Streams == [wire : Seq(Seq(Units)), buf : Seq(Units)]
Files == [mtime : 0 .. MaxClock, data : Seq(0 .. MaxEdits)]

\* Type invariant.
TypeOK ==
  /\ network \in Networks
  /\ cclock \in 1 .. MaxClock /\ sclock \in 1 .. MaxClock
  /\ edits \in 0 .. MaxEdits /\ crashes \in 0 .. MaxCrashes
  /\ cdisk \in [Names -> Files] /\ sdisk \in [Names -> Files]
  /\ toServer \in Streams /\ toClient \in Streams
  /\ pc \in {"asleep", "scan", "reply", "send", "recv", "poll", "dead"}
  /\ todo \subseteq Names
  /\ msg \in Messages /\ reply \in Messages
  /\ offset \in Nat /\ bytes_left \in 0 .. SizeMod - 1
  /\ server \in {"SYNC", "GETFILE", "closed", "killed"}
  /\ s_name \in Names \cup {NoName} /\ s_size \in 0 .. SizeMod - 1 /\ s_left \in 0 .. SizeMod - 1
  /\ fresh \in BOOLEAN /\ edited \subseteq Names /\ skipped \subseteq Names /\ patched \subseteq Names

\* Whoever is about to read a message finds one at the front of its buffer:
\* no byte of a file is ever taken for a message, even when segments merge
\* (dbserver.c:208, dbclient.c:116).
Framed ==
  /\ server = "SYNC" /\ toServer.buf # <<>> => HasMessage(toServer)
  /\ pc \in {"reply", "poll"} /\ toClient.buf # <<>> => HasMessage(toClient)

\* When a round has ended, the server's copy of each of the client's files is
\* the client's, unless a user has edited one of the two since the client
\* announced it, the exchange found them equally old, or one side had to
\* replace contents longer than the first chunk of the new
\* (dbclient.c:88-197).
RoundAgrees ==
  fresh => \A n \in Names \ (edited \cup skipped \cup patched) :
             cdisk[n].mtime # 0 => sdisk[n].data = cdisk[n].data

\* On a prompt network the server drops only clients that have gone.
LiveClientKept ==
  network = "prompt" /\ server \in {"closed", "killed"} => pc = "dead"

\* On a prompt network every round of a client that does not crash ends.
RoundEnds ==
  (network = "prompt" /\ pc = "scan") ~> (pc \in {"asleep", "dead"})

\* The session of a client that has gone is dropped, whatever it was in the
\* middle of (dbserver.c:116-162).
GoneClientDropped == (pc = "dead") ~> (server \in {"closed", "killed"})

-----------------------------------------------------------------------------
(* What the comments say and the code does not do                          *)

\* recv_chunk opens a file for the first chunk to "open and overwrite the
\* file" (filesync.c:186): a round replaces old contents of any length.
FilesOverwritten ==
  fresh => \A n \in Names \ (edited \cup skipped) :
             cdisk[n].mtime # 0 => sdisk[n].data = cdisk[n].data

\* bytes_left is the number of "bytes left in file_in_transit"
\* (filedata.h:22): never more than the whole file.
BytesLeftBounded == s_left <= s_size
=============================================================================
