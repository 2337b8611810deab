--------------------------- MODULE SyncSession_proofs ---------------------------
(***************************************************************************)
(* Proofs about SyncSession, for any number of files of any size, chunks   *)
(* of any size, clocks any way apart and both kinds of network: no byte of *)
(* a file is taken for a message, a finished round leaves equal copies,    *)
(* and the server drops only clients that have gone.  All follow from one  *)
(* inductive invariant, IInv.                                              *)
(***************************************************************************)
EXTENDS SyncSession_streams

-----------------------------------------------------------------------------
(* The inductive invariant                                                 *)

\* What a clock shows.
Times == 0 .. MaxClock

\* The messages a client may send, and the segments one of them may be.
Queries == {q \in Messages : q = EmptyMessage \/ q.name \in Names}
Queued == {<<>>} \cup {<<Encode(q)>> : q \in Queries}

\* Every file is small enough for its size to be counted.
Fits == \A n \in Names : Countable(cdisk[n].data) /\ Countable(sdisk[n].data)

\* The copies of a file agree; those of all files but some.
AgreeOn(c, s, n) == c[n].mtime # 0 => s[n].data = c[n].data
Agreed(except) ==
  \A n \in Names \ (todo \cup edited \cup skipped \cup patched \cup except) :
    AgreeOn(cdisk, sdisk, n)

\* While the contents data are replaced by d, of which left units have still to
\* come.
Progress(d, data, left) ==
  IF left = Len(d) THEN Len(data) <= Smaller(Len(d), CHUNKSIZE)
                   ELSE data = SubSeq(d, 1, Len(d) - left)

\* The client waits for an answer.
Asking ==
  /\ pc \in {"reply", "poll"}
  /\ pc = "reply" => msg.name \in Names \ todo /\ msg = init_sync_msg(cdisk, msg.name)
  /\ pc = "poll" => msg = EmptyMessage /\ todo = {}
Pending == IF pc \in {"reply", "poll"} THEN {msg.name} ELSE {}

\* The server waits for a message, which may be under way.
Listening ==
  /\ server = "SYNC" /\ toClient = NoStream
  /\ \/ pc \in {"asleep", "scan", "dead"} /\ toServer = NoStream
     \/ Asking /\ OneMessage(toServer, msg)
     \/ pc = "dead" /\ \E q \in Queries : OneMessage(toServer, q)
  /\ pc = "asleep" => RoundAgrees
  /\ pc \in {"scan", "reply", "poll"} => Agreed(Pending)

\* The answer a is under way, with the file d behind it when the server's is
\* newer; when the client's is newer the server waits for it.  The answer is of
\* the server's copy unless that has been edited since.
Answering(a, d, n) ==
  /\ pc = "poll" => a = EmptyMessage
  /\ pc = "reply" =>
       /\ a.name = msg.name /\ a.size = Len(d)
       /\ msg.name \in edited \/ d = sdisk[msg.name].data
  /\ IF Newer(msg, a)
     THEN server = "GETFILE" /\ s_name = msg.name /\ s_size = msg.size /\ s_left = msg.size
     ELSE server = "SYNC"
  /\ MessageThen(network, toClient, a, d, n)
  /\ IF Newer(a, msg) THEN Whole(d, n) ELSE n = 0
Answered ==
  /\ Asking /\ toServer = NoStream
  /\ \E a \in Messages, d \in Seq(Edits), n \in Nat : Answering(a, d, n)
  /\ Agreed(Pending)

\* The client receives the file d.
Downloading(d, m, n) ==
  /\ Len(d) = reply.size
  /\ m <= n /\ Whole(d, n) /\ FileThen(network, toClient, d, m, n, <<>>)
  /\ bytes_left = Len(d) - At(m) /\ bytes_left > 0
  /\ reply.name \in edited \/ d = sdisk[reply.name].data
  /\ reply.name \in edited \cup patched \/ Progress(d, cdisk[reply.name].data, bytes_left)
Receiving ==
  /\ pc = "recv" /\ server = "SYNC" /\ toServer = NoStream
  /\ reply.name \in Names
  /\ \E d \in Seq(Edits), m \in Nat, n \in Nat : Downloading(d, m, n)
  /\ Agreed({reply.name})

\* The server receives the file d; its sender is in the middle of it, has moved
\* on, or is gone.
Sender(d, j, rest) ==
  \/ pc = "dead"
  \/ /\ pc = "send" /\ rest = <<>> /\ msg.name = s_name /\ d = cdisk[s_name].data
     /\ offset = At(j) /\ offset < s_size /\ bytes_left = s_size - offset
  \/ /\ s_name \in edited \/ d = cdisk[s_name].data
     /\ \/ pc = "scan" /\ rest = <<>> /\ s_size <= At(j)
        \/ Asking /\ rest = <<Encode(msg)>>
Uploading(d, m, j, rest) ==
  /\ Len(d) = s_size /\ m <= j /\ Within(d, j)
  /\ s_left = s_size - At(m) /\ (s_size > 0 => s_left > 0)
  /\ FileThen(network, toServer, d, m, j, rest)
  /\ rest # <<>> => s_size <= At(j)
  /\ Sender(d, j, rest)
  /\ \/ pc = "dead"
     \/ s_name \in edited \cup patched
     \/ Progress(d, sdisk[s_name].data, s_left)
Getting ==
  /\ server = "GETFILE" /\ toClient = NoStream /\ s_name \in Names
  /\ \E d \in Seq(Edits), m \in Nat, j \in Nat, rest \in Queued : Uploading(d, m, j, rest)
  /\ pc # "dead" => s_name \notin todo /\ Agreed({s_name} \cup Pending)

\* The server has read the beginning of a message as part of a file: the count
\* of what is left has wrapped around, and the next read is refused.
Lost ==
  /\ server = "GETFILE" /\ toClient = NoStream /\ s_name \in Names
  /\ network = "merging" /\ pc \in {"reply", "poll", "dead"}
  /\ toServer.wire = <<>> /\ Len(toServer.buf) < SyncLen
  /\ s_size > 0 /\ s_left = SizeMod - (SyncLen - Len(toServer.buf))

\* The session is over at the server.
Over ==
  /\ server \in {"closed", "killed"} /\ toClient = NoStream
  /\ pc = "dead" \/ (pc \in {"reply", "poll"} /\ network = "merging" /\ server = "closed")

Phase == Listening \/ Answered \/ Receiving \/ Getting \/ Lost \/ Over

\* Only a client that sleeps has a fresh round behind it.
Fresh == fresh => pc = "asleep"

IInv == TypeOK /\ Fits /\ Phase /\ Fresh

-----------------------------------------------------------------------------
(* Messages and files                                                      *)

\* The constants.
LEMMA Bounds ==
  /\ SizeMod \in Nat /\ 0 < SizeMod /\ MaxClock \in Nat /\ 1 <= MaxClock
  /\ MaxEdits \in Nat /\ MaxCrashes \in Nat
  /\ Networks \subseteq {"prompt", "merging"} /\ NoName \notin Names
  /\ SyncLen = 3 /\ \A z \in Sizes : z \in Nat /\ z < SizeMod
BY SessionAssumption DEF SyncLen

\* Nothing is in an empty stream.
LEMMA Nothing ==
  /\ NoStream.wire = <<>> /\ NoStream.buf = <<>>
  /\ ~HasMessage(NoStream)
  /\ [NoStream EXCEPT !.wire = <<>>] = NoStream
<1>1. NoStream.wire = <<>> /\ NoStream.buf = <<>> /\ [NoStream EXCEPT !.wire = <<>>] = NoStream
  BY DEF NoStream
<1>2. Len(<<>>) = 0
  BY EmptySeq, Zenon
<1>3. ~(Len(NoStream.buf) >= SyncLen)
  <2>1. ~(0 >= SyncLen)
    BY DEF SyncLen
  <2> QED
    BY <1>1, <1>2, <2>1, Zenon
<1> QED
  BY <1>1, <1>3, Zenon DEF HasMessage

\* What is announced of a file is a message of the client, not the empty one.
LEMMA Announced ==
  ASSUME NEW disk \in [Names -> Files], NEW n \in Names, Countable(disk[n].data)
  PROVE  /\ init_sync_msg(disk, n) \in Messages /\ init_sync_msg(disk, n) \in Queries
         /\ init_sync_msg(disk, n).name = n
         /\ init_sync_msg(disk, n).mtime = disk[n].mtime
         /\ init_sync_msg(disk, n).size = Len(disk[n].data)
         /\ init_sync_msg(disk, n) # EmptyMessage
<1>1. disk[n] \in Files
  OBVIOUS
<1>2. disk[n].mtime \in 0 .. MaxClock /\ disk[n].data \in Seq(Edits)
  BY <1>1 DEF Files, Edits
<1>3. Len(disk[n].data) \in 0 .. SizeMod - 1
  BY <1>2, LenProperties, Bounds DEF Countable
<1>4. init_sync_msg(disk, n) =
        [name |-> n, mtime |-> disk[n].mtime, size |-> Len(disk[n].data)]
  BY DEF init_sync_msg, Message
<1>5. PICK t \in 0 .. MaxClock, z \in 0 .. SizeMod - 1 :
        t = disk[n].mtime /\ z = Len(disk[n].data)
  BY <1>2, <1>3
<1>6. EmptyMessage.name = NoName
  BY DEF EmptyMessage, Message
<1>7. /\ init_sync_msg(disk, n) \in Messages
      /\ init_sync_msg(disk, n).name = n
      /\ init_sync_msg(disk, n).mtime = disk[n].mtime
      /\ init_sync_msg(disk, n).size = Len(disk[n].data)
  <2>1. init_sync_msg(disk, n) = [name |-> n, mtime |-> t, size |-> z]
    BY <1>4, <1>5
  <2>2. /\ init_sync_msg(disk, n) \in Messages
        /\ init_sync_msg(disk, n).name = n
        /\ init_sync_msg(disk, n).mtime = t
        /\ init_sync_msg(disk, n).size = z
    BY <2>1 DEF Messages
  <2> QED
    BY <1>5, <2>2, Zenon
<1>8. NoName \notin Names
  BY Bounds
<1> QED
  BY <1>6, <1>7, <1>8, Zenon DEF Queries

\* The empty message is one of the client's too.
LEMMA Empty ==
  /\ EmptyMessage \in Messages /\ EmptyMessage \in Queries
  /\ EmptyMessage.name = NoName /\ EmptyMessage.mtime = 0 /\ EmptyMessage.size = 0
  /\ ~Newer(EmptyMessage, EmptyMessage)
<1>1. EmptyMessage = [name |-> NoName, mtime |-> 0, size |-> 0]
  BY DEF EmptyMessage, Message
<1>2. 0 \in 0 .. MaxClock /\ 0 \in 0 .. SizeMod - 1
  BY Bounds
<1>3. EmptyMessage \in Messages
  BY <1>1, <1>2 DEF Messages
<1>4. EmptyMessage.name = NoName /\ EmptyMessage.mtime = 0 /\ EmptyMessage.size = 0
  BY <1>1
<1> QED
  BY <1>3, <1>4 DEF Queries, Newer

\* A client's message is a message, and may be behind the chunks of a file.
LEMMA QueryFacts ==
  /\ \A q \in Queries : q \in Messages /\ (q = EmptyMessage \/ q.name \in Names)
  /\ \A rest \in Queued : rest \in Rests /\ (rest # <<>> => \E q \in Queries : rest = <<Encode(q)>>)
  /\ <<>> \in Queued /\ \A q \in Queries : <<Encode(q)>> \in Queued /\ <<Encode(q)>> # <<>>
<1>1. \A q \in Queries : q \in Messages /\ (q = EmptyMessage \/ q.name \in Names)
  BY DEF Queries
<1>2. \A q : <<Encode(q)>> # <<>>
  OBVIOUS
<1>3. \A rest \in Queued : rest \in Rests /\ (rest # <<>> => \E q \in Queries : rest = <<Encode(q)>>)
  BY <1>1, Zenon DEF Queued, Rests
<1>4. <<>> \in Queued /\ \A q \in Queries : <<Encode(q)>> \in Queued
  BY Zenon DEF Queued
<1> QED
  BY <1>1, <1>2, <1>3, <1>4, Zenon

\* The fields of a message.
LEMMA MessageFields ==
  \A q \in Messages : q.name \in Names \cup {NoName} /\ q.mtime \in Nat /\ q.size \in 0 .. SizeMod - 1
BY DEF Messages

\* A message that is found is a message.
LEMMA FoundMessage ==
  ASSUME NEW s \in Streams, HasMessage(s)
  PROVE  s.buf # <<>> /\ s.buf[1].of \in Messages
<1>1. s.buf \in Seq(Units) /\ Len(s.buf) >= SyncLen /\ s.buf[1].is = 1
  BY DEF Streams, HasMessage
<1>2. Len(s.buf) \in Nat /\ 1 \in 1 .. Len(s.buf)
  BY <1>1, LenProperties DEF SyncLen
<1>3. s.buf[1] \in Units
  BY <1>1, <1>2, ElementOfSeq
<1>4. s.buf # <<>>
  <2>1. Len(<<>>) = 0
    BY EmptySeq, Zenon
  <2>2. Len(s.buf) # 0
    BY <1>2
  <2> QED
    BY <2>1, <2>2, Zenon
<1>5. s.buf[1].of \in Messages
  <2>1. \A u \in Units : u.is = 1 => u.of \in Messages
    BY DEF Units
  <2> QED
    BY <1>1, <1>3, <2>1, Zenon
<1> QED
  BY <1>4, <1>5

\* A file and its parts.
LEMMA FileFields ==
  ASSUME NEW f \in Files
  PROVE  /\ f.mtime \in Times /\ f.data \in Seq(Edits)
         /\ Len(f.data) \in Nat
         /\ \A i \in 1 .. Len(f.data) : f.data[i] \in Edits
         /\ f.data = <<>> <=> Len(f.data) = 0
<1>1. f.mtime \in Times /\ f.data \in Seq(Edits)
  BY DEF Files, Edits, Times
<1> QED
  BY <1>1, LenProperties, ElementOfSeq, EmptySeq

\* Files that are made.
LEMMA FileMade ==
  ASSUME NEW t \in Times, NEW d \in Seq(Edits)
  PROVE  \A f : f = [mtime |-> t, data |-> d] => f \in Files /\ f.mtime = t /\ f.data = d
BY DEF Files, Edits, Times

-----------------------------------------------------------------------------
(* What a receiver writes                                                  *)

\* What a chunk leaves of a file.
LEMMA WrittenFacts ==
  ASSUME NEW old \in Seq(Edits), NEW u \in Seq(Edits), NEW first \in BOOLEAN
  PROVE  /\ Written(old, u, first) \in Seq(Edits)
         /\ first /\ Len(old) <= Len(u) => Written(old, u, first) = u
         /\ ~first => Written(old, u, first) = old \o u
<1>1. Len(old) \in Nat /\ Len(u) \in Nat
  BY LenProperties
<1>2. CASE first
  <2> DEFINE y == SubSeq(old, Len(u) + 1, Len(old))
  <2>1. ASSUME NEW k \in Nat, k = Len(u) + 1
        PROVE  LET z == SubSeq(old, k, Len(old))
               IN  /\ z \in Seq(Edits)
                   /\ Len(z) = IF k <= Len(old) THEN Len(old) - k + 1 ELSE 0
    <3>1. 1 <= k /\ Len(old) <= Len(old)
      BY <1>1, <2>1
    <3> QED
      BY <1>1, <3>1, PartFacts, SMTT(30)
  <2>2. PICK k \in Nat : k = Len(u) + 1
    BY <1>1
  <2>3. y \in Seq(Edits) /\ Len(y) = IF k <= Len(old) THEN Len(old) - k + 1 ELSE 0
    BY <2>1, <2>2
  <2> HIDE DEF y
  <2>4. u \o y \in Seq(Edits)
    BY <2>3, ConcatProperties
  <2>5. Len(old) <= Len(u) => Len(y) = 0
    BY <1>1, <2>2, <2>3
  <2>6. Len(old) <= Len(u) => u \o y = u
    BY <2>3, <2>5, EmptySeq, ConcatEmptySeq
  <2>7. Written(old, u, first) = u \o y
    BY <1>2 DEF Written, y
  <2> QED
    BY <1>2, <2>4, <2>6, <2>7
<1>3. CASE ~first
  <2>1. old \o u \in Seq(Edits)
    BY ConcatProperties
  <2> QED
    BY <1>3, <2>1 DEF Written
<1> QED
  BY <1>2, <1>3

\* Two parts of a sequence, side by side.
LEMMA PartsJoin ==
  ASSUME NEW d \in Seq(Edits), NEW a \in Nat, NEW b \in Nat, a <= b, b <= Len(d)
  PROVE  SubSeq(d, 1, a) \o SubSeq(d, a + 1, b) = SubSeq(d, 1, b)
<1> SUFFICES ASSUME NEW k \in Nat, k = a + 1
             PROVE  SubSeq(d, 1, a) \o SubSeq(d, k, b) = SubSeq(d, 1, b)
  <2>1. a + 1 \in Nat
    OBVIOUS
  <2> QED
    BY <2>1, Zenon
<1> DEFINE x == SubSeq(d, 1, a)
           y == SubSeq(d, k, b)
           z == SubSeq(d, 1, b)
<1>1. Len(d) \in Nat /\ a <= Len(d) /\ 1 <= k /\ 1 \in Nat /\ 1 <= 1
  BY LenProperties
<1>2. /\ x \in Seq(Edits) /\ Len(x) = (IF 1 <= a THEN a - 1 + 1 ELSE 0)
      /\ \A i \in 1 .. a - 1 + 1 : x[i] = d[1 + i - 1]
  BY <1>1, PartFacts
<1>3. /\ y \in Seq(Edits) /\ Len(y) = (IF k <= b THEN b - k + 1 ELSE 0)
      /\ \A i \in 1 .. b - k + 1 : y[i] = d[k + i - 1]
  BY <1>1, PartFacts
<1>4. /\ z \in Seq(Edits) /\ Len(z) = (IF 1 <= b THEN b - 1 + 1 ELSE 0)
      /\ \A i \in 1 .. b - 1 + 1 : z[i] = d[1 + i - 1]
  BY <1>1, PartFacts
<1> HIDE DEF x, y, z
<1>5. /\ x \o y \in Seq(Edits) /\ Len(x \o y) = Len(x) + Len(y)
      /\ \A i \in 1 .. Len(x) + Len(y) : (x \o y)[i] = IF i <= Len(x) THEN x[i] ELSE y[i - Len(x)]
  BY <1>2, <1>3, ConcatProperties
<1>6. Len(x) = a /\ Len(y) = b - a /\ Len(z) = b
  BY <1>2, <1>3, <1>4
<1>7. \A i \in 1 .. b : z[i] = (x \o y)[i]
  <2> TAKE i \in 1 .. b
  <2>1. i \in Nat /\ z[i] = d[i]
    BY <1>4
  <2>2. CASE i <= a
    <3>1. x[i] = d[i]
      BY <1>2, <2>1, <2>2
    <3> QED
      BY <1>5, <1>6, <2>1, <2>2, <3>1
  <2>3. CASE ~(i <= a)
    <3>1. i - a \in 1 .. b - k + 1 /\ k + (i - a) - 1 = i
      BY <2>1, <2>3
    <3>2. y[i - a] = d[i]
      BY <1>3, <3>1
    <3> QED
      BY <1>5, <1>6, <2>1, <2>3, <3>2
  <2> QED
    BY <2>2, <2>3
<1>8. Len(z) = Len(x \o y)
  BY <1>5, <1>6
<1>9. z = x \o y
  BY <1>4, <1>5, <1>6, <1>7, <1>8, SeqEqual
<1> QED
  BY <1>9 DEF x, y, z


\* A chunk of a file, as its receiver sees it.
LEMMA ChunkData ==
  ASSUME NEW d \in Seq(Edits), NEW m \in Nat, At(m) < Len(d),
         NEW u, u = Data(Bytes(d, m, m + 1))
  PROVE  /\ u \in Seq(Edits) /\ Len(u) = Len(Bytes(d, m, m + 1))
         /\ At(m) + Len(u) <= Len(d) /\ Len(u) \in Nat /\ Len(u) # 0
         /\ u = SubSeq(d, At(m) + 1, At(m) + Len(u))
         /\ m = 0 => Len(u) = Smaller(Len(d), CHUNKSIZE)
<1> DEFINE c == Bytes(d, m, m + 1)
<1>1. m + 1 \in Nat /\ m <= m + 1 /\ Len(d) \in Nat /\ At(m) \in Nat /\ At(m + 1) = At(m) + CHUNKSIZE
  BY LenProperties, AtNext
<1>2. /\ c \in Seq(Units)
      /\ Len(c) = IF Len(d) <= At(m) THEN 0 ELSE Smaller(At(m + 1), Len(d)) - At(m)
      /\ Data(c) = SubSeq(d, At(m) + 1, Smaller(At(m + 1), Len(d)))
  BY <1>1, BytesFacts
<1>3. Len(c) \in 1 .. CHUNKSIZE /\ Len(c) <= Len(d) - At(m)
  BY ChunkFacts
<1> HIDE DEF c
<1>4. Data(c) \in Seq(Edits) /\ Len(Data(c)) = Len(c)
  BY <1>2, DataFacts
<1>5. u = Data(c)
  BY DEF c
<1>6. Smaller(At(m + 1), Len(d)) = At(m) + Len(u)
  <2>1. Smaller(At(m + 1), Len(d)) = At(m) + Len(c)
    BY <1>1, <1>2, <1>3, Sized DEF Smaller
  <2> QED
    BY <1>4, <1>5, <2>1
<1>7. /\ At(m) + Len(u) <= Len(d) /\ Len(u) \in Nat /\ Len(u) # 0
  BY <1>1, <1>3, <1>4, <1>5, Sized
<1>8. u = SubSeq(d, At(m) + 1, At(m) + Len(u))
  BY <1>2, <1>5, <1>6
<1>9. ASSUME m = 0 PROVE Len(u) = Smaller(Len(d), CHUNKSIZE)
  <2>1. At(m) = 0
    BY <1>9, AtNext
  <2> QED
    BY <1>1, <1>6, <1>7, <2>1, Sized DEF Smaller
<1>0. Len(u) = Len(Bytes(d, m, m + 1)) /\ u \in Seq(Edits)
  BY <1>4, <1>5 DEF c
<1> QED
  BY <1>7, <1>8, <1>9, <1>0

\* Only the first chunk begins at 0.
LEMMA AtZero ==
  ASSUME NEW m \in Nat
  PROVE  At(m) \in Nat /\ (m = 0 <=> At(m) = 0)
<1>1. CASE m = 0
  BY <1>1, AtNext
<1>2. CASE m # 0
  <2>1. m - 1 \in Nat /\ m = (m - 1) + 1
    BY <1>2
  <2>2. ASSUME NEW k \in Nat, m = k + 1 PROVE At(m) \in Nat /\ At(m) # 0
    <3>1. At(k) \in Nat /\ At(k + 1) = At(k) + CHUNKSIZE
      BY AtNext
    <3>2. At(m) = At(k) + CHUNKSIZE
      BY <2>2, <3>1
    <3> QED
      BY <3>1, <3>2, Sized
  <2> QED
    BY <1>2, <2>1, <2>2, Zenon
<1> QED
  BY <1>1, <1>2

\* The next chunk of a file brings its receiver's copy on.
LEMMA Advanced ==
  ASSUME NEW d \in Seq(Edits), NEW old \in Seq(Edits), NEW m \in Nat, At(m) < Len(d),
         NEW left, left = Len(d) - At(m), Progress(d, old, left),
         NEW got, got = Bytes(d, m, m + 1), NEW first \in BOOLEAN, first <=> left = Len(d),
         NEW w, w = Written(old, Data(got), first)
  PROVE  /\ Progress(d, w, left - Len(got))
         /\ left - Len(got) = 0 => w = d
<1>1. PICK u : u = Data(Bytes(d, m, m + 1))
  OBVIOUS
<1>2. /\ u \in Seq(Edits) /\ Len(u) = Len(got)
      /\ At(m) + Len(u) <= Len(d) /\ Len(u) \in Nat /\ Len(u) # 0
      /\ u = SubSeq(d, At(m) + 1, At(m) + Len(u))
      /\ m = 0 => Len(u) = Smaller(Len(d), CHUNKSIZE)
  BY <1>1, ChunkData
<1>3. w = Written(old, u, first)
  BY <1>1
<1>4. /\ At(m) \in Nat /\ (m = 0 <=> At(m) = 0) /\ Len(d) \in Nat /\ Len(old) \in Nat
      /\ (first <=> m = 0)
  <2>1. At(m) \in Nat /\ (m = 0 <=> At(m) = 0)
    BY AtZero
  <2>2. Len(d) \in Nat /\ Len(old) \in Nat
    BY LenProperties
  <2> QED
    BY <2>1, <2>2
<1>5. w = SubSeq(d, 1, At(m) + Len(u))
  <2>1. CASE first
    <3>1. At(m) = 0 /\ left = Len(d) /\ Len(u) = Smaller(Len(d), CHUNKSIZE)
      BY <1>2, <1>4, <2>1
    <3>2. Len(old) <= Len(u)
      BY <3>1 DEF Progress
    <3>3. w = u
      BY <1>2, <1>3, <2>1, <3>2, WrittenFacts, Zenon
    <3>4. At(m) + 1 = 1 /\ At(m) + Len(u) = Len(u)
      BY <1>2, <3>1
    <3> QED
      BY <1>2, <3>3, <3>4
  <2>2. CASE ~first
    <3>1. left # Len(d) /\ Len(d) - left = At(m)
      BY <1>4, <2>2
    <3>2. old = SubSeq(d, 1, At(m))
      BY <3>1 DEF Progress
    <3>3. w = SubSeq(d, 1, At(m)) \o SubSeq(d, At(m) + 1, At(m) + Len(u))
      <4>1. w = old \o u
        BY <1>2, <1>3, <2>2, WrittenFacts, Zenon
      <4> QED
        BY <1>2, <3>2, <4>1
    <3>4. At(m) + Len(u) \in Nat /\ At(m) <= At(m) + Len(u)
      BY <1>2, <1>4
    <3>5. ASSUME NEW a \in Nat, NEW b \in Nat, a <= b, b <= Len(d)
          PROVE  SubSeq(d, 1, a) \o SubSeq(d, a + 1, b) = SubSeq(d, 1, b)
      BY <3>5, PartsJoin
    <3> QED
      BY <1>2, <1>4, <3>3, <3>4, <3>5, Zenon
  <2> QED
    BY <2>1, <2>2
<1>6. /\ left - Len(got) # Len(d) /\ Len(d) - (left - Len(got)) = At(m) + Len(u)
      /\ left - Len(got) = 0 => At(m) + Len(u) = Len(d)
  <2>1. /\ Len(got) \in Nat /\ Len(got) # 0 /\ Len(u) = Len(got)
        /\ At(m) \in Nat /\ Len(d) \in Nat /\ left = Len(d) - At(m)
    BY <1>2, <1>4
  <2> QED
    BY <2>1
<1>7. Progress(d, w, left - Len(got))
  BY <1>5, <1>6 DEF Progress
<1>8. SubSeq(d, 1, Len(d)) = d
  BY SubSeqFull
<1> QED
  BY <1>5, <1>6, <1>7, <1>8

-----------------------------------------------------------------------------
(* The invariant holds at first, and no step of the users, the clocks or   *)
(* the network breaks it                                                   *)

\* The session begins with empty directories.
LEMMA InitHolds == Init => IInv
<1> SUFFICES ASSUME Init PROVE IInv
  OBVIOUS
<1>1. NoFile \in Files /\ NoFile.mtime = 0 /\ NoFile.data = <<>> /\ Len(NoFile.data) = 0
  <2>1. Len(<<>>) = 0 /\ <<>> \in Seq(0 .. MaxEdits)
    BY EmptySeq
  <2> QED
    BY <2>1, Bounds DEF NoFile, Files
<1>2. \A n \in Names : cdisk[n] = NoFile /\ sdisk[n] = NoFile
  BY DEF Init
<1>3. NoStream \in Streams
  BY EmptySeq DEF NoStream, Streams
<1>4. TypeOK
  <2>1. cdisk \in [Names -> Files] /\ sdisk \in [Names -> Files]
    BY <1>1 DEF Init
  <2>2. msg \in Messages /\ reply \in Messages
    BY Empty DEF Init
  <2>3. toServer \in Streams /\ toClient \in Streams
    BY <1>3 DEF Init
  <2>4. /\ cclock \in 1 .. MaxClock /\ sclock \in 1 .. MaxClock
        /\ edits \in 0 .. MaxEdits /\ crashes \in 0 .. MaxCrashes
        /\ offset \in Nat /\ bytes_left \in 0 .. SizeMod - 1
        /\ s_size \in 0 .. SizeMod - 1 /\ s_left \in 0 .. SizeMod - 1
    BY Bounds DEF Init
  <2>5. /\ network \in Networks /\ todo \subseteq Names /\ edited \subseteq Names
        /\ skipped \subseteq Names
        /\ patched \subseteq Names /\ s_name \in Names \cup {NoName}
        /\ pc \in {"asleep", "scan", "reply", "send", "recv", "poll", "dead"}
        /\ server \in {"SYNC", "GETFILE", "closed", "killed"}
    BY DEF Init
  <2>6. fresh \in BOOLEAN
    BY DEF Init
  <2> QED
    BY <2>1, <2>2, <2>3, <2>4, <2>5, <2>6, Zenon DEF TypeOK
<1>5. Fits
  BY <1>1, <1>2, Bounds DEF Fits, Countable
<1>6. Listening /\ Fresh
  BY DEF Listening, RoundAgrees, Fresh, Init
<1> QED
  BY <1>4, <1>5, <1>6 DEF IInv, Phase

\* What the phases are about.
phaseVars == <<network, disks, toServer, toClient, clientVars, serverVars, history>>

\* The phase depends on nothing else.
LEMMA PhaseKept == Phase /\ UNCHANGED phaseVars => Phase'
<1> SUFFICES ASSUME Phase, UNCHANGED phaseVars PROVE Phase'
  OBVIOUS
<1>0. /\ network' = network /\ cdisk' = cdisk /\ sdisk' = sdisk
      /\ toServer' = toServer /\ toClient' = toClient
      /\ pc' = pc /\ todo' = todo /\ msg' = msg /\ reply' = reply
      /\ offset' = offset /\ bytes_left' = bytes_left
      /\ server' = server /\ s_name' = s_name /\ s_size' = s_size /\ s_left' = s_left
      /\ fresh' = fresh /\ edited' = edited /\ skipped' = skipped /\ patched' = patched
  BY DEF phaseVars, disks, clientVars, serverVars, history
<1>1. Listening => Listening'
  BY <1>0 DEF Listening, Asking, RoundAgrees, Agreed, Pending
<1>2. Answered => Answered'
  BY <1>0 DEF Answered, Answering, Asking, Agreed, Pending
<1>3. Receiving => Receiving'
  BY <1>0 DEF Receiving, Downloading, Agreed
<1>4. Getting => Getting'
  BY <1>0 DEF Getting, Uploading, Sender, Asking, Agreed, Pending
<1>5. Lost => Lost'
  BY <1>0 DEF Lost
<1>6. Over => Over'
  BY <1>0 DEF Over
<1> QED
  BY <1>1, <1>2, <1>3, <1>4, <1>5, <1>6 DEF Phase

\* Nothing happens.
LEMMA StutterKeeps == IInv /\ UNCHANGED vars => IInv'
<1> SUFFICES ASSUME IInv, UNCHANGED vars PROVE IInv'
  OBVIOUS
<1> USE DEF vars, environment, disks, clientVars, serverVars, history
<1>1. TypeOK'
  BY DEF IInv, TypeOK
<1>2. Fits'
  BY DEF IInv, Fits
<1>3. Phase'
  BY PhaseKept DEF IInv, phaseVars
<1>4. Fresh'
  BY DEF IInv, Fresh
<1> QED
  BY <1>1, <1>2, <1>3, <1>4 DEF IInv

\* Time passes.
LEMMA TickKeeps == IInv /\ Tick => IInv'
<1> SUFFICES ASSUME IInv, Tick PROVE IInv'
  OBVIOUS
<1> USE DEF disks, clientVars, serverVars, history
<1>0. cclock' \in 1 .. MaxClock /\ sclock' \in 1 .. MaxClock
  <2>1. cclock \in 1 .. MaxClock /\ sclock \in 1 .. MaxClock /\ MaxClock \in Nat
    BY Bounds DEF IInv, TypeOK
  <2>2. cclock' \in cclock .. Smaller(cclock + 1, MaxClock)
        /\ sclock' \in sclock .. Smaller(sclock + 1, MaxClock)
    BY DEF Tick
  <2> QED
    BY <2>1, <2>2 DEF Smaller
<1>1. TypeOK'
  BY <1>0 DEF IInv, TypeOK, Tick
<1>2. Fits'
  BY DEF IInv, Fits, Tick
<1>3. Phase'
  BY PhaseKept DEF IInv, phaseVars, Tick
<1>4. Fresh'
  BY DEF IInv, Fresh, Tick
<1> QED
  BY <1>1, <1>2, <1>3, <1>4 DEF IInv

\* A user's file.
LEMMA NewFileFacts ==
  ASSUME TypeOK, edits < MaxEdits, NEW size \in Sizes, NEW now \in Times
  PROVE  NewFile(size, now) \in Files /\ Countable(NewFile(size, now).data)
<1>1. edits + 1 \in Edits /\ size \in Nat /\ size < SizeMod
  BY Bounds DEF TypeOK, Edits
<1> DEFINE e == edits + 1
           d == [k \in 1 .. size |-> e]
<1>2. d \in Seq(Edits) /\ Len(d) = size
  <2> HIDE DEF e
  <2>1. e \in Edits
    BY <1>1 DEF e
  <2>2. [k \in 1 .. size |-> e] \in Seq(Edits)
    BY <1>1, <2>1, IsASeq
  <2> QED
    BY <1>1, <2>2
<1>3. NewFile(size, now) = [mtime |-> now, data |-> d]
  BY DEF NewFile
<1> HIDE DEF d, e
<1>4. NewFile(size, now) \in Files /\ NewFile(size, now).data = d
  BY <1>2, <1>3, FileMade
<1> QED
  BY <1>1, <1>2, <1>4 DEF Countable

\* A user changes a file: from now on that file is excused, and no file that is
\* being read changes.
LEMMA EditKeeps ==
  ASSUME NEW n \in Names, NEW size \in Sizes, IInv, Edit(n, size)
  PROVE  IInv'
<1> USE DEF clientVars, serverVars
<1>1. /\ TypeOK /\ Fits /\ Phase /\ Fresh
      /\ edits < MaxEdits /\ edits' = edits + 1 /\ edited' = edited \cup {n}
      /\ network' = network /\ cclock' = cclock /\ sclock' = sclock /\ crashes' = crashes
      /\ toServer' = toServer /\ toClient' = toClient
      /\ pc' = pc /\ todo' = todo /\ msg' = msg /\ reply' = reply
      /\ offset' = offset /\ bytes_left' = bytes_left
      /\ server' = server /\ s_name' = s_name /\ s_size' = s_size /\ s_left' = s_left
      /\ fresh' = fresh /\ skipped' = skipped /\ patched' = patched
  BY DEF IInv, Edit
<1>2. cdisk \in [Names -> Files] /\ sdisk \in [Names -> Files] /\ edits \in Nat
      /\ cclock \in Times /\ sclock \in Times
  BY <1>1, Bounds DEF TypeOK, Times
<1>3. PICK f \in Files :
        /\ Countable(f.data)
        /\ \/ ~Sending(n) /\ cdisk' = [cdisk EXCEPT ![n] = f] /\ sdisk' = sdisk
           \/ sdisk' = [sdisk EXCEPT ![n] = f] /\ cdisk' = cdisk
  <2>1. \A now \in Times : NewFile(size, now) \in Files /\ Countable(NewFile(size, now).data)
    BY <1>1, NewFileFacts
  <2>2. \/ /\ ~Sending(n)
           /\ cdisk' = [cdisk EXCEPT ![n] = NewFile(size, cclock)] /\ sdisk' = sdisk
        \/ sdisk' = [sdisk EXCEPT ![n] = NewFile(size, sclock)] /\ cdisk' = cdisk
    BY DEF Edit
  <2> QED
    BY <1>2, <2>1, <2>2
<1>4. /\ cdisk' \in [Names -> Files] /\ sdisk' \in [Names -> Files]
      /\ \A k \in Names \ {n} : cdisk'[k] = cdisk[k] /\ sdisk'[k] = sdisk[k]
      /\ Sending(n) => cdisk' = cdisk
  BY <1>2, <1>3
<1>5. TypeOK'
  <2>1. edits' \in 0 .. MaxEdits /\ edited' \subseteq Names
    BY <1>1, <1>2, Bounds DEF TypeOK
  <2> QED
    BY <1>1, <1>4, <2>1 DEF TypeOK
<1>6. Fits'
  BY <1>1, <1>2, <1>3 DEF Fits
<1>7. /\ \A except : Agreed(except) => Agreed(except)'
      /\ Agreed(Pending) => Agreed(Pending)'
      /\ Agreed({s_name} \cup Pending) => Agreed({s_name} \cup Pending)'
      /\ Agreed({reply.name}) => Agreed({reply.name})'
      /\ RoundAgrees => RoundAgrees'
  <2>1. \A k \in Names \ edited' : cdisk'[k] = cdisk[k] /\ sdisk'[k] = sdisk[k]
    BY <1>1, <1>4
  <2> QED
    BY <1>1, <2>1 DEF Agreed, AgreeOn, Pending, RoundAgrees
<1>8. Asking => Asking'
  <2> SUFFICES ASSUME Asking PROVE Asking'
    OBVIOUS
  <2>1. CASE pc = "poll"
    BY <1>1, <2>1 DEF Asking
  <2>2. CASE pc = "reply"
    <3>1. msg.name \in Names /\ cdisk'[msg.name] = cdisk[msg.name]
      BY <1>4, <2>2 DEF Asking, Sending
    <3> QED
      BY <1>1, <2>2, <3>1 DEF Asking, init_sync_msg
  <2> QED
    BY <2>1, <2>2 DEF Asking
<1>9. Phase'
  <2>1. ASSUME Listening PROVE Listening'
    BY <1>1, <1>7, <1>8, <2>1 DEF Listening
  <2>2. ASSUME Answered PROVE Answered'
    <3>1. PICK a \in Messages, d \in Seq(Edits), k \in Nat : Answering(a, d, k)
      BY <2>2 DEF Answered
    <3>2. pc = "reply" => msg.name \in edited' \/ d = sdisk'[msg.name].data
      <4>1. pc = "reply" => msg.name \in Names
        BY <2>2 DEF Answered, Asking
      <4> QED
        BY <1>1, <1>4, <3>1, <4>1 DEF Answering
    <3>3. Answering(a, d, k)'
      BY <1>1, <3>1, <3>2 DEF Answering
    <3> QED
      BY <1>1, <1>7, <1>8, <2>2, <3>3 DEF Answered
  <2>3. ASSUME Receiving PROVE Receiving'
    <3>1. PICK d \in Seq(Edits), m \in Nat, k \in Nat : Downloading(d, m, k)
      BY <2>3 DEF Receiving
    <3>2. reply.name \in edited' \/ (/\ reply.name \notin edited
                                     /\ cdisk'[reply.name] = cdisk[reply.name]
                                     /\ sdisk'[reply.name] = sdisk[reply.name])
      BY <1>1, <1>4, <2>3 DEF Receiving
    <3>3. Downloading(d, m, k)'
      BY <1>1, <3>1, <3>2 DEF Downloading
    <3> QED
      BY <1>1, <1>7, <2>3, <3>3 DEF Receiving
  <2>4. ASSUME Getting PROVE Getting'
    <3>1. PICK d \in Seq(Edits), m \in Nat, j \in Nat, rest \in Queued : Uploading(d, m, j, rest)
      BY <2>4 DEF Getting
    <3>2. s_name \in edited' \/ (/\ s_name \notin edited
                                 /\ cdisk'[s_name] = cdisk[s_name]
                                 /\ sdisk'[s_name] = sdisk[s_name])
      BY <1>1, <1>4, <2>4 DEF Getting
    <3>3. Sender(d, j, rest)'
      <4>1. pc = "send" /\ msg.name = s_name => cdisk'[s_name] = cdisk[s_name]
        BY <1>4, <2>4 DEF Sending, Getting
      <4>2. CASE pc = "dead"
        BY <1>1, <4>2 DEF Sender
      <4>3. CASE /\ pc = "send" /\ rest = <<>> /\ msg.name = s_name /\ d = cdisk[s_name].data
                 /\ offset = At(j) /\ offset < s_size /\ bytes_left = s_size - offset
        BY <1>1, <4>1, <4>3 DEF Sender
      <4>4. CASE /\ s_name \in edited \/ d = cdisk[s_name].data
                 /\ \/ pc = "scan" /\ rest = <<>> /\ s_size <= At(j)
                    \/ Asking /\ rest = <<Encode(msg)>>
        BY <1>1, <1>8, <3>2, <4>4 DEF Sender
      <4> QED
        BY <3>1, <4>2, <4>3, <4>4 DEF Uploading, Sender
    <3>4. \/ pc' = "dead"
          \/ s_name' \in edited' \cup patched'
          \/ Progress(d, sdisk'[s_name'].data, s_left')
      BY <1>1, <3>1, <3>2 DEF Uploading
    <3>5. Uploading(d, m, j, rest)'
      BY <1>1, <3>1, <3>3, <3>4 DEF Uploading
    <3> QED
      BY <1>1, <1>7, <2>4, <3>5 DEF Getting
  <2>5. Lost => Lost'
    BY <1>1 DEF Lost
  <2>6. Over => Over'
    BY <1>1 DEF Over
  <2> QED
    BY <1>1, <2>1, <2>2, <2>3, <2>4, <2>5, <2>6 DEF Phase
<1>10. Fresh'
  BY <1>1 DEF Fresh
<1> QED
  BY <1>5, <1>6, <1>9, <1>10 DEF IInv

\* Whoever asks has sent one of the client's messages.
LEMMA AskedFor == TypeOK /\ Fits /\ Asking => msg \in Queries
<1> SUFFICES ASSUME TypeOK, Fits, Asking PROVE msg \in Queries
  OBVIOUS
<1>1. CASE pc = "poll"
  BY <1>1, Empty DEF Asking
<1>2. CASE pc = "reply"
  <2>1. msg.name \in Names /\ msg \in Messages
    BY <1>2 DEF Asking, TypeOK
  <2> QED
    BY <2>1 DEF Queries
<1> QED
  BY <1>1, <1>2 DEF Asking

\* A segment arrives.
LEMMA DeliverKeeps == IInv /\ Deliver => IInv'
<1> SUFFICES ASSUME IInv, Deliver PROVE IInv'
  OBVIOUS
<1> USE DEF environment, disks, clientVars, serverVars, history
<1>1. /\ TypeOK /\ Fits /\ Phase /\ Fresh
      /\ network' = network /\ cclock' = cclock /\ sclock' = sclock /\ crashes' = crashes /\ edits' = edits
      /\ cdisk' = cdisk /\ sdisk' = sdisk
      /\ pc' = pc /\ todo' = todo /\ msg' = msg /\ reply' = reply
      /\ offset' = offset /\ bytes_left' = bytes_left
      /\ server' = server /\ s_name' = s_name /\ s_size' = s_size /\ s_left' = s_left
      /\ fresh' = fresh /\ edited' = edited /\ skipped' = skipped /\ patched' = patched
  BY DEF IInv, Deliver
<1>2. \/ /\ toServer.wire # <<>> /\ (network = "merging" \/ toServer.buf = <<>>)
         /\ toServer' = Arrive(toServer) /\ toClient' = toClient
      \/ /\ toClient.wire # <<>> /\ (network = "merging" \/ toClient.buf = <<>>)
         /\ toClient' = Arrive(toClient) /\ toServer' = toServer
  BY DEF Deliver, MayArrive
<1>3. TypeOK'
  <2>1. toServer' \in Streams /\ toClient' \in Streams
    BY <1>1, <1>2, StreamTypes DEF TypeOK
  <2> QED
    BY <1>1, <2>1 DEF TypeOK
<1>4. Fits' /\ Fresh'
  BY <1>1 DEF Fits, Fresh
<1>5. toClient = NoStream => /\ toClient' = toClient /\ toServer' = Arrive(toServer)
                             /\ toServer.wire # <<>> /\ (network = "merging" \/ toServer.buf = <<>>)
  BY <1>2, Nothing
<1>6. toServer = NoStream => /\ toServer' = toServer /\ toClient' = Arrive(toClient)
                             /\ toClient.wire # <<>> /\ (network = "merging" \/ toClient.buf = <<>>)
  BY <1>2, Nothing
<1>7. Phase'
  <2>1. ASSUME Listening PROVE Listening'
    <3>1. toServer # NoStream /\ toClient' = NoStream /\ toServer' = Arrive(toServer)
          /\ toServer.wire # <<>>
      BY <1>5, <2>1, Nothing DEF Listening
    <3>2. \A q \in Queries : OneMessage(toServer, q) => OneMessage(toServer', q)
      BY <3>1, OneMessageFacts, QueryFacts
    <3>3. Asking => msg \in Queries
      BY <1>1, AskedFor
    <3>4. \/ Asking' /\ OneMessage(toServer, msg)'
          \/ pc' = "dead" /\ \E q \in Queries : OneMessage(toServer', q)
      <4>1. Asking => Asking'
        BY <1>1 DEF Asking
      <4>2. CASE Asking /\ OneMessage(toServer, msg)
        BY <1>1, <3>2, <3>3, <4>1, <4>2
      <4>3. CASE pc = "dead" /\ \E q \in Queries : OneMessage(toServer, q)
        BY <1>1, <3>2, <4>3
      <4> QED
        BY <2>1, <3>1, <4>2, <4>3 DEF Listening
    <3>5. (pc' = "asleep" => RoundAgrees') /\ (pc' \in {"scan", "reply", "poll"} => Agreed(Pending)')
      BY <1>1, <2>1 DEF Listening, RoundAgrees, Agreed, Pending
    <3> QED
      BY <1>1, <2>1, <3>1, <3>4, <3>5 DEF Listening
  <2>2. ASSUME Answered PROVE Answered'
    <3>1. PICK a \in Messages, d \in Seq(Edits), n \in Nat : Answering(a, d, n)
      BY <2>2 DEF Answered
    <3>2. MessageThen(network, toClient, a, d, n) /\ Within(d, n)
      BY <3>1 DEF Answering, Whole, Within
    <3>3. MessageThen(network, toClient', a, d, n)
      <4>1. toClient.wire # <<>> /\ (network = "merging" \/ toClient.buf = <<>>) /\ toClient' = Arrive(toClient)
        BY <1>6, <2>2 DEF Answered
      <4>2. MessageThen(network, Arrive(toClient), a, d, n)
        BY <3>2, <4>1, MessageDelivered
      <4> QED
        BY <4>1, <4>2
    <3>4. Answering(a, d, n)'
      BY <1>1, <3>1, <3>3 DEF Answering
    <3>5. Asking' /\ toServer' = NoStream /\ Agreed(Pending)'
      BY <1>1, <1>6, <2>2 DEF Answered, Asking, Agreed, Pending
    <3> QED
      BY <3>4, <3>5 DEF Answered
  <2>3. ASSUME Receiving PROVE Receiving'
    <3>1. PICK d \in Seq(Edits), m \in Nat, n \in Nat : Downloading(d, m, n)
      BY <2>3 DEF Receiving
    <3>2. m <= n /\ Within(d, n) /\ FileThen(network, toClient, d, m, n, <<>>)
      BY <3>1 DEF Downloading, Whole
    <3>3. toClient.wire # <<>> /\ (network = "merging" \/ toClient.buf = <<>>) /\ toClient' = Arrive(toClient)
      BY <1>6, <2>3 DEF Receiving
    <3>4. FileThen(network, toClient', d, m, n, <<>>)
      <4>1. <<>> \in Rests
        BY DEF Rests
      <4>2. FileThen(network, Arrive(toClient), d, m, n, <<>>)
        BY <3>2, <3>3, <4>1, FileDelivered
      <4> QED
        BY <3>3, <4>2
    <3>5. Downloading(d, m, n)'
      BY <1>1, <3>1, <3>4 DEF Downloading
    <3>6. toServer' = NoStream
      BY <1>6, <2>3 DEF Receiving
    <3> QED
      BY <1>1, <2>3, <3>5, <3>6 DEF Receiving, Agreed
  <2>4. ASSUME Getting PROVE Getting'
    <3>1. PICK d \in Seq(Edits), m \in Nat, j \in Nat, rest \in Queued : Uploading(d, m, j, rest)
      BY <2>4 DEF Getting
    <3>2. /\ toServer.wire # <<>> /\ (network = "merging" \/ toServer.buf = <<>>)
          /\ toServer' = Arrive(toServer) /\ toClient' = NoStream
      BY <1>5, <2>4 DEF Getting
    <3>3. FileThen(network, toServer', d, m, j, rest)
      <4>1. rest \in Rests
        BY QueryFacts
      <4>2. m <= j /\ Within(d, j) /\ FileThen(network, toServer, d, m, j, rest)
        BY <3>1 DEF Uploading
      <4>3. FileThen(network, Arrive(toServer), d, m, j, rest)
        BY <3>2, <4>1, <4>2, FileDelivered
      <4> QED
        BY <3>2, <4>3
    <3>4. Uploading(d, m, j, rest)'
      <4>1. Sender(d, j, rest)'
        BY <1>1, <3>1 DEF Uploading, Sender, Asking
      <4> QED
        BY <1>1, <3>1, <3>3, <4>1 DEF Uploading
    <3>5. pc' # "dead" => s_name' \notin todo' /\ Agreed({s_name} \cup Pending)'
      BY <1>1, <2>4 DEF Getting, Agreed, Pending
    <3> QED
      BY <1>1, <2>4, <3>2, <3>4, <3>5 DEF Getting
  <2>5. ~Lost
    BY <1>5 DEF Lost
  <2>6. ASSUME Over PROVE Over'
    BY <1>1, <1>5, <2>6 DEF Over
  <2> QED
    BY <1>1, <2>1, <2>2, <2>3, <2>4, <2>5, <2>6 DEF Phase
<1> QED
  BY <1>3, <1>4, <1>7 DEF IInv

\* There are files of every size.
LEMMA SomeFile == \A z \in Nat : \E d \in Seq(Edits) : Len(d) = z
<1> TAKE z \in Nat
<1>1. 0 \in Edits
  BY Bounds DEF Edits
<1>2. [k \in 1 .. z |-> 0] \in Seq(Edits) /\ Len([k \in 1 .. z |-> 0]) = z
  BY <1>1, IsASeq
<1> QED
  BY <1>2

\* The client ends, and what it sent may be lost.
LEMMA CrashKeeps == IInv /\ Crash => IInv'
<1> SUFFICES ASSUME IInv, Crash PROVE IInv'
  OBVIOUS
<1> USE DEF disks, serverVars
<1>1. /\ TypeOK /\ Fits /\ Phase /\ Fresh
      /\ pc # "dead" /\ pc' = "dead" /\ crashes < MaxCrashes /\ crashes' = crashes + 1
      /\ fresh' = FALSE /\ toClient' = NoStream
      /\ toServer' \in {toServer, [toServer EXCEPT !.wire = <<>>]}
      /\ network' = network /\ cclock' = cclock /\ sclock' = sclock /\ edits' = edits
      /\ cdisk' = cdisk /\ sdisk' = sdisk
      /\ todo' = todo /\ msg' = msg /\ reply' = reply
      /\ offset' = offset /\ bytes_left' = bytes_left
      /\ server' = server /\ s_name' = s_name /\ s_size' = s_size /\ s_left' = s_left
      /\ edited' = edited /\ skipped' = skipped /\ patched' = patched
  BY DEF IInv, Crash, Gone
<1>2. crashes' \in 0 .. MaxCrashes
  BY <1>1, Bounds, SMTT(30) DEF TypeOK
<1>3. TypeOK'
  <2>1. toServer' \in Streams /\ toClient' \in Streams
    BY <1>1, StreamTypes DEF TypeOK
  <2> QED
    BY <1>1, <1>2, <2>1 DEF TypeOK
<1>4. Fits' /\ Fresh'
  BY <1>1 DEF Fits, Fresh
<1>5. toServer = NoStream => toServer' = NoStream
  BY <1>1, Nothing
<1>6. Phase'
  <2>1. ASSUME Listening PROVE Listening'
    <3>1. \A q \in Queries : OneMessage(toServer, q) => toServer' = NoStream \/ OneMessage(toServer', q)
      <4> TAKE q \in Queries
      <4>1. q \in Messages
        BY QueryFacts
      <4> QED
        BY <1>1, <4>1, OneMessageFacts, SMTT(30)
    <3>2. Asking => msg \in Queries
      BY <1>1, AskedFor
    <3> QED
      BY <1>1, <1>5, <2>1, <3>1, <3>2 DEF Listening
  <2>2. ASSUME Answered PROVE Listening' \/ Getting'
    <3>1. toServer' = NoStream /\ msg \in Messages
      BY <1>1, <1>5, <2>2 DEF Answered, TypeOK
    <3>2. CASE server = "SYNC"
      BY <1>1, <3>1, <3>2 DEF Listening
    <3>3. CASE server = "GETFILE"
      <4>1. PICK a \in Messages, e \in Seq(Edits), n \in Nat : Answering(a, e, n)
        BY <2>2 DEF Answered
      <4>7. s_name = msg.name /\ s_size = msg.size /\ s_left = msg.size /\ Newer(msg, a)
        BY <3>3, <4>1 DEF Answering
      <4>2. msg.size \in Nat /\ s_name \in Names
        <5>1. pc # "poll"
          <6>1. pc = "poll" => msg = EmptyMessage /\ a = EmptyMessage
            BY <2>2, <4>1 DEF Answered, Asking, Answering
          <6> QED
            BY <4>7, <6>1, Empty
        <5> QED
          BY <2>2, <3>1, <4>7, <5>1, Bounds, MessageFields DEF Answered, Asking
      <4>3. PICK d \in Seq(Edits) : Len(d) = msg.size
        BY <4>2, SomeFile
      <4>4. FileThen(network, NoStream, d, 0, 0, <<>>)
        BY <4>3, FileStart
      <4>5. Uploading(d, 0, 0, <<>>)'
        <5>1. s_left' = s_size' - At(0) /\ (s_size' > 0 => s_left' > 0) /\ Len(d) = s_size'
          BY <1>1, <4>2, <4>3, <4>7, AtNext
        <5>2. FileThen(network', toServer', d, 0, 0, <<>>)
          BY <1>1, <3>1, <4>4
        <5> QED
          BY <1>1, <5>1, <5>2 DEF Uploading, Within, Sender
      <4>6. 0 \in Nat /\ <<>> \in Queued
        BY QueryFacts
      <4> QED
        BY <1>1, <3>3, <4>2, <4>3, <4>5, <4>6 DEF Getting
    <3> QED
      BY <2>2, <3>2, <3>3 DEF Answered, Answering
  <2>3. ASSUME Receiving PROVE Listening'
    BY <1>1, <1>5, <2>3 DEF Receiving, Listening
  <2>4. ASSUME Getting PROVE Getting'
    <3>1. PICK d \in Seq(Edits), m \in Nat, j \in Nat, rest \in Queued : Uploading(d, m, j, rest)
      BY <2>4 DEF Getting
    <3>2. rest \in Rests
      BY QueryFacts
    <3>3. PICK k \in Nat, r \in {<<>>, rest} :
            /\ m <= k /\ Within(d, k) /\ (r # <<>> => k = j)
            /\ FileThen(network, toServer', d, m, k, r)
      <4>1. CASE toServer' = toServer
        BY <3>1, <4>1 DEF Uploading
      <4>2. CASE toServer' = [toServer EXCEPT !.wire = <<>>]
        <5>1. m <= j /\ Within(d, j) /\ FileThen(network, toServer, d, m, j, rest)
          BY <3>1 DEF Uploading
        <5> QED
          BY <3>2, <4>2, <5>1, WireLost
      <4> QED
        BY <1>1, <4>1, <4>2
    <3>4. Uploading(d, m, k, r)'
      <4>1. r # <<>> => s_size <= At(k)
        BY <3>1, <3>3 DEF Uploading
      <4> QED
        BY <1>1, <3>1, <3>3, <4>1 DEF Uploading, Sender
    <3>5. r \in Queued
      BY QueryFacts
    <3> QED
      BY <1>1, <2>4, <3>4, <3>5 DEF Getting
  <2>5. ASSUME Lost PROVE Lost'
    <3>1. \A s \in Streams : s.wire = <<>> => [s EXCEPT !.wire = <<>>] = s
      BY DEF Streams
    <3>2. toServer' = toServer
      BY <1>1, <2>5, <3>1 DEF Lost, TypeOK
    <3> QED
      BY <1>1, <2>5, <3>2 DEF Lost
  <2>6. ASSUME Over PROVE Over'
    BY <1>1, <2>6 DEF Over
  <2> QED
    BY <1>1, <2>1, <2>2, <2>3, <2>4, <2>5, <2>6 DEF Phase
<1> QED
  BY <1>3, <1>4, <1>6 DEF IInv

\* The client notices that the session is over.
LEMMA ServerGoneKeeps == IInv /\ ServerGone => IInv'
<1> SUFFICES ASSUME IInv, ServerGone PROVE IInv'
  OBVIOUS
<1> USE DEF environment, disks, serverVars
<1>1. /\ TypeOK /\ Fits /\ Phase /\ Fresh
      /\ pc # "dead" /\ pc' = "dead" /\ server \in {"closed", "killed"}
      /\ fresh' = FALSE /\ toClient' = NoStream
      /\ toServer' \in {toServer, [toServer EXCEPT !.wire = <<>>]}
      /\ network' = network /\ cclock' = cclock /\ sclock' = sclock /\ edits' = edits /\ crashes' = crashes
      /\ cdisk' = cdisk /\ sdisk' = sdisk
      /\ todo' = todo /\ msg' = msg /\ reply' = reply
      /\ offset' = offset /\ bytes_left' = bytes_left
      /\ server' = server /\ s_name' = s_name /\ s_size' = s_size /\ s_left' = s_left
      /\ edited' = edited /\ skipped' = skipped /\ patched' = patched
  BY DEF IInv, ServerGone, Gone
<1>2. TypeOK'
  <2>1. toServer' \in Streams /\ toClient' \in Streams
    BY <1>1, StreamTypes DEF TypeOK
  <2> QED
    BY <1>1, <2>1 DEF TypeOK
<1>3. Over'
  BY <1>1 DEF Over
<1>4. Fits' /\ Fresh'
  BY <1>1 DEF Fits, Fresh
<1> QED
  BY <1>2, <1>3, <1>4 DEF IInv, Phase

\* The client is started again.
LEMMA RestartKeeps == IInv /\ Restart => IInv'
<1> SUFFICES ASSUME IInv, Restart PROVE IInv'
  OBVIOUS
<1> USE DEF environment, disks, history
<1>1. /\ TypeOK /\ Fits /\ Phase /\ Fresh
      /\ pc = "dead" /\ pc' = "asleep" /\ server = "closed" /\ server' = "SYNC"
      /\ toServer' = NoStream /\ toClient' = toClient
      /\ network' = network /\ cclock' = cclock /\ sclock' = sclock /\ edits' = edits /\ crashes' = crashes
      /\ cdisk' = cdisk /\ sdisk' = sdisk
      /\ todo' = todo /\ msg' = msg /\ reply' = reply
      /\ offset' = offset /\ bytes_left' = bytes_left
      /\ s_name' = s_name /\ s_size' = s_size /\ s_left' = s_left
      /\ fresh' = fresh /\ edited' = edited /\ skipped' = skipped /\ patched' = patched
  BY DEF IInv, Restart
<1>2. fresh' = FALSE
  BY <1>1 DEF Fresh, TypeOK
<1>3. TypeOK'
  <2>1. toServer' \in Streams /\ toClient' \in Streams
    BY <1>1, StreamTypes DEF TypeOK
  <2> QED
    BY <1>1, <2>1 DEF TypeOK
<1>4. Over
  BY <1>1 DEF Phase, Listening, Answered, Receiving, Getting, Lost, Asking
<1>5. Listening'
  BY <1>1, <1>2, <1>4 DEF Over, Listening, RoundAgrees
<1>6. Fits' /\ Fresh'
  BY <1>1 DEF Fits, Fresh
<1> QED
  BY <1>3, <1>5, <1>6 DEF IInv, Phase

\* A file that recv_chunk creates is empty, as the missing one was.
LEMMA CreatedFacts ==
  ASSUME NEW disk \in [Names -> Files], NEW n \in Names, sclock \in Times
  PROVE  /\ Created(disk, n) \in [Names -> Files]
         /\ \A k \in Names : Created(disk, n)[k].data = disk[k].data
<1>1. <<>> \in Seq(Edits) /\ NoFile.data = <<>>
  BY EmptySeq DEF NoFile
<1>2. PICK f \in Files : f = [mtime |-> sclock, data |-> <<>>] /\ f.mtime = sclock /\ f.data = <<>>
  <2>1. \A f : f = [mtime |-> sclock, data |-> <<>>] => f \in Files /\ f.mtime = sclock /\ f.data = <<>>
    BY <1>1, FileMade
  <2> QED
    BY <2>1, Zenon
<1>3. Created(disk, n) = IF disk[n] = NoFile THEN [disk EXCEPT ![n] = f] ELSE disk
  BY <1>2 DEF Created
<1> QED
  BY <1>1, <1>2, <1>3

\* The end of what a client sent is the end of its session.
LEMMA ReadEofKeeps == IInv /\ ReadEof => IInv'
<1> SUFFICES ASSUME IInv, ReadEof PROVE IInv'
  OBVIOUS
<1> USE DEF environment, clientVars, history
<1>1. /\ TypeOK /\ Fits /\ Phase /\ Fresh
      /\ pc = "dead" /\ server \in {"SYNC", "GETFILE"} /\ server' = "closed"
      /\ network' = network /\ cclock' = cclock /\ sclock' = sclock /\ edits' = edits /\ crashes' = crashes
      /\ cdisk' = cdisk /\ toServer' = toServer /\ toClient' = toClient
      /\ pc' = pc /\ todo' = todo /\ msg' = msg /\ reply' = reply
      /\ offset' = offset /\ bytes_left' = bytes_left
      /\ s_name' = s_name /\ s_size' = s_size /\ s_left' = s_left
      /\ fresh' = fresh /\ edited' = edited /\ skipped' = skipped /\ patched' = patched
  BY DEF IInv, ReadEof, AtEof
<1>2. toClient = NoStream /\ (server = "GETFILE" => s_name \in Names) /\ ~Over
  BY <1>1 DEF Phase, Listening, Answered, Receiving, Getting, Lost, Over, Asking
<1>3. sdisk' = sdisk \/ (s_name \in Names /\ sdisk' = Created(sdisk, s_name))
  BY <1>1, <1>2 DEF ReadEof
<1>4. sdisk' \in [Names -> Files] /\ \A n \in Names : sdisk'[n].data = sdisk[n].data
  <2>1. sdisk \in [Names -> Files] /\ sclock \in Times
    BY <1>1, Bounds DEF TypeOK, Times
  <2>2. CASE sdisk' = sdisk
    BY <2>1, <2>2
  <2>3. CASE s_name \in Names /\ sdisk' = Created(sdisk, s_name)
    BY <2>1, <2>3, CreatedFacts
  <2> QED
    BY <1>3, <2>2, <2>3
<1>5. TypeOK'
  BY <1>1, <1>4 DEF TypeOK
<1>6. Fits'
  BY <1>1, <1>4 DEF Fits
<1>7. Over'
  BY <1>1, <1>2 DEF Over
<1>8. Fresh'
  BY <1>1 DEF Fresh
<1> QED
  BY <1>5, <1>6, <1>7, <1>8 DEF IInv, Phase

-----------------------------------------------------------------------------
(* The steps of the client                                                 *)

\* A round begins.
LEMMA StartRoundKeeps == IInv /\ StartRound => IInv'
<1> SUFFICES ASSUME IInv, StartRound PROVE IInv'
  OBVIOUS
<1> USE DEF environment, disks, serverVars
<1>1. /\ TypeOK /\ Fits /\ Phase /\ Fresh
      /\ pc = "asleep" /\ pc' = "scan" /\ todo' = {n \in Names : cdisk[n].mtime # 0}
      /\ fresh' = FALSE /\ edited' = {} /\ skipped' = {} /\ patched' = {}
      /\ network' = network /\ cclock' = cclock /\ sclock' = sclock /\ edits' = edits /\ crashes' = crashes
      /\ cdisk' = cdisk /\ sdisk' = sdisk /\ toServer' = toServer /\ toClient' = toClient
      /\ msg' = msg /\ reply' = reply /\ offset' = offset /\ bytes_left' = bytes_left
      /\ server' = server /\ s_name' = s_name /\ s_size' = s_size /\ s_left' = s_left
  BY DEF IInv, StartRound
<1>2. TypeOK'
  BY <1>1 DEF TypeOK
<1>3. Fits' /\ Fresh'
  BY <1>1 DEF Fits, Fresh
<1>4. Listening
  BY <1>1 DEF Phase, Listening, Answered, Receiving, Getting, Uploading, Sender, Lost, Over, Asking
<1>5. toServer = NoStream
  BY <1>1, <1>4 DEF Listening, Asking
<1>6. \A n \in Names : n \notin todo' => AgreeOn(cdisk', sdisk', n)
  BY <1>1 DEF AgreeOn
<1>7. Agreed(Pending)'
  BY <1>1, <1>6 DEF Agreed, Pending
<1>8. Listening'
  BY <1>1, <1>4, <1>5, <1>7 DEF Listening
<1> QED
  BY <1>2, <1>3, <1>8 DEF IInv, Phase

\* A file is announced, or the end of the round.
LEMMA SendSyncKeeps == IInv /\ SendSync => IInv'
<1> SUFFICES ASSUME IInv, SendSync PROVE IInv'
  OBVIOUS
<1> USE DEF environment, disks, serverVars, history
<1>1. /\ TypeOK /\ Fits /\ Phase /\ Fresh
      /\ pc = "scan" /\ toServer' = Put(toServer, Encode(msg'))
      /\ network' = network /\ cclock' = cclock /\ sclock' = sclock /\ edits' = edits /\ crashes' = crashes
      /\ cdisk' = cdisk /\ sdisk' = sdisk /\ toClient' = toClient
      /\ reply' = reply /\ offset' = offset /\ bytes_left' = bytes_left
      /\ server' = server /\ s_name' = s_name /\ s_size' = s_size /\ s_left' = s_left
      /\ fresh' = fresh /\ skipped' = skipped /\ patched' = patched
  BY DEF IInv, SendSync
<1>2. \/ \E n \in todo : /\ msg' = init_sync_msg(cdisk, n) /\ todo' = todo \ {n}
                          /\ edited' = edited \ {n} /\ pc' = "reply"
      \/ todo = {} /\ msg' = EmptyMessage /\ pc' = "poll" /\ todo' = todo /\ edited' = edited
  BY DEF SendSync
<1>3. cdisk \in [Names -> Files] /\ todo \subseteq Names /\ toServer \in Streams
  BY <1>1 DEF TypeOK
<1>4. /\ msg' \in Messages /\ Asking' /\ todo' \subseteq todo /\ todo \subseteq todo' \cup Pending'
      /\ pc' \in {"reply", "poll"}
      /\ edited' \subseteq edited /\ edited \subseteq edited' \cup Pending'
      /\ \A n \in edited \ todo : n \in edited'
  <2>1. CASE \E n \in todo : /\ msg' = init_sync_msg(cdisk, n) /\ todo' = todo \ {n}
                             /\ edited' = edited \ {n} /\ pc' = "reply"
    <3>1. PICK n \in todo : /\ msg' = init_sync_msg(cdisk, n) /\ todo' = todo \ {n}
                            /\ edited' = edited \ {n} /\ pc' = "reply"
      BY <2>1
    <3>2. n \in Names /\ Countable(cdisk[n].data)
      BY <1>1, <1>3 DEF Fits
    <3>3. init_sync_msg(cdisk, n) \in Messages /\ init_sync_msg(cdisk, n).name = n
      BY <1>3, <3>2, Announced
    <3>4. msg' \in Messages /\ msg'.name = n
      BY <3>1, <3>3
    <3>5. Asking'
      BY <1>1, <3>1, <3>2, <3>4 DEF Asking
    <3> QED
      BY <3>1, <3>4, <3>5 DEF Pending
  <2>2. CASE todo = {} /\ msg' = EmptyMessage /\ pc' = "poll" /\ todo' = todo /\ edited' = edited
    BY <2>2, Empty DEF Asking
  <2> QED
    BY <1>2, <2>1, <2>2
<1>5. TypeOK'
  <2>1. toServer' \in Streams
    BY <1>1, <1>3, <1>4, EncodeFacts, StreamTypes
  <2> QED
    BY <1>1, <1>3, <1>4, <2>1 DEF TypeOK
<1>6. Fits'
  BY <1>1 DEF Fits
<1>7. Fresh'
  BY <1>1, <1>4 DEF Fresh
<1>8. Phase'
  <2>2. ASSUME Listening PROVE Listening'
    <3>1. toServer = NoStream /\ server = "SYNC" /\ toClient = NoStream /\ Agreed(Pending) /\ Pending = {}
      BY <1>1, <2>2 DEF Listening, Asking, Pending
    <3>2. OneMessage(toServer', msg')
      BY <1>1, <1>4, <3>1, OneMessageFacts
    <3>3. Agreed(Pending)'
      BY <1>1, <1>4, <3>1 DEF Agreed, Pending
    <3> QED
      BY <1>1, <1>4, <3>1, <3>2, <3>3 DEF Listening
  <2>3. ASSUME Getting PROVE Getting'
    <3>1. PICK d \in Seq(Edits), m \in Nat, j \in Nat, rest \in Queued : Uploading(d, m, j, rest)
      BY <2>3 DEF Getting
    <3>2. rest = <<>> /\ s_size <= At(j) /\ (s_name \in edited \/ d = cdisk[s_name].data)
          /\ s_name \notin todo
      BY <1>1, <2>3, <3>1 DEF Getting, Uploading, Sender, Asking
    <3>0. s_name \in edited => s_name \in edited'
      BY <1>4, <3>2
    <3>3. m <= j /\ FileThen(network, toServer, d, m, j, <<>>)
      BY <3>1, <3>2 DEF Uploading
    <3>4. FileThen(network, toServer', d, m, j, <<Encode(msg')>>)
      BY <1>1, <1>4, <3>3, RestWritten
    <3>5. Sender(d, j, <<Encode(msg)>>)'
      BY <1>1, <1>4, <3>0, <3>2 DEF Sender
    <3>6. Uploading(d, m, j, <<Encode(msg)>>)'
      BY <1>1, <1>4, <3>0, <3>1, <3>2, <3>4, <3>5 DEF Uploading
    <3>7. msg' \in Queries
      BY <1>2, <1>3, <1>4, Empty DEF Asking, Queries
    <3>8. <<Encode(msg')>> \in Queued
      BY <3>7, QueryFacts
    <3>9. s_name' \notin todo' /\ Agreed({s_name} \cup Pending)'
      <4>1. s_name \notin todo /\ Agreed({s_name} \cup Pending) /\ Pending = {}
        BY <1>1, <2>3 DEF Getting, Pending
      <4> QED
        BY <1>1, <1>4, <4>1 DEF Agreed
    <3> QED
      BY <1>1, <2>3, <3>6, <3>8, <3>9 DEF Getting
  <2>4. ~Answered /\ ~Receiving /\ ~Lost /\ ~Over
    BY <1>1 DEF Answered, Asking, Receiving, Lost, Over
  <2> QED
    BY <1>1, <2>2, <2>3, <2>4 DEF Phase
<1> QED
  BY <1>5, <1>6, <1>7, <1>8 DEF IInv

\* The answer that a client waits for.
LEMMA AnswerFacts ==
  ASSUME TypeOK, Phase, pc \in {"reply", "poll"}, HasMessage(toClient)
  PROVE  /\ Answered
         /\ \E a \in Messages, d \in Seq(Edits), n \in Nat :
              /\ Answering(a, d, n) /\ toClient.buf[1].of = a
              /\ FileThen(network, Take(toClient, SyncLen), d, 0, n, <<>>)
<1>1. Answered
  BY Nothing DEF Phase, Listening, Receiving, Getting, Lost, Over
<1>2. PICK a \in Messages, d \in Seq(Edits), n \in Nat : Answering(a, d, n)
  BY <1>1 DEF Answered
<1>3. toClient.buf # <<>>
  BY FoundMessage DEF TypeOK
<1>4. MessageThen(network, toClient, a, d, n)
  BY <1>2 DEF Answering
<1>5. toClient.buf[1].of = a /\ FileThen(network, Take(toClient, SyncLen), d, 0, n, <<>>)
  BY <1>3, <1>4, MessageRead
<1> QED
  BY <1>1, <1>2, <1>5

\* An empty file has no chunks.
LEMMA NoChunks ==
  ASSUME NEW d \in Seq(Edits), Len(d) = 0, NEW n \in Nat, Within(d, n)
  PROVE  n = 0
<1> SUFFICES ASSUME n # 0 PROVE FALSE
  OBVIOUS
<1>1. n - 1 \in Nat
  OBVIOUS
<1>2. At(n - 1) \in Nat /\ At(n - 1) < Len(d)
  BY <1>1, AtNext DEF Within
<1> QED
  BY <1>2

\* Of the server's copy and the client's, the newer one is to replace the other.
LEMMA ReadReplyKeeps == IInv /\ ReadReply => IInv'
<1> SUFFICES ASSUME IInv, ReadReply PROVE IInv'
  OBVIOUS
<1> USE DEF environment, disks, serverVars
<1>1. /\ TypeOK /\ Fits /\ Phase /\ Fresh
      /\ pc = "reply" /\ HasMessage(toClient) /\ reply' = toClient.buf[1].of
      /\ toClient' = Take(toClient, SyncLen)
      /\ network' = network /\ cclock' = cclock /\ sclock' = sclock /\ edits' = edits /\ crashes' = crashes
      /\ cdisk' = cdisk /\ sdisk' = sdisk /\ toServer' = toServer
      /\ todo' = todo /\ msg' = msg /\ fresh' = fresh /\ edited' = edited
      /\ server' = server /\ s_name' = s_name /\ s_size' = s_size /\ s_left' = s_left
  BY DEF IInv, ReadReply
<1>2. /\ Answered
      /\ \E a \in Messages, d \in Seq(Edits), n \in Nat :
           /\ Answering(a, d, n) /\ toClient.buf[1].of = a
           /\ FileThen(network, Take(toClient, SyncLen), d, 0, n, <<>>)
  BY <1>1, AnswerFacts, Zenon
<1>3. PICK d \in Seq(Edits), n \in Nat :
        /\ reply' \in Messages /\ Answering(reply', d, n)
        /\ FileThen(network, toClient', d, 0, n, <<>>)
  BY <1>1, <1>2
<1>4. PICK e \in Seq(Edits) :
        /\ e = cdisk[msg.name].data /\ msg.name \in Names \ todo
        /\ Len(d) = reply'.size /\ Len(e) = msg.size
        /\ reply'.name = msg.name /\ (msg.name \in edited \/ d = sdisk[msg.name].data)
        /\ reply'.mtime \in Nat /\ msg.mtime \in Nat
        /\ Len(d) \in 0 .. SizeMod - 1 /\ Len(e) \in 0 .. SizeMod - 1
        /\ Len(d) \in Nat /\ Len(e) \in Nat
  <2>1. msg.name \in Names \ todo /\ msg = init_sync_msg(cdisk, msg.name)
    BY <1>1, <1>2 DEF Answered, Asking
  <2>2. /\ cdisk \in [Names -> Files] /\ msg \in Messages
        /\ cdisk[msg.name] \in Files /\ Countable(cdisk[msg.name].data)
    BY <1>1, <2>1 DEF TypeOK, Fits
  <2>3. cdisk[msg.name].data \in Seq(Edits)
    BY <2>2, FileFields
  <2>4. msg.size = Len(cdisk[msg.name].data)
    BY <2>1, <2>2, Announced
  <2>5. reply'.mtime \in Nat /\ msg.mtime \in Nat /\ reply'.size \in 0 .. SizeMod - 1
        /\ msg.size \in 0 .. SizeMod - 1
    BY <1>3, <2>2, MessageFields
  <2>6. Len(cdisk[msg.name].data) \in Nat /\ Len(d) \in Nat
    BY <2>3, LenProperties
  <2>7. /\ Len(d) = reply'.size /\ reply'.name = msg.name
        /\ msg.name \in edited \/ d = sdisk[msg.name].data
    BY <1>1, <1>3 DEF Answering
  <2> QED
    BY <2>1, <2>3, <2>4, <2>5, <2>6, <2>7
<1>0. At(0) = 0
  BY AtNext
<1>5. /\ toServer = NoStream /\ toServer' = NoStream /\ Agreed({msg.name})
      /\ IF Newer(msg, reply')
         THEN server = "GETFILE" /\ s_name = msg.name /\ s_size = msg.size /\ s_left = msg.size
         ELSE server = "SYNC"
      /\ IF Newer(reply', msg) THEN Whole(d, n) ELSE n = 0
  BY <1>1, <1>2, <1>3 DEF Answered, Answering, Pending
<1>6. n = 0 => toClient' = NoStream
  BY <1>3, NoneRemains
<1>7. toClient' \in Streams
  BY <1>1, StreamTypes DEF TypeOK, SyncLen
<1>8. CASE Newer(reply', msg)
  <2>1. /\ bytes_left' = reply'.size
        /\ pc' = IF reply'.size > 0 THEN "recv" ELSE "scan"
        /\ patched' = IF Overwrites(e, reply'.size) THEN patched ELSE patched \cup {msg.name}
        /\ offset' = offset /\ skipped' = skipped
    BY <1>4, <1>8 DEF ReadReply, Newer
  <2>2. server = "SYNC" /\ Whole(d, n)
    BY <1>4, <1>5, <1>8 DEF Newer
  <2>3. TypeOK'
    <3>1. patched' \subseteq Names /\ bytes_left' \in 0 .. SizeMod - 1
          /\ pc' \in {"asleep", "scan", "reply", "send", "recv", "poll", "dead"}
      BY <1>1, <1>4, <2>1 DEF TypeOK
    <3> QED
      BY <1>1, <1>3, <1>7, <2>1, <3>1 DEF TypeOK
  <2>4. Overwrites(e, Len(d)) \/ msg.name \in patched'
    BY <1>4, <2>1
  <2>5. \A k \in Names \ (todo' \cup edited' \cup skipped' \cup patched' \cup {msg.name}) :
          AgreeOn(cdisk', sdisk', k)
    BY <1>1, <1>5, <2>1 DEF Agreed
  <2>6. CASE reply'.size > 0
    <3>1. bytes_left' = Len(d) - At(0) /\ bytes_left' > 0 /\ 0 <= n /\ bytes_left' = Len(d)
      BY <1>4, <2>1, <2>6, <1>0
    <3>2. Overwrites(e, Len(d)) => Progress(d, e, bytes_left')
      BY <3>1 DEF Overwrites, Progress
    <3>3. Downloading(d, 0, n)'
      BY <1>1, <1>3, <1>4, <2>2, <2>4, <3>1, <3>2 DEF Downloading
    <3>4. Agreed({reply.name})'
      BY <1>4, <2>5 DEF Agreed
    <3>5. Receiving'
      BY <1>1, <1>4, <1>5, <2>1, <2>2, <2>6, <3>3, <3>4 DEF Receiving
    <3>6. Fits' /\ Fresh'
      BY <1>1, <2>1, <2>6 DEF Fits, Fresh
    <3> QED
      BY <2>3, <3>5, <3>6 DEF IInv, Phase
  <2>7. CASE ~(reply'.size > 0)
    <3>1. pc' = "scan" /\ Len(d) = 0
      BY <1>4, <2>1, <2>7
    <3>2. toClient' = NoStream
      <4>1. Within(d, n)
        BY <2>2 DEF Whole
      <4> QED
        BY <1>6, <3>1, <4>1, NoChunks
    <3>3. msg.name \in patched' \/ d = e
      <4>1. Overwrites(e, 0) => Len(e) = 0
        BY <1>4, Sized DEF Overwrites, Smaller
      <4>2. Len(e) = 0 => d = e
        BY <1>4, <3>1, EmptySeq
      <4> QED
        BY <2>4, <3>1, <4>1, <4>2
    <3>4. Agreed(Pending)'
      <4>1. msg.name \in edited' \cup patched' \/ AgreeOn(cdisk', sdisk', msg.name)
        BY <1>1, <1>4, <3>3 DEF AgreeOn
      <4>2. Pending' = {}
        BY <3>1 DEF Pending
      <4> QED
        BY <2>5, <4>1, <4>2 DEF Agreed
    <3>5. Listening'
      BY <1>1, <1>5, <2>2, <3>1, <3>2, <3>4 DEF Listening
    <3>6. Fits' /\ Fresh'
      BY <1>1, <3>1 DEF Fits, Fresh
    <3> QED
      BY <2>3, <3>5, <3>6 DEF IInv, Phase
  <2> QED
    BY <2>6, <2>7
<1>9. CASE Newer(msg, reply')
  <2>0. PICK f \in Seq(Edits) : f = sdisk[msg.name].data
    <3>1. sdisk[msg.name] \in Files
      BY <1>1, <1>4 DEF TypeOK
    <3> QED
      BY <3>1, FileFields
  <2>1. /\ bytes_left' = msg.size /\ offset' = 0
        /\ pc' = IF msg.size > 0 THEN "send" ELSE "scan"
        /\ patched' = IF Overwrites(f, msg.size) THEN patched ELSE patched \cup {msg.name}
        /\ skipped' = skipped
    BY <1>4, <1>9, <2>0 DEF ReadReply, Newer
  <2>2. ~Newer(reply', msg)
    BY <1>4, <1>9 DEF Newer
  <2>3. toClient' = NoStream
    BY <1>5, <1>6, <2>2
  <2>4. TypeOK'
    <3>1. patched' \subseteq Names /\ bytes_left' \in 0 .. SizeMod - 1 /\ offset' \in Nat
          /\ pc' \in {"asleep", "scan", "reply", "send", "recv", "poll", "dead"}
      BY <1>1, <1>4, <2>1 DEF TypeOK
    <3> QED
      BY <1>1, <1>3, <1>7, <2>1, <3>1 DEF TypeOK
  <2>5. /\ server' = "GETFILE" /\ s_name' = msg.name /\ s_size' = Len(e) /\ s_left' = Len(e)
        /\ e = cdisk'[s_name'].data /\ f = sdisk'[s_name'].data
    BY <1>1, <1>4, <1>5, <1>9, <2>0
  <2>6. Uploading(e, 0, 0, <<>>)'
    <3>1. FileThen(network', toServer', e, 0, 0, <<>>)
      BY <1>1, <1>5, FileStart
    <3>2. Sender(e, 0, <<>>)'
      <4>1. CASE msg.size > 0
        <5>1. pc' = "send" /\ offset' = At(0) /\ offset' < s_size' /\ bytes_left' = s_size' - offset'
          BY <1>4, <2>1, <2>5, <4>1, <1>0
        <5> QED
          BY <1>1, <2>5, <5>1 DEF Sender
      <4>2. CASE ~(msg.size > 0)
        <5>1. pc' = "scan" /\ s_size' <= At(0)
          BY <1>4, <2>1, <2>5, <4>2, <1>0
        <5> QED
          BY <2>5, <5>1 DEF Sender
      <4> QED
        BY <4>1, <4>2
    <3>3. Len(e) = s_size' /\ s_left' = s_size' - At(0) /\ (s_size' > 0 => s_left' > 0)
      BY <1>4, <2>5, <1>0
    <3>4. s_name' \in patched' \/ Progress(e, f, s_left')
      BY <1>4, <2>1, <2>5 DEF Overwrites, Progress
    <3> QED
      BY <2>5, <3>1, <3>2, <3>3, <3>4 DEF Uploading, Within
  <2>7. s_name' \notin todo' /\ Agreed({s_name} \cup Pending)'
    BY <1>1, <1>4, <1>5, <2>1, <2>5 DEF Agreed
  <2>8. 0 \in Nat /\ <<>> \in Queued
    BY QueryFacts
  <2>9. Getting'
    BY <1>1, <1>4, <2>3, <2>5, <2>6, <2>7, <2>8 DEF Getting
  <2>10. Fits' /\ Fresh'
    BY <1>1, <2>1 DEF Fits, Fresh
  <2> QED
    BY <2>4, <2>9, <2>10 DEF IInv, Phase
<1>10. CASE ~Newer(reply', msg) /\ ~Newer(msg, reply')
  <2>1. pc' = "scan" /\ skipped' = skipped \cup {msg.name} /\ offset' = offset
        /\ bytes_left' = bytes_left /\ patched' = patched
    BY <1>10 DEF ReadReply
  <2>2. toClient' = NoStream /\ server' = "SYNC"
    BY <1>1, <1>5, <1>6, <1>10
  <2>3. TypeOK'
    BY <1>1, <1>3, <1>4, <1>7, <2>1 DEF TypeOK
  <2>4. Agreed(Pending)'
    BY <1>1, <1>5, <2>1 DEF Agreed, Pending
  <2>5. Listening'
    BY <1>5, <2>1, <2>2, <2>4 DEF Listening
  <2>6. Fits' /\ Fresh'
    BY <1>1, <2>1 DEF Fits, Fresh
  <2> QED
    BY <2>3, <2>5, <2>6 DEF IInv, Phase
<1> QED
  BY <1>8, <1>9, <1>10

\* What send_file reads of a file is its next chunk.
LEMMA ChunkSent ==
  ASSUME NEW d \in Seq(Edits), NEW j \in Nat, At(j) < Len(d), NEW got, got = ReadFile(d, At(j))
  PROVE  /\ Contents(got) = Bytes(d, j, j + 1)
         /\ Len(got) = Len(Bytes(d, j, j + 1))
         /\ Contents(got) \in Seq(Units)
<1>1. Bytes(d, j, j + 1) = Contents(got)
  BY ChunkRead
<1>2. got \in Seq(Edits)
  <2>1. /\ At(j) \in Nat /\ Len(d) \in Nat
    BY AtNext, LenProperties
  <2>2. Smaller(At(j) + CHUNKSIZE, Len(d)) \in Nat /\ Smaller(At(j) + CHUNKSIZE, Len(d)) <= Len(d)
        /\ At(j) + 1 \in Nat /\ 1 <= At(j) + 1
    BY <2>1, Sized DEF Smaller
  <2> QED
    BY <2>2, PartFacts DEF ReadFile
<1> QED
  BY <1>1, <1>2, ContentsFacts

\* The client sends the next chunk of a file.
LEMMA SendChunkKeeps == IInv /\ SendChunk => IInv'
<1> SUFFICES ASSUME IInv, SendChunk PROVE IInv'
  OBVIOUS
<1> USE DEF environment, disks, serverVars, history
<1>1. /\ TypeOK /\ Fits /\ Phase /\ Fresh
      /\ pc = "send" /\ pc' = IF bytes_left' > 0 THEN "send" ELSE "scan"
      /\ network' = network /\ cclock' = cclock /\ sclock' = sclock /\ edits' = edits /\ crashes' = crashes
      /\ cdisk' = cdisk /\ sdisk' = sdisk /\ toClient' = toClient
      /\ todo' = todo /\ msg' = msg /\ reply' = reply
      /\ server' = server /\ s_name' = s_name /\ s_size' = s_size /\ s_left' = s_left
      /\ fresh' = fresh /\ edited' = edited /\ skipped' = skipped /\ patched' = patched
  BY DEF IInv, SendChunk
<1>2. Getting
  BY <1>1 DEF Phase, Listening, Answered, Asking, Receiving, Lost, Over
<1>3. PICK d \in Seq(Edits), m \in Nat, j \in Nat, rest \in Queued : Uploading(d, m, j, rest)
  BY <1>2 DEF Getting
<1>4. /\ d = cdisk[s_name].data /\ rest = <<>> /\ msg.name = s_name
      /\ offset = At(j) /\ offset < s_size /\ bytes_left = s_size - offset
  BY <1>1, <1>3 DEF Uploading, Sender, Asking
<1>5. /\ Len(d) = s_size /\ m <= j /\ FileThen(network, toServer, d, m, j, <<>>)
  BY <1>3, <1>4 DEF Uploading
<1>6. PICK got : /\ got = ReadFile(d, At(j))
                 /\ toServer' = Put(toServer, Contents(got))
                 /\ offset' = offset + Len(got) /\ bytes_left' = bytes_left - Len(got)
  BY <1>4 DEF SendChunk
<1>7. /\ Contents(got) = Bytes(d, j, j + 1) /\ Len(got) = Len(Bytes(d, j, j + 1))
      /\ Contents(got) \in Seq(Units)
  BY <1>4, <1>5, <1>6, ChunkSent
<1>8. PICK k \in Nat : k = j + 1
  OBVIOUS
<1>9. FileThen(network, toServer', d, m, k, <<>>)
  BY <1>5, <1>6, <1>7, <1>8, FileWritten
<1>10. PICK n \in Nat :
         /\ n = Len(got) /\ n \in 1 .. CHUNKSIZE
         /\ n <= Len(d) - At(j)
         /\ n < Len(d) - At(j) => n = CHUNKSIZE /\ At(k) < Len(d)
         /\ n = Len(d) - At(j) => Len(d) <= At(k)
  BY <1>4, <1>5, <1>7, <1>8, ChunkFacts
<1>11. /\ At(j) \in Nat /\ At(k) = At(j) + CHUNKSIZE /\ Len(d) \in Nat /\ Len(d) < SizeMod
  <2>1. At(j) \in Nat /\ At(k) = At(j) + CHUNKSIZE
    BY <1>8, AtNext
  <2>2. Len(d) \in Nat /\ Len(d) < SizeMod
    BY <1>1, <1>5, Bounds DEF TypeOK
  <2> QED
    BY <2>1, <2>2
<1>12. /\ offset' \in Nat /\ bytes_left' = s_size' - offset'
       /\ bytes_left' \in 0 .. SizeMod - 1
  <2>1. offset' = At(j) + n /\ bytes_left' = Len(d) - At(j) - n /\ s_size' = Len(d)
    BY <1>1, <1>4, <1>5, <1>6, <1>10
  <2>2. n \in Nat /\ n <= Len(d) - At(j) /\ SizeMod \in Nat
    BY <1>10, Sized
  <2> QED
    BY <1>11, <2>1, <2>2, SMTT(30)
<1>13. TypeOK'
  <2>1. toServer' \in Streams
    BY <1>1, <1>6, <1>7, StreamTypes DEF TypeOK
  <2>2. pc' \in {"asleep", "scan", "reply", "send", "recv", "poll", "dead"}
    BY <1>1
  <2> QED
    BY <1>1, <1>12, <2>1, <2>2 DEF TypeOK
<1>14. Fits' /\ Fresh'
  BY <1>1 DEF Fits, Fresh
<1>15. Sender(d, k, <<>>)'
  <2>1. CASE bytes_left' > 0
    <3>1. offset' = At(k) /\ offset' < s_size'
      BY <1>1, <1>4, <1>5, <1>6, <1>10, <1>11, <2>1, Sized, SMTT(30)
    <3> QED
      BY <1>1, <1>4, <1>12, <2>1, <3>1 DEF Sender
  <2>2. CASE ~(bytes_left' > 0)
    <3>1. s_size' <= At(k)
      BY <1>1, <1>4, <1>5, <1>6, <1>10, <1>11, <2>2, Sized, SMTT(30)
    <3> QED
      BY <1>1, <1>4, <2>2, <3>1 DEF Sender
  <2> QED
    BY <2>1, <2>2
<1>16. Uploading(d, m, k, <<>>)'
  <2>1. Within(d, k) /\ m <= k
    <3>1. k - 1 = j /\ m <= k
      BY <1>5, <1>8
    <3> QED
      BY <1>4, <1>5, <3>1 DEF Within
  <2> QED
    BY <1>1, <1>3, <1>5, <1>9, <1>15, <2>1 DEF Uploading
<1>17. Getting'
  <2>1. s_name' \notin todo' /\ Agreed({s_name} \cup Pending)'
    BY <1>1, <1>2 DEF Getting, Agreed, Pending
  <2> QED
    BY <1>1, <1>2, <1>16, <2>1, QueryFacts DEF Getting
<1> QED
  BY <1>13, <1>14, <1>17 DEF IInv, Phase

\* The end of a round.
LEMMA ReadPollReplyKeeps == IInv /\ ReadPollReply => IInv'
<1> SUFFICES ASSUME IInv, ReadPollReply PROVE IInv'
  OBVIOUS
<1> USE DEF environment, disks, serverVars
<1>1. /\ TypeOK /\ Fits /\ Phase /\ Fresh
      /\ pc = "poll" /\ pc' = "asleep" /\ HasMessage(toClient)
      /\ reply' = toClient.buf[1].of /\ reply' = EmptyMessage
      /\ toClient' = Take(toClient, SyncLen) /\ fresh' = TRUE
      /\ network' = network /\ cclock' = cclock /\ sclock' = sclock /\ edits' = edits /\ crashes' = crashes
      /\ cdisk' = cdisk /\ sdisk' = sdisk /\ toServer' = toServer
      /\ todo' = todo /\ msg' = msg /\ offset' = offset /\ bytes_left' = bytes_left
      /\ server' = server /\ s_name' = s_name /\ s_size' = s_size /\ s_left' = s_left
      /\ edited' = edited /\ skipped' = skipped /\ patched' = patched
  BY DEF IInv, ReadPollReply
<1>2. /\ Answered
      /\ \E a \in Messages, d \in Seq(Edits), n \in Nat :
           /\ Answering(a, d, n) /\ toClient.buf[1].of = a
           /\ FileThen(network, Take(toClient, SyncLen), d, 0, n, <<>>)
  BY <1>1, AnswerFacts, Zenon
<1>3. msg = EmptyMessage /\ todo = {}
  BY <1>1, <1>2 DEF Answered, Asking
<1>4. server = "SYNC" /\ toServer = NoStream /\ Agreed({NoName})
  BY <1>1, <1>2, <1>3, Empty DEF Answered, Answering, Pending
<1>5. toClient' = NoStream
  <2>1. PICK d \in Seq(Edits) : FileThen(network, toClient', d, 0, 0, <<>>)
    BY <1>1, <1>2, <1>3, Empty DEF Answering
  <2>2. 0 \in Nat
    OBVIOUS
  <2> QED
    BY <2>1, <2>2, NoneRemains
<1>6. TypeOK'
  <2>1. toClient' \in Streams /\ reply' \in Messages
    BY <1>1, <1>5, StreamTypes, Empty DEF TypeOK
  <2> QED
    BY <1>1, <2>1 DEF TypeOK
<1>7. RoundAgrees'
  <2>1. \A n \in Names \ (edited \cup skipped \cup patched) : AgreeOn(cdisk, sdisk, n)
    BY <1>3, <1>4, Bounds DEF Agreed
  <2> QED
    BY <1>1, <2>1 DEF RoundAgrees, AgreeOn
<1>8. Listening'
  BY <1>1, <1>4, <1>5, <1>7 DEF Listening
<1>9. Fits' /\ Fresh'
  BY <1>1 DEF Fits, Fresh
<1> QED
  BY <1>6, <1>8, <1>9 DEF IInv, Phase

\* What is left of a file, when the unsigned count does not wrap around and
\* when it does.
LEMMA MinusFacts ==
  ASSUME NEW left \in Nat, left < SizeMod, NEW n \in Nat
  PROVE  /\ n <= left => Minus(left, n) = left - n
         /\ left < n /\ n - left < SizeMod => Minus(left, n) = SizeMod - (n - left)
<1>1. SizeMod \in Nat /\ 0 < SizeMod
  BY Sized
<1>2. ASSUME NEW a \in Int, NEW b \in Nat, 0 <= a, a < b PROVE a % b = a
  BY <1>2
<1>3. ASSUME NEW a \in Int, NEW b \in Nat, a < 0, 0 <= a + b PROVE a % b = a + b
  BY <1>3
<1> QED
  BY <1>1, <1>2, <1>3 DEF Minus

\* The chunk with which a file ends is its last one.
LEMMA LastChunk ==
  ASSUME NEW d \in Seq(Edits), NEW m \in Nat, NEW j \in Nat, m < j, Within(d, j), Len(d) <= At(m + 1)
  PROVE  j = m + 1
<1> SUFFICES ASSUME m + 1 < j PROVE FALSE
  OBVIOUS
<1>1. j - 1 \in Nat /\ m + 1 \in Nat /\ m + 1 <= j - 1
  OBVIOUS
<1>2. At(m + 1) <= At(j - 1) /\ At(m + 1) \in Nat /\ At(j - 1) \in Nat
  <2>1. ASSUME NEW a \in Nat, NEW b \in Nat, a <= b PROVE At(a) <= At(b) /\ At(a) \in Nat /\ At(b) \in Nat
    BY <2>1, AtOrder, AtNext
  <2> QED
    BY <1>1, <2>1, Zenon
<1>3. At(j - 1) < Len(d) /\ Len(d) \in Nat
  BY LenProperties DEF Within
<1> QED
  BY <1>2, <1>3

\* recv_chunk accepts the next chunk of a file, and counts what is left.
Counted(d, m, left, got) ==
  /\ Expected(Len(got), left) /\ Len(got) \in Nat
  /\ Minus(left, Len(got)) = left - Len(got)
  /\ Minus(left, Len(got)) \in Nat /\ Minus(left, Len(got)) < SizeMod
  /\ Minus(left, Len(got)) > 0 => Minus(left, Len(got)) = Len(d) - At(m + 1)
  /\ ~(Minus(left, Len(got)) > 0) => Len(d) <= At(m + 1) /\ Minus(left, Len(got)) = 0
LEMMA ChunkCounted ==
  ASSUME NEW d \in Seq(Edits), NEW m \in Nat, NEW left \in Nat, left = Len(d) - At(m), 0 < left,
         Len(d) < SizeMod, NEW got, got = Bytes(d, m, m + 1)
  PROVE  Counted(d, m, left, got)
<1>2. At(m) \in Nat /\ Len(d) \in Nat /\ At(m) < Len(d)
  BY AtNext, LenProperties, SMTT(30)
<1>3. PICK k \in Nat :
        /\ k = Len(got) /\ k \in 1 .. CHUNKSIZE
        /\ k = CHUNKSIZE \/ k = Len(d) - At(m)
        /\ k <= Len(d) - At(m)
        /\ k < Len(d) - At(m) => At(m + 1) < Len(d)
        /\ k = Len(d) - At(m) => Len(d) <= At(m + 1)
        /\ Len(d) - At(m) - k = IF At(m + 1) < Len(d) THEN Len(d) - At(m + 1) ELSE 0
  <2>1. got = Bytes(d, m, m + 1)
    OBVIOUS
  <2>2. LET n1 == Len(Bytes(d, m, m + 1))
        IN  /\ n1 \in 1 .. CHUNKSIZE
            /\ n1 = CHUNKSIZE \/ n1 = Len(d) - At(m)
            /\ n1 <= Len(d) - At(m)
            /\ n1 < Len(d) - At(m) => n1 = CHUNKSIZE /\ At(m + 1) < Len(d)
            /\ n1 = Len(d) - At(m) => Len(d) <= At(m + 1)
            /\ Len(d) - At(m) - n1 = IF At(m + 1) < Len(d) THEN Len(d) - At(m + 1) ELSE 0
    BY <1>2, ChunkFacts, Zenon
  <2>3. PICK k \in 1 .. CHUNKSIZE : k = Len(Bytes(d, m, m + 1))
    BY <2>2
  <2> QED
    BY <2>1, <2>2, <2>3
<1>4. Expected(Len(got), left) /\ Len(got) \in Nat
  <2>1. left = Len(d) - At(m)
    OBVIOUS
  <2> QED
    BY <1>3, <2>1 DEF Expected
<1>5. left < SizeMod /\ k <= left
  BY <1>2, <1>3, Sized, SMTT(30)
<1>6. Minus(left, Len(got)) = left - k
  BY <1>3, <1>5, MinusFacts
<1>7. Minus(left, Len(got)) \in Nat /\ Minus(left, Len(got)) < SizeMod
  BY <1>3, <1>5, <1>6, Sized
<1>8. Minus(left, Len(got)) > 0 => Minus(left, Len(got)) = Len(d) - At(m + 1)
  BY <1>2, <1>3, <1>6
<1>9. ~(Minus(left, Len(got)) > 0) => Len(d) <= At(m + 1) /\ left - k = 0
  BY <1>2, <1>3, <1>5, <1>6
<1> QED
  BY <1>3, <1>4, <1>6, <1>7, <1>8, <1>9 DEF Counted

\* The chunk is accepted, and brings its receiver's copy on.
ChunkTaken(d, m, left, got, first) ==
  /\ Counted(d, m, left, got)
  /\ \A old \in Seq(Edits) : Progress(d, old, left) =>
       /\ Progress(d, Written(old, Data(got), first), Minus(left, Len(got)))
       /\ Minus(left, Len(got)) = 0 => Written(old, Data(got), first) = d

\* recv_chunk at either end.
LEMMA ChunkAccepted ==
  ASSUME NEW d \in Seq(Edits), NEW m \in Nat, NEW left \in Nat, left = Len(d) - At(m), 0 < left,
         Len(d) < SizeMod, NEW got, got = Bytes(d, m, m + 1),
         NEW first \in BOOLEAN, first <=> left = Len(d)
  PROVE  ChunkTaken(d, m, left, got, first)
<1>1. Counted(d, m, left, got)
  BY ChunkCounted, Zenon
<1>2. At(m) < Len(d)
  <2>1. At(m) \in Nat /\ Len(d) \in Nat
    BY AtNext, LenProperties
  <2> QED
    BY <2>1
<1>3. ASSUME NEW old \in Seq(Edits), Progress(d, old, left)
      PROVE  /\ Progress(d, Written(old, Data(got), first), left - Len(got))
             /\ left - Len(got) = 0 => Written(old, Data(got), first) = d
  BY <1>2, <1>3, Advanced
<1> QED
  <2>1. Minus(left, Len(got)) = left - Len(got)
    BY <1>1 DEF Counted
  <2> QED
    BY <1>1, <1>3, <2>1, Zenon DEF ChunkTaken

\* The client receives the next chunk.
LEMMA ClientRecvKeeps == IInv /\ ClientRecv => IInv'
<1> SUFFICES ASSUME IInv, ClientRecv PROVE IInv'
  OBVIOUS
<1> USE DEF environment, serverVars, history
<1>1. /\ TypeOK /\ Fits /\ Phase /\ Fresh
      /\ pc = "recv" /\ toClient.buf # <<>>
      /\ network' = network /\ cclock' = cclock /\ sclock' = sclock /\ edits' = edits /\ crashes' = crashes
      /\ sdisk' = sdisk
      /\ server' = server /\ s_name' = s_name /\ s_size' = s_size /\ s_left' = s_left
      /\ fresh' = fresh /\ edited' = edited /\ skipped' = skipped /\ patched' = patched
  BY DEF IInv, ClientRecv
<1>2. Receiving
  BY <1>1 DEF Phase, Listening, Answered, Asking, Getting, Uploading, Sender, Lost, Over
<1>3. PICK d \in Seq(Edits), m \in Nat, n \in Nat : Downloading(d, m, n)
  BY <1>2 DEF Receiving
<1>4. PICK r \in Names, to \in Files : r = reply.name /\ to = cdisk[r] /\ to.data \in Seq(Edits)
  <2>1. reply.name \in Names /\ cdisk[reply.name] \in Files
    BY <1>1, <1>2 DEF Receiving, TypeOK
  <2> QED
    BY <2>1, FileFields
<1>5. /\ Len(d) = reply.size /\ Len(d) \in Nat /\ Len(d) < SizeMod
      /\ m <= n /\ Whole(d, n) /\ FileThen(network, toClient, d, m, n, <<>>)
      /\ bytes_left = Len(d) - At(m) /\ bytes_left > 0
      /\ r \in edited \/ d = sdisk[r].data
      /\ r \in edited \cup patched \/ Progress(d, to.data, bytes_left)
  <2>1. reply.size \in Nat /\ reply.size < SizeMod
    <3>1. reply \in Messages
      BY <1>1 DEF TypeOK
    <3>2. reply.size \in 0 .. SizeMod - 1
      BY <3>1, MessageFields
    <3> QED
      BY <3>2, Sized
  <2> QED
    BY <1>3, <1>4, <2>1 DEF Downloading
<1>7. PICK got : got = Front(toClient, CHUNKSIZE)
  OBVIOUS
<1>8. NextChunk(network, toClient, d, m, n, <<>>, got)
  <2>1. At(m) \in Nat
    BY AtNext
  <2>2. At(m) < Len(d)
    BY <1>5, <2>1
  <2>3. <<>> \in Rests /\ Within(d, n)
    BY <1>5 DEF Rests, Whole
  <2>4. \/ NextChunk(network, toClient, d, m, n, <<>>, got)
        \/ Overrun(network, toClient, d, m, n, <<>>, got)
    BY <1>1, <1>5, <1>7, <2>2, <2>3, FileRead
  <2> QED
    BY <2>4 DEF Overrun
<1>9. /\ m < n /\ got = Bytes(d, m, m + 1)
      /\ FileThen(network, Take(toClient, Len(got)), d, m + 1, n, <<>>)
  BY <1>8 DEF NextChunk
<1>10. PICK first \in BOOLEAN : first <=> bytes_left = Len(d)
  OBVIOUS
<1>11. PICK w : w = Written(to.data, Data(got), first)
  OBVIOUS
<1>12. bytes_left \in Nat /\ cclock \in Times
  BY <1>1, Bounds DEF TypeOK, Times
<1>13. PICK left \in Nat :
         /\ left = Minus(bytes_left, Len(got)) /\ left < SizeMod
         /\ Expected(Len(got), bytes_left) /\ Len(got) \in Nat
         /\ left > 0 => left = Len(d) - At(m + 1)
         /\ ~(left > 0) => Len(d) <= At(m + 1) /\ left = 0
         /\ Progress(d, to.data, bytes_left) => Progress(d, w, left) /\ (left = 0 => w = d)
  <2>1. ChunkTaken(d, m, bytes_left, got, first)
    BY <1>5, <1>9, <1>10, <1>12, ChunkAccepted
  <2> QED
    BY <1>4, <1>11, <2>1, Zenon DEF ChunkTaken, Counted
<1>0. PICK new \in Files : new = [mtime |-> cclock, data |-> w] /\ new.data = w
  <2>1. w \in Seq(Edits)
    <3>1. got \in Seq(Units)
      <4>1. toClient \in Streams
        BY <1>1 DEF TypeOK
      <4> QED
        BY <1>7, <4>1, FrontTypes, Sized
    <3>2. Data(got) \in Seq(Edits)
      BY <3>1, DataFacts
    <3> QED
      BY <1>4, <1>11, <3>2, WrittenFacts
  <2>2. \A f : f = [mtime |-> cclock, data |-> w] => f \in Files /\ f.data = w
    BY <1>12, <2>1, FileMade
  <2> QED
    BY <2>2, Zenon
<1>14. /\ Countable(new.data) /\ cdisk' = [cdisk EXCEPT ![r] = new]
       /\ bytes_left' = left /\ toClient' = Take(toClient, Len(got))
       /\ pc' = IF left > 0 THEN "recv" ELSE "scan"
       /\ toServer' = toServer /\ todo' = todo /\ msg' = msg /\ reply' = reply /\ offset' = offset
  <2>1. cdisk \in [Names -> Files] /\ (bytes_left = reply.size <=> first)
    BY <1>1, <1>5, <1>10 DEF TypeOK
  <2>2. /\ Countable(Written(cdisk[reply.name].data, Data(got), first))
        /\ cdisk' = [cdisk EXCEPT ![reply.name] =
                      [mtime |-> cclock, data |-> Written(@.data, Data(got), first)]]
        /\ bytes_left' = left /\ toClient' = Take(toClient, Len(got))
        /\ pc' = IF left > 0 THEN "recv" ELSE "scan"
        /\ toServer' = toServer /\ todo' = todo /\ msg' = msg /\ reply' = reply /\ offset' = offset
    <3>1. Expected(Len(Front(toClient, CHUNKSIZE)), bytes_left)
          /\ left = Minus(bytes_left, Len(Front(toClient, CHUNKSIZE)))
          /\ got = Front(toClient, CHUNKSIZE)
      BY <1>7, <1>13
    <3> QED
      BY <2>1, <3>1 DEF ClientRecv
  <2> QED
    BY <1>0, <1>4, <1>11, <2>1, <2>2
<1>15. /\ cdisk' \in [Names -> Files] /\ cdisk'[r] = new
       /\ \A k \in Names : k # r => cdisk'[k] = cdisk[k]
  BY <1>0, <1>1, <1>14 DEF TypeOK
<1>16. TypeOK'
  <2>1. toClient' \in Streams /\ bytes_left' \in 0 .. SizeMod - 1
        /\ pc' \in {"asleep", "scan", "reply", "send", "recv", "poll", "dead"}
    <3>1. toClient' \in Streams
      BY <1>1, <1>13, <1>14, StreamTypes DEF TypeOK
    <3>2. bytes_left' \in 0 .. SizeMod - 1
      BY <1>13, <1>14, Bounds
    <3> QED
      BY <1>14, <3>1, <3>2
  <2> QED
    BY <1>1, <1>14, <1>15, <2>1 DEF TypeOK
<1>17. Fits' /\ Fresh'
  BY <1>1, <1>14, <1>15 DEF Fits, Fresh
<1>18. \A k \in Names \ (todo' \cup edited' \cup skipped' \cup patched' \cup {r}) :
         AgreeOn(cdisk', sdisk', k)
  BY <1>1, <1>2, <1>4, <1>14, <1>15 DEF Receiving, Agreed, AgreeOn
<1>20. CASE left > 0
  <2>1. PICK k \in Nat : k = m + 1
    BY SMTT(30)
  <2>2. Downloading(d, k, n)'
    <3>1. k <= n /\ bytes_left' = Len(d) - At(k) /\ bytes_left' > 0
      BY <1>9, <1>13, <1>14, <1>20, <2>1
    <3>2. FileThen(network', toClient', d, k, n, <<>>)
      BY <1>1, <1>9, <1>14, <2>1
    <3>3. r \in edited \cup patched \/ Progress(d, cdisk'[r].data, bytes_left')
      BY <1>0, <1>5, <1>13, <1>14, <1>15
    <3> QED
      BY <1>1, <1>4, <1>5, <1>14, <3>1, <3>2, <3>3 DEF Downloading
  <2>3. Agreed({reply.name})'
    BY <1>4, <1>14, <1>18 DEF Agreed
  <2>4. Receiving'
    BY <1>1, <1>2, <1>14, <1>20, <2>2, <2>3 DEF Receiving
  <2> QED
    BY <1>16, <1>17, <2>4 DEF IInv, Phase
<1>21. CASE ~(left > 0)
  <2>1. n = m + 1
    BY <1>5, <1>9, <1>13, <1>21, LastChunk DEF Whole
  <2>2. toClient' = NoStream
    BY <1>5, <1>9, <1>14, <2>1, NoneRemains
  <2>3. Agreed(Pending)'
    <3>1. r \in edited' \cup patched' \/ AgreeOn(cdisk', sdisk', r)
      BY <1>0, <1>1, <1>4, <1>5, <1>13, <1>15, <1>21 DEF AgreeOn
    <3>2. Pending' = {}
      BY <1>14, <1>21 DEF Pending
    <3> QED
      BY <1>18, <3>1, <3>2 DEF Agreed
  <2>4. Listening'
    BY <1>1, <1>2, <1>14, <1>21, <2>2, <2>3 DEF Receiving, Listening
  <2> QED
    BY <1>16, <1>17, <2>4 DEF IInv, Phase
<1> QED
  BY <1>20, <1>21

-----------------------------------------------------------------------------
(* The steps of the server                                                 *)

\* What do_sync writes: its answer, and its copy when that is newer.
LEMMA AnswerWritten ==
  ASSUME NEW net, NEW r \in Messages, NEW d \in Seq(Edits), NEW newer \in BOOLEAN
  PROVE  LET segments == <<Encode(r)>> \o IF newer THEN Chunks(d) ELSE <<>>
         IN  /\ segments \in Seq(Seq(Units))
             /\ \E n \in Nat :
                  /\ MessageThen(net, [NoStream EXCEPT !.wire = @ \o segments], r, d, n)
                  /\ IF newer THEN Whole(d, n) ELSE n = 0
<1>1. PICK n \in Nat : /\ IF newer THEN Whole(d, n) ELSE n = 0
                       /\ Pieces(d, 0, n) = IF newer THEN Chunks(d) ELSE <<>>
  <2>1. CASE newer
    BY <2>1, ChunksFacts
  <2>2. CASE ~newer
    <3>1. 0 \in Nat /\ Pieces(d, 0, 0) = <<>>
      BY NoPieces
    <3> QED
      BY <2>2, <3>1
  <2> QED
    BY <2>1, <2>2
<1>2. MessageThen(net, [NoStream EXCEPT !.wire = @ \o (<<Encode(r)>> \o Pieces(d, 0, n))], r, d, n)
  BY MessageWritten
<1>3. <<Encode(r)>> \o Pieces(d, 0, n) \in Seq(Seq(Units))
  <2>1. <<Encode(r)>> \in Seq(Seq(Units))
    BY EncodeFacts, OneElement
  <2>2. Pieces(d, 0, n) \in Seq(Seq(Units))
    <3>1. 0 \in Nat /\ 0 <= n
      OBVIOUS
    <3> QED
      BY <3>1, PiecesFacts
  <2> QED
    BY <2>1, <2>2, ConcatProperties
<1> QED
  BY <1>1, <1>2, <1>3

\* The server answers a message.
LEMMA DoSyncKeeps == IInv /\ DoSync => IInv'
<1> SUFFICES ASSUME IInv, DoSync PROVE IInv'
  OBVIOUS
<1> USE DEF environment, disks, clientVars, history
<1>1. /\ TypeOK /\ Fits /\ Phase /\ Fresh
      /\ server = "SYNC" /\ HasMessage(toServer) /\ toServer' = Take(toServer, SyncLen)
      /\ network' = network /\ cclock' = cclock /\ sclock' = sclock /\ edits' = edits /\ crashes' = crashes
      /\ cdisk' = cdisk /\ sdisk' = sdisk
      /\ pc' = pc /\ todo' = todo /\ msg' = msg /\ reply' = reply
      /\ offset' = offset /\ bytes_left' = bytes_left
      /\ fresh' = fresh /\ edited' = edited /\ skipped' = skipped /\ patched' = patched
  BY DEF IInv, DoSync
<1>2. Listening
  BY <1>1, Nothing DEF Phase, Answered, Receiving, Getting, Lost, Over
<1>3. PICK q \in Queries : OneMessage(toServer, q) /\ (pc = "dead" \/ (Asking /\ q = msg))
  <2>1. toServer # NoStream
    BY <1>1, Nothing
  <2>2. Asking => msg \in Queries
    BY <1>1, AskedFor
  <2> QED
    BY <1>2, <2>1, <2>2 DEF Listening
<1>4. /\ q \in Messages /\ (q = EmptyMessage \/ q.name \in Names)
      /\ q.name \in Names \cup {NoName} /\ q.size \in 0 .. SizeMod - 1 /\ q.size \in Nat
  BY QueryFacts, MessageFields, Bounds
<1>5. toServer.buf[1].of = q /\ toServer' = NoStream
  <2>1. toServer.buf # <<>>
    BY <1>1, FoundMessage DEF TypeOK
  <2> QED
    BY <1>1, <1>3, <1>4, <2>1, OneMessageFacts
<1>6. PICK r : r = IF q = EmptyMessage THEN EmptyMessage ELSE init_sync_msg(sdisk, q.name)
  OBVIOUS
<1>7. r \in Messages
  <2>1. CASE q = EmptyMessage
    BY <1>6, <2>1, Empty
  <2>2. CASE q # EmptyMessage
    <3>1. q.name \in Names /\ sdisk \in [Names -> Files] /\ Countable(sdisk[q.name].data)
      BY <1>1, <1>4, <2>2 DEF TypeOK, Fits
    <3> QED
      BY <1>6, <2>2, <3>1, Announced
  <2> QED
    BY <2>1, <2>2
<1>8. /\ toClient' = IF pc = "dead" THEN toClient
                     ELSE [toClient EXCEPT !.wire =
                            @ \o (<<Encode(r)>> \o IF Newer(r, q) THEN Chunks(sdisk[q.name].data) ELSE <<>>)]
      /\ IF Newer(q, r) THEN s_name' = q.name /\ s_size' = q.size /\ s_left' = q.size
                        ELSE s_name' = s_name /\ s_size' = s_size /\ s_left' = s_left
      /\ \/ server' = IF Newer(q, r) THEN "GETFILE" ELSE "SYNC"
         \/ pc = "dead" /\ server' = "killed"
  BY <1>5, <1>6 DEF DoSync, ToClient
<1>9. toClient = NoStream
  BY <1>2 DEF Listening
<1>10. CASE pc = "dead"
  <2>1. toClient' = NoStream
    BY <1>8, <1>9, <1>10
  <2>2. TypeOK'
    <3>1. toServer' \in Streams /\ toClient' \in Streams
      BY <1>1, <1>5, <2>1, StreamTypes DEF TypeOK
    <3>2. /\ s_name' \in Names \cup {NoName} /\ s_size' \in 0 .. SizeMod - 1
          /\ s_left' \in 0 .. SizeMod - 1
          /\ server' \in {"SYNC", "GETFILE", "closed", "killed"}
      BY <1>1, <1>4, <1>8 DEF TypeOK
    <3> QED
      BY <1>1, <3>1, <3>2 DEF TypeOK
  <2>3. Fits' /\ Fresh'
    BY <1>1, <2>1 DEF Fits, Fresh
  <2>4. CASE server' = "killed"
    <3>1. Over'
      BY <1>1, <1>10, <2>1, <2>4 DEF Over
    <3> QED
      BY <2>2, <2>3, <3>1 DEF IInv, Phase
  <2>5. CASE server' = "SYNC"
    <3>1. Listening'
      BY <1>1, <1>5, <1>10, <2>1, <2>5 DEF Listening
    <3> QED
      BY <2>2, <2>3, <3>1 DEF IInv, Phase
  <2>6. CASE server' = "GETFILE"
    <3>1. Newer(q, r) /\ s_name' = q.name /\ s_size' = q.size /\ s_left' = q.size
      BY <1>8, <2>6
    <3>2. s_name' \in Names
      BY <1>4, <1>6, <3>1, Empty
    <3>3. PICK d \in Seq(Edits) : Len(d) = q.size
      BY <1>4, SomeFile
    <3>4. FileThen(network, NoStream, d, 0, 0, <<>>)
      BY <3>3, FileStart
    <3>5. At(0) = 0 /\ 0 \in Nat /\ <<>> \in Queued
      BY AtNext, QueryFacts
    <3>6. Uploading(d, 0, 0, <<>>)'
      <4>1. s_left' = s_size' - At(0) /\ (s_size' > 0 => s_left' > 0) /\ Len(d) = s_size'
        BY <1>4, <3>1, <3>3, <3>5
      <4>2. FileThen(network', toServer', d, 0, 0, <<>>)
        BY <1>1, <1>5, <3>4
      <4> QED
        BY <1>1, <1>10, <4>1, <4>2 DEF Uploading, Within, Sender
    <3>7. Getting'
      BY <1>1, <1>10, <2>1, <2>6, <3>2, <3>5, <3>6 DEF Getting
    <3> QED
      BY <2>2, <2>3, <3>7 DEF IInv, Phase
  <2> QED
    BY <1>8, <2>4, <2>5, <2>6
<1>11. CASE pc # "dead"
  <2>1. /\ Asking /\ q = msg /\ pc \in {"reply", "poll"}
        /\ server' = IF Newer(q, r) THEN "GETFILE" ELSE "SYNC"
    BY <1>3, <1>8, <1>11 DEF Asking
  <2>2. /\ pc = "poll" => r = EmptyMessage
        /\ pc = "reply" => r.name = msg.name /\ r.size = Len(sdisk[msg.name].data)
    <3>1. CASE pc = "poll"
      BY <1>6, <2>1, <3>1 DEF Asking
    <3>2. CASE pc = "reply"
      <4>1. msg.name \in Names /\ msg = init_sync_msg(cdisk, msg.name)
            /\ cdisk \in [Names -> Files] /\ sdisk \in [Names -> Files]
        BY <1>1, <2>1, <3>2 DEF Asking, TypeOK
      <4>2. Countable(cdisk[msg.name].data) /\ Countable(sdisk[msg.name].data)
        BY <1>1, <4>1 DEF Fits
      <4>3. q # EmptyMessage
        BY <2>1, <4>1, <4>2, Announced
      <4>4. r = init_sync_msg(sdisk, msg.name)
        BY <1>6, <2>1, <4>3
      <4>5. /\ init_sync_msg(sdisk, msg.name).name = msg.name
            /\ init_sync_msg(sdisk, msg.name).size = Len(sdisk[msg.name].data)
        BY <4>1, <4>2, Announced
      <4> QED
        BY <3>2, <4>4, <4>5
    <3> QED
      BY <2>1, <3>1, <3>2
  <2>3. PICK d \in Seq(Edits) : IF pc = "reply" THEN d = sdisk[msg.name].data ELSE d = <<>>
    <3>1. CASE pc = "reply"
      <4>1. sdisk[msg.name] \in Files
        BY <1>1, <2>1, <3>1 DEF Asking, TypeOK
      <4> QED
        BY <3>1, <4>1, FileFields
    <3>2. CASE pc # "reply"
      BY <3>2, EmptySeq
    <3> QED
      BY <3>1, <3>2
  <2>4. pc = "poll" => ~Newer(r, q)
    BY <2>1, <2>2, Empty DEF Asking
  <2>5. PICK segments : segments = <<Encode(r)>> \o IF Newer(r, q) THEN Chunks(d) ELSE <<>>
    OBVIOUS
  <2>6. toClient' = [NoStream EXCEPT !.wire = @ \o segments]
    <3>1. toClient' = [NoStream EXCEPT !.wire =
                        @ \o (<<Encode(r)>> \o IF Newer(r, q) THEN Chunks(sdisk[q.name].data) ELSE <<>>)]
      BY <1>8, <1>9, <1>11
    <3>2. Newer(r, q) => d = sdisk[q.name].data
      BY <2>1, <2>3, <2>4
    <3>3. segments = <<Encode(r)>> \o IF Newer(r, q) THEN Chunks(sdisk[q.name].data) ELSE <<>>
      BY <2>5, <3>2
    <3> QED
      BY <3>1, <3>3
  <2>7. PICK newer \in BOOLEAN : newer <=> Newer(r, q)
    OBVIOUS
  <2>8. /\ segments \in Seq(Seq(Units))
        /\ \E n \in Nat : /\ MessageThen(network, toClient', r, d, n)
                          /\ IF Newer(r, q) THEN Whole(d, n) ELSE n = 0
    <3>1. segments = <<Encode(r)>> \o IF newer THEN Chunks(d) ELSE <<>>
      BY <2>5, <2>7
    <3> QED
      BY <1>7, <2>6, <2>7, <3>1, AnswerWritten, ZenonT(60)
  <2>9. TypeOK'
    <3>1. toServer' \in Streams /\ toClient' \in Streams
      <4>1. NoStream \in Streams
        BY <1>1, StreamTypes DEF TypeOK
      <4>2. [NoStream EXCEPT !.wire = @ \o segments] \in Streams
        BY <2>8, <4>1, StreamTypes
      <4> QED
        BY <1>5, <2>6, <4>1, <4>2
    <3>2. /\ s_name' \in Names \cup {NoName} /\ s_size' \in 0 .. SizeMod - 1
          /\ s_left' \in 0 .. SizeMod - 1
          /\ server' \in {"SYNC", "GETFILE", "closed", "killed"}
      BY <1>1, <1>4, <1>8, <2>1 DEF TypeOK
    <3> QED
      BY <1>1, <3>1, <3>2 DEF TypeOK
  <2>10. Fits' /\ Fresh'
    BY <1>1, <1>11 DEF Fits, Fresh
  <2>11. PICK n \in Nat :
           /\ MessageThen(network, toClient', r, d, n)
           /\ IF Newer(r, q) THEN Whole(d, n) ELSE n = 0
    BY <2>8
  <2>12. Agreed(Pending)'
    BY <1>1, <1>2, <2>1 DEF Listening, Agreed, Pending
  <2>13. Asking' /\ toServer' = NoStream
    BY <1>1, <1>5, <2>1 DEF Asking
  <2>14. /\ pc = "reply" => r.name = msg.name /\ r.size = Len(d) /\ d = sdisk[msg.name].data
         /\ IF Newer(msg, r)
            THEN server' = "GETFILE" /\ s_name' = msg.name /\ s_size' = msg.size /\ s_left' = msg.size
            ELSE server' = "SYNC"
    BY <1>8, <2>1, <2>2, <2>3
  <2>15. Answering(r, d, n)'
    BY <1>1, <2>1, <2>2, <2>11, <2>14 DEF Answering
  <2>16. Answered'
    BY <1>7, <2>12, <2>13, <2>15 DEF Answered
  <2> QED
    BY <2>9, <2>10, <2>16 DEF IInv, Phase
<1> QED
  BY <1>10, <1>11

\* An empty file is created, and nothing is read.
LEMMA CreateEmptyKeeps == IInv /\ CreateEmpty => IInv'
<1> SUFFICES ASSUME IInv, CreateEmpty PROVE IInv'
  OBVIOUS
<1> USE DEF environment, clientVars, history
<1>1. /\ TypeOK /\ Fits /\ Phase /\ Fresh
      /\ server = "GETFILE" /\ s_size = 0 /\ server' = "SYNC" /\ sdisk' = Created(sdisk, s_name)
      /\ toServer.buf # <<>> \/ AtEof
      /\ network' = network /\ cclock' = cclock /\ sclock' = sclock /\ edits' = edits /\ crashes' = crashes
      /\ cdisk' = cdisk /\ toServer' = toServer /\ toClient' = toClient
      /\ pc' = pc /\ todo' = todo /\ msg' = msg /\ reply' = reply
      /\ offset' = offset /\ bytes_left' = bytes_left
      /\ s_name' = s_name /\ s_size' = s_size /\ s_left' = s_left
      /\ fresh' = fresh /\ edited' = edited /\ skipped' = skipped /\ patched' = patched
  BY DEF IInv, CreateEmpty
<1>2. Getting
  <2>1. ~Answered
    BY <1>1, Nothing DEF Answered, Asking, AtEof
  <2> QED
    BY <1>1, <2>1 DEF Phase, Listening, Receiving, Lost, Over
<1>3. PICK d \in Seq(Edits), m \in Nat, j \in Nat, rest \in Queued : Uploading(d, m, j, rest)
  BY <1>2 DEF Getting
<1>4. Len(d) = 0 /\ d = <<>> /\ m = 0 /\ j = 0
  <2>1. Len(d) = 0 /\ Within(d, j) /\ m <= j
    BY <1>1, <1>3 DEF Uploading
  <2>2. j = 0
    BY <2>1, NoChunks
  <2> QED
    BY <2>1, <2>2, EmptySeq
<1>5. /\ rest = <<>> => toServer = NoStream
      /\ \A q \in Messages : rest = <<Encode(q)>> => OneMessage(toServer, q)
  <2>1. rest \in Rests /\ 0 \in Nat
    BY QueryFacts
  <2>2. FileThen(network, toServer, d, 0, 0, rest)
    BY <1>3, <1>4 DEF Uploading
  <2> QED
    BY <2>1, <2>2, FileDone
<1>6. s_name \in Names /\ toClient = NoStream
  BY <1>2 DEF Getting
<1>7. sdisk' \in [Names -> Files] /\ \A n \in Names : sdisk'[n].data = sdisk[n].data
  <2>1. sdisk \in [Names -> Files] /\ sclock \in Times
    BY <1>1, Bounds DEF TypeOK, Times
  <2> QED
    BY <1>1, <1>6, <2>1, CreatedFacts
<1>8. TypeOK'
  BY <1>1, <1>7 DEF TypeOK
<1>9. Fits' /\ Fresh'
  BY <1>1, <1>7 DEF Fits, Fresh
<1>11. CASE pc = "dead"
  <2>1. toServer = NoStream \/ \E q \in Queries : OneMessage(toServer, q)
    <3>1. rest = <<>> \/ \E q \in Queries : rest = <<Encode(q)>>
      BY QueryFacts
    <3> QED
      BY <1>5, <3>1, QueryFacts
  <2>2. Listening'
    BY <1>1, <1>6, <1>11, <2>1 DEF Listening
  <2> QED
    BY <1>8, <1>9, <2>2 DEF IInv, Phase
<1>12. CASE pc # "dead"
  <2>1. /\ Sender(d, j, rest) /\ (s_name \in edited \/ d = cdisk[s_name].data)
        /\ s_name \in edited \cup patched \/ Progress(d, sdisk[s_name].data, s_left)
    BY <1>3, <1>12 DEF Uploading, Sender
  <2>2. ~(offset < s_size)
    BY <1>1 DEF TypeOK
  <2>3. \/ pc = "scan" /\ toServer = NoStream
        \/ Asking /\ OneMessage(toServer, msg)
    <3>1. msg \in Messages
      BY <1>1 DEF TypeOK
    <3> QED
      BY <1>5, <1>12, <2>1, <2>2, <3>1 DEF Sender
  <2>4. s_name \in edited \cup patched \/ sdisk[s_name].data = <<>>
    <3>1. s_left = 0
      <4>1. s_left = s_size - At(0)
        BY <1>3, <1>4 DEF Uploading
      <4> QED
        BY <1>1, <4>1, AtNext
    <3>2. s_name \in edited \cup patched \/ Len(sdisk[s_name].data) <= Smaller(0, CHUNKSIZE)
      BY <1>4, <2>1, <3>1 DEF Progress
    <3>3. Smaller(0, CHUNKSIZE) = 0
      BY Sized DEF Smaller
    <3>4. sdisk[s_name] \in Files
      BY <1>1, <1>6 DEF TypeOK
    <3>5. Len(sdisk[s_name].data) \in Nat /\ (sdisk[s_name].data = <<>> <=> Len(sdisk[s_name].data) = 0)
      BY <3>4, FileFields
    <3> QED
      BY <3>2, <3>3, <3>5
  <2>5. s_name \in edited \cup patched \/ AgreeOn(cdisk', sdisk', s_name)
    BY <1>1, <1>4, <1>6, <1>7, <2>1, <2>4 DEF AgreeOn
  <2>6. \A n \in Names \ (todo \cup edited \cup skipped \cup patched \cup ({s_name} \cup Pending)) :
          AgreeOn(cdisk', sdisk', n)
    BY <1>1, <1>2, <1>7, <1>12 DEF Getting, Agreed, AgreeOn
  <2>7. Agreed(Pending)'
    BY <1>1, <2>5, <2>6 DEF Agreed, Pending
  <2>8. Asking => Asking'
    BY <1>1 DEF Asking
  <2>9. Listening'
    BY <1>1, <1>6, <1>12, <2>3, <2>7, <2>8 DEF Listening, Asking
  <2> QED
    BY <1>8, <1>9, <2>9 DEF IInv, Phase
<1> QED
  BY <1>11, <1>12

\* What ServerRecv leaves alone.
ServerRecvLeaves ==
  /\ network' = network /\ cclock' = cclock /\ sclock' = sclock /\ edits' = edits /\ crashes' = crashes
  /\ cdisk' = cdisk /\ toClient' = toClient
  /\ pc' = pc /\ todo' = todo /\ msg' = msg /\ reply' = reply
  /\ offset' = offset /\ bytes_left' = bytes_left
  /\ s_name' = s_name /\ s_size' = s_size
  /\ fresh' = fresh /\ edited' = edited /\ skipped' = skipped /\ patched' = patched

\* The server refuses a read: it may have created the file, and closes the session.
LEMMA ServerRefuses ==
  ASSUME IInv, ServerRecv, ~Expected(Len(Front(toServer, CHUNKSIZE)), s_left),
         s_name \in Names, toClient = NoStream,
         pc = "dead" \/ (pc \in {"reply", "poll"} /\ network = "merging")
  PROVE  IInv'
<1>1. TypeOK /\ Fits /\ Fresh /\ ServerRecvLeaves /\ server = "GETFILE"
  BY DEF IInv, ServerRecv, ServerRecvLeaves, environment, clientVars, history
<1> USE DEF ServerRecvLeaves
<1>2. /\ server' = "closed" /\ toServer' = NoStream /\ s_left' = s_left
      /\ sdisk' = Created(sdisk, s_name) \/ sdisk' = sdisk
  BY DEF ServerRecv
<1>3. sdisk \in [Names -> Files] /\ sclock \in Times
  BY <1>1, Bounds DEF TypeOK, Times
<1>4. sdisk' \in [Names -> Files] /\ \A n \in Names : sdisk'[n].data = sdisk[n].data
  BY <1>2, <1>3, CreatedFacts
<1>5. toServer' \in Streams
  <2>1. toServer \in Streams
    BY <1>1 DEF TypeOK
  <2>2. NoStream \in Streams
    BY <2>1, StreamTypes
  <2> QED
    BY <1>2, <2>2
<1>6. TypeOK'
  BY <1>1, <1>2, <1>4, <1>5 DEF TypeOK
<1>7. Fits' /\ Fresh'
  BY <1>1, <1>4 DEF Fits, Fresh
<1>8. Over'
  BY <1>1, <1>2 DEF Over
<1> QED
  BY <1>6, <1>7, <1>8 DEF IInv, Phase

\* The server accepts a read, and writes it to its copy.
WriteGiven(got, left, first, new) ==
  /\ got = Front(toServer, CHUNKSIZE) /\ Expected(Len(got), s_left)
  /\ left = Minus(s_left, Len(got)) /\ left < SizeMod
  /\ (first <=> s_left = s_size)
  /\ new = [mtime |-> sclock, data |-> Written(sdisk[s_name].data, Data(got), first)]
WriteDone(got, left, new) ==
  /\ s_left' = left /\ toServer' = Take(toServer, Len(got))
  /\ server' = IF left = 0 THEN "SYNC" ELSE "GETFILE"
  /\ new \in Files /\ sdisk'[s_name] = new
  /\ \A k \in Names : k # s_name => sdisk'[k] = sdisk[k]
  /\ TypeOK' /\ Fits' /\ Fresh'
LEMMA ServerAccepts ==
  ASSUME IInv, ServerRecv, s_name \in Names,
         NEW got, NEW left \in Nat, NEW first \in BOOLEAN, NEW new,
         WriteGiven(got, left, first, new)
  PROVE  WriteDone(got, left, new)
<1>0. /\ got = Front(toServer, CHUNKSIZE) /\ Expected(Len(got), s_left)
      /\ left = Minus(s_left, Len(got)) /\ left < SizeMod
      /\ (first <=> s_left = s_size)
      /\ new = [mtime |-> sclock, data |-> Written(sdisk[s_name].data, Data(got), first)]
  BY DEF WriteGiven
<1>1. TypeOK /\ Fits /\ Fresh /\ ServerRecvLeaves
  BY DEF IInv, ServerRecv, ServerRecvLeaves, environment, clientVars, history
<1> USE DEF ServerRecvLeaves
<1>2. got \in Seq(Units) /\ Len(got) \in Nat /\ toServer \in Streams
  <2>1. toServer \in Streams
    BY <1>1 DEF TypeOK
  <2>2. Front(toServer, CHUNKSIZE) \in Seq(Units)
    BY <2>1, FrontTypes, Sized
  <2> QED
    BY <1>0, <2>1, <2>2, LenProperties
<1>3. /\ sdisk \in [Names -> Files] /\ sdisk[s_name] \in Files
      /\ sdisk[s_name].data \in Seq(Edits) /\ sclock \in Times
  <2>1. sdisk \in [Names -> Files] /\ sclock \in Times
    BY <1>1, Bounds DEF TypeOK, Times
  <2> QED
    BY <2>1, FileFields
<1>4. new \in Files /\ new.data = Written(sdisk[s_name].data, Data(got), first)
  <2>1. Data(got) \in Seq(Edits)
    BY <1>2, DataFacts
  <2>2. Written(sdisk[s_name].data, Data(got), first) \in Seq(Edits)
    BY <1>3, <2>1, WrittenFacts
  <2>3. \A f : f = [mtime |-> sclock, data |-> Written(sdisk[s_name].data, Data(got), first)] =>
          f \in Files /\ f.data = Written(sdisk[s_name].data, Data(got), first)
    BY <1>3, <2>2, FileMade
  <2> QED
    BY <1>0, <2>3, Zenon
<1>5. /\ Countable(new.data) /\ sdisk' = [sdisk EXCEPT ![s_name] = new]
      /\ s_left' = left /\ toServer' = Take(toServer, Len(got))
      /\ server' = AfterChunk(left)
  <2>1. /\ Countable(Written(sdisk[s_name].data, Data(got), first))
        /\ sdisk' = [sdisk EXCEPT ![s_name] =
                      [mtime |-> sclock, data |-> Written(@.data, Data(got), first)]]
        /\ s_left' = left /\ toServer' = Take(toServer, Len(got))
        /\ server' = AfterChunk(left)
    <3>1. /\ Expected(Len(Front(toServer, CHUNKSIZE)), s_left)
          /\ left = Minus(s_left, Len(Front(toServer, CHUNKSIZE)))
          /\ got = Front(toServer, CHUNKSIZE) /\ (s_left = s_size <=> first)
      BY <1>0
    <3> QED
      BY <3>1 DEF ServerRecv
  <2> QED
    BY <1>0, <1>3, <1>4, <2>1
<1>6. /\ sdisk' \in [Names -> Files] /\ sdisk'[s_name] = new
      /\ \A k \in Names : k # s_name => sdisk'[k] = sdisk[k]
  BY <1>3, <1>4, <1>5
<1>7. server' = IF left = 0 THEN "SYNC" ELSE "GETFILE"
  BY <1>5 DEF AfterChunk
<1>8. toServer' \in Streams /\ s_left' \in 0 .. SizeMod - 1
  <2>1. toServer' \in Streams
    BY <1>2, <1>5, StreamTypes
  <2> QED
    BY <1>0, <1>5, <2>1, Bounds
<1>9. TypeOK'
  BY <1>1, <1>6, <1>7, <1>8 DEF TypeOK
<1>10. Fits' /\ Fresh'
  BY <1>1, <1>5, <1>6 DEF Fits, Fresh
<1> QED
  BY <1>4, <1>5, <1>6, <1>7, <1>9, <1>10 DEF WriteDone

\* The server reads the beginning of a message with the last chunk of a file.
LEMMA ServerOverruns ==
  ASSUME IInv, ServerRecv, Getting, NEW d \in Seq(Edits), NEW m \in Nat, NEW j \in Nat,
         NEW rest \in Queued, Uploading(d, m, j, rest),
         NEW got, got = Front(toServer, CHUNKSIZE),
         Overrun(network, toServer, d, m, j, rest, got)
  PROVE  IInv'
<1>1. /\ TypeOK /\ Fits /\ Fresh /\ ServerRecvLeaves
      /\ server = "GETFILE" /\ s_size > 0
  BY DEF IInv, ServerRecv, ServerRecvLeaves, environment, clientVars, history
<1>2. s_name \in Names /\ toClient = NoStream
  BY DEF Getting
<1>3. /\ Len(d) = s_size /\ s_left = s_size - At(m) /\ s_left > 0
      /\ rest # <<>> /\ Sender(d, j, rest)
  BY <1>1 DEF Uploading, Overrun
<1>4. pc = "dead" \/ (pc \in {"reply", "poll"} /\ network = "merging")
  <2>1. network = "merging"
    BY <1>1, Bounds DEF TypeOK, Overrun
  <2> QED
    BY <1>3, <2>1 DEF Sender, Asking
<1>5. /\ s_left \in Nat /\ s_left < CHUNKSIZE /\ s_size \in Nat /\ s_size < SizeMod
      /\ At(m) \in Nat /\ (m = 0 <=> At(m) = 0)
      /\ CHUNKSIZE \in Nat /\ CHUNKSIZE < SizeMod /\ SizeMod \in Nat /\ SyncLen = 3
  <2>1. At(m) \in Nat /\ (m = 0 <=> At(m) = 0)
    BY AtZero
  <2>2. s_left \in Nat /\ s_size \in Nat /\ s_size < SizeMod
    BY <1>1, Bounds DEF TypeOK
  <2>3. s_left < CHUNKSIZE
    BY <1>3 DEF Overrun
  <2> QED
    BY <2>1, <2>2, <2>3, Sized DEF SyncLen
<1>6. /\ Len(got) = Smaller(CHUNKSIZE, s_left + SyncLen)
      /\ Take(toServer, Len(got)).wire = <<>>
      /\ Len(Take(toServer, Len(got)).buf) = s_left + SyncLen - Len(got)
  BY <1>3 DEF Overrun
<1>7. CASE ~Expected(Len(got), s_left)
  BY <1>2, <1>4, <1>7, ServerRefuses
<1>8. CASE Expected(Len(got), s_left)
  <2>1. Len(got) = CHUNKSIZE /\ CHUNKSIZE <= s_left + SyncLen
    BY <1>5, <1>6, <1>8 DEF Expected, Smaller
  <2>2. PICK left \in Nat :
          /\ left = Minus(s_left, Len(got)) /\ left < SizeMod /\ left # 0
          /\ left = SizeMod - (CHUNKSIZE - s_left)
    <3>1. CHUNKSIZE - s_left < SizeMod
      BY <1>5
    <3>2. Minus(s_left, CHUNKSIZE) = SizeMod - (CHUNKSIZE - s_left)
      <4>1. s_left < SizeMod
        BY <1>5
      <4> QED
        BY <1>5, <3>1, <4>1, MinusFacts, Zenon
    <3>3. Minus(s_left, CHUNKSIZE) \in Nat /\ Minus(s_left, CHUNKSIZE) < SizeMod
          /\ Minus(s_left, CHUNKSIZE) # 0
      BY <1>5, <3>2
    <3> QED
      BY <2>1, <3>2, <3>3
  <2>3. PICK first \in BOOLEAN : first <=> s_left = s_size
    OBVIOUS
  <2>4. PICK new : new = [mtime |-> sclock, data |-> Written(sdisk[s_name].data, Data(got), first)]
    OBVIOUS
  <2>5. /\ s_left' = left /\ toServer' = Take(toServer, Len(got))
        /\ server' = IF left = 0 THEN "SYNC" ELSE "GETFILE"
        /\ new \in Files /\ sdisk'[s_name] = new
        /\ \A k \in Names : k # s_name => sdisk'[k] = sdisk[k]
        /\ TypeOK' /\ Fits' /\ Fresh'
    <3>1. WriteGiven(got, left, first, new)
      BY <1>8, <2>2, <2>3, <2>4, Zenon DEF WriteGiven
    <3>2. WriteDone(got, left, new)
      BY <1>2, <2>2, <2>3, <3>1, ServerAccepts, Zenon
    <3> QED
      BY <3>2, Zenon DEF WriteDone
  <2>6. Lost'
    <3>1. server' = "GETFILE" /\ toServer'.wire = <<>> /\ Len(toServer'.buf) < SyncLen
      BY <1>5, <1>6, <2>1, <2>2, <2>5, SMTT(30)
    <3>2. s_left' = SizeMod - (SyncLen - Len(toServer'.buf))
      <4>1. Len(toServer'.buf) = s_left + SyncLen - CHUNKSIZE /\ s_left' = left
        BY <1>6, <2>1, <2>5
      <4>2. SyncLen - (s_left + SyncLen - CHUNKSIZE) = CHUNKSIZE - s_left
        BY <1>5
      <4> QED
        BY <2>2, <4>1, <4>2
    <3>3. network = "merging"
      BY <1>1, Bounds DEF TypeOK, Overrun
    <3> QED
      BY <1>1, <1>2, <1>4, <3>1, <3>2, <3>3 DEF Lost, ServerRecvLeaves
  <2> QED
    BY <2>5, <2>6 DEF IInv, Phase
<1> QED
  BY <1>7, <1>8

\* Once the server has lost its place in the stream, the next read is refused.
LEMMA LostRefuses == IInv /\ ServerRecv /\ Lost => IInv'
<1> SUFFICES ASSUME IInv, ServerRecv, Lost PROVE IInv'
  OBVIOUS
<1>1. /\ toServer \in Streams /\ toServer.buf # <<>>
      /\ s_name \in Names /\ toClient = NoStream /\ network = "merging"
      /\ pc \in {"reply", "poll", "dead"}
      /\ Len(toServer.buf) < SyncLen /\ s_left = SizeMod - (SyncLen - Len(toServer.buf))
  BY DEF IInv, TypeOK, ServerRecv, Lost
<1>2. PICK got : got = Front(toServer, CHUNKSIZE)
  OBVIOUS
<1>3. Len(got) = Smaller(CHUNKSIZE, Len(toServer.buf)) /\ Len(toServer.buf) \in Nat
  BY <1>1, <1>2, FrontTypes, Sized
<1>4. ~Expected(Len(got), s_left)
  BY <1>1, <1>3, Sized DEF Expected, Smaller, SyncLen
<1> QED
  BY <1>1, <1>2, <1>4, ServerRefuses

\* The server reads the next chunk of a file.
LEMMA ServerReceives ==
  ASSUME IInv, ServerRecv, Getting, NEW d \in Seq(Edits), NEW m \in Nat, NEW j \in Nat,
         NEW rest \in Queued, Uploading(d, m, j, rest),
         NEW got, got = Front(toServer, CHUNKSIZE),
         NextChunk(network, toServer, d, m, j, rest, got)
  PROVE  IInv'
<1>1. /\ TypeOK /\ Fits /\ Fresh /\ ServerRecvLeaves
      /\ server = "GETFILE" /\ s_size > 0
  BY DEF IInv, ServerRecv, ServerRecvLeaves, environment, clientVars, history
<1>2. /\ s_name \in Names /\ toClient = NoStream
      /\ pc # "dead" => s_name \notin todo /\ Agreed({s_name} \cup Pending)
  BY DEF Getting
<1>3. /\ Len(d) = s_size /\ Within(d, j) /\ s_left = s_size - At(m) /\ s_left > 0
      /\ rest # <<>> => s_size <= At(j)
      /\ Sender(d, j, rest)
      /\ \/ pc = "dead"
         \/ s_name \in edited \cup patched
         \/ Progress(d, sdisk[s_name].data, s_left)
  BY <1>1 DEF Uploading
<1>4. /\ m < j /\ got = Bytes(d, m, m + 1)
      /\ FileThen(network, Take(toServer, Len(got)), d, m + 1, j, rest)
  BY DEF NextChunk
<1>5. s_left \in Nat /\ s_size \in Nat /\ s_size < SizeMod
  BY <1>1, Bounds DEF TypeOK
<1>7. PICK first \in BOOLEAN : first <=> s_left = s_size
  OBVIOUS
<1>16. ChunkTaken(d, m, s_left, got, first)
  <2>1. /\ s_left \in Nat /\ s_left = Len(d) - At(m) /\ 0 < s_left /\ Len(d) < SizeMod
        /\ got = Bytes(d, m, m + 1) /\ (first <=> s_left = Len(d))
    BY <1>3, <1>4, <1>5, <1>7
  <2> QED
    BY <2>1, ChunkAccepted
<1>6. PICK left \in Nat :
        /\ left = Minus(s_left, Len(got)) /\ left < SizeMod /\ Expected(Len(got), s_left)
        /\ left > 0 => left = Len(d) - At(m + 1)
        /\ ~(left > 0) => Len(d) <= At(m + 1) /\ left = 0
  BY <1>16, Zenon DEF ChunkTaken, Counted
<1>8. PICK new : new = [mtime |-> sclock, data |-> Written(sdisk[s_name].data, Data(got), first)]
  OBVIOUS
<1>9. /\ s_left' = left /\ toServer' = Take(toServer, Len(got))
      /\ server' = IF left = 0 THEN "SYNC" ELSE "GETFILE"
      /\ new \in Files /\ sdisk'[s_name] = new
      /\ \A k \in Names : k # s_name => sdisk'[k] = sdisk[k]
      /\ TypeOK' /\ Fits' /\ Fresh'
  <2>1. WriteGiven(got, left, first, new)
    BY <1>6, <1>7, <1>8, Zenon DEF WriteGiven
  <2>2. WriteDone(got, left, new)
    BY <1>2, <1>6, <1>7, <2>1, ServerAccepts, Zenon
  <2> QED
    BY <2>2, Zenon DEF WriteDone
<1>10. /\ new.data = Written(sdisk[s_name].data, Data(got), first)
       /\ sdisk[s_name].data \in Seq(Edits)
  <2>1. \A f : f = [mtime |-> sclock, data |-> Written(sdisk[s_name].data, Data(got), first)] =>
          f.data = Written(sdisk[s_name].data, Data(got), first)
    OBVIOUS
  <2>2. sdisk[s_name] \in Files
    BY <1>1, <1>2 DEF TypeOK
  <2> QED
    BY <1>8, <2>1, <2>2, FileFields
<1>11. \/ pc = "dead"
       \/ s_name \in edited \cup patched
       \/ Progress(d, new.data, left) /\ (left = 0 => new.data = d)
  BY <1>3, <1>6, <1>10, <1>16, Zenon DEF ChunkTaken
<1>12. pc # "dead" => \A k \in Names \ (todo \cup edited \cup skipped \cup patched \cup ({s_name} \cup Pending)) :
                        AgreeOn(cdisk', sdisk', k)
  BY <1>1, <1>2, <1>9 DEF Agreed, AgreeOn, ServerRecvLeaves
<1>13. Asking => Asking'
  BY <1>1 DEF Asking, ServerRecvLeaves
<1>14. CASE left > 0
  <2>1. PICK k \in Nat : k = m + 1
    OBVIOUS
  <2>2. Sender(d, j, rest)'
    BY <1>1, <1>3, <1>13 DEF Sender, ServerRecvLeaves
  <2>3. /\ Len(d) = s_size' /\ k <= j /\ s_left' = s_size' - At(k) /\ s_left' > 0
        /\ FileThen(network', toServer', d, k, j, rest)
    BY <1>1, <1>3, <1>4, <1>6, <1>9, <1>14, <2>1 DEF ServerRecvLeaves
  <2>4. Uploading(d, k, j, rest)'
    BY <1>1, <1>3, <1>9, <1>11, <2>2, <2>3 DEF Uploading, ServerRecvLeaves
  <2>5. pc' # "dead" => s_name' \notin todo' /\ Agreed({s_name} \cup Pending)'
    BY <1>1, <1>2, <1>12 DEF Agreed, Pending, ServerRecvLeaves
  <2>6. Getting'
    BY <1>1, <1>2, <1>9, <1>14, <2>4, <2>5 DEF Getting, ServerRecvLeaves
  <2> QED
    BY <1>9, <2>6 DEF IInv, Phase
<1>15. CASE ~(left > 0)
  <2>1. Len(d) <= At(m + 1) /\ left = 0
    BY <1>6, <1>15
  <2>2. j = m + 1
    BY <1>3, <1>4, <2>1, LastChunk
  <2>3. /\ rest = <<>> => toServer' = NoStream
        /\ \A q \in Messages : rest = <<Encode(q)>> => OneMessage(toServer', q)
    <3>1. PICK k \in Nat : k = m + 1
      OBVIOUS
    <3>2. FileThen(network, toServer', d, k, k, rest)
      BY <1>4, <1>9, <2>2, <3>1
    <3>3. rest \in Rests
      BY QueryFacts
    <3> QED
      BY <3>2, <3>3, FileDone
  <2>4. CASE pc = "dead"
    <3>1. toServer' = NoStream \/ \E q \in Queries : OneMessage(toServer', q)
      <4>1. rest = <<>> \/ \E q \in Queries : rest = <<Encode(q)>>
        BY QueryFacts
      <4> QED
        BY <2>3, <4>1, QueryFacts
    <3>2. Listening'
      BY <1>1, <1>2, <1>9, <2>1, <2>4, <3>1 DEF Listening, ServerRecvLeaves
    <3> QED
      BY <1>9, <3>2 DEF IInv, Phase
  <2>5. CASE pc # "dead"
    <3>1. ~(At(j) < s_size)
      <4>1. At(j) \in Nat
        BY AtNext
      <4> QED
        BY <1>3, <1>5, <2>1, <2>2, <4>1
    <3>2. \/ pc = "scan" /\ toServer' = NoStream
          \/ Asking /\ OneMessage(toServer', msg)
      <4>1. msg \in Messages
        BY <1>1 DEF TypeOK
      <4> QED
        BY <1>3, <2>3, <2>5, <3>1, <4>1 DEF Sender
    <3>3. s_name \in edited \cup patched \/ AgreeOn(cdisk', sdisk', s_name)
      <4>1. s_name \in edited \/ d = cdisk[s_name].data
        BY <1>3, <2>5 DEF Sender
      <4> QED
        BY <1>1, <1>9, <1>11, <2>1, <2>5, <4>1 DEF AgreeOn, ServerRecvLeaves
    <3>4. Agreed(Pending)'
      BY <1>1, <1>12, <2>5, <3>3 DEF Agreed, Pending, ServerRecvLeaves
    <3>5. Listening'
      BY <1>1, <1>2, <1>9, <1>13, <2>1, <2>5, <3>2, <3>4 DEF Listening, Asking, ServerRecvLeaves
    <3> QED
      BY <1>9, <3>5 DEF IInv, Phase
  <2> QED
    BY <2>4, <2>5
<1> QED
  BY <1>14, <1>15

\* The server reads from a client's stream in the middle of a file.
LEMMA ServerRecvKeeps == IInv /\ ServerRecv => IInv'
<1> SUFFICES ASSUME IInv, ServerRecv PROVE IInv'
  OBVIOUS
<1>1. /\ TypeOK /\ Phase /\ server = "GETFILE" /\ s_size > 0 /\ toServer.buf # <<>>
  BY DEF IInv, ServerRecv
<1>2. Getting \/ Lost
  <2>1. ~Answered
    BY <1>1, Nothing DEF Answered
  <2> QED
    BY <1>1, <2>1 DEF Phase, Listening, Receiving, Over
<1>3. CASE Lost
  BY <1>3, LostRefuses
<1>4. CASE Getting
  <2>1. PICK d \in Seq(Edits), m \in Nat, j \in Nat, rest \in Queued : Uploading(d, m, j, rest)
    BY <1>4 DEF Getting
  <2>2. PICK got : got = Front(toServer, CHUNKSIZE)
    OBVIOUS
  <2>3. \/ NextChunk(network, toServer, d, m, j, rest, got)
        \/ Overrun(network, toServer, d, m, j, rest, got)
    <3>1. /\ m <= j /\ Within(d, j) /\ FileThen(network, toServer, d, m, j, rest)
          /\ rest # <<>> => Len(d) <= At(j)
      BY <2>1 DEF Uploading
    <3>2. At(m) < Len(d)
      <4>1. At(m) \in Nat /\ Len(d) \in Nat
        BY AtNext, LenProperties
      <4>2. Len(d) = s_size /\ s_left = s_size - At(m) /\ s_left > 0
        BY <1>1, <2>1 DEF Uploading
      <4> QED
        BY <4>1, <4>2
    <3>3. rest \in Rests
      BY QueryFacts
    <3> QED
      BY <1>1, <2>2, <3>1, <3>2, <3>3, FileRead
  <2> QED
    BY <1>4, <2>1, <2>2, <2>3, ServerReceives, ServerOverruns, Zenon
<1> QED
  BY <1>2, <1>3, <1>4

-----------------------------------------------------------------------------
(* Every step                                                              *)

\* Whatever happens, the invariant stays.
LEMMA StepKeeps == IInv /\ [Next]_vars => IInv'
<1> SUFFICES ASSUME IInv, [Next]_vars PROVE IInv'
  OBVIOUS
<1>1. CASE Tick
  BY <1>1, TickKeeps
<1>2. CASE \E n \in Names, size \in Sizes : Edit(n, size)
  BY <1>2, EditKeeps
<1>3. CASE Deliver
  BY <1>3, DeliverKeeps
<1>4. CASE Crash
  BY <1>4, CrashKeeps
<1>5. CASE Restart
  BY <1>5, RestartKeeps
<1>6. CASE Client
  BY <1>6, StartRoundKeeps, SendSyncKeeps, ReadReplyKeeps, SendChunkKeeps, ClientRecvKeeps,
     ReadPollReplyKeeps, ServerGoneKeeps DEF Client
<1>7. CASE Server
  BY <1>7, DoSyncKeeps, CreateEmptyKeeps, ServerRecvKeeps, ReadEofKeeps DEF Server
<1>8. CASE UNCHANGED vars
  BY <1>8, StutterKeeps
<1> QED
  BY <1>1, <1>2, <1>3, <1>4, <1>5, <1>6, <1>7, <1>8 DEF Next

\* The invariant holds in every state of every behaviour.
LEMMA Invariance == Spec => []IInv
BY InitHolds, StepKeeps, PTL DEF Spec

-----------------------------------------------------------------------------
(* The theorems                                                            *)

\* The variables have their types: no count of dbclient.c or filesync.c leaves
\* its range, and no unit that is neither of a message nor of a file is read.
THEOREM TypeCorrect == Spec => []TypeOK
<1>1. IInv => TypeOK
  BY DEF IInv
<1> QED
  BY <1>1, Invariance, PTL

\* Neither main loop ever takes bytes of a file for a message, on any network,
\* whatever crashes (read_sync_msg in dbserver.c:208 and dbclient.c:116).
THEOREM FramingHolds == Spec => []Framed
<1>1. ASSUME IInv, server = "SYNC", toServer.buf # <<>> PROVE HasMessage(toServer)
  <2>1. TypeOK /\ Fits /\ Phase
    BY <1>1 DEF IInv
  <2>2. toServer # NoStream
    BY <1>1, Nothing
  <2>3. Listening
    BY <1>1, <2>1, <2>2 DEF Phase, Answered, Receiving, Getting, Lost, Over
  <2>4. \E q \in Queries : OneMessage(toServer, q)
    BY <2>1, <2>2, <2>3, AskedFor DEF Listening
  <2> QED
    BY <1>1, <2>4, QueryFacts, OneMessageFacts
<1>2. ASSUME IInv, pc \in {"reply", "poll"}, toClient.buf # <<>> PROVE HasMessage(toClient)
  <2>1. TypeOK /\ Fits /\ Phase
    BY <1>2 DEF IInv
  <2>2. toClient # NoStream
    BY <1>2, Nothing
  <2>3. Answered
    BY <1>2, <2>1, <2>2 DEF Phase, Listening, Receiving, Getting, Lost, Over
  <2>4. PICK a \in Messages, d \in Seq(Edits), n \in Nat : Answering(a, d, n)
    BY <2>3 DEF Answered
  <2>5. MessageThen(network, toClient, a, d, n)
    BY <2>4 DEF Answering
  <2> QED
    BY <1>2, <2>5, MessageRead
<1>3. IInv => Framed
  BY <1>1, <1>2 DEF Framed
<1> QED
  BY <1>3, Invariance, PTL

\* When a round has ended, the server's copy of each of the client's files is the
\* client's, but for the files edited since their announcement and those whose
\* exchange found equal dates or had to shorten a copy (dbclient.c:88-197).
THEOREM AgreementHolds == Spec => []RoundAgrees
<1>1. ASSUME IInv, fresh PROVE RoundAgrees
  <2>1. pc = "asleep" /\ Phase
    BY <1>1 DEF IInv, Fresh
  <2>2. ~Answered /\ ~Receiving /\ ~Lost /\ ~Over
    BY <2>1 DEF Answered, Asking, Receiving, Lost, Over
  <2>3. ~Getting
    BY <2>1 DEF Getting, Uploading, Sender, Asking
  <2> QED
    BY <2>1, <2>2, <2>3 DEF Phase, Listening
<1>2. IInv => RoundAgrees
  <2>1. ~fresh => RoundAgrees
    BY DEF RoundAgrees
  <2> QED
    BY <1>1, <2>1
<1> QED
  BY <1>2, Invariance, PTL

\* On a prompt network the server ends a session only when its client has gone:
\* no read of recv_chunk or of a message ever comes out short (filesync.c:201).
THEOREM LiveClientsKept == Spec => []LiveClientKept
<1>1. IInv => LiveClientKept
  <2> SUFFICES ASSUME IInv, network = "prompt", server \in {"closed", "killed"} PROVE pc = "dead"
    BY DEF LiveClientKept
  <2>1. Over
    <3>1. ~Answered
      BY DEF Answered, Answering
    <3> QED
      BY <3>1 DEF IInv, Phase, Listening, Receiving, Getting, Lost
  <2> QED
    BY <2>1 DEF Over
<1> QED
  BY <1>1, Invariance, PTL
=============================================================================
