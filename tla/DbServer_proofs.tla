--------------------------- MODULE DbServer_proofs ---------------------------
(***************************************************************************)
(* Proofs about DbServer for every number of slots, files and descriptors. *)
(***************************************************************************)
EXTENDS DbServer, TLAPS

(***************************************************************************)
(* Everything the invariants need of one another.  SessionSockets survives *)
(* a login only because the socket is in ready, hence, by ReadyStillOpen,  *)
(* in conns; ReadyStillOpen survives a logout only because, by             *)
(* SessionSockets, the one socket it closes is the one being served, and   *)
(* Select because nothing closed is watched; a shutdown closes everything  *)
(* because, unless master_set was cleared, everything is watched.          *)
(* UploadAnnounced needs only the types.                                   *)
(***************************************************************************)
Watching ==
  running = "up" =>
    /\ master_set \subseteq conns \cup {stdin, listen_sock}
    /\ ~overrun => conns \cup {stdin, listen_sock} \subseteq master_set
    /\ \A fd \in master_set : fd < nfds

IInv ==
  /\ TypeOK
  /\ Watching
  /\ ReadyStillOpen
  /\ SessionSockets
  /\ NoInvalidState
  /\ ShutdownClosesAll
  /\ UploadAnnounced

USE SizeAssumption, EmptyStringAssumption DEF stdin, listen_sock, SYNC, GETFILE, Slots, UserIds

-----------------------------------------------------------------------------
(* Lemmas about check_file                                                 *)

\* check_file keeps a file list within its capacity, if there is room for the
\* name it looks up, and the list then has that name unless it is empty.
LEMMA CheckFile ==
  ASSUME NEW list \in FileLists, NEW n \in Names \cup {NoName}, HasRoom(list, n)
  PROVE  /\ check_file(list, n) \in FileLists
         /\ n # NoName => \E k \in 1 .. Len(check_file(list, n)) : check_file(list, n)[k] = n
<1>1. CASE n = NoName \/ \E k \in 1 .. Len(list) : list[k] = n
  BY <1>1 DEF check_file
<1>2. CASE ~(n = NoName \/ \E k \in 1 .. Len(list) : list[k] = n)
  <2>1. check_file(list, n) = Append(list, n)
    BY <1>2 DEF check_file
  <2>2. list \in Seq(Names) /\ n \in Names /\ Len(list) < MAXFILES
    BY <1>2 DEF FileLists, HasRoom
  <2>3. /\ Append(list, n) \in Seq(Names)
        /\ Len(Append(list, n)) = Len(list) + 1
        /\ Append(list, n)[Len(list) + 1] = n
    BY <2>2
  <2>4. Append(list, n) \in FileLists
    BY <2>2, <2>3 DEF FileLists
  <2>5. Len(list) + 1 \in 1 .. Len(Append(list, n))
    BY <2>2, <2>3
  <2> QED
    BY <2>1, <2>3, <2>4, <2>5
<1> QED
  BY <1>1, <1>2

\* One entry made for the file n of slot i, and n the file in transit there if
\* its client now sends: every upload under way is still an announced one.
LEMMA FilesAfterCheck ==
  ASSUME TypeOK, UploadAnnounced,
         NEW i \in Slots, NEW n \in Names \cup {NoName}, HasRoom(files[i], n),
         files' = [files EXCEPT ![i] = check_file(@, n)],
         \/ state[i] # GETFILE /\ UNCHANGED <<state, file_in_transit>>
         \/ /\ state' = [state EXCEPT ![i] = GETFILE]
            /\ file_in_transit' = [file_in_transit EXCEPT ![i] = n]
  PROVE  files' \in [Slots -> FileLists] /\ UploadAnnounced'
<1> DEFINE list == check_file(files[i], n)
<1>1. files[i] \in FileLists
  BY DEF TypeOK
<1>2. list \in FileLists /\ (n # NoName => \E k \in 1 .. Len(list) : list[k] = n)
  BY <1>1, CheckFile
<1>3. \A j \in Slots : files'[j] = IF j = i THEN list ELSE files[j]
  BY DEF TypeOK
<1>4. files' \in [Slots -> FileLists]
  BY <1>2 DEF TypeOK
<1>5. ASSUME NEW j \in Slots, j # i
      PROVE  UNCHANGED <<state[j], file_in_transit[j], files[j]>>
  BY <1>3, <1>5 DEF TypeOK
<1>6. state'[i] = GETFILE => file_in_transit'[i] = n
  BY DEF TypeOK
<1>7. UploadAnnounced'
  <2> SUFFICES ASSUME NEW j \in Slots, state'[j] = GETFILE, file_in_transit'[j] # NoName
               PROVE  \E k \in 1 .. Len(files'[j]) : files'[j][k] = file_in_transit'[j]
    BY DEF UploadAnnounced
  <2>1. CASE j = i
    BY <1>2, <1>3, <1>6, <2>1
  <2>2. CASE j # i
    BY <1>5, <2>2 DEF UploadAnnounced
  <2> QED
    BY <2>1, <2>2
<1> QED
  BY <1>4, <1>7

-----------------------------------------------------------------------------
(* IInv is inductive: one lemma per service                                *)

LEMMA InitIInv == Init => IInv
<1> SUFFICES ASSUME Init PROVE IInv
  OBVIOUS
<1>1. <<>> \in FileLists
  BY DEF FileLists
<1>2. TypeOK
  BY <1>1 DEF Init, TypeOK
<1>3. Watching /\ ReadyStillOpen /\ ShutdownClosesAll
  BY DEF Init, Watching, ReadyStillOpen, ShutdownClosesAll
<1>4. SessionSockets /\ NoInvalidState /\ UploadAnnounced
  BY DEF Init, SessionSockets, NoInvalidState, UploadAnnounced
<1> QED
  BY <1>2, <1>3, <1>4 DEF IInv

\* The steps of the loop that leave the table alone and close nothing.
LEMMA SelectIInv == IInv /\ Select => IInv'
<1> SUFFICES ASSUME IInv, Select PROVE IInv'
  OBVIOUS
<1>1. TypeOK'
  BY DEF IInv, TypeOK, Select, Watched, descriptors, table
<1>2. Watching' /\ ReadyStillOpen' /\ ShutdownClosesAll'
  BY DEF IInv, TypeOK, Select, Watched, Watching, ReadyStillOpen, ShutdownClosesAll,
         descriptors, table
<1>3. SessionSockets' /\ NoInvalidState' /\ UploadAnnounced'
  BY DEF IInv, Select, SessionSockets, NoInvalidState, UploadAnnounced,
         descriptors, table
<1> QED
  BY <1>1, <1>2, <1>3 DEF IInv

\* The descriptor accept() returns is below nfds afterwards.
LEMMA AcceptIInv == IInv /\ Accept => IInv'
<1> SUFFICES ASSUME IInv, Accept PROVE IInv'
  OBVIOUS
<1>1. CASE running' = running
  <2>1. PICK incoming \in FreeFds :
          /\ conns' = conns \cup {incoming}
          /\ master_set' = master_set \cup {incoming}
          /\ nfds' = NfdsWith(incoming)
    BY <1>1 DEF Accept, Serve
  <2>2. incoming \in 4 .. MaxFd
    BY DEF FreeFds, OpenFds
  <2>3. /\ nfds' \in 4 .. MaxFd + 1
        /\ incoming < nfds'
        /\ nfds <= nfds'
    BY <2>1, <2>2 DEF IInv, TypeOK, NfdsWith
  <2>4. TypeOK'
    BY <1>1, <2>1, <2>2, <2>3 DEF IInv, TypeOK, ConnFds, Accept, Serve, table
  <2>5. Watching'
    <3> SUFFICES ASSUME running = "up" PROVE
                   /\ master_set' \subseteq conns' \cup {0, 3}
                   /\ ~overrun' => conns' \cup {0, 3} \subseteq master_set'
                   /\ \A fd \in master_set' : fd < nfds'
      BY <1>1 DEF Watching
    <3>1. /\ master_set \subseteq conns \cup {0, 3}
          /\ ~overrun => conns \cup {0, 3} \subseteq master_set
          /\ \A fd \in master_set : fd < nfds
      BY DEF IInv, Watching
    <3>2. \A fd \in master_set : fd < nfds'
      BY <2>3, <3>1 DEF IInv, TypeOK
    <3>3. overrun' = overrun
      BY DEF Accept
    <3> QED
      BY <2>1, <2>3, <3>1, <3>2, <3>3
  <2>6. ReadyStillOpen' /\ ShutdownClosesAll'
    BY <1>1, <2>1 DEF IInv, ReadyStillOpen, ShutdownClosesAll, Accept, Serve
  <2>7. SessionSockets' /\ NoInvalidState' /\ UploadAnnounced'
    BY <1>1, <2>1 DEF IInv, Accept, SessionSockets, NoInvalidState,
       UploadAnnounced, table
  <2> QED
    BY <2>4, <2>5, <2>6, <2>7 DEF IInv
<1>2. CASE running' # running
  <2>1. running' = "exited" /\ UNCHANGED <<conns, master_set, nfds, dirfds, dirs, table, overrun>>
    BY <1>2 DEF Accept
  <2>2. TypeOK'
    BY <2>1 DEF IInv, TypeOK, Accept, Serve, table
  <2>3. Watching' /\ ReadyStillOpen' /\ ShutdownClosesAll' /\ SessionSockets'
    BY <2>1 DEF Watching, ReadyStillOpen, ShutdownClosesAll, SessionSockets
  <2>4. NoInvalidState' /\ UploadAnnounced'
    BY <2>1 DEF IInv, NoInvalidState, UploadAnnounced, table
  <2> QED
    BY <2>2, <2>3, <2>4 DEF IInv
<1> QED
  BY <1>1, <1>2

\* Everything watched is closed, and by Watching that is every connection.
LEMMA ShutdownIInv == IInv /\ Shutdown => IInv'
<1> SUFFICES ASSUME IInv, Shutdown PROVE IInv'
  OBVIOUS
<1>1. TypeOK'
  BY DEF IInv, TypeOK, Shutdown, Serve, table
<1>2. ~overrun' => conns' = {}
  BY DEF IInv, Shutdown, Serve, Watching, ClosedAtShutdown
<1>3. Watching' /\ ReadyStillOpen' /\ ShutdownClosesAll' /\ SessionSockets'
  BY <1>2 DEF Shutdown, Watching, ReadyStillOpen, ShutdownClosesAll, SessionSockets
<1>4. NoInvalidState' /\ UploadAnnounced'
  BY DEF IInv, Shutdown, NoInvalidState, UploadAnnounced, table
<1> QED
  BY <1>1, <1>3, <1>4 DEF IInv

\* A step that only ends the process, or changes nothing but ready.
LEMMA QuietIInv ==
  ASSUME IInv, running = "up", running' \in {"up", "spinning", "killed"},
         NEW fd \in ready, ready' = ready \ {fd},
         UNCHANGED <<dirs, descriptors, table, overrun>>
  PROVE  IInv'
<1>1. TypeOK'
  BY DEF IInv, TypeOK, descriptors, table
<1>2. Watching' /\ ReadyStillOpen' /\ ShutdownClosesAll' /\ SessionSockets'
  BY DEF IInv, Watching, ReadyStillOpen, ShutdownClosesAll, SessionSockets, descriptors, table
<1>3. NoInvalidState' /\ UploadAnnounced'
  BY DEF IInv, NoInvalidState, UploadAnnounced, table
<1> QED
  BY <1>1, <1>2, <1>3 DEF IInv

\* What ServeClient(i) tells of slot i: its socket is an open connection, it
\* was reported by select(), and no other slot holds it.
LEMMA Served ==
  ASSUME IInv, NEW i \in Slots, ServeClient(i)
  PROVE  /\ running = "up"
         /\ sock[i] \in ready
         /\ ready' = ready \ {sock[i]}
         /\ sock[i] \in ConnFds
         /\ sock[i] \in conns
         /\ \A j \in Slots : sock[j] = sock[i] => j = i
<1>1. running = "up" /\ sock[i] \in ready /\ ready' = ready \ {sock[i]}
  BY DEF ServeClient, Serve
<1>2. sock[i] \in ConnFds
  BY <1>1 DEF IInv, TypeOK, ServeClient, ConnFds
<1>3. sock[i] > 0
  BY <1>2 DEF ConnFds
<1> QED
  BY <1>1, <1>2, <1>3 DEF IInv, SessionSockets

\* Logging a client out closes the socket being served and no other, so what
\* is left of this pass is open, and no slot keeps the closed descriptor.
LEMMA RemoveIInv ==
  ASSUME IInv, NEW i \in Slots, ServeClient(i), remove_client(i),
         UNCHANGED <<running, dirs, dirfds, nfds, userid, dirname, state, file_in_transit,
                     overrun>>,
         files' \in [Slots -> FileLists], UploadAnnounced'
  PROVE  IInv'
<1>1. /\ running = "up"
      /\ sock[i] \in ready
      /\ ready' = ready \ {sock[i]}
      /\ sock[i] \in ConnFds
      /\ sock[i] \in conns
      /\ \A j \in Slots : sock[j] = sock[i] => j = i
  BY Served
<1>2. /\ conns' = conns \ {sock[i]}
      /\ master_set' = master_set \ {sock[i]}
      /\ sock' = [sock EXCEPT ![i] = -1]
  BY DEF remove_client
<1>3. TypeOK'
  BY <1>1, <1>2 DEF IInv, TypeOK
<1>4. \A j \in Slots : sock'[j] = IF j = i THEN -1 ELSE sock[j]
  BY <1>2 DEF IInv, TypeOK
<1>5. Watching' /\ ReadyStillOpen' /\ ShutdownClosesAll'
  BY <1>1, <1>2 DEF IInv, Watching, ReadyStillOpen, ShutdownClosesAll, ConnFds
<1>6. SessionSockets'
  <2> SUFFICES ASSUME NEW j \in Slots, sock'[j] > 0
               PROVE  /\ sock'[j] \in conns'
                      /\ \A k \in Slots : sock'[k] = sock'[j] => k = j
    BY DEF SessionSockets
  <2>1. j # i /\ sock'[j] = sock[j]
    BY <1>4
  <2>2. sock[j] \in conns /\ \A k \in Slots : sock[k] = sock[j] => k = j
    BY <1>1, <2>1 DEF IInv, SessionSockets
  <2>3. sock[j] # sock[i]
    BY <1>1, <2>1
  <2> QED
    BY <1>1, <1>2, <1>4, <2>1, <2>2, <2>3
<1>7. NoInvalidState'
  BY <1>4 DEF IInv, NoInvalidState
<1> QED
  BY <1>3, <1>5, <1>6, <1>7 DEF IInv

\* Preparing to receive a file leaves every session but the next slot's, and
\* at most unwatches connections.
LEMMA AwaitIInv ==
  ASSUME IInv, NEW i \in Slots, NEW n \in Names \cup {NoName},
         ServeClient(i), await_file(i, n),
         UNCHANGED <<running, dirs, dirfds, nfds, dirname, conns>>,
         files' \in [Slots -> FileLists], UploadAnnounced'
  PROVE  IInv'
<1>1. running = "up" /\ sock[i] \in ready /\ ready' = ready \ {sock[i]}
  BY Served
<1>2. /\ state' \in [Slots -> {0, 1, 2}]
      /\ sock' \in [Slots -> {-1, 0} \cup ConnFds]
      /\ userid' \in [Slots -> UserIds]
      /\ file_in_transit' \in [Slots -> Names \cup {NoName}]
  <2>1. state' \in [Slots -> {0, 1, 2}]
    BY DEF IInv, TypeOK, await_file
  <2>2. sock' \in [Slots -> {-1, 0} \cup ConnFds]
    <3>1. sock \in [Slots -> {-1, 0} \cup ConnFds]
      BY DEF IInv, TypeOK
    <3> HIDE DEF Slots
    <3> QED
      BY <3>1 DEF await_file
  <2>3. userid' \in [Slots -> UserIds]
    <3>1. userid \in [Slots -> UserIds] /\ NoUser \in UserIds
      BY DEF IInv, TypeOK
    <3> HIDE DEF Slots, UserIds
    <3> QED
      BY <3>1 DEF await_file
  <2>4. file_in_transit' \in [Slots -> Names \cup {NoName}]
    BY DEF IInv, TypeOK, await_file
  <2> QED
    BY <2>1, <2>2, <2>3, <2>4
<1>3. TypeOK'
  <2>1. /\ running' \in {"up", "shutdown", "exited", "killed", "spinning"}
        /\ conns' \subseteq ConnFds /\ dirfds' \subseteq ConnFds
        /\ dirs' \subseteq Dirs /\ master_set' \subseteq 0 .. MaxFd
        /\ nfds' \in (listen_sock + 1) .. (MaxFd + 1)
        /\ ready' \subseteq 0 .. MaxFd
        /\ dirname' \in [Slots -> Dirs \cup {NoDir}]
        /\ overrun' \in BOOLEAN
    BY <1>1 DEF IInv, TypeOK, await_file
  <2> HIDE DEF Slots, UserIds
  <2> QED
    BY <1>2, <2>1 DEF TypeOK
<1>4. Watching' /\ ReadyStillOpen' /\ ShutdownClosesAll'
  BY <1>1 DEF IInv, Watching, ReadyStillOpen, ShutdownClosesAll, await_file
<1>5. \A j \in Slots : sock'[j] = IF j = i + 1 THEN 0 ELSE sock[j]
  BY DEF IInv, TypeOK, await_file
<1>6. \A j \in Slots : state'[j] = IF j = i THEN 2 ELSE state[j]
  BY DEF IInv, TypeOK, await_file
<1>7. SessionSockets'
  BY <1>1, <1>5 DEF IInv, SessionSockets
<1>8. NoInvalidState'
  BY <1>5, <1>6 DEF IInv, NoInvalidState
<1> QED
  BY <1>3, <1>4, <1>7, <1>8 DEF IInv

LEMMA SyncFileIInv ==
  ASSUME IInv, NEW i \in Slots, NEW n \in Names \cup {NoName}, SyncFile(i, n)
  PROVE  IInv'
<1>1. ServeClient(i) /\ UNCHANGED <<running, dirs, dirfds, nfds, dirname>>
  BY DEF SyncFile
<1>2. files' \in [Slots -> FileLists] /\ UploadAnnounced'
  <2>1. state[i] # GETFILE
    BY DEF SyncFile
  <2>2. \/ UNCHANGED <<state, file_in_transit>>
        \/ /\ state' = [state EXCEPT ![i] = GETFILE]
           /\ file_in_transit' = [file_in_transit EXCEPT ![i] = n]
    BY DEF SyncFile, await_file
  <2> QED
    BY <2>1, <2>2, FilesAfterCheck DEF IInv, SyncFile
<1>3. CASE remove_client(i) /\ UNCHANGED <<userid, state, file_in_transit, overrun>>
  BY <1>1, <1>2, <1>3, RemoveIInv
<1>4. CASE await_file(i, n) /\ UNCHANGED conns
  BY <1>1, <1>2, <1>4, AwaitIInv
<1>5. CASE UNCHANGED <<conns, master_set, userid, sock, state, file_in_transit, overrun>>
  <2>1. running = "up" /\ sock[i] \in ready /\ ready' = ready \ {sock[i]}
    BY <1>1, Served
  <2>2. TypeOK'
    BY <1>1, <1>2, <1>5, <2>1 DEF IInv, TypeOK
  <2>3. Watching' /\ ReadyStillOpen' /\ ShutdownClosesAll' /\ SessionSockets' /\ NoInvalidState'
    BY <1>1, <1>5, <2>1 DEF IInv, Watching, ReadyStillOpen, ShutdownClosesAll,
       SessionSockets, NoInvalidState
  <2> QED
    BY <1>2, <2>2, <2>3 DEF IInv
<1> QED
  BY <1>3, <1>4, <1>5 DEF SyncFile

LEMMA ClientIInv ==
  ASSUME IInv, NEW i \in Slots, ClientStep(i)
  PROVE  IInv'
<1>1. CASE DropClient(i)
  <2>1. files' \in [Slots -> FileLists] /\ UploadAnnounced'
    BY <1>1 DEF IInv, TypeOK, UploadAnnounced, DropClient
  <2> QED
    BY <1>1, <2>1, RemoveIInv DEF DropClient
<1>2. CASE SyncEmpty(i)
  BY <1>2, Served, QuietIInv DEF SyncEmpty
<1>3. CASE \E n \in Names \cup {NoName} : SyncFile(i, n)
  BY <1>3, SyncFileIInv
<1>4. CASE WriteToResetPeer(i)
  BY <1>4, Served, QuietIInv DEF WriteToResetPeer
<1>5. CASE RecvChunk(i)
  <2>1. running = "up" /\ sock[i] \in ready /\ ready' = ready \ {sock[i]}
    BY <1>5, Served DEF RecvChunk
  <2>2. state' \in [Slots -> {0, 1, 2}]
    BY <1>5 DEF IInv, TypeOK, RecvChunk
  <2>3. TypeOK'
    BY <1>5, <2>1, <2>2 DEF IInv, TypeOK, RecvChunk, descriptors
  <2>4. Watching' /\ ReadyStillOpen' /\ ShutdownClosesAll' /\ SessionSockets'
    BY <1>5, <2>1 DEF IInv, Watching, ReadyStillOpen, ShutdownClosesAll, SessionSockets,
       RecvChunk, descriptors
  <2>5. \A j \in Slots : state'[j] \in {state[j], 1}
    BY <1>5 DEF IInv, TypeOK, RecvChunk
  <2>6. NoInvalidState'
    BY <1>5, <2>5 DEF IInv, NoInvalidState, RecvChunk
  <2>7. UploadAnnounced'
    BY <1>5, <2>5 DEF IInv, UploadAnnounced, RecvChunk
  <2> QED
    BY <2>3, <2>4, <2>6, <2>7 DEF IInv
<1> QED
  BY <1>1, <1>2, <1>3, <1>4, <1>5 DEF ClientStep

\* A descriptor that reaches the login branch is an open connection.
LEMMA LoginServed ==
  ASSUME IInv, NEW fd \in ready, ServeLogin(fd)
  PROVE  /\ running = "up"
         /\ ready' = ready \ {fd}
         /\ fd \in ConnFds /\ fd \in conns /\ fd > 0
         /\ \A i \in Slots : sock[i] # fd
<1>1. /\ running = "up"
      /\ fd \notin {stdin, listen_sock}
      /\ ready' = ready \ {fd}
      /\ \A i \in Slots : sock[i] # fd
  BY DEF ServeLogin, Serve
<1>2. fd \in conns
  BY <1>1 DEF IInv, ReadyStillOpen, Watching
<1>3. fd \in ConnFds
  BY <1>2 DEF IInv, TypeOK
<1>4. fd > 0
  BY <1>3 DEF ConnFds
<1> QED
  BY <1>1, <1>2, <1>3, <1>4

\* A short login closes a connection no slot holds.
LEMMA LoginShortIInv ==
  ASSUME IInv, NEW fd \in ready, LoginShort(fd)
  PROVE  IInv'
<1>1. /\ running = "up" /\ running' = "up"
      /\ ready' = ready \ {fd}
      /\ fd \in ConnFds /\ fd \in conns
      /\ \A i \in Slots : sock[i] # fd
  BY LoginServed DEF LoginShort
<1>2. /\ conns' = conns \ {fd}
      /\ master_set' = master_set \ {fd}
      /\ UNCHANGED <<dirs, dirfds, nfds, table, overrun>>
  BY DEF LoginShort
<1>3. TypeOK'
  BY <1>1, <1>2 DEF IInv, TypeOK, table
<1>4. Watching' /\ ReadyStillOpen' /\ ShutdownClosesAll'
  BY <1>1, <1>2 DEF IInv, Watching, ReadyStillOpen, ShutdownClosesAll, ConnFds
<1>5. SessionSockets' /\ NoInvalidState' /\ UploadAnnounced'
  BY <1>1, <1>2 DEF IInv, SessionSockets, NoInvalidState, UploadAnnounced, table
<1> QED
  BY <1>3, <1>4, <1>5 DEF IInv

\* The slot that takes a login holds the served connection and no other does;
\* the connection it held before, if any, stays open without a slot.
LEMMA LoginIInv ==
  ASSUME IInv, NEW fd \in ready, NEW u \in UserIds, NEW d \in Dirs, Login(fd, u, d)
  PROVE  IInv'
<1>1. /\ running = "up" /\ running' = "up"
      /\ ready' = ready \ {fd}
      /\ fd \in ConnFds /\ fd \in conns /\ fd > 0
      /\ \A i \in Slots : sock[i] # fd
  BY LoginServed DEF Login
<1>2. PICK i \in Slots : fill_slot(i, u, d, fd)
  BY DEF Login
<1>3. UNCHANGED <<conns, master_set, nfds, file_in_transit, overrun>>
  BY <1>2 DEF Login, fill_slot
<1>4. /\ userid' \in [Slots -> UserIds]
      /\ dirname' \in [Slots -> Dirs \cup {NoDir}]
      /\ sock' \in [Slots -> {-1, 0} \cup ConnFds]
      /\ state' \in [Slots -> {0, SYNC, GETFILE}]
      /\ files' \in [Slots -> FileLists]
  <2>1. <<>> \in FileLists
    BY DEF FileLists
  <2>2. userid' \in [Slots -> UserIds] /\ dirname' \in [Slots -> Dirs \cup {NoDir}]
    BY <1>2 DEF IInv, TypeOK, fill_slot
  <2>3. sock' \in [Slots -> {-1, 0} \cup ConnFds]
    BY <1>1, <1>2 DEF IInv, TypeOK, fill_slot
  <2>4. state' \in [Slots -> {0, SYNC, GETFILE}] /\ files' \in [Slots -> FileLists]
    BY <1>2, <2>1 DEF IInv, TypeOK, fill_slot
  <2> QED
    BY <2>2, <2>3, <2>4
<1>5. dirs' \subseteq Dirs /\ dirfds' \subseteq ConnFds
  <2>1. ensure_dir(d)
    BY DEF Login
  <2>2. FreeFds \subseteq ConnFds
    BY DEF FreeFds, OpenFds, ConnFds
  <2> QED
    BY <2>1, <2>2 DEF IInv, TypeOK, ensure_dir
<1>6. TypeOK'
  <2>1. /\ running' \in {"up", "shutdown", "exited", "killed", "spinning"}
        /\ conns' \subseteq ConnFds
        /\ master_set' \subseteq 0 .. MaxFd
        /\ nfds' \in (listen_sock + 1) .. (MaxFd + 1)
        /\ ready' \subseteq 0 .. MaxFd
        /\ file_in_transit' \in [Slots -> Names \cup {NoName}]
        /\ overrun' \in BOOLEAN
    BY <1>1, <1>3 DEF IInv, TypeOK
  <2> QED
    BY <1>4, <1>5, <2>1 DEF TypeOK
<1>7. Watching' /\ ReadyStillOpen' /\ ShutdownClosesAll'
  BY <1>1, <1>3 DEF IInv, Watching, ReadyStillOpen, ShutdownClosesAll
<1>8. \A j \in Slots : /\ sock'[j] = IF j = i THEN fd ELSE sock[j]
                       /\ state'[j] = IF j = i THEN SYNC ELSE state[j]
                       /\ files'[j] = IF j = i THEN <<>> ELSE files[j]
  BY <1>2 DEF IInv, TypeOK, fill_slot
<1>9. SessionSockets'
  <2> SUFFICES ASSUME NEW j \in Slots, sock'[j] > 0
               PROVE  /\ sock'[j] \in conns'
                      /\ \A k \in Slots : sock'[k] = sock'[j] => k = j
    BY DEF SessionSockets
  <2>1. CASE j = i
    BY <1>1, <1>3, <1>8, <2>1
  <2>2. CASE j # i
    <3>1. sock'[j] = sock[j] /\ sock[j] # fd
      BY <1>1, <1>8, <2>2
    <3>2. sock[j] \in conns /\ \A k \in Slots : sock[k] = sock[j] => k = j
      BY <1>1, <3>1 DEF IInv, SessionSockets
    <3> QED
      BY <1>3, <1>8, <3>1, <3>2
  <2> QED
    BY <2>1, <2>2
<1>10. NoInvalidState'
  BY <1>8 DEF IInv, NoInvalidState
<1>11. UploadAnnounced'
  BY <1>3, <1>8 DEF IInv, UploadAnnounced
<1> QED
  BY <1>6, <1>7, <1>9, <1>10, <1>11 DEF IInv

LEMMA LoginStepIInv ==
  ASSUME IInv, NEW fd \in ready, LoginStep(fd)
  PROVE  IInv'
<1>1. CASE LoginReadError(fd)
  BY <1>1, LoginServed, QuietIInv DEF LoginReadError
<1>2. CASE LoginShort(fd)
  BY <1>2, LoginShortIInv
<1>3. ASSUME NEW u \in UserIds, NEW d \in Dirs, TooManyClients(fd, u, d)
      PROVE  IInv'
  BY <1>3, LoginServed, QuietIInv DEF TooManyClients
<1>4. ASSUME NEW u \in UserIds, NEW d \in Dirs, Login(fd, u, d)
      PROVE  IInv'
  BY <1>4, LoginIInv
<1> QED
  BY <1>1, <1>2, <1>3, <1>4 DEF LoginStep

-----------------------------------------------------------------------------
(* Theorems                                                                *)

\* IInv holds in every reachable state, for every size of the tables: types,
\* sockets and uploads of the client table, and what of the connections is
\* watched and closed, with or without an overflow of the last slot.
THEOREM Invariance == Spec => []IInv
<1>1. Init => IInv
  BY InitIInv
<1>2. IInv /\ [Next]_vars => IInv'
  <2> SUFFICES ASSUME IInv, [Next]_vars PROVE IInv'
    OBVIOUS
  <2>1. CASE Select
    BY <2>1, SelectIInv
  <2>2. CASE Accept
    BY <2>2, AcceptIInv
  <2>3. CASE Shutdown
    BY <2>3, ShutdownIInv
  <2>4. CASE StdinAtEof
    BY <2>4, QuietIInv DEF StdinAtEof, Serve
  <2>5. CASE \E i \in Slots : ClientStep(i)
    BY <2>5, ClientIInv
  <2>6. CASE \E fd \in ready : LoginStep(fd)
    BY <2>6, LoginStepIInv
  <2>7. CASE UNCHANGED vars
    BY <2>7 DEF vars, descriptors, table, IInv, TypeOK, Watching, ReadyStillOpen,
       SessionSockets, NoInvalidState, ShutdownClosesAll, UploadAnnounced
  <2> QED
    BY <2>1, <2>2, <2>3, <2>4, <2>5, <2>6, <2>7 DEF Next
<1> QED
  BY <1>1, <1>2, PTL DEF Spec

\* Every variable of the server keeps its type.
THEOREM TypeCorrect == Spec => []TypeOK
<1>1. IInv => TypeOK
  BY DEF IInv
<1> QED
  BY <1>1, Invariance, PTL

\* The sockets of the table are open connections, each in one slot.
THEOREM Sockets == Spec => []SessionSockets
<1>1. IInv => SessionSockets
  BY DEF IInv
<1> QED
  BY <1>1, Invariance, PTL

\* The "Invalid client state!" branch is unreachable.
THEOREM ValidState == Spec => []NoInvalidState
<1>1. IInv => NoInvalidState
  BY DEF IInv
<1> QED
  BY <1>1, Invariance, PTL

\* select() is never asked about a closed descriptor, and until an upload
\* from the last slot clears master_set it is asked about every open one.
THEOREM Watches == Spec => []EveryConnectionWatched
<1>1. IInv => EveryConnectionWatched
  BY DEF IInv, Watching, EveryConnectionWatched, Watched
<1> QED
  BY <1>1, Invariance, PTL

\* A reported descriptor is still open when the loop reaches it.
THEOREM StillOpen == Spec => []ReadyStillOpen
<1>1. IInv => ReadyStillOpen
  BY DEF IInv, Watching, ReadyStillOpen
<1> QED
  BY <1>1, Invariance, PTL

\* A shutdown leaves no connection open, as long as no upload from the last
\* slot has cleared master_set.
THEOREM ClosesAll == Spec => []ShutdownClosesAll
<1>1. IInv => ShutdownClosesAll
  BY DEF IInv
<1> QED
  BY <1>1, Invariance, PTL

\* Chunks are written only to a file their session has announced.
THEOREM Announced == Spec => []UploadAnnounced
<1>1. IInv => UploadAnnounced
  BY DEF IInv
<1> QED
  BY <1>1, Invariance, PTL

-----------------------------------------------------------------------------
(* No login takes another user's session                                   *)

LEMMA TakeStep ==
  ASSUME IInv, IInv', [Next]_vars,
         NEW i \in Slots,
         sock[i] \in conns \cap conns', sock'[i] \in conns', sock'[i] # sock[i]
  PROVE  userid[i] \in {NoUser, userid'[i]}
<1>1. sock'[i] \in ConnFds /\ sock'[i] > 0
  <2>1. TypeOK'
    BY DEF IInv
  <2>2. sock'[i] \in ConnFds
    BY <2>1 DEF TypeOK
  <2> QED
    BY <2>2 DEF ConnFds
<1>2. ~ UNCHANGED sock
  OBVIOUS
<1>3. ASSUME NEW fd \in ready, NEW u \in UserIds, NEW d \in Dirs, Login(fd, u, d)
      PROVE  userid[i] \in {NoUser, userid'[i]}
  <2>1. PICK j \in Slots : Takes(j, u, d) /\ fill_slot(j, u, d, fd)
    BY <1>3 DEF Login
  <2>2. sock' = [sock EXCEPT ![j] = fd] /\ userid' = [userid EXCEPT ![j] = u]
    BY <2>1 DEF fill_slot
  <2>3. j = i
    BY <2>2 DEF IInv, TypeOK
  <2> QED
    BY <2>1, <2>2, <2>3 DEF IInv, TypeOK, Takes
<1>4. ASSUME NEW j \in Slots, remove_client(j)
      PROVE  FALSE
  <2>1. sock' = [sock EXCEPT ![j] = -1]
    BY <1>4 DEF remove_client
  <2> QED
    BY <1>1, <2>1 DEF IInv, TypeOK
<1>5. ASSUME NEW j \in Slots, NEW n \in Names \cup {NoName}, await_file(j, n)
      PROVE  FALSE
  <2>1. sock' = [sock EXCEPT ![j + 1] = 0]
    BY <1>5 DEF await_file
  <2> QED
    BY <1>1, <2>1 DEF IInv, TypeOK
<1>6. CASE \E j \in Slots : ClientStep(j)
  BY <1>2, <1>4, <1>5, <1>6
     DEF ClientStep, DropClient, SyncEmpty, SyncFile, WriteToResetPeer, RecvChunk, table
<1>7. CASE \E fd \in ready : LoginStep(fd)
  BY <1>2, <1>3, <1>7 DEF LoginStep, LoginReadError, LoginShort, TooManyClients, table
<1>8. CASE Select \/ Accept \/ Shutdown \/ StdinAtEof \/ UNCHANGED vars
  BY <1>2, <1>8 DEF Select, Accept, Shutdown, StdinAtEof, vars, table
<1> QED
  BY <1>6, <1>7, <1>8 DEF Next

\* A login that takes the session of a connection that stays open takes it
\* from the same user or from an unnamed one.
THEOREM OwnSession == Spec => OnlyOwnSessionTaken
<1> DEFINE A == \A i \in Slots :
                 /\ sock[i] \in conns \cap conns'
                 /\ sock'[i] \in conns'
                 /\ sock'[i] # sock[i]
                 => userid[i] \in {NoUser, userid'[i]}
<1>1. IInv /\ IInv' /\ [Next]_vars => [A]_vars
  BY TakeStep
<1> QED
  BY <1>1, Invariance, PTL DEF Spec, OnlyOwnSessionTaken

-----------------------------------------------------------------------------
(* DbServer implements Connections                                         *)

LEMMA InitRefines == Init => Promise!Init
  BY DEF Init, Promise!Init, Sessions

LEMMA AcceptRefines == IInv /\ Accept => Promise!Next
<1> SUFFICES ASSUME IInv, Accept PROVE Promise!Next
  OBVIOUS
<1>1. running = "up" /\ UNCHANGED sock
  BY DEF Accept, Serve, table
<1>2. CASE running' = running
  <2>1. PICK incoming \in FreeFds : conns' = conns \cup {incoming}
    BY <1>1, <1>2 DEF Accept
  <2>2. incoming \in ConnFds /\ incoming \notin conns /\ incoming > 0
    BY DEF FreeFds, OpenFds, ConnFds
  <2>3. \A i \in Slots : sock[i] # incoming
    BY <1>1, <2>2 DEF IInv, SessionSockets
  <2>4. Sessions' = Sessions
    BY <1>1, <2>1, <2>3 DEF Sessions
  <2>5. Promise!Connect(incoming)
    BY <1>1, <1>2, <2>1, <2>2, <2>4 DEF Promise!Connect
  <2> QED
    BY <2>2, <2>5 DEF Promise!Next
<1>3. CASE running' # running
  <2>1. running' # "up" /\ UNCHANGED conns
    BY <1>1, <1>3 DEF Accept
  <2>2. Sessions' = Sessions \cap conns'
    BY <1>1, <2>1 DEF Sessions
  <2> QED
    BY <1>1, <2>1, <2>2 DEF Promise!Next, Promise!Stop
<1> QED
  BY <1>2, <1>3

\* Closing one connection, in a slot or not.
LEMMA CloseRefines ==
  ASSUME running = "up", running' = "up",
         NEW c \in ConnFds, c \in conns, conns' = conns \ {c},
         \A fd \in conns' : (\E i \in Slots : sock'[i] = fd) <=> (\E i \in Slots : sock[i] = fd)
  PROVE  Promise!Next
<1>1. Sessions' = Sessions \ {c}
  BY DEF Sessions
<1>2. Promise!Close(c)
  BY <1>1 DEF Promise!Close
<1> QED
  BY <1>2 DEF Promise!Next

LEMMA RemoveRefines ==
  ASSUME IInv, NEW i \in Slots, ServeClient(i), remove_client(i), UNCHANGED running
  PROVE  Promise!Next
<1>1. running = "up" /\ sock[i] \in ConnFds /\ sock[i] \in conns
  BY Served
<1>2. conns' = conns \ {sock[i]} /\ sock' = [sock EXCEPT ![i] = -1]
  BY DEF remove_client
<1>3. \A j \in Slots : sock'[j] = IF j = i THEN -1 ELSE sock[j]
  BY <1>2 DEF IInv, TypeOK
<1>4. \A fd \in conns' : fd # -1 /\ fd # sock[i]
  BY <1>2 DEF IInv, TypeOK, ConnFds
<1>5. \A fd \in conns' : (\E j \in Slots : sock'[j] = fd) <=> (\E j \in Slots : sock[j] = fd)
  BY <1>3, <1>4
<1> QED
  BY <1>1, <1>2, <1>5, CloseRefines

\* The overflow takes the next slot's session, if it has one.
LEMMA AwaitRefines ==
  ASSUME IInv, NEW i \in Slots, NEW n \in Names \cup {NoName},
         ServeClient(i), await_file(i, n), UNCHANGED <<running, conns>>
  PROVE  [Promise!Next]_Promise!vars
<1>1. running = "up"
  BY Served
<1>2. sock' = [sock EXCEPT ![i + 1] = 0]
  BY DEF await_file
<1>3. \A j \in Slots : sock'[j] = IF j = i + 1 THEN 0 ELSE sock[j]
  BY <1>2 DEF IInv, TypeOK
<1>4. 0 \notin conns
  BY DEF IInv, TypeOK, ConnFds
<1>5. CASE i + 1 \in Slots /\ sock[i + 1] \in conns
  <2>1. sock[i + 1] \in ConnFds /\ sock[i + 1] > 0
    BY <1>5 DEF IInv, TypeOK, ConnFds
  <2>2. \A j \in Slots : sock[j] = sock[i + 1] => j = i + 1
    BY <1>1, <1>5, <2>1 DEF IInv, SessionSockets
  <2>3. Sessions' = Sessions \ {sock[i + 1]}
    BY <1>3, <1>4, <1>5, <2>2 DEF Sessions
  <2>4. sock[i + 1] \in Sessions
    BY <1>5 DEF Sessions
  <2>5. Promise!Demote(sock[i + 1])
    BY <1>1, <2>3, <2>4 DEF Promise!Demote
  <2> QED
    BY <2>1, <2>5 DEF Promise!Next
<1>6. CASE ~(i + 1 \in Slots /\ sock[i + 1] \in conns)
  <2>1. Sessions' = Sessions
    BY <1>3, <1>4, <1>6 DEF Sessions
  <2> QED
    BY <2>1 DEF Promise!vars
<1> QED
  BY <1>5, <1>6

LEMMA ClientRefines ==
  ASSUME IInv, NEW i \in Slots, ClientStep(i)
  PROVE  [Promise!Next]_Promise!vars
<1> DEFINE Quiet == UNCHANGED <<running, conns, sock>>
<1>1. ASSUME Quiet PROVE [Promise!Next]_Promise!vars
  <2>1. Sessions' = Sessions
    BY <1>1 DEF Sessions
  <2> QED
    BY <1>1, <2>1 DEF Promise!vars
<1>2. CASE DropClient(i)
  BY <1>2, RemoveRefines DEF DropClient
<1>3. CASE \E n \in Names \cup {NoName} : SyncFile(i, n)
  <2>1. ServeClient(i) /\ UNCHANGED running
    BY <1>3 DEF SyncFile
  <2>2. \/ remove_client(i)
        \/ Quiet
        \/ \E n \in Names \cup {NoName} : await_file(i, n) /\ UNCHANGED conns
    BY <1>3 DEF SyncFile
  <2> QED
    BY <1>1, <2>1, <2>2, RemoveRefines, AwaitRefines
<1>4. CASE SyncEmpty(i) \/ RecvChunk(i)
  <2>1. Quiet
    BY <1>4 DEF SyncEmpty, RecvChunk, descriptors, table
  <2> QED
    BY <1>1, <2>1
<1>5. CASE WriteToResetPeer(i)
  <2>1. running = "up" /\ running' # "up" /\ UNCHANGED <<conns, sock>>
    BY <1>5, Served DEF WriteToResetPeer, descriptors, table
  <2>2. Sessions' = Sessions \cap conns'
    BY <2>1 DEF Sessions
  <2> QED
    BY <2>1, <2>2 DEF Promise!Next, Promise!Stop
<1> QED
  BY <1>2, <1>3, <1>4, <1>5 DEF ClientStep

LEMMA LoginRefines ==
  ASSUME IInv, NEW fd \in ready, NEW u \in UserIds, NEW d \in Dirs, Login(fd, u, d)
  PROVE  Promise!Next
<1>1. /\ running = "up" /\ running' = "up"
      /\ fd \in ConnFds /\ fd \in conns
      /\ \A i \in Slots : sock[i] # fd
  BY LoginServed DEF Login
<1>2. PICK i \in Slots : fill_slot(i, u, d, fd)
  BY DEF Login
<1>3. conns' = conns
  BY <1>2 DEF fill_slot
<1>4. \A j \in Slots : sock'[j] = IF j = i THEN fd ELSE sock[j]
  BY <1>2 DEF IInv, TypeOK, fill_slot
<1>5. fd \in conns \ Sessions
  BY <1>1 DEF Sessions
<1>6. CASE sock[i] \in conns
  <2>1. sock[i] \in Sessions
    BY <1>6 DEF Sessions
  <2>2. sock[i] > 0
    BY <1>6, SMTT(30) DEF IInv, TypeOK, ConnFds
  <2>3. \A j \in Slots : sock[j] = sock[i] => j = i
    BY <1>1, <2>2 DEF IInv, SessionSockets
  <2>4. Sessions' = (Sessions \ {sock[i]}) \cup {fd}
    BY <1>1, <1>3, <1>4, <2>3 DEF Sessions
  <2>5. Promise!LogIn(fd, {sock[i]})
    BY <1>1, <1>3, <1>5, <2>4 DEF Promise!LogIn
  <2> QED
    BY <1>1, <2>1, <2>5 DEF Promise!Next
<1>7. CASE sock[i] \notin conns
  <2>1. Sessions' = (Sessions \ {}) \cup {fd}
    BY <1>1, <1>3, <1>4, <1>7 DEF Sessions
  <2>2. Promise!LogIn(fd, {})
    BY <1>1, <1>3, <1>5, <2>1 DEF Promise!LogIn
  <2> QED
    BY <1>1, <2>2 DEF Promise!Next
<1> QED
  BY <1>6, <1>7

LEMMA StepRefines == IInv /\ [Next]_vars => [Promise!Next]_Promise!vars
<1> SUFFICES ASSUME IInv, [Next]_vars PROVE [Promise!Next]_Promise!vars
  OBVIOUS
<1>1. ASSUME UNCHANGED <<conns, sock>> PROVE Sessions' = Sessions
  BY <1>1 DEF Sessions
<1>2. ASSUME UNCHANGED <<running, conns, sock>> PROVE [Promise!Next]_Promise!vars
  BY <1>1, <1>2 DEF Promise!vars
<1>3. ASSUME running = "up", running' # "up", conns' \subseteq conns, UNCHANGED sock
      PROVE  Promise!Next
  <2>1. Sessions' = Sessions \cap conns'
    BY <1>3 DEF Sessions
  <2> QED
    BY <1>3, <2>1 DEF Promise!Next, Promise!Stop
<1>4. CASE Select
  BY <1>2, <1>3, <1>4 DEF Select, descriptors, table
<1>5. CASE Accept
  BY <1>5, AcceptRefines
<1>6. CASE Shutdown
  <2>1. running = "up" /\ running' # "up" /\ UNCHANGED sock
    BY <1>6 DEF Shutdown, Serve, table
  <2>2. conns' \subseteq conns
    BY <1>6 DEF Shutdown
  <2> QED
    BY <1>3, <2>1, <2>2
<1>7. CASE StdinAtEof
  BY <1>3, <1>7 DEF StdinAtEof, Serve, descriptors, table
<1>8. CASE \E i \in Slots : ClientStep(i)
  BY <1>8, ClientRefines
<1>9. ASSUME NEW fd \in ready, LoginStep(fd) PROVE [Promise!Next]_Promise!vars
  <2>1. CASE LoginReadError(fd)
    BY <1>2, <2>1 DEF LoginReadError, descriptors, table
  <2>2. CASE LoginShort(fd)
    <3>1. running = "up" /\ running' = "up" /\ fd \in ConnFds /\ fd \in conns
      BY <2>2, LoginServed DEF LoginShort
    <3>2. conns' = conns \ {fd} /\ UNCHANGED sock
      BY <2>2 DEF LoginShort, table
    <3> QED
      BY <3>1, <3>2, CloseRefines
  <2>3. CASE \E u \in UserIds, d \in Dirs : TooManyClients(fd, u, d)
    BY <1>2, <2>3 DEF TooManyClients, descriptors, table
  <2>4. CASE \E u \in UserIds, d \in Dirs : Login(fd, u, d)
    BY <2>4, LoginRefines
  <2> QED
    BY <1>9, <2>1, <2>2, <2>3, <2>4 DEF LoginStep
<1>10. CASE UNCHANGED vars
  BY <1>2, <1>10 DEF vars, descriptors, table
<1> QED
  BY <1>4, <1>5, <1>6, <1>7, <1>8, <1>9, <1>10 DEF Next

\* The server implements Connections: every service of a descriptor is one
\* step of the abstract server or invisible there.
THEOREM Implements == Spec => ImplementsPromise
<1>1. Init => Promise!Init
  BY InitRefines
<1>2. IInv /\ [Next]_vars => [Promise!Next]_Promise!vars
  BY StepRefines
<1> QED
  BY <1>1, <1>2, Invariance, PTL DEF Spec, ImplementsPromise, Promise!Spec
=============================================================================
