------------------------------ MODULE DbServer ------------------------------
(***************************************************************************)
(* The file synchronisation server of assignment04: the select loop of     *)
(* dbserver.c, its do_sync and sync_to_client, and the client table of     *)
(* filedata.c.                                                             *)
(*                                                                         *)
(* The server is one thread.  It blocks in select(), then serves every     *)
(* descriptor select() reported, from the highest number to the lowest,    *)
(* before it calls select() again; one action here is the service of one   *)
(* descriptor.  Operators named X_Fault are faulty forms of X, plausible   *)
(* mistakes in the code it models; no specification here uses them.        *)
(*                                                                         *)
(* Peers are not modelled: whatever a read or a write can return, it may   *)
(* return.  The contents of files and the bytes of a transfer are          *)
(* SyncSession's subject; here a received chunk either is or is not the    *)
(* last one of its file.                                                   *)
(* Names stand for names of at most 11 characters, which fit where the     *)
(* code stores them.                                                       *)
(***************************************************************************)
EXTENDS Integers, Sequences, FiniteSets

CONSTANTS MAXCLIENTS,       \* slots of the client table
          MAXFILES,         \* entries of a client's file list
          MaxFd,            \* the highest descriptor the process may open
          Users, Dirs, Names,           \* what peers put in their messages
          NoUser, NoDir, NoName         \* the empty strings

ASSUME SizeAssumption ==
  /\ MAXCLIENTS \in Nat \ {0}
  /\ MAXFILES \in Nat \ {0}
  /\ MaxFd \in Nat
  /\ MaxFd >= 3
ASSUME EmptyStringAssumption ==
  /\ NoUser \notin Users
  /\ NoDir \notin Dirs
  /\ NoName \notin Names

VARIABLES
  running,      \* "up", or how the process ended
  conns,        \* accepted sockets the process has not closed
  dirfds,       \* descriptors of directory streams left open by add_client
  dirs,         \* the directories that exist on the server
  master_set,   \* the descriptors select() is asked about ...
  nfds,         \* ... among those below nfds
  ready,        \* the part of read_set this pass of the loop has not reached
  userid, dirname, sock, state, files, file_in_transit,
                \* the client table, field by field: state is the field STATE,
                \* a reserved word here
  overrun       \* history: an upload has cleared master_set

table == <<userid, dirname, sock, state, files, file_in_transit>>
descriptors == <<conns, dirfds, master_set, nfds>>
vars == <<running, dirs, ready, descriptors, table, overrun>>

-----------------------------------------------------------------------------
(* Descriptors and the client table                                        *)

stdin == 0
listen_sock == 3            \* socket() is the first call that opens one
SYNC == 1
GETFILE == 2

Slots == 0 .. MAXCLIENTS - 1
UserIds == Users \cup {NoUser}

OpenFds == (0 .. listen_sock) \cup conns \cup dirfds
FreeFds == (0 .. MaxFd) \ OpenFds

\* The descriptors a connection can have.
ConnFds == (listen_sock + 1) .. MaxFd

\* The kernel hands out the lowest free descriptor.
Lowest(fd) == fd \in FreeFds /\ \A g \in FreeFds : fd <= g

\* The descriptors select() looks at.
Watched == {fd \in master_set : fd < nfds}

NfdsWith_OffByOne(incoming) == IF incoming > nfds THEN incoming + 1 ELSE nfds
NfdsWith(incoming) == IF incoming >= nfds THEN incoming + 1 ELSE nfds

\* find_client_by_socket(s) returns slot i.
Finds(s, i) ==
  /\ i \in Slots
  /\ sock[i] = s
  /\ \A j \in Slots : sock[j] = s => i <= j

\* What check_file leaves in a file list: the first entry that names n or is
\* empty becomes the entry of n.  The empty name matches an empty entry.
HasRoom(list, n) ==
  \/ \E k \in 1 .. Len(list) : list[k] = n
  \/ Len(list) < MAXFILES
check_file_AlwaysNew(list, n) == IF n = NoName THEN list ELSE Append(list, n)
check_file(list, n) ==
  IF n = NoName \/ \E k \in 1 .. Len(list) : list[k] = n
  THEN list
  ELSE Append(list, n)

\* The slots add_client stops at for a login of user u with directory d.
Takes_AnyOtherDir(i, u, d) == userid[i] = NoUser \/ dirname[i] # d
Takes(i, u, d) ==
  \/ userid[i] = NoUser
  \/ userid[i] = u /\ dirname[i] # d

-----------------------------------------------------------------------------
(* Initial state: listening, before the first select()                     *)

Init ==
  /\ running = "up"
  /\ conns = {}
  /\ dirfds = {}
  /\ dirs \in SUBSET Dirs
  /\ master_set = {stdin, listen_sock}
  /\ nfds = listen_sock + 1
  /\ ready = {}
  /\ userid = [i \in Slots |-> NoUser]
  /\ dirname = [i \in Slots |-> NoDir]
  /\ sock = [i \in Slots |-> -1]
  /\ state = [i \in Slots |-> 0]
  /\ files = [i \in Slots |-> <<>>]
  /\ file_in_transit = [i \in Slots |-> NoName]
  /\ overrun = FALSE

-----------------------------------------------------------------------------
(* The main loop                                                           *)

\* select() reports a nonempty set of watched descriptors.  It fails if a
\* watched one is not open, and Select then exits the process.
Select ==
  /\ running = "up"
  /\ ready = {}
  /\ \E R \in SUBSET Watched : R # {} /\ ready' = R
  /\ running' = IF Watched \subseteq OpenFds THEN "up" ELSE "exited"
  /\ UNCHANGED <<dirs, descriptors, table, overrun>>

\* The loop reaches fd: the highest descriptor of read_set not served yet.
Serve(fd) ==
  /\ running = "up"
  /\ fd \in ready
  /\ \A g \in ready : g <= fd
  /\ ready' = ready \ {fd}

\* A connection is accepted; without a free descriptor Accept exits.
Accept ==
  /\ Serve(listen_sock)
  /\ \/ \E incoming \in FreeFds :
          /\ Lowest(incoming)
          /\ conns' = conns \cup {incoming}
          /\ master_set' = master_set \cup {incoming}
          /\ nfds' = NfdsWith(incoming)
          /\ UNCHANGED running
     \/ /\ FreeFds = {}
        /\ running' = "exited"
        /\ UNCHANGED <<conns, master_set, nfds>>
  /\ UNCHANGED <<dirfds, dirs, table, overrun>>

\* A line arrives on stdin: every socket of master_set is closed and main
\* returns.
ClosedAtShutdown_OffByOne == {fd \in master_set : fd < nfds - 1}
ClosedAtShutdown == {fd \in master_set : fd < nfds}
Shutdown ==
  /\ Serve(stdin)
  /\ conns' = conns \ ClosedAtShutdown
  /\ running' = "shutdown"
  /\ UNCHANGED <<dirfds, dirs, master_set, nfds, table, overrun>>

\* stdin is at end of file: the loop that skips to the end of the line never
\* ends.
StdinAtEof ==
  /\ Serve(stdin)
  /\ running' = "spinning"
  /\ UNCHANGED <<dirs, descriptors, table, overrun>>

-----------------------------------------------------------------------------
(* Service of a logged in client                                           *)

\* The loop reaches the socket of slot i.  stdin and listen_sock are tested
\* before the table is searched.
ServeClient(i) ==
  /\ sock[i] \notin {stdin, listen_sock}
  /\ Serve(sock[i])
  /\ Finds(sock[i], i)

\* remove_client(&clients[i]).
remove_client_KeepSock(i) ==
  /\ master_set' = master_set \ {sock[i]}
  /\ conns' = conns \ {sock[i]}
  /\ UNCHANGED sock
remove_client(i) ==
  /\ master_set' = master_set \ {sock[i]}
  /\ conns' = conns \ {sock[i]}
  /\ sock' = [sock EXCEPT ![i] = -1]

\* The peer closed, a read was short or failed, the file list is full, the
\* file is not regular, its name is empty, or a write failed: do_sync or
\* recv_chunk returns an error, or state is neither SYNC nor GETFILE.
DropClient(i) ==
  /\ ServeClient(i)
  /\ remove_client(i)
  /\ UNCHANGED <<running, dirs, dirfds, nfds, userid, dirname, state, files,
                 file_in_transit, overrun>>

\* sync_to_client: an empty message is answered with an empty one.
SyncEmpty(i) ==
  /\ ServeClient(i)
  /\ state[i] = SYNC
  /\ UNCHANGED <<running, dirs, descriptors, table, overrun>>

\* The client's copy is newer: prepare to receive it.  file_in_transit has
\* MAXFILES bytes and strncpy writes MAXNAME, zero-filling the rest: 36 of
\* the bytes fall on sock and userid of the next slot, or past the table.
\* Compilers place master_set before the table or right behind it, where 20 of
\* the bytes fall on it (16 are padding): a bit for each of 160 descriptors.
Overrun == 0 .. 159
await_file(i, n) ==
  /\ state' = [state EXCEPT ![i] = GETFILE]
  /\ file_in_transit' = [file_in_transit EXCEPT ![i] = n]
  /\ sock' = [sock EXCEPT ![i + 1] = 0]
  /\ userid' = [userid EXCEPT ![i + 1] = NoUser]
  /\ \/ UNCHANGED <<master_set, overrun>>
     \/ /\ i + 1 \notin Slots
        /\ master_set' = master_set \ Overrun
        /\ overrun' = TRUE

\* A message about file n, with room for it in the list.  After the entry is
\* made the file may turn out irregular or a write may fail; the copies may
\* be equally old, or the server's newer and sent; or the client's is newer.
SyncFile(i, n) ==
  /\ ServeClient(i)
  /\ state[i] = SYNC
  /\ HasRoom(files[i], n)
  /\ files' = [files EXCEPT ![i] = check_file(@, n)]
  /\ \/ /\ remove_client(i)
        /\ UNCHANGED <<userid, state, file_in_transit, overrun>>
     \/ UNCHANGED <<conns, master_set, userid, sock, state, file_in_transit, overrun>>
     \/ /\ await_file(i, n)
        /\ UNCHANGED conns
  /\ UNCHANGED <<running, dirs, dirfds, nfds, dirname>>

\* A reply or a chunk of a file is written to a connection its peer has
\* reset: SIGPIPE, which the server neither handles nor ignores.
WriteToResetPeer(i) ==
  /\ ServeClient(i)
  /\ state[i] = SYNC
  /\ running' = "killed"
  /\ UNCHANGED <<dirs, descriptors, table, overrun>>

\* recv_chunk appends a chunk; after the last one the client syncs again.
RecvChunk(i) ==
  /\ ServeClient(i)
  /\ state[i] = GETFILE
  /\ state' \in {state, [state EXCEPT ![i] = SYNC]}
  /\ UNCHANGED <<running, dirs, descriptors, userid, dirname, sock, files,
                 file_in_transit, overrun>>

-----------------------------------------------------------------------------
(* Service of a connection that is not in the table: a login               *)

ServeLogin(fd) ==
  /\ fd \notin {stdin, listen_sock}
  /\ Serve(fd)
  /\ \A i \in Slots : sock[i] # fd

\* read() fails: the connection is kept.
LoginReadError(fd) ==
  /\ ServeLogin(fd)
  /\ UNCHANGED <<running, dirs, descriptors, table, overrun>>

\* Less than a login message arrived, or the peer closed.
LoginShort(fd) ==
  /\ ServeLogin(fd)
  /\ master_set' = master_set \ {fd}
  /\ conns' = conns \ {fd}
  /\ UNCHANGED <<running, dirs, dirfds, nfds, table, overrun>>

\* add_client runs off the end of the table.
TooManyClients(fd, u, d) ==
  /\ ServeLogin(fd)
  /\ \A i \in Slots : ~Takes(i, u, d)
  /\ UNCHANGED <<running, dirs, descriptors, table, overrun>>

\* add_client fills slot i for user u on connection fd.
fill_slot_NoState(i, u, d, fd) ==
  /\ userid' = [userid EXCEPT ![i] = u]
  /\ dirname' = [dirname EXCEPT ![i] = d]
  /\ files' = [files EXCEPT ![i] = <<>>]
  /\ sock' = [sock EXCEPT ![i] = fd]
  /\ UNCHANGED <<state, conns, master_set>>
fill_slot_KeepState(i, u, d, fd) ==
  /\ userid' = [userid EXCEPT ![i] = u]
  /\ dirname' = [dirname EXCEPT ![i] = d]
  /\ files' = [files EXCEPT ![i] = <<>>]
  /\ sock' = [sock EXCEPT ![i] = fd]
  /\ state' = [state EXCEPT ![i] = IF @ = 0 THEN SYNC ELSE @]
  /\ UNCHANGED <<conns, master_set>>
fill_slot_ClosingOld(i, u, d, fd) ==
  /\ userid' = [userid EXCEPT ![i] = u]
  /\ dirname' = [dirname EXCEPT ![i] = d]
  /\ files' = [files EXCEPT ![i] = <<>>]
  /\ sock' = [sock EXCEPT ![i] = fd]
  /\ state' = [state EXCEPT ![i] = SYNC]
  /\ conns' = conns \ {sock[i]}
  /\ master_set' = master_set \ {sock[i]}
fill_slot(i, u, d, fd) ==
  /\ userid' = [userid EXCEPT ![i] = u]
  /\ dirname' = [dirname EXCEPT ![i] = d]
  /\ files' = [files EXCEPT ![i] = <<>>]
  /\ sock' = [sock EXCEPT ![i] = fd]
  /\ state' = [state EXCEPT ![i] = SYNC]
  /\ UNCHANGED <<conns, master_set>>

\* The test that d exists: opendir succeeds and its stream is never closed;
\* or mkdir creates d; or neither works, and the client stays logged in.
ensure_dir(d) ==
  \/ /\ d \in dirs
     /\ \E fd \in FreeFds : Lowest(fd) /\ dirfds' = dirfds \cup {fd}
     /\ UNCHANGED dirs
  \/ /\ d \notin dirs
     /\ dirs' = dirs \cup {d}
     /\ UNCHANGED dirfds
  \/ UNCHANGED <<dirs, dirfds>>

Login(fd, u, d) ==
  /\ ServeLogin(fd)
  /\ \E i \in Slots :
       /\ Takes(i, u, d)
       /\ \A j \in Slots : Takes(j, u, d) => i <= j
       /\ fill_slot(i, u, d, fd)
  /\ ensure_dir(d)
  /\ UNCHANGED <<running, nfds, file_in_transit, overrun>>

-----------------------------------------------------------------------------
ClientStep(i) ==
  \/ DropClient(i)
  \/ SyncEmpty(i)
  \/ \E n \in Names \cup {NoName} : SyncFile(i, n)
  \/ WriteToResetPeer(i)
  \/ RecvChunk(i)

LoginStep(fd) ==
  \/ LoginReadError(fd)
  \/ LoginShort(fd)
  \/ \E u \in UserIds, d \in Dirs : TooManyClients(fd, u, d) \/ Login(fd, u, d)

Next ==
  \/ Select
  \/ Accept
  \/ Shutdown
  \/ StdinAtEof
  \/ \E i \in Slots : ClientStep(i)
  \/ \E fd \in ready : LoginStep(fd)

Spec == Init /\ [][Next]_vars

-----------------------------------------------------------------------------
(* Correctness                                                             *)

FileLists == {list \in Seq(Names) : Len(list) <= MAXFILES}

\* Type invariant: every variable stays in the set the program keeps it in;
\* a socket field is a connection's descriptor, -1, or the 0 left by an
\* overflow of the slot before it.
TypeOK ==
  /\ running \in {"up", "shutdown", "exited", "killed", "spinning"}
  /\ conns \subseteq ConnFds
  /\ dirfds \subseteq ConnFds
  /\ dirs \subseteq Dirs
  /\ master_set \subseteq 0 .. MaxFd
  /\ nfds \in (listen_sock + 1) .. (MaxFd + 1)
  /\ ready \subseteq 0 .. MaxFd
  /\ userid \in [Slots -> UserIds]
  /\ dirname \in [Slots -> Dirs \cup {NoDir}]
  /\ sock \in [Slots -> {-1, 0} \cup ConnFds]
  /\ state \in [Slots -> {0, SYNC, GETFILE}]
  /\ files \in [Slots -> FileLists]
  /\ file_in_transit \in [Slots -> Names \cup {NoName}]
  /\ overrun \in BOOLEAN

\* While the server runs, every socket the table holds is an open connection,
\* and no two slots hold the same one: find_client_by_socket never finds a client that a reused
\* descriptor number no longer belongs to (filedata.c:148, remove_client).
SessionSockets ==
  running = "up" =>
    \A i \in Slots : sock[i] > 0 =>
      /\ sock[i] \in conns
      /\ \A j \in Slots : sock[j] = sock[i] => j = i

\* A client found by its socket is in state SYNC or GETFILE: the "Invalid
\* client state!" branch of the main loop is never taken (dbserver.c:157).
NoInvalidState == \A i \in Slots : sock[i] > 0 => state[i] \in {SYNC, GETFILE}

\* The file a client's chunks are written to is one it has announced since it
\* logged in, in the directory it logged in with, or has the empty name: no
\* login inherits the upload of the slot's last session (filedata.c:60-75,88,
\* dbserver.c:137).
UploadAnnounced ==
  \A i \in Slots : state[i] = GETFILE /\ file_in_transit[i] # NoName =>
    \E k \in 1 .. Len(files[i]) : files[i][k] = file_in_transit[i]

\* While the server runs, every descriptor in master_set is open and below
\* nfds: none is asked about after its close.  As long as no upload of the last
\* slot's client has cleared the set, all open connections and the two standing
\* descriptors are in it: select() forgets none (dbserver.c:96-99, 177, 268).
EveryConnectionWatched ==
  running = "up" =>
    /\ Watched = master_set
    /\ master_set \subseteq conns \cup {stdin, listen_sock}
    /\ ~overrun => conns \cup {stdin, listen_sock} \subseteq master_set

\* Serving one descriptor never closes another one that select() reported
\* and the loop has still to serve, so that its number cannot meanwhile stand
\* for something else (dbserver.c:80-82).
ReadyStillOpen ==
  running = "up" => ready \subseteq conns \cup {stdin, listen_sock}

\* After a shutdown no connection is left open, unless the set of those to
\* close was cleared in the pass that shut the server down (dbserver.c:106-112,
\* 268).
ShutdownClosesAll == running = "shutdown" /\ ~overrun => conns = {}

\* A login that takes a connection's session takes it from its own user, or
\* from one that logged in with an empty name (filedata.c:57-75).
OnlyOwnSessionTaken ==
  [][\A i \in Slots :
       /\ sock[i] \in conns \cap conns'
       /\ sock'[i] \in conns'
       /\ sock'[i] # sock[i]
       => userid[i] \in {NoUser, userid'[i]}]_vars

\* The connections that find_client_by_socket finds.
Sessions == {fd \in conns : \E i \in Slots : sock[i] = fd}

\* What the server promises about its connections.
Promise == INSTANCE Connections WITH
  Fds <- ConnFds,
  up <- running = "up",
  open <- conns,
  session <- Sessions

\* The server implements Connections: no service of one descriptor closes more
\* than one connection or takes the session of more than one.
ImplementsPromise == Promise!Spec

-----------------------------------------------------------------------------
(* What the comments say and the code does not do                          *)

\* "Client info remains in clients array (it will get updated next time
\* client logs in)" (filedata.c:111-112): no slot loses its user.
ClientInfoRemains ==
  [][\A i \in Slots : userid[i] # NoUser => userid'[i] # NoUser]_vars

\* "If the client is already in the array, update" (filedata.c:49): a user
\* with a directory has one slot.
OneEntryPerClient ==
  \A i, j \in Slots :
    userid[i] # NoUser /\ userid[i] = userid[j] /\ dirname[i] = dirname[j] => i = j
=============================================================================
