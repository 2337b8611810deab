# Verification of CSC209_assignments

TLA+ specifications of the programs in this repository, the TLC configurations
that check them on small instances, and proofs of the results that matter most
for every value of the constants.

The repository is the course work of a systems programming course: eleven
programs, of which the file synchronisation system of `assignment04` is by far
the most intricate (a `select` server, a client table, a transfer protocol over
TCP). It is modelled first; then come the programs with several processes or
signals (`assignment03`, `lab07`, `lab08`, `lab09`) and the list of
`assignment02`.

## 1. Inventory

| Component | State | Operations | What makes it correct |
|---|---|---|---|
| **File sync server** (`assignment04/dbserver.c`, `filedata.c`) | descriptor set `master_set`, `nfds`, the pass's `read_set`; table `clients[MAXCLIENTS]` of user, directory, socket, STATE, file list, file in transit | select, accept, login (`add_client`), sync message (`do_sync`, `sync_to_client`), chunk (`recv_chunk`), logout (`remove_client`), shutdown | a slot's socket is an open connection and nobody else's; select watches nothing closed and forgets no connection; chunks go only to files the session announced; a pass never closes what it has still to serve; no session is taken by a stranger |
| **File sync session** (`dbclient.c`, `filesync.c`, server handlers) | both directories, both TCP streams, both clocks, the client's place in its loop, STATE, `file_in_transit`, `bytes_left` | round over the directory, `send_file`, `recv_chunk`, poll with an empty message, crash and restart | messages and contents are never confused; a finished round leaves equal copies; rounds end; dead clients are dropped |
| **Shell** (`assignment03`) | the command tree, children, pipe descriptors, working directory | built-ins, redirection, recursive pipelines, `wait` | every pipeline ends; no process keeps a pipe end it does not use; every wait finds a child; only `exit` or a status 255 in a pipeline ends the shell |
| **Child reaping** (`lab09/sigchld.c`) | `numkids`, zombies, one pending bit for SIGCHLD | fork, exit, handler | the busy loop is left only when every child was reaped, and is left if they end one at a time; `wait` never fails |
| **Line buffering server** (`lab07`) | 30 byte buffer, `inbuf`, `room` | read, find newline, print and shift | lines come out whole, in order, all of them; nobody is cut off; leftovers in the buffer are never taken for input |
| **Countdown game** (`lab08`) | `counter`, in flight values, the client's `buf` | tick on timeout, reset by the client | explodes unless stopped; the client sees every count and the 0; both end |
| **Password check** (`lab06`) | two processes, a pipe, an exit status | fork, exec, two writes, two reads | the verdict is that of the pair given |
| **Team list** (`assignment02/part02`) | linked list of players, list of copies | insert, delete, find, print | ordered by position, family names unique, no node lost, shared or freed twice |
| **Pure algorithms** (`encrypt.c`, `bits.c`, `list.c`, `arrays.c`) | none | Caesar shift, byte swap, parity, reversal | equal to their reference definitions |
| **Guessing game and scripts** (`assignment01`, `lab01`, `practice`) | guesses used | guess | at most six guesses |
| **Drawing and overflow exercises** (`lab03`, `lab02/overflow.c`) | none | print | not modelled: printed text and a deliberate overrun |

**How they interact.** The sync client and server share nothing but a TCP
connection. The client speaks first: a login, then rounds of one sync message
per file of its directory and an empty one to end with. The server answers each
with one sync message; whichever side has the newer copy then sends the bare
bytes of the file, in chunks of at most `CHUNKSIZE`, with no framing of its own:
only the size in the message says where the file ends. The server serves all
its clients from one thread, one ready descriptor at a time, so what happens
between two `select` calls is a sequence of handlers that share the table. The
other programs talk over pipes (shell, password check), signals (child reaping)
or a socket (lab07, lab08), and none of them uses another one.

**What is hard.** Several descriptors are served per pass, and a handler may
close one, hand its number to the next connection, or write into a neighbour's
slot or past the table. Reads do not respect the writer's boundaries. Peers vanish in the middle of
a transfer. Modification times are seconds of each machine's clock. Each hazard
is listed with its line in `PROJECT.json`.

## 2. Modules and plan

| Module | What it is | Status |
|---|---|---|
| `Connections` | abstract: what the server promises about connections and sessions | done |
| `DbServer` | the server, one action per handler; implements `Connections` | done |
| `DbServer_proofs` | every invariant and the refinement, for all constants | done |
| `SyncSession` | one client, its session and their streams | done, to be extended |
| `SyncSession_streams` | lemmas on what a stream of messages and chunks carries | done |
| `SyncSession_proofs` | its four invariants, for all constants | done |
| `MC*` | instances for TLC | done |
| `Shell` | the shell's loop, its pipelines as processes with pipe ends | done |
| `Shell_proofs` | its four invariants, for pipelines of any length | done |
| `BufServer` | the buffer, byte by byte, with its clients | done |
| `BufServer_proofs` | its four invariants and its step property, for any sizes | done |
| `Countdown` | server and client, timeout against reset, 16 bit conversion | done |
| `Countdown_proofs` | its types, the last number, the order of numbers, for all constants | done |
| `SigChld` | merging signals against `numkids` | done |
| `SigChld_proofs` | its invariants, for any number of children | done |
| `Team` | abstract: a roster | done |
| `TeamList` | the linked list on a heap; implements `Team` | done |
| `TeamList_proofs` | its invariants and the refinement, for a heap of any size | done |
| `CheckPasswd` | pipe writes, exec, exit status | later |
| `Algorithms` | shift, swap, reversal against reference definitions | later |

Order: the server, whose table every client depends on; the session; then the
programs with concurrency, then the sequential ones. The programs share
nothing, so only `DbServer` with `Connections` and `TeamList` with `Team` are
put together. Section 11 says what is proved of each: every invariant and step
property that a run checks. `SyncSession` is to gain a second client on one
directory, and edits of a file that is just being read.

Faulty forms of a definition `X` are named `X_Fault` and stand before it
(`NfdsWith_OffByOne`): plausible mistakes in the code `X` models. No
specification uses them; replacing `X` by one shows which property notices.

## 3. The server: `DbServer`

**State.** `conns` are the accepted sockets not closed; `dirfds` the directory
streams `add_client` opens and never closes, which use up descriptor numbers;
`ready` is what is left of `read_set` in this pass; the table is a function per
field of `client_info` (`state` is the field STATE, a reserved word of TLA+).
Descriptor 0 is stdin, 3 is `listen_sock`, and the kernel gives out the lowest
free number, so that numbers are reused at once, as they are in the program.

**Actions.** The loop of `main` tests stdin first, then `listen_sock`, then
`find_client_by_socket`, then treats the rest as logins; `Serve` makes it go
from the highest ready descriptor down.

| Action | Code |
|---|---|
| `Select` | `dbserver.c` 65-72; fails, and exits, on a descriptor that is not open |
| `Accept` | 89-100 |
| `Shutdown`, `StdinAtEof` | 101-115 |
| `DropClient` | every path to `remove_client` (120-161) |
| `SyncEmpty`, `SyncFile`, `WriteToResetPeer` | `do_sync`, `sync_to_client` (204-302) |
| `RecvChunk` | 134-156 |
| `LoginReadError`, `LoginShort`, `TooManyClients`, `Login` | 163-192 and `add_client` (`filedata.c` 55-104) |

Peers are not modelled: any read or write may have any outcome. `await_file` is
the one place where C's memory layout enters: `strncpy` into `file_in_transit`
writes MAXNAME (64) bytes into MAXFILES (10), and the rest falls on what is behind
it. For all slots but the last that is the next slot, whose `sock` and `userid` it
zeroes (`sizeof` and offsets from `filedata.h` 14-23). For the last slot it is what
the linker put behind `clients`, and builds differ there:

| Build | Behind `clients` |
|---|---|
| gcc 12 without optimisation (`Makefile`: `-g -Wall`) | 16 bytes of padding, then `master_set`: 20 of the 36 bytes clear the bits of descriptors 0 to 159 |
| gcc 12 with `-O2`, or with `-fcommon` | `master_set` comes before the table: no variable is hit |
| the executable in the repository, `dbserver` | the same |

So `await_file` chooses: the overflow of the last slot clears `master_set` (and
`overrun` records it) or leaves everything alone. After a clearing, `select` no
longer looks at stdin, the listening socket or any connection; only what the
present pass has already reported is still served.

`Connections` says the same with two sets, the open connections and those that
hold a session. Its steps allow a login to displace at most one session, leave
the displaced connection open, and close at most one connection; that it is
the one being served is what `ReadyStillOpen` adds. The overflow into the next slot
is a `Demote`, a session that ends while its connection stays open.

**Run `dbserver`.** Two slots, enough for a slot with a neighbour to overwrite and
a last one, for a full table and for a user who holds two; descriptors up to 6,
so that three connections, more than there are slots, compete with directory
streams for three numbers; a user and the empty one, each of whom can be the
stranger to the other's session; two directories, without which nobody takes over
his own session; one file, and lists of one entry (that longer lists stay within
`MAXFILES` is part of the theorem `TypeCorrect`). Directories are symmetric: the
properties name none of them. It checks:

- `SessionSockets`, `NoInvalidState`: the table never names a closed or a
  shared socket, and the branch "Invalid client state!" is dead code;
- `ReadyStillOpen`: no service closes what the pass has still to serve;
- `EveryConnectionWatched`, `ShutdownClosesAll`: through accepts, logouts, reuse
  of numbers and shutdown, no closed descriptor stays in `master_set`, and none
  that is open gets lost from it, except by the overflow of the last slot;
- `OnlyOwnSessionTaken`: only a user's own login, or one after an empty user
  name, takes over a connection's slot;
- `UploadAnnounced`: a session's chunks go to a file it has announced since its
  login, although a login that takes over a slot in the middle of an upload leaves
  `file_in_transit` as it was;
- `ImplementsPromise`: the server implements `Connections`.

Deadlock is not checked: the server ends on purpose (`running`).

**Violations.** Two runs check what a comment says and the code does not do:
`dbserver_overflow` (a slot loses its user to its neighbour's upload) and
`dbserver_duplicate` (the same user and directory twice). Two more disagreements
are part of the model but have no run of their own: a peer that resets its
connection ends the server (`WriteToResetPeer`: nothing handles SIGPIPE, though
`filesync.c` 102 promises -2 for a closed socket), and an upload from the last slot
may empty the "set of all sockets connected to server" (`filedata.c` 13). The
properties hold with both: where the second matters, they say so (`overrun`).

## 4. The session: `SyncSession`

**State.** A stream has segments on the wire, one per `write`, and units in the
reader's buffer. A sync message is three units, its fields; a file is one per
element of its contents, which tell the edit that wrote it. On a `"prompt"`
network a segment arrives when the buffer is empty; on a `"merging"` one
segments pile up and a `read` takes as many units as it asks for: `CHUNKSIZE`
of them when a file is awaited. Segments are not split: messages are far smaller
than a TCP segment, and a chunk is no larger than one on the local networks the
program was run on.

`pc` is the place of `dbclient`'s main loop (`asleep`, `scan`, `reply`, `send`,
`recv`, `poll`); `server` is the slot's STATE, or `closed` or `killed`. Each machine
has a clock of its own, `cclock` and `sclock`, and stamps what it writes by it; they
differ by at most `MaxSkew`, in either direction. `fresh`, `edited`, `skipped` and
`patched` are history: whether a round just ended, which files were edited since
their announcement in it, which ones it found equally old, and which ones it wrote
over contents longer than the first chunk of the new ones.

**Actions.** The client's (`StartRound`, `SendSync`, `ReadReply`, `SendChunk`,
`ClientRecv`, `ReadPollReply`, `ServerGone`) are the steps of `dbclient.c` 88-197
between two blocking calls; the server's (`DoSync`, `CreateEmpty`, `ServerRecv`,
`ReadEof`) are what one pass of its loop does for this client, with `send_file`
inside `DoSync` because the server blocks in it. `Edit`, `Tick`, `Deliver`,
`Crash` and `Restart` are the environment. Users edit files on both machines at
any time, also in the middle of a round and of an upload: only a file the client
has announced and has still to read does not change, nor does the server's copy in
the middle of `do_sync` (section 12). A crash may lose what is on the wire
or not. `size_t` counts modulo `SizeMod`. Without `O_TRUNC` a file can grow at
every transfer; `Countable` bounds the model to files whose size still is a
`size_t`, as those on a disk are.

**Run `sync_session`.** Two files, sizes 0, 2 and 6 with chunks of 5 (an empty
file, one shorter than a chunk, one of two chunks), two edits on either side in
either order and at any moment, two seconds, one crash with a restart, both
networks. It checks:

- `Framed`: whoever is about to read a message finds one, even when segments
  merge: a merged read that could leave a reader in the middle of a
  message ends the session instead;
- `RoundAgrees`: after a round the copies of the client's files are equal, except
  those `edited`, `skipped` or `patched`;
- `LiveClientKept`: on a prompt network only clients that have gone are dropped;
- `RoundEnds` (liveness): on a prompt network a round that starts ends;
- `GoneClientDropped` (liveness): a dead client's session is dropped in whatever
  state it was.

The clocks of this run are equal (`MaxSkew` 0). With clocks apart the two copies of
a file are sent back and forth in every round, each younger than the one it was
made from, and a file of two chunks grows every time until `Countable` stops the
transfer: `RoundEnds` would fail by a wait that only the bound causes. The first
four properties are theorems for clocks any number of seconds apart (section 11),
and the two violations below are found with clocks one second apart.

**Fairness.** Weak fairness of the client's steps, of the server's and of
delivery: each program is a loop that blocks only in `read` or `select`, and TCP
delivers what was sent while both ends are up. Users, the clocks, crashes and
restarts promise nothing. `RoundEnds` is claimed of the prompt network only:
on the merging one `sync_merging` shows how both sides come to wait for ever.

**Violations.** `sync_merging`: a client sends a file of 2 units and at once a
message of 3, the server reads all 5 as a full chunk, writes the message into
the file and `bytes_left` wraps around; the server then waits for the rest of a
file, the client for a reply. `sync_overwrite`: without `O_TRUNC` the end of the
old contents survives, and since later chunks append, a two-chunk file lands
behind them. Both use sizes that bring the case about.

**An edit that gets lost.** `dbclient.c` 130-131 takes the server's copy for newer
when its modification time is later. But that time is the second in which the
server wrote its last chunk, by the server's clock. If a client's file is edited
again while the server is still to write what the client sent, or the
clocks differ, older contents carry the later time, and the next round replaces
the edit by them. The model has these behaviours (`Edit` during a round, two clocks), so
no property says that the contents received are the newer ones: `RoundAgrees`
only says that the two copies end up equal.

## 5. The shell: `Shell`

**State.** `proc` gives each process (0 is the shell) its place in the code,
its parent, its command, stdin and stdout (a pipe, or 0 for the terminal or a
file), the other pipe ends it holds, the waits it has to do and its exit status.
A line is a sequence of kinds of segments: built-ins, programs that end, read
to the end of their input or write for ever, a redirection to a file, a
redirection without one, nothing. `fork` copies all of it, so a child starts
with every pipe end of its parent.

**Actions.**

| Action | Code |
|---|---|
| `ReadLine`, `ReadEof`, `Obey` | the loop of `main` (`shell.c` 41-77) and `construct_command` (`parser.c` 128-182) |
| `ChangeDir`, `Exit`, `RunNull` | 284-295, 340 on a NULL command |
| `ForkProgram`, `ProgramFails` | 304-312, `execute_nonbuiltin`, `execute_command` |
| `MakePipe`, `ForkLeft`, `ForkRight`, `ConnectLeft`, `ConnectRight`, `CloseEnds` | 358-452 |
| `CallFails` | the early returns 305, 359, 370, 407 |
| `Reap`, `ReapLast` | the waits 315 and 455-468, then the caller's use of the result |
| `ProgramExits`, `InputEnds`, `TerminalEnds`, `BrokenPipe` | the programs and the kernel's pipes |

`parser.c` initialises neither `in`, `out` nor `err` of a simple command. Fresh
memory is zero; a block that `release_command` has freed (the token array of a
command with a redirection) is not. `recycled` and `garbage` model that: a later
command may then find its redirections to be garbage, fail, and have an
address freed that was never allocated.

**Run `shell`.** Every kind alone; pairs and triples that put an endless writer,
a filter, a built-in, a bad redirection or nothing on either side; one failing
call of `fork` or `pipe` at any point, with one more line after it (from
`LaterLines`, among them a pipeline), which meets the child left behind. Nine
processes and three pipes are more than any of this needs. It checks:

- `OnlyOwnEnds`: in every order of closes and forks, whoever runs or waits holds
  no pipe end except its own stdin and stdout;
- `ChildrenAccounted`: each `wait` has a child to wait for, even the child a
  failed fork left behind, and the prompt comes back without processes or
  descriptors left;
- `EndsOnlyIfAsked`: status 255 travels up through nested pipelines and ends the
  shell only if an executed `exit` or a program of this pipeline was its origin; a
  program on a line of its own cannot end it, whatever its status;
- `EveryLineEnds` (liveness): a line whose programs can end gives the prompt back.

Fairness: `Step`, the disjunction of everything processes do on their own,
is weakly fair: an operating system runs some process that can run, and a line
has finitely many such steps. Failures and users promise nothing. Deadlock is
not checked: the shell ends, and programs at the terminal may wait for ever.

**Violation.** `shell_exit_in_pipe`: the comment on lines 336-337 says that built-ins
in a piped context are ignored; line 341 executes them, and `cd | exit` ends the
shell (`BuiltinsIgnored`).

## 6. The line server: `BufServer`

**State.** `buf` byte by byte with the two bytes behind it that
`find_network_newline` may look at, `inbuf`, the wire, what the client has still
to write, and the lines printed. `buf` is an uninitialised local variable and
keeps its bytes from one connection to the next, as it does in the program.

**Actions.** `Accept`, `ReadBytes`, `CloseConnection` are the loops of
`bufserver.c` 80-135; `WritePiece` is `randclient.c`'s write of a few
bytes at a time, independent of lines; `ClientCloses` and `ConnectionReset` may come at
any moment, also in the middle of a line.

**Run `bufserver`.** A buffer of 7 bytes, three lines of 4 bytes or, from other
clients, of 2 and 9 (the shortest, and one that does not fit), two connections,
one possible dirty byte. It checks:

- `PrintedInOrder`: lines come out whole, once and in order, however they were
  cut up, from any client and with any leftovers;
- `NoLineWaits`, `EachLinePrinted`: one line per read is enough for
  `randclient`, because two of its lines do not fit the buffer
  (`CAP < 2 * MESSAGE`): when one has been printed, what is left is less than a line;
- `ClosedEarlyOnlyForLongLine`: the buffer fills up, and `read` with no room
  returns 0, only when a line is longer than it;
- `CalmNeverCrashes`: the search, which tests `buf[i+1]` before it looks at
  `inbuf`, never finds a newline that was not sent, if its client is
  `randclient` and no connection ended between CR and LF (`clean`).

That last condition is needed. A client that dies after a CR leaves it in the
buffer; the next connection's first bytes can then complete a newline beyond
`inbuf`, `inbuf` becomes negative, and `memmove` gets a huge count. So can a
CR or LF that the memory happened to hold. Only the bytes one past the end
matter: the comment on lines 46-48 asks to search the first `inbuf` bytes.

Fairness: the server's `Read` and `CloseConnection`, which a blocking `read`
returns from as soon as it can. Clients promise nothing.

## 7. The count-down: `Countdown`

**State and actions.** Both loops: `Tick`, `Reset`, `ClientGone` are the server
(`countdown.c` 49-87); `Select`, `ReadLine`, `ReadEof`, `ShowNumber`,
`ServerGone` the client (`client.c` 51-120), which handles stdin before the
socket. Numbers travel as `htons` and `ntohs` make them, in two of an int's four
bytes. A process that ends with unread numbers resets the connection, which
may lose what is on its way (`broken`).

**Run `countdown`.** Bytes of four values, so that 16 stands for 65536, a start
of 5, the inputs -1, 0, 2 and 6, two lines typed, two numbers on the wire in
each direction. It checks:

- `ShownFollows`: whenever the client shows a number, it is one less than the last
  one shown or than one asked for, whatever ticks and resets crossed; a number
  shown again counts as a violation unless it was asked for;
- `LastShownIsZero`: a client not cut off has shown the 0 when it finds the
  server gone;
- `Explodes`, `BothEnd` (liveness), with the exceptions the run showed to be
  needed: a number whose lower 16 bits are 0 stops the count for ever; and at
  the end of stdin the client parses its old buffer in every pass: with a number
  in it the client resets the server again and again, without one it never
  gets to its socket.

Fairness: the time-out comes, both processes run, and strong fairness of
`Select` for the socket: what was written arrives, so `select` reports it
although stdin may be ready each time as well.

## 8. Children and signals: `SigChld`

**State and actions.** One pending bit stands for SIGCHLD, which is blocked while
its handler runs. `Fork`, `AllForked`, `LeaveLoop` are `main` (`sigchld.c` 73-94),
`Deliver`, `Wait`, `WaitFails`, `Count` the handler (11-28); children exit, are
killed, stop and go on at any time. `paced` behaviours are those the children's
sleeps intend: one ends after the one before was dealt with.

**Run `sigchld`.** Four children (so that deaths merge in every way while the
fork loop runs and after it) and two stops. `DoneMeansReaped`: the busy loop is
left only after all children exited and were reaped. `HandlerFindsZombie`:
while none is stopped, `wait` neither blocks nor fails. `EndsWhenPaced`: the loop
is left if the children end one at a time, also while the fork loop still runs. It
says nothing of behaviours that are not paced: two deaths that merge into one
signal leave `numkids` above 0 for ever, and no property here would notice if
that got worse; `DoneMeansReaped` only says that the loop is then not left early.

Fairness: the process is scheduled, signals are delivered, and sleeping
children wake up.

## 9. The team: `TeamList` and `Team`

**State and actions.** A heap of `Nodes` with `data` and `next`, the head of the
team, and, while `search_by_value` runs, the list of copies. Every command of
the menu is an action; the search is one per iteration (`CopyPlayer`,
`SkipPlayer`, `InsertNull`, `PrintResult`), since any of its allocations may
fail, which nobody checks. `Team` is the same without a list: a sequence of
players; `Those` selects from it, in its order; `shown` is what the last query printed.

**Run `team`.** Three names, all four positions, two values, five nodes (a team
of three with copies, and one too large to copy). `EveryNodeOnOneList`: nothing
leaks, dangles or is shared between the team and the copies. `ListsInOrder`: positions
in order, names unique. `ImplementsTeam`: the list implements `Team`, so every
query prints what it should, in the order it should. Nodes are symmetric: they
are addresses, which the program compares only for equality.

## 10. Bounds

`MAXCLIENTS`, `MAXFILES`, `MaxFd`, `CHUNKSIZE` are constants of the code scaled
down (10, 10, the descriptor limit, 256 there); the proofs hold for all of them.
`SizeMod` stands for 2^w and only has to exceed every size and a chunk;
`Countable` cuts off only behaviours in which overwriting has made a file that long.
`MaxClock`, `MaxSkew`, `MaxEdits` and `MaxCrashes` bound what the environment may
do: two edits and two seconds give every order of two copies, one crash at any point
of a transfer gives every partial state.

In the other modules `CAP`, `MESSAGE`, `TIMES` and the pieces (30, 18, 5 and 3 to 7
in `bufserver.c` and `randclient.c`), `Byte` and `START` (256 and 10) are scaled down
in the same proportions: a line fits the buffer, two do not; the start is below
2^16. `MaxConnections`, `MaxTyped`, `MaxWire`, `MaxStops`, `MaxFails`, `MaxLater`
bound the environment: the second connection is the first with leftovers,
a second typed line the first whose number crosses another's ticks, the
line after a failure the first that meets what it left behind. `MaxPid`,
`MaxPipe` and `Nodes` are the kernel's and the heap's supply; running out of nodes is
a case of the run, of processes and pipes is not: there `CallFails` stands for it.

## 11. What is proved

`DbServer_proofs` proves for every `MAXCLIENTS`, `MAXFILES` > 0 and `MaxFd` >= 3
(`SizeAssumption`) and any users, directories and names that are not the empty
string (`EmptyStringAssumption`):

| Theorem | Result |
|---|---|
| `Invariance` | `Spec => []IInv` |
| `TypeCorrect`, `Sockets`, `ValidState`, `Watches`, `StillOpen`, `ClosesAll`, `Announced` | the invariants of the run `dbserver` |
| `OwnSession` | `Spec => OnlyOwnSessionTaken` |
| `Implements` | `Spec => ImplementsPromise`, the refinement of `Connections` |

Both choices of `await_file` are part of the specification the theorems are about:
`Watches` and `ClosesAll` say what holds until the last slot's overflow clears
`master_set`, and that what is watched is open even after that; the others hold
with and without it.

Most of the invariants are not inductive alone. `SessionSockets` survives a login
only if the descriptor being served is an open connection, which follows from
`ReadyStillOpen`; `ReadyStillOpen` survives `Select` because everything watched is
open (`EveryConnectionWatched`), and a logout only if the socket closed is the one
being served, which follows from `SessionSockets`; an accepted descriptor is new to
the table because the table's sockets are open; a shutdown closes every connection
because all are watched. So `IInv` is their conjunction, with
`EveryConnectionWatched` in the form `Watching`. There is one lemma per
action. The refinement is proved step by step under `IInv`: each action is an
action of `Connections` or leaves its variables unchanged.

`SigChld_proofs` proves `TypeCorrect`, `DoneCorrect` and `ZombieFound`, the three
invariants of the run `sigchld`, for every number of children and stops. Its `IInv`
says that `numkids` and the number of reaped children add up to `N`, but for one
that a handler has yet to count (`Counted`): a loop left with `numkids` 0 has
all of them reaped. For the handler, it says that a pending signal has a zombie
and so has a waiting handler, and that the two have different ones (`ZombieEach`):
that is what keeps the first true when the second takes its zombie away.

`Countdown_proofs` proves `TypeCorrect`, `ZeroShown` (`LastShownIsZero`) and
`ShownInOrder` (`ShownFollows`) for every size of a byte, every start below 2^16,
any inputs and bounds (`CountdownAssumption`). First come lemmas about the
conversions: `htons` makes 16 bits of any number and `ntohs` gets its low ones
back (`SwapTwice`). The invariant then is a chain: each number on the wire
follows the one before it, the first follows the one shown, the counter follows
the last (`Follow`, `CounterFollows`), where "follows" allows for a number the
client has asked for, the only source of resets (`Requested`). So the number
shown next always follows, the same number again included, and the end of the chain is 0 once the server has
exploded (`ZeroLast`). A client that closes has emptied the wire, for it finds
its socket ready with nothing to read only after the server ended
(`SocketSpoke`).

`SyncSession_proofs` proves the four invariants of the run `sync_session`, for any
names, sizes, chunk, clocks and skew (`SessionAssumption`: among others, a message is
no longer than a chunk, and a chunk is smaller than 2^w), on both networks:

| Theorem | Result |
|---|---|
| `TypeCorrect` | `TypeOK`: no count leaves its range |
| `FramingHolds` | `Framed`: no byte of a file is taken for a message |
| `AgreementHolds` | `RoundAgrees`: a finished round leaves equal copies |
| `LiveClientsKept` | `LiveClientKept` |

The heart of `IInv` is `Phase`: the two programs and the two streams are in one
of six situations (`Listening`, `Answered`, `Receiving`, `Getting`, `Lost`,
`Over`), each of which says exactly what is on its way: one message, a
file from the chunk reached to its end with perhaps one message behind
it, or nothing. `Framed` alone is not inductive, for a reader is at the front of
a message only because `bytes_left` agrees with the chunks still to come. The
situations also carry which files agree already (`Agreed`), so that
`RoundAgrees` is their conclusion at the end of a round: while a file is transferred,
its receiver's copy is as much of it as has been read (`Progress`), unless it
is `patched` or was `edited` meanwhile. `Fits` says that sizes can be counted. No
part of it speaks of the clocks: which copy a round keeps depends on them,
that the two end up equal does not. `SyncSession_streams` holds the lemmas on streams: what
delivering, writing and reading do to a file in chunks followed by messages,
for files of any length. The merged read that swallows a message is one of the
cases: it makes `bytes_left` wrap around (`Lost`), the server waits for
the rest of a file, and closes the session if it reads anything else.

`Shell_proofs` proves `TypeCorrect`, `OnlyOwnEndsHolds`, `ChildrenAccountedHolds`
and `EndsOnlyIfAskedHolds`, the four invariants of the run `shell`, for lines of any
length and kind, any supply of processes and pipes, and any number of failing
calls (`ShellAssumption`). `Enough` (a process has at least the
children it still has to wait for) holds always. What makes the prompt come back alone holds while no
call has failed (`Calm`): the children are exactly those due (`Exact`), all
descend from the shell (`Reached`), a program sits below a process of one
segment and a pipeline's processes below one of several (`Placed`), no end but those
in use is held (`Holding`), and no two processes use the same end of a pipe
(`Alone`). `Wished` says that some process on the way up carries
the status 255 exactly while there is a wish to leave: so the shell ends only when
asked.

`BufServer_proofs` proves `TypeCorrect`, `LinesInOrder`, `NoLineLeft`,
`NoCrash` and `ClosedOnlyForLong` (the step property
`ClosedEarlyOnlyForLongLine`), for a buffer, lines and pieces of any size
(`BufAssumption`, and `RandclientAssumption`: one of `randclient`'s lines fits
the buffer, two do not; 18 and 30 in the code). `InStream` says that the bytes
received, those on the wire and those unsent are the client's stream after the
printed lines, which makes the first line of the buffer the next to be printed;
`TooLong` that only a line longer than the buffer fills it. That a leftover is never
taken for the end of a line needs `Aligned`: `randclient`'s lines all
begin at the start of the buffer, so that behind the bytes received are the NUL
`bufserver` wrote, bytes of an earlier line at the same place, or what was never
written. `Lowest` and `AllNumbers` there are induction over numbers in the form
the provers can use: a set of numbers that is not empty has a lowest element.

`TeamList_proofs` proves `TypeCorrect`, `OneList` (`EveryNodeOnOneList`),
`InOrderHolds` (`ListsInOrder`) and `Implements` (`ImplementsTeam`), all that
the run `team` checks, for any names, values and number of nodes
(`TeamAssumption`: finitely many nodes; `NULL` is no node and no player). `Chain`
walks over the links, so what it returns cannot be read off a step. `IInv`
says instead that two sequences of nodes exist that the links go through from
the two heads (`Path`), that share no node and hold every allocated one, in
order (`Both`). Each action turns one of them into the same sequence with an element
more (`With`) or less (`Without`), or empties it; `MetIs` says that `Chain`
returns them. For the search by value, `IInv` also says that the copies are
what `Those` selects among the players looked at (`Copied`): a copy
goes to the end of the list, because its position comes no earlier than those
of the ones before it. The refinement then compares `Team`'s selections with
`With` and `Without` (`InsertingThose`, `DeletingThose`).

**Only model-checked.** Liveness, which is beyond the proof system: `RoundEnds`,
`GoneClientDropped`, `EveryLineEnds`, `EachLinePrinted`, `Explodes`, `BothEnd`
and `EndsWhenPaced`. Every invariant, step property and refinement that a passing
run checks is proved. The proofs are about the modules: that a module is what
the code does rests on reading the two side by side.

## 12. What is not modelled, and why

- `do_getfile` (dead code), `list_files` (never called), the display of the
  table (`display_clients`, which runs past a full table but only prints).
- Long names: names are abstract values and stand for names of at most 11
  characters. A name of 64 is stored without a terminator; one of 13 or more
  is garbled in `file_in_transit` by `filesize`, which follows it.
- Split messages and chunks; edits of a file between its announcement and the
  client's last read of it, and of the server's copy inside `do_sync`, after which
  the size announced is not that of what is sent; files that appear while `readdir`
  is under way; two clients on one directory. The second and the last are planned
  for `SyncSession`.
- Which copy survives when both sides edit, or the clocks differ: section 4 tells
  one way to lose an edit, and nothing is claimed of any. Files that go back
  and forth because each copy is younger than the one it
  was made from: `assignment04/README.txt` documents it; `RoundAgrees` says only
  that the round that has just ended left equal contents.
- Failures that need an ill disk: errors of `open`, `write` to a file, `closedir`.
- Error branches the client cannot reach while files do not change as they are
  read (`send_file`'s short read, a poll reply that is not empty).
- Shell: words and blanks, the current directory, what redirected files hold, an
  end of stdin before the first line; `redirection.c` is a program to try redirections with.
- `readserver.c`, which prints what it reads; what the programs print apart from
  what the properties are about.
- First names in `TeamList`, which no command compares. `sscanf("%1[GDMS]", &pos)`
  (`team.c` 148) stores two bytes in the one-byte `pos`; with gcc 12 the second
  empties the first name just read, in the committed executable it hits nothing
  that is used.
- `CheckPasswd` (`lab06`) and the pure algorithms, until the plan reaches them;
  the guessing game and the scripts have no state worth a model; drawing and
  overflow exercises for good, for their only results are printed text and a
  deliberate overrun; `*.bak` files are older copies.
