# A TLA+ verification of Veyon

Veyon lets a teacher watch and control the computers of a classroom.  This
directory holds TLA+ models of its core logic, the TLC configurations that
check them on small instances, and proofs of the most important results for
every instance.  `PROJECT.json` is the index: components, runs, mutants, the
source lines each definition translates, findings, hazards and theorems.

Paths below are relative to the repository.

## 1. The system

Four kinds of process work together on one computer, and the master is on
another one.

* The **service** (`service/`, `core/src/PlatformServiceCore.cpp`, the platform
  plugins) watches the user sessions and keeps one server process per session.
* The **server** (`server/`) accepts connections on the service port,
  authenticates them, performs access control and then relays RFB traffic
  between the client and a VNC server on the same machine.  Veyon's own
  messages (feature messages) travel in the same stream.
* **Workers** (`worker/`) are processes in the user's session, started by the
  server for one feature each (a dialog, a lock screen, a demo client).
* The **master** (`master/`) holds one connection per computer, shows the
  screens and starts and stops features.

### Inventory

| component | state | operations | who it talks to |
|---|---|---|---|
| access decision `core/src/AccessControlProvider.cpp` | none; reads configuration and session | `checkAccess`, `processAccessControlRules`, `matchConditions`, `isAccessToLocalComputerDenied` | called by access control |
| RFB server protocol `core/src/VncServerProtocol.cpp` | protocol, authentication and access control state of one client | `read()` and one method per state | authentication, access control |
| authentication `server/src/ServerAuthenticationManager.cpp` | challenge, key, auth state of the client | one method per type | protocol |
| access control `server/src/ServerAccessControlManager.cpp` | list of admitted clients, remembered choices | `addClient`, `removeClient`, `finishDesktopAccessConfirmation` | dialog, protocol, connection destructor |
| consent dialog `core/src/DesktopAccessDialog.cpp` | choice, abort timer | `exec`, `abort`, message from the worker | worker manager |
| worker manager `core/src/FeatureWorkerManager.cpp` | map of workers: process, socket, pending messages | `startWorker`, `stopWorker`, `sendMessage`, socket events, 100 ms timer | every feature with a worker |
| worker `worker/src/` | socket | init message, receive, quit on disconnect | worker manager |
| proxy `server/src/VncProxyServer.cpp`, `VncProxyConnection.cpp` | list of connections, two sockets each | accept, forward, close | protocol, VNC server |
| RFB client protocol `core/src/VncClientProtocol.cpp` | handshake state with the VNC server | `read()`, message framing | proxy |
| master connection `core/src/VncConnection.cpp`, `VeyonConnection.cpp` | thread state, control flags, event queue, framebuffer state | connect loop, `restart`, `stop`, `enqueueEvent`, `rescaleScreen` | server |
| computer control `core/src/ComputerControlInterface.cpp` | connection, state, user, active features, watchdog | `start`, `stop`, slots | master connection, features |
| features `core/src/FeatureManager.cpp`, `FeatureControl.cpp`, `MonitoringMode.cpp` | designated mode per computer | `startFeature`, `stopFeature`, message dispatch | plugins |
| master `master/src/VeyonMaster.cpp`, `ComputerManager.cpp`, `ComputerControlListModel.cpp` | current mode, computer list, rows | mode toggle, list updates | computer control |
| demo `plugins/demo` | screen update queue, key frame, clients, hosts | server, connection, feature | VNC server, worker |
| file transfer `plugins/filetransfer` | controller state, open file, transfer id | send loop, worker messages | feature messages |
| remote access, record `plugins/remoteaccess`, `plugins/record` | consent dialogs, recording | start/stop, messages | master, worker |
| lock, messages, power, sessions `plugins/screenlock` ... | little | feature messages | worker |
| service core `core/src/PlatformServiceCore.cpp`, `plugins/platform` | sessions, server processes, session ids | session signals, retry, shutdown | server processes |
| directory `core/src/NetworkObjectDirectory.cpp` and its plugins | tree of locations and hosts | add, remove, replace | master, access rules |
| configuration, CLI, configurator, keys | files | read, write, dialogs | everything, at start |

### What is hard here

There are no unit tests in the repository.  What a test would hardly reach:

* several clients, one dialog: access control is asynchronous for one client
  and everybody else has to wait, while any closing connection makes all
  admitted clients pass access control again;
* a worker process that starts slowly, dies, or belongs to an earlier start;
* retries that are already scheduled when their reason is gone (worker start,
  server start for a session, reconnect);
* the master's connection thread, which shares its client object, flags and
  event queue with the user interface;
* lists whose positions are captured in callbacks and change before they run.

The complete list, with source lines, is under `hazards` in `PROJECT.json`.

## 2. Plan

### Modules

In the order of importance.  "Done" modules are described in section 3.

| module | models | state |
|---|---|---|
| `AccessControlProvider` | the access decision as operators | done |
| `ServerAccess` (extends `AccessControlProvider`) | protocol, authentication, access control and dialog of every connection of a server | done, proved in `ServerAccessProofs`, `ServerMembershipProofs` |
| `WorkerChannel` | abstract: what a feature may expect of its worker | done |
| `FeatureWorkers` (implements `WorkerChannel`) | worker manager, worker processes and their connections | done, proved in `FeatureWorkersProofs` |
| `VncConnection` | the master's connection thread and the calls of its main thread | done, proved in `VncConnectionProofs` |
| `LinuxServiceCore` | the service, its sessions and server processes | done, proved in `LinuxServiceCoreProofs` |
| `FileTransfer` | controller, reader, connection, server and worker of a file transfer | done, proved in `FileTransferProofs` |
| `DemoServer` | queue of screen updates, key frame, memory limit, readers | done, proved in `DemoServerProofs` |
| `VncProxy` | two sockets, two handshakes, forwarding and deletion | done, proved in `VncProxyProofs` |
| `ComputerControlInterface` | watchdog, update modes, user and features, on the states `VncConnection` goes through | open |
| `NetworkObjectDirectory` | tree of locations, announcements of every change; abstract: the item model that replays them | open |
| `WindowsServiceCore` | two polling loops, shutdown event, service control thread | open |
| `MasterModes`, `ComputerRows` | mode toggle, active features; rows of the computer list and the callbacks that hold an index | open |

The open ones keep state for display, or depend on the operating system's
scheduling (section 7); they come after the proofs of the modules that exist.

Each component has one specification module, one `MC` module with its small
instances and one or two modules of proofs.  No specification uses RECURSIVE
operators, so that all of them can be proved about.  `ServerAccess` composes
the decision with the protocol.  The other components meet at promises that
one of them makes and another relies on:

* `FeatureWorkers` implements `WorkerChannel`; `ServerAccess` relies on a part
  of it for its dialog (a worker answers, ends or stays silent), `FileTransfer`
  on all of it (the inbox of a running worker is in order, nothing survives
  the worker);
* `FileTransfer` reaches a computer as `VncConnection` sends: events are
  dropped while there is no connection and kept in the queue when it is lost;
* `VncProxy` leaves to `ServerAccess` what the handshake with the client
  decides: here access is granted at some time or the client is turned away.

### Runs

There is one run for safety and liveness of each component together, two for
the access path, whose two questions need different instances, and one for each
finding: a dozen, so that a reader can tell what each is for.

### Theorems

For every component: type correctness, its most important safety property,
and its refinement where there is an abstract module.  All of these are
proved, and with them every invariant of the passing runs.  For most of the
liveness properties the safety fact behind them is proved too: `NoWakeupLost`
for those of `VncProxy`, `RestartIsKept` for `RestartReconnects`, `StartIsKept`
for `SessionIsServed`, `OrphansAreToldToEnd` for `NoProcessLeftBehind` and
`KeyFrameComes` for `PictureCatchesUp`.

## 3. The modules and the code

Names of definitions follow the source where TLA+ allows.  `PROJECT.json`
gives the lines of every definition that translates code.  Definitions named
`x_y`, each preceded by a comment "Mutant", are defects a change of the code
could introduce; no specification uses them, they serve to show that the
properties notice.

### AccessControlProvider, ServerAccess

A rule is a record of its action, its flags and the conditions that are
switched on; `checkAccess` follows the code's order: methods, then the first
matching rule, then denial.  What the user group backend and the directory
answer are constants.

`ServerAccess` has one function per member of `VncServerClient` (protocol,
authentication and access control state, identity), `m_clients` and
`m_desktopAccessChoices` of `ServerAccessControlManager`, and the dialog's
worker, abort timer and connections to `finished()`.  An action is one event
handler: a socket becomes readable, a timer fires, an object is deleted.  The
loop of `removeClient()` is the one handler split into steps
(`previousClients` is the rest of its list), because every iteration reads the
list that the loop is rebuilding; `Idle` keeps other handlers out meanwhile.
Signatures and passwords are a nondeterministic result; the session the rules
look at may change at any time between handlers.  The handler of the dialog's
report does not look at its sender: `reportFromWorker` is the local user's answer,
`reportFromClient` any choice sent by a client that is served.  Three history
variables tell what a consent rests on: `consented` and `vouched` (whom the dialog
was asking for when its worker or a client reported consent) and `answered` (the
clients admitted by a report and not checked again since).

### FeatureWorkers, WorkerChannel

`m_workers` is the set `running` with the functions `socket`, `process` and
`pending`.  Processes have a life of their own: they start slowly, connect,
introduce themselves with the feature's name only, handle messages and end at
any moment.  Actions are the manager's operations (`startWorker`, `stopWorker`,
`sendMessage`, the destructor), its socket handlers, the 100 ms timer, the kill
and retry timers, and the worker's side.  Messages are numbers in the order of
their acceptance.  `WorkerChannel` is what a feature relies on; the mapping
takes `delivered` from the process the entry's socket leads to.  A worker may be
stopped before it has connected; its process is then not told to end, and may be
taken for its successor.  The history variables `made` (the process an entry was
made for) and `forsaken` (processes whose entry ended before it had got their
connection) let the properties say what is true with it.

### VncConnection

The connection thread (`step` is where it is) and the main thread (`mainStep`)
interleave at every access to shared state; the flags and the state are
atomics, the queue and the image are guarded by locks that are held for one
step.  libvncclient and the remote server are external: a connection may fail
before or after anything was heard, or be refused, updates come for requests.
Clients are numbered, so that one that was dropped without being closed can be
seen in `open`: by `ClientsAreClosed` the thread leaves one behind at most.

### LinuxServiceCore

The sessions of the login manager with their slow start and end, the D-Bus
signals under way, the service's start (subscribe, list, start each), the
retry timers, and the server processes with their session ids.  `startServer`
is two steps, because it asks the login manager several times and may wait for
other servers to end; everything else is one handler each.  Killing the
service ends its servers, and the service manager restarts it, as its unit
file says (`service/veyon.service.in`).

### FileTransfer

Per master the controller's members (`files`, `fileIndex`, `fileState`,
`transferId`, `processTimer`) and its reader; per pair of master and computer
the connection's event queue and what is on the wire; per computer whether the
worker counts as running, the scheduled retries of its start, its inbox, and
the worker's current file, transfer id and message box; and the disk.  A file
is a sequence of chunks; a chunk read but not sent, an empty file and a file
that cannot be opened are states of the reader or the controller as in the
code.  A message box blocks the worker's event loop, so that nothing is handled
until the user closes it.  The reader's functions are posted to the thread its
object lives in, which is the master's main thread.

### DemoServer

The screen is a row of tiles.  An update draws tiles and copies others from where
they were in the picture before it, as the requested encodings allow (CopyRect).
The module has the demo server's queue with its key frames and memory limit, the
update requests (one of which may ask for the full screen), the VNC server at the
other end of its connection, and per client the position in the queue.  Pictures
are abstracted to `wrong`: the tiles in which a client's picture may differ from
what the demo server had received at the time the client was sent its last
update (`seen`); a copy hands on what is wrong at its source.  Full updates are
recognised as in the code, by their bounding rectangle.

### VncProxy

`VncProxyServer`'s list with the life of each connection object (alive, posted
for deletion, deleted, deleted twice) and a record per connection: its two sockets,
what is on their wires and in their buffers, the states of both handshakes, whether
access has been revoked (the state Close, `closing`), the pending timers, and what
has been forwarded.  Closing a socket calls `closeConnection()`, in a handler as in
the destructor; `stop` follows the loop of the code over the memory of a list from
which these calls remove what is being deleted (`deletions`).  A message comes in
pieces, and any number of the pieces on the wire may arrive at once.  The readers
are operators on that record, because `readyRead` and a timer call the same ones.

## 4. Runs

| run | shows |
|---|---|
| `access_rules` | three connections, rules that depend on who is connected: the list of admitted clients is exact at every step of a re-check, no admission outlives its reason, a reported consent counts for the user and host that were asked about only, no screen without admission, a refusal is final |
| `access_ends` | logon and token authentication, users logging on and off, a dialog worker that may die: whoever waits is decided by answer or timer |
| `access_worker_dies` | finding: two pending clients |
| `workers` | two features, two processes, workers stopped at any time: an entry's connection is that of its process or of one forsaken while starting, one lasting process per feature but for those, refinement of `WorkerChannel`, accepted messages are handled, processes without an entry end but for those |
| `workers_shutdown` | finding: a process left behind by the destructor |
| `vnc_connection` | two connections with all failures, two screens, two events: one open connection at most, which reason a failure is given for what happened; stopping, restarting, events and the scaled screen make progress |
| `service_sessions` | two sessions with and without multi session mode, one crash of the service: distinct ports, no lost ids, servers known and stopped, sessions served |
| `service_interrupt` | finding: SIGINT to the whole process group |
| `file_transfer` | one master, up to two files, lost connections and workers: whole files or none, files that are there are kept, transfers end |
| `file_removed` | finding: a transfer that is to keep existing files removes one |
| `demo_server` | one client, updates that draw and copy, a queue that overflows: its picture is what the queue shows, and catches up |
| `vnc_proxy` | one busy connection and two silent ones, two messages in two pieces, access revoked at any time, a server that is stopped: streams are exact, handshakes end, nothing stays in a buffer but what the VNC server sends after a revocation, closed connections are deleted once |

### Bounds

* Access: three connections for the list (a member before, at and after the
  one that leaves), otherwise two; two peers that are the same user on two
  computers, or two users on one.  In `access_rules` one connection at a time
  is in its handshake (the constraint `OneInHandshake`): the handshake touches
  nothing but its own connection, and `access_ends` interleaves the handshakes
  of two connections freely.  Connections are interchangeable, hence the
  symmetry in the safety run.
* Workers: one managed and one unmanaged feature, two processes (a worker and
  its successor, or one of each feature), three messages, two retries.
  `MaxMessages` and `MaxRetries` are guards; a behaviour that reaches them goes
  on without new messages or retries.  Nothing is assumed about when workers are
  stopped, and the theorems hold for any number of processes.
* Connection thread: two connections (the second shows everything left over
  from the first), two events, two screens of one size.  A change of size
  drops the framebuffer and asks for a new one as the first connection does.
* Service: two sessions and four processes: every pair of sessions, each with
  the second server it may get when it is both listed and announced.  Two
  session ids, so that a doubled start uses them up.  One crash of the service
  (`MaxKills`).
* File transfer: one master, because the two safety properties hold for one
  only and say so (`OneMaster`, section 6); one computer, as computers share
  nothing but the controller's wait for their queues; an existing file of two
  chunks and an empty one, two selected files in a behaviour, two losses
  (`MaxLosses`), one scheduled retry.  At most one message is on the wire: the
  rest waits in the queue it comes from.
* Demo server: one client (clients do not touch each other), three tiles (one
  update inside the screen, one at both edges, and the full screen), a
  memory limit of two tiles so that two updates overflow it, two changes of
  the screen, at most one tile copied by an update (`MaxMoved`; one wrong tile
  handed on is enough to break a picture), one lost connection or restart.  What
  is proved holds for every limit and any number of copied tiles.
* Proxy: connections share only the list, so that one is enough for everything
  but `stop()`, whose loop needs three to skip one and to delete one twice: the
  other two (`Silent`) are open with nothing sent.  Two messages of two pieces,
  from either side or one from each (`MaxMessages` counts both): a message
  complete, one begun, and the next behind it.  Messages of a handshake come
  whole: most states wait for the rest of one that is cut, but the list of
  security types is then taken for invalid and the socket closed
  (`VncClientProtocol.cpp:284`), which the model has as `disconnected` only.

`CHECK_DEADLOCK FALSE` stands where the system really stops: all sessions
removed, the connection thread finished, the bounds on files, changes or
messages used up with nothing under way.

### Fairness

* `ServerAccess`: the retry timer, the abort timer, posted deletions and the
  loop of `removeClient()` get on.  Nothing is assumed of peers, the local
  user or the worker.
* `FeatureWorkers`: the 100 ms timer, the kill timer, socket events of both
  sides, and a worker that has lost its connection quits.  Starting a process
  successfully is not assumed.
* `VncConnection`: both threads are scheduled, the watchdog elapses, the
  server answers requests.  That `rfbInitClient()` returns is an assumption about the
  server: the code sets no timeout, and what keeps a client waiting longest,
  access control, ends by `access_ends`.
* `LinuxServiceCore`: the service manager restarts the service, signals and
  timers are served, time passes.  Users may stay or leave as they like.
* `FileTransfer`: the process timer and the reader's posted calls run, a
  connected queue is sent and the server reads it.  Nothing is assumed of
  workers, users or lost connections: `TransferEnds` is about the master.
* `DemoServer`: the VNC server answers a request, the timers run, and
  connected clients ask for updates, as `VncConnection` does.
* `VncProxy`: data that has come is read, timers and posted deletions run, and
  both sides answer in the handshake, as far as access control lets them.  No
  side has to send a message.

## 5. Proofs

The theorems hold for every value of the constants the named assumptions allow
(`ServerAccessAssumption` etc.).

* **AccessControlProvider** (in `ServerAccessProofs`).  `RulesInOrder` shows that
  the first deciding rule, which the model chooses by its index, is the one the
  loop of the code comes to.  `LocalDenialHolds` is the comment on
  `isAccessToLocalComputerDenied()` with what it takes for granted: user groups
  are not the access control method, and the rules in use look at nothing but
  the local session.
* **ServerAccess.**  `TypeCorrect` needs that the dialog is busy only with a
  named request (`RequestIsNamed`).  `ViewersAdmitted` adds that a client in
  the AccessControl state is authenticated: admission alone does not tell how
  it got there.  `AdmissionBeforeView` is an action property from the same
  invariant: the step that lets a client to the screen finds it admitted.
* **The list of members** (`ServerMembershipProofs`).  `MembersAdmitted`,
  `PendingDecided` and `RefusalFinal` share one invariant, `RosterInv`: the
  list, the rest of the old list during a re-check and the list of clients
  that wait for the dialog name each client once and partition the admitted
  and the pending ones.  It is inductive only together with the facts that
  access control has not begun before a client has authenticated and that a
  refused client is in one of two protocol states.  `MembershipJustified` adds
  that what justifies a member refers to the members before it only: a list
  that grows at its end and is rebuilt from nothing never invalidates it.
  `ConsentOwn` and `OnePending` assume `WorkerCrashes = FALSE` and use
  `DialogInv` (who waits is the one the dialog was opened for); with a worker
  that dies the second is false, see finding 1.  `ConsentOwn` is about whom a
  consent counts for; who gave it is another matter (section 6).  Four lemmas say what
  appending, concatenating, taking the tail and `removeAll()` do to a list
  that names each client once.
* **FeatureWorkers.**  `SocketsOwned` and `ImplementsChannel` share one
  inductive invariant of four parts: what a process can be in at each stage of
  its life, whose socket an entry may hold, that what an entry has accepted is
  what its process has handled followed by what is on the wire and what is
  pending, in this order, and what remains once the manager is gone.  The
  third part is why messages are neither lost, doubled nor reordered; it is
  inductive only because a process that has not introduced itself has nothing
  on its wire.  Every action is then mapped to a step of `WorkerChannel` or a
  stutter.  `SocketsOwned`, `OneWorker` and
  `OrphansTold` (`OrphansAreToldToEnd`, the safety half of `NoProcessLeftBehind`)
  rest on `WorkerInv`: a process that is not the one its feature's entry was made
  for has been told to end or is forsaken (its entry had ended before it got the
  connection).  They make no assumption on when workers are stopped; what the code
  leaves behind is exactly named by `forsaken`.  `StrangersOnly`
  (`OnlyStrangersStay`) says how far finding 2 goes: the workers that outlive the
  server without having been told to end are those that had not connected to it.
* **VncConnection.**  `NoClientLeftOpen` needs beyond the types that `m_client`
  is null or the client created last.  `FailuresExplained` needs
  `AttemptIsKnown`: what the thread's flag and framebuffer state say about the
  attempt that is under way and, in `framed`, about those before it since
  connecting began.  It says which reason is told for what happened, the wrong one
  included (section 6).
  `EventsExact` (`EventsInOrder`) says what the queue of `FileTransfer`'s messages
  rests on: the events sent are the first ones, in their order, and the queue has
  exactly the others, whatever connections are lost, unless the thread has been
  told to terminate.  `RestartsKept` (`RestartIsKept`) is the safety half of
  `RestartReconnects`: a connection that a restart was requested for stays marked
  for it.  The flag is reset only when the next connection begins, and then the
  thread has no client.
* **LinuxServiceCore.**  `PortsDistinct` and `IdsInUse` rest on three
  parts: an entry's process was started for its session; the ids taken are
  those of the existing processes, each used once; and without multi session
  mode there is one process at most, it has an entry, and none exists while
  another one is being started.  `AllServersKnown` and `RemovedStopped` need
  in addition which start is under way and which announcements are still to
  come: a session is started once from the list and once from its signal, a
  second server replaces the first entry only for a session in `twice`, and a
  removal that is not yet handled is still announced.  `StartsKept`
  (`StartIsKept`) is the safety half of `SessionIsServed`: in multi session mode
  a graphical session has a server, a start under way, a retry timer, its place
  in the list or its signal; it needs that only removed sessions are announced as
  removed.
* **DemoServer.**  `PictureExact` follows from `Pictures`, which says for every
  client whose key frame is the server's that what its picture has wrong is wrong
  too in the picture of a new client that has been sent as much of the queue: an
  update hands on what is wrong in the same way to both, and more wrong before it
  is never less after it.  Clearing the queue is harmless because it makes
  every client start over, with the picture of a new client at worst.
  `QueueBounded` (`QueueIsBounded`) bounds the queue by twice the memory limit and
  one screen.  `KeyFrameKept` (`KeyFrameComes`) is the safety half of
  `PictureCatchesUp`: a queue that does not begin with a full update, or is above
  the limit, has one requested or on its way; both rest on what `Size` of a queue
  with one more update is, proved from its recursion by the least index at which
  it would fail.

* **FileTransfer.**  `ReceivedComplete` and `ExistingKept` are for one master
  (`OneMaster`; with two they are false, section 6) and share `TransferInv`: the
  reader's position (`ReaderInv`) and a part for every pair of master and
  computer (`PairInv`).  What is under way from the queue to the worker is in
  the order in which it was sent, and belongs to the transfer the worker has
  accepted last or to later ones; once the worker has refused a file nothing of
  the transfer accepted before comes any more (`OrderInv`).  The contents
  follow (`DataInv`): for a transfer of which nothing was lost, the chunks
  written and those under way make up what the reader has sent, up to the
  Finish, unless a Cancel comes.  As long as nothing was lost at all, a Cancel
  without a transfer id finds no file name at the worker (`NoLossInv`).
  The proof of `ExistingKept` failed at first in the step that handles a Cancel:
  the case without an id after a lost Finish is finding 3, and the property now
  names it as the only exception.
* **VncProxy.**  `StreamsExact` is proved with `Streams`, for each connection and
  each direction: of the messages of one side, the first q have been forwarded
  (`Flow`), those after r are on their way, piece by piece, and q = r as long as
  the other socket is there.  Before the messages begin at most one piece of a
  handshake is under way (`Idle`), so that no message is taken for a handshake,
  and a connection that was refused has forwarded nothing (`NotConnected`).  What
  the code's loops over the pieces of a buffer compute is needed here, which is
  induction over data: the lemmas on `Only`, `Messages` and `Ends` state it for
  sets of indices, by the least element of the set of those that fail.
  `TypeCorrect` contains that the list and the life of the connections agree
  after every handler, `stop` included, for which the loop's effect (`deletions`)
  is not needed: what it skips is deleted with the server.
  `WakeupsKept` (`NoWakeupLost`) is the safety half of `HandshakesEnd` and
  `MessagesArrive`: a timer is pending as long as a handshake goes on or a whole
  message waits.  Its exceptions are a connection that is going to be deleted
  and a message that ends the loop, for which `Streams` is needed: a message
  that has come whole is one that was sent.  Once access has been revoked, the
  pending call of the client's reader closes the connection, that of the VNC
  server's reads nothing and is made again.

Left to TLC: the liveness properties, all of them, and nothing else.

## 6. Findings

1. **Two clients are asked about in one dialog** (`access_worker_dies`,
   `server/src/ServerAccessControlManager.cpp:163`).  Whether a dialog is open
   is decided by whether its worker runs; when the worker process dies, the
   first client stays pending until the abort timer, a second one gets a new
   dialog, and the answer to it is applied to both.
2. **A starting worker survives the server** (`workers_shutdown`,
   `core/src/FeatureWorkerManager.cpp:151`).  Workers are told to quit by
   closing their socket; one that has not connected has none and never quits.
3. **A file that was there before is removed** (`file_removed`,
   `plugins/filetransfer/FileTransferPlugin.cpp:212`).  A Start that is refused,
   because the file exists and is not to be overwritten, sets the worker's file
   name all the same.  If nothing was accepted before and the Finish of this file
   is lost with the connection, stopping between two files sends a Cancel with a
   null id, which is equal to the worker's null id, and the file is removed.
4. **SIGINT to the process group** (`service_interrupt`,
   `plugins/platform/linux/LinuxServiceCore.cpp:201`).  The process id of a
   finished `QProcess` is 0.

Seen while modelling, without a run of their own:

* whether the server is restricted to local connections is decided once, at its
  start, by asking the rules on behalf of nobody (`ComputerControlServer.cpp:46`).
  A rule that is inverted matches the empty user, and one without conditions
  is passed over, so that requests are turned away which the rules allow
  (`LocalDenialHolds` says when this cannot be);
* the handler that takes the dialog's choice does not look at where the message
  came from (`DesktopAccessDialog.cpp:88`, `Q_UNUSED(messageContext)`), and the
  server hands it the feature messages of every client it serves
  (`ComputerControlServer.cpp:102`).  `ConsentIsOwn` therefore says whom a reported
  consent counts for, and not that the local user has given it;
* a client the local user admits in the dialog is served without the remote
  access notification, because `finished()` is emitted only when access
  control starts (`ServerAccessControlManager.cpp:142`);
* `LinuxServiceCore::stopServer()` waits its full timeouts: no event loop runs
  while it waits, so the process object does not learn of the end;
* stopping while `rfbInitClient()` succeeds drops the pointer to the client
  without closing its connection (`VncConnection.cpp:465`); `ClientsAreClosed`
  says that this is the only such case;
* the framebuffer state is reset when connecting begins and not for each attempt
  (`VncConnection.cpp:414`): when an attempt has got a framebuffer and failed, a
  failed authentication of a later one is told as a failed connection
  (`VncConnection.cpp:485`); `FailureIsExplained` says that this is the only wrong
  reason;
* a worker that is stopped before it has connected is not told to end
  (`FeatureWorkerManager.cpp:151`), unless it is a managed one, which the kill
  timer ends; if its feature has a new entry when it connects,
  it becomes that entry's worker, because the init message names the feature only
  (`FeatureWorkerManager.cpp:242`), and the process started for the entry is left
  without messages;
* a framebuffer replaced by a blank one counts as valid until the next update
  (`VncConnection.cpp:684`);
* file transfers of two masters to one computer disturb each other: a refused
  Start still sets the worker's file name, so that a Cancel of the other
  transfer removes a file that was there before, and Finish closes the file
  without comparing the transfer id (`FileTransferPlugin.cpp:179`, `:222`).
  With two masters `ReceivedIsComplete` and `ExistingFilesAreKept` are
  violated; nothing in the repository promises more than one;
* the server reports "Received file" also when the worker is going to refuse it
  (`FileTransferPlugin.cpp:149`), and the box in which the worker reports the
  refusal blocks it until the user closes it;
* a file that shrinks while it is sent never reaches its end
  (`FileReadThread.cpp:116`); the reads announced as being done in the
  background (`FileTransferController.cpp:202`) run in the main thread, because
  only the file, not the `FileReadThread` object, is moved to the thread;
* the demo server takes an update for a full one if its bounding rectangle is
  the screen (`DemoServer.cpp:228`), so that rectangles at opposite corners
  clear the queue; clients then show what was cleared once it comes again with
  the full update of the next key frame interval (`KeyFrameComes` holds for such
  an update, that every tile is in the queue does not).  A VNC connection that is refused
  is not tried again, and stopping the demo server feature leaves the worker
  running (`DemoFeaturePlugin.cpp:191`);
* the demo server asks for CopyRect and for changes of the size
  (`DemoServer.cpp:321`, `:332`), and a queue that is cleared at the memory limit
  may begin with an update that copies: clients that start over copy what they
  never got, and show it until the full update that is requested comes
  (`PictureIsExact` says what is right until then, `PictureCatchesUp` that it ends);
* when the screen of a demo changes its size, the update that says so is not queued
  (`DemoServer.cpp:205`), so that clients keep the old size, and
  the bounding rectangle of an update is compared with the size of the connection's
  beginning from then on (`:231`);
* `VncProxyServer::stop()` deletes in a loop over its list
  (`VncProxyServer.cpp:78`); a socket that is deleted while open reports its
  disconnection, and `closeConnection()` (`:107`) takes the connection from this
  list.  "do not get notified about disconnects any longer"
  (`VncProxyConnection.cpp:61`) is not what the two calls below it achieve:
  they cut what the connection sends to the sockets, not what the sockets send.
  With three or more connections open one is skipped and another one deleted twice
  (`deletions`, `deletedTwice`);
* a client that is served when its access is revoked is only set to Close
  (`ServerAccessControlManager.cpp:94`, `:214`).  The VNC server's data is polled
  for it from then on (`VncProxyConnection.cpp:128`), and the connection is closed
  when the client sends something, which is when its reader runs
  (`VncProxyConnection.cpp:73`): `MessagesArrive` and `WakeupsKept` have this
  exception;
* if the local VNC server refuses a proxied connection, no signal is connected
  to the error and both handshakes poll until the client leaves;
  a feature message that no plugin handles ends the loop over the messages that
  have arrived (`ComputerControlClient.cpp:71`): those behind it wait until
  the client sends again.

## 7. Not modelled

The list with reasons is under `components` in `PROJECT.json`.

* **Master side of a computer** (`ComputerControlInterface`, features, modes,
  the computer list): state that is displayed, in front of `VncConnection`,
  whose model has the calls it makes.
* **Windows service**: polling loops around events and waits of the operating
  system, whose scheduling decides what happens and is not in this code.
* **Directory, configuration, keys, configurator, command line, plugins that
  adapt external programs**: sequential reading, writing and display.
* **Recording, remote access, lock, messages, power, sessions**: one message
  or one timer each; their delivery is `FeatureWorkers` and `VncConnection`.

Of the modelled parts these are left out: the configurator's view of groups
and locations; cursor and clipboard hooks; `setClientData()` racing with the
cleanup of the client, whose outcome in C++ is undefined and has no state to
model; the retry of a failed connection to the login manager; D-Bus calls that
fail for an existing session; a full disk and the application that opens a
received file; changes of the size of the screen in a demo; the demo client's window and the feature's choice of host and
token; the decoding of rectangles in the RFB client protocol, whose lengths
only find the end of a message.  Six hazards have no property for these
reasons; their notes are in `PROJECT.json`.
