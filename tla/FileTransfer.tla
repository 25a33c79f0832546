------------------------------ MODULE FileTransfer ------------------------------
(***************************************************************************)
(* The file transfer feature: FileTransferController and FileReadThread    *)
(* on each master, which send the selected files chunk by chunk to the     *)
(* selected computers, and FileTransferPlugin on the server, which passes  *)
(* the messages on, and in the worker, which writes the files.             *)
(*                                                                         *)
(* A computer is reached as VncConnection sends (events of the master's    *)
(* queue, dropped while there is no connection, kept when it is lost) and  *)
(* as WorkerChannel promises (a running worker gets its messages in order, *)
(* nothing survives it).  A file is the sequence of its chunks.            *)
(***************************************************************************)
EXTENDS Integers, Sequences, FiniteSets, SequencesExt

CONSTANTS
  Masters,
  Computers,     \* the computers every transfer goes to
  Selections,    \* the sequences of file names that may be selected
  Options,       \* the sets of options that may be selected
  Size,          \* number of chunks of a file
  Existing,      \* names of files there are on every computer from the start
  NoFile,
  MaxFiles,      \* bound on the files selected in a behaviour
  MaxLosses,     \* bound on the lost connections and ended workers
  MaxRetries     \* bound on the scheduled retries of one worker

Files == UNION {Range(s) : s \in Selections}

Flag == {"OverwriteExistingFiles", "OpenTransferFolder"}

ASSUME FileTransferAssumption ==
  /\ \A s \in Selections : s \in Seq(Files) /\ s # <<>>
  /\ Options \subseteq SUBSET Flag
  /\ \A f \in Files : Size[f] \in Nat
  /\ Existing \subseteq Files
  /\ NoFile \notin Files
  /\ MaxFiles \in Nat
  /\ MaxLosses \in Nat
  /\ MaxRetries \in Nat

VARIABLES
  \* FileTransferController and its FileReadThread
  processTimer,  \* TRUE while m_processTimer is active
  files,         \* m_files
  flags,         \* m_flags
  fileIndex,     \* m_currentFileIndex, counted from 1
  fileState,     \* m_fileState
  transferId,    \* m_currentTransferId
  reader,        \* m_fileReadThread
  \* the connection of a master to a computer
  connected,
  queue,         \* m_eventQueue of the VncConnection
  wire,          \* sent, and not yet handled by the server
  \* the server
  running,       \* computers whose file transfer worker counts as running
  retries,       \* scheduled retries of startWorker()
  inbox,         \* messages for the worker
  \* the worker
  fileName,      \* name of m_currentFile
  isOpen,        \* TRUE while m_currentFile is open
  currentId,     \* m_currentTransferId
  box,           \* TRUE while a message box blocks the worker
  disk,          \* the files in the home directory
  \* history and bounds
  selections,    \* number of files selected
  ids,           \* number of transfer ids created
  writer,        \* the transfer that created or truncated a file
  lost,          \* transfers of which a computer has not got all messages
  losses

controllerVars == <<processTimer, files, flags, fileIndex, fileState, transferId, reader>>
workerVars == <<fileName, isOpen, currentId, box, disk, writer>>
serverVars == <<running, retries, inbox>>
vars == <<controllerVars, connected, queue, wire, serverVars, workerVars, selections, ids, lost, losses>>

Pair == Masters \X Computers

TransferId == Nat

NoId == 0

Source(file) == [i \in 1..Size[file] |-> <<file, i>>]

Chunk == Files \X (Nat \ {0})

\* A file that does not exist, and the content of one that was there before.
Absent == << <<NoFile, 0>> >>

Old == << <<NoFile, 1>> >>

Message ==
  [ kind : {"Start", "Continue", "Cancel", "Finish", "OpenTransferFolder"},
    id : TransferId, file : Files \cup {NoFile}, overwrite : BOOLEAN, data : Seq(Chunk) ]

Reader == [present : BOOLEAN, pos : Nat, ready : BOOLEAN]

NoReader == [present |-> FALSE, pos |-> 0, ready |-> FALSE]

Init ==
  /\ processTimer = [m \in Masters |-> FALSE]
  /\ files = [m \in Masters |-> <<>>]
  /\ flags = [m \in Masters |-> {}]
  /\ fileIndex = [m \in Masters |-> 0]
  /\ fileState = [m \in Masters |-> "Finished"]
  /\ transferId = [m \in Masters |-> NoId]
  /\ reader = [m \in Masters |-> NoReader]
  /\ connected = Pair
  /\ queue = [p \in Pair |-> <<>>]
  /\ wire = [p \in Pair |-> <<>>]
  /\ running = {}
  /\ retries = [c \in Computers |-> 0]
  /\ inbox = [c \in Computers |-> <<>>]
  /\ fileName = [c \in Computers |-> NoFile]
  /\ isOpen = {}
  /\ currentId = [c \in Computers |-> NoId]
  /\ box = {}
  /\ disk = [c \in Computers |-> [f \in Files |-> IF f \in Existing THEN Old ELSE Absent]]
  /\ selections = 0
  /\ ids = 0
  /\ writer = [c \in Computers |-> [f \in Files |-> NoId]]
  /\ lost = [c \in Computers |-> {}]
  /\ losses = 0

-----------------------------------------------------------------------------
(* FileTransferController                                                  *)

File(m) == files[m][fileIndex[m]]

Plain(kind, id, file) ==
  [kind |-> kind, id |-> id, file |-> file, overwrite |-> FALSE, data |-> <<>>]

\* A message to all computers; those without a connection do not get it.
send(m, message) ==
  /\ queue' = [p \in Pair |-> IF p[1] = m /\ p \in connected
                              THEN Append(queue[p], message) ELSE queue[p]]
  /\ lost' = [c \in Computers |-> IF <<m, c>> \in connected THEN lost[c]
                                  ELSE lost[c] \cup {message.id}]

sendNothing == UNCHANGED <<queue, lost>>

\* start(), from the dialog, with the files and options selected there.
start(m) ==
  /\ ~ processTimer[m]
  /\ \E selected \in Selections, options \in Options :
       /\ selections' = selections + Len(selected)
       /\ selections' <= MaxFiles
       /\ files' = [files EXCEPT ![m] = selected]
       /\ flags' = [flags EXCEPT ![m] = options]
  /\ fileIndex' = [fileIndex EXCEPT ![m] = 1]
  /\ fileState' = [fileState EXCEPT ![m] = "Open"]
  /\ processTimer' = [processTimer EXCEPT ![m] = TRUE]
  /\ UNCHANGED <<transferId, reader, connected, queue, wire, serverVars, workerVars,
                 ids, lost, losses>>

\* stop(): the dialog is cancelled.
stop(m) ==
  /\ processTimer[m]
  /\ processTimer' = [processTimer EXCEPT ![m] = FALSE]
  /\ reader' = [reader EXCEPT ![m] = NoReader]
  /\ send(m, Plain("Cancel", transferId[m], NoFile))
  /\ UNCHANGED <<files, flags, fileIndex, fileState, transferId, connected, wire,
                 serverVars, workerVars, selections, ids, losses>>

\* process() in FileStateOpen: openFile().  A file that cannot be opened is skipped.
openFile(m) ==
  /\ processTimer[m] /\ fileState[m] = "Open"
  /\ \/ /\ fileState' = [fileState EXCEPT ![m] = "Transferring"]
        /\ reader' = [reader EXCEPT ![m] = [NoReader EXCEPT !.present = TRUE]]
        /\ ids' = ids + 1
        /\ transferId' = [transferId EXCEPT ![m] = ids']
        /\ send(m, [Plain("Start", ids', File(m)) EXCEPT
                      !.overwrite = "OverwriteExistingFiles" \in flags[m]])
     \/ /\ fileState' = [fileState EXCEPT ![m] = "Finished"]
        /\ sendNothing
        /\ UNCHANGED <<reader, ids, transferId>>
  /\ UNCHANGED <<processTimer, files, flags, fileIndex, connected, wire, serverVars,
                 workerVars, selections, losses>>

\* FileReadThread::readNextChunk() is posted to the event loop of the thread the object
\* lives in, the master's own: atEnd() sees what has been read before.
readNextChunk(m) ==
  /\ reader[m].present /\ ~ reader[m].ready
  /\ reader' = [reader EXCEPT ![m].ready = TRUE,
                              ![m].pos = IF @ < Size[File(m)] THEN @ + 1 ELSE @]
  /\ UNCHANGED <<processTimer, files, flags, fileIndex, fileState, transferId, connected,
                 queue, wire, serverVars, workerVars, selections, ids, lost, losses>>

\* Mutant: a computer that is not connected is waited for.
allQueuesEmpty_disconnected(m) == \A c \in Computers : queue[<<m, c>>] = <<>>

allQueuesEmpty(m) ==
  \A c \in Computers : <<m, c>> \in connected => queue[<<m, c>>] = <<>>

\* Mutant: the chunk read last is taken for sent.
atEnd_before(m) == reader[m].pos + 1 >= Size[File(m)]

atEnd(m) == reader[m].pos >= Size[File(m)]

\* process() in FileStateTransferring: transferFile().
transferFile(m) ==
  /\ processTimer[m] /\ fileState[m] = "Transferring"
  /\ allQueuesEmpty(m) /\ reader[m].ready
  /\ send(m, [Plain("Continue", transferId[m], NoFile) EXCEPT
                !.data = IF reader[m].pos = 0 THEN <<>> ELSE << <<File(m), reader[m].pos>> >>])
  /\ reader' = [reader EXCEPT ![m].ready = FALSE]
  /\ fileState' = [fileState EXCEPT ![m] = IF atEnd(m) THEN "Finished" ELSE @]
  /\ UNCHANGED <<processTimer, files, flags, fileIndex, transferId, connected, wire,
                 serverVars, workerVars, selections, ids, losses>>

\* Mutant: the index is compared before it is increased.
isLast_before(m) == fileIndex[m] > Len(files[m])

isLast(m) == fileIndex[m] + 1 > Len(files[m])

\* process() in FileStateFinished: finishFile(), then the next file or the end.
finishFile(m) ==
  /\ processTimer[m] /\ fileState[m] = "Finished"
  /\ LET finish == IF reader[m].present
                   THEN << Plain("Finish", transferId[m], File(m)) >> ELSE <<>>
         open == IF isLast(m) /\ "OpenTransferFolder" \in flags[m]
                 THEN << Plain("OpenTransferFolder", NoId, NoFile) >> ELSE <<>>
     IN /\ queue' = [p \in Pair |-> IF p[1] = m /\ p \in connected
                                    THEN queue[p] \o finish \o open ELSE queue[p]]
        /\ lost' = [c \in Computers |->
                      IF <<m, c>> \in connected \/ finish = <<>> THEN lost[c]
                      ELSE lost[c] \cup {transferId[m]}]
        /\ fileIndex' = [fileIndex EXCEPT ![m] = @ + 1]
        /\ processTimer' = [processTimer EXCEPT ![m] = ~ isLast(m)]
        /\ fileState' = [fileState EXCEPT ![m] = IF isLast(m) THEN @ ELSE "Open"]
  /\ transferId' = [transferId EXCEPT ![m] = IF reader[m].present THEN NoId ELSE @]
  /\ reader' = [reader EXCEPT ![m] = NoReader]
  /\ UNCHANGED <<files, flags, connected, wire, serverVars, workerVars, selections, ids, losses>>

process(m) == openFile(m) \/ transferFile(m) \/ finishFile(m)

-----------------------------------------------------------------------------
(* The connection of a master to a computer (VncConnection)                *)

IdsOf(messages) == {messages[i].id : i \in DOMAIN messages}

\* Bound: at most one message is on the way to the server.
sendEvents(m, c) ==
  LET p == <<m, c>> IN
  /\ p \in connected /\ queue[p] # <<>> /\ wire[p] = <<>>
  /\ wire' = [wire EXCEPT ![p] = Append(@, Head(queue[p]))]
  /\ queue' = [queue EXCEPT ![p] = Tail(@)]
  /\ UNCHANGED <<controllerVars, connected, serverVars, workerVars, selections, ids, lost, losses>>

\* What has been sent and not been read is lost, what is queued is kept.
LoseConnection(m, c) ==
  LET p == <<m, c>> IN
  /\ p \in connected /\ losses < MaxLosses
  /\ losses' = losses + 1
  /\ connected' = connected \ {p}
  /\ wire' = [wire EXCEPT ![p] = <<>>]
  /\ lost' = [lost EXCEPT ![c] = @ \cup IdsOf(wire[p])]
  /\ UNCHANGED <<controllerVars, queue, serverVars, workerVars, selections, ids>>

Reconnect(m, c) ==
  /\ <<m, c>> \notin connected
  /\ connected' = connected \cup {<<m, c>>}
  /\ UNCHANGED <<controllerVars, queue, wire, serverVars, workerVars, selections, ids, lost, losses>>

-----------------------------------------------------------------------------
(* The server                                                              *)

\* FileTransferPlugin::handleFeatureMessage(): the worker is started if there is
\* none, which fails and is retried later while there is no user session; only a
\* worker that counts as running gets the message.
forwardMessage(m, c) ==
  LET p == <<m, c>>
      message == Head(wire[p])
  IN
  /\ wire[p] # <<>>
  /\ wire' = [wire EXCEPT ![p] = Tail(@)]
  /\ \/ /\ inbox' = [inbox EXCEPT ![c] = Append(@, message)]
        /\ running' = running \cup {c}
        /\ UNCHANGED <<retries, lost>>
     \/ /\ c \notin running /\ retries[c] < MaxRetries
        /\ retries' = [retries EXCEPT ![c] = @ + 1]
        /\ lost' = [lost EXCEPT ![c] = @ \cup {message.id}]
        /\ UNCHANGED <<running, inbox>>
  /\ UNCHANGED <<controllerVars, connected, queue, workerVars, selections, ids, losses>>

\* The computer gets a new worker, or none; a file that was open stays as it is.
withoutWorker(c) ==
  /\ inbox' = [inbox EXCEPT ![c] = <<>>]
  /\ lost' = [lost EXCEPT ![c] = @ \cup IdsOf(inbox[c]) \cup {currentId[c]}]
  /\ fileName' = [fileName EXCEPT ![c] = NoFile]
  /\ isOpen' = isOpen \ {c}
  /\ currentId' = [currentId EXCEPT ![c] = NoId]
  /\ box' = box \ {c}
  /\ UNCHANGED <<controllerVars, connected, queue, wire, disk, writer, selections, ids>>

\* A retry of startWorker(): a worker started in the meantime is replaced.
retryWorker(c) ==
  /\ retries[c] > 0
  /\ retries' = [retries EXCEPT ![c] = @ - 1]
  /\ running' = running \cup {c}
  /\ withoutWorker(c)
  /\ UNCHANGED losses

\* The worker ends, for example with the user's session.
WorkerEnds(c) ==
  /\ c \in running /\ losses < MaxLosses
  /\ losses' = losses + 1
  /\ running' = running \ {c}
  /\ withoutWorker(c)
  /\ UNCHANGED retries

-----------------------------------------------------------------------------
(* The worker                                                              *)

\* The worker has handled its next message; a message box keeps it from the one
\* after that.
Handled(c, kind) ==
  /\ c \in running /\ c \notin box /\ inbox[c] # <<>>
  /\ Head(inbox[c]).kind = kind
  /\ inbox' = [inbox EXCEPT ![c] = Tail(@)]
  /\ UNCHANGED <<controllerVars, connected, queue, wire, running, retries, selections, ids, lost, losses>>

refused(c, message) == disk[c][message.file] # Absent /\ ~ message.overwrite

startFile(c) ==
  LET message == Head(inbox[c]) IN
  /\ Handled(c, "Start")
  /\ fileName' = [fileName EXCEPT ![c] = message.file]
  /\ \/ /\ ~ refused(c, message)
        /\ isOpen' = isOpen \cup {c}
        /\ currentId' = [currentId EXCEPT ![c] = message.id]
        /\ disk' = [disk EXCEPT ![c][message.file] = <<>>]
        /\ writer' = [writer EXCEPT ![c][message.file] = message.id]
        /\ UNCHANGED box
     \* The file exists, or cannot be opened for writing.
     \/ /\ isOpen' = isOpen \ {c}
        /\ box' = box \cup {c}
        /\ UNCHANGED <<currentId, disk, writer>>

\* Mutant: the worker does not compare transfer ids.
current_any(c, message) == TRUE

current(c, message) == message.id = currentId[c]

continueFile(c) ==
  LET message == Head(inbox[c]) IN
  /\ Handled(c, "Continue")
  /\ disk' = IF current(c, message) /\ c \in isOpen
             THEN [disk EXCEPT ![c][fileName[c]] = @ \o message.data] ELSE disk
  /\ UNCHANGED <<fileName, isOpen, currentId, box, writer>>

\* QFile::remove() needs a file name, and closes the file.
cancelFile(c) ==
  LET removes == current(c, Head(inbox[c])) /\ fileName[c] # NoFile IN
  /\ Handled(c, "Cancel")
  /\ disk' = IF removes THEN [disk EXCEPT ![c][fileName[c]] = Absent] ELSE disk
  /\ isOpen' = IF removes THEN isOpen \ {c} ELSE isOpen
  /\ UNCHANGED <<fileName, currentId, box, writer>>

\* The message's transfer id is not looked at.
closeFile(c) ==
  /\ Handled(c, "Finish")
  /\ isOpen' = isOpen \ {c}
  /\ fileName' = [fileName EXCEPT ![c] = NoFile]
  /\ UNCHANGED <<currentId, box, disk, writer>>

openTransferFolder(c) ==
  /\ Handled(c, "OpenTransferFolder")
  /\ UNCHANGED workerVars

\* The user closes the message box (external).
CloseBox(c) ==
  /\ c \in box
  /\ box' = box \ {c}
  /\ UNCHANGED <<controllerVars, connected, queue, wire, serverVars, fileName, isOpen,
                 currentId, disk, writer, selections, ids, lost, losses>>

-----------------------------------------------------------------------------

MasterStep(m) == start(m) \/ stop(m) \/ process(m) \/ readNextChunk(m)

LinkStep(m, c) ==
  sendEvents(m, c) \/ LoseConnection(m, c) \/ Reconnect(m, c) \/ forwardMessage(m, c)

WorkerStep(c) ==
  \/ startFile(c) \/ continueFile(c) \/ cancelFile(c) \/ closeFile(c)
  \/ openTransferFolder(c) \/ CloseBox(c) \/ retryWorker(c) \/ WorkerEnds(c)

Next ==
  \/ \E m \in Masters : MasterStep(m)
  \/ \E m \in Masters, c \in Computers : LinkStep(m, c)
  \/ \E c \in Computers : WorkerStep(c)

Spec == Init /\ [][Next]_vars

\* The master's timers, the connections' threads and the servers go on; the workers
\* and their users need not.
Fairness ==
  /\ \A m \in Masters : WF_vars(process(m)) /\ WF_vars(readNextChunk(m))
  /\ \A m \in Masters, c \in Computers :
       WF_vars(sendEvents(m, c)) /\ WF_vars(forwardMessage(m, c))

FairSpec == Spec /\ Fairness

-----------------------------------------------------------------------------
(* Properties                                                              *)

TypeOK ==
  /\ processTimer \in [Masters -> BOOLEAN]
  /\ files \in [Masters -> {<<>>} \cup Selections]
  /\ flags \in [Masters -> SUBSET Flag]
  /\ fileIndex \in [Masters -> Nat]
  /\ fileState \in [Masters -> {"Open", "Transferring", "Finished"}]
  /\ \A m \in Masters : processTimer[m] => fileIndex[m] \in DOMAIN files[m]
  /\ transferId \in [Masters -> TransferId]
  /\ reader \in [Masters -> Reader]
  /\ connected \subseteq Pair
  /\ queue \in [Pair -> Seq(Message)]
  /\ wire \in [Pair -> Seq(Message)]
  /\ running \subseteq Computers
  /\ retries \in [Computers -> 0..MaxRetries]
  /\ inbox \in [Computers -> Seq(Message)]
  /\ fileName \in [Computers -> Files \cup {NoFile}]
  /\ isOpen \subseteq Computers
  /\ currentId \in [Computers -> TransferId]
  /\ box \subseteq Computers
  /\ disk \in [Computers -> [Files -> Seq(Chunk) \cup {Absent, Old}]]
  /\ selections \in 0..MaxFiles
  /\ ids \in TransferId
  /\ writer \in [Computers -> [Files -> TransferId]]
  /\ lost \in [Computers -> SUBSET TransferId]
  /\ losses \in 0..MaxLosses

\* The transfer has ended on the master and no message of it is under way.
Over(id, c) ==
  /\ \A m \in Masters : ~ (transferId[m] = id /\ processTimer[m])
  /\ \A m \in Masters : id \notin IdsOf(queue[<<m, c>>]) \cup IdsOf(wire[<<m, c>>])
  /\ id \notin IdsOf(inbox[c])

\* The worker keeps one file and one transfer id, and neither a refused Start nor a
\* Finish looks at the id: two masters at a time can end and remove each other's files.
OneMaster == \E m \in Masters : Masters = {m}

\* With one master, a computer that got all messages of a transfer has the whole file
\* in the end, or, if the transfer was cancelled, none: whatever was lost before or
\* after, never a part of it (process(), handleFeatureMessage()).
ReceivedIsComplete ==
  OneMaster => \A c \in Computers, f \in Files :
    LET id == writer[c][f] IN
    id # NoId /\ id \notin lost[c] /\ Over(id, c) => disk[c][f] \in {Absent, Source(f)}

\* A Cancel without a transfer id, which the controller sends between two files, meets
\* a worker that has accepted no file yet and has refused this one; the Finish that
\* would have made the worker forget the name was lost.
RefusedIsRemoved(c, f) ==
  /\ Head(inbox[c]).kind = "Cancel" /\ Head(inbox[c]).id = NoId
  /\ currentId[c] = NoId /\ fileName[c] = f
  /\ lost[c] # {}

\* With one master, a file that is there is only changed by the transfer that created it,
\* by a Start message with the option to overwrite, or, refused, after messages were lost:
\* as long as no message is lost a refused file and everything received earlier stay,
\* whatever is cancelled (FileTransferStartCommand, FileTransferCancelCommand).
ExistingFilesAreKept ==
  [][OneMaster => \A c \in Computers, f \in Files :
       disk[c][f] # Absent /\ disk'[c][f] # disk[c][f] =>
         LET message == Head(inbox[c]) IN
         \/ message.kind = "Start" /\ message.overwrite /\ message.file = f
         \/ message.id = writer[c][f] /\ message.id # NoId
         \/ RefusedIsRemoved(c, f)]_vars

\* A file that was there and that no transfer has written is as it was: an existing file
\* is only replaced with the option "Overwrite existing files", and is otherwise refused
\* "as it already exists" (FileTransferStartCommand).
UnwrittenFilesAreKept ==
  \A c \in Computers, f \in Existing : writer[c][f] = NoId => disk[c][f] = Old

\* Every transfer ends, even if connections are lost while it waits for their queues
\* (transferFile(), allQueuesEmpty()).
TransferEnds == \A m \in Masters : processTimer[m] ~> ~ processTimer[m]

=============================================================================
