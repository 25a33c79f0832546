--------------------------- MODULE FileTransferProofs ---------------------------
(***************************************************************************)
(* Theorems about FileTransfer for any number of masters, computers and    *)
(* files: type correctness, and, for one master, that a computer which got *)
(* all messages of a transfer has the whole file or none and that existing *)
(* files are kept.                                                         *)
(***************************************************************************)
EXTENDS FileTransfer, SequenceTheorems, TLAPS

-----------------------------------------------------------------------------
(* Type correctness                                                        *)

\* What the controller sends: a Start names a file and has an id, and so has a Finish;
\* a message carries one chunk at most.
GoodMessage ==
  {message \in Message :
     /\ message.kind = "Start" => message.file \in Files
     /\ message.kind \in {"Start", "Finish"} => message.id # NoId
     /\ Len(message.data) <= 1}

MessageTypes ==
  /\ queue \in [Pair -> Seq(GoodMessage)]
  /\ wire \in [Pair -> Seq(GoodMessage)]
  /\ inbox \in [Computers -> Seq(GoodMessage)]

\* The worker only writes to a file it has created or truncated; it has a name.
OpenFiles ==
  \A c \in isOpen : fileName[c] \in Files /\ disk[c][fileName[c]] \in Seq(Chunk)

\* A reader belongs to a transfer that is going on.
ReaderTypes ==
  \A m \in Masters :
    /\ processTimer[m] /\ fileState[m] = "Transferring" => reader[m].present
    /\ reader[m].present => processTimer[m] /\ fileState[m] # "Open" /\ transferId[m] # NoId

TypeInv == TypeOK /\ MessageTypes /\ OpenFiles /\ ReaderTypes

LEMMA FileTypes ==
  /\ \A selected \in Selections : selected \in Seq(Files) /\ 1 \in DOMAIN selected
  /\ \A f \in Files : Size[f] \in Nat
  /\ NoFile \notin Files /\ Existing \subseteq Files
  BY FileTransferAssumption

LEMMA CurrentFile ==
  ASSUME TypeOK, NEW m \in Masters, processTimer[m]
  PROVE  File(m) \in Files /\ Size[File(m)] \in Nat
<1>1. fileIndex[m] \in DOMAIN files[m] /\ files[m] \in {<<>>} \cup Selections
  BY DEF TypeOK
<1>2. files[m] \in Seq(Files)
  BY <1>1, FileTypes
<1> QED
  BY <1>1, <1>2, FileTypes DEF File

LEMMA TypeInit == Init => TypeInv
<1> SUFFICES ASSUME Init PROVE TypeInv
  OBVIOUS
<1>1. MessageTypes /\ OpenFiles /\ ReaderTypes
  BY DEF Init, MessageTypes, OpenFiles, ReaderTypes, NoReader
<1>2. queue \in [Pair -> Seq(Message)] /\ wire \in [Pair -> Seq(Message)] /\ inbox \in [Computers -> Seq(Message)]
  BY DEF Init
<1>3. reader \in [Masters -> Reader] /\ transferId \in [Masters -> TransferId] /\ ids \in TransferId
  BY DEF Init, NoReader, Reader, TransferId, NoId
<1>4. /\ currentId \in [Computers -> TransferId] /\ writer \in [Computers -> [Files -> TransferId]]
      /\ lost \in [Computers -> SUBSET TransferId]
  BY DEF Init, TransferId, NoId
<1>5. disk \in [Computers -> [Files -> Seq(Chunk) \cup {Absent, Old}]]
  BY DEF Init
<1>6. /\ retries \in [Computers -> 0..MaxRetries]
      /\ selections \in 0..MaxFiles /\ losses \in 0..MaxLosses
  BY FileTransferAssumption DEF Init
<1> QED
  BY <1>1, <1>2, <1>3, <1>4, <1>5, <1>6 DEF Init, TypeInv, TypeOK

-----------------------------------------------------------------------------
(* The steps of a master                                                   *)

LEMMA GoodIsMessage == GoodMessage \subseteq Message
  BY DEF GoodMessage

\* A message to the queues of all computers.
LEMMA SendTypes ==
  ASSUME TypeInv, NEW m \in Masters, NEW message \in GoodMessage, send(m, message)
  PROVE  /\ queue' \in [Pair -> Seq(GoodMessage)]
         /\ lost' \in [Computers -> SUBSET TransferId]
<1>1. ASSUME NEW p \in Pair
      PROVE  Append(queue[p], message) \in Seq(GoodMessage)
  BY DEF TypeInv, MessageTypes
<1>2. message.id \in TransferId
  BY GoodIsMessage DEF Message
<1> QED
  BY <1>1, <1>2 DEF send, TypeInv, TypeOK, MessageTypes

LEMMA PlainIsGood ==
  ASSUME NEW kind \in {"Cancel", "Finish", "OpenTransferFolder", "Continue"}, NEW id \in TransferId,
         NEW file \in Files \cup {NoFile}, kind = "Finish" => id # NoId
  PROVE  Plain(kind, id, file) \in GoodMessage
  BY DEF Plain, GoodMessage, Message

LEMMA StartIsGood ==
  ASSUME NEW id \in TransferId, id # NoId, NEW file \in Files, NEW overwrite \in BOOLEAN
  PROVE  [Plain("Start", id, file) EXCEPT !.overwrite = overwrite] \in GoodMessage
<1> DEFINE message == [Plain("Start", id, file) EXCEPT !.overwrite = overwrite]
<1> SUFFICES message \in GoodMessage
  OBVIOUS
<1>1. <<>> \in Seq(Chunk) /\ Len(<<>>) = 0
  OBVIOUS
<1>2. message \in Message
  BY <1>1 DEF Plain, Message
<1>3. message.kind = "Start" /\ message.file = file /\ message.id = id /\ message.data = <<>>
  BY DEF Plain
<1> HIDE DEF message
<1> QED
  BY <1>1, <1>2, <1>3 DEF GoodMessage

LEMMA ContinueIsGood ==
  ASSUME NEW id \in TransferId, NEW data, data = <<>> \/ \E x \in Chunk : data = <<x>>
  PROVE  [Plain("Continue", id, NoFile) EXCEPT !.data = data] \in GoodMessage
<1> DEFINE message == [Plain("Continue", id, NoFile) EXCEPT !.data = data]
<1> SUFFICES message \in GoodMessage
  OBVIOUS
<1>1. data \in Seq(Chunk) /\ Len(data) <= 1
  <2>1. CASE data = <<>>
    BY <2>1
  <2>2. CASE \E x \in Chunk : data = <<x>>
    BY <2>2
  <2> QED
    BY <2>1, <2>2
<1>2. message \in Message
  BY <1>1 DEF Plain, Message
<1>3. message.kind = "Continue" /\ message.data = data
  BY DEF Plain
<1> HIDE DEF message
<1> QED
  BY <1>1, <1>2, <1>3 DEF GoodMessage

\* The parts of the type invariant that are about the controllers.
ControllerTypes ==
  /\ processTimer \in [Masters -> BOOLEAN]
  /\ files \in [Masters -> {<<>>} \cup Selections]
  /\ flags \in [Masters -> SUBSET Flag]
  /\ fileIndex \in [Masters -> Nat]
  /\ fileState \in [Masters -> {"Open", "Transferring", "Finished"}]
  /\ \A m \in Masters : processTimer[m] => fileIndex[m] \in DOMAIN files[m]
  /\ transferId \in [Masters -> TransferId]
  /\ reader \in [Masters -> Reader]
  /\ selections \in 0..MaxFiles
  /\ ids \in TransferId
  /\ ReaderTypes

LEMMA StartTypes ==
  ASSUME TypeInv, NEW m \in Masters, start(m)
  PROVE  ControllerTypes'
<1>1. PICK selected \in Selections, options \in Options :
        /\ selections' = selections + Len(selected) /\ selections' <= MaxFiles
        /\ files' = [files EXCEPT ![m] = selected]
        /\ flags' = [flags EXCEPT ![m] = options]
  BY DEF start
<1>2. selected \in Seq(Files) /\ 1 \in DOMAIN selected /\ options \in SUBSET Flag
  BY FileTypes, FileTransferAssumption
<1>3. selections' \in 0..MaxFiles
  BY <1>1, <1>2, FileTransferAssumption DEF TypeInv, TypeOK
<1>4. files' \in [Masters -> {<<>>} \cup Selections] /\ flags' \in [Masters -> SUBSET Flag]
  BY <1>1, <1>2 DEF TypeInv, TypeOK
<1>5. \A n \in Masters : processTimer'[n] => fileIndex'[n] \in DOMAIN files'[n]
  BY <1>1, <1>2 DEF start, TypeInv, TypeOK
<1> QED
  BY <1>3, <1>4, <1>5 DEF start, TypeInv, TypeOK, ControllerTypes, ReaderTypes

LEMMA StopTypes ==
  ASSUME TypeInv, NEW m \in Masters, stop(m)
  PROVE  /\ ControllerTypes'
         /\ queue' \in [Pair -> Seq(GoodMessage)] /\ lost' \in [Computers -> SUBSET TransferId]
<1>1. Plain("Cancel", transferId[m], NoFile) \in GoodMessage
  BY PlainIsGood DEF TypeInv, TypeOK
<1>2. queue' \in [Pair -> Seq(GoodMessage)] /\ lost' \in [Computers -> SUBSET TransferId]
  BY <1>1, SendTypes DEF stop
<1>3. NoReader \in Reader /\ ~ NoReader.present
  BY DEF NoReader, Reader
<1> QED
  BY <1>2, <1>3 DEF stop, TypeInv, TypeOK, ControllerTypes, ReaderTypes

LEMMA OpenFileTypes ==
  ASSUME TypeInv, NEW m \in Masters, openFile(m)
  PROVE  /\ ControllerTypes'
         /\ queue' \in [Pair -> Seq(GoodMessage)] /\ lost' \in [Computers -> SUBSET TransferId]
<1>1. CASE fileState' = [fileState EXCEPT ![m] = "Finished"]
  BY <1>1 DEF openFile, sendNothing, TypeInv, TypeOK, MessageTypes, ControllerTypes, ReaderTypes
<1>2. CASE /\ fileState' = [fileState EXCEPT ![m] = "Transferring"]
           /\ reader' = [reader EXCEPT ![m] = [NoReader EXCEPT !.present = TRUE]]
           /\ ids' = ids + 1
           /\ transferId' = [transferId EXCEPT ![m] = ids']
           /\ send(m, [Plain("Start", ids', File(m)) EXCEPT
                         !.overwrite = "OverwriteExistingFiles" \in flags[m]])
  <2>1. ids' \in TransferId /\ ids' # NoId
    BY <1>2 DEF TypeInv, TypeOK, TransferId, NoId
  <2>2. File(m) \in Files
    BY CurrentFile DEF openFile, TypeInv
  <2>3. [Plain("Start", ids', File(m)) EXCEPT !.overwrite = "OverwriteExistingFiles" \in flags[m]]
          \in GoodMessage
    <3>1. ("OverwriteExistingFiles" \in flags[m]) \in BOOLEAN
      OBVIOUS
    <3>2. ids' \in TransferId /\ File(m) \in Files /\ ids' # NoId
      BY <2>1, <2>2
    <3> QED
      BY <3>1, <3>2, StartIsGood, Zenon
  <2>4. queue' \in [Pair -> Seq(GoodMessage)] /\ lost' \in [Computers -> SUBSET TransferId]
    BY <1>2, <2>3, SendTypes
  <2>5. [NoReader EXCEPT !.present = TRUE] \in Reader
    BY DEF NoReader, Reader
  <2> QED
    BY <1>2, <2>1, <2>4, <2>5 DEF openFile, TypeInv, TypeOK, ControllerTypes, ReaderTypes
<1> QED
  BY <1>1, <1>2 DEF openFile

LEMMA ReadNextChunkTypes ==
  ASSUME TypeInv, NEW m \in Masters, readNextChunk(m)
  PROVE  ControllerTypes'
<1>1. reader[m] \in Reader /\ reader[m].pos + 1 \in Nat
  BY DEF TypeInv, TypeOK, Reader
<1>2. reader'[m] \in Reader /\ reader'[m].present = reader[m].present
  BY <1>1 DEF readNextChunk, TypeInv, TypeOK, Reader
<1>3. reader' \in [Masters -> Reader]
  BY <1>2 DEF readNextChunk, TypeInv, TypeOK
<1>4. \A n \in Masters : reader'[n].present = reader[n].present
  BY <1>2 DEF readNextChunk, TypeInv, TypeOK
<1> QED
  BY <1>3, <1>4 DEF readNextChunk, TypeInv, TypeOK, ControllerTypes, ReaderTypes

LEMMA TransferFileTypes ==
  ASSUME TypeInv, NEW m \in Masters, transferFile(m)
  PROVE  /\ ControllerTypes'
         /\ queue' \in [Pair -> Seq(GoodMessage)] /\ lost' \in [Computers -> SUBSET TransferId]
<1> DEFINE data == IF reader[m].pos = 0 THEN <<>> ELSE << <<File(m), reader[m].pos>> >>
           message == [Plain("Continue", transferId[m], NoFile) EXCEPT !.data = data]
<1>1. File(m) \in Files /\ reader[m] \in Reader /\ transferId[m] \in TransferId
  BY CurrentFile DEF transferFile, TypeInv, TypeOK
<1>2. data = <<>> \/ \E x \in Chunk : data = <<x>>
  BY <1>1 DEF Chunk, Reader
<1>3. message \in GoodMessage
  <2> HIDE DEF data
  <2> QED
    BY <1>1, <1>2, ContinueIsGood
<1>4. send(m, message)
  BY DEF transferFile
<1>5. queue' \in [Pair -> Seq(GoodMessage)] /\ lost' \in [Computers -> SUBSET TransferId]
  <2> HIDE DEF message
  <2> QED
    BY <1>3, <1>4, SendTypes
<1>6. reader' \in [Masters -> Reader] /\ \A n \in Masters : reader'[n].present = reader[n].present
  BY <1>1 DEF transferFile, TypeInv, TypeOK, Reader
<1>7. fileState' \in [Masters -> {"Open", "Transferring", "Finished"}]
  BY DEF transferFile, TypeInv, TypeOK
<1>8. \A n \in Masters : fileState'[n] = fileState[n] \/ fileState'[n] = "Finished"
  BY DEF transferFile, TypeInv, TypeOK
<1> QED
  BY <1>5, <1>6, <1>7, <1>8 DEF transferFile, TypeInv, TypeOK, ControllerTypes, ReaderTypes

LEMMA FinishFileTypes ==
  ASSUME TypeInv, NEW m \in Masters, finishFile(m)
  PROVE  /\ ControllerTypes'
         /\ queue' \in [Pair -> Seq(GoodMessage)] /\ lost' \in [Computers -> SUBSET TransferId]
<1> DEFINE finish == IF reader[m].present THEN << Plain("Finish", transferId[m], File(m)) >> ELSE <<>>
           open == IF isLast(m) /\ "OpenTransferFolder" \in flags[m]
                   THEN << Plain("OpenTransferFolder", NoId, NoFile) >> ELSE <<>>
<1>1. File(m) \in Files /\ transferId[m] \in TransferId /\ NoId \in TransferId
  BY CurrentFile DEF finishFile, TypeInv, TypeOK, TransferId, NoId
<1>2. reader[m].present => transferId[m] # NoId
  BY DEF TypeInv, ReaderTypes
<1>3. finish \in Seq(GoodMessage)
  BY <1>1, <1>2, PlainIsGood
<1>4. open \in Seq(GoodMessage)
  BY <1>1, PlainIsGood
<1>5. \A p \in Pair : queue[p] \o finish \o open \in Seq(GoodMessage)
  <2> HIDE DEF finish, open
  <2> QED
    BY <1>3, <1>4, ConcatProperties DEF TypeInv, MessageTypes
<1>6. /\ queue' = [p \in Pair |-> IF p[1] = m /\ p \in connected
                                  THEN queue[p] \o finish \o open ELSE queue[p]]
      /\ lost' = [c \in Computers |-> IF <<m, c>> \in connected \/ finish = <<>> THEN lost[c]
                                      ELSE lost[c] \cup {transferId[m]}]
  BY DEF finishFile
<1>7. queue' \in [Pair -> Seq(GoodMessage)] /\ lost' \in [Computers -> SUBSET TransferId]
  <2> HIDE DEF finish, open
  <2> QED
    BY <1>1, <1>5, <1>6 DEF TypeInv, TypeOK, MessageTypes
<1>8. fileIndex[m] \in Nat /\ (fileIndex' = [fileIndex EXCEPT ![m] = fileIndex[m] + 1])
  BY DEF finishFile, TypeInv, TypeOK
<1>9. \A n \in Masters : processTimer'[n] => fileIndex'[n] \in DOMAIN files'[n]
  <2> SUFFICES ASSUME NEW n \in Masters, processTimer'[n]
               PROVE  fileIndex'[n] \in DOMAIN files'[n]
    OBVIOUS
  <2>1. files' = files /\ files[n] \in Seq(Files)
    BY FileTypes DEF finishFile, TypeInv, TypeOK
  <2>2. CASE n = m
    <3>1. ~ isLast(m)
      BY <2>2 DEF finishFile, TypeInv, TypeOK
    <3> QED
      BY <1>8, <2>1, <2>2, <3>1 DEF isLast, TypeInv, TypeOK
  <2>3. CASE n # m
    BY <1>8, <2>1, <2>3 DEF finishFile, TypeInv, TypeOK
  <2> QED
    BY <2>2, <2>3
<1>10. NoReader \in Reader /\ ~ NoReader.present
  BY DEF NoReader, Reader
<1>11. /\ transferId' \in [Masters -> TransferId]
       /\ \A n \in Masters : n # m => transferId'[n] = transferId[n]
  BY <1>1 DEF finishFile, TypeInv, TypeOK
<1>12. /\ processTimer' \in [Masters -> BOOLEAN]
       /\ \A n \in Masters : n # m => processTimer'[n] = processTimer[n]
  BY DEF finishFile, TypeInv, TypeOK, isLast
<1>13. /\ fileState' \in [Masters -> {"Open", "Transferring", "Finished"}]
       /\ \A n \in Masters : n # m => fileState'[n] = fileState[n]
       /\ fileState'[m] # "Transferring"
  BY DEF finishFile, TypeInv, TypeOK
<1>14. /\ reader' \in [Masters -> Reader]
       /\ \A n \in Masters : n # m => reader'[n] = reader[n]
       /\ ~ reader'[m].present
  BY <1>10 DEF finishFile, TypeInv, TypeOK
<1>15. ReaderTypes'
  BY <1>11, <1>12, <1>13, <1>14 DEF ReaderTypes, TypeInv
<1> QED
  BY <1>7, <1>8, <1>9, <1>11, <1>12, <1>13, <1>14, <1>15 DEF finishFile, TypeInv, TypeOK, ControllerTypes

LEMMA MasterTypes ==
  ASSUME TypeInv, NEW m \in Masters, MasterStep(m)
  PROVE  TypeInv'
<1>1. /\ ControllerTypes'
      /\ queue' \in [Pair -> Seq(GoodMessage)] /\ lost' \in [Computers -> SUBSET TransferId]
  <2>1. CASE start(m)
    BY <2>1, StartTypes DEF start, TypeInv, TypeOK, MessageTypes
  <2>2. CASE stop(m)
    BY <2>2, StopTypes
  <2>3. CASE openFile(m)
    BY <2>3, OpenFileTypes
  <2>4. CASE transferFile(m)
    BY <2>4, TransferFileTypes
  <2>5. CASE finishFile(m)
    BY <2>5, FinishFileTypes
  <2>6. CASE readNextChunk(m)
    BY <2>6, ReadNextChunkTypes DEF readNextChunk, TypeInv, TypeOK, MessageTypes
  <2> QED
    BY <2>1, <2>2, <2>3, <2>4, <2>5, <2>6 DEF MasterStep, process
<1>2. UNCHANGED <<connected, wire, serverVars, workerVars, losses>>
  BY DEF MasterStep, process, start, stop, openFile, transferFile, finishFile, readNextChunk
<1>3. queue' \in [Pair -> Seq(Message)]
  BY <1>1, GoodIsMessage, SeqMonotonic
<1> QED
  BY <1>1, <1>2, <1>3 DEF TypeInv, TypeOK, MessageTypes, OpenFiles, ReaderTypes, ControllerTypes,
     serverVars, workerVars

-----------------------------------------------------------------------------
(* The steps of a connection and of the server                             *)

LEMMA MessageIds ==
  ASSUME NEW messages \in Seq(GoodMessage)
  PROVE  IdsOf(messages) \subseteq TransferId
<1>1. \A i \in DOMAIN messages : messages[i] \in Message
  BY GoodIsMessage
<1> QED
  BY <1>1 DEF IdsOf, Message

\* The parts of the type invariant that a connection or the server changes.
LEMMA LinkTypes ==
  ASSUME TypeInv, NEW m \in Masters, NEW c \in Computers, LinkStep(m, c)
  PROVE  TypeInv'
<1> DEFINE p == <<m, c>>
<1>1. /\ p \in Pair /\ queue[p] \in Seq(GoodMessage) /\ wire[p] \in Seq(GoodMessage)
      /\ inbox[c] \in Seq(GoodMessage)
  BY DEF Pair, TypeInv, MessageTypes
<1>2. /\ queue' \in [Pair -> Seq(GoodMessage)] /\ wire' \in [Pair -> Seq(GoodMessage)]
      /\ inbox' \in [Computers -> Seq(GoodMessage)]
      /\ lost' \in [Computers -> SUBSET TransferId]
      /\ connected' \subseteq Pair /\ losses' \in 0..MaxLosses
      /\ retries' \in [Computers -> 0..MaxRetries] /\ running' \subseteq Computers
      /\ UNCHANGED <<controllerVars, workerVars, selections, ids>>
  <2>1. CASE sendEvents(m, c)
    <3>1. Head(queue[p]) \in GoodMessage /\ Tail(queue[p]) \in Seq(GoodMessage)
      BY <1>1, <2>1 DEF sendEvents
    <3>2. Append(wire[p], Head(queue[p])) \in Seq(GoodMessage)
      BY <1>1, <3>1
    <3> QED
      BY <2>1, <3>1, <3>2 DEF sendEvents, TypeInv, TypeOK, MessageTypes, serverVars
  <2>2. CASE LoseConnection(m, c)
    <3>1. IdsOf(wire[p]) \subseteq TransferId
      BY <1>1, MessageIds
    <3>2. losses' \in 0..MaxLosses
      BY <2>2, FileTransferAssumption DEF LoseConnection, TypeInv, TypeOK
    <3>3. lost' \in [Computers -> SUBSET TransferId]
      BY <2>2, <3>1 DEF LoseConnection, TypeInv, TypeOK
    <3>4. wire' \in [Pair -> Seq(GoodMessage)]
      <4>1. <<>> \in Seq(GoodMessage) /\ wire' = [wire EXCEPT ![p] = <<>>]
        BY <2>2 DEF LoseConnection
      <4> QED
        BY <4>1 DEF TypeInv, MessageTypes
    <3> QED
      BY <2>2, <3>2, <3>3, <3>4 DEF LoseConnection, TypeInv, TypeOK, MessageTypes, serverVars
  <2>3. CASE Reconnect(m, c)
    BY <1>1, <2>3 DEF Reconnect, TypeInv, TypeOK, MessageTypes, serverVars
  <2>4. CASE forwardMessage(m, c)
    <3>1. /\ Head(wire[p]) \in GoodMessage /\ Tail(wire[p]) \in Seq(GoodMessage)
          /\ Head(wire[p]).id \in TransferId
      BY <1>1, <2>4, GoodIsMessage DEF forwardMessage, Message
    <3>2. Append(inbox[c], Head(wire[p])) \in Seq(GoodMessage)
      BY <1>1, <3>1
    <3>3. CASE /\ inbox' = [inbox EXCEPT ![c] = Append(@, Head(wire[p]))]
               /\ running' = running \cup {c}
               /\ UNCHANGED <<retries, lost>>
      BY <2>4, <3>1, <3>2, <3>3 DEF forwardMessage, TypeInv, TypeOK, MessageTypes
    <3>4. CASE /\ c \notin running /\ retries[c] < MaxRetries
               /\ retries' = [retries EXCEPT ![c] = @ + 1]
               /\ lost' = [lost EXCEPT ![c] = @ \cup {Head(wire[p]).id}]
               /\ UNCHANGED <<running, inbox>>
      <4>1. retries[c] + 1 \in 0..MaxRetries
        BY <3>4, FileTransferAssumption DEF TypeInv, TypeOK
      <4> QED
        BY <2>4, <3>1, <3>4, <4>1 DEF forwardMessage, TypeInv, TypeOK, MessageTypes
    <3> QED
      BY <2>4, <3>3, <3>4 DEF forwardMessage
  <2> QED
    BY <2>1, <2>2, <2>3, <2>4 DEF LinkStep
<1>3. queue' \in [Pair -> Seq(Message)] /\ wire' \in [Pair -> Seq(Message)] /\ inbox' \in [Computers -> Seq(Message)]
  BY <1>2, GoodIsMessage, SeqMonotonic
<1> QED
  BY <1>2, <1>3 DEF TypeInv, TypeOK, MessageTypes, OpenFiles, ReaderTypes, controllerVars, workerVars

-----------------------------------------------------------------------------
(* The steps of a worker                                                   *)

\* The parts of the type invariant that a worker changes.
WorkerTypes ==
  /\ fileName \in [Computers -> Files \cup {NoFile}]
  /\ isOpen \subseteq Computers
  /\ currentId \in [Computers -> TransferId]
  /\ box \subseteq Computers
  /\ disk \in [Computers -> [Files -> Seq(Chunk) \cup {Absent, Old}]]
  /\ writer \in [Computers -> [Files -> TransferId]]
  /\ OpenFiles

LEMMA HeadTypes ==
  ASSUME TypeInv, NEW c \in Computers, inbox[c] # <<>>
  PROVE  /\ Head(inbox[c]) \in GoodMessage /\ Head(inbox[c]) \in Message
         /\ Tail(inbox[c]) \in Seq(GoodMessage)
<1>1. inbox[c] \in Seq(GoodMessage)
  BY DEF TypeInv, MessageTypes
<1> QED
  BY <1>1, GoodIsMessage

LEMMA StartFileTypes ==
  ASSUME TypeInv, NEW c \in Computers, startFile(c)
  PROVE  WorkerTypes'
<1> DEFINE message == Head(inbox[c])
<1>1. message.file \in Files /\ message.id \in TransferId
  BY HeadTypes DEF startFile, Handled, GoodMessage, Message
<1>2. fileName' = [fileName EXCEPT ![c] = message.file]
  BY DEF startFile
<1>3. CASE /\ isOpen' = isOpen \cup {c}
           /\ currentId' = [currentId EXCEPT ![c] = message.id]
           /\ disk' = [disk EXCEPT ![c][message.file] = <<>>]
           /\ writer' = [writer EXCEPT ![c][message.file] = message.id]
           /\ UNCHANGED box
  <2>1. <<>> \in Seq(Chunk)
    OBVIOUS
  <2> HIDE DEF message
  <2>2. disk' \in [Computers -> [Files -> Seq(Chunk) \cup {Absent, Old}]]
    BY <1>1, <1>3, <2>1 DEF TypeInv, TypeOK
  <2>3. writer' \in [Computers -> [Files -> TransferId]]
    BY <1>1, <1>3 DEF TypeInv, TypeOK
  <2>4. OpenFiles'
    BY <1>1, <1>2, <1>3, <2>1 DEF TypeInv, TypeOK, OpenFiles
  <2> QED
    BY <1>1, <1>2, <1>3, <2>2, <2>3, <2>4 DEF TypeInv, TypeOK, WorkerTypes
<1>4. CASE /\ isOpen' = isOpen \ {c}
           /\ box' = box \cup {c}
           /\ UNCHANGED <<currentId, disk, writer>>
  <2> HIDE DEF message
  <2> QED
    BY <1>1, <1>2, <1>4 DEF TypeInv, TypeOK, WorkerTypes, OpenFiles
<1> QED
  BY <1>3, <1>4 DEF startFile

LEMMA ContinueFileTypes ==
  ASSUME TypeInv, NEW c \in Computers, continueFile(c)
  PROVE  WorkerTypes'
<1> DEFINE message == Head(inbox[c])
<1>1. message.data \in Seq(Chunk)
  BY HeadTypes DEF continueFile, Handled, Message
<1>2. CASE current(c, message) /\ c \in isOpen
  <2>1. fileName[c] \in Files /\ disk[c][fileName[c]] \in Seq(Chunk)
    BY <1>2 DEF TypeInv, OpenFiles
  <2>2. disk[c][fileName[c]] \o message.data \in Seq(Chunk)
    <3> HIDE DEF message
    <3> QED
      BY <1>1, <2>1, ConcatProperties
  <2>3. disk' = [disk EXCEPT ![c][fileName[c]] = @ \o message.data]
    BY <1>2 DEF continueFile
  <2> HIDE DEF message
  <2>4. disk' \in [Computers -> [Files -> Seq(Chunk) \cup {Absent, Old}]]
    BY <2>1, <2>2, <2>3 DEF TypeInv, TypeOK
  <2>5. /\ disk'[c][fileName[c]] = disk[c][fileName[c]] \o message.data
        /\ \A d \in Computers : d # c => disk'[d] = disk[d]
    BY <2>1, <2>3 DEF TypeInv, TypeOK
  <2>6. OpenFiles'
    <3>1. fileName' = fileName /\ isOpen' = isOpen /\ isOpen \subseteq Computers
      BY DEF continueFile, TypeInv, TypeOK
    <3> QED
      BY <2>1, <2>2, <2>5, <3>1 DEF TypeInv, OpenFiles
  <2> QED
    BY <2>4, <2>6 DEF continueFile, TypeInv, TypeOK, WorkerTypes
<1>3. CASE ~ (current(c, message) /\ c \in isOpen)
  BY <1>3 DEF continueFile, TypeInv, TypeOK, WorkerTypes, OpenFiles
<1> QED
  BY <1>2, <1>3

LEMMA CancelFileTypes ==
  ASSUME TypeInv, NEW c \in Computers, cancelFile(c)
  PROVE  WorkerTypes'
<1>1. CASE current(c, Head(inbox[c])) /\ fileName[c] # NoFile
  <2>1. fileName[c] \in Files
    BY <1>1 DEF TypeInv, TypeOK
  <2>2. disk' = [disk EXCEPT ![c][fileName[c]] = Absent] /\ isOpen' = isOpen \ {c}
    BY <1>1 DEF cancelFile
  <2>3. disk' \in [Computers -> [Files -> Seq(Chunk) \cup {Absent, Old}]]
    BY <2>1, <2>2 DEF TypeInv, TypeOK
  <2>4. OpenFiles'
    BY <2>1, <2>2 DEF cancelFile, TypeInv, TypeOK, OpenFiles
  <2> QED
    BY <2>2, <2>3, <2>4 DEF cancelFile, TypeInv, TypeOK, WorkerTypes
<1>2. CASE ~ (current(c, Head(inbox[c])) /\ fileName[c] # NoFile)
  BY <1>2 DEF cancelFile, TypeInv, TypeOK, WorkerTypes, OpenFiles
<1> QED
  BY <1>1, <1>2

LEMMA WithoutWorkerTypes ==
  ASSUME TypeInv, NEW c \in Computers, withoutWorker(c)
  PROVE  /\ WorkerTypes'
         /\ inbox' \in [Computers -> Seq(GoodMessage)]
         /\ lost' \in [Computers -> SUBSET TransferId]
<1>1. IdsOf(inbox[c]) \subseteq TransferId
  BY MessageIds DEF TypeInv, MessageTypes
<1>2. currentId[c] \in TransferId /\ NoId \in TransferId
  BY DEF TypeInv, TypeOK, TransferId, NoId
<1> QED
  BY <1>1, <1>2 DEF withoutWorker, TypeInv, TypeOK, MessageTypes, WorkerTypes, OpenFiles

LEMMA WorkerStepTypes ==
  ASSUME TypeInv, NEW c \in Computers, WorkerStep(c)
  PROVE  TypeInv'
<1>1. /\ WorkerTypes'
      /\ inbox' \in [Computers -> Seq(GoodMessage)]
      /\ lost' \in [Computers -> SUBSET TransferId]
      /\ retries' \in [Computers -> 0..MaxRetries] /\ running' \subseteq Computers
      /\ losses' \in 0..MaxLosses
      /\ UNCHANGED <<controllerVars, connected, queue, wire, selections, ids>>
  <2>1. ASSUME Handled(c, Head(inbox[c]).kind)
        PROVE  /\ inbox' \in [Computers -> Seq(GoodMessage)]
               /\ UNCHANGED <<controllerVars, connected, queue, wire, running, retries, selections, ids, lost, losses>>
    BY <2>1, HeadTypes DEF Handled, TypeInv, TypeOK, MessageTypes
  <2>2. CASE startFile(c)
    BY <2>1, <2>2, StartFileTypes DEF startFile, Handled, TypeInv, TypeOK
  <2>3. CASE continueFile(c)
    BY <2>1, <2>3, ContinueFileTypes DEF continueFile, Handled, TypeInv, TypeOK
  <2>4. CASE cancelFile(c)
    BY <2>1, <2>4, CancelFileTypes DEF cancelFile, Handled, TypeInv, TypeOK
  <2>5. CASE closeFile(c)
    <3>1. WorkerTypes'
      BY <2>5 DEF closeFile, TypeInv, TypeOK, WorkerTypes, OpenFiles
    <3> QED
      BY <2>1, <2>5, <3>1 DEF closeFile, Handled, TypeInv, TypeOK
  <2>6. CASE openTransferFolder(c)
    <3>1. WorkerTypes'
      BY <2>6 DEF openTransferFolder, workerVars, TypeInv, TypeOK, WorkerTypes, OpenFiles
    <3> QED
      BY <2>1, <2>6, <3>1 DEF openTransferFolder, Handled, TypeInv, TypeOK
  <2>7. CASE CloseBox(c)
    BY <2>7 DEF CloseBox, serverVars, TypeInv, TypeOK, MessageTypes, WorkerTypes, OpenFiles
  <2>8. CASE retryWorker(c)
    <3>1. retries' \in [Computers -> 0..MaxRetries]
      BY <2>8, FileTransferAssumption DEF retryWorker, TypeInv, TypeOK
    <3> QED
      BY <2>8, <3>1, WithoutWorkerTypes DEF retryWorker, withoutWorker, TypeInv, TypeOK
  <2>9. CASE WorkerEnds(c)
    <3>1. losses' \in 0..MaxLosses
      BY <2>9, FileTransferAssumption DEF WorkerEnds, TypeInv, TypeOK
    <3> QED
      BY <2>9, <3>1, WithoutWorkerTypes DEF WorkerEnds, withoutWorker, TypeInv, TypeOK
  <2> QED
    BY <2>2, <2>3, <2>4, <2>5, <2>6, <2>7, <2>8, <2>9 DEF WorkerStep
<1>2. inbox' \in [Computers -> Seq(Message)]
  BY <1>1, GoodIsMessage, SeqMonotonic
<1> QED
  BY <1>1, <1>2 DEF TypeInv, TypeOK, MessageTypes, ReaderTypes, WorkerTypes, controllerVars

LEMMA TypeStep == TypeInv /\ [Next]_vars => TypeInv'
<1> SUFFICES ASSUME TypeInv, [Next]_vars PROVE TypeInv'
  OBVIOUS
<1>1. CASE \E m \in Masters : MasterStep(m)
  BY <1>1, MasterTypes
<1>2. CASE \E m \in Masters, c \in Computers : LinkStep(m, c)
  BY <1>2, LinkTypes
<1>3. CASE \E c \in Computers : WorkerStep(c)
  BY <1>3, WorkerStepTypes
<1>4. CASE UNCHANGED vars
  BY <1>4 DEF TypeInv, TypeOK, MessageTypes, OpenFiles, ReaderTypes, vars, controllerVars, workerVars, serverVars
<1> QED
  BY <1>1, <1>2, <1>3, <1>4 DEF Next

LEMMA TypeInvariant == Spec => []TypeInv
  BY TypeInit, TypeStep, PTL DEF Spec

\* Every variable keeps its type: the message box, the lost messages and the retries
\* leave the controller, the connections and the worker in states the code expects.
THEOREM TypeCorrect == Spec => []TypeOK
<1>1. TypeInv => TypeOK
  BY DEF TypeInv
<1> QED
  BY <1>1, TypeInvariant, PTL

-----------------------------------------------------------------------------
(* What is under way                                                       *)

\* The messages of a master that a computer's worker has not handled yet.
InTransit(m, c) == inbox[c] \o wire[<<m, c>>] \o queue[<<m, c>>]

Transit(m, c) == Range(InTransit(m, c))

IsChunk(message, id) == message.kind = "Continue" /\ message.id = id /\ message.data # <<>>

\* b may come behind a: ids do not decrease, a Start has a new one, nothing of a
\* transfer comes behind its Finish, and its chunks come in their order.
Follows(a, b) ==
  b.id # NoId =>
    /\ a.id <= b.id
    /\ b.kind = "Start" => a.id < b.id
    /\ a.id = b.id => a.kind # "Finish"
    /\ IsChunk(a, b.id) /\ IsChunk(b, b.id) => a.data[1][2] < b.data[1][2]

InOrder(s) == \A i, j \in DOMAIN s : i < j => Follows(s[i], s[j])

LEMMA AppendInOrder ==
  ASSUME NEW s \in Seq(GoodMessage), NEW b \in GoodMessage
  PROVE  /\ Append(s, b) \in Seq(GoodMessage)
         /\ Range(Append(s, b)) = Range(s) \cup {b}
         /\ InOrder(s) /\ (\A a \in Range(s) : Follows(a, b)) => InOrder(Append(s, b))
<1>1. /\ Append(s, b) \in Seq(GoodMessage) /\ Len(Append(s, b)) = Len(s) + 1
      /\ \A i \in 1..Len(s) : Append(s, b)[i] = s[i]
      /\ Append(s, b)[Len(s) + 1] = b
  BY AppendProperties
<1>2. DOMAIN s = 1..Len(s) /\ DOMAIN Append(s, b) = 1..(Len(s) + 1) /\ Len(s) \in Nat
  BY <1>1, LenProperties
<1>3. Range(Append(s, b)) = Range(s) \cup {b}
  BY <1>1, <1>2 DEF Range
<1>4. ASSUME InOrder(s), \A a \in Range(s) : Follows(a, b)
      PROVE  InOrder(Append(s, b))
  <2> SUFFICES ASSUME NEW i \in 1..(Len(s) + 1), NEW j \in 1..(Len(s) + 1), i < j
               PROVE  Follows(Append(s, b)[i], Append(s, b)[j])
    BY <1>2 DEF InOrder
  <2>1. i \in 1..Len(s) /\ s[i] \in Range(s)
    BY <1>2 DEF Range
  <2>2. CASE j = Len(s) + 1
    BY <1>1, <1>4, <2>1, <2>2
  <2>3. CASE j \in 1..Len(s)
    BY <1>1, <1>2, <1>4, <2>1, <2>3 DEF InOrder
  <2> QED
    BY <1>2, <2>2, <2>3
<1> QED
  BY <1>1, <1>3, <1>4

LEMMA TailInOrder ==
  ASSUME NEW s \in Seq(GoodMessage), s # <<>>
  PROVE  /\ Tail(s) \in Seq(GoodMessage) /\ Head(s) \in GoodMessage
         /\ Range(s) = {Head(s)} \cup Range(Tail(s))
         /\ InOrder(s) => InOrder(Tail(s)) /\ \A b \in Range(Tail(s)) : Follows(Head(s), b)
<1>1. /\ Tail(s) \in Seq(GoodMessage) /\ Len(Tail(s)) = Len(s) - 1 /\ Head(s) = s[1]
      /\ \A i \in 1..Len(Tail(s)) : Tail(s)[i] = s[i + 1]
      /\ Len(s) \in Nat /\ Len(s) > 0
  BY HeadTailProperties, EmptySeq
<1>2. DOMAIN s = 1..Len(s) /\ DOMAIN Tail(s) = 1..(Len(s) - 1)
  BY <1>1, LenProperties
<1>3. \A i \in 1..(Len(s) - 1) : i + 1 \in 1..Len(s) /\ Tail(s)[i] = s[i + 1]
  BY <1>1
<1>4. Range(s) = {Head(s)} \cup Range(Tail(s))
  <2>1. ASSUME NEW i \in 1..Len(s)
        PROVE  s[i] \in {Head(s)} \cup Range(Tail(s))
    <3>1. CASE i = 1
      BY <1>1, <3>1
    <3>2. CASE i # 1
      <4>1. i - 1 \in 1..(Len(s) - 1) /\ (i - 1) + 1 = i
        BY <1>1, <3>2
      <4> QED
        BY <1>2, <1>3, <4>1 DEF Range
    <3> QED
      BY <3>1, <3>2
  <2>2. Head(s) \in Range(s) /\ Range(Tail(s)) \subseteq Range(s)
    BY <1>1, <1>2, <1>3 DEF Range
  <2> QED
    BY <1>2, <2>1, <2>2 DEF Range
<1>5. ASSUME InOrder(s)
      PROVE  InOrder(Tail(s)) /\ \A b \in Range(Tail(s)) : Follows(Head(s), b)
  <2>1. \A i \in 1..(Len(s) - 1) : Follows(s[1], s[i + 1])
    BY <1>1, <1>2, <1>3, <1>5 DEF InOrder
  <2>2. \A i, j \in 1..(Len(s) - 1) : i < j => Follows(s[i + 1], s[j + 1])
    BY <1>1, <1>2, <1>3, <1>5 DEF InOrder
  <2> QED
    BY <1>1, <1>2, <1>3, <2>1, <2>2 DEF InOrder, Range
<1> QED
  BY <1>1, <1>4, <1>5

\* Messages that are lost from the middle, or, r being empty, from the beginning.
LEMMA CutInOrder ==
  ASSUME NEW r \in Seq(GoodMessage), NEW s \in Seq(GoodMessage), NEW t \in Seq(GoodMessage)
  PROVE  /\ Range(r \o s \o t) = Range(r) \cup Range(s) \cup Range(t)
         /\ Range(r \o t) = Range(r) \cup Range(t)
         /\ InOrder(r \o s \o t) => InOrder(r \o t)
<1> DEFINE u == r \o s
<1>1. /\ u \in Seq(GoodMessage) /\ Len(u) = Len(r) + Len(s)
      /\ \A i \in 1..Len(u) : u[i] = IF i <= Len(r) THEN r[i] ELSE s[i - Len(r)]
  BY ConcatProperties
<1>2. /\ r \o t \in Seq(GoodMessage) /\ Len(r \o t) = Len(r) + Len(t)
      /\ \A i \in 1..Len(r \o t) : (r \o t)[i] = IF i <= Len(r) THEN r[i] ELSE t[i - Len(r)]
  BY ConcatProperties
<1>3. Range(u) = Range(r) \cup Range(s) /\ Range(r \o t) = Range(r) \cup Range(t)
  BY RangeConcatenation
<1> HIDE DEF u
<1>4. /\ u \o t \in Seq(GoodMessage) /\ Len(u \o t) = Len(u) + Len(t)
      /\ \A i \in 1..Len(u \o t) : (u \o t)[i] = IF i <= Len(u) THEN u[i] ELSE t[i - Len(u)]
  <2>1. u \in Seq(GoodMessage)
    BY <1>1
  <2> QED
    BY <2>1, ConcatProperties
<1>5. Range(u \o t) = Range(u) \cup Range(t)
  BY <1>1, RangeConcatenation
<1>6. Len(r) \in Nat /\ Len(s) \in Nat /\ Len(t) \in Nat
  BY LenProperties
<1>7. DOMAIN (u \o t) = 1..Len(u \o t) /\ DOMAIN (r \o t) = 1..Len(r \o t)
  BY <1>2, <1>4, LenProperties
<1>8. ASSUME InOrder(u \o t), NEW i \in 1..Len(r \o t), NEW j \in 1..Len(r \o t), i < j
      PROVE  Follows((r \o t)[i], (r \o t)[j])
  <2> DEFINE At(k) == IF k <= Len(r) THEN k ELSE k + Len(s)
  <2>1. \A k \in 1..Len(r \o t) : At(k) \in 1..Len(u \o t) /\ (u \o t)[At(k)] = (r \o t)[k]
    <3> SUFFICES ASSUME NEW k \in 1..Len(r \o t)
                 PROVE  At(k) \in 1..Len(u \o t) /\ (u \o t)[At(k)] = (r \o t)[k]
      OBVIOUS
    <3>1. k \in 1..(Len(r) + Len(t)) /\ Len(u \o t) = Len(r) + Len(s) + Len(t)
      BY <1>1, <1>2, <1>4, <1>6
    <3>2. CASE k <= Len(r)
      <4>1. k \in 1..Len(u) /\ k \in 1..Len(u \o t) /\ k <= Len(u)
        BY <1>1, <1>6, <3>1, <3>2
      <4>2. u[k] = r[k] /\ (r \o t)[k] = r[k]
        BY <1>1, <1>2, <3>2, <4>1
      <4>3. (u \o t)[k] = u[k]
        BY <1>4, <4>1
      <4> QED
        BY <3>2, <4>1, <4>2, <4>3
    <3>3. CASE ~ (k <= Len(r))
      <4>1. /\ k + Len(s) \in 1..Len(u \o t) /\ ~ (k + Len(s) <= Len(u))
            /\ (k + Len(s)) - Len(u) = k - Len(r)
        BY <1>1, <1>6, <3>1, <3>3
      <4>2. (u \o t)[k + Len(s)] = t[k - Len(r)]
        BY <1>4, <4>1
      <4>3. (r \o t)[k] = t[k - Len(r)]
        BY <1>2, <3>3
      <4> QED
        BY <3>3, <4>1, <4>2, <4>3
    <3> QED
      BY <3>2, <3>3
  <2>2. At(i) < At(j)
    BY <1>2, <1>6, <1>8
  <2> HIDE DEF At
  <2> QED
    BY <1>7, <1>8, <2>1, <2>2 DEF InOrder
<1> QED
  BY <1>3, <1>5, <1>7, <1>8 DEF InOrder, u

LEMMA ConcatAppend ==
  ASSUME NEW S, NEW s \in Seq(S), NEW t \in Seq(S), NEW b \in S
  PROVE  s \o Append(t, b) = Append(s \o t, b)
<1>1. s \o t \in Seq(S) /\ <<b>> \in Seq(S)
  BY ConcatProperties
<1>2. s \o Append(t, b) = s \o (t \o <<b>>) /\ Append(s \o t, b) = (s \o t) \o <<b>>
  BY <1>1, AppendIsConcat
<1> QED
  BY <1>1, <1>2, ConcatAssociative

LEMMA HeadAndTail ==
  ASSUME NEW S, NEW s \in Seq(S), s # <<>>
  PROVE  /\ Head(s) \in S /\ Tail(s) \in Seq(S) /\ <<Head(s)>> \in Seq(S)
         /\ s = <<Head(s)>> \o Tail(s)
  OBVIOUS

LEMMA ConcatTail ==
  ASSUME NEW S, NEW s \in Seq(S), NEW t \in Seq(S), s # <<>>
  PROVE  s \o t # <<>> /\ Head(s \o t) = Head(s) /\ Tail(s \o t) = Tail(s) \o t
<1>1. /\ Tail(s) \in Seq(S) /\ Len(Tail(s)) = Len(s) - 1 /\ Len(s) \in Nat \ {0}
      /\ Head(s) = s[1]
      /\ \A i \in 1..Len(Tail(s)) : Tail(s)[i] = s[i + 1]
  BY HeadTailProperties, EmptySeq
<1>2. /\ s \o t \in Seq(S) /\ Len(s \o t) = Len(s) + Len(t) /\ Len(t) \in Nat
      /\ \A i \in 1..Len(s) + Len(t) : (s \o t)[i] = IF i <= Len(s) THEN s[i] ELSE t[i - Len(s)]
  BY ConcatProperties, LenProperties
<1>3. s \o t # <<>>
  BY <1>1, <1>2, EmptySeq
<1>4. Head(s \o t) = Head(s)
  BY <1>1, <1>2, <1>3
<1>5. /\ Tail(s \o t) \in Seq(S) /\ Len(Tail(s \o t)) = Len(s) + Len(t) - 1
      /\ \A i \in 1..(Len(s) + Len(t) - 1) : Tail(s \o t)[i] = (s \o t)[i + 1]
  BY <1>2, <1>3, HeadTailProperties
<1>6. /\ Tail(s) \o t \in Seq(S) /\ Len(Tail(s) \o t) = Len(Tail(s)) + Len(t)
      /\ \A i \in 1..Len(Tail(s)) + Len(t) :
           (Tail(s) \o t)[i] = IF i <= Len(Tail(s)) THEN Tail(s)[i] ELSE t[i - Len(Tail(s))]
  BY <1>1, ConcatProperties
<1>7. ASSUME NEW i \in 1..(Len(s) + Len(t) - 1)
      PROVE  Tail(s \o t)[i] = (Tail(s) \o t)[i]
  <2>1. (s \o t)[i + 1] = IF i + 1 <= Len(s) THEN s[i + 1] ELSE t[(i + 1) - Len(s)]
    BY <1>1, <1>2
  <2>2. (Tail(s) \o t)[i] = IF i <= Len(s) - 1 THEN Tail(s)[i] ELSE t[i - (Len(s) - 1)]
    BY <1>1, <1>2, <1>6
  <2>3. CASE i <= Len(s) - 1
    BY <1>1, <1>5, <2>1, <2>2, <2>3
  <2>4. CASE ~ (i <= Len(s) - 1)
    <3>1. (i + 1) - Len(s) = i - (Len(s) - 1) /\ ~ (i + 1 <= Len(s))
      BY <1>1, <1>2, <2>4
    <3> QED
      BY <1>5, <2>1, <2>2, <2>4, <3>1
  <2> QED
    BY <2>3, <2>4
<1>8. Tail(s \o t) = Tail(s) \o t
  BY <1>1, <1>2, <1>5, <1>6, <1>7, SeqEqual
<1> QED
  BY <1>3, <1>4, <1>8

\* The first message of s goes to the end of r.
LEMMA ConcatMove ==
  ASSUME NEW S, NEW r \in Seq(S), NEW s \in Seq(S), s # <<>>
  PROVE  Append(r, Head(s)) \o Tail(s) = r \o s
<1>1. /\ Head(s) \in S /\ Tail(s) \in Seq(S) /\ <<Head(s)>> \in Seq(S)
      /\ s = <<Head(s)>> \o Tail(s)
  BY HeadAndTail
<1>2. Append(r, Head(s)) = r \o <<Head(s)>>
  BY <1>1, AppendIsConcat
<1>3. (r \o <<Head(s)>>) \o Tail(s) = r \o (<<Head(s)>> \o Tail(s))
  BY <1>1, ConcatAssociative
<1> QED
  BY <1>1, <1>2, <1>3

LEMMA CutFirst ==
  ASSUME NEW s \in Seq(GoodMessage), NEW t \in Seq(GoodMessage)
  PROVE  /\ Range(s \o t) = Range(s) \cup Range(t)
         /\ InOrder(s \o t) => InOrder(t)
<1>1. <<>> \in Seq(GoodMessage) /\ <<>> \o s = s /\ <<>> \o t = t
  BY ConcatEmptySeq
<1>2. InOrder((<<>> \o s) \o t) => InOrder(<<>> \o t)
  BY <1>1, CutInOrder
<1>3. Range(s \o t) = Range(s) \cup Range(t)
  BY RangeConcatenation
<1> QED
  BY <1>1, <1>2, <1>3

LEMMA CutInner ==
  ASSUME NEW r \in Seq(GoodMessage), NEW h \in Seq(GoodMessage), NEW u \in Seq(GoodMessage),
         NEW t \in Seq(GoodMessage)
  PROVE  /\ Range((r \o (h \o u)) \o t) = Range((r \o u) \o t) \cup Range(h)
         /\ InOrder((r \o (h \o u)) \o t) => InOrder((r \o u) \o t)
<1>1. u \o t \in Seq(GoodMessage) /\ r \o h \in Seq(GoodMessage)
  BY ConcatProperties
<1>2. r \o (h \o u) = (r \o h) \o u
  BY ConcatAssociative
<1>3. ((r \o h) \o u) \o t = (r \o h) \o (u \o t)
  BY <1>1, ConcatAssociative
<1>4. (r \o u) \o t = r \o (u \o t)
  BY ConcatAssociative
<1>5. /\ InOrder((r \o h) \o (u \o t)) => InOrder(r \o (u \o t))
      /\ Range((r \o h) \o (u \o t)) = Range(r) \cup Range(h) \cup Range(u \o t)
      /\ Range(r \o (u \o t)) = Range(r) \cup Range(u \o t)
  <2>1. \A v \in Seq(GoodMessage) :
          /\ InOrder((r \o h) \o v) => InOrder(r \o v)
          /\ Range((r \o h) \o v) = Range(r) \cup Range(h) \cup Range(v)
          /\ Range(r \o v) = Range(r) \cup Range(v)
    BY CutInOrder
  <2> QED
    BY <1>1, <2>1, Zenon
<1> QED
  BY <1>2, <1>3, <1>4, <1>5

LEMMA CutHead ==
  ASSUME NEW r \in Seq(GoodMessage), NEW s \in Seq(GoodMessage), NEW t \in Seq(GoodMessage), s # <<>>
  PROVE  /\ Range((r \o s) \o t) = Range((r \o Tail(s)) \o t) \cup {Head(s)}
         /\ InOrder((r \o s) \o t) => InOrder((r \o Tail(s)) \o t)
<1>1. /\ <<Head(s)>> \in Seq(GoodMessage) /\ Tail(s) \in Seq(GoodMessage)
      /\ s = <<Head(s)>> \o Tail(s)
  BY HeadAndTail
<1>2. Range(<<Head(s)>>) = {Head(s)}
  BY DEF Range
<1>3. /\ Range((r \o (<<Head(s)>> \o Tail(s))) \o t) = Range((r \o Tail(s)) \o t) \cup Range(<<Head(s)>>)
      /\ InOrder((r \o (<<Head(s)>> \o Tail(s))) \o t) => InOrder((r \o Tail(s)) \o t)
  BY <1>1, CutInner, Zenon
<1> QED
  BY <1>1, <1>2, <1>3, Zenon

LEMMA TransitTypes ==
  ASSUME TypeInv, NEW m \in Masters, NEW c \in Computers
  PROVE  /\ <<m, c>> \in Pair
         /\ inbox[c] \in Seq(GoodMessage) /\ wire[<<m, c>>] \in Seq(GoodMessage)
         /\ queue[<<m, c>>] \in Seq(GoodMessage)
         /\ inbox[c] \o wire[<<m, c>>] \in Seq(GoodMessage)
         /\ wire[<<m, c>>] \o queue[<<m, c>>] \in Seq(GoodMessage)
         /\ InTransit(m, c) \in Seq(GoodMessage)
         /\ InTransit(m, c) = inbox[c] \o (wire[<<m, c>>] \o queue[<<m, c>>])
         /\ Transit(m, c) \subseteq GoodMessage
<1>1. /\ <<m, c>> \in Pair
      /\ inbox[c] \in Seq(GoodMessage) /\ wire[<<m, c>>] \in Seq(GoodMessage)
      /\ queue[<<m, c>>] \in Seq(GoodMessage)
  BY DEF Pair, TypeInv, MessageTypes
<1>2. /\ inbox[c] \o wire[<<m, c>>] \in Seq(GoodMessage)
      /\ wire[<<m, c>>] \o queue[<<m, c>>] \in Seq(GoodMessage)
  BY <1>1, ConcatProperties
<1>3. InTransit(m, c) \in Seq(GoodMessage)
  BY <1>1, <1>2, ConcatProperties DEF InTransit
<1>4. InTransit(m, c) = inbox[c] \o (wire[<<m, c>>] \o queue[<<m, c>>])
  <2>1. \A r, s, t \in Seq(GoodMessage) : (r \o s) \o t = r \o (s \o t)
    BY ConcatAssociative
  <2> QED
    BY <1>1, <2>1, Zenon DEF InTransit
<1>5. Transit(m, c) \in SUBSET GoodMessage
  BY <1>3, RangeOfSeq DEF Transit
<1> QED
  BY <1>1, <1>2, <1>3, <1>4, <1>5

LEMMA TransitSend ==
  ASSUME TypeInv, NEW m \in Masters, NEW c \in Computers, NEW b \in GoodMessage,
         queue'[<<m, c>>] = Append(queue[<<m, c>>], b), UNCHANGED <<wire, inbox>>
  PROVE  InTransit(m, c)' = Append(InTransit(m, c), b)
<1> DEFINE s == inbox[c] \o wire[<<m, c>>]
           q == queue[<<m, c>>]
<1>1. s \in Seq(GoodMessage) /\ q \in Seq(GoodMessage)
  BY TransitTypes, Zenon
<1>2. InTransit(m, c)' = s \o Append(q, b) /\ InTransit(m, c) = s \o q
  BY DEF InTransit
<1> HIDE DEF s, q
<1> QED
  BY <1>1, <1>2, ConcatAppend

LEMMA TransitMove ==
  ASSUME TypeInv, NEW m \in Masters, NEW c \in Computers, sendEvents(m, c)
  PROVE  InTransit(m, c)' = InTransit(m, c)
<1> DEFINE i == inbox[c]
           w == wire[<<m, c>>]
           q == queue[<<m, c>>]
<1>1. i \in Seq(GoodMessage) /\ w \in Seq(GoodMessage) /\ q \in Seq(GoodMessage) /\ <<m, c>> \in Pair
  BY TransitTypes, Zenon
<1>2. /\ wire'[<<m, c>>] = Append(w, Head(q)) /\ queue'[<<m, c>>] = Tail(q)
      /\ inbox' = inbox /\ q # <<>>
  BY <1>1 DEF sendEvents, TypeInv, MessageTypes, serverVars
<1>3. InTransit(m, c)' = (i \o Append(w, Head(q))) \o Tail(q) /\ InTransit(m, c) = (i \o w) \o q
  BY <1>2 DEF InTransit
<1> HIDE DEF i, w, q
<1>4. Head(q) \in GoodMessage /\ Tail(q) \in Seq(GoodMessage) /\ i \o w \in Seq(GoodMessage)
  BY <1>1, <1>2, HeadAndTail, ConcatProperties
<1>5. i \o Append(w, Head(q)) = Append(i \o w, Head(q))
  BY <1>1, <1>4, ConcatAppend
<1>6. Append(i \o w, Head(q)) \o Tail(q) = (i \o w) \o q
  BY <1>1, <1>2, <1>4, ConcatMove
<1> QED
  BY <1>3, <1>5, <1>6

LEMMA TransitForward ==
  ASSUME TypeInv, NEW m \in Masters, NEW c \in Computers, wire[<<m, c>>] # <<>>,
         inbox'[c] = Append(inbox[c], Head(wire[<<m, c>>])),
         wire'[<<m, c>>] = Tail(wire[<<m, c>>]), queue' = queue
  PROVE  InTransit(m, c)' = InTransit(m, c)
<1> DEFINE i == inbox[c]
           w == wire[<<m, c>>]
           q == queue[<<m, c>>]
<1>1. i \in Seq(GoodMessage) /\ w \in Seq(GoodMessage) /\ w # <<>>
  BY TransitTypes, Zenon
<1>2. InTransit(m, c)' = (Append(i, Head(w)) \o Tail(w)) \o q /\ InTransit(m, c) = (i \o w) \o q
  BY DEF InTransit
<1> HIDE DEF i, w, q
<1>3. Append(i, Head(w)) \o Tail(w) = i \o w
  BY <1>1, ConcatMove
<1> QED
  BY <1>2, <1>3

LEMMA TransitHandle ==
  ASSUME TypeInv, NEW m \in Masters, NEW c \in Computers, inbox[c] # <<>>,
         inbox'[c] = Tail(inbox[c]), UNCHANGED <<wire, queue>>
  PROVE  /\ InTransit(m, c) # <<>> /\ Head(InTransit(m, c)) = Head(inbox[c])
         /\ InTransit(m, c)' = Tail(InTransit(m, c))
<1> DEFINE i == inbox[c]
           w == wire[<<m, c>>]
           q == queue[<<m, c>>]
<1>1. /\ i \in Seq(GoodMessage) /\ w \in Seq(GoodMessage) /\ q \in Seq(GoodMessage)
      /\ w \o q \in Seq(GoodMessage) /\ i # <<>>
      /\ InTransit(m, c) = i \o (w \o q)
  BY TransitTypes, Zenon
<1>2. InTransit(m, c)' = (Tail(i) \o w) \o q
  BY DEF InTransit
<1> HIDE DEF i, w, q
<1>3. Tail(i) \in Seq(GoodMessage)
  BY <1>1, HeadAndTail
<1>4. (Tail(i) \o w) \o q = Tail(i) \o (w \o q)
  BY <1>1, <1>3, ConcatAssociative
<1>5. i \o (w \o q) # <<>> /\ Head(i \o (w \o q)) = Head(i) /\ Tail(i \o (w \o q)) = Tail(i) \o (w \o q)
  BY <1>1, ConcatTail
<1> QED
  BY <1>1, <1>2, <1>4, <1>5 DEF i

\* The messages that the worker has not handled are lost.
LEMMA TransitCutInbox ==
  ASSUME TypeInv, NEW m \in Masters, NEW c \in Computers, InOrder(InTransit(m, c)),
         inbox'[c] = <<>>, UNCHANGED <<wire, queue>>
  PROVE  /\ InOrder(InTransit(m, c)')
         /\ Transit(m, c) = Transit(m, c)' \cup Range(inbox[c])
<1> DEFINE i == inbox[c]
           w == wire[<<m, c>>]
           q == queue[<<m, c>>]
<1>1. /\ i \in Seq(GoodMessage) /\ w \in Seq(GoodMessage)
      /\ w \o q \in Seq(GoodMessage) /\ InTransit(m, c) = i \o (w \o q)
  BY TransitTypes, Zenon
<1>2. InTransit(m, c)' = (<<>> \o w) \o q
  BY DEF InTransit
<1> HIDE DEF i, w, q
<1>3. <<>> \o w = w
  BY <1>1, ConcatEmptySeq
<1>4. /\ Range(i \o (w \o q)) = Range(i) \cup Range(w \o q)
      /\ InOrder(i \o (w \o q)) => InOrder(w \o q)
  BY <1>1, CutFirst
<1>5. InOrder(InTransit(m, c)') /\ Transit(m, c) = Transit(m, c)' \cup Range(i)
  BY <1>1, <1>2, <1>3, <1>4 DEF Transit
<1> QED
  BY <1>5 DEF i

\* The messages on the wire are lost.
LEMMA TransitCutWire ==
  ASSUME TypeInv, NEW m \in Masters, NEW c \in Computers, InOrder(InTransit(m, c)),
         wire'[<<m, c>>] = <<>>, UNCHANGED <<inbox, queue>>
  PROVE  /\ InOrder(InTransit(m, c)')
         /\ Transit(m, c) = Transit(m, c)' \cup Range(wire[<<m, c>>])
<1> DEFINE i == inbox[c]
           w == wire[<<m, c>>]
           q == queue[<<m, c>>]
<1>1. i \in Seq(GoodMessage) /\ w \in Seq(GoodMessage) /\ q \in Seq(GoodMessage)
  BY TransitTypes, Zenon
<1>2. InTransit(m, c)' = (i \o <<>>) \o q /\ InTransit(m, c) = (i \o w) \o q
  BY DEF InTransit
<1> HIDE DEF i, w, q
<1>3. i \o <<>> = i
  BY <1>1, ConcatEmptySeq
<1>4. /\ InOrder((i \o w) \o q) => InOrder(i \o q)
      /\ Range((i \o w) \o q) = Range(i) \cup Range(w) \cup Range(q)
      /\ Range(i \o q) = Range(i) \cup Range(q)
  BY <1>1, CutInOrder
<1>5. InOrder(InTransit(m, c)') /\ Transit(m, c) = Transit(m, c)' \cup Range(w)
  BY <1>2, <1>3, <1>4 DEF Transit
<1> QED
  BY <1>5 DEF w

\* A message that reaches a computer without a worker is lost.
LEMMA TransitDrop ==
  ASSUME TypeInv, NEW m \in Masters, NEW c \in Computers, InOrder(InTransit(m, c)),
         wire[<<m, c>>] # <<>>, wire'[<<m, c>>] = Tail(wire[<<m, c>>]), UNCHANGED <<inbox, queue>>
  PROVE  /\ InOrder(InTransit(m, c)')
         /\ Transit(m, c) = Transit(m, c)' \cup {Head(wire[<<m, c>>])}
<1> DEFINE i == inbox[c]
           w == wire[<<m, c>>]
           q == queue[<<m, c>>]
<1>1. i \in Seq(GoodMessage) /\ w \in Seq(GoodMessage) /\ q \in Seq(GoodMessage) /\ w # <<>>
  BY TransitTypes, Zenon
<1>2. InTransit(m, c)' = (i \o Tail(w)) \o q /\ InTransit(m, c) = (i \o w) \o q
  BY DEF InTransit
<1> SUFFICES /\ InOrder((i \o Tail(w)) \o q)
             /\ Range((i \o w) \o q) = Range((i \o Tail(w)) \o q) \cup {Head(w)}
  BY <1>2 DEF Transit
<1>3. InOrder((i \o w) \o q)
  BY <1>2
<1> HIDE DEF i, w, q
<1>4. /\ InOrder((i \o w) \o q) => InOrder((i \o Tail(w)) \o q)
      /\ Range((i \o w) \o q) = Range((i \o Tail(w)) \o q) \cup {Head(w)}
  BY <1>1, CutHead
<1> QED
  BY <1>3, <1>4

-----------------------------------------------------------------------------
(* One master                                                              *)

\* The number of chunks a master has sent of the file it is reading.
Sent(m) ==
  IF fileState[m] = "Finished" THEN Size[File(m)]
  ELSE IF reader[m].ready /\ reader[m].pos > 0 THEN reader[m].pos - 1 ELSE reader[m].pos

ReaderInv(m) ==
  /\ transferId[m] \in {NoId, ids}
  /\ reader[m].present =>
       /\ reader[m].pos <= Size[File(m)]
       /\ fileState[m] = "Transferring" =>
            IF reader[m].ready THEN reader[m].pos > 0 \/ Size[File(m)] = 0
            ELSE reader[m].pos < Size[File(m)] \/ Size[File(m)] = 0

\* What is under way was sent by the transfers up to now, and nothing of the one going
\* on comes behind its Finish or is a chunk not sent yet.
Fresh(m, c) ==
  \A a \in Transit(m, c) :
    /\ a.id <= ids
    /\ a.id = transferId[m] => a.kind # "Finish"
    /\ reader[m].present /\ IsChunk(a, transferId[m]) => a.data[1][2] <= Sent(m)

\* What is under way belongs to the transfer the worker has accepted last, or to later ones.
Later(m, c) ==
  /\ currentId[c] <= ids
  /\ \A a \in Transit(m, c) :
       a.id # NoId => currentId[c] <= a.id /\ (a.kind = "Start" => currentId[c] < a.id)

\* The worker has the name of a file it has refused, or that another transfer has written.
Refused(c) == c \notin isOpen /\ fileName[c] # NoFile /\ disk[c][fileName[c]] # Absent

\* Nothing of the transfer accepted before comes any more.
RefusedInv(m, c) ==
  Refused(c) /\ currentId[c] # NoId =>
    currentId[c] < ids /\ \A a \in Transit(m, c) : a.id # currentId[c]

\* An open file is written by the transfer the worker has accepted last.
OpenInv(c) ==
  c \in isOpen => writer[c][fileName[c]] = currentId[c] /\ currentId[c] # NoId

OrderInv(m, c) ==
  InOrder(InTransit(m, c)) /\ Fresh(m, c) /\ Later(m, c) /\ RefusedInv(m, c) /\ OpenInv(c)

\* The chunks of a transfer that are under way.
Chunks(S, id) == {a.data[1] : a \in {x \in S : IsChunk(x, id)}}

\* The chunks k + 1 to n of a file.
Upto(f, k, n) == {<<f, i>> : i \in (k + 1)..n}

\* The transfer is going to be cancelled.
CancelComes(m, c, id) == \E a \in Transit(m, c) : a.kind = "Cancel" /\ a.id = id

\* The transfer of a file of which k chunks have been written is going to be cancelled, or
\* exactly the others are under way, and its Finish, or are going to be sent.
RestComes(m, c, id, f, k) ==
  \/ CancelComes(m, c, id)
  \/ /\ \E a \in Transit(m, c) : a.kind = "Finish" /\ a.id = id
     /\ Chunks(Transit(m, c), id) = Upto(f, k, Size[f])
  \/ /\ reader[m].present /\ transferId[m] = id /\ File(m) = f
     /\ k <= Sent(m)
     /\ Chunks(Transit(m, c), id) = Upto(f, k, Sent(m))

StartInv(m, c) ==
  \A a \in Transit(m, c) :
    a.kind = "Start" /\ a.id \notin lost[c] => RestComes(m, c, a.id, a.file, 0)

ReceivingInv(m, c) ==
  c \in isOpen /\ currentId[c] \notin lost[c] =>
    \/ CancelComes(m, c, currentId[c])
    \/ \E k \in 0..Size[fileName[c]] :
         /\ disk[c][fileName[c]] = SubSeq(Source(fileName[c]), 1, k)
         /\ RestComes(m, c, currentId[c], fileName[c], k)

ReceivedInv(c) ==
  \A f \in Files :
    writer[c][f] # NoId /\ writer[c][f] \notin lost[c] /\ ~ (c \in isOpen /\ fileName[c] = f) =>
      disk[c][f] \in {Absent, Source(f)}

DataInv(m, c) == StartInv(m, c) /\ ReceivingInv(m, c) /\ ReceivedInv(c)

\* A Finish comes in s between j and i.
FinishedBefore(s, j, i) == \E k \in DOMAIN s : j < k /\ k < i /\ s[k].kind = "Finish"

\* When the worker comes to i it has no file name any more.
Forgotten(named, s, i) ==
  /\ named => FinishedBefore(s, 0, i)
  /\ \A j \in DOMAIN s : j < i /\ s[j].kind = "Start" => FinishedBefore(s, j, i)

NullCancel(a) == a.kind = "Cancel" /\ a.id = NoId

CancelsForgotten(named, s) == \A i \in DOMAIN s : NullCancel(s[i]) => Forgotten(named, s, i)

\* As long as nothing has been lost, a Cancel without a transfer id finds no file name.
NoLossInv(m, c) ==
  lost[c] = {} =>
    /\ CancelsForgotten(fileName[c] # NoFile, InTransit(m, c))
    /\ transferId[m] = NoId =>
         Forgotten(fileName[c] # NoFile, InTransit(m, c), Len(InTransit(m, c)) + 1)

PairInv(m, c) == OrderInv(m, c) /\ DataInv(m, c) /\ NoLossInv(m, c)

TransferInv ==
  OneMaster => \A m \in Masters, c \in Computers : ReaderInv(m) /\ PairInv(m, c)

-----------------------------------------------------------------------------
(* A Cancel without a transfer id                                          *)

LEMMA ForgottenAppend ==
  ASSUME NEW s \in Seq(GoodMessage), NEW b \in GoodMessage, NEW named \in BOOLEAN
  PROVE  /\ CancelsForgotten(named, s) /\ (NullCancel(b) => Forgotten(named, s, Len(s) + 1))
              => CancelsForgotten(named, Append(s, b))
         /\ Forgotten(named, s, Len(s) + 1) /\ b.kind # "Start"
              => Forgotten(named, Append(s, b), Len(Append(s, b)) + 1)
         /\ b.kind = "Finish" => Forgotten(named, Append(s, b), Len(Append(s, b)) + 1)
<1>1. /\ Len(Append(s, b)) = Len(s) + 1 /\ Len(s) \in Nat
      /\ \A i \in 1..Len(s) : Append(s, b)[i] = s[i]
      /\ Append(s, b)[Len(s) + 1] = b
      /\ DOMAIN s = 1..Len(s) /\ DOMAIN Append(s, b) = 1..(Len(s) + 1)
  BY AppendProperties, LenProperties
<1> DEFINE t == Append(s, b)
<1> HIDE DEF t
<1>2. ASSUME NEW j \in Nat, NEW i \in Nat, FinishedBefore(s, j, i)
      PROVE  FinishedBefore(t, j, i)
  BY <1>1, <1>2 DEF FinishedBefore, t
<1>3. ASSUME NEW i \in 1..(Len(s) + 1), Forgotten(named, s, i)
      PROVE  Forgotten(named, t, i)
  <2>1. \A j \in DOMAIN t : j < i => j \in DOMAIN s /\ t[j] = s[j] /\ j \in Nat
    BY <1>1 DEF t
  <2> QED
    BY <1>2, <1>3, <2>1 DEF Forgotten
<1>4. ASSUME CancelsForgotten(named, s), NullCancel(b) => Forgotten(named, s, Len(s) + 1)
      PROVE  CancelsForgotten(named, t)
  <2> SUFFICES ASSUME NEW i \in 1..(Len(s) + 1), NullCancel(t[i])
               PROVE  Forgotten(named, t, i)
    BY <1>1 DEF CancelsForgotten, t
  <2>1. Forgotten(named, s, i)
    BY <1>1, <1>4 DEF CancelsForgotten, t
  <2> QED
    BY <1>3, <2>1
<1>5. ASSUME Forgotten(named, s, Len(s) + 1), b.kind # "Start"
      PROVE  Forgotten(named, t, Len(t) + 1)
  <2>1. Forgotten(named, t, Len(s) + 1) /\ Len(t) = Len(s) + 1
    BY <1>1, <1>3, <1>5 DEF t
  <2>2. \A j : FinishedBefore(t, j, Len(s) + 1) => FinishedBefore(t, j, Len(t) + 1)
    BY <1>1, <2>1 DEF FinishedBefore, t
  <2>3. \A j \in DOMAIN t : t[j].kind = "Start" => j < Len(s) + 1
    BY <1>1, <1>5 DEF t
  <2> QED
    BY <2>1, <2>2, <2>3 DEF Forgotten
<1>6. ASSUME b.kind = "Finish"
      PROVE  Forgotten(named, t, Len(t) + 1)
  <2>1. /\ Len(s) + 1 \in DOMAIN t /\ t[Len(s) + 1].kind = "Finish" /\ Len(t) = Len(s) + 1
        /\ DOMAIN t = 1..(Len(s) + 1)
    BY <1>1, <1>6 DEF t
  <2>2. \A j \in 0..Len(s) : FinishedBefore(t, j, Len(t) + 1)
    BY <1>1, <2>1 DEF FinishedBefore
  <2>3. \A j \in DOMAIN t : t[j].kind = "Start" => j \in 0..Len(s)
    BY <1>1, <2>1
  <2> QED
    BY <1>1, <2>2, <2>3 DEF Forgotten
<1> QED
  BY <1>4, <1>5, <1>6 DEF t

\* The worker handles the first message: a Start gives it a file name, a Finish takes it.
LEMMA ForgottenTail ==
  ASSUME NEW s \in Seq(GoodMessage), s # <<>>, NEW named \in BOOLEAN, NEW named2 \in BOOLEAN,
         named2 => Head(s).kind = "Start" \/ (named /\ Head(s).kind # "Finish")
  PROVE  /\ CancelsForgotten(named, s) => CancelsForgotten(named2, Tail(s))
         /\ Forgotten(named, s, Len(s) + 1) => Forgotten(named2, Tail(s), Len(Tail(s)) + 1)
         /\ CancelsForgotten(named, s) /\ NullCancel(Head(s)) => ~ named
<1> DEFINE t == Tail(s)
<1>1. /\ t \in Seq(GoodMessage) /\ Len(t) = Len(s) - 1 /\ Head(s) = s[1]
      /\ \A i \in 1..Len(t) : t[i] = s[i + 1]
      /\ Len(s) \in Nat /\ Len(s) > 0
  BY HeadTailProperties, EmptySeq
<1>2. DOMAIN s = 1..Len(s) /\ DOMAIN t = 1..(Len(s) - 1)
  BY <1>1, LenProperties
<1> HIDE DEF t
<1>3. ASSUME NEW j \in Nat, NEW i \in Nat, j >= 1, FinishedBefore(s, j, i + 1)
      PROVE  FinishedBefore(t, j - 1, i)
  <2>1. PICK k \in DOMAIN s : j < k /\ k < i + 1 /\ s[k].kind = "Finish"
    BY <1>3 DEF FinishedBefore
  <2>2. k - 1 \in 1..(Len(s) - 1) /\ (k - 1) + 1 = k /\ j - 1 < k - 1 /\ k - 1 < i
    BY <1>1, <1>2, <1>3, <2>1
  <2>3. t[k - 1] = s[k]
    BY <1>1, <2>2
  <2> QED
    BY <1>2, <2>1, <2>2, <2>3 DEF FinishedBefore
<1>4. ASSUME NEW i \in 1..Len(s), Forgotten(named, s, i + 1)
      PROVE  Forgotten(named2, t, i)
  <2>1. ASSUME named2
        PROVE  FinishedBefore(t, 0, i)
    <3>1. CASE Head(s).kind = "Start"
      <4>1. FinishedBefore(s, 1, i + 1)
        BY <1>1, <1>2, <1>4, <3>1 DEF Forgotten
      <4>2. FinishedBefore(t, 1 - 1, i)
        BY <1>3, <4>1
      <4> QED
        BY <4>2
    <3>2. CASE named /\ Head(s).kind # "Finish"
      <4>1. FinishedBefore(s, 0, i + 1)
        BY <1>4, <3>2 DEF Forgotten
      <4>2. FinishedBefore(s, 1, i + 1)
        BY <1>1, <1>2, <3>2, <4>1 DEF FinishedBefore
      <4>3. FinishedBefore(t, 1 - 1, i)
        BY <1>3, <4>2
      <4> QED
        BY <4>3
    <3> QED
      BY <2>1, <3>1, <3>2
  <2>2. ASSUME NEW j \in DOMAIN t, j < i, t[j].kind = "Start"
        PROVE  FinishedBefore(t, j, i)
    <3>1. j + 1 \in DOMAIN s /\ s[j + 1].kind = "Start" /\ j + 1 < i + 1 /\ j \in Nat
      BY <1>1, <1>2, <2>2
    <3>2. FinishedBefore(s, j + 1, i + 1)
      BY <1>4, <3>1 DEF Forgotten
    <3>3. FinishedBefore(t, (j + 1) - 1, i) /\ (j + 1) - 1 = j
      BY <1>3, <3>1, <3>2
    <3> QED
      BY <3>3
  <2> QED
    BY <2>1, <2>2 DEF Forgotten
<1>5. ASSUME CancelsForgotten(named, s)
      PROVE  CancelsForgotten(named2, t)
  <2> SUFFICES ASSUME NEW i \in DOMAIN t, NullCancel(t[i])
               PROVE  Forgotten(named2, t, i)
    BY DEF CancelsForgotten
  <2>1. i + 1 \in DOMAIN s /\ t[i] = s[i + 1] /\ i \in 1..Len(s)
    BY <1>1, <1>2
  <2>2. Forgotten(named, s, i + 1)
    BY <1>5, <2>1 DEF CancelsForgotten
  <2> QED
    BY <1>4, <2>1, <2>2
<1>6. ASSUME Forgotten(named, s, Len(s) + 1)
      PROVE  Forgotten(named2, t, Len(t) + 1)
  <2>1. Len(s) \in 1..Len(s) /\ Len(t) + 1 = Len(s)
    BY <1>1
  <2> QED
    BY <1>4, <1>6, <2>1
<1>7. ASSUME CancelsForgotten(named, s), NullCancel(Head(s))
      PROVE  ~ named
  <2>1. Forgotten(named, s, 1)
    BY <1>1, <1>2, <1>7 DEF CancelsForgotten
  <2>2. ~ FinishedBefore(s, 0, 1)
    BY <1>2 DEF FinishedBefore
  <2> QED
    BY <2>1, <2>2 DEF Forgotten
<1> QED
  BY <1>5, <1>6, <1>7 DEF t

-----------------------------------------------------------------------------
(* What the steps of others leave                                          *)

\* The worker of c does nothing.
WorkerSame(c) ==
  /\ fileName'[c] = fileName[c] /\ currentId'[c] = currentId[c]
  /\ disk'[c] = disk[c] /\ writer'[c] = writer[c]
  /\ c \in isOpen' <=> c \in isOpen

LEMMA MessageFacts ==
  ASSUME TypeInv, NEW m \in Masters, NEW c \in Computers, NEW a \in Transit(m, c)
  PROVE  /\ a \in GoodMessage /\ a.id \in Nat
         /\ a.kind = "Start" => a.file \in Files
         /\ a.kind \in {"Start", "Finish"} => a.id # NoId
<1>1. a \in GoodMessage
  BY TransitTypes
<1>2. a \in Message
  BY <1>1, GoodIsMessage
<1> QED
  BY <1>1, <1>2 DEF GoodMessage, Message, TransferId

LEMMA WorkerFacts ==
  ASSUME TypeInv, NEW c \in Computers
  PROVE  currentId[c] \in Nat /\ ids \in Nat /\ fileName[c] \in Files \cup {NoFile}
  BY DEF TypeInv, TypeOK, TransferId

LEMMA OrderKept ==
  ASSUME TypeInv, NEW m \in Masters, NEW c \in Computers, OrderInv(m, c), WorkerSame(c),
         ids' \in Nat, ids <= ids',
         \A a \in Transit(m, c)' :
           \/ a \in Transit(m, c)
           \/ a.id = NoId
           \/ a.id = ids' /\ (a.kind = "Start" => ids < ids')
  PROVE  Later(m, c)' /\ RefusedInv(m, c)' /\ OpenInv(c)' /\ \A a \in Transit(m, c)' : a.id <= ids'
<1>1. currentId[c] \in Nat /\ ids \in Nat /\ NoId = 0
  BY WorkerFacts DEF NoId
<1>2. \A a \in Transit(m, c) : a.id \in Nat /\ a.id <= ids
  BY MessageFacts DEF OrderInv, Fresh
<1>3. Later(m, c)'
  BY <1>1, <1>2 DEF OrderInv, Later, WorkerSame
<1>4. RefusedInv(m, c)'
  BY <1>1, <1>2 DEF OrderInv, RefusedInv, Refused, WorkerSame
<1>5. OpenInv(c)'
  BY DEF OrderInv, OpenInv, WorkerSame
<1> QED
  BY <1>1, <1>2, <1>3, <1>4, <1>5

LEMMA DataKept ==
  ASSUME TypeInv, NEW m \in Masters, NEW c \in Computers, DataInv(m, c), WorkerSame(c),
         lost[c] \subseteq lost'[c],
         \A a \in Transit(m, c) : a.id \notin lost'[c] => a \in Transit(m, c)',
         \A id \in Nat, f \in Files, k \in Nat :
           id \notin lost'[c] /\ RestComes(m, c, id, f, k) => RestComes(m, c, id, f, k)',
         \A a \in Transit(m, c)' :
           a.kind = "Start" /\ a.id \notin lost'[c] =>
             a \in Transit(m, c) \/ RestComes(m, c, a.id, a.file, 0)'
  PROVE  DataInv(m, c)'
<1>1. StartInv(m, c)'
  <2> SUFFICES ASSUME NEW a \in Transit(m, c)', a.kind = "Start", a.id \notin lost'[c]
               PROVE  RestComes(m, c, a.id, a.file, 0)'
    BY DEF StartInv
  <2>1. CASE a \in Transit(m, c)
    <3>1. a.id \in Nat /\ a.file \in Files /\ 0 \in Nat
      BY <2>1, MessageFacts
    <3>2. RestComes(m, c, a.id, a.file, 0)
      BY <2>1 DEF DataInv, StartInv
    <3> QED
      BY <3>1, <3>2
  <2> QED
    BY <2>1
<1>2. ReceivingInv(m, c)'
  <2> SUFFICES ASSUME c \in isOpen, currentId[c] \notin lost'[c]
               PROVE  ReceivingInv(m, c)'
    BY DEF ReceivingInv, WorkerSame
  <2>1. CASE CancelComes(m, c, currentId[c])
    <3>1. PICK a \in Transit(m, c) : a.kind = "Cancel" /\ a.id = currentId[c]
      BY <2>1 DEF CancelComes
    <3>2. a \in Transit(m, c)' /\ a.id = currentId'[c]
      BY <3>1 DEF WorkerSame
    <3> QED
      BY <3>1, <3>2 DEF ReceivingInv, CancelComes
  <2>2. CASE ~ CancelComes(m, c, currentId[c])
    <3>1. PICK k \in 0..Size[fileName[c]] :
            /\ disk[c][fileName[c]] = SubSeq(Source(fileName[c]), 1, k)
            /\ RestComes(m, c, currentId[c], fileName[c], k)
      BY <2>2 DEF DataInv, ReceivingInv
    <3>2. fileName[c] \in Files /\ currentId[c] \in Nat
      BY WorkerFacts DEF TypeInv, OpenFiles
    <3>3. k \in Nat
      BY <3>1, <3>2, FileTypes
    <3>4. PICK id \in Nat, f \in Files : id = currentId[c] /\ f = fileName[c]
      BY <3>2
    <3>5. RestComes(m, c, id, f, k)'
      BY <3>1, <3>3, <3>4
    <3>6. /\ id = currentId'[c] /\ f = fileName'[c] /\ k \in 0..Size[f]
          /\ disk'[c][f] = SubSeq(Source(f), 1, k)
      BY <3>1, <3>4 DEF WorkerSame
    <3> QED
      BY <3>5, <3>6 DEF ReceivingInv
  <2> QED
    BY <2>1, <2>2
<1>3. ReceivedInv(c)'
  BY DEF DataInv, ReceivedInv, WorkerSame
<1> QED
  BY <1>1, <1>2, <1>3 DEF DataInv

\* Nothing of the transfer has come, gone or been sent.
LEMMA RestSame ==
  ASSUME NEW m, NEW c, NEW id, NEW f, NEW k,
         \A a \in Transit(m, c) : a.id = id => a \in Transit(m, c)',
         \A a \in Transit(m, c)' : a.id = id => a \in Transit(m, c),
         reader[m].present /\ transferId[m] = id =>
           /\ reader'[m].present /\ transferId'[m] = id
           /\ File(m)' = File(m) /\ Sent(m)' = Sent(m),
         RestComes(m, c, id, f, k)
  PROVE  RestComes(m, c, id, f, k)'
<1>1. Chunks(Transit(m, c)', id) = Chunks(Transit(m, c), id)
  BY DEF Chunks, IsChunk
<1>2. Chunks(Transit(m, c), id)' = Chunks(Transit(m, c)', id)
  BY DEF Chunks, IsChunk
<1> QED
  BY <1>1, <1>2 DEF RestComes, CancelComes

\* Messages without chunks have been added.
LEMMA RestMore ==
  ASSUME NEW m, NEW c, NEW id, NEW f, NEW k,
         Transit(m, c) \subseteq Transit(m, c)',
         \A a \in Transit(m, c)' : a \in Transit(m, c) \/ a.kind # "Continue",
         reader[m].present /\ transferId[m] = id /\ File(m) = f /\ k <= Sent(m)
           /\ Chunks(Transit(m, c)', id) = Upto(f, k, Sent(m))
           => RestComes(m, c, id, f, k)',
         RestComes(m, c, id, f, k)
  PROVE  RestComes(m, c, id, f, k)'
<1>1. Chunks(Transit(m, c)', id) = Chunks(Transit(m, c), id)
  BY DEF Chunks, IsChunk
<1>2. Chunks(Transit(m, c), id)' = Chunks(Transit(m, c)', id)
  BY DEF Chunks, IsChunk
<1> QED
  BY <1>1, <1>2 DEF RestComes, CancelComes

LEMMA ControllerSame ==
  ASSUME NEW m, UNCHANGED controllerVars
  PROVE  /\ reader'[m] = reader[m] /\ transferId'[m] = transferId[m]
         /\ File(m)' = File(m) /\ Sent(m)' = Sent(m)
  BY DEF controllerVars, File, Sent

LEMMA Untouched ==
  ASSUME TypeInv, NEW m \in Masters, NEW c \in Computers, PairInv(m, c), WorkerSame(c),
         InTransit(m, c)' = InTransit(m, c), lost'[c] = lost[c], UNCHANGED <<controllerVars, ids>>
  PROVE  PairInv(m, c)'
<1>1. Transit(m, c)' = Transit(m, c)
  BY DEF Transit
<1>2. /\ reader'[m] = reader[m] /\ transferId'[m] = transferId[m]
      /\ File(m)' = File(m) /\ Sent(m)' = Sent(m)
  BY ControllerSame
<1>3. OrderInv(m, c)'
  <2>1. ids \in Nat /\ ids' = ids
    BY WorkerFacts
  <2>2. Later(m, c)' /\ RefusedInv(m, c)' /\ OpenInv(c)'
    BY <1>1, <2>1, OrderKept DEF PairInv
  <2> QED
    BY <1>1, <1>2, <2>1, <2>2 DEF PairInv, OrderInv, Fresh
<1>4. DataInv(m, c)'
  <2>1. \A id \in Nat, f \in Files, k \in Nat :
          RestComes(m, c, id, f, k) => RestComes(m, c, id, f, k)'
    BY <1>1, <1>2, RestSame
  <2> QED
    BY <1>1, <2>1, DataKept DEF PairInv
<1>5. NoLossInv(m, c)'
  BY <1>2 DEF PairInv, NoLossInv, WorkerSame
<1> QED
  BY <1>3, <1>4, <1>5 DEF PairInv

LEMMA Lossy ==
  ASSUME TypeInv, NEW m \in Masters, NEW c \in Computers, PairInv(m, c), WorkerSame(c),
         InOrder(InTransit(m, c)'), NEW Gone, Transit(m, c) = Transit(m, c)' \cup Gone,
         lost[c] \subseteq lost'[c], \A a \in Gone : a.id \in lost'[c], lost'[c] # {},
         UNCHANGED <<controllerVars, ids>>
  PROVE  PairInv(m, c)'
<1>1. /\ reader'[m] = reader[m] /\ transferId'[m] = transferId[m]
      /\ File(m)' = File(m) /\ Sent(m)' = Sent(m)
  BY ControllerSame
<1>2. InOrder(InTransit(m, c))'
  BY DEF InOrder, Follows, IsChunk
<1>3. OrderInv(m, c)'
  <2>1. ids \in Nat /\ ids' = ids
    BY WorkerFacts
  <2>2. Later(m, c)' /\ RefusedInv(m, c)' /\ OpenInv(c)'
    BY <2>1, OrderKept DEF PairInv
  <2> QED
    BY <1>1, <1>2, <2>1, <2>2 DEF PairInv, OrderInv, Fresh
<1>4. DataInv(m, c)'
  <2>1. ASSUME NEW id \in Nat, NEW f \in Files, NEW k \in Nat,
               id \notin lost'[c], RestComes(m, c, id, f, k)
        PROVE  RestComes(m, c, id, f, k)'
    <3>1. \A a \in Transit(m, c) : a.id = id => a \in Transit(m, c)'
      BY <2>1
    <3> QED
      BY <1>1, <2>1, <3>1, RestSame
  <2> QED
    BY <2>1, DataKept DEF PairInv
<1>5. NoLossInv(m, c)'
  BY DEF NoLossInv
<1> QED
  BY <1>3, <1>4, <1>5 DEF PairInv

LEMMA WithoutWorkerPair ==
  ASSUME TypeInv, NEW m \in Masters, NEW c \in Computers, PairInv(m, c), withoutWorker(c)
  PROVE  PairInv(m, c)'
<1>1. /\ inbox'[c] = <<>> /\ wire' = wire /\ queue' = queue
      /\ lost'[c] = lost[c] \cup IdsOf(inbox[c]) \cup {currentId[c]}
      /\ fileName'[c] = NoFile /\ currentId'[c] = NoId /\ c \notin isOpen'
      /\ UNCHANGED <<disk, writer, controllerVars, ids>>
  BY DEF withoutWorker, TypeInv, TypeOK
<1>2. inbox[c] \in Seq(GoodMessage)
  BY TransitTypes, Zenon
<1>3. InOrder(InTransit(m, c)') /\ Transit(m, c) = Transit(m, c)' \cup Range(inbox[c])
  BY <1>1, TransitCutInbox DEF PairInv, OrderInv
<1>4. \A a \in Range(inbox[c]) : a.id \in lost'[c]
  BY <1>1 DEF Range, IdsOf
<1>5. /\ reader'[m] = reader[m] /\ transferId'[m] = transferId[m]
      /\ File(m)' = File(m) /\ Sent(m)' = Sent(m)
  BY <1>1, ControllerSame
<1>6. InOrder(InTransit(m, c))'
  BY <1>3 DEF InOrder, Follows, IsChunk
<1>7. Fresh(m, c)'
  BY <1>1, <1>3, <1>5 DEF PairInv, OrderInv, Fresh
<1>8. Later(m, c)'
  <2>1. ids \in Nat /\ NoId = 0
    BY WorkerFacts DEF NoId
  <2>2. \A a \in Transit(m, c)' : a.id \in Nat /\ (a.kind = "Start" => a.id # NoId)
    BY <1>3, MessageFacts
  <2> QED
    BY <1>1, <2>1, <2>2 DEF Later
<1>9. RefusedInv(m, c)' /\ OpenInv(c)' /\ ReceivingInv(m, c)' /\ NoLossInv(m, c)'
  BY <1>1 DEF RefusedInv, OpenInv, ReceivingInv, NoLossInv
<1>10. StartInv(m, c)'
  <2> SUFFICES ASSUME NEW a \in Transit(m, c)', a.kind = "Start", a.id \notin lost'[c]
               PROVE  RestComes(m, c, a.id, a.file, 0)'
    BY DEF StartInv
  <2>1. RestComes(m, c, a.id, a.file, 0)
    BY <1>1, <1>3 DEF PairInv, DataInv, StartInv
  <2>2. \A b \in Transit(m, c) : b.id = a.id => b \in Transit(m, c)'
    BY <1>3, <1>4
  <2> QED
    BY <1>3, <1>5, <2>1, <2>2, RestSame
<1>11. ReceivedInv(c)'
  BY <1>1 DEF PairInv, DataInv, ReceivedInv, OrderInv, OpenInv
<1> QED
  BY <1>6, <1>7, <1>8, <1>9, <1>10, <1>11 DEF PairInv, OrderInv, DataInv

-----------------------------------------------------------------------------
(* The steps of the connections and of the other computers                 *)

LEMMA PairElsewhere ==
  ASSUME TypeInv, NEW m \in Masters, NEW c \in Computers, NEW d \in Computers, d # c,
         PairInv(m, c), LinkStep(m, d) \/ WorkerStep(d)
  PROVE  PairInv(m, c)'
<1>1. UNCHANGED <<controllerVars, ids>>
  BY DEF LinkStep, sendEvents, LoseConnection, Reconnect, forwardMessage, WorkerStep, startFile,
         continueFile, cancelFile, closeFile, openTransferFolder, CloseBox, retryWorker, WorkerEnds,
         withoutWorker, Handled
<1>2. <<m, c>> \in Pair /\ <<m, c>> # <<m, d>>
  BY DEF Pair
<1>3. /\ inbox'[c] = inbox[c] /\ lost'[c] = lost[c]
      /\ wire'[<<m, c>>] = wire[<<m, c>>] /\ queue'[<<m, c>>] = queue[<<m, c>>]
      /\ WorkerSame(c)
  <2>1. CASE sendEvents(m, d)
    BY <1>2, <2>1 DEF sendEvents, serverVars, workerVars, WorkerSame, TypeInv, TypeOK
  <2>2. CASE LoseConnection(m, d)
    BY <1>2, <2>2 DEF LoseConnection, serverVars, workerVars, WorkerSame, TypeInv, TypeOK
  <2>3. CASE Reconnect(m, d)
    BY <2>3 DEF Reconnect, serverVars, workerVars, WorkerSame
  <2>4. CASE forwardMessage(m, d)
    BY <1>2, <2>4 DEF forwardMessage, workerVars, WorkerSame, TypeInv, TypeOK
  <2>5. CASE startFile(d)
    BY <2>5 DEF startFile, Handled, WorkerSame, TypeInv, TypeOK
  <2>6. CASE continueFile(d)
    BY <2>6 DEF continueFile, Handled, WorkerSame, TypeInv, TypeOK
  <2>7. CASE cancelFile(d)
    BY <2>7 DEF cancelFile, Handled, WorkerSame, TypeInv, TypeOK
  <2>8. CASE closeFile(d)
    BY <2>8 DEF closeFile, Handled, WorkerSame, TypeInv, TypeOK
  <2>9. CASE openTransferFolder(d)
    BY <2>9 DEF openTransferFolder, workerVars, Handled, WorkerSame, TypeInv, TypeOK
  <2>10. CASE CloseBox(d)
    BY <2>10 DEF CloseBox, serverVars, WorkerSame
  <2>11. CASE withoutWorker(d)
    BY <2>11 DEF withoutWorker, WorkerSame, TypeInv, TypeOK
  <2> QED
    BY <2>1, <2>2, <2>3, <2>4, <2>5, <2>6, <2>7, <2>8, <2>9, <2>10, <2>11
       DEF LinkStep, WorkerStep, retryWorker, WorkerEnds
<1>4. InTransit(m, c)' = InTransit(m, c)
  BY <1>3 DEF InTransit
<1> QED
  BY <1>1, <1>3, <1>4, Untouched

LEMMA LinkPair ==
  ASSUME TypeInv, NEW m \in Masters, NEW c \in Computers, PairInv(m, c), LinkStep(m, c)
  PROVE  PairInv(m, c)'
<1>1. UNCHANGED <<controllerVars, ids>> /\ WorkerSame(c)
  BY DEF LinkStep, sendEvents, LoseConnection, Reconnect, forwardMessage, workerVars, WorkerSame
<1>2. <<m, c>> \in Pair /\ InOrder(InTransit(m, c))
  BY DEF Pair, PairInv, OrderInv
<1>3. CASE sendEvents(m, c)
  <2>1. InTransit(m, c)' = InTransit(m, c)
    BY <1>3, TransitMove
  <2>2. lost'[c] = lost[c]
    BY <1>3 DEF sendEvents
  <2> QED
    BY <1>1, <2>1, <2>2, Untouched
<1>4. CASE LoseConnection(m, c)
  <2>1. /\ wire'[<<m, c>>] = <<>> /\ inbox' = inbox /\ queue' = queue
        /\ lost'[c] = lost[c] \cup IdsOf(wire[<<m, c>>])
    BY <1>2, <1>4 DEF LoseConnection, serverVars, TypeInv, TypeOK
  <2>2. CASE wire[<<m, c>>] = <<>>
    <3>1. InTransit(m, c)' = InTransit(m, c)
      BY <2>1, <2>2 DEF InTransit
    <3>2. lost'[c] = lost[c]
      BY <2>1, <2>2 DEF IdsOf
    <3> QED
      BY <1>1, <3>1, <3>2, Untouched
  <2>3. CASE wire[<<m, c>>] # <<>>
    <3>1. InOrder(InTransit(m, c)') /\ Transit(m, c) = Transit(m, c)' \cup Range(wire[<<m, c>>])
      BY <1>2, <2>1, TransitCutWire
    <3>2. \A a \in Range(wire[<<m, c>>]) : a.id \in lost'[c]
      BY <2>1 DEF Range, IdsOf
    <3>3. lost'[c] # {}
      <4>1. wire[<<m, c>>] \in Seq(GoodMessage)
        BY TransitTypes, Zenon
      <4>2. 1 \in DOMAIN wire[<<m, c>>]
        BY <2>3, <4>1, EmptySeq, LenProperties
      <4> QED
        BY <2>1, <4>2 DEF IdsOf
    <3> QED
      BY <1>1, <2>1, <3>1, <3>2, <3>3, Lossy
  <2> QED
    BY <2>2, <2>3
<1>5. CASE Reconnect(m, c)
  <2>1. InTransit(m, c)' = InTransit(m, c) /\ lost'[c] = lost[c]
    BY <1>5 DEF Reconnect, InTransit, serverVars
  <2> QED
    BY <1>1, <2>1, Untouched
<1>6. CASE forwardMessage(m, c)
  <2>1. wire[<<m, c>>] # <<>> /\ wire'[<<m, c>>] = Tail(wire[<<m, c>>]) /\ queue' = queue
    BY <1>2, <1>6 DEF forwardMessage, TypeInv, TypeOK
  <2>2. CASE inbox'[c] = Append(inbox[c], Head(wire[<<m, c>>])) /\ lost' = lost
    <3>1. InTransit(m, c)' = InTransit(m, c)
      BY <2>1, <2>2, TransitForward
    <3> QED
      BY <1>1, <2>2, <3>1, Untouched
  <2>3. CASE inbox' = inbox /\ lost'[c] = lost[c] \cup {Head(wire[<<m, c>>]).id}
    <3>1. /\ InOrder(InTransit(m, c)')
          /\ Transit(m, c) = Transit(m, c)' \cup {Head(wire[<<m, c>>])}
      BY <1>2, <2>1, <2>3, TransitDrop
    <3>2. \A a \in {Head(wire[<<m, c>>])} : a.id \in lost'[c]
      BY <2>3
    <3>3. lost[c] \subseteq lost'[c] /\ lost'[c] # {}
      BY <2>3
    <3> QED
      BY <1>1, <3>1, <3>2, <3>3, Lossy
  <2> QED
    BY <1>6, <2>2, <2>3 DEF forwardMessage, TypeInv, TypeOK
<1> QED
  BY <1>3, <1>4, <1>5, <1>6 DEF LinkStep

-----------------------------------------------------------------------------
(* The steps of the worker                                                 *)

\* The worker of c handles h, the first message under way, in a step that is not a Cancel's
\* or a Finish's for the transfer id, and no chunk of it.
LEMMA RestHandled ==
  ASSUME NEW m, NEW c, NEW id, NEW f, NEW k, NEW h,
         Transit(m, c) = {h} \cup Transit(m, c)', UNCHANGED controllerVars,
         h.id # id \/ (h.kind \notin {"Cancel", "Finish"} /\ ~ IsChunk(h, id)),
         RestComes(m, c, id, f, k)
  PROVE  RestComes(m, c, id, f, k)'
<1>1. /\ reader'[m] = reader[m] /\ transferId'[m] = transferId[m]
      /\ File(m)' = File(m) /\ Sent(m)' = Sent(m)
  BY ControllerSame
<1>2. Chunks(Transit(m, c)', id) = Chunks(Transit(m, c), id)
  BY DEF Chunks, IsChunk
<1>3. Chunks(Transit(m, c), id)' = Chunks(Transit(m, c)', id)
  BY DEF Chunks, IsChunk
<1> QED
  BY <1>1, <1>2, <1>3 DEF RestComes, CancelComes

LEMMA HandledFacts ==
  ASSUME TypeInv, NEW m \in Masters, NEW c \in Computers, PairInv(m, c), NEW kind, Handled(c, kind)
  PROVE  /\ Head(inbox[c]) \in GoodMessage /\ Head(inbox[c]).kind = kind
         /\ Head(inbox[c]).id \in Nat
         /\ Transit(m, c) = {Head(inbox[c])} \cup Transit(m, c)'
         /\ InTransit(m, c) # <<>> /\ Head(InTransit(m, c)) = Head(inbox[c])
         /\ InTransit(m, c)' = Tail(InTransit(m, c))
         /\ \A b \in Transit(m, c)' : Follows(Head(inbox[c]), b) /\ b.id \in Nat
         /\ UNCHANGED <<controllerVars, ids, lost>>
         /\ reader'[m] = reader[m] /\ transferId'[m] = transferId[m]
         /\ File(m)' = File(m) /\ Sent(m)' = Sent(m)
<1>1. /\ inbox[c] # <<>> /\ Head(inbox[c]).kind = kind /\ inbox'[c] = Tail(inbox[c])
      /\ UNCHANGED <<wire, queue>> /\ UNCHANGED <<controllerVars, ids, lost>>
  BY DEF Handled, TypeInv, TypeOK
<1>2. /\ InTransit(m, c) # <<>> /\ Head(InTransit(m, c)) = Head(inbox[c])
      /\ InTransit(m, c)' = Tail(InTransit(m, c))
  BY <1>1, TransitHandle
<1>3. InTransit(m, c) \in Seq(GoodMessage) /\ InOrder(InTransit(m, c))
  BY TransitTypes, Zenon DEF PairInv, OrderInv
<1>4. \A s \in Seq(GoodMessage) : s # <<>> /\ InOrder(s) =>
        /\ Head(s) \in GoodMessage /\ Range(s) = {Head(s)} \cup Range(Tail(s))
        /\ \A b \in Range(Tail(s)) : Follows(Head(s), b)
  BY TailInOrder
<1>5. /\ Head(inbox[c]) \in GoodMessage
      /\ Transit(m, c) = {Head(inbox[c])} \cup Transit(m, c)'
      /\ \A b \in Transit(m, c)' : Follows(Head(inbox[c]), b)
  BY <1>2, <1>3, <1>4, Zenon DEF Transit
<1>6. Head(inbox[c]).id \in Nat /\ \A b \in Transit(m, c)' : b.id \in Nat
  BY <1>5, MessageFacts
<1>7. /\ reader'[m] = reader[m] /\ transferId'[m] = transferId[m]
      /\ File(m)' = File(m) /\ Sent(m)' = Sent(m)
  BY <1>1, ControllerSame
<1> QED
  BY <1>1, <1>2, <1>5, <1>6, <1>7

\* What holds whatever the message was.
LEMMA HandledKeeps ==
  ASSUME TypeInv, NEW m \in Masters, NEW c \in Computers, PairInv(m, c), NEW kind, Handled(c, kind),
         fileName'[c] # NoFile => kind = "Start" \/ (fileName[c] # NoFile /\ kind # "Finish")
  PROVE  InOrder(InTransit(m, c))' /\ Fresh(m, c)' /\ StartInv(m, c)' /\ NoLossInv(m, c)'
<1> DEFINE h == Head(inbox[c])
<1>1. /\ h \in GoodMessage /\ h.kind = kind /\ h.id \in Nat
      /\ Transit(m, c) = {h} \cup Transit(m, c)'
      /\ \A b \in Transit(m, c)' : Follows(h, b) /\ b.id \in Nat
  BY HandledFacts
<1>2. /\ InTransit(m, c) # <<>> /\ Head(InTransit(m, c)) = h
      /\ InTransit(m, c)' = Tail(InTransit(m, c))
  BY HandledFacts
<1>3. UNCHANGED <<controllerVars, ids, lost>>
  BY HandledFacts
<1>4. /\ reader'[m] = reader[m] /\ transferId'[m] = transferId[m]
      /\ File(m)' = File(m) /\ Sent(m)' = Sent(m)
  BY HandledFacts
<1>5. InTransit(m, c) \in Seq(GoodMessage)
  BY TransitTypes, Zenon
<1> HIDE DEF h
<1>6. InOrder(InTransit(m, c))'
  <2>1. \A s \in Seq(GoodMessage) : s # <<>> /\ InOrder(s) => InOrder(Tail(s))
    BY TailInOrder
  <2>2. InOrder(InTransit(m, c)')
    BY <1>2, <1>5, <2>1, Zenon DEF PairInv, OrderInv
  <2> QED
    BY <2>2 DEF InOrder, Follows, IsChunk
<1>7. Fresh(m, c)'
  BY <1>1, <1>3, <1>4 DEF PairInv, OrderInv, Fresh
<1>8. StartInv(m, c)'
  <2> SUFFICES ASSUME NEW a \in Transit(m, c)', a.kind = "Start", a.id \notin lost[c]
               PROVE  RestComes(m, c, a.id, a.file, 0)'
    BY <1>3 DEF StartInv
  <2>1. RestComes(m, c, a.id, a.file, 0)
    BY <1>1 DEF PairInv, DataInv, StartInv
  <2>2. a.id # NoId
    BY <1>1, MessageFacts
  <2>3. h.id # a.id
    BY <1>1, <2>2 DEF Follows
  <2> QED
    BY <1>1, <1>3, <2>1, <2>3, RestHandled
<1>9. NoLossInv(m, c)'
  <2> DEFINE named == fileName[c] # NoFile
             named2 == fileName'[c] # NoFile
             s == InTransit(m, c)
  <2>1. named \in BOOLEAN /\ named2 \in BOOLEAN /\ s \in Seq(GoodMessage) /\ s # <<>>
        /\ (named2 => Head(s).kind = "Start" \/ (named /\ Head(s).kind # "Finish"))
    BY <1>1, <1>2, <1>5
  <2>2. lost[c] = {} => /\ CancelsForgotten(named, s)
                        /\ transferId[m] = NoId => Forgotten(named, s, Len(s) + 1)
    BY DEF PairInv, NoLossInv
  <2>3. InTransit(m, c)' = Tail(s)
    BY <1>2
  <2>4. (lost[c] = {} => /\ CancelsForgotten(named2, Tail(s))
                         /\ transferId[m] = NoId => Forgotten(named2, Tail(s), Len(Tail(s)) + 1))
        => NoLossInv(m, c)'
    BY <1>3, <1>4, <2>3 DEF NoLossInv
  <2> HIDE DEF named, named2, s
  <2>5. /\ CancelsForgotten(named, s) => CancelsForgotten(named2, Tail(s))
        /\ Forgotten(named, s, Len(s) + 1) => Forgotten(named2, Tail(s), Len(Tail(s)) + 1)
    BY <2>1, ForgottenTail
  <2> QED
    BY <2>2, <2>4, <2>5
<1> QED
  BY <1>6, <1>7, <1>8, <1>9

\* A Start comes behind the end of the transfer before: a file that is still open then has
\* not got all its messages.
LEMMA OpenNotBehind ==
  ASSUME TypeInv, NEW m \in Masters, NEW c \in Computers, ReaderInv(m), PairInv(m, c),
         Handled(c, "Start")
  PROVE  /\ c \in isOpen => currentId[c] \in lost[c]
         /\ currentId[c] < Head(inbox[c]).id /\ Head(inbox[c]).id <= ids
         /\ \A a \in Transit(m, c)' : a.id # currentId[c] \/ a.id = NoId
<1> DEFINE h == Head(inbox[c])
<1>1. /\ h \in GoodMessage /\ h.kind = "Start" /\ h.id \in Nat
      /\ Transit(m, c) = {h} \cup Transit(m, c)'
      /\ \A b \in Transit(m, c)' : Follows(h, b) /\ b.id \in Nat
  BY HandledFacts
<1> HIDE DEF h
<1>2. currentId[c] \in Nat /\ ids \in Nat
  BY WorkerFacts
<1>3. h.id # NoId /\ h.id <= ids /\ currentId[c] < h.id
  BY <1>1, MessageFacts DEF PairInv, OrderInv, Fresh, Later
<1>4. \A a \in Transit(m, c)' : a.id # currentId[c] \/ a.id = NoId
  BY <1>1, <1>2, <1>3 DEF Follows
<1>5. ASSUME c \in isOpen, currentId[c] \notin lost[c]
      PROVE  FALSE
  <2>1. currentId[c] # NoId
    BY <1>5 DEF PairInv, OrderInv, OpenInv
  <2>2. \A a \in Transit(m, c) : a.id # currentId[c]
    BY <1>1, <1>2, <1>3, <1>4, <2>1
  <2>3. ~ CancelComes(m, c, currentId[c])
    BY <2>2 DEF CancelComes
  <2>4. PICK k : RestComes(m, c, currentId[c], fileName[c], k)
    BY <1>5, <2>3 DEF PairInv, DataInv, ReceivingInv
  <2>5. reader[m].present /\ transferId[m] = currentId[c]
    BY <2>2, <2>3, <2>4 DEF RestComes
  <2> QED
    BY <1>1, <1>2, <1>3, <2>1, <2>5 DEF ReaderInv
<1> QED
  BY <1>3, <1>4, <1>5 DEF h

LEMMA StartFilePair ==
  ASSUME TypeInv, NEW m \in Masters, NEW c \in Computers, ReaderInv(m), PairInv(m, c), startFile(c)
  PROVE  PairInv(m, c)'
<1> DEFINE h == Head(inbox[c])
<1>1. Handled(c, "Start")
  BY DEF startFile
<1>2. /\ h \in GoodMessage /\ h.kind = "Start" /\ h.id \in Nat
      /\ Transit(m, c) = {h} \cup Transit(m, c)'
      /\ \A b \in Transit(m, c)' : Follows(h, b) /\ b.id \in Nat
      /\ UNCHANGED <<controllerVars, ids, lost>>
  BY <1>1, HandledFacts
<1>3. /\ c \in isOpen => currentId[c] \in lost[c]
      /\ currentId[c] < h.id /\ h.id <= ids
      /\ \A a \in Transit(m, c)' : a.id # currentId[c] \/ a.id = NoId
  BY <1>1, OpenNotBehind
<1>4. h.file \in Files /\ h.id # NoId
  BY <1>2, MessageFacts
<1>5. fileName'[c] = h.file
  BY DEF startFile, TypeInv, TypeOK
<1>6. InOrder(InTransit(m, c))' /\ Fresh(m, c)' /\ StartInv(m, c)' /\ NoLossInv(m, c)'
  BY <1>1, HandledKeeps
<1>7. currentId[c] \in Nat /\ ids \in Nat
  BY WorkerFacts
<1>8. CASE /\ isOpen' = isOpen \cup {c} /\ currentId'[c] = h.id
           /\ disk' = [disk EXCEPT ![c][h.file] = <<>>]
           /\ writer' = [writer EXCEPT ![c][h.file] = h.id]
  <2>1. /\ disk'[c][h.file] = <<>> /\ writer'[c][h.file] = h.id
        /\ \A g \in Files : g # h.file => disk'[c][g] = disk[c][g] /\ writer'[c][g] = writer[c][g]
    BY <1>4, <1>8 DEF TypeInv, TypeOK
  <2>2. Later(m, c)'
    BY <1>2, <1>3, <1>4, <1>8 DEF Later, Follows
  <2>3. RefusedInv(m, c)' /\ OpenInv(c)'
    BY <1>4, <1>5, <1>8, <2>1 DEF RefusedInv, Refused, OpenInv
  <2>4. ReceivingInv(m, c)'
    <3> SUFFICES ASSUME h.id \notin lost[c]
                 PROVE  ReceivingInv(m, c)'
      BY <1>2, <1>8 DEF ReceivingInv
    <3>1. RestComes(m, c, h.id, h.file, 0)
      BY <1>2 DEF PairInv, DataInv, StartInv
    <3>2. PICK id \in Nat, f \in Files : id = h.id /\ f = h.file
      BY <1>2, <1>4
    <3>3. RestComes(m, c, id, f, 0)
      BY <3>1, <3>2
    <3>4. RestComes(m, c, id, f, 0)'
      BY <1>2, <3>3, RestHandled DEF IsChunk
    <3>5. SubSeq(Source(f), 1, 0) = <<>>
      BY FileTypes DEF Source
    <3>6. 0 \in 0..Size[f]
      BY <3>2, FileTypes
    <3>7. id = currentId'[c] /\ f = fileName'[c] /\ disk'[c][f] = SubSeq(Source(f), 1, 0)
      BY <1>5, <1>8, <2>1, <3>2, <3>5
    <3> QED
      BY <3>4, <3>6, <3>7 DEF ReceivingInv
  <2>5. ReceivedInv(c)'
    <3> SUFFICES ASSUME NEW g \in Files, writer'[c][g] # NoId, writer'[c][g] \notin lost[c], g # h.file
                 PROVE  disk'[c][g] \in {Absent, Source(g)}
      BY <1>2, <1>5, <1>8 DEF ReceivedInv
    <3>1. ~ (c \in isOpen /\ fileName[c] = g)
      BY <1>3, <2>1 DEF PairInv, OrderInv, OpenInv
    <3> QED
      BY <2>1, <3>1 DEF PairInv, DataInv, ReceivedInv
  <2> QED
    BY <1>6, <2>2, <2>3, <2>4, <2>5 DEF PairInv, OrderInv, DataInv
<1>9. CASE isOpen' = isOpen \ {c} /\ UNCHANGED <<currentId, disk, writer>>
  <2>1. Later(m, c)'
    BY <1>2, <1>9 DEF Later, PairInv, OrderInv
  <2>2. RefusedInv(m, c)' /\ OpenInv(c)' /\ ReceivingInv(m, c)'
    BY <1>2, <1>3, <1>7, <1>9 DEF RefusedInv, OpenInv, ReceivingInv
  <2>3. ReceivedInv(c)'
    BY <1>2, <1>3, <1>9 DEF PairInv, OrderInv, OpenInv, DataInv, ReceivedInv
  <2> QED
    BY <1>6, <2>1, <2>2, <2>3 DEF PairInv, OrderInv, DataInv
<1> QED
  BY <1>8, <1>9 DEF startFile, TypeInv, TypeOK

LEMMA CancelFilePair ==
  ASSUME TypeInv, NEW m \in Masters, NEW c \in Computers, ReaderInv(m), PairInv(m, c), cancelFile(c)
  PROVE  PairInv(m, c)'
<1> DEFINE h == Head(inbox[c])
           removes == h.id = currentId[c] /\ fileName[c] # NoFile
<1>1. Handled(c, "Cancel")
  BY DEF cancelFile
<1>2. /\ h \in GoodMessage /\ h.kind = "Cancel" /\ h.id \in Nat
      /\ Transit(m, c) = {h} \cup Transit(m, c)'
      /\ \A b \in Transit(m, c)' : Follows(h, b) /\ b.id \in Nat
      /\ UNCHANGED <<controllerVars, ids, lost>>
  BY <1>1, HandledFacts
<1>3. UNCHANGED <<fileName, currentId, writer>>
  BY DEF cancelFile
<1>4. InOrder(InTransit(m, c))' /\ Fresh(m, c)' /\ StartInv(m, c)' /\ NoLossInv(m, c)'
  BY <1>1, <1>3, HandledKeeps
<1>5. Later(m, c)'
  BY <1>2, <1>3 DEF Later, PairInv, OrderInv
<1>6. CASE removes
  <2>1. isOpen' = isOpen \ {c} /\ disk' = [disk EXCEPT ![c][fileName[c]] = Absent]
        /\ fileName[c] \in Files
    BY <1>6, WorkerFacts DEF cancelFile, current
  <2>2. disk'[c][fileName[c]] = Absent
        /\ \A g \in Files : g # fileName[c] => disk'[c][g] = disk[c][g]
    BY <2>1 DEF TypeInv, TypeOK
  <2>3. RefusedInv(m, c)' /\ OpenInv(c)' /\ ReceivingInv(m, c)'
    BY <1>3, <2>1, <2>2 DEF RefusedInv, Refused, OpenInv, ReceivingInv
  <2>4. ReceivedInv(c)'
    BY <1>2, <1>3, <2>1, <2>2 DEF PairInv, DataInv, ReceivedInv
  <2> QED
    BY <1>4, <1>5, <2>3, <2>4 DEF PairInv, OrderInv, DataInv
<1>7. CASE ~ removes
  <2>1. UNCHANGED <<isOpen, disk>>
    BY <1>7 DEF cancelFile, current
  <2>2. RefusedInv(m, c)' /\ OpenInv(c)'
    BY <1>2, <1>3, <2>1 DEF PairInv, OrderInv, RefusedInv, Refused, OpenInv
  <2>3. ReceivingInv(m, c)'
    <3> SUFFICES ASSUME c \in isOpen, currentId[c] \notin lost[c]
                 PROVE  ReceivingInv(m, c)'
      BY <1>2, <1>3, <2>1 DEF ReceivingInv
    <3>1. fileName[c] \in Files /\ h.id # currentId[c] /\ currentId[c] \in Nat
      BY <1>7, FileTypes, WorkerFacts DEF TypeInv, OpenFiles
    <3>2. PICK id \in Nat, f \in Files : id = currentId[c] /\ f = fileName[c]
      BY <3>1
    <3>3. CASE CancelComes(m, c, id)
      BY <1>2, <1>3, <3>1, <3>2, <3>3 DEF CancelComes, ReceivingInv
    <3>4. CASE ~ CancelComes(m, c, id)
      <4>1. PICK k \in 0..Size[f] :
              disk[c][f] = SubSeq(Source(f), 1, k) /\ RestComes(m, c, id, f, k)
        BY <3>2, <3>4 DEF PairInv, DataInv, ReceivingInv
      <4>2. RestComes(m, c, id, f, k)'
        BY <1>2, <3>1, <3>2, <4>1, RestHandled
      <4> QED
        BY <1>3, <2>1, <3>2, <4>1, <4>2 DEF ReceivingInv
    <3> QED
      BY <3>3, <3>4
  <2>4. ReceivedInv(c)'
    BY <1>2, <1>3, <2>1 DEF PairInv, DataInv, ReceivedInv
  <2> QED
    BY <1>4, <1>5, <2>2, <2>3, <2>4 DEF PairInv, OrderInv, DataInv
<1> QED
  BY <1>6, <1>7

LEMMA CloseFilePair ==
  ASSUME TypeInv, NEW m \in Masters, NEW c \in Computers, ReaderInv(m), PairInv(m, c), closeFile(c)
  PROVE  PairInv(m, c)'
<1> DEFINE h == Head(inbox[c])
<1>1. Handled(c, "Finish")
  BY DEF closeFile
<1>2. /\ h \in GoodMessage /\ h.kind = "Finish" /\ h.id \in Nat
      /\ Transit(m, c) = {h} \cup Transit(m, c)'
      /\ \A b \in Transit(m, c)' : Follows(h, b) /\ b.id \in Nat
      /\ UNCHANGED <<controllerVars, ids, lost>>
  BY <1>1, HandledFacts
<1>3. /\ UNCHANGED <<currentId, writer, disk>> /\ isOpen' = isOpen \ {c} /\ fileName'[c] = NoFile
  BY DEF closeFile, TypeInv, TypeOK
<1>4. InOrder(InTransit(m, c))' /\ Fresh(m, c)' /\ StartInv(m, c)' /\ NoLossInv(m, c)'
  BY <1>1, <1>3, HandledKeeps
<1>5. Later(m, c)'
  BY <1>2, <1>3 DEF Later, PairInv, OrderInv
<1>6. RefusedInv(m, c)' /\ OpenInv(c)' /\ ReceivingInv(m, c)'
  BY <1>3 DEF RefusedInv, Refused, OpenInv, ReceivingInv
<1>7. currentId[c] \in Nat /\ ids \in Nat /\ h.id # NoId /\ h.id <= ids /\ currentId[c] <= h.id
  BY <1>2, MessageFacts, WorkerFacts DEF PairInv, OrderInv, Fresh, Later
<1> HIDE DEF h
<1>8. ASSUME c \in isOpen, currentId[c] \notin lost[c]
      PROVE  disk[c][fileName[c]] = Source(fileName[c])
  <2>1. currentId[c] # NoId /\ fileName[c] \in Files
    BY <1>8 DEF PairInv, OrderInv, OpenInv, TypeInv, OpenFiles
  <2>2. \A a \in Transit(m, c)' : a.id # currentId[c]
    BY <1>2, <1>7, <2>1 DEF Follows
  <2>3. ~ CancelComes(m, c, currentId[c])
    BY <1>2, <2>2 DEF CancelComes
  <2>4. PICK k \in 0..Size[fileName[c]] :
          /\ disk[c][fileName[c]] = SubSeq(Source(fileName[c]), 1, k)
          /\ RestComes(m, c, currentId[c], fileName[c], k)
    BY <1>8, <2>3 DEF PairInv, DataInv, ReceivingInv
  <2>5. ~ (reader[m].present /\ transferId[m] = currentId[c])
    <3>1. ASSUME reader[m].present, transferId[m] = currentId[c]
          PROVE  FALSE
      <4>1. h.id = transferId[m]
        BY <1>2, <1>7, <2>1, <3>1 DEF ReaderInv
      <4> QED
        BY <1>2, <4>1 DEF PairInv, OrderInv, Fresh
    <3> QED
      BY <3>1
  <2>6. Chunks(Transit(m, c), currentId[c]) = Upto(fileName[c], k, Size[fileName[c]])
    BY <2>3, <2>4, <2>5 DEF RestComes
  <2>7. Chunks(Transit(m, c), currentId[c]) = {}
    BY <1>2, <2>2 DEF Chunks, IsChunk
  <2>8. Size[fileName[c]] \in Nat
    BY <2>1, FileTypes
  <2>9. k = Size[fileName[c]]
    <3>1. ~ (k + 1 <= Size[fileName[c]])
      <4>1. k + 1 <= Size[fileName[c]] => <<fileName[c], k + 1>> \in Upto(fileName[c], k, Size[fileName[c]])
        BY <2>8 DEF Upto
      <4> QED
        BY <2>6, <2>7, <4>1
    <3> QED
      BY <2>4, <2>8, <3>1
  <2>10. SubSeq(Source(fileName[c]), 1, Size[fileName[c]]) = Source(fileName[c])
    BY <2>8 DEF Source
  <2> QED
    BY <2>4, <2>9, <2>10
<1>9. ReceivedInv(c)'
  <2> SUFFICES ASSUME NEW f \in Files, writer[c][f] # NoId, writer[c][f] \notin lost[c]
               PROVE  disk[c][f] \in {Absent, Source(f)}
    BY <1>2, <1>3 DEF ReceivedInv
  <2>1. CASE c \in isOpen /\ fileName[c] = f
    BY <1>8, <2>1 DEF PairInv, OrderInv, OpenInv
  <2>2. CASE ~ (c \in isOpen /\ fileName[c] = f)
    BY <2>2 DEF PairInv, DataInv, ReceivedInv
  <2> QED
    BY <2>1, <2>2
<1> QED
  BY <1>4, <1>5, <1>6, <1>9 DEF PairInv, OrderInv, DataInv

LEMMA OpenTransferFolderPair ==
  ASSUME TypeInv, NEW m \in Masters, NEW c \in Computers, ReaderInv(m), PairInv(m, c),
         openTransferFolder(c)
  PROVE  PairInv(m, c)'
<1> DEFINE h == Head(inbox[c])
<1>1. Handled(c, "OpenTransferFolder") /\ UNCHANGED workerVars
  BY DEF openTransferFolder
<1>2. /\ h \in GoodMessage /\ h.kind = "OpenTransferFolder"
      /\ Transit(m, c) = {h} \cup Transit(m, c)'
      /\ UNCHANGED <<controllerVars, ids, lost>>
  BY <1>1, HandledFacts
<1>3. InOrder(InTransit(m, c))' /\ Fresh(m, c)' /\ StartInv(m, c)' /\ NoLossInv(m, c)'
  BY <1>1, HandledKeeps DEF workerVars
<1>4. Later(m, c)' /\ RefusedInv(m, c)' /\ OpenInv(c)' /\ ReceivedInv(c)'
  BY <1>1, <1>2 DEF workerVars, PairInv, OrderInv, DataInv, Later, RefusedInv, Refused, OpenInv,
                    ReceivedInv
<1> HIDE DEF h
<1>5. ReceivingInv(m, c)'
  <2> SUFFICES ASSUME c \in isOpen, currentId[c] \notin lost[c]
               PROVE  ReceivingInv(m, c)'
    BY <1>1, <1>2 DEF ReceivingInv, workerVars
  <2>1. PICK id \in Nat, f \in Files : id = currentId[c] /\ f = fileName[c]
    BY WorkerFacts DEF TypeInv, OpenFiles
  <2>2. CASE CancelComes(m, c, id)
    BY <1>1, <1>2, <2>1, <2>2 DEF CancelComes, ReceivingInv, workerVars
  <2>3. CASE ~ CancelComes(m, c, id)
    <3>1. PICK k \in 0..Size[f] :
            disk[c][f] = SubSeq(Source(f), 1, k) /\ RestComes(m, c, id, f, k)
      BY <2>1, <2>3 DEF PairInv, DataInv, ReceivingInv
    <3>2. RestComes(m, c, id, f, k)'
      BY <1>2, <3>1, RestHandled DEF IsChunk
    <3> QED
      BY <1>1, <2>1, <3>1, <3>2 DEF ReceivingInv, workerVars
  <2> QED
    BY <2>2, <2>3
<1> QED
  BY <1>3, <1>4, <1>5 DEF PairInv, OrderInv, DataInv

LEMMA NextChunk ==
  ASSUME NEW f \in Files, NEW k \in Nat, k + 1 <= Size[f]
  PROVE  SubSeq(Source(f), 1, k) \o << <<f, k + 1>> >> = SubSeq(Source(f), 1, k + 1)
<1>1. Size[f] \in Nat
  BY FileTypes
<1>2. SubSeq(Source(f), 1, k) = [i \in 1..k |-> <<f, i>>]
  BY <1>1 DEF Source
<1>3. SubSeq(Source(f), 1, k + 1) = [i \in 1..(k + 1) |-> <<f, i>>]
  BY <1>1 DEF Source
<1> DEFINE r == [i \in 1..k |-> <<f, i>>]
           s == << <<f, k + 1>> >>
           t == [i \in 1..(k + 1) |-> <<f, i>>]
           S == {<<f, i>> : i \in 1..(k + 1)}
           u == r \o s
<1>4. /\ r \in Seq(S) /\ Len(r) = k /\ s \in Seq(S) /\ Len(s) = 1 /\ s[1] = <<f, k + 1>>
      /\ t \in Seq(S) /\ Len(t) = k + 1
  OBVIOUS
<1>5. (\A i \in 1..k : r[i] = <<f, i>>) /\ (\A i \in 1..(k + 1) : t[i] = <<f, i>>)
  OBVIOUS
<1> HIDE DEF r, s, t, S
<1>6. /\ u \in Seq(S) /\ Len(u) = Len(r) + Len(s)
      /\ \A i \in 1..Len(r) + Len(s) : u[i] = IF i <= Len(r) THEN r[i] ELSE s[i - Len(r)]
  BY <1>4, ConcatProperties
<1> HIDE DEF u
<1>7. ASSUME NEW i \in 1..(k + 1)
      PROVE  u[i] = t[i]
  <2>1. u[i] = IF i <= k THEN r[i] ELSE s[i - k]
    BY <1>4, <1>6
  <2>2. CASE i <= k
    <3>1. i \in 1..k
      BY <2>2
    <3> QED
      BY <1>5, <2>1, <2>2, <3>1
  <2>3. CASE ~ (i <= k)
    <3>1. i = k + 1 /\ i - k = 1
      BY <2>3
    <3> QED
      BY <1>4, <1>5, <2>1, <2>3, <3>1
  <2> QED
    BY <2>2, <2>3
<1>8. u = t
  BY <1>4, <1>6, <1>7, SeqEqual
<1> QED
  BY <1>2, <1>3, <1>8 DEF r, s, t, u

LEMMA SingleElement ==
  ASSUME NEW S, NEW s \in Seq(S), s # <<>>, Len(s) <= 1
  PROVE  s = <<s[1]>> /\ s[1] \in S
<1>1. Len(s) = 1
  <2>1. Len(s) \in Nat /\ (s = <<>> <=> Len(s) = 0)
    BY EmptySeq, LenProperties
  <2> QED
    BY <2>1
<1>2. s[1] \in S
  BY <1>1, ElementOfSeq
<1>3. <<s[1]>> \in Seq(S) /\ Len(<<s[1]>>) = 1 /\ <<s[1]>>[1] = s[1]
  BY <1>2
<1>4. \A i \in 1..Len(s) : s[i] = <<s[1]>>[i]
  BY <1>1, <1>3
<1> QED
  BY <1>1, <1>2, <1>3, <1>4, SeqEqual

LEMMA ChunkData ==
  ASSUME NEW h \in GoodMessage, h.data # <<>>
  PROVE  h.data = <<h.data[1]>> /\ h.data[1] \in Chunk
<1>1. h.data \in Seq(Chunk) /\ Len(h.data) <= 1
  BY DEF GoodMessage, Message
<1> QED
  BY <1>1, SingleElement

\* h is chunk k + 1 of the file, and those behind it are the chunks k + 2 to n.
IsNext(h, T, id, f, k, n) ==
  h.data = << <<f, k + 1>> >> /\ k + 1 <= n /\ Chunks(T, id) = Upto(f, k + 1, n)

\* The chunks come in their order: the first one under way is the next of the file.
LEMMA FirstChunk ==
  ASSUME NEW m, NEW c, NEW h \in GoodMessage, NEW id, NEW f \in Files, NEW k \in Nat, NEW n \in Nat,
         Transit(m, c) = {h} \cup Transit(m, c)', \A b \in Transit(m, c)' : Follows(h, b),
         Transit(m, c) \subseteq GoodMessage, IsChunk(h, id), id # NoId,
         Chunks(Transit(m, c), id) = Upto(f, k, n)
  PROVE  IsNext(h, Transit(m, c)', id, f, k, n)
<1> DEFINE S == Transit(m, c)
           T == Transit(m, c)'
<1>1. S = {h} \cup T /\ T \subseteq GoodMessage /\ \A b \in T : Follows(h, b)
  OBVIOUS
<1>2. Chunks(S, id) = Upto(f, k, n)
  OBVIOUS
<1> HIDE DEF S, T
<1>3. \A a \in GoodMessage : IsChunk(a, id) => a.data = <<a.data[1]>> /\ a.data[1] \in Chunk
  BY ChunkData DEF IsChunk
<1>4. \A b \in T : IsChunk(b, id) => h.data[1][2] < b.data[1][2]
  BY <1>1 DEF Follows, IsChunk
<1>5. h.data[1] \in Upto(f, k, n)
  BY <1>1, <1>2 DEF Chunks
<1>6. PICK i \in (k + 1)..n : h.data[1] = <<f, i>>
  BY <1>5 DEF Upto
<1>7. k + 1 <= n /\ <<f, k + 1>> \in Upto(f, k, n)
  BY <1>6 DEF Upto
<1>8. PICK a \in S : IsChunk(a, id) /\ a.data[1] = <<f, k + 1>>
  BY <1>2, <1>7 DEF Chunks
<1>9. i = k + 1
  <2>1. CASE a = h
    BY <1>6, <1>8, <2>1
  <2>2. CASE a \in T
    <3>1. i < k + 1
      BY <1>4, <1>6, <1>8, <2>2
    <3> QED
      BY <1>6, <3>1
  <2> QED
    BY <1>1, <1>8, <2>1, <2>2
<1>10. h.data[1] = <<f, k + 1>>
  BY <1>6, <1>9
<1>11. ASSUME NEW b \in T, IsChunk(b, id)
      PROVE  b.data[1] \in Upto(f, k + 1, n)
  <2>1. b.data[1] \in Upto(f, k, n)
    BY <1>1, <1>2, <1>11 DEF Chunks
  <2>2. PICK j \in (k + 1)..n : b.data[1] = <<f, j>>
    BY <2>1 DEF Upto
  <2>3. k + 1 < j
    BY <1>4, <1>10, <1>11, <2>2
  <2>4. j \in (k + 1 + 1)..n
    BY <2>2, <2>3
  <2> QED
    BY <2>2, <2>4 DEF Upto
<1>12. ASSUME NEW e \in Upto(f, k + 1, n)
       PROVE  e \in Chunks(T, id)
  <2>1. PICK j \in (k + 1 + 1)..n : e = <<f, j>>
    BY <1>12 DEF Upto
  <2>2. j \in (k + 1)..n /\ j # k + 1
    BY <2>1
  <2>3. e \in Chunks(S, id) /\ e # h.data[1]
    BY <1>2, <1>10, <2>1, <2>2 DEF Upto
  <2>4. PICK b \in S : IsChunk(b, id) /\ b.data[1] = e
    BY <2>3 DEF Chunks
  <2> QED
    BY <1>1, <2>3, <2>4 DEF Chunks
<1>13. Chunks(T, id) \subseteq Upto(f, k + 1, n)
  BY <1>11 DEF Chunks
<1>14. Upto(f, k + 1, n) \subseteq Chunks(T, id)
  BY <1>12
<1> QED
  BY <1>3, <1>7, <1>10, <1>13, <1>14 DEF T, IsNext

LEMMA ContinueFilePair ==
  ASSUME TypeInv, NEW m \in Masters, NEW c \in Computers, ReaderInv(m), PairInv(m, c),
         continueFile(c)
  PROVE  PairInv(m, c)'
<1> DEFINE h == Head(inbox[c])
<1>1. Handled(c, "Continue")
  BY DEF continueFile
<1>2. /\ h \in GoodMessage /\ h.kind = "Continue" /\ h.id \in Nat
      /\ Transit(m, c) = {h} \cup Transit(m, c)'
      /\ \A b \in Transit(m, c)' : Follows(h, b) /\ b.id \in Nat
      /\ UNCHANGED <<controllerVars, ids, lost>>
  BY <1>1, HandledFacts
<1>3. UNCHANGED <<fileName, isOpen, currentId, writer>>
  BY DEF continueFile
<1>4. InOrder(InTransit(m, c))' /\ Fresh(m, c)' /\ StartInv(m, c)' /\ NoLossInv(m, c)'
  BY <1>1, <1>3, HandledKeeps
<1>5. Later(m, c)'
  BY <1>2, <1>3 DEF Later, PairInv, OrderInv
<1>6. /\ c \notin isOpen \/ h.id # currentId[c] => disk' = disk
      /\ c \in isOpen /\ h.id = currentId[c] =>
           disk' = [disk EXCEPT ![c][fileName[c]] = @ \o h.data]
  BY DEF continueFile, current
<1>7. /\ c \in isOpen /\ h.id = currentId[c] => disk'[c][fileName[c]] = disk[c][fileName[c]] \o h.data
      /\ \A f \in Files : ~ (c \in isOpen /\ fileName[c] = f) => disk'[c][f] = disk[c][f]
  <2>1. CASE c \notin isOpen \/ h.id # currentId[c]
    BY <1>6, <2>1
  <2>2. CASE c \in isOpen /\ h.id = currentId[c]
    <3>1. disk \in [Computers -> [Files -> Seq(Chunk) \cup {Absent, Old}]] /\ fileName[c] \in Files
      BY <2>2 DEF TypeInv, TypeOK, OpenFiles
    <3>2. disk' = [disk EXCEPT ![c][fileName[c]] = @ \o h.data]
      BY <1>6, <2>2
    <3> HIDE DEF h
    <3> QED
      BY <2>2, <3>1, <3>2
  <2> QED
    BY <2>1, <2>2
<1> HIDE DEF h
<1>8. RefusedInv(m, c)' /\ OpenInv(c)'
  BY <1>2, <1>3, <1>6 DEF PairInv, OrderInv, RefusedInv, Refused, OpenInv
<1>9. ReceivedInv(c)'
  BY <1>2, <1>3, <1>7 DEF PairInv, DataInv, ReceivedInv
<1>10. ReceivingInv(m, c)'
  <2> SUFFICES ASSUME c \in isOpen, currentId[c] \notin lost[c]
               PROVE  ReceivingInv(m, c)'
    BY <1>2, <1>3 DEF ReceivingInv
  <2>1. PICK id \in Nat, f \in Files : id = currentId[c] /\ f = fileName[c]
    BY WorkerFacts DEF TypeInv, OpenFiles
  <2>2. id # NoId /\ Size[f] \in Nat
    BY <2>1, FileTypes DEF PairInv, OrderInv, OpenInv
  <2>3. CASE CancelComes(m, c, id)
    BY <1>2, <1>3, <2>1, <2>3 DEF CancelComes, ReceivingInv
  <2>4. CASE ~ CancelComes(m, c, id)
    <3>1. PICK k \in 0..Size[f] :
            disk[c][f] = SubSeq(Source(f), 1, k) /\ RestComes(m, c, id, f, k)
      BY <2>1, <2>4 DEF PairInv, DataInv, ReceivingInv
    <3>2. CASE ~ IsChunk(h, id)
      <4>1. RestComes(m, c, id, f, k)'
        BY <1>2, <3>1, <3>2, RestHandled
      <4>2. disk'[c][f] = disk[c][f]
        <5>1. CASE h.id # id
          BY <1>6, <2>1, <5>1
        <5>2. CASE h.id = id
          <6>1. h.data = <<>>
            BY <1>2, <3>2, <5>2 DEF IsChunk
          <6>2. disk[c][f] \in Seq(Chunk)
            BY <2>1 DEF TypeInv, OpenFiles
          <6>3. disk[c][f] \o <<>> = disk[c][f]
            BY <6>2, ConcatEmptySeq
          <6> QED
            BY <1>7, <2>1, <5>2, <6>1, <6>3
        <5> QED
          BY <5>1, <5>2
      <4> QED
        BY <1>3, <2>1, <3>1, <4>1, <4>2 DEF ReceivingInv
    <3>3. CASE IsChunk(h, id)
      <4>1. /\ reader'[m] = reader[m] /\ transferId'[m] = transferId[m]
            /\ File(m)' = File(m) /\ Sent(m)' = Sent(m)
        BY <1>2, ControllerSame
      <4>2. \A n \in Nat : Chunks(Transit(m, c), id) = Upto(f, k, n) =>
              IsNext(h, Transit(m, c)', id, f, k, n)
        <5>1. k \in Nat
          BY <2>2, <3>1
        <5>2. Transit(m, c) \subseteq GoodMessage
          BY TransitTypes
        <5>3. /\ h \in GoodMessage /\ id # NoId /\ f \in Files /\ k \in Nat /\ IsChunk(h, id)
              /\ Transit(m, c) = {h} \cup Transit(m, c)'
              /\ \A b \in Transit(m, c)' : Follows(h, b)
          BY <1>2, <2>1, <2>2, <3>3, <5>1
        <5> QED
          BY <5>2, <5>3, FirstChunk
      <4>3. /\ h.data = << <<f, k + 1>> >> /\ k + 1 <= Size[f]
            /\ RestComes(m, c, id, f, k + 1)'
        <5>1. Chunks(Transit(m, c), id)' = Chunks(Transit(m, c)', id)
          BY DEF Chunks, IsChunk
        <5>2. CASE /\ \E a \in Transit(m, c) : a.kind = "Finish" /\ a.id = id
                   /\ Chunks(Transit(m, c), id) = Upto(f, k, Size[f])
          <6>1. \E a \in Transit(m, c)' : a.kind = "Finish" /\ a.id = id
            BY <1>2, <5>2
          <6> QED
            BY <2>2, <4>2, <5>1, <5>2, <6>1 DEF RestComes, IsNext
        <5>3. CASE /\ reader[m].present /\ transferId[m] = id /\ File(m) = f
                   /\ k <= Sent(m)
                   /\ Chunks(Transit(m, c), id) = Upto(f, k, Sent(m))
          <6>1. Sent(m) \in Nat /\ Sent(m) <= Size[f]
            BY <2>2, <5>3 DEF Sent, ReaderInv, TypeInv, TypeOK, Reader
          <6>2. /\ h.data = << <<f, k + 1>> >> /\ k + 1 <= Sent(m)
                /\ Chunks(Transit(m, c)', id) = Upto(f, k + 1, Sent(m))
            BY <4>2, <5>3, <6>1 DEF IsNext
          <6>3. k + 1 <= Size[f]
            BY <2>2, <6>1, <6>2
          <6> QED
            BY <4>1, <5>1, <5>3, <6>2, <6>3 DEF RestComes
        <5> QED
          BY <2>4, <3>1, <5>2, <5>3 DEF RestComes
      <4>4. h.id = id
        BY <3>3 DEF IsChunk
      <4>5. disk'[c][f] = SubSeq(Source(f), 1, k + 1)
        BY <1>7, <2>1, <3>1, <4>3, <4>4, NextChunk
      <4>6. k + 1 \in 0..Size[f]
        BY <2>2, <4>3
      <4> QED
        BY <1>3, <2>1, <4>3, <4>5, <4>6 DEF ReceivingInv
    <3> QED
      BY <3>2, <3>3
  <2> QED
    BY <2>3, <2>4
<1> QED
  BY <1>4, <1>5, <1>8, <1>9, <1>10 DEF PairInv, OrderInv, DataInv

-----------------------------------------------------------------------------
(* The steps of the master                                                 *)

\* Nothing is sent, and the transfer stays as it is.
LEMMA QuietPair ==
  ASSUME TypeInv, NEW m \in Masters, NEW c \in Computers, PairInv(m, c),
         UNCHANGED <<queue, wire, inbox, lost, workerVars, ids, transferId>>,
         reader'[m].present <=> reader[m].present,
         reader[m].present => File(m)' = File(m) /\ Sent(m)' = Sent(m)
  PROVE  PairInv(m, c)'
<1>1. /\ InTransit(m, c)' = InTransit(m, c) /\ Transit(m, c)' = Transit(m, c)
      /\ WorkerSame(c)
  BY DEF InTransit, Transit, WorkerSame, workerVars
<1>2. OrderInv(m, c)'
  <2>1. ids \in Nat /\ ids' = ids
    BY WorkerFacts
  <2>2. Later(m, c)' /\ RefusedInv(m, c)' /\ OpenInv(c)'
    BY <1>1, <2>1, OrderKept DEF PairInv
  <2> QED
    BY <1>1, <2>1, <2>2 DEF PairInv, OrderInv, Fresh
<1>3. DataInv(m, c)'
  <2>1. \A id \in Nat, f \in Files, k \in Nat :
          RestComes(m, c, id, f, k) => RestComes(m, c, id, f, k)'
    BY <1>1, RestSame
  <2> QED
    BY <1>1, <2>1, DataKept DEF PairInv
<1>4. NoLossInv(m, c)'
  BY <1>1 DEF PairInv, NoLossInv, WorkerSame
<1> QED
  BY <1>2, <1>3, <1>4 DEF PairInv

\* A computer that is not connected does not get the message.
LEMMA SentOrLost ==
  ASSUME TypeInv, NEW m \in Masters, NEW c \in Computers, PairInv(m, c), NEW b \in GoodMessage,
         send(m, b), UNCHANGED <<wire, inbox>>, \A a \in Transit(m, c) : Follows(a, b)
  PROVE  /\ InOrder(InTransit(m, c))' /\ lost[c] \subseteq lost'[c]
         /\ \/ /\ InTransit(m, c)' = Append(InTransit(m, c), b)
               /\ Transit(m, c)' = Transit(m, c) \cup {b} /\ lost'[c] = lost[c]
            \/ /\ InTransit(m, c)' = InTransit(m, c)
               /\ Transit(m, c)' = Transit(m, c) /\ b.id \in lost'[c]
<1>1. <<m, c>> \in Pair
  BY DEF Pair
<1>2. InTransit(m, c) \in Seq(GoodMessage) /\ InOrder(InTransit(m, c))
  BY TransitTypes, Zenon DEF PairInv, OrderInv
<1>3. CASE <<m, c>> \in connected
  <2>1. queue'[<<m, c>>] = Append(queue[<<m, c>>], b) /\ lost'[c] = lost[c]
    BY <1>1, <1>3 DEF send
  <2>2. InTransit(m, c)' = Append(InTransit(m, c), b)
    BY <2>1, TransitSend
  <2>3. \A s \in Seq(GoodMessage) :
          /\ Range(Append(s, b)) = Range(s) \cup {b}
          /\ InOrder(s) /\ (\A a \in Range(s) : Follows(a, b)) => InOrder(Append(s, b))
    BY AppendInOrder
  <2>4. Transit(m, c)' = Transit(m, c) \cup {b} /\ InOrder(InTransit(m, c)')
    BY <1>2, <2>2, <2>3, Zenon DEF Transit
  <2>5. InOrder(InTransit(m, c))'
    BY <2>4 DEF InOrder, Follows, IsChunk
  <2> QED
    BY <2>1, <2>2, <2>4, <2>5
<1>4. CASE <<m, c>> \notin connected
  <2>1. queue'[<<m, c>>] = queue[<<m, c>>] /\ lost'[c] = lost[c] \cup {b.id}
    BY <1>1, <1>4 DEF send
  <2>2. InTransit(m, c)' = InTransit(m, c)
    BY <2>1 DEF InTransit
  <2>3. InOrder(InTransit(m, c))'
    BY <1>2, <2>2 DEF InOrder, Follows, IsChunk
  <2> QED
    BY <2>1, <2>2, <2>3 DEF Transit
<1> QED
  BY <1>3, <1>4

\* Messages without an id or of the newest transfer are sent.
LEMMA SentPair ==
  ASSUME TypeInv, NEW m \in Masters, NEW c \in Computers, PairInv(m, c), UNCHANGED workerVars,
         InOrder(InTransit(m, c))', Transit(m, c) \subseteq Transit(m, c)', ids' \in Nat, ids <= ids',
         \A a \in Transit(m, c)' :
           \/ a \in Transit(m, c)
           \/ a.id = NoId
           \/ a.id = ids' /\ (a.kind = "Start" => ids < ids'),
         \A a \in Transit(m, c)' :
           /\ a.id = transferId'[m] => a.kind # "Finish"
           /\ reader'[m].present /\ IsChunk(a, transferId'[m]) => a.data[1][2] <= Sent(m)',
         lost[c] \subseteq lost'[c],
         \A id \in Nat, f \in Files, k \in Nat :
           id \notin lost'[c] /\ RestComes(m, c, id, f, k) => RestComes(m, c, id, f, k)',
         \A a \in Transit(m, c)' :
           a.kind = "Start" /\ a.id \notin lost'[c] =>
             a \in Transit(m, c) \/ RestComes(m, c, a.id, a.file, 0)',
         NoLossInv(m, c)'
  PROVE  PairInv(m, c)'
<1>1. WorkerSame(c)
  BY DEF WorkerSame, workerVars
<1>2. Later(m, c)' /\ RefusedInv(m, c)' /\ OpenInv(c)' /\ \A a \in Transit(m, c)' : a.id <= ids'
  BY <1>1, OrderKept DEF PairInv
<1>3. Fresh(m, c)'
  BY <1>2 DEF Fresh, IsChunk
<1>4. DataInv(m, c)'
  BY <1>1, DataKept DEF PairInv
<1> QED
  BY <1>2, <1>3, <1>4 DEF PairInv, OrderInv

\* What is under way when a message of the transfer going on is sent.
LEMMA SendFacts ==
  ASSUME TypeInv, NEW m \in Masters, NEW c \in Computers, ReaderInv(m), PairInv(m, c)
  PROVE  /\ ids \in Nat /\ transferId[m] \in {NoId, ids}
         /\ \A a \in Transit(m, c) :
              /\ a \in GoodMessage /\ a.id \in Nat /\ a.id <= ids
              /\ a.id = transferId[m] => a.kind # "Finish"
              /\ a.kind = "Finish" => a.id # NoId
              /\ reader[m].present /\ IsChunk(a, transferId[m]) => a.data[1][2] <= Sent(m)
  BY MessageFacts, WorkerFacts DEF ReaderInv, PairInv, OrderInv, Fresh

LEMMA StartPair ==
  ASSUME TypeInv, NEW m \in Masters, NEW c \in Computers, PairInv(m, c), start(m)
  PROVE  PairInv(m, c)'
<1>1. ~ reader[m].present
  BY DEF start, TypeInv, ReaderTypes
<1> QED
  BY <1>1, QuietPair DEF start, serverVars

LEMMA ReadNextChunkPair ==
  ASSUME TypeInv, NEW m \in Masters, NEW c \in Computers, ReaderInv(m), PairInv(m, c), readNextChunk(m)
  PROVE  PairInv(m, c)' /\ ReaderInv(m)'
<1>1. /\ reader[m] \in Reader /\ processTimer[m] /\ fileState[m] \in {"Transferring", "Finished"}
      /\ reader[m].present /\ ~ reader[m].ready
      /\ reader[m].pos \in Nat
  BY DEF readNextChunk, TypeInv, TypeOK, ReaderTypes, Reader
<1>2. File(m) \in Files /\ Size[File(m)] \in Nat
  BY <1>1, CurrentFile DEF TypeInv
<1>3. File(m)' = File(m) /\ fileState' = fileState /\ UNCHANGED <<transferId, ids>>
  BY DEF readNextChunk, File
<1>4. /\ reader'[m].present /\ reader'[m].ready
      /\ reader'[m].pos = IF reader[m].pos < Size[File(m)] THEN reader[m].pos + 1 ELSE reader[m].pos
  BY <1>1 DEF readNextChunk, TypeInv, TypeOK, Reader
<1>5. reader[m].pos <= Size[File(m)]
      /\ (fileState[m] = "Transferring" => reader[m].pos < Size[File(m)] \/ Size[File(m)] = 0)
  BY <1>1 DEF ReaderInv
<1>6. Sent(m)' = Sent(m)
  BY <1>1, <1>2, <1>3, <1>4, <1>5 DEF Sent
<1>7. ReaderInv(m)'
  BY <1>1, <1>2, <1>3, <1>4, <1>5 DEF ReaderInv
<1>8. PairInv(m, c)'
  BY <1>1, <1>3, <1>4, <1>6, QuietPair DEF readNextChunk, serverVars
<1> QED
  BY <1>7, <1>8

LEMMA StopPair ==
  ASSUME TypeInv, NEW m \in Masters, NEW c \in Computers, ReaderInv(m), PairInv(m, c), stop(m)
  PROVE  PairInv(m, c)'
<1>1. transferId[m] \in TransferId
  BY DEF TypeInv, TypeOK
<1>2. PICK b \in GoodMessage : b = Plain("Cancel", transferId[m], NoFile)
  BY <1>1, PlainIsGood
<1>3. b.kind = "Cancel" /\ b.id = transferId[m]
  BY <1>2 DEF Plain
<1>4. /\ send(m, b) /\ UNCHANGED <<wire, inbox, workerVars, ids>>
      /\ transferId' = transferId /\ ~ reader'[m].present
  BY <1>2 DEF stop, serverVars, NoReader, TypeInv, TypeOK
<1>5. /\ ids \in Nat /\ transferId[m] \in {NoId, ids}
      /\ \A a \in Transit(m, c) :
           /\ a.id \in Nat /\ a.id <= ids
           /\ a.id = transferId[m] => a.kind # "Finish"
  BY SendFacts
<1>6. \A a \in Transit(m, c) : Follows(a, b)
  BY <1>3, <1>5 DEF Follows, IsChunk
<1>7. /\ InOrder(InTransit(m, c))' /\ lost[c] \subseteq lost'[c]
      /\ \/ /\ InTransit(m, c)' = Append(InTransit(m, c), b)
            /\ Transit(m, c)' = Transit(m, c) \cup {b} /\ lost'[c] = lost[c]
         \/ /\ InTransit(m, c)' = InTransit(m, c)
            /\ Transit(m, c)' = Transit(m, c) /\ b.id \in lost'[c]
  BY <1>2, <1>4, <1>6, SentOrLost
<1>8. ASSUME NEW id \in Nat, NEW f \in Files, NEW k \in Nat,
             id \notin lost'[c], RestComes(m, c, id, f, k)
      PROVE  RestComes(m, c, id, f, k)'
  <2>1. CASE transferId[m] = id
    <3>1. CancelComes(m, c, id)'
      BY <1>3, <1>7, <1>8, <2>1 DEF CancelComes
    <3> QED
      BY <3>1 DEF RestComes
  <2>2. CASE transferId[m] # id
    <3>1. /\ Transit(m, c) \subseteq Transit(m, c)'
          /\ \A a \in Transit(m, c)' : a \in Transit(m, c) \/ a.kind # "Continue"
      BY <1>3, <1>7
    <3> QED
      BY <1>8, <2>2, <3>1, RestMore
  <2> QED
    BY <2>1, <2>2
<1>9. NoLossInv(m, c)'
  <2> SUFFICES ASSUME lost'[c] = {}
               PROVE  NoLossInv(m, c)'
    BY DEF NoLossInv
  <2> DEFINE named == fileName[c] # NoFile
  <2>1. PICK s \in Seq(GoodMessage) : s = InTransit(m, c)
    BY TransitTypes, Zenon
  <2>2. lost[c] = {} /\ InTransit(m, c)' = Append(s, b)
    BY <1>7, <2>1
  <2>3. /\ CancelsForgotten(named, s)
        /\ transferId[m] = NoId => Forgotten(named, s, Len(s) + 1)
    BY <2>1, <2>2 DEF PairInv, NoLossInv
  <2>4. (/\ CancelsForgotten(named, Append(s, b))
         /\ transferId[m] = NoId => Forgotten(named, Append(s, b), Len(Append(s, b)) + 1))
        => NoLossInv(m, c)'
    BY <1>4, <2>2 DEF NoLossInv, workerVars
  <2>5. named \in BOOLEAN
    OBVIOUS
  <2> HIDE DEF named
  <2>6. NullCancel(b) => Forgotten(named, s, Len(s) + 1)
    BY <1>3, <2>3 DEF NullCancel
  <2> QED
    BY <1>2, <1>3, <2>1, <2>3, <2>4, <2>5, <2>6, ForgottenAppend
<1>10. PairInv(m, c)'
  <2>1. /\ Transit(m, c) \subseteq Transit(m, c)' /\ Transit(m, c)' \subseteq Transit(m, c) \cup {b}
        /\ UNCHANGED workerVars /\ ids' \in Nat /\ ids <= ids'
    BY <1>4, <1>5, <1>7
  <2>2. \A a \in Transit(m, c)' :
          /\ a.id = transferId'[m] => a.kind # "Finish"
          /\ reader'[m].present /\ IsChunk(a, transferId'[m]) => a.data[1][2] <= Sent(m)'
    BY <1>3, <1>4, <1>5, <2>1
  <2>3. \A a \in Transit(m, c)' :
          \/ a \in Transit(m, c)
          \/ a.id = NoId
          \/ a.id = ids' /\ (a.kind = "Start" => ids < ids')
    BY <1>3, <1>4, <1>5, <2>1
  <2>4. \A a \in Transit(m, c)' :
          a.kind = "Start" /\ a.id \notin lost'[c] =>
            a \in Transit(m, c) \/ RestComes(m, c, a.id, a.file, 0)'
    BY <1>3, <2>1
  <2> QED
    BY <1>5, <1>7, <1>8, <1>9, <2>1, <2>2, <2>3, <2>4, SentPair
<1> QED
  BY <1>10

LEMMA OpenFilePair ==
  ASSUME TypeInv, NEW m \in Masters, NEW c \in Computers, ReaderInv(m), PairInv(m, c), openFile(m)
  PROVE  PairInv(m, c)' /\ ReaderInv(m)'
<1>1. processTimer[m] /\ fileState[m] = "Open" /\ ~ reader[m].present
  BY DEF openFile, TypeInv, ReaderTypes
<1>2. File(m) \in Files /\ Size[File(m)] \in Nat
  BY <1>1, CurrentFile DEF TypeInv
<1>3. File(m)' = File(m) /\ UNCHANGED <<wire, inbox, workerVars>>
  BY DEF openFile, File, serverVars
<1>4. /\ ids \in Nat /\ transferId[m] \in {NoId, ids}
      /\ \A a \in Transit(m, c) : a.id \in Nat /\ a.id <= ids
  BY SendFacts
<1>5. CASE UNCHANGED <<queue, lost, reader, ids, transferId>>
  <2>1. PairInv(m, c)'
    BY <1>1, <1>3, <1>5, QuietPair
  <2>2. ReaderInv(m)'
    BY <1>1, <1>4, <1>5 DEF ReaderInv
  <2> QED
    BY <2>1, <2>2
<1>6. CASE /\ fileState' = [fileState EXCEPT ![m] = "Transferring"]
           /\ reader' = [reader EXCEPT ![m] = [NoReader EXCEPT !.present = TRUE]]
           /\ ids' = ids + 1
           /\ transferId' = [transferId EXCEPT ![m] = ids']
           /\ send(m, [Plain("Start", ids', File(m)) EXCEPT
                         !.overwrite = "OverwriteExistingFiles" \in flags[m]])
  <2>1. /\ fileState'[m] = "Transferring" /\ transferId'[m] = ids + 1
        /\ reader'[m].present /\ reader'[m].pos = 0 /\ ~ reader'[m].ready
    BY <1>6 DEF TypeInv, TypeOK, NoReader
  <2>2. ReaderInv(m)'
    BY <1>2, <1>3, <1>6, <2>1 DEF ReaderInv
  <2>3. Sent(m)' = 0
    BY <2>1 DEF Sent
  <2>4. PICK b \in GoodMessage :
          b = [Plain("Start", ids + 1, File(m)) EXCEPT !.overwrite = "OverwriteExistingFiles" \in flags[m]]
    <3>1. ids + 1 \in TransferId /\ ids + 1 # NoId
      BY <1>4 DEF TransferId, NoId
    <3>2. ("OverwriteExistingFiles" \in flags[m]) \in BOOLEAN
      OBVIOUS
    <3> QED
      BY <1>2, <3>1, <3>2, StartIsGood
  <2>5. b.kind = "Start" /\ b.id = ids + 1 /\ b.file = File(m) /\ send(m, b)
    BY <1>6, <2>4 DEF Plain
  <2>6. \A a \in Transit(m, c) : Follows(a, b)
    BY <1>4, <2>5 DEF Follows, IsChunk
  <2>7. /\ InOrder(InTransit(m, c))' /\ lost[c] \subseteq lost'[c]
        /\ \/ /\ InTransit(m, c)' = Append(InTransit(m, c), b)
              /\ Transit(m, c)' = Transit(m, c) \cup {b} /\ lost'[c] = lost[c]
           \/ /\ InTransit(m, c)' = InTransit(m, c)
              /\ Transit(m, c)' = Transit(m, c) /\ b.id \in lost'[c]
    BY <1>3, <2>4, <2>5, <2>6, SentOrLost
  <2>8. /\ Transit(m, c) \subseteq Transit(m, c)' /\ Transit(m, c)' \subseteq Transit(m, c) \cup {b}
        /\ UNCHANGED workerVars /\ ids' \in Nat /\ ids <= ids'
    BY <1>3, <1>4, <1>6, <2>7
  <2>9. ASSUME NEW id \in Nat, NEW f \in Files, NEW k \in Nat, RestComes(m, c, id, f, k)
        PROVE  RestComes(m, c, id, f, k)'
    <3>1. \A a \in Transit(m, c)' : a \in Transit(m, c) \/ a.kind # "Continue"
      BY <2>5, <2>8
    <3> QED
      BY <1>1, <2>8, <2>9, <3>1, RestMore
  <2>10. \A a \in Transit(m, c)' :
           /\ a.id = transferId'[m] => a.kind # "Finish"
           /\ ~ IsChunk(a, transferId'[m])
    BY <1>4, <2>1, <2>5, <2>8 DEF IsChunk
  <2>11. \A a \in Transit(m, c)' :
           \/ a \in Transit(m, c)
           \/ a.id = NoId
           \/ a.id = ids' /\ (a.kind = "Start" => ids < ids')
    BY <1>4, <1>6, <2>5, <2>8
  <2>12. RestComes(m, c, b.id, b.file, 0)'
    <3>1. Chunks(Transit(m, c)', b.id) = {}
      BY <2>1, <2>5, <2>8, <2>10 DEF Chunks
    <3>2. Chunks(Transit(m, c), b.id)' = Chunks(Transit(m, c)', b.id)
      BY DEF Chunks, IsChunk
    <3>3. Upto(b.file, 0, 0) = {}
      BY DEF Upto
    <3> QED
      BY <1>3, <2>1, <2>3, <2>5, <3>1, <3>2, <3>3 DEF RestComes
  <2>13. \A a \in Transit(m, c)' : a \in Transit(m, c) \/ RestComes(m, c, a.id, a.file, 0)'
    BY <2>8, <2>12
  <2>14. NoLossInv(m, c)'
    <3> SUFFICES ASSUME lost'[c] = {}
                 PROVE  NoLossInv(m, c)'
      BY DEF NoLossInv
    <3> DEFINE named == fileName[c] # NoFile
    <3>1. PICK s \in Seq(GoodMessage) : s = InTransit(m, c)
      BY TransitTypes, Zenon
    <3>2. lost[c] = {} /\ InTransit(m, c)' = Append(s, b)
      BY <2>7, <3>1
    <3>3. CancelsForgotten(named, s)
      BY <3>1, <3>2 DEF PairInv, NoLossInv
    <3>4. CancelsForgotten(named, Append(s, b)) => NoLossInv(m, c)'
      BY <1>3, <1>4, <2>1, <3>2 DEF NoLossInv, NoId, workerVars
    <3>5. named \in BOOLEAN
      OBVIOUS
    <3> HIDE DEF named
    <3>6. ~ NullCancel(b)
      BY <2>5 DEF NullCancel
    <3> QED
      BY <2>4, <3>1, <3>3, <3>4, <3>5, <3>6, ForgottenAppend
  <2>15. PairInv(m, c)'
    BY <2>7, <2>8, <2>9, <2>10, <2>11, <2>13, <2>14, SentPair
  <2> QED
    BY <2>2, <2>15
<1> QED
  BY <1>5, <1>6 DEF openFile, sendNothing

LEMMA ChunkMore ==
  ASSUME NEW S, NEW b, NEW id, IsChunk(b, id)
  PROVE  Chunks(S \cup {b}, id) = Chunks(S, id) \cup {b.data[1]}
<1>1. {x \in S \cup {b} : IsChunk(x, id)} = {x \in S : IsChunk(x, id)} \cup {b}
  OBVIOUS
<1> DEFINE R == {x \in S : IsChunk(x, id)}
<1>2. {a.data[1] : a \in R \cup {b}} = {a.data[1] : a \in R} \cup {b.data[1]}
  OBVIOUS
<1> QED
  BY <1>1, <1>2 DEF Chunks

LEMMA TransferFilePair ==
  ASSUME TypeInv, NEW m \in Masters, NEW c \in Computers, ReaderInv(m), PairInv(m, c), transferFile(m)
  PROVE  PairInv(m, c)' /\ ReaderInv(m)'
<1> DEFINE pos == reader[m].pos
           data == IF pos = 0 THEN <<>> ELSE << <<File(m), pos>> >>
<1>1. /\ processTimer[m] /\ fileState[m] = "Transferring" /\ reader[m] \in Reader
      /\ reader[m].present /\ reader[m].ready /\ pos \in Nat /\ transferId[m] # NoId
  BY DEF transferFile, TypeInv, TypeOK, ReaderTypes, Reader
<1>2. File(m) \in Files /\ Size[File(m)] \in Nat
  BY <1>1, CurrentFile DEF TypeInv
<1>3. File(m)' = File(m) /\ UNCHANGED <<wire, inbox, workerVars, transferId, ids>>
  BY DEF transferFile, File, serverVars
<1>4. /\ reader'[m].present /\ reader'[m].pos = pos /\ ~ reader'[m].ready
      /\ fileState'[m] = IF pos >= Size[File(m)] THEN "Finished" ELSE "Transferring"
  BY <1>1 DEF transferFile, atEnd, TypeInv, TypeOK, Reader
<1>5. /\ ids \in Nat /\ transferId[m] = ids
      /\ \A a \in Transit(m, c) :
           /\ a \in GoodMessage /\ a.id \in Nat /\ a.id <= ids
           /\ a.id = transferId[m] => a.kind # "Finish"
           /\ IsChunk(a, transferId[m]) => a.data[1][2] <= Sent(m)
  BY <1>1, SendFacts
<1>6. pos <= Size[File(m)] /\ (pos > 0 \/ Size[File(m)] = 0)
  BY <1>1 DEF ReaderInv
<1>7. Sent(m) = (IF pos > 0 THEN pos - 1 ELSE pos) /\ Sent(m)' = pos
  BY <1>1, <1>2, <1>3, <1>4, <1>6 DEF Sent
<1>8. ReaderInv(m)'
  BY <1>1, <1>2, <1>3, <1>4, <1>5, <1>6 DEF ReaderInv
<1>9. PICK b \in GoodMessage : b = [Plain("Continue", transferId[m], NoFile) EXCEPT !.data = data]
  <2>1. data = <<>> \/ \E x \in Chunk : data = <<x>>
    BY <1>1, <1>2 DEF Chunk
  <2> HIDE DEF data
  <2> QED
    BY <1>3, <1>5, <2>1, ContinueIsGood DEF TransferId
<1>10. b.kind = "Continue" /\ b.id = transferId[m] /\ b.data = data /\ send(m, b)
  BY <1>9 DEF Plain, transferFile
<1>11. IF pos = 0 THEN ~ IsChunk(b, transferId[m])
       ELSE IsChunk(b, transferId[m]) /\ b.data[1] = <<File(m), pos>> /\ b.data[1][2] = pos
  BY <1>10 DEF IsChunk
<1>12. \A id : IsChunk(b, id) => id = transferId[m]
  BY <1>10 DEF IsChunk
<1> HIDE DEF data, pos
<1>13. pos \in Nat
  BY <1>1
<1>14. \A a \in Transit(m, c) : Follows(a, b)
  <2> SUFFICES ASSUME NEW a \in Transit(m, c)
               PROVE  Follows(a, b)
    OBVIOUS
  <2>1. IsChunk(a, b.id) /\ IsChunk(b, b.id) => a.data[1][2] < b.data[1][2]
    <3> SUFFICES ASSUME IsChunk(a, transferId[m]), IsChunk(b, transferId[m])
                 PROVE  a.data[1][2] < b.data[1][2]
      BY <1>10
    <3>1. a.data[1][2] <= pos - 1 /\ b.data[1][2] = pos
      BY <1>5, <1>7, <1>11, <1>13
    <3>2. a.data[1][2] \in Nat
      <4>1. a.data[1] \in Chunk
        BY <1>5, ChunkData DEF IsChunk
      <4> QED
        BY <4>1 DEF Chunk
    <3> QED
      BY <1>13, <3>1, <3>2
  <2> QED
    BY <1>5, <1>10, <2>1 DEF Follows
<1>15. /\ InOrder(InTransit(m, c))' /\ lost[c] \subseteq lost'[c]
       /\ \/ /\ InTransit(m, c)' = Append(InTransit(m, c), b)
             /\ Transit(m, c)' = Transit(m, c) \cup {b} /\ lost'[c] = lost[c]
          \/ /\ InTransit(m, c)' = InTransit(m, c)
             /\ Transit(m, c)' = Transit(m, c) /\ b.id \in lost'[c]
  BY <1>3, <1>9, <1>10, <1>14, SentOrLost
<1>16. /\ Transit(m, c) \subseteq Transit(m, c)' /\ Transit(m, c)' \subseteq Transit(m, c) \cup {b}
       /\ UNCHANGED workerVars /\ ids' \in Nat /\ ids <= ids'
  BY <1>3, <1>5, <1>15
<1>17. ASSUME NEW id \in Nat, NEW f \in Files, NEW k \in Nat,
              id \notin lost'[c], RestComes(m, c, id, f, k)
       PROVE  RestComes(m, c, id, f, k)'
  <2>1. Chunks(Transit(m, c), id)' = Chunks(Transit(m, c)', id)
    BY DEF Chunks, IsChunk
  <2>2. CASE id # transferId[m]
    <3>1. Chunks(Transit(m, c)', id) = Chunks(Transit(m, c), id)
      BY <1>12, <1>16, <2>2 DEF Chunks
    <3> QED
      BY <1>16, <1>17, <2>1, <2>2, <3>1 DEF RestComes, CancelComes
  <2>3. CASE id = transferId[m]
    <3>1. CASE CancelComes(m, c, id)
      <4>1. CancelComes(m, c, id)'
        BY <1>16, <3>1 DEF CancelComes
      <4> QED
        BY <4>1 DEF RestComes
    <3>2. CASE ~ CancelComes(m, c, id)
      <4>1. File(m) = f /\ k <= Sent(m) /\ Chunks(Transit(m, c), id) = Upto(f, k, Sent(m))
        BY <1>5, <1>17, <2>3, <3>2 DEF RestComes
      <4>2. Transit(m, c)' = Transit(m, c) \cup {b}
        BY <1>10, <1>15, <1>17, <2>3
      <4>3. CASE pos = 0
        <5>1. Chunks(Transit(m, c)', id) = Chunks(Transit(m, c), id)
          BY <1>11, <2>3, <4>2, <4>3 DEF Chunks
        <5>2. Sent(m)' = Sent(m)
          BY <1>7, <4>3
        <5> QED
          BY <1>3, <1>4, <2>1, <2>3, <4>1, <5>1, <5>2 DEF RestComes
      <4>4. CASE pos # 0
        <5>1. IsChunk(b, id) /\ b.data[1] = <<f, pos>>
          BY <1>11, <2>3, <4>1, <4>4
        <5>2. Chunks(Transit(m, c)', id) = Chunks(Transit(m, c), id) \cup {<<f, pos>>}
          <6>1. Chunks(Transit(m, c) \cup {b}, id) = Chunks(Transit(m, c), id) \cup {b.data[1]}
            BY <5>1, ChunkMore, Zenon
          <6> QED
            BY <4>2, <5>1, <6>1, Zenon
        <5>3. Sent(m) = pos - 1 /\ k <= pos - 1
          BY <1>7, <1>13, <4>1, <4>4
        <5>4. Upto(f, k, pos) = Upto(f, k, pos - 1) \cup {<<f, pos>>}
          <6>1. (k + 1)..pos = ((k + 1)..(pos - 1)) \cup {pos}
            BY <1>13, <4>4, <5>3
          <6> QED
            BY <6>1 DEF Upto
        <5>5. Chunks(Transit(m, c)', id) = Upto(f, k, pos)
          BY <4>1, <5>2, <5>3, <5>4
        <5>6. k <= pos
          BY <1>13, <5>3
        <5> QED
          BY <1>3, <1>4, <1>7, <2>1, <2>3, <4>1, <5>5, <5>6 DEF RestComes
      <4> QED
        BY <4>3, <4>4
    <3> QED
      BY <3>1, <3>2
  <2> QED
    BY <2>2, <2>3
<1>18. NoLossInv(m, c)'
  <2> SUFFICES ASSUME lost'[c] = {}
               PROVE  NoLossInv(m, c)'
    BY DEF NoLossInv
  <2> DEFINE named == fileName[c] # NoFile
  <2>1. PICK s \in Seq(GoodMessage) : s = InTransit(m, c)
    BY TransitTypes, Zenon
  <2>2. lost[c] = {} /\ InTransit(m, c)' = Append(s, b)
    BY <1>15, <2>1
  <2>3. CancelsForgotten(named, s)
    BY <2>1, <2>2 DEF PairInv, NoLossInv
  <2>4. CancelsForgotten(named, Append(s, b)) => NoLossInv(m, c)'
    BY <1>1, <1>3, <2>2 DEF NoLossInv, workerVars
  <2>5. named \in BOOLEAN
    OBVIOUS
  <2> HIDE DEF named
  <2>6. ~ NullCancel(b)
    BY <1>10 DEF NullCancel
  <2> QED
    BY <1>9, <2>1, <2>3, <2>4, <2>5, <2>6, ForgottenAppend
<1>19. PairInv(m, c)'
  <2>1. \A a \in Transit(m, c)' :
          /\ a.id = transferId'[m] => a.kind # "Finish"
          /\ reader'[m].present /\ IsChunk(a, transferId'[m]) => a.data[1][2] <= Sent(m)'
    <3> SUFFICES ASSUME NEW a \in Transit(m, c)'
                 PROVE  /\ a.id = transferId[m] => a.kind # "Finish"
                        /\ IsChunk(a, transferId[m]) => a.data[1][2] <= pos
      BY <1>3, <1>7
    <3>1. CASE a = b
      BY <1>10, <1>11, <1>13, <3>1
    <3>2. CASE a \in Transit(m, c)
      <4>1. a.id = transferId[m] => a.kind # "Finish"
        BY <1>5, <3>2
      <4>2. ASSUME IsChunk(a, transferId[m])
            PROVE  a.data[1][2] <= pos
        <5>1. a.data[1][2] <= Sent(m)
          BY <1>5, <3>2, <4>2
        <5>2. a.data[1] \in Chunk
          BY <1>5, <3>2, <4>2, ChunkData DEF IsChunk
        <5>3. a.data[1][2] \in Nat
          BY <5>2 DEF Chunk
        <5> QED
          BY <1>7, <1>13, <5>1, <5>3
      <4> QED
        BY <4>1, <4>2
    <3> QED
      BY <1>16, <3>1, <3>2
  <2>2. \A a \in Transit(m, c)' :
          \/ a \in Transit(m, c)
          \/ a.id = NoId
          \/ a.id = ids' /\ (a.kind = "Start" => ids < ids')
    BY <1>3, <1>5, <1>10, <1>16
  <2>3. \A a \in Transit(m, c)' :
          a.kind = "Start" /\ a.id \notin lost'[c] =>
            a \in Transit(m, c) \/ RestComes(m, c, a.id, a.file, 0)'
    BY <1>10, <1>16
  <2> QED
    BY <1>15, <1>16, <1>17, <1>18, <2>1, <2>2, <2>3, SentPair
<1> QED
  BY <1>8, <1>19

LEMMA FinishFilePair ==
  ASSUME TypeInv, NEW m \in Masters, NEW c \in Computers, ReaderInv(m), PairInv(m, c), finishFile(m)
  PROVE  PairInv(m, c)' /\ ReaderInv(m)'
<1> DEFINE fin == Plain("Finish", transferId[m], File(m))
           open == Plain("OpenTransferFolder", NoId, NoFile)
           opens == isLast(m) /\ "OpenTransferFolder" \in flags[m]
<1>1. processTimer[m] /\ fileState[m] = "Finished" /\ <<m, c>> \in Pair
  BY DEF finishFile, Pair
<1>2. File(m) \in Files /\ Size[File(m)] \in Nat
  BY <1>1, CurrentFile DEF TypeInv
<1>3. UNCHANGED <<wire, inbox, workerVars, ids>> /\ ~ reader'[m].present
  BY DEF finishFile, serverVars, NoReader, TypeInv, TypeOK
<1>4. transferId'[m] = IF reader[m].present THEN NoId ELSE transferId[m]
  BY DEF finishFile, TypeInv, TypeOK
<1>5. /\ ids \in Nat /\ transferId[m] \in {NoId, ids}
      /\ reader[m].present => transferId[m] # NoId
      /\ \A a \in Transit(m, c) :
           /\ a.id \in Nat /\ a.id <= ids
           /\ a.id = transferId[m] => a.kind # "Finish"
           /\ a.kind = "Finish" => a.id # NoId
  BY SendFacts DEF TypeInv, ReaderTypes
<1>6. ReaderInv(m)'
  BY <1>3, <1>4, <1>5 DEF ReaderInv
<1>7. /\ fin.kind = "Finish" /\ fin.id = transferId[m]
      /\ open.kind = "OpenTransferFolder" /\ open.id = NoId /\ open \in GoodMessage
      /\ reader[m].present => fin \in GoodMessage
  <2>1. NoId \in TransferId /\ transferId[m] \in TransferId
    BY <1>5 DEF TransferId, NoId
  <2> QED
    BY <1>2, <1>5, <2>1, PlainIsGood DEF Plain
<1>8. PICK s \in Seq(GoodMessage) : s = InTransit(m, c)
  BY TransitTypes, Zenon
<1>9. PICK q \in Seq(GoodMessage) : q = queue[<<m, c>>]
  BY TransitTypes, Zenon
<1> DEFINE one(t) == IF reader[m].present THEN Append(t, fin) ELSE t
           both(t) == IF opens THEN Append(one(t), open) ELSE one(t)
<1>10. /\ IF <<m, c>> \in connected THEN queue'[<<m, c>>] = both(q) ELSE queue'[<<m, c>>] = q
       /\ lost'[c] = IF <<m, c>> \in connected \/ ~ reader[m].present THEN lost[c]
                     ELSE lost[c] \cup {transferId[m]}
  <2>1. /\ queue'[<<m, c>>] =
             IF <<m, c>> \in connected
             THEN queue[<<m, c>>] \o (IF reader[m].present THEN <<fin>> ELSE <<>>)
                                 \o (IF opens THEN <<open>> ELSE <<>>)
             ELSE queue[<<m, c>>]
        /\ lost'[c] = IF <<m, c>> \in connected \/ (IF reader[m].present THEN <<fin>> ELSE <<>>) = <<>>
                      THEN lost[c] ELSE lost[c] \cup {transferId[m]}
    BY <1>1 DEF finishFile
  <2> HIDE DEF fin, open, opens
  <2>2. (IF reader[m].present THEN <<fin>> ELSE <<>>) = <<>> <=> ~ reader[m].present
    OBVIOUS
  <2>3. ASSUME NEW t \in Seq(GoodMessage), NEW b \in GoodMessage
        PROVE  t \o <<b>> = Append(t, b) /\ t \o <<>> = t /\ Append(t, b) \in Seq(GoodMessage)
    BY AppendIsConcat, ConcatEmptySeq, AppendProperties
  <2>4. one(q) \in Seq(GoodMessage) /\ q \o (IF reader[m].present THEN <<fin>> ELSE <<>>) = one(q)
    BY <1>7, <1>9, <2>3
  <2> DEFINE r == one(q)
  <2> HIDE DEF one, r
  <2>5. r \o (IF opens THEN <<open>> ELSE <<>>) = IF opens THEN Append(r, open) ELSE r
    BY <1>7, <2>3, <2>4 DEF r
  <2> QED
    BY <1>9, <2>1, <2>2, <2>4, <2>5 DEF r
<1>11. InTransit(m, c)' = IF <<m, c>> \in connected THEN both(s) ELSE s
  <2> DEFINE p == inbox[c] \o wire[<<m, c>>]
  <2>1. p \in Seq(GoodMessage) /\ s = p \o q
    BY <1>8, <1>9, TransitTypes, Zenon DEF InTransit
  <2>2. InTransit(m, c)' = IF <<m, c>> \in connected THEN p \o both(q) ELSE p \o q
    BY <1>3, <1>10 DEF InTransit
  <2> HIDE DEF fin, open, opens, p
  <2>3. ASSUME NEW t \in Seq(GoodMessage), NEW b \in GoodMessage
        PROVE  p \o Append(t, b) = Append(p \o t, b) /\ Append(t, b) \in Seq(GoodMessage)
    BY <2>1, ConcatAppend, AppendProperties
  <2>4. one(q) \in Seq(GoodMessage) /\ p \o one(q) = one(s)
    BY <1>7, <1>9, <2>1, <2>3
  <2>5. p \o both(q) = both(s)
    BY <1>7, <2>3, <2>4
  <2> QED
    BY <2>1, <2>2, <2>5
<1>12. /\ \A a \in Transit(m, c) : Follows(a, fin) /\ Follows(a, open)
       /\ Follows(fin, open)
  BY <1>5, <1>7 DEF Follows, IsChunk
<1> HIDE DEF fin, open, opens
<1>13. /\ one(s) \in Seq(GoodMessage) /\ InOrder(one(s))
       /\ Range(one(s)) = Range(s) \cup (IF reader[m].present THEN {fin} ELSE {})
  <2>1. InOrder(s) /\ \A a \in Range(s) : Follows(a, fin)
    BY <1>8, <1>12 DEF PairInv, OrderInv, Transit
  <2> QED
    BY <1>7, <1>8, <2>1, AppendInOrder
<1>14. /\ both(s) \in Seq(GoodMessage) /\ InOrder(both(s))
       /\ Range(both(s)) = Range(one(s)) \cup (IF opens THEN {open} ELSE {})
  <2> DEFINE r == one(s)
  <2>1. r \in Seq(GoodMessage) /\ InOrder(r) /\ \A a \in Range(r) : Follows(a, open)
    BY <1>8, <1>12, <1>13 DEF Transit
  <2>2. both(s) = IF opens THEN Append(r, open) ELSE r
    OBVIOUS
  <2> HIDE DEF one, both, r
  <2>3. /\ both(s) \in Seq(GoodMessage) /\ InOrder(both(s))
        /\ Range(both(s)) = Range(r) \cup (IF opens THEN {open} ELSE {})
    BY <1>7, <2>1, <2>2, AppendInOrder
  <2> QED
    BY <2>3 DEF r
<1>15. /\ InOrder(InTransit(m, c))' /\ Transit(m, c) \subseteq Transit(m, c)'
       /\ \A a \in Transit(m, c)' : a \in Transit(m, c) \/ (a = fin /\ reader[m].present) \/ a = open
       /\ <<m, c>> \in connected /\ reader[m].present => fin \in Transit(m, c)'
  <2>1. InOrder(InTransit(m, c)')
    BY <1>8, <1>11, <1>14 DEF PairInv, OrderInv
  <2>2. InOrder(InTransit(m, c))'
    BY <2>1 DEF InOrder, Follows, IsChunk
  <2>3. Transit(m, c) = Range(s)
        /\ Transit(m, c)' = IF <<m, c>> \in connected THEN Range(both(s)) ELSE Range(s)
    BY <1>8, <1>11 DEF Transit
  <2> HIDE DEF one, both
  <2> QED
    BY <1>13, <1>14, <2>2, <2>3
<1> HIDE DEF one, both
<1>16. /\ lost[c] \subseteq lost'[c]
       /\ transferId[m] \notin lost'[c] /\ reader[m].present => <<m, c>> \in connected
  BY <1>10
<1>17. ASSUME NEW id \in Nat, NEW f \in Files, NEW k \in Nat,
              id \notin lost'[c], RestComes(m, c, id, f, k)
       PROVE  RestComes(m, c, id, f, k)'
  <2>1. Chunks(Transit(m, c), id)' = Chunks(Transit(m, c)', id)
    BY DEF Chunks, IsChunk
  <2>2. /\ Transit(m, c) \subseteq Transit(m, c)'
        /\ \A a \in Transit(m, c)' : a \in Transit(m, c) \/ a.kind # "Continue"
    BY <1>7, <1>15
  <2>3. Chunks(Transit(m, c)', id) = Chunks(Transit(m, c), id)
    BY <2>2 DEF Chunks, IsChunk
  <2>4. ASSUME reader[m].present, transferId[m] = id, File(m) = f, k <= Sent(m),
               Chunks(Transit(m, c)', id) = Upto(f, k, Sent(m))
        PROVE  RestComes(m, c, id, f, k)'
    <3>1. Sent(m) = Size[f]
      BY <1>1, <2>4 DEF Sent
    <3>2. fin \in Transit(m, c)' /\ fin.kind = "Finish" /\ fin.id = id
      BY <1>7, <1>15, <1>16, <1>17, <2>4
    <3> QED
      BY <2>1, <2>4, <3>1, <3>2 DEF RestComes
  <2> QED
    BY <1>17, <2>2, <2>4, RestMore
<1>18. NoLossInv(m, c)'
  <2> SUFFICES ASSUME lost'[c] = {}
               PROVE  NoLossInv(m, c)'
    BY DEF NoLossInv
  <2> DEFINE named == fileName[c] # NoFile
             r == one(s)
             t == both(s)
  <2>1. lost[c] = {} /\ (<<m, c>> \in connected \/ ~ reader[m].present)
    BY <1>10
  <2>2. /\ CancelsForgotten(named, s)
        /\ transferId[m] = NoId => Forgotten(named, s, Len(s) + 1)
    BY <1>8, <2>1 DEF PairInv, NoLossInv
  <2>3. r \in Seq(GoodMessage) /\ r = (IF reader[m].present THEN Append(s, fin) ELSE s)
        /\ t = IF opens THEN Append(r, open) ELSE r
    BY <1>13 DEF one, both
  <2>4. /\ CancelsForgotten(named, s) /\ CancelsForgotten(named, t)
        /\ transferId'[m] = NoId => /\ Forgotten(named, t, Len(t) + 1)
                                    /\ ~ reader[m].present => Forgotten(named, s, Len(s) + 1)
        => NoLossInv(m, c)'
    BY <1>3, <1>8, <1>11, <2>1 DEF NoLossInv, workerVars
  <2>5. named \in BOOLEAN
    OBVIOUS
  <2> HIDE DEF named, r, t
  <2>6. /\ CancelsForgotten(named, r)
        /\ transferId'[m] = NoId => Forgotten(named, r, Len(r) + 1)
    <3>1. CASE reader[m].present
      <4>1. r = Append(s, fin) /\ fin \in GoodMessage /\ ~ NullCancel(fin) /\ fin.kind = "Finish"
        BY <1>7, <2>3, <3>1 DEF NullCancel
      <4> QED
        BY <1>8, <2>2, <2>5, <4>1, ForgottenAppend
    <3>2. CASE ~ reader[m].present
      BY <1>4, <2>2, <2>3, <3>2
    <3> QED
      BY <3>1, <3>2
  <2>7. /\ CancelsForgotten(named, t)
        /\ transferId'[m] = NoId => Forgotten(named, t, Len(t) + 1)
    <3>1. CASE opens
      <4>1. t = Append(r, open) /\ open \in GoodMessage /\ ~ NullCancel(open) /\ open.kind # "Start"
        BY <1>7, <2>3, <3>1 DEF NullCancel
      <4> QED
        BY <2>3, <2>5, <2>6, <4>1, ForgottenAppend
    <3>2. CASE ~ opens
      BY <2>3, <2>6, <3>2
    <3> QED
      BY <3>1, <3>2
  <2> QED
    BY <1>4, <2>2, <2>4, <2>7
<1>19. PairInv(m, c)'
  <2>1. UNCHANGED workerVars /\ ids' \in Nat /\ ids <= ids' /\ ids' = ids
    BY <1>3, <1>5
  <2>2. \A a \in Transit(m, c)' :
          /\ a.id = transferId'[m] => a.kind # "Finish"
          /\ reader'[m].present /\ IsChunk(a, transferId'[m]) => a.data[1][2] <= Sent(m)'
    BY <1>3, <1>4, <1>5, <1>7, <1>15
  <2>3. \A a \in Transit(m, c)' :
          \/ a \in Transit(m, c)
          \/ a.id = NoId
          \/ a.id = ids' /\ (a.kind = "Start" => ids < ids')
    BY <1>5, <1>7, <1>15, <2>1
  <2>4. \A a \in Transit(m, c)' :
          a.kind = "Start" /\ a.id \notin lost'[c] =>
            a \in Transit(m, c) \/ RestComes(m, c, a.id, a.file, 0)'
    BY <1>7, <1>15
  <2> QED
    BY <1>15, <1>16, <1>17, <1>18, <2>1, <2>2, <2>3, <2>4, SentPair
<1> QED
  BY <1>6, <1>19

-----------------------------------------------------------------------------
(* The inductive invariant                                                 *)

LEMMA TransferInit == Init => TransferInv
<1> SUFFICES ASSUME Init, OneMaster, NEW m \in Masters, NEW c \in Computers
             PROVE  ReaderInv(m) /\ PairInv(m, c)
  BY DEF TransferInv
<1>1. /\ transferId[m] = NoId /\ reader[m] = NoReader /\ ids = 0 /\ currentId[c] = NoId
      /\ c \notin isOpen /\ fileName[c] = NoFile /\ \A f \in Files : writer[c][f] = NoId
      /\ inbox[c] = <<>> /\ wire[<<m, c>>] = <<>> /\ queue[<<m, c>>] = <<>>
  BY DEF Init, Pair
<1>2. InTransit(m, c) = <<>>
  BY <1>1 DEF InTransit
<1>3. DOMAIN InTransit(m, c) = {} /\ Transit(m, c) = {}
  BY <1>2 DEF Transit, Range
<1>4. ReaderInv(m)
  BY <1>1 DEF ReaderInv, NoReader
<1>5. OrderInv(m, c)
  BY <1>1, <1>3 DEF OrderInv, InOrder, Fresh, Later, RefusedInv, Refused, OpenInv, NoId
<1>6. DataInv(m, c)
  BY <1>1, <1>3 DEF DataInv, StartInv, ReceivingInv, ReceivedInv
<1>7. NoLossInv(m, c)
  BY <1>1, <1>3 DEF NoLossInv, CancelsForgotten, Forgotten
<1> QED
  BY <1>4, <1>5, <1>6, <1>7 DEF PairInv

LEMMA MasterPair ==
  ASSUME TypeInv, NEW m \in Masters, NEW c \in Computers, ReaderInv(m), PairInv(m, c), MasterStep(m)
  PROVE  PairInv(m, c)'
  BY StartPair, StopPair, OpenFilePair, TransferFilePair, FinishFilePair, ReadNextChunkPair
     DEF MasterStep, process

LEMMA WorkerPair ==
  ASSUME TypeInv, NEW m \in Masters, NEW c \in Computers, ReaderInv(m), PairInv(m, c), WorkerStep(c)
  PROVE  PairInv(m, c)'
<1>1. CASE CloseBox(c)
  <2>1. UNCHANGED <<controllerVars, ids>> /\ WorkerSame(c) /\ lost' = lost
        /\ InTransit(m, c)' = InTransit(m, c)
    BY <1>1 DEF CloseBox, WorkerSame, InTransit, serverVars
  <2> QED
    BY <2>1, Untouched
<1> QED
  BY <1>1, StartFilePair, ContinueFilePair, CancelFilePair, CloseFilePair, OpenTransferFolderPair,
     WithoutWorkerPair DEF WorkerStep, retryWorker, WorkerEnds

LEMMA MasterReader ==
  ASSUME TypeInv, NEW m \in Masters, NEW c \in Computers, ReaderInv(m), PairInv(m, c), MasterStep(m)
  PROVE  ReaderInv(m)'
<1>1. CASE start(m) \/ stop(m)
  <2>1. ~ reader'[m].present /\ UNCHANGED <<transferId, ids>>
    BY <1>1 DEF start, stop, NoReader, TypeInv, TypeOK, ReaderTypes
  <2> QED
    BY <2>1 DEF ReaderInv
<1> QED
  BY <1>1, OpenFilePair, TransferFilePair, FinishFilePair, ReadNextChunkPair DEF MasterStep, process

LEMMA OtherReader ==
  ASSUME NEW m, NEW n \in Masters, NEW c \in Computers, ReaderInv(m), LinkStep(n, c) \/ WorkerStep(c)
  PROVE  ReaderInv(m)'
<1>1. UNCHANGED <<controllerVars, ids>>
  BY DEF LinkStep, sendEvents, LoseConnection, Reconnect, forwardMessage, WorkerStep, startFile,
         continueFile, cancelFile, closeFile, openTransferFolder, CloseBox, retryWorker, WorkerEnds,
         withoutWorker, Handled
<1> QED
  BY <1>1 DEF ReaderInv, controllerVars, File

LEMMA TransferStep == TypeInv /\ TransferInv /\ [Next]_vars => TransferInv'
<1> SUFFICES ASSUME TypeInv, TransferInv, [Next]_vars, OneMaster, NEW m \in Masters, NEW c \in Computers
             PROVE  ReaderInv(m)' /\ PairInv(m, c)'
  BY DEF TransferInv, OneMaster
<1>1. ReaderInv(m) /\ PairInv(m, c)
  BY DEF TransferInv
<1>2. \A n \in Masters : n = m
  BY DEF OneMaster
<1>3. ASSUME MasterStep(m)
      PROVE  ReaderInv(m)' /\ PairInv(m, c)'
  BY <1>1, <1>3, MasterReader, MasterPair
<1>4. ASSUME NEW d \in Computers, LinkStep(m, d) \/ WorkerStep(d)
      PROVE  ReaderInv(m)' /\ PairInv(m, c)'
  <2>1. ReaderInv(m)'
    BY <1>1, <1>4, OtherReader
  <2>2. CASE d = c
    BY <1>1, <1>4, <2>1, <2>2, LinkPair, WorkerPair
  <2>3. CASE d # c
    BY <1>1, <1>4, <2>1, <2>3, PairElsewhere
  <2> QED
    BY <2>2, <2>3
<1>5. CASE UNCHANGED vars
  <2>1. UNCHANGED <<controllerVars, ids, lost>> /\ WorkerSame(c) /\ InTransit(m, c)' = InTransit(m, c)
    BY <1>5 DEF vars, serverVars, workerVars, WorkerSame, InTransit
  <2>2. ReaderInv(m)'
    BY <1>1, <2>1 DEF ReaderInv, controllerVars, File
  <2> QED
    BY <1>1, <2>1, <2>2, Untouched
<1> QED
  BY <1>2, <1>3, <1>4, <1>5 DEF Next

LEMMA TransferInvariant == Spec => [](TypeInv /\ TransferInv)
<1>1. Init => TypeInv /\ TransferInv
  BY TypeInit, TransferInit
<1>2. (TypeInv /\ TransferInv) /\ [Next]_vars => (TypeInv /\ TransferInv)'
  BY TypeStep, TransferStep
<1> QED
  BY <1>1, <1>2, PTL DEF Spec

-----------------------------------------------------------------------------
(* With one master                                                         *)

\* A computer that got all messages of a transfer has the whole file in the end, or none:
\* what is lost before or after leaves no part of a file behind.
THEOREM ReceivedComplete == Spec => []ReceivedIsComplete
<1>1. TypeInv /\ TransferInv => ReceivedIsComplete
  <2> SUFFICES ASSUME TypeInv, TransferInv, OneMaster, NEW c \in Computers, NEW f \in Files,
                      writer[c][f] # NoId, writer[c][f] \notin lost[c], Over(writer[c][f], c)
               PROVE  disk[c][f] \in {Absent, Source(f)}
    BY DEF ReceivedIsComplete
  <2> DEFINE id == writer[c][f]
  <2>1. PICK m \in Masters : Masters = {m}
    BY DEF OneMaster
  <2>2. ReaderInv(m) /\ PairInv(m, c)
    BY <2>1 DEF TransferInv
  <2>3. \A a \in Transit(m, c) : a.id # id
    <3>1. /\ id \notin IdsOf(queue[<<m, c>>]) /\ id \notin IdsOf(wire[<<m, c>>])
          /\ id \notin IdsOf(inbox[c])
      BY <2>1 DEF Over
    <3>2. /\ inbox[c] \in Seq(GoodMessage) /\ wire[<<m, c>>] \in Seq(GoodMessage)
          /\ queue[<<m, c>>] \in Seq(GoodMessage)
      BY <2>1, TransitTypes, Zenon
    <3>3. Transit(m, c) = Range(inbox[c]) \cup Range(wire[<<m, c>>]) \cup Range(queue[<<m, c>>])
      <4> DEFINE i == inbox[c]
                 w == wire[<<m, c>>]
                 q == queue[<<m, c>>]
      <4>1. i \in Seq(GoodMessage) /\ w \in Seq(GoodMessage) /\ q \in Seq(GoodMessage)
        BY <3>2
      <4>2. Transit(m, c) = Range(i \o w \o q)
        BY DEF Transit, InTransit
      <4> HIDE DEF i, w, q
      <4>3. Range(i \o w \o q) = Range(i) \cup Range(w) \cup Range(q)
        BY <4>1, CutInOrder
      <4> QED
        BY <4>2, <4>3 DEF i, w, q
    <3> QED
      BY <3>1, <3>3 DEF IdsOf, Range
  <2>4. ~ (c \in isOpen /\ fileName[c] = f)
    <3> SUFFICES ASSUME c \in isOpen, fileName[c] = f
                 PROVE  FALSE
      OBVIOUS
    <3>1. id = currentId[c] /\ ~ CancelComes(m, c, id)
      BY <2>2, <2>3 DEF PairInv, OrderInv, OpenInv, CancelComes
    <3>2. PICK k : RestComes(m, c, id, f, k)
      BY <2>2, <3>1 DEF PairInv, DataInv, ReceivingInv
    <3>3. reader[m].present /\ transferId[m] = id
      BY <2>3, <3>1, <3>2 DEF RestComes
    <3> QED
      BY <2>1, <3>3 DEF Over, TypeInv, ReaderTypes
  <2> QED
    BY <2>2, <2>4 DEF PairInv, DataInv, ReceivedInv
<1> QED
  BY <1>1, TransferInvariant, PTL

\* What changes a file that is there.
LEMMA ChangedBy ==
  ASSUME TypeInv, TransferInv, Next, OneMaster, NEW c \in Computers, NEW f \in Files,
         disk[c][f] # Absent, disk'[c][f] # disk[c][f]
  PROVE  \/ Head(inbox[c]).kind = "Start" /\ Head(inbox[c]).overwrite /\ Head(inbox[c]).file = f
         \/ Head(inbox[c]).id = writer[c][f] /\ Head(inbox[c]).id # NoId
         \/ RefusedIsRemoved(c, f)
<1>1. PICK m \in Masters : ReaderInv(m) /\ PairInv(m, c)
  BY DEF OneMaster, TransferInv
<1>2. startFile(c) \/ continueFile(c) \/ cancelFile(c)
  <2>1. disk' # disk
    OBVIOUS
  <2>2. PICK d \in Computers : startFile(d) \/ continueFile(d) \/ cancelFile(d)
    BY <2>1 DEF Next, MasterStep, start, stop, process, openFile, transferFile, finishFile, readNextChunk,
                LinkStep, sendEvents, LoseConnection, Reconnect, forwardMessage, WorkerStep,
                closeFile, openTransferFolder, CloseBox, retryWorker, WorkerEnds, withoutWorker,
                workerVars
  <2>3. d = c
    BY <2>2 DEF startFile, continueFile, cancelFile, TypeInv, TypeOK
  <2> QED
    BY <2>2, <2>3
<1> DEFINE h == Head(inbox[c])
<1>3. CASE startFile(c)
  <2>1. Handled(c, "Start")
    BY <1>3 DEF startFile
  <2>2. h.kind = "Start" /\ h \in Transit(m, c)
    BY <1>1, <2>1, HandledFacts
  <2>3. h.file \in Files
    BY <1>1, <2>2, MessageFacts
  <2>4. ~ refused(c, h) /\ disk' = [disk EXCEPT ![c][h.file] = <<>>]
    BY <1>3 DEF startFile
  <2>5. h.file = f
    BY <2>3, <2>4 DEF TypeInv, TypeOK
  <2> QED
    BY <2>2, <2>4, <2>5 DEF refused
<1>4. CASE continueFile(c)
  <2>1. h.id = currentId[c] /\ c \in isOpen /\ disk' = [disk EXCEPT ![c][fileName[c]] = @ \o h.data]
    BY <1>4 DEF continueFile, current
  <2>2. fileName[c] = f
    BY <2>1 DEF TypeInv, TypeOK, OpenFiles
  <2> QED
    BY <1>1, <2>1, <2>2 DEF PairInv, OrderInv, OpenInv
<1>5. CASE cancelFile(c)
  <2>1. Handled(c, "Cancel")
    BY <1>5 DEF cancelFile
  <2>2. h.kind = "Cancel" /\ h \in Transit(m, c)
    BY <1>1, <2>1, HandledFacts
  <2>3. h.id = currentId[c] /\ fileName[c] # NoFile /\ disk' = [disk EXCEPT ![c][fileName[c]] = Absent]
    BY <1>5 DEF cancelFile, current
  <2>4. fileName[c] = f
    BY <2>3, WorkerFacts DEF TypeInv, TypeOK
  <2>5. CASE c \in isOpen
    BY <1>1, <2>3, <2>4, <2>5 DEF PairInv, OrderInv, OpenInv
  <2>6. CASE c \notin isOpen
    <3>1. Refused(c)
      BY <2>3, <2>4, <2>6 DEF Refused
    <3>2. currentId[c] = NoId
      BY <1>1, <2>2, <2>3, <3>1 DEF PairInv, OrderInv, RefusedInv
    <3>3. lost[c] # {}
      <4> SUFFICES ASSUME lost[c] = {}
                   PROVE  FALSE
        OBVIOUS
      <4> DEFINE named == fileName[c] # NoFile
      <4>1. PICK s \in Seq(GoodMessage) : s = InTransit(m, c)
        BY TransitTypes, Zenon
      <4>2. CancelsForgotten(named, s) /\ s # <<>> /\ NullCancel(Head(s))
        BY <1>1, <2>1, <2>2, <2>3, <3>2, <4>1, HandledFacts DEF PairInv, NoLossInv, NullCancel
      <4>3. named \in BOOLEAN /\ FALSE \in BOOLEAN
        OBVIOUS
      <4>4. ~ named
        BY <4>1, <4>2, <4>3, ForgottenTail
      <4> QED
        BY <2>3, <4>4
    <3> QED
      BY <2>2, <2>3, <2>4, <3>2, <3>3 DEF RefusedIsRemoved
  <2> QED
    BY <2>5, <2>6
<1> QED
  BY <1>2, <1>3, <1>4, <1>5

\* A file that is there is only changed by the transfer that created it, by a Start message
\* with the option to overwrite, or, refused, by a Cancel after messages were lost.
THEOREM ExistingKept == Spec => ExistingFilesAreKept
<1> DEFINE Kept ==
      OneMaster => \A c \in Computers, f \in Files :
        disk[c][f] # Absent /\ disk'[c][f] # disk[c][f] =>
          LET message == Head(inbox[c]) IN
          \/ message.kind = "Start" /\ message.overwrite /\ message.file = f
          \/ message.id = writer[c][f] /\ message.id # NoId
          \/ RefusedIsRemoved(c, f)
<1>1. TypeInv /\ TransferInv /\ [Next]_vars => [Kept]_vars
  <2> SUFFICES ASSUME TypeInv, TransferInv, Next, OneMaster, NEW c \in Computers, NEW f \in Files,
                      disk[c][f] # Absent, disk'[c][f] # disk[c][f]
               PROVE  \/ Head(inbox[c]).kind = "Start" /\ Head(inbox[c]).overwrite /\ Head(inbox[c]).file = f
                      \/ Head(inbox[c]).id = writer[c][f] /\ Head(inbox[c]).id # NoId
                      \/ RefusedIsRemoved(c, f)
    OBVIOUS
  <2> QED
    BY ChangedBy
<1> QED
  BY <1>1, TransferInvariant, PTL DEF Spec, ExistingFilesAreKept

=============================================================================
