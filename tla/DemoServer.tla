------------------------------- MODULE DemoServer -------------------------------
(***************************************************************************)
(* The demo server: DemoServer in the demo server worker of the teacher's  *)
(* computer collects the updates of the local VNC server in a queue, and a *)
(* DemoServerConnection per demo client sends them on.                     *)
(*                                                                         *)
(* The screen is a row of tiles; its size stays as it is.  An update draws *)
(* tiles, some of them new to the demo server, and copies others from the  *)
(* picture before it (CopyRect); its size is the number of tiles it shows. *)
(* What a picture looks like is left out: per client the model has the     *)
(* tiles in which its picture may differ from what the demo server had     *)
(* received when the client was sent its last update.  Everything runs in  *)
(* one thread.                                                             *)
(***************************************************************************)
EXTENDS Integers, Sequences, FiniteSets, SequencesExt

CONSTANTS
  Clients,        \* the connections of demo clients
  Width,          \* number of tiles of the screen
  MemoryLimit,    \* m_memoryLimit
  MaxUnread,      \* bound on the updates on the way to the demo server
  MaxMoved,       \* bound on the tiles an update copies
  MaxChanges,     \* bound on the changes of the screen
  MaxBreaks       \* bound on lost connections and restarts of the demo

ASSUME DemoServerAssumption ==
  /\ Width \in Nat \ {0}
  /\ MemoryLimit \in Nat
  /\ MaxUnread \in Nat \ {0}
  /\ MaxMoved \in Nat
  /\ MaxChanges \in Nat
  /\ MaxBreaks \in Nat

Tiles == 1..Width

VARIABLES
  \* the VNC server (external)
  dirty,         \* tiles changed since they were sent
  request,       \* the pending update request: "none", "incremental" or "full"
  wire,          \* updates on the way to the demo server
  \* DemoServer
  server,        \* m_demoServer: "none", "failed" (cannot listen) or "up"
  vnc,           \* its VNC connection: "handshake", "running" or, for good, "refused"
  requestFull,   \* m_requestFullFramebufferUpdate
  messages,      \* m_framebufferUpdateMessages
  \* DemoServerConnection
  connection,    \* "none", "pending" (not accepted), "handshake" or "running"
  current,       \* connections whose m_keyFrame is that of the server
  index,         \* m_framebufferUpdateMessageIndex
  retrying,      \* connections that try to send again later
  \* the clients' pictures
  seen,          \* number of the queue's updates the picture is compared after
  wrong,         \* tiles in which it may differ from what the demo server had then
  \* bounds
  changes,
  breaks

vncVars == <<dirty, request, wire>>
serverVars == <<server, vnc, requestFull, messages>>
connectionVars == <<connection, current, index, retrying, seen, wrong>>
vars == <<vncVars, serverVars, connectionVars, changes, breaks>>

Copies == UNION {[moved -> Tiles] : moved \in SUBSET Tiles}

\* An update draws tiles, some of which the demo server has not got yet, and copies
\* others from where the given tile was.
Update == [drawn : SUBSET Tiles, new : SUBSET Tiles, copies : Copies]

Shown(update) == update.drawn \cup DOMAIN update.copies

Changed(updates) ==
  UNION {update.new \cup DOMAIN update.copies : update \in Range(updates)}

Init ==
  /\ dirty = Tiles
  /\ request = "none"
  /\ wire = <<>>
  /\ server = "none"
  /\ vnc = "handshake"
  /\ requestFull = FALSE
  /\ messages = <<>>
  /\ connection = [c \in Clients |-> "none"]
  /\ current = {}
  /\ index = [c \in Clients |-> 0]
  /\ retrying = {}
  /\ seen = [c \in Clients |-> 0]
  /\ wrong = [c \in Clients |-> Tiles]
  /\ changes = 0
  /\ breaks = 0

-----------------------------------------------------------------------------
(* The VNC server (external)                                               *)

ScreenChanges ==
  /\ changes < MaxChanges
  /\ changes' = changes + 1
  /\ \E tiles \in SUBSET Tiles \ {{}} : dirty' = dirty \cup tiles
  /\ UNCHANGED <<request, wire, serverVars, connectionVars, breaks>>

\* A full request is answered with the whole screen, an incremental one with what
\* has changed as soon as something has: drawn, or copied if it has only moved.
SendUpdate ==
  /\ vnc = "running" /\ Len(wire) < MaxUnread
  /\ \/ /\ request = "full"
        /\ wire' = Append(wire, [drawn |-> Tiles, new |-> dirty, copies |-> [t \in {} |-> t]])
     \/ /\ request = "incremental" /\ dirty # {}
        /\ \E moved \in SUBSET dirty : \E copies \in [moved -> Tiles] :
             /\ Cardinality(moved) <= MaxMoved /\ \A t \in moved : copies[t] # t
             /\ wire' = Append(wire, [drawn |-> dirty \ moved, new |-> dirty \ moved,
                                      copies |-> copies])
  /\ dirty' = {}
  /\ request' = "none"
  /\ UNCHANGED <<serverVars, connectionVars, changes, breaks>>

-----------------------------------------------------------------------------
(* DemoServer                                                              *)

\* reconnectToVncServer(); what was asked of or sent by the VNC server is lost.
reconnectToVncServer ==
  /\ vnc' \in {"handshake", "refused"}
  /\ request' = "none"
  /\ wire' = <<>>
  /\ dirty' = Tiles

\* StartDemoServer: the port may still be in use.
startDemoServer ==
  /\ server = "none"
  /\ \/ server' = "up" /\ reconnectToVncServer
     \/ server' = "failed" /\ UNCHANGED <<vnc, vncVars>>
  /\ requestFull' = FALSE
  /\ messages' = <<>>
  /\ UNCHANGED <<connectionVars, changes, breaks>>

\* Mutant: connections that have gone try again.
closed_kept(gone) ==
  /\ connection' = [c \in Clients |-> IF c \in gone THEN "none" ELSE connection[c]]
  /\ current' = current \ gone
  /\ index' = [c \in Clients |-> IF c \in gone THEN 0 ELSE index[c]]
  /\ seen' = [c \in Clients |-> IF c \in gone THEN 0 ELSE seen[c]]
  /\ wrong' = [c \in Clients |-> IF c \in gone THEN Tiles ELSE wrong[c]]
  /\ UNCHANGED retrying

\* The DemoServerConnection objects are deleted; the next ones begin as in Init.
closed(gone) ==
  /\ connection' = [c \in Clients |-> IF c \in gone THEN "none" ELSE connection[c]]
  /\ current' = current \ gone
  /\ index' = [c \in Clients |-> IF c \in gone THEN 0 ELSE index[c]]
  /\ retrying' = retrying \ gone
  /\ seen' = [c \in Clients |-> IF c \in gone THEN 0 ELSE seen[c]]
  /\ wrong' = [c \in Clients |-> IF c \in gone THEN Tiles ELSE wrong[c]]

\* StopDemoServer: the server is deleted with its connections.
stopDemoServer ==
  /\ server # "none" /\ breaks < MaxBreaks
  /\ breaks' = breaks + 1
  /\ server' = "none"
  /\ closed(Clients)
  /\ request' = "none"
  /\ wire' = <<>>
  /\ UNCHANGED <<dirty, vnc, requestFull, messages, changes>>

disconnected ==
  /\ server = "up" /\ vnc # "refused" /\ breaks < MaxBreaks
  /\ breaks' = breaks + 1
  /\ reconnectToVncServer
  /\ UNCHANGED <<server, requestFull, messages, connectionVars, changes>>

\* acceptPendingConnections() makes a DemoServerConnection for everybody waiting.
accepted(waiting) ==
  connection' = [c \in Clients |-> IF c \in waiting THEN "handshake" ELSE connection[c]]

\* readFromVncServer() when the last message of the handshake has come: start()
\* asks for the whole screen and accepts the clients that have been waiting.
start ==
  /\ server = "up" /\ vnc = "handshake"
  /\ vnc' = "running"
  /\ request' = "full"
  /\ requestFull' = FALSE
  /\ accepted({c \in Clients : connection[c] = "pending"})
  /\ UNCHANGED <<dirty, wire, server, messages, current, index, retrying, seen, wrong,
                 changes, breaks>>

\* requestFramebufferUpdate(), by the timer: the whole screen if that has been asked
\* for or the key frame interval has elapsed, ...
requestFullUpdate ==
  /\ server = "up" /\ vnc = "running"
  /\ request' = "full"
  /\ requestFull' = FALSE
  /\ UNCHANGED <<dirty, wire, server, vnc, messages, connectionVars, changes, breaks>>

\* ... the changes otherwise.
requestIncrementalUpdate ==
  /\ server = "up" /\ vnc = "running" /\ ~ requestFull
  /\ request' = IF request = "full" THEN "full" ELSE "incremental"
  /\ UNCHANGED <<dirty, wire, serverVars, connectionVars, changes, breaks>>

Size(updates) ==
  LET size[n \in 0..Len(updates)] ==
        IF n = 0 THEN 0 ELSE size[n - 1] + Cardinality(Shown(updates[n]))
  IN  size[Len(updates)]

\* The bounding rectangle of the updated region is the whole screen.
isFullUpdate(update) == {1, Width} \subseteq Shown(update)

overflows == Size(messages) > 2 * MemoryLimit

\* Mutant: only a full update starts a new key frame.
stillCurrent_overflow(update) == IF isFullUpdate(update) THEN {} ELSE current

\* A new key frame is started with a new queue.
startsOver(update) == isFullUpdate(update) \/ overflows

stillCurrent(update) == IF startsOver(update) THEN {} ELSE current

enqueued(update) == IF startsOver(update) THEN <<update>> ELSE Append(messages, update)

\* The updates of the queue the client's picture is behind by.
Unseen(c) == SubSeq(messages, seen[c] + 1, Len(messages))

Differs(c) == wrong[c] \cup Changed(Unseen(c))

\* receiveVncServerMessage(), enqueueFramebufferUpdateMessage()
receiveVncServerMessage ==
  LET update == Head(wire) IN
  /\ server = "up" /\ vnc = "running" /\ wire # <<>>
  /\ wire' = Tail(wire)
  /\ messages' = enqueued(update)
  /\ current' = stillCurrent(update)
  /\ requestFull' = (requestFull \/ Size(messages') > MemoryLimit)
  /\ IF startsOver(update)
     THEN seen' = [c \in Clients |-> 0] /\ wrong' = [c \in Clients |-> Differs(c)]
     ELSE UNCHANGED <<seen, wrong>>
  /\ UNCHANGED <<dirty, request, server, vnc, connection, index, retrying,
                 changes, breaks>>

-----------------------------------------------------------------------------
(* DemoServerConnection                                                    *)

Connect(c) ==
  /\ server = "up" /\ connection[c] = "none"
  /\ IF vnc = "running"
     THEN accepted({c} \cup {d \in Clients : connection[d] = "pending"})
     ELSE connection' = [connection EXCEPT ![c] = "pending"]
  /\ UNCHANGED <<vncVars, serverVars, current, index, retrying, seen, wrong,
                 changes, breaks>>

\* The client has shown the demo's token.
handshake(c) ==
  /\ connection[c] = "handshake"
  /\ connection' = [connection EXCEPT ![c] = "running"]
  /\ UNCHANGED <<vncVars, serverVars, current, index, retrying, seen, wrong,
                 changes, breaks>>

Disconnect(c) ==
  /\ connection[c] # "none" /\ breaks < MaxBreaks
  /\ breaks' = breaks + 1
  /\ closed({c})
  /\ UNCHANGED <<vncVars, serverVars, changes>>

\* What is wrong in a picture after an update: copies are taken from the picture
\* itself, then tiles are drawn over it.
afterUpdate(picture, update) ==
  {t \in Tiles \ update.drawn :
     IF t \in DOMAIN update.copies THEN update.copies[t] \in picture ELSE t \in picture}

\* ... and after all updates behind the first ones.
after(picture, updates, first) ==
  LET pictures[n \in first..Len(updates)] ==
        IF n = first THEN picture ELSE afterUpdate(pictures[n - 1], updates[n])
  IN  pictures[Len(updates)]

\* Mutant: the connection goes on at its index in the new queue.
firstUnsent_kept(c) == IF index[c] > Len(messages) THEN 0 ELSE index[c]

\* The connection starts over with a new key frame.
firstUnsent(c) ==
  IF c \notin current \/ index[c] > Len(messages) THEN 0 ELSE index[c]

\* sendFramebufferUpdate(), when the client asks for an update or the connection
\* tries again: everything the client has not got yet.
sendFramebufferUpdate(c) ==
  LET first   == firstUnsent(c)
      skipped == SubSeq(messages, seen[c] + 1, first) IN
  /\ connection[c] = "running"
  /\ current' = current \cup {c}
  /\ index' = [index EXCEPT ![c] = Len(messages)]
  /\ seen' = [seen EXCEPT ![c] = Len(messages)]
  /\ wrong' = [wrong EXCEPT ![c] = after(@ \cup Changed(skipped), messages, first)]
  /\ retrying' = IF first = Len(messages) THEN retrying \cup {c} ELSE retrying \ {c}
  /\ UNCHANGED <<vncVars, serverVars, connection, changes, breaks>>

\* The client asks once and waits.
receiveClientMessage(c) == c \notin retrying /\ sendFramebufferUpdate(c)

retry(c) == c \in retrying /\ sendFramebufferUpdate(c)

-----------------------------------------------------------------------------

Next ==
  \/ ScreenChanges \/ SendUpdate
  \/ startDemoServer \/ stopDemoServer \/ disconnected \/ start
  \/ requestFullUpdate \/ requestIncrementalUpdate \/ receiveVncServerMessage
  \/ \E c \in Clients :
       Connect(c) \/ handshake(c) \/ Disconnect(c) \/ receiveClientMessage(c) \/ retry(c)

Spec == Init /\ [][Next]_vars

\* The VNC server answers, the timers and the event loop go on, and the clients ask
\* for updates.
Fairness ==
  /\ WF_vars(SendUpdate) /\ WF_vars(start)
  /\ WF_vars(requestFullUpdate) /\ WF_vars(receiveVncServerMessage)
  /\ \A c \in Clients :
       WF_vars(handshake(c)) /\ WF_vars(receiveClientMessage(c)) /\ WF_vars(retry(c))

FairSpec == Spec /\ Fairness

-----------------------------------------------------------------------------
(* Properties                                                              *)

TypeOK ==
  /\ dirty \subseteq Tiles
  /\ request \in {"none", "incremental", "full"}
  /\ wire \in Seq(Update)
  /\ server \in {"none", "failed", "up"}
  /\ vnc \in {"handshake", "running", "refused"}
  /\ requestFull \in BOOLEAN
  /\ messages \in Seq(Update)
  /\ connection \in [Clients -> {"none", "pending", "handshake", "running"}]
  /\ current \subseteq Clients
  /\ index \in [Clients -> Nat]
  /\ retrying \subseteq {c \in Clients : connection[c] = "running"}
  /\ seen \in [Clients -> Nat]
  /\ wrong \in [Clients -> SUBSET Tiles]
  /\ changes \in 0..MaxChanges
  /\ breaks \in 0..MaxBreaks

\* The client has been sent everything in the queue.
UpToDate(c) ==
  /\ server = "up" /\ connection[c] = "running"
  /\ c \in current /\ index[c] = Len(messages)

\* A client that has been sent the queue shows right whatever the queue alone would
\* show a new client, wherever in the queue it was when the queue was cleared, at a
\* full update or at the limit, and however often it had to try again; and it shows
\* everything right if the queue begins with the whole screen.  More is not promised:
\* the queue cleared at the limit may begin with copies of tiles the client never got
\* (sendFramebufferUpdate(), enqueueFramebufferUpdateMessage(), setVncServerEncodings()).
PictureIsExact ==
  \A c \in Clients : UpToDate(c) =>
    /\ Differs(c) \subseteq after(Tiles, messages, 0)
    /\ messages # <<>> /\ messages[1].drawn = Tiles => Differs(c) = {}

\* In the end every client shows the screen, whatever was cleared from the queue or
\* wrongly copied before, unless the demo server has lost the VNC server
\* (requestFramebufferUpdate(), sendFramebufferUpdate()).
PictureCatchesUp ==
  \A c \in Clients :
    <>[](connection[c] = "running" /\ vnc # "refused" => dirty = {} /\ Differs(c) = {})

=============================================================================
