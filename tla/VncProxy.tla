-------------------------------- MODULE VncProxy --------------------------------
(***************************************************************************)
(* The VNC proxy of the Veyon server: VncProxyServer and, per connection,  *)
(* a VncProxyConnection (ComputerControlClient) between a client socket    *)
(* and a socket to the local VNC server.                                   *)
(*                                                                         *)
(* On each socket a handshake comes first, VncServerProtocol with the      *)
(* client and VncClientProtocol with the VNC server; then whole messages   *)
(* are forwarded.  Data arrives in pieces.  Everything runs in one thread; *)
(* readyRead and a timer call the same readers.  What access control       *)
(* decides is the subject of ServerAccess: here the client passes at some  *)
(* time or is turned away, and access may be revoked later.                *)
(***************************************************************************)
EXTENDS Integers, Sequences, FiniteSets, SequencesExt, FiniteSetsExt

CONSTANTS
  Connections,    \* the VncProxyConnection objects there may be
  Silent,         \* those that stay open with nothing sent over them (a bound)
  Kinds,          \* kinds of client messages: subset of {"rfb", "feature", "unhandled"}
  Pieces,         \* number of pieces of a message
  MaxMessages     \* bound on the messages sent over a connection

ASSUME VncProxyAssumption ==
  /\ Silent \subseteq Connections
  /\ Kinds \subseteq {"rfb", "feature", "unhandled"}
  /\ Pieces \in Nat \ {0}
  /\ MaxMessages \in Nat

VARIABLES
  listening,      \* m_server
  m_connections,  \* as a set
  object,         \* of a connection: a State
  proxy           \* its state: a Proxy

vars == <<listening, m_connections, object, proxy>>

State == {"none", "alive", "deleting" (* deleteLater() *), "deleted", "deletedTwice"}

\* A piece of a handshake message (number 0) or of the n-th message.
Piece == [message : Nat, last : BOOLEAN]

ServerProtocol == <<"Protocol", "SecurityInit", "AuthenticationTypes", "Authenticating",
                    "AccessControl", "FramebufferInit", "Running">>

ClientProtocol == <<"Protocol", "SecurityInit", "SecurityChallenge", "SecurityResult",
                    "FramebufferInit", "Running">>

Proxy ==
  [clientSocket : {"open", "closed"},
   serverSocket : {"connecting", "open", "refused", "closed"},
   clientWire   : Seq(Piece),                 \* sent by the client, not here yet
   clientBuffer : Seq(Piece),                 \* available at the client socket
   serverWire   : Seq(Piece),                 \* the same for the VNC server
   serverBuffer : Seq(Piece),
   serverProtocol : Range(ServerProtocol),    \* with the client, unless ...
   closing      : BOOLEAN,                    \* ... its state has been set to Close
   clientProtocol : Range(ClientProtocol),    \* with the VNC server
   granted      : BOOLEAN,                    \* access control lets the client pass
   clientTimers : Nat,                        \* pending calls of readFromClient()
   serverTimers : Nat,                        \* pending calls of readFromServer()
   clientSent   : Seq(Kinds),                 \* messages of the client
   serverSent   : Nat,                        \* number of messages of the VNC server
   toServer     : Seq(Nat),                   \* numbers of the forwarded messages
   toClient     : Seq(Nat)]

NewProxy ==
  [clientSocket |-> "open", serverSocket |-> "connecting",
   clientWire |-> <<>>, clientBuffer |-> <<>>, serverWire |-> <<>>, serverBuffer |-> <<>>,
   serverProtocol |-> "Protocol", closing |-> FALSE, clientProtocol |-> "Protocol",
   granted |-> FALSE,
   clientTimers |-> 0, serverTimers |-> 0,
   clientSent |-> <<>>, serverSent |-> 0, toServer |-> <<>>, toClient |-> <<>>]

Init ==
  /\ listening = TRUE
  /\ m_connections = {}
  /\ object = [c \in Connections |-> "none"]
  /\ proxy = [c \in Connections |-> NewProxy]

\* The object exists: its handlers may be called.
Exists(c) == object[c] \in {"alive", "deleting"}

-----------------------------------------------------------------------------
(* VncProxyServer                                                          *)

\* The connection is the first of a new client; its socket to the VNC server is opened.
acceptConnection(c) ==
  /\ listening /\ object[c] = "none"
  /\ object' = [object EXCEPT ![c] = "alive"]
  /\ m_connections' = m_connections \cup {c}
  /\ UNCHANGED <<listening, proxy>>

\* Mutant: the connection is only taken from the list.
closeConnection_kept(c) ==
  /\ m_connections' = m_connections \ {c}
  /\ UNCHANGED object

\* Called for each of the two sockets that is disconnected.
closeConnection(c) ==
  /\ object' = [object EXCEPT ![c] = "deleting"]
  /\ m_connections' = m_connections \ {c}

\* The event loop runs what deleteLater() has posted.  A socket that is still open calls
\* closeConnection() once more as it is deleted: the connection is not in the list any
\* more, and what is posted then goes with the object.
deleteConnection(c) ==
  /\ object[c] = "deleting"
  /\ object' = [object EXCEPT ![c] = "deleted"]
  /\ m_connections' = m_connections \ {c}
  /\ UNCHANGED <<listening, proxy>>

\* removeAll() moves up what is behind c in the list; the place that gets free keeps
\* what it held.
removeAll(memory, c) ==
  LET from == {i \in 1..memory.size : memory.slots[i] = c} IN
  IF from = {} THEN memory
  ELSE [slots |-> [i \in DOMAIN memory.slots |->
                     IF i \in Min(from)..(memory.size - 1) THEN memory.slots[i + 1]
                     ELSE memory.slots[i]],
        size  |-> memory.size - 1]

\* The connections the loop of stop() deletes, one after the other: it goes on over the
\* memory of the list, from which closeConnection() takes each as its open socket is
\* deleted.
deletions(list) ==
  LET memory[i \in 1..Len(list)] ==
        IF i = 1 THEN [slots |-> list, size |-> Len(list)]
        ELSE removeAll(memory[i - 1], memory[i - 1].slots[i - 1])
  IN [i \in 1..Len(list) |-> memory[i].slots[i]]

\* The server is being deleted, and takes with it the connections the loop has skipped;
\* with three or more open it has deleted one twice, which is undefined.  The order of
\* the list matters only here: it is any order.
stop ==
  /\ listening
  /\ listening' = FALSE
  /\ \E list \in SetToSeqs(m_connections) :
       object' = [c \in Connections |->
                    IF object[c] = "none" THEN "none"
                    ELSE IF Cardinality({i \in DOMAIN list : deletions(list)[i] = c}) > 1
                    THEN "deletedTwice" ELSE "deleted"]
  /\ m_connections' = {}
  /\ UNCHANGED proxy

-----------------------------------------------------------------------------
(* The two handshakes                                                      *)

After(state, protocol) == protocol[1 + CHOOSE i \in DOMAIN protocol : protocol[i] = state]

\* VncServerClient::protocolState()
protocolState(p) == IF p.closing THEN "Close" ELSE p.serverProtocol

\* VncServerProtocol::read(): what the state waits for is there.
serverProtocolReads(p) ==
  CASE p.serverProtocol = "AccessControl" -> p.granted
    [] p.serverProtocol = "FramebufferInit" ->
         p.clientBuffer # <<>> /\ p.clientProtocol = "Running"
    [] p.serverProtocol = "Running" -> FALSE
    [] OTHER -> p.clientBuffer # <<>>

serverProtocolRead(p) ==
  IF protocolState(p) = "Close" THEN [p EXCEPT !.clientSocket = "closed"]
  ELSE IF ~ serverProtocolReads(p) THEN p
  ELSE [p EXCEPT !.serverProtocol = After(@, ServerProtocol),
                 !.clientBuffer = IF p.serverProtocol = "AccessControl" THEN @ ELSE Tail(@)]

\* while( serverProtocol().read() ); a client has at most one message of the handshake
\* on the way, so that at most three states end in one call.
serverProtocolLoop(p) == serverProtocolRead(serverProtocolRead(serverProtocolRead(p)))

\* VncClientProtocol::read(), in a loop that reads the one message there is.
clientProtocolLoop(p) ==
  IF p.serverBuffer = <<>> THEN p
  ELSE [p EXCEPT !.clientProtocol = After(@, ClientProtocol), !.serverBuffer = Tail(@)]

-----------------------------------------------------------------------------
(* VncProxyConnection                                                      *)

Ends(buffer) == {i \in DOMAIN buffer : buffer[i].last}

\* Those of the first n elements of s that are in S, in the order they have there.
Only(s, n, S) ==
  LET only[i \in 0..Len(s)] ==
        IF i = 0 THEN <<>>
        ELSE IF s[i] \in S THEN Append(only[i - 1], s[i]) ELSE only[i - 1]
  IN only[n]

\* The numbers of the messages that end in the first n pieces.
Messages(pieces, n) ==
  LET last == Only(pieces, n, [message : Nat, last : {TRUE}]) IN
  [i \in DOMAIN last |-> last[i].message]

Rest(buffer, n) == SubSeq(buffer, n + 1, Len(buffer))

\* receiveClientMessage() consumes the message but returns false: the VNC server cannot
\* be written to, or no plugin has handled the feature message.
EndsLoop(p, message) ==
  \/ p.clientSent[message] = "rfb" /\ p.serverSocket # "open"
  \/ p.clientSent[message] = "unhandled"

\* Those of the client's messages that are for the VNC server.
Forward(p, messages) ==
  Only(messages, Len(messages), {n \in DOMAIN p.clientSent : p.clientSent[n] = "rfb"})

\* while( receiveClientMessage() ): whole messages only.
receiveClientMessages(p) ==
  LET ends  == Ends(p.clientBuffer)
      final == {i \in ends : EndsLoop(p, p.clientBuffer[i].message)}
      n     == IF final # {} THEN Min(final) ELSE IF ends # {} THEN Max(ends) ELSE 0
  IN [p EXCEPT !.clientBuffer = Rest(@, n),
               !.toServer = IF p.serverSocket = "open"
                            THEN @ \o Forward(p, Messages(p.clientBuffer, n))
                            ELSE @]

\* Mutant: a piece is forwarded like a message.
receiveServerMessages_pieces(p) ==
  [p EXCEPT !.serverBuffer = <<>>,
            !.toClient = @ \o [i \in DOMAIN p.serverBuffer |-> p.serverBuffer[i].message]]

\* while( receiveServerMessage() )
receiveServerMessages(p) ==
  LET ends == Ends(p.serverBuffer)
      n    == IF ends # {} THEN Max(ends) ELSE 0
  IN [p EXCEPT !.serverBuffer = Rest(@, n),
               !.toClient = IF p.clientSocket = "open"
                            THEN @ \o Messages(p.serverBuffer, n) ELSE @]

\* Mutant: the handshake goes on only when the client sends something.
readFromClientLater_never(p) == p

readFromClientLater(p) == [p EXCEPT !.clientTimers = @ + 1]

\* Mutant: nothing reads what has come during the handshake.
readFromServerLater_never(p) == p

readFromServerLater(p) == [p EXCEPT !.serverTimers = @ + 1]

readFromClient(p) ==
  IF protocolState(p) # "Running" THEN readFromClientLater(serverProtocolLoop(p))
  ELSE IF p.clientProtocol = "Running" THEN receiveClientMessages(p)
  ELSE readFromClientLater(p)

readFromServer(p) ==
  IF p.clientProtocol # "Running"
  THEN LET q == clientProtocolLoop(p) IN
       IF q.clientProtocol = "Running" THEN readFromServerLater(q) ELSE q
  ELSE IF protocolState(p) = "Running" THEN receiveServerMessages(p)
  ELSE readFromServerLater(p)

\* A socket has been closed: disconnected() is emitted.
Disconnects(p, q) ==
  \E socket \in {"clientSocket", "serverSocket"} : p[socket] = "open" /\ q[socket] = "closed"

Handle(c, p) ==
  /\ Exists(c)
  /\ proxy' = [proxy EXCEPT ![c] = p]
  /\ IF Disconnects(proxy[c], p) THEN closeConnection(c) ELSE UNCHANGED <<m_connections, object>>
  /\ UNCHANGED listening

\* QTcpSocket reports pieces that have arrived.
clientReadyRead(c) ==
  LET p == proxy[c] IN
  /\ p.clientSocket = "open"
  /\ \E n \in 1..Len(p.clientWire) :
       Handle(c, readFromClient([p EXCEPT !.clientWire = Rest(@, n),
                                          !.clientBuffer = @ \o SubSeq(p.clientWire, 1, n)]))

serverReadyRead(c) ==
  LET p == proxy[c] IN
  /\ p.serverSocket = "open"
  /\ \E n \in 1..Len(p.serverWire) :
       Handle(c, readFromServer([p EXCEPT !.serverWire = Rest(@, n),
                                          !.serverBuffer = @ \o SubSeq(p.serverWire, 1, n)]))

clientTimeout(c) ==
  /\ proxy[c].clientTimers > 0
  /\ Handle(c, readFromClient([proxy[c] EXCEPT !.clientTimers = @ - 1]))

serverTimeout(c) ==
  /\ proxy[c].serverTimers > 0
  /\ Handle(c, readFromServer([proxy[c] EXCEPT !.serverTimers = @ - 1]))

\* The client leaves, or is turned away in the handshake or for a message that is not
\* valid; the VNC server closes its socket, or sends what is not valid.
disconnected(c, socket) ==
  /\ proxy[c][socket] = "open"
  /\ Handle(c, [proxy[c] EXCEPT ![socket] = "closed"])

-----------------------------------------------------------------------------
(* The VNC server and the client (external)                                *)

\* No signal is connected to the error of a connection that is refused.
vncServerConnects(c) ==
  /\ proxy[c].serverSocket = "connecting"
  /\ \E outcome \in {"open", "refused"} : Handle(c, [proxy[c] EXCEPT !.serverSocket = outcome])

grantAccess(c) ==
  /\ proxy[c].serverProtocol \in {"Authenticating", "AccessControl"} /\ ~ proxy[c].granted
  /\ Handle(c, [proxy[c] EXCEPT !.granted = TRUE])

\* A check that is made again because another client has left, or an answer of the
\* dialog that comes later: setProtocolState( Close ) and nothing else.
revokeAccess(c) ==
  /\ proxy[c].serverProtocol \in {"AccessControl", "FramebufferInit", "Running"}
  /\ ~ proxy[c].closing
  /\ Handle(c, [proxy[c] EXCEPT !.closing = TRUE])

HandshakePiece == <<[message |-> 0, last |-> TRUE]>>

MessagePieces(n) == [i \in 1..Pieces |-> [message |-> n, last |-> i = Pieces]]

\* Each side answers a message of the handshake when it has come; the last answer of
\* the client is not read before access control lets it pass.
clientShakesHands(c) ==
  LET p == proxy[c] IN
  /\ p.clientSocket = "open" /\ p.serverProtocol # "Running"
  /\ p.clientWire = <<>> /\ p.clientBuffer = <<>>
  /\ Handle(c, [p EXCEPT !.clientWire = HandshakePiece])

serverShakesHands(c) ==
  LET p == proxy[c] IN
  /\ p.serverSocket = "open" /\ p.clientProtocol # "Running"
  /\ p.serverWire = <<>> /\ p.serverBuffer = <<>>
  /\ Handle(c, [p EXCEPT !.serverWire = HandshakePiece])

clientSends(c) ==
  LET p == proxy[c] IN
  /\ p.clientSocket = "open" /\ p.serverProtocol = "Running"
  /\ Len(p.clientSent) + p.serverSent < MaxMessages
  /\ \E kind \in Kinds :
       Handle(c, [p EXCEPT !.clientSent = Append(@, kind),
                           !.clientWire = @ \o MessagePieces(Len(p.clientSent) + 1)])

serverSends(c) ==
  LET p == proxy[c] IN
  /\ p.serverSocket = "open" /\ p.clientProtocol = "Running"
  /\ Len(p.clientSent) + p.serverSent < MaxMessages
  /\ Handle(c, [p EXCEPT !.serverSent = @ + 1,
                         !.serverWire = @ \o MessagePieces(p.serverSent + 1)])

-----------------------------------------------------------------------------

Peers(c) ==
  \/ vncServerConnects(c) \/ grantAccess(c) \/ revokeAccess(c)
  \/ clientShakesHands(c) \/ serverShakesHands(c) \/ clientSends(c) \/ serverSends(c)

Next ==
  \/ stop
  \/ \E c \in Connections : acceptConnection(c)
  \/ \E c \in Connections \ Silent :
       \/ deleteConnection(c)
       \/ clientReadyRead(c) \/ serverReadyRead(c) \/ clientTimeout(c) \/ serverTimeout(c)
       \/ disconnected(c, "clientSocket") \/ disconnected(c, "serverSocket")
       \/ Peers(c)

Spec == Init /\ [][Next]_vars

\* The event loop runs what is due, and each side goes on with its handshake; nobody
\* has to send a message.
Fairness ==
  \A c \in Connections \ Silent :
    /\ WF_vars(deleteConnection(c))
    /\ WF_vars(clientReadyRead(c)) /\ WF_vars(serverReadyRead(c))
    /\ WF_vars(clientTimeout(c)) /\ WF_vars(serverTimeout(c))
    /\ WF_vars(vncServerConnects(c)) /\ WF_vars(grantAccess(c))
    /\ WF_vars(clientShakesHands(c)) /\ WF_vars(serverShakesHands(c))

FairSpec == Spec /\ Fairness

-----------------------------------------------------------------------------
(* Properties                                                              *)

TypeOK ==
  /\ listening \in BOOLEAN
  /\ m_connections = {c \in Connections : object[c] = "alive"}
  /\ object \in [Connections -> State]
  /\ proxy \in [Connections -> Proxy]

Closed(c) == ~ Exists(c) \/ "closed" \in {proxy[c].clientSocket, proxy[c].serverSocket}

\* Each side gets the other's messages whole, in order and each once, however they were
\* cut into pieces and whichever of the readers was called by a timer or by data
\* (VncProxyConnection::readFromClient(), readFromServer()).
StreamsAreExact ==
  \A c \in Connections :
    LET p == proxy[c] IN
    /\ IsPrefix(p.toServer, Forward(p, [n \in 1..Len(p.clientSent) |-> n]))
    /\ IsPrefix(p.toClient, [n \in 1..p.serverSent |-> n])

\* The two handshakes wait for each other and for access control without anything coming
\* in; both end, unless the VNC server is not there or a socket is closed, as it is when
\* access is revoked before the client is served (readFromClientLater(), readFromServer(),
\* VncServerProtocol::read()).
HandshakesEnd ==
  \A c \in Connections \ Silent :
    object[c] = "alive" ~>
      \/ proxy[c].serverProtocol = "Running" /\ proxy[c].clientProtocol = "Running"
      \/ proxy[c].serverSocket = "refused" \/ Closed(c)

ClientMessages(c, kind) ==
  {n \in DOMAIN proxy[c].clientSent : proxy[c].clientSent[n] = kind}

\* A message reaches the other side also when it came during the handshake with it and
\* nothing comes after it (readFromServerLater()).  One of the VNC server's is not
\* forwarded once access has been revoked; one of the client's then has the connection
\* closed, and else arrives unless one before it was a feature message nobody handles
\* (receiveClientMessage(), ComputerControlServer::handleFeatureMessage()).
MessagesArrive ==
  \A c \in Connections \ Silent : \A n \in 1..MaxMessages :
    /\ proxy[c].serverSent >= n ~>
         n \in Range(proxy[c].toClient) \/ Closed(c) \/ proxy[c].closing
    /\ n \in ClientMessages(c, "rfb") ~>
         \/ n \in Range(proxy[c].toServer) \/ Closed(c)
         \/ ClientMessages(c, "unhandled") \cap 1..(n-1) # {}

\* When either socket is closed the connection is deleted in the end, and once, even if
\* the server is stopped before (VncProxyServer::closeConnection(), stop()).
ClosedIsDeleted ==
  \A c \in Connections \ Silent :
    "closed" \in {proxy[c].clientSocket, proxy[c].serverSocket} ~> object[c] = "deleted"

=============================================================================
