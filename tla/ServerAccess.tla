----------------------------- MODULE ServerAccess -----------------------------
(***************************************************************************)
(* The access path of the Veyon service: the RFB server protocol of every  *)
(* incoming connection (VncServerProtocol, VncServerClient), its           *)
(* authentication (ServerAuthenticationManager), the access control every  *)
(* client has to pass (ServerAccessControlManager) with the consent dialog *)
(* shown to the local user (DesktopAccessDialog) by a worker process, and  *)
(* the life of the connection objects (VncProxyServer, ComputerControl-    *)
(* Client).                                                                *)
(*                                                                         *)
(* All of this code runs on the main thread, so an action is one event     *)
(* handler.  The exception is the loop of removeClient(), whose iterations *)
(* are steps of their own; no other handler runs until it is finished.     *)
(* Message payloads, keys and passwords are abstracted to the result of    *)
(* their check.                                                            *)
(***************************************************************************)
EXTENDS AccessControlProvider, SequencesExt

CONSTANTS
  Clients,              \* connection objects; an object is reused once deleted
  Peers,                \* the accessing identities, pairs <<user, host address>>
  AuthenticationMethod, \* configured method: "KeyFile" or "Logon"
  TokenCredentials,     \* TRUE iff the server process holds token credentials
  AccessMethods,        \* enabled access control methods
  Rules,                \* the configured access control rules
  Sessions,             \* the local sessions the conditions may see
  WorkerCrashes         \* TRUE iff the dialog's worker process may die

ASSUME ServerAccessAssumption ==
  /\ Peers \subseteq Users \X Computers
  /\ NoName \notin Peers
  /\ AuthenticationMethod \in {"KeyFile", "Logon"}
  /\ TokenCredentials \in BOOLEAN
  /\ AccessMethods \in SUBSET Methods
  /\ Rules \in Seq(AccessControlRule)
  /\ Sessions \subseteq Session
  /\ WorkerCrashes \in BOOLEAN

VARIABLES
  \* VncServerClient, one per connection
  protocolState, authState, authType, accessControlState,
  peer,             \* m_username and m_hostAddress, NoName until set
  \* VncProxyConnection and VncProxyServer
  socket,           \* the client socket: "none" iff the object does not exist
  deleting,         \* objects deleteLater() has been called for
  serverInit,       \* connections whose VNC server sent its init message
  \* ServerAccessControlManager
  m_clients, m_desktopAccessChoices,
  previousClients,  \* rest of the list removeClient() iterates over
  \* DesktopAccessDialog
  worker,           \* the dialog's worker: "none", "starting" or "asking"
  request,          \* the peer the last exec() asked for
  abortTimer,       \* TRUE iff the abort timer is active
  listening,        \* clients connected to finished(), in connection order
  \* the environment
  session,          \* the local session
  \* history
  checkedIn,        \* session of the client's last access check
  consented,        \* peers the dialog asked for when its worker reported consent
  vouched,          \* peers the dialog asked for when a served client reported it
  answered          \* clients admitted by a report and not checked again since

clientVars   == <<protocolState, authState, authType, accessControlState, peer>>
connVars     == <<socket, deleting, serverInit>>
dialogVars   == <<worker, request, abortTimer, listening>>
historyVars  == <<checkedIn, consented, vouched, answered>>
vars == <<clientVars, connVars, m_clients, m_desktopAccessChoices,
          previousClients, dialogVars, session, historyVars>>

State ==
  { "Disconnected", "Protocol", "SecurityInit", "AuthenticationTypes",
    "Authenticating", "AccessControl", "FramebufferInit", "Running", "Close" }

AuthState == {"Init", "Challenge", "Password", "Token", "Successful", "Failed"}

AuthType == {"Invalid", "KeyFile", "Logon", "Token"}

AccessControlState == {"Init", "Successful", "Pending", "Waiting", "Failed"}

Choice == {"ChoiceNone", "ChoiceYes", "ChoiceNo", "ChoiceAlways", "ChoiceNever"}

Client(c) == socket[c] # "none"

-----------------------------------------------------------------------------
Init ==
  /\ protocolState = [c \in Clients |-> "Disconnected"]
  /\ authState = [c \in Clients |-> "Init"]
  /\ authType = [c \in Clients |-> "Invalid"]
  /\ accessControlState = [c \in Clients |-> "Init"]
  /\ peer = [c \in Clients |-> NoName]
  /\ socket = [c \in Clients |-> "none"]
  /\ deleting = {}
  /\ serverInit = {}
  /\ m_clients = <<>>
  /\ m_desktopAccessChoices = [p \in Peers |-> "ChoiceNone"]
  /\ previousClients = <<>>
  /\ worker = "none"
  /\ request = NoName
  /\ abortTimer = FALSE
  /\ listening = <<>>
  /\ session \in Sessions
  /\ checkedIn = [c \in Clients |-> session]
  /\ consented = {}
  /\ vouched = {}
  /\ answered = {}

\* Handlers run to completion: nothing else is dispatched inside removeClient().
Idle == previousClients = <<>>

-----------------------------------------------------------------------------
(* ServerAccessControlManager and DesktopAccessDialog                      *)

usersOf(clients) == {peer[clients[i]][1] : i \in DOMAIN clients}

\* Mutant: removeClient() does not clear m_clients before its loop.
connectedUsers_notCleared == usersOf(m_clients \o previousClients)

connectedUsers == usersOf(m_clients)

CheckAccess(c) ==
  checkAccess(AccessMethods, Rules,
              [ user |-> peer[c][1], computer |-> peer[c][2],
                session |-> session, connected |-> connectedUsers ])

\* Mutant: no check whether the dialog is busy.
confirmDesktopAccess_busyIgnored(c) ==
  LET remembered == m_desktopAccessChoices[peer[c]]
  IN  CASE remembered = "ChoiceAlways" -> "Successful"
        [] remembered = "ChoiceNone"   -> "Pending"
        [] OTHER                       -> "Failed"

\* A remembered choice decides; otherwise ask, unless the dialog is busy, which
\* isBusy() reads off the worker.
confirmDesktopAccess(c) ==
  LET remembered == m_desktopAccessChoices[peer[c]]
  IN  CASE remembered = "ChoiceAlways" -> "Successful"
        [] remembered \notin {"ChoiceNone", "ChoiceAlways"} -> "Failed"
        [] remembered = "ChoiceNone" /\ worker # "none" -> "Waiting"
        [] OTHER -> "Pending"

performAccessControl(c) ==
  LET access == CheckAccess(c)
  IN  CASE access = "Allow"         -> "Successful"
        [] access = "ToBeConfirmed" -> confirmDesktopAccess(c)
        [] OTHER                    -> "Failed"

HasAccessCheck(c) == authType[c] \in {"KeyFile", "Logon"}

\* The state addClient() gives the client.
AccessResult(c) ==
  CASE HasAccessCheck(c)       -> performAccessControl(c)
    [] authType[c] = "Token"   -> "Successful"
    [] OTHER                   -> "Failed"

\* performAccessControl() marks a client the rules deny for closing; a remembered
\* "never" does not.
DeniedByRules(c) == HasAccessCheck(c) /\ CheckAccess(c) = "Deny"

\* Mutant: the user's and the host's arguments are swapped.
exec_argumentsSwapped(c) ==
  /\ worker' = "starting"
  /\ request' = <<peer[c][2], peer[c][1]>>
  /\ abortTimer' = TRUE

\* Mutant: the abort timer is not started.
exec_noTimer(c) ==
  /\ worker' = "starting"
  /\ request' = peer[c]
  /\ UNCHANGED abortTimer

\* exec() restarts the dialog's worker, queues the request and starts the timer.
exec(c) ==
  /\ worker' = "starting"
  /\ request' = peer[c]
  /\ abortTimer' = TRUE

\* addClient(): everything but the protocol state, which its callers set as well.
addClient(c) ==
  LET result == AccessResult(c)
  IN  /\ accessControlState' = [accessControlState EXCEPT ![c] = result]
      /\ m_clients' = IF result = "Successful" THEN Append(m_clients, c) ELSE m_clients
      /\ IF result = "Pending"
         THEN exec(c) /\ listening' = Append(listening, c)
         ELSE UNCHANGED dialogVars
      /\ checkedIn' = [checkedIn EXCEPT ![c] = session]
      /\ answered' = answered \ {c}
      /\ UNCHANGED <<consented, vouched>>

\* Mutant: the helper connections are kept.
remainingListeners_kept == listening

\* The helper connections are broken before the choice is evaluated.
remainingListeners == <<>>

Accepting == {"ChoiceYes", "ChoiceAlways"}

\* finishDesktopAccessConfirmation() for every client connected to finished(), in
\* the order in which they were connected.
finished(choice) ==
  LET notified == Range(listening)
      accepted == choice \in Accepting
  IN  /\ m_desktopAccessChoices' =
           [p \in Peers |->
              IF /\ choice \in {"ChoiceAlways", "ChoiceNever"}
                 /\ \E c \in notified : peer[c] = p
              THEN choice ELSE m_desktopAccessChoices[p]]
      /\ accessControlState' =
           [c \in Clients |-> IF c \notin notified THEN accessControlState[c]
                              ELSE IF accepted THEN "Successful" ELSE "Failed"]
      /\ protocolState' =
           [c \in Clients |-> IF c \in notified /\ ~ accepted
                              THEN "Close" ELSE protocolState[c]]
      /\ m_clients' = IF accepted THEN m_clients \o listening ELSE m_clients
      /\ listening' = remainingListeners
      /\ answered' = IF accepted THEN answered \cup notified ELSE answered
      /\ UNCHANGED checkedIn

\* What the dialog of this version returns: Yes is remembered, No is not.
requestDesktopAccess == {"ChoiceAlways", "ChoiceNo"}

\* The worker's init message arrives and the pending request is sent to it.
workerConnected ==
  /\ Idle
  /\ worker = "starting"
  /\ worker' = "asking"
  /\ UNCHANGED <<clientVars, connVars, m_clients, m_desktopAccessChoices,
                 previousClients, request, abortTimer, listening, session,
                 historyVars>>

\* handleFeatureMessage(): the choice counts for whoever waits, the worker is
\* stopped even if it has not connected yet.
reportDesktopAccessChoice(choice) ==
  /\ Idle
  /\ worker' = "none"
  /\ abortTimer' = FALSE
  /\ finished(choice)
  /\ UNCHANGED <<authState, authType, peer, connVars, previousClients, request,
                 session>>

\* The peer a reported choice is taken to admit, if anybody waits for it.
Admitted(choice) ==
  {p \in Peers : p = request /\ choice \in Accepting /\ listening # <<>>}

\* The local user has answered: the worker reports.
reportFromWorker(choice) ==
  /\ worker = "asking"
  /\ reportDesktopAccessChoice(choice)
  /\ consented' = consented \cup Admitted(choice)
  /\ UNCHANGED vouched

\* The message context is not looked at: the feature messages of a served client
\* reach the same handler.
reportFromClient(c, choice) ==
  /\ socket[c] = "open"
  /\ protocolState[c] = "Running"
  /\ reportDesktopAccessChoice(choice)
  /\ vouched' = vouched \cup Admitted(choice)
  /\ UNCHANGED consented

\* abort(): the dialog timeout expires.
abort ==
  /\ Idle
  /\ abortTimer
  /\ worker' = "none"
  /\ abortTimer' = FALSE
  /\ finished("ChoiceNone")
  /\ UNCHANGED <<authState, authType, peer, connVars, previousClients, request,
                 session, consented, vouched>>

\* The worker process ends without an answer: FeatureWorkerManager drops the
\* worker, and neither the timer nor the waiting client learns of it.
closeWorkerConnection ==
  /\ Idle
  /\ WorkerCrashes
  /\ worker = "asking"
  /\ worker' = "none"
  /\ UNCHANGED <<clientVars, connVars, m_clients, m_desktopAccessChoices,
                 previousClients, request, abortTimer, listening, session,
                 historyVars>>

-----------------------------------------------------------------------------
(* VncServerProtocol: one step of read() per message                       *)

ProtocolStep(c, from, to) ==
  /\ Idle
  /\ socket[c] = "open"
  /\ protocolState[c] = from
  /\ protocolState' = [protocolState EXCEPT ![c] = to]

unchangedByHandshake == <<accessControlState, deleting, serverInit, m_clients,
  m_desktopAccessChoices, previousClients, dialogVars, session, historyVars>>

readProtocol(c) ==
  /\ ProtocolStep(c, "Protocol", "SecurityInit")
  /\ UNCHANGED <<authState, authType, peer, socket, unchangedByHandshake>>

receiveSecurityTypeResponse(c) ==
  /\ ProtocolStep(c, "SecurityInit", "AuthenticationTypes")
  /\ UNCHANGED <<authState, authType, peer, socket, unchangedByHandshake>>

\* An invalid version, security type or authentication type closes the socket.
rejectHandshake(c) ==
  /\ Idle
  /\ socket[c] = "open"
  /\ protocolState[c] \in {"Protocol", "SecurityInit", "AuthenticationTypes"}
  /\ socket' = [socket EXCEPT ![c] = "closed"]
  /\ UNCHANGED <<clientVars, unchangedByHandshake>>

\* None is never offered, so the branch that skips authentication is dead code.
supportedAuthTypes ==
  {AuthenticationMethod} \cup (IF TokenCredentials THEN {"Token"} ELSE {})

FirstAuthState(type) ==
  CASE type = "KeyFile" -> "Challenge"
    [] type = "Logon"   -> "Password"
    [] type = "Token"   -> "Token"

\* The client chooses a type and names its user; the authentication is started
\* with an empty message, which fails if the challenge or key cannot be sent.
receiveAuthenticationTypeResponse(c, type, identity, sent) ==
  /\ ProtocolStep(c, "AuthenticationTypes", "Authenticating")
  /\ type \in supportedAuthTypes
  /\ authType' = [authType EXCEPT ![c] = type]
  /\ peer' = [peer EXCEPT ![c] = identity]
  /\ sent \/ type # "Token"
  /\ authState' = [authState EXCEPT ![c] = IF sent THEN FirstAuthState(type) ELSE "Failed"]
  /\ socket' = IF sent THEN socket ELSE [socket EXCEPT ![c] = "closed"]
  /\ UNCHANGED unchangedByHandshake

failAuthentication(c) ==
  /\ Idle
  /\ socket[c] = "open"
  /\ protocolState[c] = "Authenticating"
  /\ authState' = [authState EXCEPT ![c] = "Failed"]
  /\ socket' = [socket EXCEPT ![c] = "closed"]
  /\ UNCHANGED <<protocolState, authType, peer, unchangedByHandshake>>

\* What processAccessControl() makes of the access control state.
StateAfterAccessControl(result, denied) ==
  CASE result = "Successful"          -> "FramebufferInit"
    [] result = "Failed" /\ denied    -> "Close"
    [] OTHER                          -> "AccessControl"

\* A valid signature, password or token: read() goes on with access control.
receiveAuthenticationMessage(c) ==
  /\ Idle
  /\ socket[c] = "open"
  /\ protocolState[c] = "Authenticating"
  /\ authState[c] = FirstAuthState(authType[c])
  /\ authState' = [authState EXCEPT ![c] = "Successful"]
  /\ addClient(c)
  /\ protocolState' = [protocolState EXCEPT
       ![c] = StateAfterAccessControl(AccessResult(c), DeniedByRules(c))]
  /\ socket' = IF AccessResult(c) = "Failed"
               THEN [socket EXCEPT ![c] = "closed"] ELSE socket
  /\ UNCHANGED <<authType, peer, deleting, serverInit, m_desktopAccessChoices,
                 previousClients, session>>

\* A waiting client is checked again once ClientWaitInterval has passed; the
\* retry timer also fires for an object that is only waiting for its deletion.
retryAccessControl(c) ==
  /\ Idle
  /\ Client(c)
  /\ protocolState[c] = "AccessControl"
  /\ accessControlState[c] = "Waiting"
  /\ addClient(c)
  /\ protocolState' = [protocolState EXCEPT
       ![c] = StateAfterAccessControl(AccessResult(c), DeniedByRules(c))]
  /\ socket' = IF AccessResult(c) = "Failed"
               THEN [socket EXCEPT ![c] = "closed"] ELSE socket
  /\ UNCHANGED <<authState, authType, peer, deleting, serverInit,
                 m_desktopAccessChoices, previousClients, session>>

\* The dialog has admitted the client in the meantime.
passAccessControl(c) ==
  /\ Idle
  /\ Client(c)
  /\ protocolState[c] = "AccessControl"
  /\ accessControlState[c] = "Successful"
  /\ protocolState' = [protocolState EXCEPT ![c] = "FramebufferInit"]
  /\ UNCHANGED <<authState, authType, peer, socket, unchangedByHandshake>>

processFramebufferInit(c) ==
  /\ c \in serverInit
  /\ ProtocolStep(c, "FramebufferInit", "Running")
  /\ UNCHANGED <<authState, authType, peer, socket, unchangedByHandshake>>

readClose(c) ==
  /\ Idle
  /\ socket[c] = "open"
  /\ protocolState[c] = "Close"
  /\ socket' = [socket EXCEPT ![c] = "closed"]
  /\ UNCHANGED <<clientVars, unchangedByHandshake>>

-----------------------------------------------------------------------------
(* VncProxyServer, VncProxyConnection and ComputerControlClient            *)

acceptConnection(c) ==
  /\ Idle
  /\ ~ Client(c)
  /\ socket' = [socket EXCEPT ![c] = "open"]
  /\ protocolState' = [protocolState EXCEPT ![c] = "Protocol"]
  /\ UNCHANGED <<authState, authType, peer, unchangedByHandshake>>

\* readFromServer(): the handshake with the local VNC server is complete.
setServerInitMessage(c) ==
  /\ Idle
  /\ Client(c)
  /\ c \notin serverInit
  /\ serverInit' = serverInit \cup {c}
  /\ UNCHANGED <<clientVars, socket, deleting, m_clients, m_desktopAccessChoices,
                 previousClients, dialogVars, session, historyVars>>

\* Either socket is disconnected: by us, by the peer or by the VNC server.
closeConnection(c) ==
  /\ Idle
  /\ Client(c)
  /\ c \notin deleting
  /\ deleting' = deleting \cup {c}
  /\ UNCHANGED <<clientVars, socket, serverInit, m_clients, m_desktopAccessChoices,
                 previousClients, dialogVars, session, historyVars>>

\* Mutant: a deleted client stays on the list.
Without_nothing(clients, c) == clients

\* The list without the client (removeAll).
Without(clients, c) ==
  IF \E i \in DOMAIN clients : clients[i] = c
  THEN RemoveAt(clients, CHOOSE i \in DOMAIN clients : clients[i] = c)
  ELSE clients

\* ~ComputerControlClient() and the head of removeClient(): all other members
\* are taken off the list to pass access control again.
deleteClient(c) ==
  /\ Idle
  /\ c \in deleting
  /\ m_clients' = <<>>
  /\ previousClients' = Without(m_clients, c)
  /\ listening' = Without(listening, c)
  /\ protocolState' = [protocolState EXCEPT ![c] = "Disconnected"]
  /\ authState' = [authState EXCEPT ![c] = "Init"]
  /\ authType' = [authType EXCEPT ![c] = "Invalid"]
  /\ accessControlState' = [accessControlState EXCEPT ![c] = "Init"]
  /\ peer' = [peer EXCEPT ![c] = NoName]
  /\ socket' = [socket EXCEPT ![c] = "none"]
  /\ deleting' = deleting \ {c}
  /\ serverInit' = serverInit \ {c}
  /\ answered' = answered \ {c}
  /\ UNCHANGED <<m_desktopAccessChoices, worker, request, abortTimer, session,
                 checkedIn, consented, vouched>>

\* Mutant: a client that has to wait for the busy dialog stays connected.
staysConnected_waiting(result) == result \in {"Successful", "Pending", "Waiting"}

staysConnected(result) == result \in {"Successful", "Pending"}

\* One iteration of the loop in removeClient().
recheckClient ==
  /\ ~ Idle
  /\ LET c == Head(previousClients)
     IN  /\ addClient(c)
         /\ protocolState' =
              IF staysConnected(AccessResult(c)) THEN protocolState
              ELSE [protocolState EXCEPT ![c] = "Close"]
  /\ previousClients' = Tail(previousClients)
  /\ UNCHANGED <<authState, authType, peer, connVars, m_desktopAccessChoices,
                 session>>

\* A user logs on or off.
changeSession ==
  /\ Idle
  /\ \E s \in Sessions \ {session} : session' = s
  /\ UNCHANGED <<clientVars, connVars, m_clients, m_desktopAccessChoices,
                 previousClients, dialogVars, historyVars>>

-----------------------------------------------------------------------------
ClientStep(c) ==
  \/ acceptConnection(c)
  \/ readProtocol(c)
  \/ receiveSecurityTypeResponse(c)
  \/ rejectHandshake(c)
  \/ \E type \in supportedAuthTypes, identity \in Peers, sent \in BOOLEAN :
       receiveAuthenticationTypeResponse(c, type, identity, sent)
  \/ failAuthentication(c)
  \/ receiveAuthenticationMessage(c)
  \/ retryAccessControl(c)
  \/ passAccessControl(c)
  \/ processFramebufferInit(c)
  \/ readClose(c)
  \/ setServerInitMessage(c)
  \/ closeConnection(c)
  \/ deleteClient(c)
  \/ \E choice \in Choice : reportFromClient(c, choice)

DialogStep ==
  \/ workerConnected
  \/ \E choice \in requestDesktopAccess : reportFromWorker(choice)
  \/ abort
  \/ closeWorkerConnection

Next ==
  \/ \E c \in Clients : ClientStep(c)
  \/ DialogStep
  \/ recheckClient
  \/ changeSession

Spec == Init /\ [][Next]_vars

\* Timers fire and posted deletions are executed; what the peer sends is not
\* assumed.  The retry timer runs until the protocol is Running, the loop of
\* removeClient() ends, the abort timer is a single-shot timer.
Fairness ==
  /\ WF_vars(recheckClient)
  /\ WF_vars(abort)
  /\ \A c \in Clients :
       /\ WF_vars(retryAccessControl(c))
       /\ WF_vars(socket[c] = "closed" /\ closeConnection(c))
       /\ WF_vars(deleteClient(c))

FairSpec == Spec /\ Fairness

-----------------------------------------------------------------------------
(* Safety                                                                  *)

TypeOK ==
  /\ protocolState \in [Clients -> State]
  /\ authState \in [Clients -> AuthState]
  /\ authType \in [Clients -> AuthType]
  /\ accessControlState \in [Clients -> AccessControlState]
  /\ peer \in [Clients -> Peers \cup {NoName}]
  /\ socket \in [Clients -> {"none", "open", "closed"}]
  /\ deleting \subseteq Clients
  /\ serverInit \subseteq Clients
  /\ m_clients \in Seq(Clients)
  /\ m_desktopAccessChoices \in [Peers -> Choice]
  /\ previousClients \in Seq(Clients)
  /\ worker \in {"none", "starting", "asking"}
  /\ request \in Peers \cup {NoName}
  /\ abortTimer \in BOOLEAN
  /\ listening \in Seq(Clients)
  /\ session \in Sessions
  /\ checkedIn \in [Clients -> Sessions]
  /\ consented \subseteq Peers
  /\ vouched \subseteq Peers
  /\ answered \subseteq Clients

\* The list of clients the server counts as connected names exactly the existing
\* clients that passed access control, each once: no deleted object is left in
\* it and no admitted client is missing, so that connectedUsers() and the next
\* re-check see everybody.  During a re-check the rest of the old list counts.
MembersAreAdmitted ==
  LET members == m_clients \o previousClients
  IN  /\ Range(members) = {c \in Clients : accessControlState[c] = "Successful"}
      /\ IsInjective(members)
      /\ \A c \in Range(members) : Client(c)

\* A client whose protocol serves the screen has authenticated and passed access
\* control; after a re-check it may at most wait for the local user's answer.
ViewersPassedAccessControl ==
  \A c \in Clients :
    protocolState[c] \in {"FramebufferInit", "Running"} =>
      /\ authState[c] = "Successful"
      /\ accessControlState[c] \in {"Successful", "Pending"}

UsersBefore(i) == {peer[m_clients[j]][1] : j \in 1..(i-1)}

\* Every client on the list that needs an access check is there because of a
\* remembered consent, because of an answer to its own question since its last
\* check, or because the rules allow it given only the members before it: after a
\* connection closes nobody keeps an admission that rested on the user who left.
MembershipIsJustified ==
  \A i \in DOMAIN m_clients :
    LET c == m_clients[i]
    IN  HasAccessCheck(c) =>
          \/ m_desktopAccessChoices[peer[c]] = "ChoiceAlways"
          \/ c \in answered
          \/ checkAccess(AccessMethods, Rules,
               [ user |-> peer[c][1], computer |-> peer[c][2],
                 session |-> checkedIn[c], connected |-> UsersBefore(i) ]) = "Allow"

\* Whoever waits for the dialog will get an answer: the clients connected to
\* finished() are exactly the pending ones, and while there is one, or while the
\* dialog counts as busy, the abort timer is running.
PendingIsDecided ==
  /\ Range(listening) = {c \in Clients : accessControlState[c] = "Pending"}
  /\ \A c \in Range(listening) : Client(c)
  /\ listening # <<>> \/ worker # "none" => abortTimer

\* A consent counts only for the user and the host the dialog was asking for when
\* it was reported, whether it is remembered or admits a client once: no answer
\* is taken for another client's.  That the local user gave it is not promised: a
\* served client may have reported it (vouched) instead of the dialog's worker.
ConsentIsOwn ==
  /\ \A p \in Peers :
       m_desktopAccessChoices[p] = "ChoiceAlways" => p \in consented \cup vouched
  /\ \A c \in answered : peer[c] \in consented \cup vouched

\* Access control waits for all connections but the one the dialog is active for
\* (comment in performAccessControl()).
OnlyOnePending ==
  Cardinality({c \in Clients : accessControlState[c] = "Pending"}) <= 1

-----------------------------------------------------------------------------
(* Action properties                                                       *)

\* No client gets past access control without an allowing rule or the answer of
\* the local user: the step that lets it in finds it authenticated and admitted.
NoViewBeforeAdmission ==
  [][\A c \in Clients :
       protocolState'[c] \in {"FramebufferInit", "Running"} =>
         \/ protocolState[c] \in {"FramebufferInit", "Running"}
         \/ authState'[c] = "Successful" /\ accessControlState'[c] = "Successful"]_vars

\* A refused client is never admitted on the same connection: neither a later
\* re-check nor an answer of the local user revives it.
RefusalIsFinal ==
  [][\A c \in Clients :
       accessControlState[c] = "Failed" \/ protocolState[c] = "Close" =>
         \/ socket'[c] = "none"
         \/ /\ accessControlState'[c] = accessControlState[c]
            /\ protocolState'[c] \notin {"FramebufferInit", "Running"}]_vars

-----------------------------------------------------------------------------
(* Liveness                                                                *)

NoNewConnections == [][\A c \in Clients : ~ acceptConnection(c)]_vars

AwaitsAccessControl(c) ==
  \/ accessControlState[c] = "Pending"
  \/ accessControlState[c] = "Waiting" /\ protocolState[c] = "AccessControl"

\* Once no new connections arrive, nobody waits for access control forever,
\* whatever the peers send, even if the dialog is never answered or its worker
\* dies.  (With new connections it could: a waiting client polls, and the dialog
\* may be busy with somebody else at every poll.)
AccessControlEnds ==
  <>NoNewConnections => \A c \in Clients : []<>(~ AwaitsAccessControl(c))

=============================================================================
