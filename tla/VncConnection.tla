------------------------------ MODULE VncConnection ------------------------------
(***************************************************************************)
(* The master's connection to one computer (core/src/VncConnection.cpp):   *)
(* a thread that connects, handles messages and reconnects, and the calls  *)
(* the user interface makes from the main thread.  The two share the state *)
(* and the flags, which are atomics, the event queue and the image.        *)
(*                                                                         *)
(* Every connection has an rfbClient of libvncclient, numbered from 1; 0   *)
(* is the null pointer.  A framebuffer is the client it belongs to and the *)
(* version of the remote screen it shows, 0 while it is blank.             *)
(***************************************************************************)
EXTENDS Integers, Sequences, FiniteSets, SequencesExt

CONSTANTS
  Sizes,        \* sizes of the scaled screen
  NoSize,       \* QSize()
  MaxClients,   \* bound on the connections in a behaviour
  MaxScreens,   \* bound on the versions of the remote screen
  MaxEvents     \* bound on the events

ASSUME VncConnectionAssumption ==
  /\ NoSize \notin Sizes
  /\ MaxClients \in Nat \ {0}
  /\ MaxScreens \in Nat \ {0}
  /\ MaxEvents \in Nat

VARIABLES
  \* shared by the two threads
  state,             \* m_state
  framebufferState,  \* m_framebufferState
  flags,             \* m_controlFlags
  client,            \* m_client
  tagged,            \* the client's VncConnectionTag is set
  queue,             \* m_eventQueue
  image,             \* m_image
  \* main thread
  mainStep,          \* what it is in the middle of
  scaledScreen,      \* m_scaledScreen
  scaledSize,        \* m_scaledSize
  repaint,           \* TRUE iff a signal makes the user interface ask for the screen
  \* connection thread
  step,              \* where it is
  attempt,           \* how far the last attempt to connect got
  watchdogElapsed,   \* m_framebufferUpdateWatchdog
  \* libvncclient and the server
  clients,           \* number of clients created
  open,              \* clients that have not been cleaned up
  requested,         \* the framebuffer update request on its way
  incoming,          \* the server's message on its way
  screen,            \* version of the remote screen
  \* history
  framed,            \* TRUE iff an earlier attempt to make this connection got a framebuffer
  enqueued,          \* number of events so far
  fired,             \* events that have been sent, in order
  restarts           \* clients of which a restart has been requested

sharedVars == <<state, framebufferState, flags, client, tagged, queue, image>>
mainVars == <<mainStep, scaledScreen, scaledSize, repaint>>
threadVars == <<step, attempt, watchdogElapsed>>
libraryVars == <<clients, open, requested, incoming, screen>>
historyVars == <<framed, enqueued, fired, restarts>>
vars == <<sharedVars, mainVars, threadVars, libraryVars, historyVars>>

State == {"Disconnected", "Connecting", "HostOffline", "ServiceUnreachable",
          "AuthenticationFailed", "ConnectionFailed", "Connected"}

ControlFlag == {"ScaledScreenNeedsUpdate", "ServerReachable", "TerminateThread",
                "RestartConnection"}

Client == 1..MaxClients

Framebuffer == [client : Client, version : 0..MaxScreens]

NoImage == [client |-> 0, version |-> 0]

ScaledScreen == [of : {NoImage} \cup Framebuffer, size : {NoSize} \cup Sizes]

NoScaledScreen == [of |-> NoImage, size |-> NoSize]

ServerMessage == [kind : {"none", "update", "resize"}, version : 0..MaxScreens]

NoMessage == [kind |-> "none", version |-> 0]

Terminating == "TerminateThread" \in flags

Init ==
  /\ state = "Disconnected"
  /\ framebufferState = "Invalid"
  /\ flags = {}
  /\ client = 0
  /\ tagged = FALSE
  /\ queue = <<>>
  /\ image = NoImage
  /\ mainStep = "idle"
  /\ scaledScreen = NoScaledScreen
  /\ scaledSize = NoSize
  /\ repaint = FALSE
  /\ step = "begin"
  /\ attempt = "none"
  /\ watchdogElapsed = FALSE
  /\ clients = 0
  /\ open = {}
  /\ requested = "none"
  /\ incoming = NoMessage
  /\ screen = 1
  /\ framed = FALSE
  /\ enqueued = 0
  /\ fired = <<>>
  /\ restarts = {}

-----------------------------------------------------------------------------
(* The main thread.  Whoever has stopped the connection forgets it.          *)

MainIdle == mainStep = "idle" /\ ~ Terminating

restart ==
  /\ MainIdle
  /\ flags' = flags \cup {"RestartConnection"}
  /\ restarts' = restarts \cup ({client} \ {0})
  /\ UNCHANGED <<state, framebufferState, client, tagged, queue, image, mainVars,
                 threadVars, libraryVars, framed, enqueued, fired>>

\* stop() takes the connection's hooks off the client before it sets the flag.
stop ==
  /\ MainIdle
  /\ tagged' = FALSE
  /\ scaledScreen' = NoScaledScreen
  /\ mainStep' = "terminate"
  /\ UNCHANGED <<state, framebufferState, flags, client, queue, image, scaledSize,
                 repaint, threadVars, libraryVars, historyVars>>

setTerminateThread ==
  /\ mainStep = "terminate"
  /\ flags' = flags \cup {"TerminateThread"}
  /\ mainStep' = "idle"
  /\ UNCHANGED <<state, framebufferState, client, tagged, queue, image, scaledScreen,
                 scaledSize, repaint, threadVars, libraryVars, historyVars>>

setScaledSize ==
  /\ MainIdle
  /\ \E size \in Sizes \ {scaledSize} : scaledSize' = size
  /\ flags' = flags \cup {"ScaledScreenNeedsUpdate"}
  /\ repaint' = TRUE
  /\ UNCHANGED <<state, framebufferState, client, tagged, queue, image, mainStep,
                 scaledScreen, threadVars, libraryVars, historyVars>>

\* scaledScreen(), which is asked for while the connection is up: the checks of
\* rescaleScreen(), the scaling, and the reset of the flag.
rescaleScreen ==
  /\ MainIdle
  /\ repaint
  /\ repaint' = FALSE
  /\ \/ /\ state = "Connected" /\ step # "finished"
        /\ framebufferState # "Valid" \/ scaledSize = NoSize
        /\ scaledScreen' = NoScaledScreen
        /\ UNCHANGED mainStep
     \/ /\ state = "Connected" /\ step # "finished"
        /\ framebufferState = "Valid" /\ scaledSize # NoSize
        /\ mainStep' = IF "ScaledScreenNeedsUpdate" \in flags THEN "scale" ELSE "idle"
        /\ UNCHANGED scaledScreen
     \/ /\ state # "Connected" \/ step = "finished"
        /\ UNCHANGED <<scaledScreen, mainStep>>
  /\ UNCHANGED <<sharedVars, scaledSize, threadVars, libraryVars, historyVars>>

scaleImage ==
  /\ mainStep = "scale"
  /\ scaledScreen' = [of |-> image, size |-> scaledSize]
  /\ mainStep' = "clear"
  /\ UNCHANGED <<sharedVars, scaledSize, repaint, threadVars, libraryVars, historyVars>>

clearNeedsUpdate ==
  /\ mainStep = "clear"
  /\ flags' = flags \ {"ScaledScreenNeedsUpdate"}
  /\ mainStep' = "idle"
  /\ UNCHANGED <<state, framebufferState, client, tagged, queue, image, scaledScreen,
                 scaledSize, repaint, threadVars, libraryVars, historyVars>>

\* enqueueEvent() looks at the state before it takes the queue's mutex.
checkConnected ==
  /\ MainIdle
  /\ enqueued < MaxEvents
  /\ state = "Connected"
  /\ mainStep' = "enqueue"
  /\ UNCHANGED <<sharedVars, scaledScreen, scaledSize, repaint, threadVars,
                 libraryVars, historyVars>>

enqueueEvent ==
  /\ mainStep = "enqueue"
  /\ enqueued' = enqueued + 1
  /\ queue' = Append(queue, enqueued')
  /\ mainStep' = "idle"
  /\ UNCHANGED <<state, framebufferState, flags, client, tagged, image, scaledScreen,
                 scaledSize, repaint, threadVars, libraryVars, framed, fired, restarts>>

-----------------------------------------------------------------------------
(* The connection thread: establishing the connection                      *)

\* A new connection answers every earlier request for a restart.
beginConnecting ==
  /\ step = "begin"
  /\ IF Terminating
     THEN /\ step' = "finished"
          /\ UNCHANGED <<state, flags, framebufferState, framed>>
     ELSE /\ step' = "prepare"
          /\ framed' = FALSE
          /\ state' = "Connecting"
          /\ flags' = flags \ {"RestartConnection"}
          /\ framebufferState' = "Invalid"
  /\ UNCHANGED <<client, tagged, queue, image, mainVars, attempt, watchdogElapsed,
                 libraryVars, enqueued, fired, restarts>>

\* Mutant: what is known about an earlier attempt is kept.
unreached_kept == flags

unreached == flags \ {"ServerReachable"}

prepareClient ==
  /\ step = "prepare"
  /\ IF Terminating
     THEN /\ step' = "close"
          /\ UNCHANGED <<client, tagged, flags, clients, open, attempt>>
     ELSE /\ clients < MaxClients
          /\ clients' = clients + 1
          /\ client' = clients'
          /\ open' = open \cup {clients'}
          /\ tagged' = TRUE
          /\ flags' = unreached
          /\ attempt' = "unreached"
          /\ step' = "connecting"
  /\ UNCHANGED <<state, framebufferState, queue, image, mainVars, watchdogElapsed,
                 requested, incoming, screen, historyVars>>

\* rfbInitClient(), the authentication hook: there is communication.
setServerReachable ==
  /\ step = "connecting" /\ attempt = "unreached"
  /\ flags' = IF tagged THEN flags \cup {"ServerReachable"} ELSE flags
  /\ attempt' = "reached"
  /\ UNCHANGED <<state, framebufferState, client, tagged, queue, image, mainVars,
                 step, watchdogElapsed, libraryVars, historyVars>>

\* rfbInitClient(), the framebuffer hook, which fails once the tag is gone.
hookInitFrameBuffer ==
  /\ step = "connecting" /\ attempt = "reached"
  /\ tagged
  /\ image' = [client |-> client, version |-> 0]
  /\ framebufferState' = "Initialized"
  /\ attempt' = "allocated"
  /\ UNCHANGED <<state, flags, client, tagged, queue, mainVars, step, watchdogElapsed,
                 libraryVars, historyVars>>

\* rfbInitClient() has succeeded and asked for the whole screen.
connectionEstablished ==
  /\ step = "connecting" /\ attempt = "allocated"
  /\ requested' = "full"
  /\ IF Terminating
     THEN /\ step' = "close"
          /\ client' = 0
          /\ UNCHANGED <<state, watchdogElapsed, framed>>
     ELSE /\ step' = "wait"
          /\ framed' = FALSE
          /\ state' = "Connected"
          /\ watchdogElapsed' = FALSE
          /\ UNCHANGED client
  /\ UNCHANGED <<framebufferState, flags, tagged, queue, image, mainVars, attempt,
                 clients, open, incoming, screen, enqueued, fired, restarts>>

\* Mutant: an unknown reason is not told.
FailedState_none ==
  IF "ServerReachable" \notin flags THEN {"HostOffline", "ServiceUnreachable"}
  ELSE IF framebufferState = "Invalid" THEN {"AuthenticationFailed"}
  ELSE {"None"}

\* The reason guessed from the flag and from what earlier attempts left behind.
FailedState ==
  IF "ServerReachable" \notin flags THEN {"HostOffline", "ServiceUnreachable"}
  ELSE IF framebufferState = "Invalid" THEN {"AuthenticationFailed"}
  ELSE {"ConnectionFailed"}

\* rfbInitClient() has failed and cleaned up.
connectionFailed ==
  /\ step = "connecting"
  /\ open' = open \ {client}
  /\ client' = 0
  /\ IF Terminating
     THEN step' = "close" /\ UNCHANGED state
     ELSE step' = "sleep" /\ state' \in FailedState
  /\ UNCHANGED <<framebufferState, flags, tagged, queue, image, mainVars, attempt,
                 watchdogElapsed, clients, requested, incoming, screen, historyVars>>

retryConnection ==
  /\ step = "sleep"
  /\ step' = "prepare"
  /\ framed' = (framed \/ attempt = "allocated")
  /\ UNCHANGED <<sharedVars, mainVars, attempt, watchdogElapsed, libraryVars, enqueued,
                 fired, restarts>>

-----------------------------------------------------------------------------
(* The connection thread: handling the connection                          *)

\* Mutant: a request for a restart is not looked at.
mustClose_terminate == Terminating

mustClose == Terminating \/ "RestartConnection" \in flags

\* WaitForMessage() times out, finds a message, or finds the connection broken.
waitForMessage ==
  /\ step = "wait"
  /\ \/ mustClose /\ step' = "close"
     \/ ~ mustClose /\ incoming = NoMessage /\ step' = "events"
     \/ ~ mustClose /\ incoming # NoMessage /\ step' = "message"
     \/ ~ mustClose /\ step' = "close"
  /\ UNCHANGED <<sharedVars, mainVars, attempt, watchdogElapsed, libraryVars, historyVars>>

\* HandleRFBServerMessage() writes the pixels, or has the framebuffer replaced by a
\* blank one of the new size and asks for the whole screen.
handleRectangles ==
  /\ step = "message"
  /\ \/ /\ incoming.kind = "update"
        /\ image' = [image EXCEPT !.version = incoming.version]
        /\ requested' = IF requested = "full" THEN "full" ELSE "incremental"
        /\ step' = "finishUpdate"
        /\ UNCHANGED framebufferState
     \/ /\ incoming.kind = "resize"
        /\ tagged
        /\ image' = [image EXCEPT !.version = 0]
        /\ framebufferState' = "Initialized"
        /\ requested' = "full"
        /\ step' = "finishUpdate"
     \/ /\ incoming.kind = "resize"
        /\ ~ tagged
        /\ step' = "close"
        /\ UNCHANGED <<image, framebufferState, requested>>
  /\ incoming' = NoMessage
  /\ UNCHANGED <<state, flags, client, tagged, queue, mainVars, attempt,
                 watchdogElapsed, clients, open, screen, historyVars>>

\* Mutant: the user interface is told, but the screen is not marked for scaling.
outdated_nothing == flags

outdated == flags \cup {"ScaledScreenNeedsUpdate"}

\* All messages that have arrived are handled before any event is sent.
finishFrameBufferUpdate ==
  /\ step = "finishUpdate"
  /\ IF tagged
     THEN /\ framebufferState' = "Valid"
          /\ flags' = outdated
          /\ watchdogElapsed' = FALSE
          /\ repaint' = TRUE
     ELSE UNCHANGED <<framebufferState, flags, watchdogElapsed, repaint>>
  /\ step' = IF incoming = NoMessage THEN "events" ELSE "message"
  /\ UNCHANGED <<state, client, tagged, queue, image, mainStep, scaledScreen, scaledSize,
                 attempt, libraryVars, historyVars>>

\* Mutant: a terminated connection keeps its events.
dequeued_kept == IF Terminating THEN queue ELSE Tail(queue)

\* Mutant: only the first event is sent, the others are dropped.
dequeued_all == <<>>

dequeued == Tail(queue)

\* sendEvents(): one event at a time, so that others may be enqueued meanwhile.
sendEvents ==
  /\ step \in {"events", "eventsAgain"}
  /\ IF queue # <<>>
     THEN /\ queue' = dequeued
          /\ fired' = IF Terminating THEN fired ELSE Append(fired, Head(queue))
          /\ UNCHANGED step
     ELSE /\ step' = IF step = "events" THEN "request" ELSE "wait"
          /\ UNCHANGED <<queue, fired>>
  /\ UNCHANGED <<state, framebufferState, flags, client, tagged, image, mainVars,
                 attempt, watchdogElapsed, libraryVars, framed, enqueued, restarts>>

\* Mutant: a connection without updates is left alone.
needsRequest_initialized == framebufferState = "Initialized"

needsRequest == framebufferState = "Initialized" \/ watchdogElapsed

\* The whole screen is requested, or the thread sleeps until the next interval.
sendFramebufferUpdateRequest ==
  /\ step = "request"
  /\ requested' = IF needsRequest THEN "full" ELSE requested
  /\ step' = "eventsAgain"
  /\ UNCHANGED <<sharedVars, mainVars, attempt, watchdogElapsed, clients, open,
                 incoming, screen, historyVars>>

\* Mutant: the client is kept for the next connection.
cleanedUp_restart == IF "RestartConnection" \in flags THEN open ELSE open \ {client}

cleanedUp == open \ {client}

closeConnection ==
  /\ step = "close"
  /\ open' = cleanedUp
  /\ client' = 0
  /\ state' = "Disconnected"
  /\ step' = "begin"
  /\ requested' = "none"
  /\ incoming' = NoMessage
  /\ UNCHANGED <<framebufferState, flags, tagged, queue, image, mainVars, attempt,
                 watchdogElapsed, clients, screen, historyVars>>

elapseWatchdog ==
  /\ state = "Connected" /\ ~ watchdogElapsed
  /\ watchdogElapsed' = TRUE
  /\ UNCHANGED <<sharedVars, mainVars, step, attempt, libraryVars, historyVars>>

-----------------------------------------------------------------------------
(* The server                                                              *)

changeScreen ==
  /\ screen < MaxScreens
  /\ screen' = screen + 1
  /\ UNCHANGED <<sharedVars, mainVars, threadVars, clients, open, requested, incoming,
                 historyVars>>

\* The server answers a request for the whole screen at once and another one when
\* the screen has changed.
sendUpdate ==
  /\ incoming = NoMessage
  /\ \/ requested = "full"
     \/ requested = "incremental" /\ image.version # screen
  /\ incoming' = [kind |-> "update", version |-> screen]
  /\ requested' = "none"
  /\ UNCHANGED <<sharedVars, mainVars, threadVars, clients, open, screen, historyVars>>

\* The screen gets another size, which the server announces first.
sendResize ==
  /\ incoming = NoMessage
  /\ requested # "none"
  /\ screen < MaxScreens
  /\ screen' = screen + 1
  /\ incoming' = [kind |-> "resize", version |-> 0]
  /\ requested' = "none"
  /\ UNCHANGED <<sharedVars, mainVars, threadVars, clients, open, historyVars>>

-----------------------------------------------------------------------------
MainCall == restart \/ stop \/ setScaledSize \/ checkConnected

MainStep == setTerminateThread \/ rescaleScreen \/ scaleImage \/ clearNeedsUpdate \/ enqueueEvent

ThreadStep ==
  \/ beginConnecting
  \/ prepareClient
  \/ setServerReachable
  \/ hookInitFrameBuffer
  \/ connectionEstablished
  \/ connectionFailed
  \/ retryConnection
  \/ waitForMessage
  \/ handleRectangles
  \/ finishFrameBufferUpdate
  \/ sendEvents
  \/ sendFramebufferUpdateRequest
  \/ closeConnection

ServerStep == changeScreen \/ sendUpdate \/ sendResize

Next == MainCall \/ MainStep \/ ThreadStep \/ elapseWatchdog \/ ServerStep

Spec == Init /\ [][Next]_vars

\* Both threads run, libvncclient's calls return, time passes and the server
\* answers.  Whether the user interface calls anything is its own affair, except
\* that a signal makes it ask for the screen.
Fairness ==
  /\ WF_vars(ThreadStep)
  /\ WF_vars(MainStep)
  /\ WF_vars(elapseWatchdog)
  /\ WF_vars(sendUpdate)

FairSpec == Spec /\ Fairness

-----------------------------------------------------------------------------
SharedTypeOK ==
  /\ state \in State
  /\ framebufferState \in {"Invalid", "Initialized", "Valid"}
  /\ flags \subseteq ControlFlag
  /\ client \in {0} \cup Client
  /\ tagged \in BOOLEAN
  /\ queue \in Seq(1..MaxEvents)
  /\ image \in {NoImage} \cup Framebuffer

MainTypeOK ==
  /\ mainStep \in {"idle", "terminate", "scale", "clear", "enqueue"}
  /\ scaledScreen \in ScaledScreen
  /\ scaledSize \in {NoSize} \cup Sizes
  /\ repaint \in BOOLEAN

ThreadTypeOK ==
  /\ step \in {"begin", "prepare", "connecting", "sleep", "wait", "message",
               "finishUpdate", "events", "request", "eventsAgain", "close", "finished"}
  /\ attempt \in {"none", "unreached", "reached", "allocated"}
  /\ watchdogElapsed \in BOOLEAN

LibraryTypeOK ==
  /\ clients \in 0..MaxClients
  /\ open \subseteq Client
  /\ requested \in {"none", "incremental", "full"}
  /\ incoming \in ServerMessage
  /\ screen \in 1..MaxScreens

HistoryTypeOK ==
  /\ framed \in BOOLEAN
  /\ enqueued \in 0..MaxEvents
  /\ fired \in Seq(1..MaxEvents)
  /\ restarts \subseteq Client

\* Every variable keeps its type.
TypeOK == SharedTypeOK /\ MainTypeOK /\ ThreadTypeOK /\ LibraryTypeOK /\ HistoryTypeOK

\* However often the thread reconnects, one connection at most is open, and it is the
\* one m_client points to (establishConnection, closeConnection, and the cleanup in a
\* failed rfbInitClient()).  The only one that is ever dropped without being closed is
\* one that rfbInitClient() has established for a thread told to terminate meanwhile.
ClientsAreClosed ==
  /\ open \subseteq {clients}
  /\ ~ Terminating => open \subseteq {client}
  /\ client = 0 /\ open # {} => attempt = "allocated"

\* What the user is told about a failed attempt to connect: that the host is down or
\* has no service if and only if nothing was heard from it, that the authentication
\* failed if the attempt ended between the host's first answer and its framebuffer, that
\* the reason is unknown if it ended later.  The exception is the code's: m_framebufferState
\* is not reset for another attempt, so once one has got a framebuffer, a failed
\* authentication is told as an unknown reason until a connection has come up.
FailureIsExplained ==
  step = "sleep" /\ tagged =>
    /\ state \in {"HostOffline", "ServiceUnreachable"} <=> attempt = "unreached"
    /\ state = "AuthenticationFailed" <=> attempt = "reached" /\ ~ framed
    /\ state = "ConnectionFailed" <=>
         attempt = "allocated" \/ (attempt = "reached" /\ framed)

\* Whoever stops the connection gets rid of its thread, whatever it is doing.
StopEnds == Terminating ~> step = "finished"

\* A request for a restart ends the connection it was made for, even if it comes
\* while that one is being established.
RestartReconnects == \A c \in Client : c \in restarts /\ client = c ~> client # c

\* An event that was enqueued is sent unless the connection ends.
EventsAreSent ==
  \A e \in 1..MaxEvents :
    (\E i \in DOMAIN queue : queue[i] = e) ~>
      (\E i \in DOMAIN fired : fired[i] = e) \/ state # "Connected" \/ Terminating

\* The scaled screen catches up with the screen and the size it is asked for.  A
\* rescaleScreen() that overlaps an update loses the mark that the update sets;
\* what repairs it is the request the watchdog makes.
ScaledScreenCatchesUp ==
  (state = "Connected" /\ scaledSize # NoSize) ~>
    \/ scaledScreen = [of |-> [client |-> client, version |-> screen], size |-> scaledSize]
    \/ state # "Connected" \/ ~ tagged

=============================================================================
