-------------------------- MODULE VncConnectionProofs --------------------------
(***************************************************************************)
(* Theorems about VncConnection for any number of connections, screens,    *)
(* events and sizes.                                                       *)
(***************************************************************************)
EXTENDS VncConnection, SequenceTheorems, TLAPS

\* Steps in which the thread is connected.
Handling == {"wait", "message", "finishUpdate", "events", "request", "eventsAgain"}

\* TypeOK is not inductive: it rests on where the thread has a client and a
\* framebuffer of that client.
Located ==
  /\ step \in {"begin", "prepare", "sleep", "finished"} => client = 0
  /\ step \in Handling \cup {"connecting"} => client \in Client
  /\ step \in Handling \/ (step = "connecting" /\ attempt = "allocated") =>
       image \in Framebuffer
  /\ mainStep = "enqueue" => enqueued < MaxEvents

TypeInv == TypeOK /\ Located

\* A framebuffer is one before and after its pixels change.
LEMMA FramebufferVersion ==
  ASSUME NEW framebuffer \in Framebuffer, NEW v \in 0..MaxScreens
  PROVE  /\ [framebuffer EXCEPT !.version = v] \in Framebuffer
         /\ [framebuffer EXCEPT !.version = v].client = framebuffer.client
  BY DEF Framebuffer

LEMMA TypeInit == Init => TypeInv
<1> SUFFICES ASSUME Init
             PROVE  TypeInv
  OBVIOUS
<1>1. <<>> \in Seq(1..MaxEvents)
  OBVIOUS
<1>2. 0 \in 0..MaxScreens /\ 1 \in 1..MaxScreens /\ 0 \in 0..MaxClients /\ 0 \in 0..MaxEvents
  BY VncConnectionAssumption
<1>3. NoMessage \in ServerMessage
  BY <1>2 DEF NoMessage, ServerMessage
<1>4. NoScaledScreen \in ScaledScreen
  BY DEF NoScaledScreen, ScaledScreen
<1> QED
  BY <1>1, <1>2, <1>3, <1>4 DEF Init, TypeInv, TypeOK, SharedTypeOK, MainTypeOK,
     ThreadTypeOK, LibraryTypeOK, HistoryTypeOK, Located, Handling, State

LEMMA TypeStep == TypeInv /\ [Next]_vars => TypeInv'
<1> SUFFICES ASSUME TypeInv, [Next]_vars
             PROVE  TypeInv'
  OBVIOUS
<1> USE VncConnectionAssumption DEF TypeInv, TypeOK, SharedTypeOK, MainTypeOK,
     ThreadTypeOK, LibraryTypeOK, HistoryTypeOK, Located, Handling
<1>1. CASE restart
  BY <1>1 DEF restart, mainVars, threadVars, libraryVars, ControlFlag
<1>2. CASE stop
  <2>1. NoScaledScreen \in ScaledScreen
    BY DEF NoScaledScreen, ScaledScreen
  <2>2. SharedTypeOK'
    BY <1>2, <2>1 DEF stop, threadVars, libraryVars, historyVars
  <2>3. MainTypeOK'
    BY <1>2, <2>1 DEF stop, threadVars, libraryVars, historyVars
  <2>4. ThreadTypeOK'
    BY <1>2, <2>1 DEF stop, threadVars, libraryVars, historyVars
  <2>5. LibraryTypeOK'
    BY <1>2, <2>1 DEF stop, threadVars, libraryVars, historyVars
  <2>6. HistoryTypeOK'
    BY <1>2, <2>1 DEF stop, threadVars, libraryVars, historyVars
  <2>7. Located'
    BY <1>2, <2>1 DEF stop, threadVars, libraryVars, historyVars
  <2> QED
    BY <2>2, <2>3, <2>4, <2>5, <2>6, <2>7
<1>3. CASE setScaledSize
  BY <1>3 DEF setScaledSize, threadVars, libraryVars, historyVars, ControlFlag
<1>4. CASE checkConnected
  BY <1>4 DEF checkConnected, sharedVars, threadVars, libraryVars, historyVars
<1>5. CASE setTerminateThread
  BY <1>5 DEF setTerminateThread, threadVars, libraryVars, historyVars, ControlFlag
<1>6. CASE rescaleScreen
  <2>1. NoScaledScreen \in ScaledScreen
    BY DEF NoScaledScreen, ScaledScreen
  <2>2. SharedTypeOK'
    BY <1>6, <2>1 DEF rescaleScreen, sharedVars, threadVars, libraryVars, historyVars
  <2>3. MainTypeOK'
    BY <1>6, <2>1 DEF rescaleScreen, sharedVars, threadVars, libraryVars, historyVars
  <2>4. ThreadTypeOK'
    BY <1>6, <2>1 DEF rescaleScreen, sharedVars, threadVars, libraryVars, historyVars
  <2>5. LibraryTypeOK'
    BY <1>6, <2>1 DEF rescaleScreen, sharedVars, threadVars, libraryVars, historyVars
  <2>6. HistoryTypeOK'
    BY <1>6, <2>1 DEF rescaleScreen, sharedVars, threadVars, libraryVars, historyVars
  <2>7. Located'
    BY <1>6, <2>1 DEF rescaleScreen, sharedVars, threadVars, libraryVars, historyVars
  <2> QED
    BY <2>2, <2>3, <2>4, <2>5, <2>6, <2>7
<1>7. CASE scaleImage
  <2>1. [of |-> image, size |-> scaledSize] \in ScaledScreen
    BY DEF ScaledScreen
  <2> QED
    BY <1>7, <2>1 DEF scaleImage, sharedVars, threadVars, libraryVars, historyVars
<1>8. CASE clearNeedsUpdate
  BY <1>8 DEF clearNeedsUpdate, threadVars, libraryVars, historyVars
<1>9. CASE enqueueEvent
  <2>1. enqueued' \in 1..MaxEvents
    BY <1>9 DEF enqueueEvent
  <2>2. queue' \in Seq(1..MaxEvents)
    BY <1>9, <2>1 DEF enqueueEvent
  <2> QED
    BY <1>9, <2>1, <2>2 DEF enqueueEvent, threadVars, libraryVars
<1>10. CASE beginConnecting
  <2>1. /\ UNCHANGED <<mainVars, libraryVars, enqueued, fired, restarts, client, tagged, queue,
                       image, attempt, watchdogElapsed>>
        /\ flags' \subseteq flags
        /\ state' \in {state, "Connecting"}
        /\ step' \in {"finished", "prepare"}
        /\ framed' \in {framed, FALSE}
        /\ framebufferState' \in {framebufferState, "Invalid"}
    BY <1>10 DEF beginConnecting
  <2>2. SharedTypeOK' /\ MainTypeOK'
    BY <2>1 DEF mainVars, State
  <2>3. ThreadTypeOK' /\ LibraryTypeOK' /\ HistoryTypeOK'
    BY <2>1 DEF libraryVars
  <2>4. Located'
    BY <1>10, <2>1 DEF beginConnecting, mainVars, libraryVars
  <2> QED
    BY <2>2, <2>3, <2>4
<1>11. CASE prepareClient
  <2>1. CASE Terminating
    BY <1>11, <2>1 DEF prepareClient, mainVars, historyVars
  <2>2. CASE ~ Terminating
    <3>1. clients + 1 \in 0..MaxClients /\ clients + 1 \in Client
      BY <1>11, <2>2 DEF prepareClient, Client
    <3>2. client' = clients + 1 /\ tagged' = TRUE /\ flags' \subseteq flags
      BY <1>11, <2>2 DEF prepareClient, unreached
    <3>3. SharedTypeOK'
      BY <1>11, <3>1, <3>2 DEF prepareClient
    <3>4. clients' = clients + 1 /\ open' = open \cup {clients + 1}
      BY <1>11, <2>2 DEF prepareClient
    <3>5. LibraryTypeOK'
      BY <1>11, <3>1, <3>4 DEF prepareClient
    <3>6. MainTypeOK' /\ ThreadTypeOK' /\ HistoryTypeOK'
      BY <1>11, <2>2 DEF prepareClient, mainVars, historyVars
    <3>7. Located'
      BY <1>11, <2>2, <3>1 DEF prepareClient, mainVars, historyVars
    <3> QED
      BY <3>3, <3>5, <3>6, <3>7
  <2> QED
    BY <2>1, <2>2
<1>12. CASE setServerReachable
  BY <1>12 DEF setServerReachable, mainVars, libraryVars, historyVars, ControlFlag
<1>13. CASE hookInitFrameBuffer
  <2>1. image' \in Framebuffer
    BY <1>13 DEF hookInitFrameBuffer, Framebuffer
  <2> QED
    BY <1>13, <2>1 DEF hookInitFrameBuffer, mainVars, libraryVars, historyVars
<1>14. CASE connectionEstablished
  <2>1. SharedTypeOK'
    BY <1>14 DEF connectionEstablished, mainVars, historyVars, State
  <2>2. MainTypeOK'
    BY <1>14 DEF connectionEstablished, mainVars, historyVars, State
  <2>3. ThreadTypeOK'
    BY <1>14 DEF connectionEstablished, mainVars, historyVars, State
  <2>4. LibraryTypeOK'
    BY <1>14 DEF connectionEstablished, mainVars, historyVars, State
  <2>5. HistoryTypeOK'
    BY <1>14 DEF connectionEstablished, mainVars, historyVars, State
  <2>6. Located'
    BY <1>14 DEF connectionEstablished, mainVars, historyVars, State
  <2> QED
    BY <2>1, <2>2, <2>3, <2>4, <2>5, <2>6
<1>15. CASE connectionFailed
  <2>1. FailedState \subseteq State
    BY DEF FailedState, State
  <2> QED
    BY <1>15, <2>1 DEF connectionFailed, mainVars, historyVars
<1>16. CASE retryConnection
  BY <1>16 DEF retryConnection, sharedVars, mainVars, libraryVars, historyVars
<1>17. CASE waitForMessage
  BY <1>17 DEF waitForMessage, sharedVars, mainVars, libraryVars, historyVars
<1>18. CASE handleRectangles
  <2>1. NoMessage \in ServerMessage
    BY DEF NoMessage, ServerMessage
  <2>2. incoming.version \in 0..MaxScreens
    BY DEF ServerMessage
  <2>3. image' \in Framebuffer
    BY <1>18, <2>2, FramebufferVersion DEF handleRectangles
  <2> QED
    BY <1>18, <2>1, <2>3 DEF handleRectangles, mainVars, historyVars
<1>19. CASE finishFrameBufferUpdate
  <2>1. SharedTypeOK'
    BY <1>19 DEF finishFrameBufferUpdate, outdated, libraryVars, historyVars, ControlFlag
  <2>2. MainTypeOK'
    BY <1>19 DEF finishFrameBufferUpdate, outdated, libraryVars, historyVars, ControlFlag
  <2>3. ThreadTypeOK'
    BY <1>19 DEF finishFrameBufferUpdate, outdated, libraryVars, historyVars, ControlFlag
  <2>4. LibraryTypeOK'
    BY <1>19 DEF finishFrameBufferUpdate, outdated, libraryVars, historyVars, ControlFlag
  <2>5. HistoryTypeOK'
    BY <1>19 DEF finishFrameBufferUpdate, outdated, libraryVars, historyVars, ControlFlag
  <2>6. Located'
    BY <1>19 DEF finishFrameBufferUpdate, outdated, libraryVars, historyVars, ControlFlag
  <2> QED
    BY <2>1, <2>2, <2>3, <2>4, <2>5, <2>6
<1>20. CASE sendEvents
  <2>1. CASE queue # <<>>
    <3>1. Tail(queue) \in Seq(1..MaxEvents) /\ Head(queue) \in 1..MaxEvents
      BY <2>1, HeadTailProperties
    <3>2. Append(fired, Head(queue)) \in Seq(1..MaxEvents)
      BY <3>1
    <3>3. queue' \in Seq(1..MaxEvents) /\ fired' \in Seq(1..MaxEvents)
      BY <1>20, <2>1, <3>1, <3>2 DEF sendEvents, dequeued
    <3> QED
      BY <1>20, <2>1, <3>3 DEF sendEvents, mainVars, libraryVars
  <2>2. CASE queue = <<>>
    BY <1>20, <2>2 DEF sendEvents, mainVars, libraryVars
  <2> QED
    BY <2>1, <2>2
<1>21. CASE sendFramebufferUpdateRequest
  BY <1>21 DEF sendFramebufferUpdateRequest, sharedVars, mainVars, historyVars
<1>22. CASE closeConnection
  <2>1. NoMessage \in ServerMessage
    BY DEF NoMessage, ServerMessage
  <2> QED
    BY <1>22, <2>1 DEF closeConnection, cleanedUp, mainVars, historyVars, State
<1>23. CASE elapseWatchdog
  BY <1>23 DEF elapseWatchdog, sharedVars, mainVars, libraryVars, historyVars
<1>24. CASE changeScreen
  BY <1>24 DEF changeScreen, sharedVars, mainVars, threadVars, historyVars
<1>25. CASE sendUpdate
  <2>1. [kind |-> "update", version |-> screen] \in ServerMessage
    BY DEF ServerMessage
  <2> QED
    BY <1>25, <2>1 DEF sendUpdate, sharedVars, mainVars, threadVars, historyVars
<1>26. CASE sendResize
  <2>1. [kind |-> "resize", version |-> 0] \in ServerMessage
    BY DEF ServerMessage
  <2> QED
    BY <1>26, <2>1 DEF sendResize, sharedVars, mainVars, threadVars, historyVars
<1>27. CASE UNCHANGED vars
  BY <1>27 DEF vars, sharedVars, mainVars, threadVars, libraryVars, historyVars
<1> QED
  BY <1>1, <1>2, <1>3, <1>4, <1>5, <1>6, <1>7, <1>8, <1>9, <1>10, <1>11, <1>12, <1>13,
     <1>14, <1>15, <1>16, <1>17, <1>18, <1>19, <1>20, <1>21, <1>22, <1>23, <1>24, <1>25,
     <1>26, <1>27 DEF Next, MainCall, MainStep, ThreadStep, ServerStep

\* Every variable of the connection keeps its type (VncConnection.h, members),
\* whatever the two threads do.
THEOREM TypeCorrect == Spec => []TypeOK
<1>1. TypeInv => TypeOK
  BY DEF TypeInv
<1> QED
  BY <1>1, TypeInit, TypeStep, PTL DEF Spec

-----------------------------------------------------------------------------
\* Once the thread has been told to terminate, it has been told for good.
LEMMA TerminatingIsFinal == Terminating /\ [Next]_vars => Terminating'
<1> SUFFICES ASSUME Terminating, [Next]_vars
             PROVE  Terminating'
  OBVIOUS
<1>1. flags \ {"ScaledScreenNeedsUpdate", "ServerReachable", "RestartConnection"} \subseteq flags'
  BY DEF Next, MainCall, MainStep, ThreadStep, ServerStep, restart, stop, setScaledSize,
     checkConnected, setTerminateThread, rescaleScreen, scaleImage, clearNeedsUpdate,
     enqueueEvent, beginConnecting, prepareClient, unreached, setServerReachable,
     hookInitFrameBuffer, connectionEstablished, connectionFailed, retryConnection,
     waitForMessage, handleRectangles, finishFrameBufferUpdate, outdated, sendEvents,
     sendFramebufferUpdateRequest, closeConnection, elapseWatchdog, changeScreen,
     sendUpdate, sendResize, vars, sharedVars
<1> QED
  BY <1>1 DEF Terminating

\* The open connections: m_client points to the last one made or nowhere, so that no
\* other one can be open.
ClientInv == TypeInv /\ client \in {0, clients} /\ ClientsAreClosed

\* Clients are opened by prepareClient alone, and the pointer is dropped only with
\* the client or when terminating.
LEMMA ClientStep == ClientInv /\ [Next]_vars => ClientInv'
<1> SUFFICES ASSUME ClientInv, [Next]_vars
             PROVE  ClientInv'
  OBVIOUS
<1>1. TypeInv'
  BY TypeStep DEF ClientInv
<1>2. SUFFICES /\ client' \in {0, clients'}
               /\ open' \subseteq {clients'}
               /\ ~ Terminating => open' \subseteq {client'}
               /\ client' = 0 /\ open' # {} => attempt' = "allocated"
  BY <1>1, TerminatingIsFinal DEF ClientInv, ClientsAreClosed
<1>3. /\ client \in {0, clients} /\ clients \in Nat
      /\ open \subseteq {clients} /\ open \subseteq Client
      /\ ~ Terminating => open \subseteq {client}
      /\ client = 0 /\ open # {} => attempt = "allocated"
  BY DEF ClientInv, ClientsAreClosed, TypeInv, TypeOK, LibraryTypeOK
<1>4. CASE prepareClient /\ ~ Terminating
  <2>1. client = 0
    BY <1>4 DEF ClientInv, TypeInv, Located, prepareClient
  <2>2. open = {}
    BY <1>3, <1>4, <2>1 DEF Client
  <2> QED
    BY <1>3, <1>4, <2>2 DEF prepareClient
<1>5. CASE connectionEstablished
  BY <1>3, <1>5 DEF connectionEstablished
<1>6. CASE connectionFailed
  <2>1. client # 0
    BY <1>6 DEF ClientInv, TypeInv, Located, Client, connectionFailed
  <2>2. open' = {} /\ client' = 0 /\ UNCHANGED clients
    BY <1>3, <1>6, <2>1 DEF connectionFailed
  <2> QED
    BY <1>3, <2>2
<1>7. CASE closeConnection
  <2>1. open' = open \ {client} /\ client' = 0 /\ UNCHANGED <<clients, attempt>>
    BY <1>7 DEF closeConnection, cleanedUp
  <2>2. open' # {} => client = 0
    BY <1>3, <2>1
  <2> QED
    BY <1>3, <2>1, <2>2 DEF Client
<1>8. CASE setServerReachable
  <2>1. client # 0
    BY <1>8 DEF ClientInv, TypeInv, Located, Client, setServerReachable
  <2> QED
    BY <1>3, <1>8, <2>1 DEF setServerReachable, libraryVars
<1>9. CASE hookInitFrameBuffer
  BY <1>3, <1>9 DEF hookInitFrameBuffer, libraryVars
<1>10. CASE UNCHANGED <<open, client, clients, attempt>>
  BY <1>3, <1>10
<1> QED
  BY <1>4, <1>5, <1>6, <1>7, <1>8, <1>9, <1>10 DEF Next, MainCall, MainStep, ThreadStep,
     ServerStep, restart, stop, setScaledSize, checkConnected, setTerminateThread,
     rescaleScreen, scaleImage, clearNeedsUpdate, enqueueEvent, beginConnecting,
     prepareClient, retryConnection, waitForMessage, handleRectangles,
     finishFrameBufferUpdate, sendEvents, sendFramebufferUpdateRequest, elapseWatchdog,
     changeScreen, sendUpdate, sendResize, vars, sharedVars, threadVars, libraryVars

\* However often it reconnects, the thread has closed every connection but the current
\* one (closeConnection(), and the cleanup in a failed rfbInitClient()), or, once told to
\* terminate, but one that it established meanwhile.
THEOREM NoClientLeftOpen == Spec => []ClientsAreClosed
<1>1. Init => ClientInv
  <2>1. Init => client \in {0, clients} /\ ClientsAreClosed
    BY DEF Init, ClientsAreClosed
  <2> QED
    BY <2>1, TypeInit DEF ClientInv
<1>2. ClientInv => ClientsAreClosed
  BY DEF ClientInv
<1> QED
  BY <1>1, <1>2, ClientStep, PTL DEF Spec

-----------------------------------------------------------------------------
\* FailureIsExplained rests on what the flag and the framebuffer tell of the attempt
\* that is under way, and of those before it.
AttemptIsKnown ==
  /\ step = "connecting" =>
       /\ attempt # "none"
       /\ tagged => ("ServerReachable" \in flags <=> attempt # "unreached")
  /\ step \in {"connecting", "sleep"} =>
       (framebufferState # "Invalid" <=> framed \/ attempt = "allocated")
  /\ step = "prepare" => (framebufferState # "Invalid" <=> framed)

FailureInv == TypeInv /\ AttemptIsKnown /\ FailureIsExplained

\* The guess itself, made where the attempt fails.
LEMMA FailureIsGuessed ==
  ASSUME FailureInv, connectionFailed
  PROVE  FailureIsExplained'
<1>1. step = "connecting" /\ UNCHANGED <<tagged, attempt, framed>>
  BY DEF connectionFailed, historyVars
<1>2. SUFFICES ASSUME step' = "sleep", tagged
               PROVE  /\ state' \in {"HostOffline", "ServiceUnreachable"} <=>
                           attempt = "unreached"
                      /\ state' = "AuthenticationFailed" <=> attempt = "reached" /\ ~ framed
                      /\ state' = "ConnectionFailed" <=>
                           attempt = "allocated" \/ (attempt = "reached" /\ framed)
  BY <1>1 DEF FailureIsExplained
<1>3. state' \in FailedState
  BY <1>2 DEF connectionFailed
<1>4. attempt \in {"unreached", "reached", "allocated"}
  BY <1>1 DEF FailureInv, AttemptIsKnown, TypeInv, TypeOK, ThreadTypeOK
<1>5. CASE "ServerReachable" \notin flags
  <2>1. attempt = "unreached"
    BY <1>1, <1>2, <1>5 DEF FailureInv, AttemptIsKnown
  <2>2. state' \in {"HostOffline", "ServiceUnreachable"}
    BY <1>3, <1>5 DEF FailedState
  <2> QED
    BY <2>1, <2>2
<1>6. CASE "ServerReachable" \in flags
  <2>1. attempt # "unreached"
    BY <1>1, <1>2, <1>6 DEF FailureInv, AttemptIsKnown
  <2>2. framebufferState = "Invalid" <=> ~ framed /\ attempt # "allocated"
    BY <1>1 DEF FailureInv, AttemptIsKnown
  <2>3. CASE framebufferState = "Invalid"
    BY <1>3, <1>4, <1>6, <2>1, <2>2, <2>3 DEF FailedState
  <2>4. CASE framebufferState # "Invalid"
    BY <1>3, <1>4, <1>6, <2>1, <2>2, <2>4 DEF FailedState
  <2> QED
    BY <2>3, <2>4
<1> QED
  BY <1>5, <1>6

LEMMA FailureStep == FailureInv /\ [Next]_vars => FailureInv'
<1> SUFFICES ASSUME FailureInv, [Next]_vars
             PROVE  FailureInv'
  OBVIOUS
<1>1. TypeInv'
  BY TypeStep DEF FailureInv
<1> USE DEF FailureInv, AttemptIsKnown, FailureIsExplained
<1>2. CASE beginConnecting
  BY <1>1, <1>2 DEF beginConnecting
<1>3. CASE prepareClient
  BY <1>1, <1>3 DEF prepareClient, unreached, historyVars
<1>4. CASE setServerReachable
  BY <1>1, <1>4 DEF setServerReachable, historyVars
<1>5. CASE hookInitFrameBuffer
  BY <1>1, <1>5 DEF hookInitFrameBuffer, historyVars
<1>6. CASE connectionEstablished
  BY <1>1, <1>6 DEF connectionEstablished
<1>7. CASE connectionFailed
  <2>1. step' # "connecting"
    BY <1>7 DEF connectionFailed
  <2> QED
    BY <1>1, <1>7, <2>1, FailureIsGuessed DEF connectionFailed, historyVars
<1>8. CASE stop
  BY <1>1, <1>8 DEF stop, threadVars, historyVars
<1>9. CASE restart \/ setScaledSize \/ setTerminateThread \/ clearNeedsUpdate
  BY <1>1, <1>9 DEF restart, setScaledSize, setTerminateThread, clearNeedsUpdate, threadVars, historyVars
<1>12. CASE retryConnection
  <2>1. framed' \in BOOLEAN /\ (framed' <=> framed \/ attempt = "allocated")
    BY <1>12, <1>1 DEF retryConnection
  <2> QED
    BY <1>1, <1>12, <2>1 DEF retryConnection, sharedVars
<1>10. CASE \/ waitForMessage \/ handleRectangles
            \/ finishFrameBufferUpdate \/ sendEvents
            \/ sendFramebufferUpdateRequest \/ closeConnection
  <2>1. step' \notin {"prepare", "connecting", "sleep"}
    BY <1>10 DEF waitForMessage, handleRectangles,
       finishFrameBufferUpdate, sendEvents, sendFramebufferUpdateRequest, closeConnection
  <2> QED
    BY <1>1, <2>1
<1>11. CASE UNCHANGED <<state, framebufferState, flags, tagged, step, attempt, framed>>
  BY <1>1, <1>11
<1> QED
  BY <1>2, <1>3, <1>4, <1>5, <1>6, <1>7, <1>8, <1>9, <1>10, <1>11, <1>12
     DEF Next, MainCall, MainStep, ThreadStep, ServerStep, checkConnected, rescaleScreen,
     scaleImage, enqueueEvent, elapseWatchdog, changeScreen, sendUpdate, sendResize,
     vars, sharedVars, threadVars, historyVars

\* The reason told for a failed attempt to connect is exactly what
\* establishConnection() can know ("guess reason why connection failed"): nothing was
\* heard from the host, the authentication failed, or, also when the authentication
\* failed after an earlier attempt had got a framebuffer, it is unknown.
THEOREM FailuresExplained == Spec => []FailureIsExplained
<1>1. Init => FailureInv
  <2>1. Init => AttemptIsKnown /\ FailureIsExplained
    BY DEF Init, AttemptIsKnown, FailureIsExplained
  <2> QED
    BY <2>1, TypeInit DEF FailureInv
<1>2. FailureInv => FailureIsExplained
  BY DEF FailureInv
<1> QED
  BY <1>1, <1>2, FailureStep, PTL DEF Spec

-----------------------------------------------------------------------------
(* Events and restarts                                                     *)

\* The events sent are the first ones, and the queue has exactly the others, in order.
\* Only the thread told to terminate drops some.
EventsInOrder ==
  /\ Len(fired) <= enqueued /\ \A i \in 1..Len(fired) : fired[i] = i
  /\ ~ Terminating =>
       /\ Len(fired) + Len(queue) = enqueued
       /\ \A i \in 1..Len(queue) : queue[i] = Len(fired) + i

EventsInv == TypeInv /\ EventsInOrder

LEMMA EventsStep == EventsInv /\ [Next]_vars => EventsInv'
<1> SUFFICES ASSUME EventsInv, [Next]_vars
             PROVE  EventsInv'
  OBVIOUS
<1>1. TypeInv' /\ (~ Terminating' => ~ Terminating)
  BY TypeStep, TerminatingIsFinal DEF EventsInv
<1>2. SUFFICES EventsInOrder'
  BY <1>1 DEF EventsInv
<1>3. /\ queue \in Seq(1..MaxEvents) /\ fired \in Seq(1..MaxEvents) /\ enqueued \in Nat
      /\ MaxEvents \in Nat
  BY VncConnectionAssumption
     DEF EventsInv, TypeInv, TypeOK, SharedTypeOK, HistoryTypeOK
<1>4. CASE enqueueEvent
  <2>1. enqueued' = enqueued + 1 /\ fired' = fired
    BY <1>4 DEF enqueueEvent
  <2>2. queue' = Append(queue, enqueued')
    BY <1>4 DEF enqueueEvent
  <2>3. /\ Len(queue') = Len(queue) + 1 /\ queue'[Len(queue) + 1] = enqueued + 1
        /\ \A i \in 1..Len(queue) : queue'[i] = queue[i]
    <3>1. PICK x \in Nat : x = enqueued'
      BY <1>3, <2>1
    <3>2. queue \in Seq(Nat)
      BY <1>3, SeqMonotonic
    <3> QED
      BY <2>1, <2>2, <3>1, <3>2, AppendProperties
  <2>4. ASSUME ~ Terminating
        PROVE  /\ Len(fired) + Len(queue') = enqueued'
               /\ \A i \in 1..Len(queue') : queue'[i] = Len(fired) + i
    <3>1. /\ Len(fired) + Len(queue) = enqueued
          /\ \A i \in 1..Len(queue) : queue[i] = Len(fired) + i
      BY <2>4 DEF EventsInv, EventsInOrder
    <3>2. PICK k \in Nat, l \in Nat : k = Len(fired) /\ l = Len(queue)
      BY <1>3
    <3> QED
      BY <2>1, <2>3, <3>1, <3>2
  <2>5. Len(fired) <= enqueued' /\ \A i \in 1..Len(fired) : fired[i] = i
    <3>1. PICK k \in Nat : k = Len(fired)
      BY <1>3
    <3> QED
      BY <1>3, <2>1, <3>1 DEF EventsInv, EventsInOrder
  <2> QED
    BY <1>1, <2>1, <2>4, <2>5 DEF EventsInOrder
<1>5. CASE sendEvents /\ queue # <<>> /\ Terminating
  <2>1. fired' = fired /\ enqueued' = enqueued
    BY <1>5 DEF sendEvents
  <2> QED
    BY <1>1, <1>5, <2>1 DEF EventsInv, EventsInOrder
<1>6. CASE sendEvents /\ queue # <<>> /\ ~ Terminating
  <2>1. /\ fired' = Append(fired, Head(queue)) /\ queue' = Tail(queue)
        /\ enqueued' = enqueued
    BY <1>6 DEF sendEvents, dequeued
  <2>2. PICK k \in Nat, l \in Nat : k = Len(fired) /\ l = Len(queue) /\ l > 0
    BY <1>3, <1>6
  <2>3. /\ k + l = enqueued /\ \A i \in 1..l : queue[i] = k + i
        /\ \A i \in 1..k : fired[i] = i
    BY <1>6, <2>2 DEF EventsInv, EventsInOrder
  <2>4. /\ Len(fired') = k + 1 /\ fired'[k + 1] = Head(queue)
        /\ \A i \in 1..k : fired'[i] = fired[i]
    <3>1. Head(queue) \in 1..MaxEvents
      BY <1>3, <1>6, HeadTailProperties
    <3> QED
      BY <1>3, <2>1, <2>2, <3>1, AppendProperties
  <2>5. /\ Head(queue) = queue[1] /\ Len(queue') = l - 1
        /\ \A i \in 1..(l - 1) : queue'[i] = queue[i + 1]
    BY <1>3, <1>6, <2>1, <2>2, HeadTailProperties
  <2>6. Head(queue) = k + 1
    BY <2>2, <2>3, <2>5
  <2>7. \A i \in 1..(l - 1) : queue'[i] = (k + 1) + i
    <3>1. \A i \in 1..(l - 1) : i + 1 \in 1..l /\ k + (i + 1) = (k + 1) + i
      BY <2>2
    <3> QED
      BY <2>3, <2>5, <3>1
  <2>8. Len(fired') <= enqueued' /\ \A i \in 1..Len(fired') : fired'[i] = i
    BY <2>1, <2>2, <2>3, <2>4, <2>6
  <2>9. Len(fired') + Len(queue') = enqueued'
    <3>1. (k + 1) + (l - 1) = k + l
      BY <2>2
    <3> QED
      BY <2>1, <2>3, <2>4, <2>5, <3>1
  <2> QED
    BY <2>4, <2>5, <2>7, <2>8, <2>9 DEF EventsInOrder
<1>7. CASE UNCHANGED <<queue, fired, enqueued>>
  BY <1>1, <1>7 DEF EventsInv, EventsInOrder
<1> QED
  BY <1>4, <1>5, <1>6, <1>7 DEF Next, MainCall, MainStep, ThreadStep,
     ServerStep, restart, stop, setScaledSize, checkConnected, setTerminateThread,
     rescaleScreen, scaleImage, clearNeedsUpdate, beginConnecting, prepareClient,
     setServerReachable, hookInitFrameBuffer, connectionEstablished, connectionFailed,
     retryConnection, waitForMessage, handleRectangles, finishFrameBufferUpdate, sendEvents,
     sendFramebufferUpdateRequest, closeConnection, elapseWatchdog, changeScreen, sendUpdate,
     sendResize, vars, sharedVars, historyVars, libraryVars

\* Events are sent in the order in which they were enqueued, each once, and as long as the
\* thread is not told to terminate none is lost: those of a connection that ends are sent
\* on the next one (enqueueEvent(), sendEvents()).  The messages of FileTransfer travel so.
THEOREM EventsExact == Spec => []EventsInOrder
<1>1. Init => EventsInv
  <2>1. Len(<<>>) = 0 /\ 1..0 = {}
    OBVIOUS
  <2>2. Init => EventsInOrder
    BY <2>1 DEF Init, EventsInOrder
  <2> QED
    BY <2>2, TypeInit DEF EventsInv
<1>2. EventsInv => EventsInOrder
  BY DEF EventsInv
<1> QED
  BY <1>1, <1>2, EventsStep, PTL DEF Spec

\* The connection that a restart was requested for is marked for it.
RestartIsKept == client \in restarts => "RestartConnection" \in flags

RestartInv == ClientInv /\ restarts \subseteq 1..clients /\ RestartIsKept

LEMMA RestartStep == RestartInv /\ [Next]_vars => RestartInv'
<1> SUFFICES ASSUME RestartInv, [Next]_vars
             PROVE  RestartInv'
  OBVIOUS
<1>1. ClientInv'
  BY ClientStep DEF RestartInv
<1>2. SUFFICES restarts' \subseteq 1..clients' /\ RestartIsKept'
  BY <1>1 DEF RestartInv
<1>3. /\ restarts \subseteq 1..clients /\ clients \in Nat /\ client \in {0, clients}
      /\ client \in restarts => "RestartConnection" \in flags
  BY VncConnectionAssumption
     DEF RestartInv, RestartIsKept, ClientInv, TypeInv, TypeOK, LibraryTypeOK
<1>4. 0 \notin restarts /\ clients + 1 \notin restarts /\ 1..clients \subseteq 1..(clients + 1)
  BY <1>3
<1>5. CASE restart
  BY <1>3, <1>5 DEF restart, RestartIsKept, libraryVars
<1>6. CASE beginConnecting
  <2>1. client = 0
    BY <1>6 DEF RestartInv, ClientInv, TypeInv, Located, beginConnecting
  <2> QED
    BY <1>3, <1>4, <1>6, <2>1 DEF beginConnecting, RestartIsKept, libraryVars, historyVars
<1>7. CASE prepareClient
  BY <1>3, <1>4, <1>7 DEF prepareClient, unreached, RestartIsKept, historyVars
<1>8. CASE connectionEstablished \/ connectionFailed \/ closeConnection
  <2>1. client' \in {0, client} /\ UNCHANGED <<flags, clients, restarts>>
    BY <1>8 DEF connectionEstablished, connectionFailed, closeConnection, historyVars
  <2> QED
    BY <1>3, <1>4, <2>1 DEF RestartIsKept
<1>9. CASE /\ UNCHANGED <<client, clients, restarts>>
           /\ flags \ {"ScaledScreenNeedsUpdate", "ServerReachable"} \subseteq flags'
  BY <1>3, <1>9 DEF RestartIsKept
<1> QED
  BY <1>5, <1>6, <1>7, <1>8, <1>9 DEF Next, MainCall, MainStep, ThreadStep,
     ServerStep, stop, setScaledSize, checkConnected, setTerminateThread,
     rescaleScreen, scaleImage, clearNeedsUpdate, enqueueEvent, setServerReachable,
     hookInitFrameBuffer, retryConnection, waitForMessage, handleRectangles,
     finishFrameBufferUpdate, outdated, sendEvents, sendFramebufferUpdateRequest,
     elapseWatchdog, changeScreen, sendUpdate, sendResize, vars, sharedVars, libraryVars,
     historyVars

\* A request for a restart is not lost, even if it comes while the connection it is made
\* for is still being established: the mark is taken back only by the next connection
\* (restart(), establishConnection()).  RestartReconnects rests on it.
THEOREM RestartsKept == Spec => []RestartIsKept
<1>1. Init => RestartInv
  <2>1. Init => restarts \subseteq 1..clients /\ RestartIsKept
    BY DEF Init, RestartIsKept
  <2>2. Init => ClientInv
    <3>1. Init => client \in {0, clients} /\ ClientsAreClosed
      BY DEF Init, ClientsAreClosed
    <3> QED
      BY <3>1, TypeInit DEF ClientInv
  <2> QED
    BY <2>1, <2>2 DEF RestartInv
<1>2. RestartInv => RestartIsKept
  BY DEF RestartInv
<1> QED
  BY <1>1, <1>2, RestartStep, PTL DEF Spec

=============================================================================
