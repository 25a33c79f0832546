----------------------------- MODULE FeatureWorkers -----------------------------
(***************************************************************************)
(* The worker processes of the Veyon server: FeatureWorkerManager, which   *)
(* keeps one entry per feature with the worker's process, its socket and   *)
(* the messages it has not been sent yet, and the worker's side of the     *)
(* connection, FeatureWorkerManagerConnection.                             *)
(*                                                                         *)
(* A process identity is used once.  Messages are numbered in the order in *)
(* which the server accepts or drops them; what a worker does with one is  *)
(* left to the features.  All calls are made on the main thread, a call    *)
(* from elsewhere is passed to it (startWorker, stopWorker) or protected   *)
(* by the mutex for all of its duration (sendMessage).                     *)
(***************************************************************************)
EXTENDS Integers, Sequences, FiniteSets, SequencesExt

CONSTANTS
  Features,            \* features with a worker
  ManagedFeatures,     \* those started as a managed system process
  Processes,           \* identities of worker processes
  NoProcess,
  MaxMessages,         \* bound on the messages sent in a behaviour
  MaxRetries           \* bound on the scheduled retries of one feature

ASSUME FeatureWorkersAssumption ==
  /\ Features # {}
  /\ ManagedFeatures \subseteq Features
  /\ NoProcess \notin Processes
  /\ MaxMessages \in Nat
  /\ MaxRetries \in Nat

VARIABLES
  \* FeatureWorkerManager
  running,      \* features with an entry in m_workers
  socket,       \* the entry's socket, named by the process at its other end
  process,      \* the entry's QProcess
  pending,      \* the entry's pendingMessages
  killTimer,    \* processes a kill timer runs for
  retries,      \* scheduled retries of startWorker()
  listening,    \* FALSE once the manager has been destroyed
  \* the worker processes
  life,         \* "unused", "starting", "alive" or "ended"
  feature,      \* the feature a process was started for
  link,         \* its connection: "none", "up", "closedByServer", "closedByWorker"
  hello,        \* processes whose init message has not been read
  wire,         \* messages on the way to a process
  received,     \* messages the process has handled
  \* the environment
  session,      \* TRUE iff a user session exists to start processes in
  sent,         \* number of messages so far
  \* history
  accepted,     \* messages appended to the feature's current entry
  made,         \* the process the feature's current entry was made for
  forsaken      \* processes whose entry ended before it had got their connection

managerVars == <<running, socket, process, pending, killTimer, retries, listening>>
processVars == <<life, feature, link, hello, wire, received>>
historyVars == <<accepted, made, forsaken>>
vars == <<managerVars, processVars, session, sent, historyVars>>

Message == 1..MaxMessages

Life == {"unused", "starting", "alive", "ended"}

Link == {"none", "up", "closedByServer", "closedByWorker"}

Init ==
  /\ running = {}
  /\ socket = [f \in Features |-> NoProcess]
  /\ process = [f \in Features |-> NoProcess]
  /\ pending = [f \in Features |-> <<>>]
  /\ killTimer = {}
  /\ retries = [f \in Features |-> 0]
  /\ listening = TRUE
  /\ life = [p \in Processes |-> "unused"]
  /\ feature = [p \in Processes |-> CHOOSE f \in Features : TRUE]
  /\ link = [p \in Processes |-> "none"]
  /\ hello = {}
  /\ wire = [p \in Processes |-> <<>>]
  /\ received = [p \in Processes |-> <<>>]
  /\ session \in BOOLEAN
  /\ sent = 0
  /\ accepted = [f \in Features |-> <<>>]
  /\ made = [f \in Features |-> NoProcess]
  /\ forsaken = {}

Connected(f) == f \in running /\ socket[f] # NoProcess

-----------------------------------------------------------------------------
(* FeatureWorkerManager                                                    *)

\* Mutant: stopWorker() leaves the worker's connection open.
closedBy_nothing(f) == link

\* stopWorker() closes the entry's socket without waiting for its signals ...
closedBy(f) ==
  IF Connected(f) THEN [link EXCEPT ![socket[f]] = "closedByServer"] ELSE link

\* Mutant: an unmanaged worker's missing process is not looked for.
killedBy_unchecked(f) ==
  killTimer \cup {p \in {process[f]} : f \in running}

\* ... and has a process it manages killed later, unless that has ended already.
killedBy(f) ==
  killTimer \cup {p \in {process[f]} \ {NoProcess} : f \in running /\ life[p] # "ended"}

\* When the entries of these features end: the processes whose connection they had not
\* got, which nothing closes.
forsakenBy(ends) ==
  forsaken \cup {p \in Processes : \E f \in ends : made[f] = p /\ socket[f] # p}

stopWorker(f) ==
  /\ running' = running \ {f}
  /\ socket' = [socket EXCEPT ![f] = NoProcess]
  /\ process' = [process EXCEPT ![f] = NoProcess]
  /\ pending' = [pending EXCEPT ![f] = <<>>]
  /\ accepted' = [accepted EXCEPT ![f] = <<>>]
  /\ link' = closedBy(f)
  /\ killTimer' = killedBy(f)
  /\ made' = [made EXCEPT ![f] = NoProcess]
  /\ forsaken' = forsakenBy({f})

\* startWorker() with the messages the caller sends right after it.  Whatever
\* worker the feature has is stopped first.  Without a user session the start is
\* tried again later, and the messages find no entry.
startWorker(f, messages) ==
  \/ /\ f \in ManagedFeatures \/ session
     /\ \E p \in Processes :
          /\ life[p] = "unused"
          /\ life' = [life EXCEPT ![p] = "starting"]
          /\ feature' = [feature EXCEPT ![p] = f]
          /\ process' = [process EXCEPT
               ![f] = IF f \in ManagedFeatures THEN p ELSE NoProcess]
          /\ made' = [made EXCEPT ![f] = p]
     /\ running' = running \cup {f}
     /\ socket' = [socket EXCEPT ![f] = NoProcess]
     /\ pending' = [pending EXCEPT ![f] = messages]
     /\ accepted' = [accepted EXCEPT ![f] = messages]
     /\ link' = closedBy(f)
     /\ killTimer' = killedBy(f)
     /\ forsaken' = forsakenBy({f})
     /\ UNCHANGED retries
  \/ /\ f \notin ManagedFeatures /\ ~ session
     /\ stopWorker(f)
     /\ retries[f] < MaxRetries
     /\ retries' = [retries EXCEPT ![f] = @ + 1]
     /\ UNCHANGED <<life, feature>>

\* A plugin forwards a message of the master and starts the worker if needed.
handleFeatureMessage(f) ==
  /\ listening
  /\ sent < MaxMessages
  /\ sent' = sent + 1
  /\ IF f \in running
     THEN /\ pending' = [pending EXCEPT ![f] = Append(@, sent')]
          /\ accepted' = [accepted EXCEPT ![f] = Append(@, sent')]
          /\ UNCHANGED <<running, socket, process, killTimer, retries, life, feature, link,
                         made, forsaken>>
     ELSE startWorker(f, <<sent'>>)
  /\ UNCHANGED <<listening, hello, wire, received, session>>

\* A plugin starts a fresh worker for every request (DesktopAccessDialog::exec).
restartWorker(f) ==
  /\ listening
  /\ f \in running
  /\ sent < MaxMessages
  /\ sent' = sent + 1
  /\ startWorker(f, <<sent'>>)
  /\ UNCHANGED <<listening, hello, wire, received, session>>

\* The retry timer of a failed start.
retryStart(f) ==
  /\ listening
  /\ retries[f] > 0
  /\ \/ /\ session
        /\ \E p \in Processes :
             /\ life[p] = "unused"
             /\ life' = [life EXCEPT ![p] = "starting"]
             /\ feature' = [feature EXCEPT ![p] = f]
             /\ made' = [made EXCEPT ![f] = p]
        /\ forsaken' = forsakenBy({f})
        /\ retries' = [retries EXCEPT ![f] = @ - 1]
        /\ running' = running \cup {f}
        /\ socket' = [socket EXCEPT ![f] = NoProcess]
        /\ pending' = [pending EXCEPT ![f] = <<>>]
        /\ accepted' = [accepted EXCEPT ![f] = <<>>]
        /\ link' = closedBy(f)
        /\ UNCHANGED <<process, killTimer>>
     \/ /\ ~ session
        /\ stopWorker(f)
        /\ UNCHANGED <<retries, life, feature>>
  /\ UNCHANGED <<listening, hello, wire, received, session, sent>>

\* A plugin stops the worker (DesktopAccessDialog::abort, DemoFeaturePlugin).
stop(f) ==
  /\ listening
  /\ f \in running
  /\ stopWorker(f)
  /\ UNCHANGED <<retries, listening, life, feature, hello, wire, received, session, sent>>

\* The entry keeps the socket it has.
adoptedSocket(p) == IF socket[feature[p]] = NoProcess THEN p ELSE socket[feature[p]]

\* processConnection(): the init message names the feature; it is not dispatched.
processConnection(p) ==
  /\ p \in hello
  /\ listening
  /\ link[p] # "closedByServer"
  /\ hello' = hello \ {p}
  /\ socket' = IF feature[p] \in running
               THEN [socket EXCEPT ![feature[p]] = adoptedSocket(p)] ELSE socket
  /\ UNCHANGED <<running, process, pending, killTimer, retries, listening, life,
                 feature, link, wire, received, session, sent, historyVars>>

\* Mutant: the entry of a worker that has gone is kept.
gone_kept(p) == {}

gone(p) == {f \in running : socket[f] = p}

\* closeConnection(): the worker has closed its connection.
closeConnection(p) ==
  /\ listening
  /\ link[p] = "closedByWorker"
  /\ p \notin hello
  /\ link' = [link EXCEPT ![p] = "none"]
  /\ running' = running \ gone(p)
  /\ socket' = [f \in Features |-> IF f \in gone(p) THEN NoProcess ELSE socket[f]]
  /\ process' = [f \in Features |-> IF f \in gone(p) THEN NoProcess ELSE process[f]]
  /\ pending' = [f \in Features |-> IF f \in gone(p) THEN <<>> ELSE pending[f]]
  /\ accepted' = [f \in Features |-> IF f \in gone(p) THEN <<>> ELSE accepted[f]]
  /\ made' = [f \in Features |-> IF f \in gone(p) THEN NoProcess ELSE made[f]]
  /\ forsaken' = forsakenBy(gone(p))
  /\ UNCHANGED <<killTimer, retries, listening, life, feature, hello, wire, received,
                 session, sent>>

\* Mutant: messages stay pending after they have been sent.
remaining_all(f) == pending[f]

\* Mutant: messages for a worker that has not connected yet are dropped.
remaining_none(f) == <<>>

remaining(f) == IF Connected(f) THEN <<>> ELSE pending[f]

\* The 100 ms timer.
sendPendingMessages ==
  /\ listening
  /\ \E f \in running : Connected(f) /\ pending[f] # <<>>
  /\ wire' = [p \in Processes |->
       IF Connected(feature[p]) /\ socket[feature[p]] = p
       THEN wire[p] \o pending[feature[p]] ELSE wire[p]]
  /\ pending' = [f \in Features |-> remaining(f)]
  /\ UNCHANGED <<running, socket, process, killTimer, retries, listening, life,
                 feature, link, hello, received, session, sent, historyVars>>

killTimeout(p) ==
  /\ listening
  /\ p \in killTimer
  /\ killTimer' = killTimer \ {p}
  /\ life' = [life EXCEPT ![p] = "ended"]
  /\ link' = [link EXCEPT ![p] = IF @ = "up" THEN "closedByWorker" ELSE "none"]
  /\ wire' = [wire EXCEPT ![p] = <<>>]
  /\ UNCHANGED <<running, socket, process, pending, retries, listening, feature,
                 hello, received, session, sent, historyVars>>

\* ~FeatureWorkerManager(): nothing listens any more, all workers are stopped and
\* the remaining sockets are closed with the TCP server; the kill timers have no
\* event loop left to run in.
shutdown ==
  /\ listening
  /\ listening' = FALSE
  /\ running' = {}
  /\ socket' = [f \in Features |-> NoProcess]
  /\ process' = [f \in Features |-> NoProcess]
  /\ pending' = [f \in Features |-> <<>>]
  /\ accepted' = [f \in Features |-> <<>>]
  /\ made' = [f \in Features |-> NoProcess]
  /\ forsaken' = forsakenBy(running)
  /\ retries' = [f \in Features |-> 0]
  /\ killTimer' = {}
  /\ link' = [p \in Processes |-> IF link[p] = "up" THEN "closedByServer" ELSE link[p]]
  /\ UNCHANGED <<life, feature, hello, wire, received, session, sent>>

-----------------------------------------------------------------------------
(* The worker processes                                                    *)

\* The process connects and introduces itself; a worker that finds nobody
\* listening stays without a connection.
sendInitMessage(p) ==
  /\ life[p] = "starting"
  /\ life' = [life EXCEPT ![p] = "alive"]
  /\ link' = [link EXCEPT ![p] = IF listening THEN "up" ELSE @]
  /\ hello' = IF listening THEN hello \cup {p} ELSE hello
  /\ UNCHANGED <<managerVars, feature, wire, received, session, sent, historyVars>>

\* Mutant: a batch of messages is handled in reverse order.
batch_reversed(p) == Reverse(wire[p])

batch(p) == wire[p]

receiveMessage(p) ==
  /\ life[p] = "alive"
  /\ wire[p] # <<>>
  /\ received' = [received EXCEPT ![p] = @ \o batch(p)]
  /\ wire' = [wire EXCEPT ![p] = <<>>]
  /\ UNCHANGED <<managerVars, life, feature, link, hello, session, sent, historyVars>>

\* The worker quits: its connection was closed, its task is done or it crashed.
quit(p) ==
  /\ life[p] = "alive" \/ life[p] = "starting"
  /\ life' = [life EXCEPT ![p] = "ended"]
  /\ link' = [link EXCEPT ![p] = IF @ = "up" THEN "closedByWorker" ELSE "none"]
  /\ killTimer' = killTimer \ {p}
  /\ wire' = [wire EXCEPT ![p] = <<>>]
  /\ UNCHANGED <<running, socket, process, pending, retries, listening, feature,
                 hello, received, session, sent, historyVars>>

\* A user logs on or off.
changeSession ==
  /\ session' = ~ session
  /\ UNCHANGED <<managerVars, processVars, sent, historyVars>>

-----------------------------------------------------------------------------
FeatureStep(f) ==
  \/ handleFeatureMessage(f)
  \/ restartWorker(f)
  \/ retryStart(f)
  \/ stop(f)

ProcessStep(p) ==
  \/ processConnection(p)
  \/ closeConnection(p)
  \/ killTimeout(p)
  \/ sendInitMessage(p)
  \/ receiveMessage(p)
  \/ quit(p)

Next ==
  \/ \E f \in Features : FeatureStep(f)
  \/ \E p \in Processes : ProcessStep(p)
  \/ sendPendingMessages
  \/ shutdown
  \/ changeSession

Spec == Init /\ [][Next]_vars

\* Sockets are served, timers fire, and a process that was started or whose
\* connection the server has closed gets on with it.  That a worker ends by itself
\* is not assumed.
Fairness ==
  /\ WF_vars(sendPendingMessages)
  /\ \A p \in Processes :
       /\ WF_vars(processConnection(p))
       /\ WF_vars(closeConnection(p))
       /\ WF_vars(killTimeout(p))
       /\ WF_vars(sendInitMessage(p))
       /\ WF_vars(receiveMessage(p))
       /\ WF_vars(link[p] = "closedByServer" /\ quit(p))

FairSpec == Spec /\ Fairness

-----------------------------------------------------------------------------
ManagerTypeOK ==
  /\ running \subseteq Features
  /\ socket \in [Features -> Processes \cup {NoProcess}]
  /\ process \in [Features -> Processes \cup {NoProcess}]
  /\ pending \in [Features -> Seq(Message)]
  /\ killTimer \subseteq Processes
  /\ retries \in [Features -> 0..MaxRetries]
  /\ listening \in BOOLEAN

ProcessTypeOK ==
  /\ life \in [Processes -> Life]
  /\ feature \in [Processes -> Features]
  /\ link \in [Processes -> Link]
  /\ hello \subseteq Processes
  /\ wire \in [Processes -> Seq(Message)]
  /\ received \in [Processes -> Seq(Message)]

EnvironmentTypeOK ==
  /\ session \in BOOLEAN
  /\ sent \in 0..MaxMessages
  /\ accepted \in [Features -> Seq(Message)]
  /\ made \in [Features -> Processes \cup {NoProcess}]
  /\ forsaken \subseteq Processes

\* Every variable keeps its type: the entries, connections and processes the code
\* names exist.
TypeOK == ManagerTypeOK /\ ProcessTypeOK /\ EnvironmentTypeOK

\* The socket of an entry is a connection that the server has not closed, to a
\* process of that very feature; it is the one the entry was made for, unless that
\* of an earlier entry came late: its entry had ended before it connected.
SocketsAreOwn ==
  \A f \in running :
    socket[f] # NoProcess =>
      /\ feature[socket[f]] = f
      /\ link[socket[f]] \in {"up", "closedByWorker"}
      /\ socket[f] = made[f] \/ socket[f] \in forsaken

Lasting(p) ==
  /\ life[p] \in {"starting", "alive"}
  /\ link[p] # "closedByServer"
  /\ p \notin killTimer

\* However often a feature's worker is started, stopped and retried, one process at
\* most is not about to end, not counting those whose entry had ended before it got
\* their connection: stopWorker() can neither close nor, unmanaged, kill these.
OneWorkerPerFeature ==
  \A f \in Features :
    Cardinality({p \in Processes \ forsaken : Lasting(p) /\ feature[p] = f}) <= 1

\* Destroying the manager shuts down all worker processes (comment in the
\* destructor): each one has been told to quit.
AllWorkersShutDown ==
  ~ listening =>
    \A p \in Processes : life[p] \in {"starting", "alive"} => link[p] = "closedByServer"

\* What the feature's worker has handled.
Delivered(f) == IF Connected(f) THEN received[socket[f]] ELSE <<>>

Channels == INSTANCE WorkerChannel WITH
              delivered <- [f \in Features |-> Delivered(f)]

\* FeatureWorkerManager implements WorkerChannel: a worker that counts as running
\* handles exactly the messages accepted since it was started, in their order,
\* whichever process and connection they take.
KeepsChannel == Channels!Spec

Handled(f, m) == \E i \in DOMAIN Delivered(f) : Delivered(f)[i] = m

Owed(f, m) == ~ Handled(f, m) /\ \E i \in DOMAIN accepted[f] : accepted[f][i] = m

\* A process of the feature may still introduce itself.
Awaited(f) == \E p \in Processes : feature[p] = f /\ (life[p] = "starting" \/ p \in hello)

\* A message that is accepted is handled, unless its worker is stopped, replaced or
\* goes away, or has ended before it connected; that one keeps its entry, with
\* nobody left to connect to it.
PendingIsHandled ==
  \A f \in Features : \A m \in Message :
    Owed(f, m) ~> ~ Owed(f, m) \/ (~ Connected(f) /\ ~ Awaited(f))

\* A process whose entry has ended does not stay behind, unless the entry ended
\* before it had got the process's connection.
NoProcessLeftBehind ==
  \A p \in Processes :
    (/\ life[p] \in {"starting", "alive"}
     /\ made[feature[p]] # p
     /\ p \notin forsaken) ~> life[p] = "ended"

=============================================================================
