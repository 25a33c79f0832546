---------------------------- MODULE LinuxServiceCore ----------------------------
(***************************************************************************)
(* The Linux service: it follows the sessions of the login manager and     *)
(* keeps one server process per graphical session, or one altogether if    *)
(* multi session mode is off.  PlatformServiceCore gives each server of a  *)
(* multi session computer a session id, the offset of its network ports.   *)
(*                                                                         *)
(* Signals of the login manager are queued while the service works on      *)
(* something else; startServer() asks the login manager several times and  *)
(* may wait many seconds for other servers to end, so a session can change *)
(* under it.  Stopping one server, which blocks the event loop, is one     *)
(* step.  A session path is not used again.                                *)
(***************************************************************************)
EXTENDS Integers, Sequences, FiniteSets

CONSTANTS
  Sessions,       \* session paths
  NoSession,
  Graphical,      \* sessions of type "x11"
  Processes,      \* QProcess objects of the service
  NoProcess,
  SessionIdMax,
  MaxKills        \* bound on the service being killed from outside

ASSUME LinuxServiceCoreAssumption ==
  /\ NoSession \notin Sessions
  /\ Graphical \subseteq Sessions
  /\ Graphical # {}
  /\ NoProcess \notin Processes
  /\ SessionIdMax \in Nat
  /\ MaxKills \in Nat

VARIABLES
  multiSession,    \* m_multiSession
  \* the login manager
  session,         \* "none", "opening", "open", "closing" or "removed"
  young,           \* sessions up for less than SessionUptimeSecondsMinimum
  signals,         \* SessionNew and SessionRemoved on their way to the service
  \* the service
  service,         \* "down", "subscribed" or "up"
  listed,          \* result of listSessions() that run() has not worked off
  starting,        \* the session startServer() has found ready
  retries,         \* pending retry timers of startServer(), by session
  serverProcesses, \* m_serverProcesses
  sessionIds,      \* keys of m_sessions
  \* the server processes
  life,            \* "unused", "running", "ended" or, once noticed, "finished"
  owner,           \* the session a process was started for
  sessionId,       \* what VeyonCore::sessionId() yields in the process
  \* history and bounds
  twice,           \* sessions that were both announced and listed
  kills

logindVars == <<session, young>>
serverVars == <<serverProcesses, sessionIds, life, owner, sessionId>>
vars == <<multiSession, logindVars, signals, service, listed, starting, retries,
          serverVars, twice, kills>>

SessionIdInvalid == -1

SessionId == 0..SessionIdMax

Signal == {"SessionNew", "SessionRemoved"} \X Sessions

Init ==
  /\ multiSession \in BOOLEAN
  /\ session = [s \in Sessions |-> "none"]
  /\ young = {}
  /\ signals = <<>>
  /\ service = "down"
  /\ listed = {}
  /\ starting = NoSession
  /\ retries = [s \in Sessions |-> 0]
  /\ serverProcesses = [s \in Sessions |-> NoProcess]
  /\ sessionIds = {}
  /\ life = [p \in Processes |-> "unused"]
  /\ owner = [p \in Processes |-> NoSession]
  /\ sessionId = [p \in Processes |-> SessionIdInvalid]
  /\ twice = {}
  /\ kills = 0

Exists(s) == session[s] \in {"opening", "open", "closing"}

\* The event loop serves timers and signals only between two calls.
InEventLoop == service = "up" /\ listed = {} /\ starting = NoSession

Announced(kind, s) == \E i \in DOMAIN signals : signals[i] = <<kind, s>>

-----------------------------------------------------------------------------
(* The login manager and the processes of a session (external)             *)

announce(kind, s) ==
  signals' = IF service = "down" THEN signals ELSE Append(signals, <<kind, s>>)

login(s) ==
  /\ session[s] = "none"
  /\ session' = [session EXCEPT ![s] = "opening"]
  /\ young' = young \cup {s}
  /\ announce("SessionNew", s)
  /\ UNCHANGED <<multiSession, service, listed, starting, retries, serverVars, twice, kills>>

\* The processes of a session come and go; without any there is no environment.
changeDesktop(s) ==
  /\ \/ session[s] = "opening" /\ session' = [session EXCEPT ![s] = "open"]
     \/ session[s] \in {"opening", "open"} /\ session' = [session EXCEPT ![s] = "closing"]
  /\ UNCHANGED <<multiSession, young, signals, service, listed, starting, retries,
                 serverVars, twice, kills>>

logout(s) ==
  /\ session[s] = "closing"
  /\ session' = [session EXCEPT ![s] = "removed"]
  /\ announce("SessionRemoved", s)
  /\ UNCHANGED <<multiSession, young, service, listed, starting, retries, serverVars,
                 twice, kills>>

grow(s) ==
  /\ s \in young
  /\ young' = young \ {s}
  /\ UNCHANGED <<multiSession, session, signals, service, listed, starting, retries,
                 serverVars, twice, kills>>

-----------------------------------------------------------------------------
(* Stopping servers                                                        *)

\* The service is terminated; the service manager ends what it has started and
\* starts it again.
terminated ==
  /\ service' = "down"
  /\ signals' = <<>>
  /\ listed' = {}
  /\ starting' = NoSession
  /\ retries' = [s \in Sessions |-> 0]
  /\ serverProcesses' = [s \in Sessions |-> NoProcess]
  /\ sessionIds' = {}
  /\ life' = [p \in Processes |-> "unused"]
  /\ owner' = [p \in Processes |-> NoSession]
  /\ sessionId' = [p \in Processes |-> SessionIdInvalid]

serversOf(S) == {serverProcesses[s] : s \in S} \ {NoProcess}

\* Mutant: closeSession() is not called.
idsOf_none(P) == {}

\* closeSession() frees the id found in the environment of the process.
idsOf(P) == IF multiSession THEN {sessionId[p] : p \in P} ELSE {}

\* Mutant: the entry is forgotten and its process left alone.
ended_forgotten(P) == {}

\* SIGINT, terminate(), kill() and the destructor of QProcess end a process.
ended(P) == P

\* processId() of a process that has been seen to finish is 0.
InterruptsGroup(S) == \E p \in serversOf(S) : life[p] = "finished"

\* stopServer() for all sessions of S without such a process.
stopServers(S) ==
  /\ LET P == ended(serversOf(S)) IN
       /\ life' = [p \in Processes |-> IF p \in P THEN "unused" ELSE life[p]]
       /\ owner' = [p \in Processes |-> IF p \in P THEN NoSession ELSE owner[p]]
       /\ sessionId' = [p \in Processes |-> IF p \in P THEN SessionIdInvalid ELSE sessionId[p]]
  /\ sessionIds' = sessionIds \ idsOf(serversOf(S))
  /\ serverProcesses' = [s \in Sessions |-> IF s \in S THEN NoProcess ELSE serverProcesses[s]]

-----------------------------------------------------------------------------
(* Starting servers                                                        *)

\* Mutant: an id is derived from the number of sessions.
openSession_counted ==
  IF Cardinality(sessionIds) \in SessionId THEN Cardinality(sessionIds) ELSE SessionIdInvalid

\* Mutant: the loop tries one id too many.
openSession_oneTooMany ==
  IF SessionId \subseteq sessionIds THEN SessionIdMax + 1
  ELSE CHOOSE i \in SessionId \ sessionIds : \A j \in SessionId \ sessionIds : i <= j

\* openSession(): the lowest free id.
openSession ==
  IF SessionId \subseteq sessionIds THEN SessionIdInvalid
  ELSE CHOOSE i \in SessionId \ sessionIds : \A j \in SessionId \ sessionIds : i <= j

\* Mutant: multi session mode is assumed.
mustStopOthers_never == {}

\* "make sure no other server is still running"
mustStopOthers ==
  IF multiSession THEN {} ELSE {s \in Sessions : serverProcesses[s] # NoProcess}

\* Mutant: the retry timer is forgotten.
retryLater_never(s, others) ==
  retries' = others

\* Ask again after a second.
retryLater(s, others) ==
  retries' = [others EXCEPT ![s] = @ + 1]

\* Mutant: startServer() goes on although it will be called again.
whenEmpty_goesOn(s) == s

\* Without an environment startServer() returns.
whenEmpty(s) == NoSession

\* startServer() up to the question for the session's age; "others" are the timers
\* that remain.  A session that is gone has no type any more.
startServer(s, others) ==
  \/ /\ ~ Exists(s) \/ s \notin Graphical
     /\ retries' = others
     /\ UNCHANGED <<service, starting, serverVars>>
  \/ /\ s \in Graphical /\ session[s] \in {"opening", "closing"}
     /\ retryLater(s, others)
     /\ starting' = whenEmpty(s)
     /\ UNCHANGED <<service, serverVars>>
  \/ /\ s \in Graphical /\ session[s] = "open"
     /\ ~ InterruptsGroup(mustStopOthers)
     /\ stopServers(mustStopOthers)
     /\ retries' = others
     /\ starting' = s
     /\ UNCHANGED service

\* The same, if stopAllServers() comes to a process that has finished.
startServerInterrupts(s) ==
  /\ s \in Graphical /\ session[s] = "open"
  /\ InterruptsGroup(mustStopOthers)
  /\ terminated

newProcess == CHOOSE p \in Processes : life[p] = "unused"

\* startServer() goes on; a session that is gone has no age and passes.
startProcess ==
  /\ service = "up"
  /\ starting # NoSession
  /\ starting' = NoSession
  /\ \/ /\ Exists(starting) /\ starting \in young
        /\ retryLater(starting, retries)
        /\ UNCHANGED serverVars
     \/ /\ ~ (Exists(starting) /\ starting \in young)
        /\ \E p \in Processes : life[p] = "unused"
        /\ life' = [life EXCEPT ![newProcess] = "running"]
        /\ owner' = [owner EXCEPT ![newProcess] = starting]
        /\ sessionId' = [sessionId EXCEPT
             ![newProcess] = IF multiSession THEN openSession ELSE 0]
        /\ serverProcesses' = [serverProcesses EXCEPT ![starting] = newProcess]
        /\ sessionIds' = IF multiSession THEN sessionIds \cup ({openSession} \cap SessionId)
                         ELSE sessionIds
        /\ UNCHANGED retries
  /\ UNCHANGED <<multiSession, logindVars, signals, service, listed, twice, kills>>

-----------------------------------------------------------------------------
(* The service                                                             *)

connectToLoginManager ==
  /\ service = "down"
  /\ service' = "subscribed"
  /\ UNCHANGED <<multiSession, logindVars, signals, listed, starting, retries, serverVars,
                 twice, kills>>

\* run() asks for the sessions there are ...
listSessions ==
  /\ service = "subscribed"
  /\ service' = "up"
  /\ listed' = {s \in Sessions : Exists(s)}
  /\ twice' = twice \cup {s \in Sessions : Exists(s) /\ Announced("SessionNew", s)}
  /\ UNCHANGED <<multiSession, logindVars, signals, starting, retries, serverVars, kills>>

\* ... and starts a server for each before it enters the event loop.
startListed(s) ==
  /\ s \in listed
  /\ starting = NoSession
  /\ \/ /\ startServer(s, retries)
        /\ listed' = listed \ {s}
        /\ UNCHANGED signals
     \/ startServerInterrupts(s)
  /\ UNCHANGED <<multiSession, logindVars, twice, kills>>

sessionNew(s) ==
  /\ InEventLoop
  /\ signals # <<>> /\ Head(signals) = <<"SessionNew", s>>
  /\ \/ /\ startServer(s, retries)
        /\ signals' = Tail(signals)
        /\ UNCHANGED listed
     \/ startServerInterrupts(s)
  /\ UNCHANGED <<multiSession, logindVars, twice, kills>>

retryStart(s) ==
  /\ InEventLoop
  /\ retries[s] > 0
  /\ \/ /\ startServer(s, [retries EXCEPT ![s] = @ - 1])
        /\ UNCHANGED <<signals, listed>>
     \/ startServerInterrupts(s)
  /\ UNCHANGED <<multiSession, logindVars, twice, kills>>

\* stopServer() as slot.
sessionRemoved(s) ==
  /\ InEventLoop
  /\ signals # <<>> /\ Head(signals) = <<"SessionRemoved", s>>
  /\ \/ /\ ~ InterruptsGroup({s})
        /\ stopServers({s})
        /\ signals' = Tail(signals)
        /\ UNCHANGED <<service, listed, starting, retries>>
     \/ InterruptsGroup({s}) /\ terminated
  /\ UNCHANGED <<multiSession, logindVars, twice, kills>>

\* A server ends by itself; its QProcess learns it in the event loop.  Nothing else
\* happens: no slot is connected to finished().
endServer(p) ==
  /\ \/ life[p] = "running" /\ life' = [life EXCEPT ![p] = "ended"]
     \/ InEventLoop /\ life[p] = "ended" /\ life' = [life EXCEPT ![p] = "finished"]
  /\ UNCHANGED <<multiSession, logindVars, signals, service, listed, starting, retries,
                 serverProcesses, sessionIds, owner, sessionId, twice, kills>>

\* The service crashes or is restarted by the administrator.
killService ==
  /\ service # "down"
  /\ kills < MaxKills
  /\ kills' = kills + 1
  /\ terminated
  /\ UNCHANGED <<multiSession, logindVars, twice>>

-----------------------------------------------------------------------------
SessionStep(s) ==
  \/ login(s)
  \/ changeDesktop(s)
  \/ logout(s)
  \/ grow(s)
  \/ startListed(s)
  \/ sessionNew(s)
  \/ retryStart(s)
  \/ sessionRemoved(s)

Next ==
  \/ \E s \in Sessions : SessionStep(s)
  \/ \E p \in Processes : endServer(p)
  \/ connectToLoginManager
  \/ listSessions
  \/ startProcess
  \/ killService

Spec == Init /\ [][Next]_vars

\* The service manager restarts the service, the service gets on with its work,
\* timers and signals are served, and time passes.  Nothing is assumed of users.
Fairness ==
  /\ WF_vars(connectToLoginManager)
  /\ WF_vars(listSessions)
  /\ WF_vars(startProcess)
  /\ \A s \in Sessions :
       /\ WF_vars(startListed(s))
       /\ WF_vars(sessionNew(s))
       /\ WF_vars(retryStart(s))
       /\ WF_vars(sessionRemoved(s))
       /\ WF_vars(grow(s))

FairSpec == Spec /\ Fairness

-----------------------------------------------------------------------------
\* Every variable keeps its type: sessions, processes and session ids the service
\* works with exist.
TypeOK ==
  /\ multiSession \in BOOLEAN
  /\ session \in [Sessions -> {"none", "opening", "open", "closing", "removed"}]
  /\ young \subseteq Sessions
  /\ signals \in Seq(Signal)
  /\ service \in {"down", "subscribed", "up"}
  /\ listed \subseteq Sessions
  /\ starting \in Sessions \cup {NoSession}
  /\ retries \in [Sessions -> Nat]
  /\ serverProcesses \in [Sessions -> Processes \cup {NoProcess}]
  /\ sessionIds \subseteq SessionId
  /\ life \in [Processes -> {"unused", "running", "ended", "finished"}]
  /\ owner \in [Processes -> Sessions \cup {NoSession}]
  /\ sessionId \in [Processes -> SessionId \cup {SessionIdInvalid}]
  /\ twice \subseteq Sessions
  /\ kills \in 0..MaxKills

Running(p) == life[p] = "running"

\* Two servers that run at the same time never share their network ports, unless
\* the session ids are used up; without multi session mode only one server runs.
PortsAreDistinct ==
  \A p, q \in Processes :
    Running(p) /\ Running(q) /\ sessionId[p] = sessionId[q] /\ p # q =>
      sessionId[p] = SessionIdInvalid

\* However sessions come and go, exactly the ids of the servers the service still
\* has are taken: none gets lost.
SessionIdsInUse ==
  multiSession =>
    sessionIds = {sessionId[p] : p \in {q \in Processes : life[q] # "unused"}} \ {SessionIdInvalid}

\* The service can stop every server it has started, except one replaced by a
\* second start for a session that was both listed and announced.
ServersAreKnown ==
  \A p \in Processes :
    Running(p) /\ serverProcesses[owner[p]] # p => owner[p] \in twice

\* When the service has handled a session's removal, no server of it runs: no retry
\* and no start under way brings one back.
RemovedMeansStopped ==
  \A p \in Processes :
    /\ InEventLoop
    /\ Running(p)
    /\ session[owner[p]] = "removed"
    /\ ~ Announced("SessionRemoved", owner[p])
    => owner[p] \in twice

StartPending(s) ==
  retries[s] > 0 \/ starting = s \/ s \in listed \/ Announced("SessionNew", s)

\* Each graphical session that stays gets its server, also when the service is
\* restarted, however slowly the session starts.  Without multi session mode this is
\* promised only while a start for the session is under way.
SessionIsServed ==
  \A s \in Graphical :
    (session[s] = "open" /\ (multiSession \/ StartPending(s))) ~>
      (serverProcesses[s] # NoProcess \/ session[s] # "open")

\* Stopping the server of a removed session interrupts that server ("tell x11vnc to
\* shutdown") and no other one.
StopsOwnServerOnly ==
  [][\A s \in Sessions : sessionRemoved(s) =>
       \A p \in Processes : Running(p) /\ owner[p] # s => life'[p] = "running"]_vars

=============================================================================
