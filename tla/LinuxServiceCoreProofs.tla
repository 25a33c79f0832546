------------------------- MODULE LinuxServiceCoreProofs -------------------------
(***************************************************************************)
(* Theorems about LinuxServiceCore for any number of sessions, processes   *)
(* and session ids: type correctness, that two servers never use the same  *)
(* network ports, that the service can stop every server it started, and   *)
(* that no session is forgotten.                                           *)
(***************************************************************************)
EXTENDS LinuxServiceCore, WellFoundedInduction, TLAPS

-----------------------------------------------------------------------------
(* Session ids                                                             *)

\* A set of natural numbers that is not empty has a smallest member.
LEMMA LeastMember ==
  ASSUME NEW T \in SUBSET Nat, T # {}
  PROVE  \E i \in T : \A j \in T : i <= j
<1> DEFINE R == OpToRel(<, Nat)
<1>1. \E i \in T : \A j \in T : ~ (<<j, i>> \in R)
  <2>1. IsWellFoundedOn(R, Nat)
    BY NatLessThanWellFounded
  <2> HIDE DEF R
  <2> QED
    BY <2>1, WFMin
<1>2. \A i, j \in T : ~ (<<j, i>> \in R) => i <= j
  BY DEF OpToRel
<1> HIDE DEF R
<1> QED
  BY <1>1, <1>2

\* openSession() returns an id that nobody has, or SessionIdInvalid.
LEMMA OpenSessionIsFree ==
  openSession \in SessionId \ sessionIds \/ openSession = SessionIdInvalid
<1>1. CASE SessionId \subseteq sessionIds
  BY <1>1 DEF openSession
<1>2. CASE ~ (SessionId \subseteq sessionIds)
  <2>1. SessionId \ sessionIds \in SUBSET Nat /\ SessionId \ sessionIds # {}
    BY <1>2, LinuxServiceCoreAssumption DEF SessionId
  <2>2. \E i \in SessionId \ sessionIds : \A j \in SessionId \ sessionIds : i <= j
    BY <2>1, LeastMember
  <2> QED
    BY <1>2, <2>2 DEF openSession
<1> QED
  BY <1>1, <1>2

LEMMA InvalidIsNoId == SessionIdInvalid \notin SessionId
  BY LinuxServiceCoreAssumption DEF SessionIdInvalid, SessionId

-----------------------------------------------------------------------------
(* Type correctness                                                        *)

LEMMA TypeInit == Init => TypeOK
  BY LinuxServiceCoreAssumption DEF Init, TypeOK, SessionIdInvalid, SessionId, Signal

LEMMA AnnounceTypes ==
  ASSUME TypeOK, NEW kind \in {"SessionNew", "SessionRemoved"}, NEW s \in Sessions, announce(kind, s)
  PROVE  signals' \in Seq(Signal)
  BY DEF TypeOK, announce, Signal

LEMMA TerminatedTypes ==
  ASSUME TypeOK, terminated
  PROVE  /\ signals' \in Seq(Signal)
         /\ service' \in {"down", "subscribed", "up"}
         /\ listed' \subseteq Sessions
         /\ starting' \in Sessions \cup {NoSession}
         /\ retries' \in [Sessions -> Nat]
         /\ serverProcesses' \in [Sessions -> Processes \cup {NoProcess}]
         /\ sessionIds' \subseteq SessionId
         /\ life' \in [Processes -> {"unused", "running", "ended", "finished"}]
         /\ owner' \in [Processes -> Sessions \cup {NoSession}]
         /\ sessionId' \in [Processes -> SessionId \cup {SessionIdInvalid}]
  BY DEF TypeOK, terminated

ServerTypeOK ==
  /\ serverProcesses \in [Sessions -> Processes \cup {NoProcess}]
  /\ sessionIds \subseteq SessionId
  /\ life \in [Processes -> {"unused", "running", "ended", "finished"}]
  /\ owner \in [Processes -> Sessions \cup {NoSession}]
  /\ sessionId \in [Processes -> SessionId \cup {SessionIdInvalid}]

LEMMA StopTypes ==
  ASSUME TypeOK, NEW S \in SUBSET Sessions, stopServers(S)
  PROVE  ServerTypeOK'
  BY DEF TypeOK, ServerTypeOK, stopServers

LEMMA StartTypes ==
  ASSUME TypeOK, NEW s \in Sessions, NEW others \in [Sessions -> Nat], startServer(s, others)
  PROVE  /\ ServerTypeOK'
         /\ service' = service
         /\ retries' \in [Sessions -> Nat]
         /\ starting' \in {NoSession, s, starting}
<1>1. CASE /\ UNCHANGED <<service, serverVars>>
           /\ retries' = others \/ retryLater(s, others)
           /\ starting' \in {starting, NoSession}
  <2>1. ServerTypeOK'
    BY <1>1 DEF TypeOK, ServerTypeOK, serverVars
  <2> QED
    BY <1>1, <2>1 DEF retryLater
<1>2. CASE stopServers(mustStopOthers) /\ retries' = others /\ starting' = s /\ UNCHANGED service
  <2>1. mustStopOthers \in SUBSET Sessions
    BY DEF mustStopOthers
  <2> QED
    BY <1>2, <2>1, StopTypes
<1> QED
  BY <1>1, <1>2 DEF startServer, whenEmpty

LEMMA TypeStep == TypeOK /\ [Next]_vars => TypeOK'
<1> SUFFICES ASSUME TypeOK, [Next]_vars
             PROVE  TypeOK'
  OBVIOUS
<1>1. ASSUME NEW s \in Sessions, login(s)
      PROVE  TypeOK'
  <2>1. signals' \in Seq(Signal)
    BY <1>1, AnnounceTypes DEF login
  <2> QED
    BY <1>1, <2>1 DEF login, TypeOK, serverVars
<1>2. ASSUME NEW s \in Sessions, changeDesktop(s) \/ grow(s)
      PROVE  TypeOK'
  BY <1>2 DEF changeDesktop, grow, TypeOK, serverVars
<1>3. ASSUME NEW s \in Sessions, logout(s)
      PROVE  TypeOK'
  <2>1. signals' \in Seq(Signal)
    BY <1>3, AnnounceTypes DEF logout
  <2> QED
    BY <1>3, <2>1 DEF logout, TypeOK, serverVars
<1>4. ASSUME NEW s \in Sessions, terminated,
             UNCHANGED <<multiSession, logindVars, twice, kills>>
      PROVE  TypeOK'
  BY <1>4, TerminatedTypes DEF TypeOK, logindVars
<1>5. ASSUME NEW s \in Sessions, NEW others \in [Sessions -> Nat], startServer(s, others),
             UNCHANGED <<multiSession, logindVars, twice, kills>>,
             listed' \subseteq listed, signals' \in Seq(Signal)
      PROVE  TypeOK'
  BY <1>5, StartTypes DEF TypeOK, ServerTypeOK, logindVars
<1>6. ASSUME NEW s \in Sessions, startListed(s)
      PROVE  TypeOK'
  <2>1. retries \in [Sessions -> Nat] /\ signals \in Seq(Signal)
    BY DEF TypeOK
  <2> QED
    BY <1>4, <1>5, <1>6, <2>1 DEF startListed, startServerInterrupts
<1>7. ASSUME NEW s \in Sessions, sessionNew(s)
      PROVE  TypeOK'
  <2>1. retries \in [Sessions -> Nat] /\ (signals # <<>> => Tail(signals) \in Seq(Signal))
    BY DEF TypeOK
  <2> QED
    BY <1>4, <1>5, <1>7, <2>1 DEF sessionNew, startServerInterrupts
<1>8. ASSUME NEW s \in Sessions, retryStart(s)
      PROVE  TypeOK'
  <2>1. signals \in Seq(Signal) /\ [retries EXCEPT ![s] = @ - 1] \in [Sessions -> Nat]
    BY <1>8 DEF TypeOK, retryStart
  <2> QED
    BY <1>4, <1>5, <1>8, <2>1 DEF retryStart, startServerInterrupts
<1>9. ASSUME NEW s \in Sessions, sessionRemoved(s)
      PROVE  TypeOK'
  <2>1. signals # <<>> => Tail(signals) \in Seq(Signal)
    BY DEF TypeOK
  <2>2. CASE stopServers({s}) /\ signals' = Tail(signals)
             /\ UNCHANGED <<service, listed, starting, retries>>
    <3>1. ServerTypeOK'
      BY <2>2, StopTypes
    <3> QED
      BY <1>9, <2>1, <2>2, <3>1 DEF sessionRemoved, TypeOK, ServerTypeOK, logindVars
  <2> QED
    BY <1>4, <1>9, <2>2 DEF sessionRemoved
<1>10. ASSUME NEW p \in Processes, endServer(p)
       PROVE  TypeOK'
  BY <1>10 DEF endServer, TypeOK, logindVars
<1>11. CASE connectToLoginManager \/ listSessions
  BY <1>11 DEF connectToLoginManager, listSessions, TypeOK, logindVars, serverVars
<1>12. CASE startProcess
  <2>1. starting \in Sessions
    BY <1>12 DEF startProcess, TypeOK
  <2>2. openSession \in SessionId \cup {SessionIdInvalid} /\ 0 \in SessionId
    BY OpenSessionIsFree, LinuxServiceCoreAssumption DEF SessionId
  <2>3. (\E p \in Processes : life[p] = "unused") => newProcess \in Processes
    BY DEF newProcess
  <2>4. CASE Exists(starting) /\ starting \in young
    <3>1. /\ retryLater(starting, retries) /\ starting' = NoSession
          /\ UNCHANGED <<multiSession, logindVars, signals, service, listed, serverVars,
                         twice, kills>>
      BY <1>12, <2>4 DEF startProcess
    <3> QED
      BY <2>1, <3>1 DEF retryLater, TypeOK, logindVars, serverVars
  <2>5. CASE ~ (Exists(starting) /\ starting \in young)
    <3>1. newProcess \in Processes
      BY <1>12, <2>3, <2>5 DEF startProcess
    <3>3. /\ life' = [life EXCEPT ![newProcess] = "running"]
          /\ owner' = [owner EXCEPT ![newProcess] = starting]
          /\ sessionId' = [sessionId EXCEPT
               ![newProcess] = IF multiSession THEN openSession ELSE 0]
          /\ serverProcesses' = [serverProcesses EXCEPT ![starting] = newProcess]
          /\ sessionIds' \subseteq sessionIds \cup SessionId
      BY <1>12, <2>5 DEF startProcess
    <3>2. ServerTypeOK'
      BY <2>1, <2>2, <3>1, <3>3 DEF TypeOK, ServerTypeOK
    <3> QED
      BY <1>12, <2>5, <3>2 DEF startProcess, TypeOK, ServerTypeOK, logindVars
  <2> QED
    BY <2>4, <2>5
<1>13. CASE killService
  BY <1>13, TerminatedTypes, LinuxServiceCoreAssumption DEF killService, TypeOK, logindVars
<1>14. CASE UNCHANGED vars
  BY <1>14 DEF vars, TypeOK, logindVars, serverVars
<1> QED
  BY <1>1, <1>2, <1>3, <1>6, <1>7, <1>8, <1>9, <1>10, <1>11, <1>12, <1>13, <1>14
  DEF Next, SessionStep

\* Whatever happens to sessions and servers, the service works with existing
\* sessions, processes and ids.
THEOREM TypeCorrect == Spec => []TypeOK
  BY TypeInit, TypeStep, PTL DEF Spec

-----------------------------------------------------------------------------
(* Network ports                                                           *)

Object(p) == life[p] # "unused"

\* The entry of a session is a process started for it.
EntryInv ==
  \A s \in Sessions :
    serverProcesses[s] # NoProcess => Object(serverProcesses[s]) /\ owner[serverProcesses[s]] = s

\* In multi session mode the ids taken are those of the processes there are, and no
\* two of them have the same one.
IdInv ==
  multiSession =>
    /\ \A p \in Processes :
         Object(p) /\ sessionId[p] # SessionIdInvalid => sessionId[p] \in sessionIds
    /\ \A i \in sessionIds : \E p \in Processes : Object(p) /\ sessionId[p] = i
    /\ \A p, q \in Processes :
         Object(p) /\ Object(q) /\ sessionId[p] = sessionId[q] /\ p # q =>
           sessionId[p] = SessionIdInvalid

\* Otherwise there is one process at most, it has an entry, and there is none while
\* another one is about to be started.
SingleInv ==
  ~ multiSession =>
    /\ \A p \in Processes :
         Object(p) => /\ starting = NoSession
                      /\ owner[p] \in Sessions
                      /\ serverProcesses[owner[p]] = p
    /\ \A p, q \in Processes : Object(p) /\ Object(q) => p = q

Inv == EntryInv /\ IdInv /\ SingleInv

LEMMA InvInit == Init => Inv
  BY DEF Init, Inv, EntryInv, IdInv, SingleInv, Object

LEMMA TerminatedKeepsInv == TypeOK /\ terminated /\ multiSession' = multiSession => Inv'
  BY DEF TypeOK, terminated, Inv, EntryInv, IdInv, SingleInv, Object

\* Stopping the servers of some sessions frees their ids only.
LEMMA StopKeepsIds ==
  ASSUME TypeOK, Inv, NEW S \in SUBSET Sessions, stopServers(S), multiSession' = multiSession
  PROVE  EntryInv' /\ IdInv'
<1> DEFINE P == serversOf(S)
<1>1. /\ \A s \in S : serverProcesses[s] # NoProcess => serverProcesses[s] \in P
      /\ \A p \in P : p \in Processes /\ \E s \in S : serverProcesses[s] = p
  BY DEF serversOf, TypeOK
<1>2. /\ life' = [p \in Processes |-> IF p \in P THEN "unused" ELSE life[p]]
      /\ owner' = [p \in Processes |-> IF p \in P THEN NoSession ELSE owner[p]]
      /\ sessionId' = [p \in Processes |-> IF p \in P THEN SessionIdInvalid ELSE sessionId[p]]
      /\ sessionIds' = sessionIds \ idsOf(P)
      /\ serverProcesses' = [s \in Sessions |-> IF s \in S THEN NoProcess ELSE serverProcesses[s]]
  BY DEF stopServers, ended
<1>3. multiSession => idsOf(P) = {sessionId[p] : p \in P}
  BY DEF idsOf
<1> HIDE DEF P
<1>4. EntryInv'
  <2>1. ASSUME NEW s \in Sessions, serverProcesses'[s] # NoProcess
        PROVE  Object(serverProcesses[s])' /\ owner'[serverProcesses'[s]] = s
    <3>1. s \notin S /\ serverProcesses'[s] = serverProcesses[s] /\ serverProcesses[s] \in Processes
      BY <1>2, <2>1 DEF TypeOK
    <3>2. Object(serverProcesses[s]) /\ owner[serverProcesses[s]] = s
      BY <2>1, <3>1 DEF Inv, EntryInv
    <3>3. serverProcesses[s] \notin P
      BY <1>1, <3>1, <3>2, LinuxServiceCoreAssumption DEF Inv, EntryInv
    <3> QED
      BY <1>2, <3>1, <3>2, <3>3 DEF Object
  <2> QED
    BY <2>1 DEF EntryInv
<1>5. ASSUME multiSession
      PROVE  IdInv'
  <2>1. \A p \in Processes : Object(p)' <=> Object(p) /\ p \notin P
    BY <1>2 DEF Object
  <2>2. \A p \in Processes \ P : sessionId'[p] = sessionId[p]
    BY <1>2
  <2>3. \A p \in P : p \in Processes /\ Object(p)
    BY <1>1, LinuxServiceCoreAssumption DEF Inv, EntryInv
  <2>4. SessionIdInvalid \notin sessionIds
    BY InvalidIsNoId DEF TypeOK
  <2>5. ASSUME NEW p \in Processes, Object(p)', sessionId'[p] # SessionIdInvalid
        PROVE  sessionId'[p] \in sessionIds'
    BY <1>2, <1>3, <1>5, <2>1, <2>2, <2>3, <2>5 DEF Inv, IdInv
  <2>6. ASSUME NEW i \in sessionIds'
        PROVE  \E p \in Processes : Object(p)' /\ sessionId'[p] = i
    <3>1. i \in sessionIds /\ i \notin {sessionId[p] : p \in P}
      BY <1>2, <1>3, <1>5
    <3>2. PICK p \in Processes : Object(p) /\ sessionId[p] = i
      BY <1>5, <3>1 DEF Inv, IdInv
    <3>3. p \notin P
      BY <3>1, <3>2
    <3> QED
      BY <2>1, <2>2, <3>2, <3>3
  <2>7. ASSUME NEW p \in Processes, NEW q \in Processes,
               Object(p)', Object(q)', sessionId'[p] = sessionId'[q], p # q
        PROVE  sessionId'[p] = SessionIdInvalid
    BY <1>5, <2>1, <2>2, <2>7 DEF Inv, IdInv
  <2> QED
    BY <2>5, <2>6, <2>7 DEF IdInv
<1> QED
  BY <1>4, <1>5 DEF IdInv

LEMMA StopKeepsInv ==
  ASSUME TypeOK, Inv, NEW S \in SUBSET Sessions, stopServers(S),
         multiSession' = multiSession, starting' = starting
  PROVE  Inv'
<1>1. ASSUME ~ multiSession
      PROVE  SingleInv'
  <2>1. ASSUME NEW p \in Processes, Object(p)'
        PROVE  Object(p) /\ p \notin serversOf(S) /\ owner'[p] = owner[p]
    BY <2>1 DEF stopServers, ended, Object
  <2>2. ASSUME NEW p \in Processes, Object(p)'
        PROVE  /\ starting' = NoSession
               /\ owner'[p] \in Sessions
               /\ serverProcesses'[owner'[p]] = p
    <3>1. starting = NoSession /\ owner[p] \in Sessions /\ serverProcesses[owner[p]] = p
      BY <1>1, <2>1, <2>2 DEF Inv, SingleInv
    <3>2. owner[p] \notin S
      BY <2>1, <2>2, <3>1, LinuxServiceCoreAssumption DEF serversOf
    <3> QED
      BY <2>1, <2>2, <3>1, <3>2 DEF stopServers
  <2> QED
    BY <1>1, <2>1, <2>2 DEF SingleInv, Inv
<1> QED
  BY <1>1, StopKeepsIds DEF Inv, SingleInv

LEMMA StartServerKeepsInv ==
  ASSUME TypeOK, Inv, NEW s \in Sessions, NEW others, startServer(s, others),
         starting = NoSession, multiSession' = multiSession
  PROVE  Inv'
<1>1. CASE UNCHANGED serverVars /\ starting' = NoSession
  BY <1>1 DEF serverVars, Inv, EntryInv, IdInv, SingleInv, Object
<1>2. CASE stopServers(mustStopOthers) /\ starting' = s
  <2>1. mustStopOthers \in SUBSET Sessions
    BY DEF mustStopOthers
  <2>2. EntryInv' /\ IdInv'
    BY <1>2, <2>1, StopKeepsIds
  <2>3. ASSUME ~ multiSession, NEW p \in Processes
        PROVE  ~ Object(p)'
    <3>1. Object(p) => p \in serversOf(mustStopOthers)
      BY <2>3, LinuxServiceCoreAssumption DEF Inv, SingleInv, serversOf, mustStopOthers
    <3> QED
      BY <1>2, <3>1 DEF stopServers, ended, Object
  <2> QED
    BY <2>2, <2>3 DEF Inv, SingleInv
<1> QED
  BY <1>1, <1>2 DEF startServer, whenEmpty

LEMMA StartProcessKeepsInv ==
  ASSUME TypeOK, Inv, startProcess
  PROVE  Inv'
<1>1. CASE UNCHANGED serverVars
  BY <1>1 DEF startProcess, serverVars, Inv, EntryInv, IdInv, SingleInv, Object
<1>2. CASE ~ (Exists(starting) /\ starting \in young)
  <2>1. PICK n \in Processes : n = newProcess /\ life[n] = "unused"
    BY <1>2 DEF startProcess, newProcess
  <2>2. PICK i : i = openSession
    OBVIOUS
  <2>3. /\ starting \in Sessions
        /\ life' = [life EXCEPT ![n] = "running"]
        /\ owner' = [owner EXCEPT ![n] = starting]
        /\ sessionId' = [sessionId EXCEPT ![n] = IF multiSession THEN i ELSE 0]
        /\ serverProcesses' = [serverProcesses EXCEPT ![starting] = n]
        /\ sessionIds' = IF multiSession THEN sessionIds \cup ({i} \cap SessionId)
                         ELSE sessionIds
        /\ starting' = NoSession /\ multiSession' = multiSession
    BY <1>2, <2>1, <2>2 DEF startProcess, TypeOK
  <2>4. /\ Object(n)' /\ ~ Object(n)
        /\ \A p \in Processes \ {n} : Object(p)' <=> Object(p)
        /\ \A p \in Processes \ {n} : owner'[p] = owner[p] /\ sessionId'[p] = sessionId[p]
        /\ owner'[n] = starting
        /\ sessionId'[n] = IF multiSession THEN i ELSE 0
    BY <2>1, <2>3 DEF Object, TypeOK
  <2>5. EntryInv'
    BY <2>3, <2>4, LinuxServiceCoreAssumption DEF Inv, EntryInv, Object, TypeOK
  <2>6. IdInv'
    <3>1. \/ i \in SessionId \ sessionIds
          \/ i = SessionIdInvalid
      BY <2>2, OpenSessionIsFree
    <3>2. SessionIdInvalid \notin SessionId
      BY InvalidIsNoId
    <3> QED
      BY <2>3, <2>4, <3>1, <3>2 DEF Inv, IdInv
  <2>7. SingleInv'
    BY <2>3, <2>4, LinuxServiceCoreAssumption DEF Inv, SingleInv, TypeOK
  <2> QED
    BY <2>5, <2>6, <2>7 DEF Inv
<1> QED
  BY <1>1, <1>2 DEF startProcess

LEMMA InvStep == TypeOK /\ Inv /\ [Next]_vars => Inv'
<1> SUFFICES ASSUME TypeOK, Inv, [Next]_vars
             PROVE  Inv'
  OBVIOUS
<1>1. CASE UNCHANGED <<multiSession, starting, serverVars>>
  BY <1>1 DEF serverVars, Inv, EntryInv, IdInv, SingleInv, Object
<1>2. CASE terminated /\ UNCHANGED multiSession
  BY <1>2, TerminatedKeepsInv
<1>3. ASSUME NEW s \in Sessions, login(s) \/ changeDesktop(s) \/ logout(s) \/ grow(s)
      PROVE  Inv'
  BY <1>1, <1>3 DEF login, changeDesktop, logout, grow
<1>4. ASSUME NEW s \in Sessions, startListed(s) \/ sessionNew(s) \/ retryStart(s)
      PROVE  Inv'
  <2>1. starting = NoSession /\ UNCHANGED multiSession
    BY <1>4 DEF startListed, sessionNew, retryStart, InEventLoop
  <2> QED
    BY <1>2, <1>4, <2>1, StartServerKeepsInv
    DEF startListed, sessionNew, retryStart, startServerInterrupts
<1>5. ASSUME NEW s \in Sessions, sessionRemoved(s)
      PROVE  Inv'
  BY <1>2, <1>5, StopKeepsInv DEF sessionRemoved
<1>6. ASSUME NEW p \in Processes, endServer(p)
      PROVE  Inv'
  <2>1. \A q \in Processes : Object(q)' <=> Object(q)
    BY <1>6 DEF endServer, Object, TypeOK
  <2>2. UNCHANGED <<multiSession, starting, serverProcesses, sessionIds, owner, sessionId>>
    BY <1>6 DEF endServer
  <2>3. \A s \in Sessions : serverProcesses[s] # NoProcess => serverProcesses[s] \in Processes
    BY DEF TypeOK
  <2> QED
    BY <2>1, <2>2, <2>3 DEF Inv, EntryInv, IdInv, SingleInv
<1>7. CASE startProcess
  BY <1>7, StartProcessKeepsInv
<1>8. CASE connectToLoginManager \/ listSessions \/ UNCHANGED vars
  BY <1>1, <1>8 DEF connectToLoginManager, listSessions, vars
<1>9. CASE killService
  BY <1>2, <1>9 DEF killService
<1> QED
  BY <1>3, <1>4, <1>5, <1>6, <1>7, <1>8, <1>9 DEF Next, SessionStep

\* Two servers that run at the same time never share their network ports: in multi
\* session mode because ids are freed only with their processes, otherwise because
\* every start stops whatever runs.
THEOREM PortsDistinct == Spec => []PortsAreDistinct
<1>1. TypeOK /\ Inv => PortsAreDistinct
  BY DEF Inv, IdInv, SingleInv, Object, PortsAreDistinct, Running
<1> QED
  BY <1>1, TypeInit, TypeStep, InvInit, InvStep, PTL DEF Spec

\* No session id gets lost.
THEOREM IdsInUse == Spec => []SessionIdsInUse
<1>1. TypeOK /\ Inv => SessionIdsInUse
  <2> SUFFICES ASSUME TypeOK, Inv, multiSession
               PROVE  sessionIds = {sessionId[p] : p \in {q \in Processes : life[q] # "unused"}}
                                   \ {SessionIdInvalid}
    BY DEF SessionIdsInUse
  <2>1. SessionIdInvalid \notin sessionIds
    BY InvalidIsNoId DEF TypeOK
  <2> QED
    BY <2>1 DEF Inv, IdInv, Object
<1> QED
  BY <1>1, TypeInit, TypeStep, InvInit, InvStep, PTL DEF Spec

-----------------------------------------------------------------------------
(* Known servers                                                           *)

Unique(s) ==
  \A i, j \in 1..Len(signals) :
    signals[i] = <<"SessionNew", s>> /\ signals[j] = <<"SessionNew", s>> => i = j

\* Of a session that was not both announced and listed, at most one thing leads to a
\* server or is one: a signal, its place in the list, a start under way, a retry, the
\* entry of a server.
OneStart(s) ==
  /\ retries[s] <= 1
  /\ retries[s] > 0 =>
       /\ starting # s /\ s \notin listed /\ ~ Announced("SessionNew", s)
       /\ serverProcesses[s] = NoProcess
  /\ starting = s =>
       s \notin listed /\ ~ Announced("SessionNew", s) /\ serverProcesses[s] = NoProcess
  /\ s \in listed => ~ Announced("SessionNew", s) /\ serverProcesses[s] = NoProcess
  /\ Announced("SessionNew", s) => serverProcesses[s] = NoProcess
  /\ Unique(s)

\* Nothing of this is there before the session is.
NotYet(s) ==
  /\ retries[s] = 0 /\ starting # s /\ s \notin listed
  /\ ~ Announced("SessionNew", s)
  /\ serverProcesses[s] = NoProcess

\* What a removed session has left, its signal is going to remove.
LeftBehind(s) ==
  session[s] = "removed" /\ (starting = s \/ serverProcesses[s] # NoProcess) =>
    Announced("SessionRemoved", s)

SessionInv ==
  \A s \in Sessions :
    /\ s \notin twice => OneStart(s)
    /\ session[s] = "none" => NotYet(s)
    /\ LeftBehind(s)

NotUpInv ==
  /\ service = "down" => signals = <<>>
  /\ service # "up" =>
       /\ listed = {} /\ starting = NoSession
       /\ \A s \in Sessions : retries[s] = 0 /\ serverProcesses[s] = NoProcess

KnownInv ==
  \A p \in Processes :
    Object(p) => /\ owner[p] \in Sessions
                 /\ serverProcesses[owner[p]] = p \/ owner[p] \in twice

Known == SessionInv /\ NotUpInv /\ KnownInv

LEMMA KnownInit == Init => Known
<1> SUFFICES ASSUME Init PROVE Known
  OBVIOUS
<1>1. signals = <<>> /\ Len(signals) = 0 /\ DOMAIN signals = {}
  BY DEF Init
<1>2. NotUpInv /\ KnownInv
  BY DEF Init, NotUpInv, KnownInv, Object
<1>3. ASSUME NEW s \in Sessions PROVE OneStart(s) /\ NotYet(s) /\ LeftBehind(s)
  BY <1>1, LinuxServiceCoreAssumption DEF Init, OneStart, NotYet, LeftBehind, Unique, Announced
<1> QED
  BY <1>2, <1>3 DEF Known, SessionInv

\* A signal that is appended is announced from now on, the others as before.
LEMMA AppendSignal ==
  ASSUME TypeOK, NEW kind \in {"SessionNew", "SessionRemoved"}, NEW s \in Sessions,
         signals' = Append(signals, <<kind, s>>)
  PROVE  /\ Announced(kind, s)'
         /\ \A k \in {"SessionNew", "SessionRemoved"}, t \in Sessions :
              <<k, t>> # <<kind, s>> => (Announced(k, t)' <=> Announced(k, t))
         /\ \A t \in Sessions :
              Unique(t) /\ (<<kind, s>> = <<"SessionNew", t>> => ~ Announced("SessionNew", t))
                => Unique(t)'
<1> DEFINE n == Len(signals)
<1>1. /\ signals \in Seq(Signal) /\ n \in Nat /\ Len(signals') = n + 1
      /\ signals'[n + 1] = <<kind, s>>
      /\ \A i \in 1..n : signals'[i] = signals[i]
      /\ DOMAIN signals = 1..n /\ DOMAIN signals' = 1..(n + 1)
  BY DEF TypeOK, Signal
<1> HIDE DEF n
<1>2. 1..(n + 1) = (1..n) \cup {n + 1}
  BY <1>1
<1>3. Announced(kind, s)'
  BY <1>1, <1>2 DEF Announced
<1>4. ASSUME NEW k, NEW t, <<k, t>> # <<kind, s>>
      PROVE  Announced(k, t)' <=> Announced(k, t)
  BY <1>1, <1>2, <1>4 DEF Announced
<1>5. ASSUME NEW t \in Sessions, Unique(t),
             <<kind, s>> = <<"SessionNew", t>> => ~ Announced("SessionNew", t),
             NEW i \in 1..(n + 1), NEW j \in 1..(n + 1),
             signals'[i] = <<"SessionNew", t>>, signals'[j] = <<"SessionNew", t>>
      PROVE  i = j
  <2>1. CASE <<kind, s>> = <<"SessionNew", t>>
    <3>1. \A m \in 1..n : signals'[m] # <<"SessionNew", t>>
      BY <1>1, <1>5, <2>1 DEF Announced
    <3> QED
      BY <1>2, <1>5, <3>1
  <2>2. CASE <<kind, s>> # <<"SessionNew", t>>
    <3>1. i \in 1..n /\ j \in 1..n
      BY <1>1, <1>2, <1>5, <2>2
    <3> QED
      BY <1>1, <1>5, <3>1 DEF Unique, n
  <2> QED
    BY <2>1, <2>2
<1>6. ASSUME NEW t \in Sessions, Unique(t),
             <<kind, s>> = <<"SessionNew", t>> => ~ Announced("SessionNew", t)
      PROVE  Unique(t)'
  BY <1>1, <1>5, <1>6 DEF Unique
<1> QED
  BY <1>3, <1>4, <1>6

\* The signal at the head is handled; what was announced once is not any more.
LEMMA TailSignal ==
  ASSUME TypeOK, signals # <<>>, signals' = Tail(signals)
  PROVE  /\ \A k, t : Announced(k, t)' => Announced(k, t)
         /\ \A k, t : Announced(k, t) /\ Head(signals) # <<k, t>> => Announced(k, t)'
         /\ \A t : Unique(t) => Unique(t)'
         /\ \A t : Unique(t) /\ Head(signals) = <<"SessionNew", t>> => ~ Announced("SessionNew", t)'
<1> DEFINE n == Len(signals)
<1>1. /\ signals \in Seq(Signal) /\ n \in Nat \ {0} /\ Len(signals') = n - 1
      /\ signals[1] = Head(signals)
      /\ \A i \in 1..(n - 1) : signals'[i] = signals[i + 1]
      /\ DOMAIN signals = 1..n /\ DOMAIN signals' = 1..(n - 1)
  BY DEF TypeOK
<1> HIDE DEF n
<1>2. \A i \in 1..(n - 1) : i + 1 \in 2..n /\ i + 1 \in 1..n /\ i + 1 # 1
  BY <1>1
<1>3. \A j \in 1..n : j = 1 \/ (j - 1 \in 1..(n - 1) /\ (j - 1) + 1 = j)
  BY <1>1
<1>4. ASSUME NEW k, NEW t, Announced(k, t)' PROVE Announced(k, t)
  BY <1>1, <1>2, <1>4 DEF Announced
<1>5. ASSUME NEW k, NEW t, Announced(k, t), Head(signals) # <<k, t>> PROVE Announced(k, t)'
  <2>1. PICK j \in 1..n : signals[j] = <<k, t>>
    BY <1>1, <1>5 DEF Announced
  <2>2. j - 1 \in 1..(n - 1) /\ signals'[j - 1] = <<k, t>>
    BY <1>1, <1>3, <1>5, <2>1
  <2> QED
    BY <1>1, <2>2 DEF Announced
<1>6. ASSUME NEW t, Unique(t) PROVE Unique(t)'
  <2> SUFFICES ASSUME NEW i \in 1..(n - 1), NEW j \in 1..(n - 1),
                      signals'[i] = <<"SessionNew", t>>, signals'[j] = <<"SessionNew", t>>
               PROVE  i = j
    BY <1>1 DEF Unique
  <2>1. i + 1 = j + 1
    BY <1>1, <1>2, <1>6 DEF Unique, n
  <2> QED
    BY <2>1
<1>7. ASSUME NEW t, Unique(t), Head(signals) = <<"SessionNew", t>>,
             NEW i \in 1..(n - 1), signals'[i] = <<"SessionNew", t>>
      PROVE  FALSE
  <2>1. signals[i + 1] = <<"SessionNew", t>> /\ i + 1 \in 1..n /\ 1 \in 1..n
    BY <1>1, <1>2, <1>7
  <2>2. i + 1 = 1
    BY <1>1, <1>7, <2>1 DEF Unique, n
  <2> QED
    BY <1>2, <2>2
<1>8. \A t : Unique(t) /\ Head(signals) = <<"SessionNew", t>> => ~ Announced("SessionNew", t)'
  BY <1>1, <1>7 DEF Announced
<1> QED
  BY <1>4, <1>5, <1>6, <1>8

LEMMA TerminatedKeepsKnown ==
  ASSUME TypeOK, Known, terminated, UNCHANGED <<logindVars, twice>>
  PROVE  Known'
<1>1. signals' = <<>> /\ Len(signals') = 0 /\ DOMAIN signals' = {}
  BY DEF terminated
<1>2. NotUpInv' /\ KnownInv'
  BY DEF terminated, NotUpInv, KnownInv, Object
<1>3. ASSUME NEW s \in Sessions PROVE OneStart(s)' /\ NotYet(s)' /\ LeftBehind(s)'
  BY <1>1, LinuxServiceCoreAssumption
     DEF terminated, OneStart, NotYet, LeftBehind, Unique, Announced
<1> QED
  BY <1>2, <1>3 DEF Known, SessionInv

\* Stopping servers ends exactly the processes of the entries that go.
LEMMA StopKeepsKnown ==
  ASSUME TypeOK, KnownInv, NEW S \in SUBSET Sessions, stopServers(S), UNCHANGED twice
  PROVE  /\ KnownInv'
         /\ serverProcesses' = [s \in Sessions |-> IF s \in S THEN NoProcess ELSE serverProcesses[s]]
<1>1. serverProcesses' = [s \in Sessions |-> IF s \in S THEN NoProcess ELSE serverProcesses[s]]
  BY DEF stopServers
<1>2. ASSUME NEW p \in Processes, Object(p)'
      PROVE  p \notin serversOf(S) /\ Object(p) /\ owner'[p] = owner[p]
  BY <1>2 DEF stopServers, ended, Object, TypeOK
<1>3. ASSUME NEW p \in Processes, Object(p)'
      PROVE  owner'[p] \in Sessions /\ (serverProcesses'[owner'[p]] = p \/ owner'[p] \in twice)
  <2>1. owner[p] \in Sessions /\ (serverProcesses[owner[p]] = p \/ owner[p] \in twice)
    BY <1>2, <1>3 DEF KnownInv
  <2>2. serverProcesses[owner[p]] = p => owner[p] \notin S
    BY <1>2, <1>3, LinuxServiceCoreAssumption DEF serversOf
  <2> QED
    BY <1>1, <1>2, <1>3, <2>1, <2>2
<1> QED
  BY <1>1, <1>3 DEF KnownInv

\* startServer() uses up what made it run.
LEMMA StartKeepsKnown ==
  ASSUME TypeOK, Known, NEW s \in Sessions, NEW others \in [Sessions -> Nat],
         startServer(s, others), starting = NoSession, service = "up",
         UNCHANGED <<logindVars, twice>>,
         \A t \in Sessions : others[t] = IF t = s THEN others[s] ELSE retries[t],
         session[s] # "none",
         listed' \subseteq listed,
         \A t \in Sessions : Announced("SessionNew", t)' => Announced("SessionNew", t),
         \A t \in Sessions : Announced("SessionRemoved", t) => Announced("SessionRemoved", t)',
         \A t \in Sessions : Unique(t) => Unique(t)',
         s \notin twice => /\ others[s] = 0 /\ s \notin listed'
                           /\ ~ Announced("SessionNew", s)'
                           /\ serverProcesses[s] = NoProcess
  PROVE  Known'
<1>1. service' = "up"
  BY DEF startServer
<1>2. /\ KnownInv'
      /\ \A t \in Sessions : serverProcesses'[t] \in {serverProcesses[t], NoProcess}
  <2>1. CASE UNCHANGED serverVars
    BY <2>1 DEF serverVars, Known, KnownInv, Object
  <2>2. CASE stopServers(mustStopOthers)
    <3>1. mustStopOthers \in SUBSET Sessions
      BY DEF mustStopOthers
    <3> QED
      BY <2>2, <3>1, StopKeepsKnown DEF Known
  <2> QED
    BY <2>1, <2>2 DEF startServer
<1>3. /\ starting' = NoSession \/ (starting' = s /\ session[s] = "open" /\ retries' = others)
      /\ retries' = others \/ (starting' = NoSession /\ retries' = [others EXCEPT ![s] = @ + 1])
  BY DEF startServer, retryLater, whenEmpty
<1>4. ASSUME NEW t \in Sessions, t # s
      PROVE  retries'[t] = retries[t] /\ starting' # t
  BY <1>3, <1>4, LinuxServiceCoreAssumption
<1>5. ASSUME NEW t \in Sessions, t # s, t \notin twice
      PROVE  OneStart(t)'
  <2>1. OneStart(t)
    BY <1>5 DEF Known, SessionInv
  <2> QED
    BY <1>2, <1>4, <1>5, <2>1 DEF OneStart
<1>6. ASSUME s \notin twice PROVE OneStart(s)'
  <2>1. Unique(s)' /\ serverProcesses'[s] = NoProcess
    BY <1>2, <1>6 DEF Known, SessionInv, OneStart
  <2>2. retries'[s] <= 1 /\ (retries'[s] > 0 => starting' # s)
    BY <1>3, <1>6, LinuxServiceCoreAssumption
  <2> QED
    BY <1>6, <2>1, <2>2 DEF OneStart
<1>7. ASSUME NEW t \in Sessions, session'[t] = "none" PROVE NotYet(t)'
  <2>1. t # s /\ NotYet(t)
    BY <1>7 DEF Known, SessionInv, logindVars
  <2> QED
    BY <1>2, <1>4, <2>1 DEF NotYet
<1>8. ASSUME NEW t \in Sessions PROVE LeftBehind(t)'
  <2>1. LeftBehind(t) /\ session' = session
    BY DEF Known, SessionInv, logindVars
  <2>2. starting' = t => session[t] = "open"
    BY <1>3, <1>4, LinuxServiceCoreAssumption
  <2> QED
    BY <1>2, <2>1, <2>2 DEF LeftBehind
<1>9. NotUpInv'
  BY <1>1 DEF NotUpInv
<1> QED
  BY <1>2, <1>5, <1>6, <1>7, <1>8, <1>9 DEF Known, SessionInv

LEMMA StartProcessKeepsKnown ==
  ASSUME TypeOK, Known, startProcess
  PROVE  Known'
<1>1. /\ service = "up" /\ starting \in Sessions /\ starting' = NoSession
      /\ UNCHANGED <<session, signals, service, listed, twice>>
  BY DEF startProcess, TypeOK, logindVars
<1>2. CASE retryLater(starting, retries) /\ UNCHANGED serverVars
  <2>1. KnownInv' /\ NotUpInv' /\ UNCHANGED serverProcesses
    BY <1>1, <1>2 DEF Known, KnownInv, NotUpInv, Object, serverVars
  <2>2. retries' = [retries EXCEPT ![starting] = @ + 1]
    BY <1>2 DEF retryLater
  <2>3. ASSUME NEW t \in Sessions, t \notin twice PROVE OneStart(t)'
    <3>1. OneStart(t)
      BY <2>3 DEF Known, SessionInv
    <3>2. CASE t = starting
      <4>1. retries[t] = 0 /\ retries'[t] = 1
        BY <2>2, <3>1, <3>2 DEF OneStart, TypeOK
      <4> QED
        BY <1>1, <2>1, <3>1, <3>2, <4>1, LinuxServiceCoreAssumption DEF OneStart, Announced, Unique
    <3>3. CASE t # starting
      <4>1. retries'[t] = retries[t]
        BY <2>2, <3>3 DEF TypeOK
      <4> QED
        BY <1>1, <2>1, <3>1, <4>1, LinuxServiceCoreAssumption DEF OneStart, Announced, Unique
    <3> QED
      BY <3>2, <3>3
  <2>4. ASSUME NEW t \in Sessions, session[t] = "none" PROVE NotYet(t)'
    <3>1. NotYet(t) /\ t # starting
      BY <2>4 DEF Known, SessionInv, NotYet
    <3>2. retries'[t] = retries[t]
      BY <2>2, <3>1 DEF TypeOK
    <3> QED
      BY <1>1, <2>1, <3>1, <3>2, LinuxServiceCoreAssumption DEF NotYet, Announced
  <2>5. ASSUME NEW t \in Sessions PROVE LeftBehind(t)'
    BY <1>1, <2>1, LinuxServiceCoreAssumption DEF Known, SessionInv, LeftBehind, Announced
  <2> QED
    BY <1>1, <2>1, <2>3, <2>4, <2>5 DEF Known, SessionInv
<1>3. CASE ~ (Exists(starting) /\ starting \in young)
  <2>1. PICK n \in Processes : n = newProcess /\ life[n] = "unused"
    BY <1>3 DEF startProcess, newProcess
  <2>2. /\ life' = [life EXCEPT ![n] = "running"]
        /\ owner' = [owner EXCEPT ![n] = starting]
        /\ serverProcesses' = [serverProcesses EXCEPT ![starting] = n]
        /\ UNCHANGED retries
    BY <1>3, <2>1 DEF startProcess
  <2>3. /\ serverProcesses'[starting] = n
        /\ \A t \in Sessions : t # starting => serverProcesses'[t] = serverProcesses[t]
    BY <1>1, <2>2 DEF TypeOK
  <2>4. KnownInv'
    <3> SUFFICES ASSUME NEW p \in Processes, Object(p)'
                 PROVE  owner'[p] \in Sessions /\ (serverProcesses'[owner'[p]] = p \/ owner'[p] \in twice)
      BY <1>1 DEF KnownInv
    <3>1. CASE p = n
      <4>1. owner'[p] = starting
        BY <2>2, <3>1 DEF TypeOK
      <4> QED
        BY <1>1, <2>3, <3>1, <4>1
    <3>2. CASE p # n
      <4>1. Object(p) /\ owner'[p] = owner[p]
        BY <2>2, <3>2 DEF Object, TypeOK
      <4>2. owner[p] \in Sessions /\ (serverProcesses[owner[p]] = p \/ owner[p] \in twice)
        BY <4>1 DEF Known, KnownInv
      <4>3. serverProcesses[starting] = NoProcess \/ starting \in twice
        BY <1>1 DEF Known, SessionInv, OneStart
      <4> QED
        BY <2>3, <4>1, <4>2, <4>3, LinuxServiceCoreAssumption
    <3> QED
      BY <3>1, <3>2
  <2>5. ASSUME NEW t \in Sessions, t \notin twice PROVE OneStart(t)'
    <3>1. OneStart(t)
      BY <2>5 DEF Known, SessionInv
    <3>2. CASE t = starting
      BY <1>1, <2>2, <3>1, <3>2, LinuxServiceCoreAssumption DEF OneStart, Announced, Unique, TypeOK
    <3>3. CASE t # starting
      BY <1>1, <2>2, <2>3, <3>1, <3>3, LinuxServiceCoreAssumption DEF OneStart, Announced, Unique
    <3> QED
      BY <3>2, <3>3
  <2>6. ASSUME NEW t \in Sessions, session[t] = "none" PROVE NotYet(t)'
    <3>1. NotYet(t) /\ t # starting
      BY <2>6 DEF Known, SessionInv, NotYet
    <3> QED
      BY <1>1, <2>2, <2>3, <3>1, LinuxServiceCoreAssumption DEF NotYet, Announced
  <2>7. ASSUME NEW t \in Sessions PROVE LeftBehind(t)'
    BY <1>1, <2>3, LinuxServiceCoreAssumption DEF Known, SessionInv, LeftBehind, Announced
  <2>8. NotUpInv'
    BY <1>1 DEF NotUpInv
  <2> QED
    BY <1>1, <2>4, <2>5, <2>6, <2>7, <2>8 DEF Known, SessionInv
<1> QED
  BY <1>2, <1>3 DEF startProcess

\* What is left alone keeps the invariant; listed sessions and signals may go.
LEMMA KnownUnchanged ==
  ASSUME Known, UNCHANGED <<session, signals, service, listed, starting, retries,
                            serverProcesses, owner, twice>>,
         \A p \in Processes : Object(p)' => Object(p)
  PROVE  Known'
  BY DEF Known, SessionInv, OneStart, NotYet, LeftBehind, Unique, Announced, NotUpInv, KnownInv

LEMMA LoginKeepsKnown ==
  ASSUME TypeOK, Known, NEW s \in Sessions, login(s)
  PROVE  Known'
<1>1. /\ session[s] = "none" /\ session' = [session EXCEPT ![s] = "opening"]
      /\ announce("SessionNew", s)
      /\ UNCHANGED <<service, listed, starting, retries, serverProcesses, life, owner, twice>>
  BY DEF login, serverVars
<1>2. NotYet(s) /\ \A t \in Sessions : session'[t] = IF t = s THEN "opening" ELSE session[t]
  BY <1>1 DEF Known, SessionInv, TypeOK
<1>3. KnownInv'
  BY <1>1 DEF Known, KnownInv, Object
<1>4. CASE service = "down"
  <2>1. signals' = signals
    BY <1>1, <1>4 DEF announce
  <2> QED
    BY <1>1, <1>2, <1>3, <2>1
       DEF Known, SessionInv, OneStart, NotYet, LeftBehind, Unique, Announced, NotUpInv
<1>5. CASE service # "down"
  <2>1. signals' = Append(signals, <<"SessionNew", s>>)
    BY <1>1, <1>5 DEF announce
  <2>2. /\ \A t \in Sessions : t # s => (Announced("SessionNew", t)' <=> Announced("SessionNew", t))
        /\ \A t \in Sessions : Announced("SessionRemoved", t)' <=> Announced("SessionRemoved", t)
        /\ \A t \in Sessions :
             Unique(t) /\ (t = s => ~ Announced("SessionNew", t)) => Unique(t)'
    BY <2>1, AppendSignal
  <2>3. ASSUME NEW t \in Sessions, t \notin twice PROVE OneStart(t)'
    <3>1. OneStart(t)
      BY <2>3 DEF Known, SessionInv
    <3>2. CASE t = s
      BY <1>1, <1>2, <2>2, <3>1, <3>2 DEF OneStart, NotYet
    <3>3. CASE t # s
      BY <1>1, <2>2, <3>1, <3>3 DEF OneStart
    <3> QED
      BY <3>2, <3>3
  <2>4. ASSUME NEW t \in Sessions, session'[t] = "none" PROVE NotYet(t)'
    <3>1. t # s /\ NotYet(t)
      BY <1>2, <2>4 DEF Known, SessionInv
    <3> QED
      BY <1>1, <2>2, <3>1 DEF NotYet
  <2>5. ASSUME NEW t \in Sessions PROVE LeftBehind(t)'
    BY <1>1, <1>2, <2>2 DEF Known, SessionInv, LeftBehind
  <2>6. NotUpInv'
    BY <1>1, <1>5 DEF Known, NotUpInv
  <2> QED
    BY <1>1, <1>3, <2>3, <2>4, <2>5, <2>6 DEF Known, SessionInv
<1> QED
  BY <1>4, <1>5

LEMMA LogoutKeepsKnown ==
  ASSUME TypeOK, Known, NEW s \in Sessions, logout(s)
  PROVE  Known'
<1>1. /\ session[s] = "closing" /\ session' = [session EXCEPT ![s] = "removed"]
      /\ announce("SessionRemoved", s)
      /\ UNCHANGED <<service, listed, starting, retries, serverProcesses, life, owner, twice>>
  BY DEF logout, serverVars
<1>2. \A t \in Sessions : session'[t] = IF t = s THEN "removed" ELSE session[t]
  BY <1>1 DEF TypeOK
<1>3. KnownInv'
  BY <1>1 DEF Known, KnownInv, Object
<1>4. CASE service = "down"
  <2>1. signals' = signals
    BY <1>1, <1>4 DEF announce
  <2>2. \A t \in Sessions : starting # t /\ serverProcesses[t] = NoProcess
    BY <1>4, LinuxServiceCoreAssumption DEF Known, NotUpInv
  <2> QED
    BY <1>1, <1>2, <1>3, <2>1, <2>2
       DEF Known, SessionInv, OneStart, NotYet, LeftBehind, Unique, Announced, NotUpInv
<1>5. CASE service # "down"
  <2>1. signals' = Append(signals, <<"SessionRemoved", s>>)
    BY <1>1, <1>5 DEF announce
  <2>2. /\ Announced("SessionRemoved", s)'
        /\ \A t \in Sessions : Announced("SessionNew", t)' <=> Announced("SessionNew", t)
        /\ \A t \in Sessions : t # s => (Announced("SessionRemoved", t)' <=> Announced("SessionRemoved", t))
        /\ \A t \in Sessions : Unique(t) => Unique(t)'
    BY <2>1, AppendSignal
  <2>3. ASSUME NEW t \in Sessions, t \notin twice PROVE OneStart(t)'
    BY <1>1, <2>2, <2>3 DEF Known, SessionInv, OneStart
  <2>4. ASSUME NEW t \in Sessions, session'[t] = "none" PROVE NotYet(t)'
    BY <1>1, <1>2, <2>2, <2>4 DEF Known, SessionInv, NotYet
  <2>5. ASSUME NEW t \in Sessions PROVE LeftBehind(t)'
    BY <1>1, <1>2, <2>2 DEF Known, SessionInv, LeftBehind
  <2>6. NotUpInv'
    BY <1>1, <1>5 DEF Known, NotUpInv
  <2> QED
    BY <1>1, <1>3, <2>3, <2>4, <2>5, <2>6 DEF Known, SessionInv
<1> QED
  BY <1>4, <1>5

LEMMA KnownStep == TypeOK /\ Known /\ [Next]_vars => Known'
<1> SUFFICES ASSUME TypeOK, Known, [Next]_vars PROVE Known'
  OBVIOUS
<1>1. ASSUME NEW s \in Sessions, login(s) \/ logout(s) PROVE Known'
  BY <1>1, LoginKeepsKnown, LogoutKeepsKnown
<1>2. ASSUME NEW s \in Sessions, changeDesktop(s) PROVE Known'
  <2>1. /\ session[s] \in {"opening", "open"} /\ session'[s] \in {"open", "closing"}
        /\ \A t \in Sessions : t # s => session'[t] = session[t]
        /\ UNCHANGED <<signals, service, listed, starting, retries, serverProcesses, life,
                       owner, twice>>
    BY <1>2 DEF changeDesktop, serverVars, TypeOK
  <2> QED
    BY <2>1 DEF Known, SessionInv, OneStart, NotYet, LeftBehind, Unique, Announced, NotUpInv,
                KnownInv, Object
<1>3. ASSUME NEW s \in Sessions, grow(s) PROVE Known'
  BY <1>3, KnownUnchanged DEF grow, serverVars, Object
<1>4. ASSUME NEW s \in Sessions, startListed(s) PROVE Known'
  <2>1. CASE startServer(s, retries) /\ listed' = listed \ {s} /\ UNCHANGED signals
    <3>1. s \in listed /\ starting = NoSession /\ UNCHANGED <<logindVars, twice>>
      BY <1>4 DEF startListed
    <3>2. service = "up" /\ session[s] # "none"
      BY <3>1 DEF Known, NotUpInv, SessionInv, NotYet
    <3>3. s \notin twice => retries[s] = 0 /\ ~ Announced("SessionNew", s) /\ serverProcesses[s] = NoProcess
      BY <3>1 DEF Known, SessionInv, OneStart, TypeOK
    <3>4. /\ retries \in [Sessions -> Nat]
          /\ \A t \in Sessions : Unique(t)' = Unique(t)
          /\ \A k, t : Announced(k, t)' = Announced(k, t)
      BY <2>1 DEF TypeOK, Unique, Announced
    <3> QED
      BY <2>1, <3>1, <3>2, <3>3, <3>4, StartKeepsKnown
  <2>2. CASE startServerInterrupts(s)
    BY <1>4, <2>2, TerminatedKeepsKnown DEF startListed, startServerInterrupts
  <2> QED
    BY <1>4, <2>1, <2>2 DEF startListed
<1>5. ASSUME NEW s \in Sessions, sessionNew(s) PROVE Known'
  <2>1. CASE startServer(s, retries) /\ signals' = Tail(signals) /\ UNCHANGED listed
    <3>1. /\ signals # <<>> /\ Head(signals) = <<"SessionNew", s>> /\ InEventLoop
          /\ UNCHANGED <<logindVars, twice>>
      BY <1>5 DEF sessionNew
    <3>2. Announced("SessionNew", s)
      <4>1. 1 \in DOMAIN signals /\ signals[1] = Head(signals)
        BY <3>1 DEF TypeOK
      <4> QED
        BY <3>1, <4>1 DEF Announced
    <3>3. session[s] # "none"
      BY <3>2 DEF Known, SessionInv, NotYet
    <3>4. s \notin twice => Unique(s) /\ retries[s] = 0 /\ serverProcesses[s] = NoProcess
      BY <3>2 DEF Known, SessionInv, OneStart, TypeOK
    <3>5. /\ \A t \in Sessions : Announced("SessionNew", t)' => Announced("SessionNew", t)
          /\ \A t \in Sessions : Announced("SessionRemoved", t) => Announced("SessionRemoved", t)'
          /\ \A t \in Sessions : Unique(t) => Unique(t)'
          /\ s \notin twice => ~ Announced("SessionNew", s)'
      BY <2>1, <3>1, <3>4, TailSignal
    <3>6. retries \in [Sessions -> Nat] /\ starting = NoSession /\ service = "up" /\ s \notin listed'
      BY <2>1, <3>1 DEF TypeOK, InEventLoop
    <3> QED
      BY <2>1, <3>1, <3>3, <3>4, <3>5, <3>6, StartKeepsKnown
  <2>2. CASE startServerInterrupts(s)
    BY <1>5, <2>2, TerminatedKeepsKnown DEF sessionNew, startServerInterrupts
  <2> QED
    BY <1>5, <2>1, <2>2 DEF sessionNew
<1>6. ASSUME NEW s \in Sessions, retryStart(s) PROVE Known'
  <2> DEFINE others == [retries EXCEPT ![s] = @ - 1]
  <2>1. CASE startServer(s, others) /\ UNCHANGED <<signals, listed>>
    <3>1. retries[s] > 0 /\ InEventLoop /\ UNCHANGED <<logindVars, twice>>
      BY <1>6 DEF retryStart
    <3>2. others \in [Sessions -> Nat] /\ \A t \in Sessions : t # s => others[t] = retries[t]
      BY <3>1 DEF TypeOK
    <3>3. s \notin twice => /\ others[s] = 0 /\ ~ Announced("SessionNew", s)
                            /\ serverProcesses[s] = NoProcess
      BY <3>1 DEF Known, SessionInv, OneStart, TypeOK
    <3>4. session[s] # "none"
      BY <3>1 DEF Known, SessionInv, NotYet
    <3>5. starting = NoSession /\ service = "up" /\ s \notin listed'
      BY <2>1, <3>1 DEF InEventLoop
    <3>6. /\ \A t \in Sessions : Unique(t)' = Unique(t)
          /\ \A k, t : Announced(k, t)' = Announced(k, t)
      BY <2>1 DEF Unique, Announced
    <3> HIDE DEF others
    <3> QED
      BY <2>1, <3>1, <3>2, <3>3, <3>4, <3>5, <3>6, StartKeepsKnown
  <2>2. CASE startServerInterrupts(s)
    BY <1>6, <2>2, TerminatedKeepsKnown DEF retryStart, startServerInterrupts
  <2> QED
    BY <1>6, <2>1, <2>2 DEF retryStart
<1>7. ASSUME NEW s \in Sessions, sessionRemoved(s) PROVE Known'
  <2>1. CASE stopServers({s}) /\ signals' = Tail(signals)
             /\ UNCHANGED <<service, listed, starting, retries>>
    <3>1. /\ signals # <<>> /\ Head(signals) = <<"SessionRemoved", s>> /\ InEventLoop
          /\ UNCHANGED <<session, twice>>
      BY <1>7 DEF sessionRemoved, logindVars
    <3>2. /\ KnownInv'
          /\ \A t \in Sessions : serverProcesses'[t] = IF t = s THEN NoProcess ELSE serverProcesses[t]
      BY <2>1, <3>1, StopKeepsKnown DEF Known
    <3>3. /\ \A t \in Sessions : Announced("SessionNew", t)' => Announced("SessionNew", t)
          /\ \A t \in Sessions :
               t # s => (Announced("SessionRemoved", t) => Announced("SessionRemoved", t)')
          /\ \A t \in Sessions : Unique(t) => Unique(t)'
      BY <2>1, <3>1, TailSignal
    <3>4. ASSUME NEW t \in Sessions, t \notin twice PROVE OneStart(t)'
      BY <2>1, <3>1, <3>2, <3>3, <3>4 DEF Known, SessionInv, OneStart
    <3>5. ASSUME NEW t \in Sessions, session'[t] = "none" PROVE NotYet(t)'
      BY <2>1, <3>1, <3>2, <3>3, <3>5 DEF Known, SessionInv, NotYet
    <3>6. ASSUME NEW t \in Sessions PROVE LeftBehind(t)'
      BY <2>1, <3>1, <3>2, <3>3, LinuxServiceCoreAssumption
         DEF Known, SessionInv, LeftBehind, InEventLoop
    <3>7. NotUpInv'
      BY <2>1, <3>1 DEF NotUpInv, InEventLoop
    <3> QED
      BY <3>1, <3>2, <3>4, <3>5, <3>6, <3>7 DEF Known, SessionInv
  <2>2. CASE terminated
    BY <1>7, <2>2, TerminatedKeepsKnown DEF sessionRemoved
  <2> QED
    BY <1>7, <2>1, <2>2 DEF sessionRemoved
<1>8. ASSUME NEW p \in Processes, endServer(p) PROVE Known'
  <2>1. \A q \in Processes : Object(q)' <=> Object(q)
    BY <1>8 DEF endServer, Object, TypeOK
  <2> QED
    BY <1>8, <2>1, KnownUnchanged DEF endServer, logindVars
<1>9. CASE connectToLoginManager
  <2>1. service = "down" /\ service' = "subscribed"
        /\ UNCHANGED <<session, signals, listed, starting, retries, serverProcesses, life,
                       owner, twice>>
    BY <1>9 DEF connectToLoginManager, logindVars, serverVars
  <2> QED
    BY <2>1 DEF Known, SessionInv, OneStart, NotYet, LeftBehind, Unique, Announced, NotUpInv,
                KnownInv, Object
<1>10. CASE listSessions
  <2>1. /\ service = "subscribed" /\ service' = "up"
        /\ listed' = {s \in Sessions : Exists(s)}
        /\ twice' = twice \cup {s \in Sessions : Exists(s) /\ Announced("SessionNew", s)}
        /\ UNCHANGED <<session, signals, starting, retries, serverProcesses, life, owner>>
    BY <1>10 DEF listSessions, logindVars, serverVars
  <2>2. /\ starting = NoSession
        /\ \A s \in Sessions : retries[s] = 0 /\ serverProcesses[s] = NoProcess
    BY <2>1 DEF Known, NotUpInv
  <2>3. KnownInv' /\ NotUpInv'
    BY <2>1 DEF Known, KnownInv, NotUpInv, Object
  <2>4. ASSUME NEW t \in Sessions, t \notin twice' PROVE OneStart(t)'
    BY <2>1, <2>2, <2>4, LinuxServiceCoreAssumption
       DEF Known, SessionInv, OneStart, Unique, Announced
  <2>5. ASSUME NEW t \in Sessions, session'[t] = "none" PROVE NotYet(t)'
    <3>1. NotYet(t) /\ t \notin listed'
      BY <2>1, <2>5 DEF Known, SessionInv, Exists
    <3> QED
      BY <2>1, <3>1 DEF NotYet, Announced
  <2>6. ASSUME NEW t \in Sessions PROVE LeftBehind(t)'
    BY <2>1 DEF Known, SessionInv, LeftBehind, Announced
  <2> QED
    BY <2>3, <2>4, <2>5, <2>6 DEF Known, SessionInv
<1>11. CASE startProcess
  BY <1>11, StartProcessKeepsKnown
<1>12. CASE killService
  BY <1>12, TerminatedKeepsKnown DEF killService
<1>13. CASE UNCHANGED vars
  BY <1>13, KnownUnchanged DEF vars, logindVars, serverVars, Object
<1> QED
  BY <1>1, <1>2, <1>3, <1>4, <1>5, <1>6, <1>7, <1>8, <1>9, <1>10, <1>11, <1>12, <1>13
     DEF Next, SessionStep

\* The service can stop every server it has started, unless a session was both listed
\* and announced: signals, retries and starts under way never add up to a second server
\* that takes the place of the first (startServer(), m_serverProcesses).
THEOREM AllServersKnown == Spec => []ServersAreKnown
<1>1. Known => ServersAreKnown
  BY DEF Known, KnownInv, Object, Running, ServersAreKnown
<1> QED
  BY <1>1, TypeInit, TypeStep, KnownInit, KnownStep, PTL DEF Spec

\* Once the service has handled a session's removal no server of it runs, whatever
\* retry or start was under way (stopServer(), startServer()).
THEOREM RemovedStopped == Spec => []RemovedMeansStopped
<1>1. TypeOK /\ Known => RemovedMeansStopped
  <2> SUFFICES ASSUME TypeOK, Known, NEW p \in Processes, Running(p), session[owner[p]] = "removed",
                      ~ Announced("SessionRemoved", owner[p]), owner[p] \notin twice
               PROVE  FALSE
    BY DEF RemovedMeansStopped
  <2>1. owner[p] \in Sessions /\ serverProcesses[owner[p]] = p
    BY DEF Known, KnownInv, Object, Running
  <2> QED
    BY <2>1, LinuxServiceCoreAssumption DEF Known, SessionInv, LeftBehind
<1> QED
  BY <1>1, TypeInit, TypeStep, KnownInit, KnownStep, PTL DEF Spec

-----------------------------------------------------------------------------
(* No session is forgotten                                                 *)

\* Only removed sessions are announced as such.
RemovalsAreTrue ==
  \A s \in Sessions : Announced("SessionRemoved", s) => session[s] = "removed"

\* While the service of a multi session computer is up, a graphical session has a
\* server, or something is left that starts one.
StartIsKept ==
  service = "up" /\ multiSession =>
    \A s \in Graphical : Exists(s) => serverProcesses[s] # NoProcess \/ StartPending(s)

StartInv == RemovalsAreTrue /\ StartIsKept

\* An announcement appended to the signals is about the session as it is now.
LEMMA AnnounceKeepsStart ==
  ASSUME TypeOK, StartInv, NEW kind \in {"SessionNew", "SessionRemoved"}, NEW s \in Sessions,
         announce(kind, s), kind = "SessionNew" => session[s] = "none",
         NEW new \in {"opening", "removed"}, session' = [session EXCEPT ![s] = new],
         new = "removed" <=> kind = "SessionRemoved",
         UNCHANGED <<multiSession, service, listed, starting, retries, serverProcesses>>
  PROVE  StartInv'
<1>1. /\ session'[s] = new
      /\ \A t \in Sessions : t # s => session'[t] = session[t]
  BY DEF TypeOK
<1>2. CASE service = "down"
  <2>1. signals' = signals
    BY <1>2 DEF announce
  <2>2. RemovalsAreTrue'
    BY <1>1, <2>1 DEF StartInv, RemovalsAreTrue, Announced
  <2> QED
    BY <1>2, <2>2 DEF StartInv, StartIsKept
<1>3. CASE service # "down"
  <2>1. /\ Announced(kind, s)'
        /\ \A k \in {"SessionNew", "SessionRemoved"}, t \in Sessions :
             <<k, t>> # <<kind, s>> => (Announced(k, t)' <=> Announced(k, t))
    BY <1>3, AppendSignal DEF announce
  <2>2. RemovalsAreTrue'
    BY <1>1, <2>1 DEF StartInv, RemovalsAreTrue
  <2>3. ASSUME service' = "up" /\ multiSession', NEW t \in Graphical, Exists(t)'
        PROVE  serverProcesses'[t] # NoProcess \/ StartPending(t)'
    <3>1. t \in Sessions
      BY LinuxServiceCoreAssumption
    <3>2. CASE t = s
      BY <1>1, <2>1, <2>3, <3>2 DEF Exists, StartPending
    <3>3. CASE t # s
      <4>1. Exists(t)
        BY <1>1, <2>3, <3>1, <3>3 DEF Exists
      <4>2. serverProcesses[t] # NoProcess \/ StartPending(t)
        BY <2>3, <4>1 DEF StartInv, StartIsKept
      <4>3. Announced("SessionNew", t)' <=> Announced("SessionNew", t)
        BY <2>1, <3>1, <3>3
      <4> QED
        BY <4>2, <4>3 DEF StartPending
    <3> QED
      BY <3>2, <3>3
  <2> QED
    BY <2>2, <2>3 DEF StartInv, StartIsKept
<1> QED
  BY <1>2, <1>3

\* What makes startServer() run may go: it starts a server, or will be called again.
LEMMA StartServerKeepsStart ==
  ASSUME TypeOK, StartInv, NEW s \in Sessions, NEW others, startServer(s, others),
         starting = NoSession, service = "up",
         UNCHANGED <<multiSession, session>>,
         \A t \in Sessions : t # s => others[t] = retries[t],
         others \in [Sessions -> Nat],
         \A t \in Sessions : t # s => (t \in listed <=> t \in listed'),
         \A t \in Sessions :
           t # s => (Announced("SessionNew", t) => Announced("SessionNew", t)'),
         \A t \in Sessions : Announced("SessionRemoved", t)' => Announced("SessionRemoved", t)
  PROVE  StartInv'
<1>1. RemovalsAreTrue'
  BY DEF StartInv, RemovalsAreTrue
<1>2. ASSUME multiSession
      PROVE  serverProcesses' = serverProcesses
  <2>1. CASE UNCHANGED serverVars
    BY <2>1 DEF serverVars
  <2>2. CASE stopServers(mustStopOthers)
    BY <1>2, <2>2 DEF stopServers, mustStopOthers, TypeOK
  <2> QED
    BY <2>1, <2>2 DEF startServer
<1>3. \A t \in Sessions : t # s => retries'[t] = retries[t]
  BY DEF startServer, retryLater
<1>4. ASSUME s \in Graphical, Exists(s)
      PROVE  retries'[s] > 0 \/ starting' = s
  BY <1>4 DEF startServer, retryLater, Exists
<1>5. ASSUME service' = "up" /\ multiSession', NEW t \in Graphical, Exists(t)'
      PROVE  serverProcesses'[t] # NoProcess \/ StartPending(t)'
  <2>1. t \in Sessions /\ t # NoSession /\ Exists(t)
    BY <1>5, LinuxServiceCoreAssumption DEF Exists
  <2>2. CASE t = s
    BY <1>4, <2>1, <2>2 DEF StartPending
  <2>3. CASE t # s
    <3>1. serverProcesses[t] # NoProcess \/ StartPending(t)
      BY <1>5, <2>1 DEF StartInv, StartIsKept
    <3> QED
      BY <1>2, <1>3, <1>5, <2>1, <2>3, <3>1 DEF StartPending
  <2> QED
    BY <2>2, <2>3
<1> QED
  BY <1>1, <1>5 DEF StartInv, StartIsKept

LEMMA StartProcessKeepsStart ==
  ASSUME TypeOK, StartInv, startProcess
  PROVE  StartInv'
<1>1. /\ service = "up" /\ starting \in Sessions
      /\ UNCHANGED <<multiSession, session, signals, service, listed>>
  BY DEF startProcess, TypeOK, logindVars
<1>2. RemovalsAreTrue'
  BY <1>1 DEF StartInv, RemovalsAreTrue, Announced
<1>3. CASE retryLater(starting, retries) /\ UNCHANGED serverVars
  <2>1. /\ retries'[starting] > 0 /\ UNCHANGED serverProcesses
        /\ \A t \in Sessions : t # starting => retries'[t] = retries[t]
    BY <1>1, <1>3 DEF retryLater, serverVars, TypeOK
  <2> QED
    BY <1>1, <1>2, <2>1, LinuxServiceCoreAssumption
       DEF StartInv, StartIsKept, StartPending, Exists, Announced
<1>4. CASE ~ (Exists(starting) /\ starting \in young)
  <2>1. PICK n \in Processes : n = newProcess
    BY <1>4 DEF startProcess, newProcess
  <2>2. serverProcesses' = [serverProcesses EXCEPT ![starting] = n] /\ UNCHANGED retries
    BY <1>4, <2>1 DEF startProcess
  <2>3. /\ serverProcesses'[starting] # NoProcess
        /\ \A t \in Sessions : t # starting => serverProcesses'[t] = serverProcesses[t]
    BY <1>1, <2>2, LinuxServiceCoreAssumption DEF TypeOK
  <2> QED
    BY <1>1, <1>2, <2>2, <2>3, LinuxServiceCoreAssumption
       DEF StartInv, StartIsKept, StartPending, Exists, Announced
<1> QED
  BY <1>3, <1>4 DEF startProcess

LEMMA TerminatedKeepsStart == terminated => StartInv'
<1> SUFFICES ASSUME terminated PROVE StartInv'
  OBVIOUS
<1>1. DOMAIN signals' = {}
  BY DEF terminated
<1> QED
  BY <1>1 DEF terminated, StartInv, RemovalsAreTrue, StartIsKept, Announced

\* What leads to servers and the sessions are left alone.
LEMMA StartUnchanged ==
  ASSUME StartInv, UNCHANGED <<multiSession, session, signals, service, listed, starting,
                               retries, serverProcesses>>
  PROVE  StartInv'
  BY DEF StartInv, RemovalsAreTrue, StartIsKept, StartPending, Announced, Exists

LEMMA StartStep == TypeOK /\ Known /\ StartInv /\ [Next]_vars => StartInv'
<1> SUFFICES ASSUME TypeOK, Known, StartInv, [Next]_vars PROVE StartInv'
  OBVIOUS
<1>1. ASSUME NEW s \in Sessions, login(s) PROVE StartInv'
  BY <1>1, AnnounceKeepsStart DEF login, serverVars
<1>2. ASSUME NEW s \in Sessions, changeDesktop(s) PROVE StartInv'
  <2>1. /\ Exists(s) /\ session[s] # "removed"
        /\ \A t \in Sessions : t # s => session'[t] = session[t]
        /\ UNCHANGED <<multiSession, signals, service, listed, starting, retries,
                       serverProcesses>>
    BY <1>2 DEF changeDesktop, serverVars, Exists, TypeOK
  <2> QED
    BY <2>1, LinuxServiceCoreAssumption
       DEF StartInv, RemovalsAreTrue, StartIsKept, StartPending, Announced, Exists
<1>3. ASSUME NEW s \in Sessions, logout(s) PROVE StartInv'
  BY <1>3, AnnounceKeepsStart DEF logout, serverVars
<1>4. ASSUME NEW s \in Sessions, startListed(s) PROVE StartInv'
  <2>1. CASE startServer(s, retries) /\ listed' = listed \ {s} /\ UNCHANGED signals
    <3>1. /\ starting = NoSession /\ service = "up"
          /\ UNCHANGED <<multiSession, session>>
      BY <1>4 DEF startListed, logindVars, Known, NotUpInv
    <3>2. /\ retries \in [Sessions -> Nat]
          /\ \A k, t : Announced(k, t)' = Announced(k, t)
      BY <2>1 DEF TypeOK, Announced
    <3> QED
      BY <2>1, <3>1, <3>2, StartServerKeepsStart
  <2> QED
    BY <1>4, <2>1, TerminatedKeepsStart DEF startListed, startServerInterrupts
<1>5. ASSUME NEW s \in Sessions, sessionNew(s) PROVE StartInv'
  <2>1. CASE startServer(s, retries) /\ signals' = Tail(signals) /\ UNCHANGED listed
    <3>1. /\ signals # <<>> /\ Head(signals) = <<"SessionNew", s>> /\ InEventLoop
          /\ UNCHANGED <<multiSession, session>>
      BY <1>5 DEF sessionNew, logindVars
    <3>2. /\ \A k, t : Announced(k, t)' => Announced(k, t)
          /\ \A k, t : Announced(k, t) /\ Head(signals) # <<k, t>> => Announced(k, t)'
      BY <2>1, <3>1, TailSignal
    <3>3. retries \in [Sessions -> Nat] /\ starting = NoSession /\ service = "up"
      BY <3>1 DEF TypeOK, InEventLoop
    <3>4. \A t \in Sessions :
            t # s => (Announced("SessionNew", t) => Announced("SessionNew", t)')
      BY <3>1, <3>2
    <3> QED
      BY <2>1, <3>1, <3>2, <3>3, <3>4, StartServerKeepsStart
  <2> QED
    BY <1>5, <2>1, TerminatedKeepsStart DEF sessionNew, startServerInterrupts
<1>6. ASSUME NEW s \in Sessions, retryStart(s) PROVE StartInv'
  <2> DEFINE others == [retries EXCEPT ![s] = @ - 1]
  <2>1. CASE startServer(s, others) /\ UNCHANGED <<signals, listed>>
    <3>1. /\ retries[s] > 0 /\ starting = NoSession /\ service = "up"
          /\ UNCHANGED <<multiSession, session>>
      BY <1>6 DEF retryStart, InEventLoop, logindVars
    <3>2. others \in [Sessions -> Nat] /\ \A t \in Sessions : t # s => others[t] = retries[t]
      BY <3>1 DEF TypeOK
    <3>3. \A k, t : Announced(k, t)' = Announced(k, t)
      BY <2>1 DEF Announced
    <3> HIDE DEF others
    <3> QED
      BY <2>1, <3>1, <3>2, <3>3, StartServerKeepsStart
  <2> QED
    BY <1>6, <2>1, TerminatedKeepsStart DEF retryStart, startServerInterrupts
<1>7. ASSUME NEW s \in Sessions, sessionRemoved(s) PROVE StartInv'
  <2>1. CASE stopServers({s}) /\ signals' = Tail(signals)
             /\ UNCHANGED <<service, listed, starting, retries>>
    <3>1. /\ signals # <<>> /\ Head(signals) = <<"SessionRemoved", s>>
          /\ UNCHANGED <<multiSession, session>>
      BY <1>7 DEF sessionRemoved, logindVars
    <3>2. 1 \in DOMAIN signals /\ signals[1] = Head(signals)
      BY <3>1 DEF TypeOK
    <3>3. session[s] = "removed"
      BY <3>1, <3>2 DEF StartInv, RemovalsAreTrue, Announced
    <3>4. /\ \A k, t : Announced(k, t)' => Announced(k, t)
          /\ \A k, t : Announced(k, t) /\ Head(signals) # <<k, t>> => Announced(k, t)'
      BY <2>1, <3>1, TailSignal
    <3>5. \A t \in Sessions : t # s => serverProcesses'[t] = serverProcesses[t]
      BY <2>1 DEF stopServers
    <3>6. \A t \in Sessions : Announced("SessionNew", t) => Announced("SessionNew", t)'
      BY <3>1, <3>4
    <3>7. RemovalsAreTrue'
      BY <3>1, <3>4 DEF StartInv, RemovalsAreTrue
    <3>8. StartIsKept'
      BY <2>1, <3>1, <3>3, <3>5, <3>6, LinuxServiceCoreAssumption
         DEF StartInv, StartIsKept, StartPending, Exists
    <3> QED
      BY <3>7, <3>8 DEF StartInv
  <2> QED
    BY <1>7, <2>1, TerminatedKeepsStart DEF sessionRemoved
<1>8. CASE connectToLoginManager
  BY <1>8 DEF connectToLoginManager, logindVars, StartInv, RemovalsAreTrue, StartIsKept, Announced
<1>9. CASE listSessions
  BY <1>9, LinuxServiceCoreAssumption
     DEF listSessions, logindVars, StartInv, RemovalsAreTrue, StartIsKept, StartPending,
         Announced, Exists
<1>10. CASE startProcess
  BY <1>10, StartProcessKeepsStart
<1>11. CASE killService
  BY <1>11, TerminatedKeepsStart DEF killService
<1>12. CASE UNCHANGED vars \/ (\E s \in Sessions : grow(s)) \/ (\E p \in Processes : endServer(p))
  BY <1>12, StartUnchanged DEF vars, logindVars, serverVars, grow, endServer
<1> QED
  BY <1>1, <1>2, <1>3, <1>4, <1>5, <1>6, <1>7, <1>8, <1>9, <1>10, <1>11, <1>12
     DEF Next, SessionStep

\* However slowly a session starts, however signals, retries and restarts of the service
\* interleave: in multi session mode a graphical session never ends up with neither a
\* server nor something that is going to start one (startServer(), its retry timers, the
\* list and the signals of the login manager).  SessionIsServed rests on it.
THEOREM StartsKept == Spec => []StartIsKept
<1>1. Init => StartInv
  <2>1. Init => DOMAIN signals = {}
    BY DEF Init
  <2> QED
    BY <2>1 DEF Init, StartInv, RemovalsAreTrue, StartIsKept, Announced
<1>2. StartInv => StartIsKept
  BY DEF StartInv
<1> QED
  BY <1>1, <1>2, TypeInit, TypeStep, KnownInit, KnownStep, StartStep, PTL DEF Spec

=============================================================================
