-------------------------- MODULE ServerAccessProofs --------------------------
(***************************************************************************)
(* Theorems about ServerAccess for every set of connections, every rule    *)
(* list and every directory of users, groups and locations.                *)
(***************************************************************************)
EXTENDS ServerAccess, SequenceTheorems, WellFoundedInduction, TLAPS

-----------------------------------------------------------------------------
(* The access decision                                                     *)

LEMMA SmallestIndex ==
  ASSUME NEW S \in SUBSET Nat, S # {}
  PROVE  \E n \in S : \A k \in S : n <= k
<1>1. PICK n \in S : \A k \in S : <<k, n>> \notin OpToRel(<, Nat)
  BY WFMin, NatLessThanWellFounded, Zenon
<1>2. \A k \in S : ~ (k < n)
  BY <1>1 DEF OpToRel
<1> QED
  BY <1>2

\* A rule that decides the request, with none before it that does, gives the action.
LEMMA FirstRuleDecides ==
  ASSUME NEW rules \in Seq(AccessControlRule), NEW req, NEW n \in 1..Len(rules),
         Decides(rules[n], req), \A j \in 1..(n - 1) : ~ Decides(rules[j], req)
  PROVE  processAccessControlRules(rules, req) = rules[n].action
<1> DEFINE First(i) == /\ Decides(rules[i], req)
                       /\ \A j \in DOMAIN rules : Decides(rules[j], req) => i <= j
<1>1. DOMAIN rules = 1..Len(rules)
  OBVIOUS
<1>2. First(n)
  BY <1>1
<1>3. \A i \in DOMAIN rules : First(i) => i = n
  BY <1>1, <1>2
<1> HIDE DEF First
<1>4. (CHOOSE i \in DOMAIN rules : First(i)) = n
  BY <1>1, <1>2, <1>3
<1> QED
  BY <1>1, <1>4 DEF processAccessControlRules, First

LEMMA NoRuleDenies ==
  ASSUME NEW rules \in Seq(AccessControlRule), NEW req,
         \A i \in 1..Len(rules) : ~ Decides(rules[i], req)
  PROVE  processAccessControlRules(rules, req) = "Deny"
  BY DEF processAccessControlRules

\* The rules are gone through in their order, one after the other: the first one is left
\* behind if it is disabled or does not match, otherwise its action counts whatever comes
\* behind it, and a list that has come to its end denies
\* (AccessControlProvider::processAccessControlRules()).
THEOREM RulesInOrder ==
  ASSUME NEW rules \in Seq(AccessControlRule), NEW req
  PROVE  processAccessControlRules(rules, req) =
           IF rules = <<>> THEN "Deny"
           ELSE IF Decides(Head(rules), req) THEN Head(rules).action
           ELSE processAccessControlRules(Tail(rules), req)
<1>1. CASE rules = <<>>
  <2>1. 1..Len(rules) = {}
    BY <1>1
  <2> QED
    BY <1>1, <2>1, NoRuleDenies
<1>2. CASE rules # <<>> /\ Decides(Head(rules), req)
  <2>1. 1 \in 1..Len(rules) /\ rules[1] = Head(rules) /\ 1..(1 - 1) = {}
    BY <1>2
  <2> QED
    BY <1>2, <2>1, FirstRuleDecides
<1>3. CASE rules # <<>> /\ ~ Decides(Head(rules), req)
  <2>1. PICK rest \in Seq(AccessControlRule) :
          /\ rest = Tail(rules) /\ Len(rest) = Len(rules) - 1
          /\ \A i \in 1..Len(rest) : rest[i] = rules[i + 1]
    BY <1>3, HeadTailProperties
  <2>2. \A i \in 1..Len(rules) : i = 1 \/ (i - 1 \in 1..Len(rest) /\ rules[i] = rest[i - 1])
    BY <2>1
  <2>3. ~ Decides(rules[1], req)
    BY <1>3
  <2>4. CASE \A i \in 1..Len(rest) : ~ Decides(rest[i], req)
    <3>1. \A i \in 1..Len(rules) : ~ Decides(rules[i], req)
      BY <2>2, <2>3, <2>4
    <3> QED
      BY <1>3, <2>1, <2>4, <3>1, NoRuleDenies
  <2>5. CASE \E i \in 1..Len(rest) : Decides(rest[i], req)
    <3> DEFINE S == {i \in 1..Len(rest) : Decides(rest[i], req)}
    <3>1. PICK n \in S : \A k \in S : n <= k
      <4>1. S \in SUBSET Nat /\ S # {}
        BY <2>5
      <4> HIDE DEF S
      <4> QED
        BY <4>1, SmallestIndex
    <3>2. \A j \in 1..(n - 1) : ~ Decides(rest[j], req)
      BY <3>1
    <3>3. processAccessControlRules(rest, req) = rest[n].action
      BY <3>1, <3>2, FirstRuleDecides
    <3>4. n + 1 \in 1..Len(rules) /\ rules[n + 1] = rest[n] /\ Decides(rules[n + 1], req)
      BY <2>1, <3>1
    <3>5. \A j \in 1..((n + 1) - 1) : ~ Decides(rules[j], req)
      BY <2>1, <2>2, <2>3, <3>1, <3>2
    <3>6. processAccessControlRules(rules, req) = rules[n + 1].action
      BY <3>4, <3>5, FirstRuleDecides
    <3> QED
      BY <1>3, <2>1, <3>3, <3>4, <3>6
  <2> QED
    BY <2>4, <2>5
<1> QED
  BY <1>1, <1>2, <1>3

\* A rule that looks at nothing but the local session.
LocalRule(rule) ==
  /\ ~ rule.ignoreConditions
  /\ rule.on \subseteq {"MemberOfUserGroup", "LocatedAt", "NoUserLoggedOn"}
  /\ rule.memberSubject # "AccessingUser" /\ rule.locatedSubject # "AccessingComputer"

LEMMA LocalRulesMatch ==
  ASSUME NEW rule \in AccessControlRule, LocalRule(rule), NEW r, NEW q, r.session = q.session
  PROVE  matchConditions(rule, r) = matchConditions(rule, q)
<1>1. /\ MemberUser(rule, r) = MemberUser(rule, q)
      /\ LocatedComputer(rule, r) = LocatedComputer(rule, q)
  BY DEF LocalRule, MemberUser, LocatedComputer, lookupSubject, AccessControlRule, Subject
<1>2. ASSUME NEW condition \in {"MemberOfUserGroup", "LocatedAt", "NoUserLoggedOn"}
      PROVE  /\ HasOperands(rule, condition, r) = HasOperands(rule, condition, q)
             /\ Holds(rule, condition, r) = Holds(rule, condition, q)
  BY <1>1 DEF HasOperands, Holds
<1> QED
  BY <1>2 DEF matchConditions, LocalRule

\* The server is started for local connections only if isAccessToLocalComputerDenied(),
\* which asks the rules on behalf of nobody, finds "that any incoming access requests
\* would be denied due to a deny rule matching the local state".  So they are,
\* as long as the rules in use look at the local session only
\* (AccessControlProvider::isAccessToLocalComputerDenied(), ComputerControlServer).
THEOREM LocalDenialHolds ==
  ASSUME NEW methods \in SUBSET Methods, "groups" \notin methods,
         NEW rules \in Seq(AccessControlRule), NEW req \in Request,
         \A i \in 1..Len(rules) : rules[i].action # "None" => LocalRule(rules[i]),
         isAccessToLocalComputerDenied(methods, rules, req.session)
  PROVE  checkAccess(methods, rules, req) = "Deny"
<1> DEFINE nobody == [user |-> NoName, computer |-> NoName,
                      session |-> req.session, connected |-> {}]
<1>1. PICK n \in DOMAIN rules :
        /\ rules[n].action = "Deny" /\ matchConditions(rules[n], nobody)
        /\ \A j \in 1..(n - 1) :
             ~ (rules[j].action # "None" /\ matchConditions(rules[j], nobody))
  BY Zenon DEF isAccessToLocalComputerDenied
<1>2. "rules" \in methods
  BY DEF isAccessToLocalComputerDenied
<1>3. nobody.session = req.session
  OBVIOUS
<1> HIDE DEF nobody
<1>4. ASSUME NEW i \in 1..Len(rules), rules[i].action # "None"
      PROVE  Decides(rules[i], req) <=> matchConditions(rules[i], nobody)
  <2>1. rules[i] \in AccessControlRule /\ LocalRule(rules[i])
    BY <1>4
  <2>2. matchConditions(rules[i], req) = matchConditions(rules[i], nobody)
    BY <1>3, <2>1, LocalRulesMatch
  <2> QED
    BY <1>4, <2>1, <2>2 DEF Decides, LocalRule
<1>5. Decides(rules[n], req)
  BY <1>1, <1>4
<1>6. \A j \in 1..(n - 1) : ~ Decides(rules[j], req)
  <2> SUFFICES ASSUME NEW j \in 1..(n - 1), Decides(rules[j], req)
               PROVE  FALSE
    OBVIOUS
  <2>1. j \in 1..Len(rules) /\ rules[j].action # "None"
    BY <1>1 DEF Decides
  <2> QED
    BY <1>1, <1>4, <2>1
<1>7. processAccessControlRules(rules, req) = "Deny"
  BY <1>1, <1>5, <1>6, FirstRuleDecides
<1> QED
  BY <1>2, <1>7 DEF checkAccess

-----------------------------------------------------------------------------
(* Types                                                                   *)

\* An access check answers with one of the three results of the source's enum.
LEMMA CheckAccessType ==
  ASSUME NEW methods, NEW rules, NEW req
  PROVE  checkAccess(methods, rules, req) \in Access
  BY DEF checkAccess, Access

\* addClient() leaves a client in one of the access control states, never in Init.
LEMMA AccessResultType ==
  ASSUME NEW c
  PROVE  AccessResult(c) \in AccessControlState \ {"Init"}
  BY DEF AccessResult, performAccessControl, confirmDesktopAccess, AccessControlState

\* Removing a client from a list leaves a list of clients.
LEMMA WithoutType ==
  ASSUME NEW S, NEW s \in Seq(S), NEW c
  PROVE  Without(s, c) \in Seq(S)
<1>1. CASE ~ \E i \in DOMAIN s : s[i] = c
  BY <1>1 DEF Without
<1>2. CASE \E i \in DOMAIN s : s[i] = c
  <2> DEFINE k == CHOOSE i \in DOMAIN s : s[i] = c
  <2>1. k \in 1..Len(s)
    BY <1>2
  <2>2. \A i \in 1..Len(s) : s[i] \in S
    BY ElementOfSeq
  <2> HIDE DEF k
  <2>3. SubSeq(s, 1, k-1) \in Seq(S) /\ SubSeq(s, k+1, Len(s)) \in Seq(S)
    BY <2>1, <2>2, SubSeqProperties
  <2>4. Without(s, c) = SubSeq(s, 1, k-1) \o SubSeq(s, k+1, Len(s))
    BY <1>2 DEF Without, RemoveAt, k
  <2> QED
    BY <2>3, <2>4
<1> QED
  BY <1>1, <1>2

-----------------------------------------------------------------------------
\* Beside its types: a client with an authentication type has named itself, and so
\* the dialog asks for somebody while it is busy.
RequestIsNamed ==
  /\ \A c \in Clients : authType[c] # "Invalid" => peer[c] \in Peers
  /\ worker # "none" => request \in Peers

TypeInv == TypeOK /\ RequestIsNamed

LEMMA TypeInit == Init => TypeInv
<1> SUFFICES ASSUME Init
             PROVE  TypeInv
  OBVIOUS
<1>1. <<>> \in Seq(Clients)
  OBVIOUS
<1>2. /\ protocolState \in [Clients -> State]
      /\ authState \in [Clients -> AuthState]
      /\ authType \in [Clients -> AuthType]
      /\ accessControlState \in [Clients -> AccessControlState]
      /\ m_desktopAccessChoices \in [Peers -> Choice]
  BY DEF Init, State, AuthState, AuthType, AccessControlState, Choice
<1>3. /\ peer \in [Clients -> Peers \cup {NoName}]
      /\ socket \in [Clients -> {"none", "open", "closed"}]
      /\ checkedIn \in [Clients -> Sessions]
  BY DEF Init
<1> QED
  BY <1>1, <1>2, <1>3 DEF Init, TypeInv, TypeOK, RequestIsNamed

\* A client the dialog is opened for has named itself.
LEMMA PendingIsNamed ==
  ASSUME TypeInv, NEW c \in Clients, AccessResult(c) = "Pending"
  PROVE  peer[c] \in Peers
  BY DEF TypeInv, RequestIsNamed, AccessResult, HasAccessCheck

\* addClient() on its own preserves the types of what it assigns.
LEMMA AddClientType ==
  ASSUME TypeInv, NEW c \in Clients, addClient(c)
  PROVE  /\ accessControlState' \in [Clients -> AccessControlState]
         /\ m_clients' \in Seq(Clients)
         /\ worker' \in {"none", "starting", "asking"}
         /\ request' \in Peers \cup {NoName}
         /\ abortTimer' \in BOOLEAN
         /\ listening' \in Seq(Clients)
         /\ checkedIn' \in [Clients -> Sessions]
         /\ consented' \subseteq Peers /\ vouched' \subseteq Peers
         /\ answered' \subseteq Clients
         /\ worker' # "none" => request' \in Peers
<1> DEFINE result == AccessResult(c)
<1>1. result \in AccessControlState
  BY AccessResultType
<1>2. /\ accessControlState' = [accessControlState EXCEPT ![c] = result]
      /\ m_clients' = IF result = "Successful" THEN Append(m_clients, c) ELSE m_clients
      /\ IF result = "Pending"
         THEN exec(c) /\ listening' = Append(listening, c)
         ELSE UNCHANGED dialogVars
      /\ checkedIn' = [checkedIn EXCEPT ![c] = session]
      /\ answered' = answered \ {c}
      /\ UNCHANGED <<consented, vouched>>
  BY DEF addClient
<1>3. result = "Pending" => peer[c] \in Peers
  BY PendingIsNamed
<1> HIDE DEF result
<1>4. CASE result = "Pending"
  <2>1. /\ worker' = "starting" /\ request' = peer[c] /\ abortTimer' = TRUE
        /\ listening' = Append(listening, c)
        /\ m_clients' = m_clients
    BY <1>2, <1>4 DEF exec
  <2>2. Append(listening, c) \in Seq(Clients)
    BY DEF TypeInv, TypeOK
  <2> QED
    BY <1>1, <1>2, <1>3, <1>4, <2>1, <2>2 DEF TypeInv, TypeOK
<1>5. CASE result # "Pending"
  BY <1>1, <1>2, <1>5 DEF TypeInv, TypeOK, RequestIsNamed, dialogVars
<1> QED
  BY <1>4, <1>5

\* So does finished(), the answer to every client connected to it.
LEMMA FinishedType ==
  ASSUME TypeInv, NEW choice \in Choice, finished(choice)
  PROVE  /\ m_desktopAccessChoices' \in [Peers -> Choice]
         /\ accessControlState' \in [Clients -> AccessControlState]
         /\ protocolState' \in [Clients -> State]
         /\ m_clients' \in Seq(Clients)
         /\ listening' \in Seq(Clients)
         /\ answered' \subseteq Clients
         /\ UNCHANGED checkedIn
<1>1. m_clients \o listening \in Seq(Clients)
  BY DEF TypeInv, TypeOK
<1>2. Range(listening) \subseteq Clients
  BY DEF TypeInv, TypeOK, Range
<1>3. answered' \subseteq Clients
  BY <1>2 DEF TypeInv, TypeOK, finished
<1> QED
  BY <1>1, <1>3 DEF TypeInv, TypeOK, finished, remainingListeners, AccessControlState, State

\* And a report of the choice, whoever sends it.
LEMMA ReportType ==
  ASSUME TypeInv, NEW choice \in Choice,
         reportDesktopAccessChoice(choice),
         consented' \subseteq Peers, vouched' \subseteq Peers
  PROVE  TypeInv'
<1>1. finished(choice)
  BY DEF reportDesktopAccessChoice
<1>2. /\ m_desktopAccessChoices' \in [Peers -> Choice]
      /\ accessControlState' \in [Clients -> AccessControlState]
      /\ protocolState' \in [Clients -> State]
      /\ m_clients' \in Seq(Clients)
      /\ listening' \in Seq(Clients)
      /\ answered' \subseteq Clients
      /\ UNCHANGED checkedIn
  BY <1>1, FinishedType
<1> QED
  BY <1>2 DEF reportDesktopAccessChoice, connVars, TypeInv, TypeOK, RequestIsNamed

-----------------------------------------------------------------------------
LEMMA TypeStep == TypeInv /\ [Next]_vars => TypeInv'
<1> SUFFICES ASSUME TypeInv, [Next]_vars
             PROVE  TypeInv'
  OBVIOUS
<1> USE DEF TypeInv, TypeOK, RequestIsNamed
<1>1. ASSUME NEW c \in Clients, acceptConnection(c)
      PROVE  TypeInv'
  BY <1>1 DEF acceptConnection, unchangedByHandshake, dialogVars, historyVars, State
<1>2. ASSUME NEW c \in Clients, readProtocol(c)
      PROVE  TypeInv'
  BY <1>2 DEF readProtocol, ProtocolStep, unchangedByHandshake, dialogVars, historyVars, State
<1>3. ASSUME NEW c \in Clients, receiveSecurityTypeResponse(c)
      PROVE  TypeInv'
  BY <1>3 DEF receiveSecurityTypeResponse, ProtocolStep, unchangedByHandshake,
     dialogVars, historyVars, State
<1>4. ASSUME NEW c \in Clients, rejectHandshake(c)
      PROVE  TypeInv'
  BY <1>4 DEF rejectHandshake, clientVars, unchangedByHandshake, dialogVars, historyVars
<1>5. ASSUME NEW c \in Clients, NEW type \in supportedAuthTypes, NEW identity \in Peers,
             NEW sent \in BOOLEAN,
             receiveAuthenticationTypeResponse(c, type, identity, sent)
      PROVE  TypeInv'
  <2>1. type \in AuthType /\ FirstAuthState(type) \in AuthState
    BY ServerAccessAssumption DEF supportedAuthTypes, AuthType, AuthState, FirstAuthState
  <2> QED
    BY <1>5, <2>1 DEF receiveAuthenticationTypeResponse, ProtocolStep,
       unchangedByHandshake, dialogVars, historyVars, State, AuthState
<1>6. ASSUME NEW c \in Clients, failAuthentication(c)
      PROVE  TypeInv'
  BY <1>6 DEF failAuthentication, unchangedByHandshake, dialogVars, historyVars, AuthState
<1>7. ASSUME NEW c \in Clients, receiveAuthenticationMessage(c)
      PROVE  TypeInv'
  <2>1. addClient(c)
    BY <1>7 DEF receiveAuthenticationMessage
  <2>2. StateAfterAccessControl(AccessResult(c), DeniedByRules(c)) \in State
    BY DEF StateAfterAccessControl, State
  <2> QED
    BY <1>7, <2>1, <2>2, AddClientType DEF receiveAuthenticationMessage, AuthState
<1>8. ASSUME NEW c \in Clients, retryAccessControl(c)
      PROVE  TypeInv'
  <2>1. addClient(c)
    BY <1>8 DEF retryAccessControl
  <2>2. StateAfterAccessControl(AccessResult(c), DeniedByRules(c)) \in State
    BY DEF StateAfterAccessControl, State
  <2> QED
    BY <1>8, <2>1, <2>2, AddClientType DEF retryAccessControl
<1>9. ASSUME NEW c \in Clients, passAccessControl(c)
      PROVE  TypeInv'
  BY <1>9 DEF passAccessControl, unchangedByHandshake, dialogVars, historyVars, State
<1>10. ASSUME NEW c \in Clients, processFramebufferInit(c)
       PROVE  TypeInv'
  BY <1>10 DEF processFramebufferInit, ProtocolStep, unchangedByHandshake,
     dialogVars, historyVars, State
<1>11. ASSUME NEW c \in Clients, readClose(c)
       PROVE  TypeInv'
  BY <1>11 DEF readClose, clientVars, unchangedByHandshake, dialogVars, historyVars
<1>12. ASSUME NEW c \in Clients, setServerInitMessage(c)
       PROVE  TypeInv'
  BY <1>12 DEF setServerInitMessage, clientVars, dialogVars, historyVars
<1>13. ASSUME NEW c \in Clients, closeConnection(c)
       PROVE  TypeInv'
  BY <1>13 DEF closeConnection, clientVars, dialogVars, historyVars
<1>14. ASSUME NEW c \in Clients, deleteClient(c)
       PROVE  TypeInv'
  <2>1. Without(m_clients, c) \in Seq(Clients) /\ Without(listening, c) \in Seq(Clients)
    BY WithoutType
  <2>2. <<>> \in Seq(Clients)
    OBVIOUS
  <2> QED
    BY <1>14, <2>1, <2>2 DEF deleteClient, State, AuthState, AuthType, AccessControlState
<1>15. ASSUME workerConnected
       PROVE  TypeInv'
  BY <1>15 DEF workerConnected, clientVars, connVars, historyVars
<1>16. ASSUME NEW choice \in requestDesktopAccess, reportFromWorker(choice)
       PROVE  TypeInv'
  <2>1. choice \in Choice
    BY DEF requestDesktopAccess, Choice
  <2>2. reportDesktopAccessChoice(choice) /\ consented' \subseteq Peers /\ vouched' \subseteq Peers
    BY <1>16 DEF reportFromWorker, Admitted
  <2> QED
    BY <2>1, <2>2, ReportType
<1>22. ASSUME NEW c \in Clients, NEW choice \in Choice, reportFromClient(c, choice)
       PROVE  TypeInv'
  <2>1. reportDesktopAccessChoice(choice) /\ consented' \subseteq Peers /\ vouched' \subseteq Peers
    BY <1>22 DEF reportFromClient, Admitted
  <2> QED
    BY <2>1, ReportType
<1>17. ASSUME abort
       PROVE  TypeInv'
  <2>1. "ChoiceNone" \in Choice /\ finished("ChoiceNone")
    BY <1>17 DEF Choice, abort
  <2> QED
    BY <1>17, <2>1, FinishedType DEF abort, connVars, historyVars
<1>18. ASSUME closeWorkerConnection
       PROVE  TypeInv'
  BY <1>18 DEF closeWorkerConnection, clientVars, connVars, historyVars
<1>19. ASSUME recheckClient
       PROVE  TypeInv'
  <2> DEFINE c == Head(previousClients)
  <2>1. c \in Clients /\ Tail(previousClients) \in Seq(Clients)
    BY <1>19 DEF recheckClient, Idle
  <2>2. addClient(c)
    BY <1>19 DEF recheckClient
  <2>3. protocolState' = IF staysConnected(AccessResult(c)) THEN protocolState
                         ELSE [protocolState EXCEPT ![c] = "Close"]
    BY <1>19 DEF recheckClient
  <2> HIDE DEF c
  <2>4. protocolState' \in [Clients -> State]
    BY <2>1, <2>3 DEF State
  <2> QED
    BY <1>19, <2>1, <2>2, <2>4, AddClientType DEF recheckClient, connVars
<1>20. ASSUME changeSession
       PROVE  TypeInv'
  BY <1>20 DEF changeSession, clientVars, connVars, dialogVars, historyVars
<1>21. CASE UNCHANGED vars
  BY <1>21 DEF vars, clientVars, connVars, dialogVars, historyVars
<1> QED
  BY <1>1, <1>2, <1>3, <1>4, <1>5, <1>6, <1>7, <1>8, <1>9, <1>10, <1>11, <1>12,
     <1>13, <1>14, <1>15, <1>16, <1>17, <1>18, <1>19, <1>20, <1>21, <1>22
     DEF Next, ClientStep, DialogStep

\* The state of the server stays within its types: in particular, the list of
\* clients and the list of a re-check under way name connections of the server.
THEOREM TypeCorrect == Spec => []TypeOK
<1>1. TypeInv => TypeOK
  BY DEF TypeInv
<1> QED
  BY <1>1, TypeInit, TypeStep, PTL DEF Spec

-----------------------------------------------------------------------------
\* ViewersPassedAccessControl is not inductive either: a client that leaves access
\* control for the screen was authenticated when it entered it.
ViewerInv ==
  /\ TypeInv
  /\ \A c \in Clients :
       protocolState[c] = "AccessControl" => authState[c] = "Successful"
  /\ ViewersPassedAccessControl

Viewing == {"FramebufferInit", "Running"}

\* A client processAccessControl() lets pass has been admitted.
LEMMA PassingIsAdmitted ==
  ASSUME NEW result, NEW denied, StateAfterAccessControl(result, denied) \in Viewing
  PROVE  result = "Successful"
  BY DEF StateAfterAccessControl, Viewing

\* A step that changes neither an access control state nor an authentication, and
\* no protocol state but that of one client towards Close or away from access
\* control, preserves ViewerInv.
LEMMA ViewerUndisturbed ==
  ASSUME ViewerInv, TypeInv', UNCHANGED accessControlState,
         \A c \in Clients :
           /\ protocolState'[c] \in Viewing \cup {"AccessControl"} =>
                /\ authState'[c] = authState[c]
                /\ \/ protocolState'[c] = protocolState[c]
                   \/ protocolState[c] \in Viewing
                   \/ protocolState[c] = "AccessControl" /\ accessControlState[c] = "Successful"
  PROVE  ViewerInv'
  BY DEF ViewerInv, ViewersPassedAccessControl, Viewing

\* An answer of the dialog sends whom it refuses to Close.
LEMMA ViewerFinished ==
  ASSUME ViewerInv, TypeInv', UNCHANGED authState, NEW choice, finished(choice)
  PROVE  ViewerInv'
<1>1. ASSUME NEW c \in Clients
      PROVE  /\ protocolState'[c] \in {protocolState[c], "Close"}
             /\ accessControlState'[c] \in {accessControlState[c], "Successful"}
                \/ protocolState'[c] = "Close"
  BY DEF finished, ViewerInv, TypeInv, TypeOK
<1> QED
  BY <1>1 DEF ViewerInv, ViewersPassedAccessControl

LEMMA ViewerStep == ViewerInv /\ [Next]_vars => ViewerInv'
<1> SUFFICES ASSUME ViewerInv, [Next]_vars
             PROVE  ViewerInv'
  OBVIOUS
<1>0. TypeInv /\ TypeInv'
  BY TypeStep DEF ViewerInv
<1> DEFINE Undisturbed ==
      /\ UNCHANGED accessControlState
      /\ \A c \in Clients :
           protocolState'[c] \in Viewing \cup {"AccessControl"} =>
             /\ authState'[c] = authState[c]
             /\ \/ protocolState'[c] = protocolState[c]
                \/ protocolState[c] \in Viewing
                \/ protocolState[c] = "AccessControl" /\ accessControlState[c] = "Successful"
<1>a. Undisturbed => ViewerInv'
  BY <1>0, ViewerUndisturbed
<1>1. ASSUME NEW c \in Clients, acceptConnection(c)
      PROVE  Undisturbed
  BY <1>0, <1>1 DEF TypeInv, TypeOK, acceptConnection, unchangedByHandshake, Viewing
<1>2. ASSUME NEW c \in Clients, readProtocol(c)
      PROVE  Undisturbed
  BY <1>0, <1>2 DEF TypeInv, TypeOK, readProtocol, ProtocolStep, unchangedByHandshake, Viewing
<1>3. ASSUME NEW c \in Clients, receiveSecurityTypeResponse(c)
      PROVE  Undisturbed
  BY <1>0, <1>3 DEF TypeInv, TypeOK, receiveSecurityTypeResponse, ProtocolStep,
     unchangedByHandshake, Viewing
<1>4. ASSUME NEW c \in Clients, rejectHandshake(c) \/ readClose(c)
      PROVE  Undisturbed
  BY <1>4 DEF rejectHandshake, readClose, clientVars, unchangedByHandshake
<1>5. ASSUME NEW c \in Clients, NEW type \in supportedAuthTypes, NEW identity \in Peers,
             NEW sent \in BOOLEAN,
             receiveAuthenticationTypeResponse(c, type, identity, sent)
      PROVE  Undisturbed
  BY <1>0, <1>5 DEF TypeInv, TypeOK, receiveAuthenticationTypeResponse, ProtocolStep,
     unchangedByHandshake, Viewing
<1>6. ASSUME NEW c \in Clients, failAuthentication(c)
      PROVE  Undisturbed
  BY <1>0, <1>6 DEF TypeInv, TypeOK, failAuthentication, unchangedByHandshake, Viewing
<1>7. ASSUME NEW c \in Clients, receiveAuthenticationMessage(c) \/ retryAccessControl(c)
      PROVE  ViewerInv'
  <2> DEFINE result == AccessResult(c)
             state  == StateAfterAccessControl(result, DeniedByRules(c))
  <2>1. /\ accessControlState' = [accessControlState EXCEPT ![c] = result]
        /\ protocolState' = [protocolState EXCEPT ![c] = state]
    BY <1>7 DEF receiveAuthenticationMessage, retryAccessControl, addClient
  <2>2. authState'[c] = "Successful" /\ \A d \in Clients : d # c => authState'[d] = authState[d]
    BY <1>0, <1>7 DEF receiveAuthenticationMessage, retryAccessControl, ViewerInv, TypeInv, TypeOK
  <2>3. state \in Viewing => result = "Successful"
    BY PassingIsAdmitted
  <2> HIDE DEF result, state
  <2> QED
    BY <1>0, <2>1, <2>2, <2>3 DEF ViewerInv, TypeInv, TypeOK, ViewersPassedAccessControl, Viewing
<1>8. ASSUME NEW c \in Clients, passAccessControl(c)
      PROVE  Undisturbed
  BY <1>0, <1>8 DEF TypeInv, TypeOK, passAccessControl, unchangedByHandshake
<1>9. ASSUME NEW c \in Clients, processFramebufferInit(c)
      PROVE  Undisturbed
  BY <1>0, <1>9 DEF TypeInv, TypeOK, processFramebufferInit, ProtocolStep,
     unchangedByHandshake, Viewing
<1>10. ASSUME NEW c \in Clients, setServerInitMessage(c) \/ closeConnection(c)
       PROVE  Undisturbed
  BY <1>10 DEF setServerInitMessage, closeConnection, clientVars
<1>11. ASSUME NEW c \in Clients, deleteClient(c)
       PROVE  ViewerInv'
  <2>1. \A d \in Clients :
          \/ protocolState'[d] = "Disconnected"
          \/ /\ protocolState'[d] = protocolState[d]
             /\ authState'[d] = authState[d]
             /\ accessControlState'[d] = accessControlState[d]
    BY <1>0, <1>11 DEF TypeInv, TypeOK, deleteClient
  <2> QED
    BY <1>0, <2>1 DEF ViewerInv, ViewersPassedAccessControl
<1>12. ASSUME workerConnected \/ closeWorkerConnection
       PROVE  Undisturbed
  BY <1>12 DEF workerConnected, closeWorkerConnection, clientVars
<1>13. ASSUME NEW choice, reportDesktopAccessChoice(choice)
       PROVE  ViewerInv'
  BY <1>0, <1>13, ViewerFinished DEF reportDesktopAccessChoice
<1>14. ASSUME abort
       PROVE  ViewerInv'
  BY <1>0, <1>14, ViewerFinished DEF abort
<1>15. ASSUME recheckClient
       PROVE  ViewerInv'
  <2> DEFINE c      == Head(previousClients)
             result == AccessResult(c)
  <2>1. c \in Clients
    BY <1>0, <1>15 DEF recheckClient, Idle, TypeInv, TypeOK
  <2>2. /\ accessControlState' = [accessControlState EXCEPT ![c] = result]
        /\ protocolState' = IF staysConnected(result) THEN protocolState
                            ELSE [protocolState EXCEPT ![c] = "Close"]
        /\ UNCHANGED authState
    BY <1>15 DEF recheckClient, addClient
  <2> HIDE DEF c, result
  <2> QED
    BY <1>0, <2>1, <2>2 DEF ViewerInv, TypeInv, TypeOK, ViewersPassedAccessControl, staysConnected
<1>16. ASSUME changeSession
       PROVE  Undisturbed
  BY <1>16 DEF changeSession, clientVars
<1>17. ASSUME UNCHANGED vars
       PROVE  Undisturbed
  BY <1>17 DEF vars, clientVars
<1> HIDE DEF Undisturbed
<1> QED
  BY <1>a, <1>1, <1>2, <1>3, <1>4, <1>5, <1>6, <1>7, <1>8, <1>9, <1>10, <1>11, <1>12,
     <1>13, <1>14, <1>15, <1>16, <1>17
     DEF Next, ClientStep, DialogStep, reportFromWorker, reportFromClient

LEMMA ViewerInvariance == Spec => []ViewerInv
<1>1. Init => ViewerInv
  BY TypeInit DEF Init, ViewerInv, ViewersPassedAccessControl
<1> QED
  BY <1>1, ViewerStep, PTL DEF Spec

\* Whoever is served the screen has authenticated and passed access control,
\* whatever the interleaving of connections, re-checks and dialog answers.
THEOREM ViewersAdmitted == Spec => []ViewersPassedAccessControl
<1>1. ViewerInv => ViewersPassedAccessControl
  BY DEF ViewerInv
<1> QED
  BY <1>1, ViewerInvariance, PTL

-----------------------------------------------------------------------------
\* Only three steps lead a client to the screen: the result of its own first
\* access check, the result of a repeated one, and the admission it finds when
\* the local user has answered.
LEMMA AdmissionStep ==
  ASSUME ViewerInv, Next, NEW c \in Clients,
         protocolState'[c] \in Viewing, protocolState[c] \notin Viewing
  PROVE  authState'[c] = "Successful" /\ accessControlState'[c] = "Successful"
<1>0. TypeInv
  BY DEF ViewerInv
<1>1. ASSUME NEW d \in Clients, receiveAuthenticationMessage(d) \/ retryAccessControl(d)
      PROVE  authState'[c] = "Successful" /\ accessControlState'[c] = "Successful"
  <2> DEFINE result == AccessResult(d)
             state  == StateAfterAccessControl(result, DeniedByRules(d))
  <2>1. /\ accessControlState' = [accessControlState EXCEPT ![d] = result]
        /\ protocolState' = [protocolState EXCEPT ![d] = state]
    BY <1>1 DEF receiveAuthenticationMessage, retryAccessControl, addClient
  <2>2. state \in Viewing => result = "Successful"
    BY PassingIsAdmitted
  <2> HIDE DEF result, state
  <2>3. c = d
    BY <1>0, <2>1 DEF TypeInv, TypeOK
  <2>4. authState'[d] = "Successful"
    BY <1>0, <1>1 DEF receiveAuthenticationMessage, retryAccessControl, ViewerInv, TypeInv, TypeOK
  <2> QED
    BY <1>0, <2>1, <2>2, <2>3, <2>4 DEF TypeInv, TypeOK
<1>2. ASSUME NEW d \in Clients, passAccessControl(d)
      PROVE  authState'[c] = "Successful" /\ accessControlState'[c] = "Successful"
  <2>1. c = d
    BY <1>0, <1>2 DEF passAccessControl, TypeInv, TypeOK
  <2> QED
    BY <1>2, <2>1 DEF passAccessControl, unchangedByHandshake, ViewerInv
<1>3. ASSUME NEW d \in Clients,
             \/ acceptConnection(d) \/ readProtocol(d) \/ receiveSecurityTypeResponse(d)
             \/ rejectHandshake(d) \/ failAuthentication(d) \/ readClose(d)
             \/ setServerInitMessage(d) \/ closeConnection(d) \/ deleteClient(d)
      PROVE  FALSE
  BY <1>0, <1>3 DEF acceptConnection, readProtocol, receiveSecurityTypeResponse,
     rejectHandshake, failAuthentication, readClose, setServerInitMessage, closeConnection,
     deleteClient, ProtocolStep, clientVars, TypeInv, TypeOK, Viewing
<1>4. ASSUME NEW d \in Clients, NEW type \in supportedAuthTypes, NEW identity \in Peers,
             NEW sent \in BOOLEAN,
             receiveAuthenticationTypeResponse(d, type, identity, sent)
      PROVE  FALSE
  BY <1>0, <1>4 DEF receiveAuthenticationTypeResponse, ProtocolStep, TypeInv, TypeOK, Viewing
<1>5. ASSUME NEW d \in Clients, processFramebufferInit(d)
      PROVE  FALSE
  BY <1>0, <1>5 DEF processFramebufferInit, ProtocolStep, TypeInv, TypeOK, Viewing
<1>6. ASSUME NEW choice, finished(choice)
      PROVE  FALSE
  BY <1>0, <1>6 DEF finished, TypeInv, TypeOK, Viewing
<1>7. ASSUME DialogStep
      PROVE  FALSE
  BY <1>6, <1>7 DEF DialogStep, workerConnected, reportFromWorker,
     reportDesktopAccessChoice, abort, closeWorkerConnection, clientVars
<1>10. ASSUME NEW d \in Clients, NEW choice \in Choice, reportFromClient(d, choice)
       PROVE  FALSE
  BY <1>6, <1>10 DEF reportFromClient, reportDesktopAccessChoice
<1>8. ASSUME recheckClient
      PROVE  FALSE
  BY <1>0, <1>8 DEF recheckClient, TypeInv, TypeOK, Viewing
<1>9. ASSUME changeSession
      PROVE  FALSE
  BY <1>9 DEF changeSession, clientVars
<1> QED
  BY <1>1, <1>2, <1>3, <1>4, <1>5, <1>7, <1>8, <1>9, <1>10 DEF Next, ClientStep

\* No client gets to the screen but by an allowing rule or the answer of the local
\* user.
THEOREM AdmissionBeforeView == Spec => NoViewBeforeAdmission
<1> DEFINE Admission(c) ==
      protocolState'[c] \in {"FramebufferInit", "Running"} =>
        \/ protocolState[c] \in {"FramebufferInit", "Running"}
        \/ authState'[c] = "Successful" /\ accessControlState'[c] = "Successful"
<1>1. ViewerInv /\ Next => \A c \in Clients : Admission(c)
  BY AdmissionStep DEF Viewing
<1>2. ViewerInv /\ [Next]_vars => [\A c \in Clients : Admission(c)]_vars
  BY <1>1
<1> QED
  BY <1>2, ViewerInvariance, PTL DEF Spec, NoViewBeforeAdmission

=============================================================================
