------------------------ MODULE AccessControlProvider ------------------------
(***************************************************************************)
(* The access decision of the Veyon service: which of Allow, ToBeConfirmed *)
(* and Deny an authenticated user at a computer gets, from the configured  *)
(* access control method, the local session and the users already          *)
(* connected (core/src/AccessControlProvider.cpp).                         *)
(*                                                                         *)
(* Names are model values.  A group or location argument of a rule is the  *)
(* one name it stands for: the regular expression of a group argument is   *)
(* abstracted to the group it selects, the sorted lists of locations to    *)
(* sets.  NoName is the empty string.                                      *)
(***************************************************************************)
EXTENDS Integers, Sequences, FiniteSets

CONSTANTS
  Users,             \* user names, local and remote
  Computers,         \* host addresses
  Groups,            \* user group names
  Locations,         \* location names
  NoName,            \* the empty string
  GroupsOf,          \* the user groups backend: [Users -> SUBSET Groups]
  LocationsOf,       \* the network object directory: [Computers -> SUBSET Locations]
  LocalAddresses,    \* the addresses of this computer
  AuthorizedGroups   \* configured authorized user groups

ASSUME NamesAssumption ==
  /\ NoName \notin Users \cup Computers \cup Groups \cup Locations
  /\ GroupsOf \in [Users -> SUBSET Groups]
  /\ LocationsOf \in [Computers -> SUBSET Locations]
  /\ LocalAddresses \subseteq Computers
  /\ AuthorizedGroups \subseteq Groups

-----------------------------------------------------------------------------
Action == {"None", "Allow", "Deny", "AskForPermission"}

Access == {"Deny", "Allow", "ToBeConfirmed"}

Condition ==
  { "MemberOfUserGroup", "GroupsInCommon", "LocatedAt", "SameLocation",
    "AccessFromLocalHost", "AccessFromLocalUser",
    "AccessFromAlreadyConnectedUser", "NoUserLoggedOn" }

Subject ==
  {"None", "AccessingUser", "AccessingComputer", "LocalUser", "LocalComputer"}

\* "on" is the set of enabled conditions; the subjects and arguments of the two
\* conditions that have one are fields of their own.
AccessControlRule ==
  [ action : Action, ignoreConditions : BOOLEAN, invertConditions : BOOLEAN,
    on : SUBSET Condition,
    memberSubject : Subject, group : Groups \cup {NoName},
    locatedSubject : Subject, location : Locations \cup {NoName} ]

\* The local state a decision reads: the user of the server's session, this
\* computer's own name and whether any user is logged on.
Session ==
  [ user : Users \cup {NoName}, computer : Computers, loggedOn : BOOLEAN ]

\* An access request: who asks, from where, in which local session, and which
\* users are connected already.
Request ==
  [ user : Users \cup {NoName}, computer : Computers \cup {NoName},
    session : Session, connected : SUBSET Users ]

-----------------------------------------------------------------------------
lookupSubject(subject, accessingUser, accessingComputer, localUser, localComputer) ==
  CASE subject = "AccessingUser"     -> accessingUser
    [] subject = "AccessingComputer" -> accessingComputer
    [] subject = "LocalUser"         -> localUser
    [] subject = "LocalComputer"     -> localComputer
    [] OTHER                         -> NoName

MemberUser(rule, req) ==
  lookupSubject(rule.memberSubject, req.user, NoName, req.session.user, NoName)

LocatedComputer(rule, req) ==
  lookupSubject(rule.locatedSubject, NoName, req.computer, NoName, req.session.computer)

\* A condition whose operands are empty never matches, inverted or not.
HasOperands(rule, condition, req) ==
  CASE condition = "MemberOfUserGroup" ->
         MemberUser(rule, req) # NoName /\ rule.group # NoName
    [] condition = "GroupsInCommon" ->
         req.user # NoName /\ req.session.user # NoName
    [] condition = "LocatedAt" ->
         LocatedComputer(rule, req) # NoName /\ rule.location # NoName
    [] condition = "SameLocation" ->
         req.computer # NoName /\ req.session.computer # NoName
    [] OTHER -> TRUE

Holds(rule, condition, req) ==
  CASE condition = "MemberOfUserGroup" ->
         rule.group \in GroupsOf[MemberUser(rule, req)]
    [] condition = "GroupsInCommon" ->
         GroupsOf[req.user] \cap GroupsOf[req.session.user] # {}
    [] condition = "LocatedAt" ->
         rule.location \in LocationsOf[LocatedComputer(rule, req)]
    [] condition = "SameLocation" ->
         /\ LocationsOf[req.computer] # {}
         /\ LocationsOf[req.computer] = LocationsOf[req.session.computer]
    [] condition = "AccessFromLocalHost" ->
         req.computer \in LocalAddresses
    [] condition = "AccessFromLocalUser" ->
         req.user # NoName /\ req.user = req.session.user
    [] condition = "AccessFromAlreadyConnectedUser" ->
         req.user \in req.connected
    [] condition = "NoUserLoggedOn" ->
         ~ req.session.loggedOn

\* All enabled conditions have to match, each against the inversion flag; a rule
\* without conditions does not match.
matchConditions(rule, req) ==
  /\ rule.on # {}
  /\ \A condition \in rule.on :
       /\ HasOperands(rule, condition, req)
       /\ Holds(rule, condition, req) = ~ rule.invertConditions

Decides(rule, req) ==
  /\ rule.action # "None"
  /\ rule.ignoreConditions \/ matchConditions(rule, req)

\* The first rule that decides the request gives its action, no rule denies.
processAccessControlRules(rules, req) ==
  IF \E i \in DOMAIN rules : Decides(rules[i], req)
  THEN LET first == CHOOSE i \in DOMAIN rules :
                      /\ Decides(rules[i], req)
                      /\ \A j \in DOMAIN rules : Decides(rules[j], req) => i <= j
       IN  rules[first].action
  ELSE "Deny"

processAuthorizedGroups(user) ==
  user # NoName /\ GroupsOf[user] \cap AuthorizedGroups # {}

\* methods is the set of enabled access control methods; user groups take
\* precedence over rules, and without a method everybody is allowed.
Methods == {"groups", "rules"}

checkAccess(methods, rules, req) ==
  IF "groups" \in methods
  THEN IF processAuthorizedGroups(req.user) THEN "Allow" ELSE "Deny"
  ELSE IF "rules" \in methods
       THEN LET action == processAccessControlRules(rules, req)
            IN  CASE action = "Allow"            -> "Allow"
                  [] action = "AskForPermission" -> "ToBeConfirmed"
                  [] OTHER                       -> "Deny"
       ELSE "Allow"

\* Evaluated once at server start, with an empty user, an empty computer and
\* nobody connected; unlike processAccessControlRules it does not look at
\* ignoreConditions.
isAccessToLocalComputerDenied(methods, rules, session) ==
  LET req == [ user |-> NoName, computer |-> NoName,
               session |-> session, connected |-> {} ]
      decides(i) == /\ rules[i].action # "None"
                    /\ matchConditions(rules[i], req)
  IN  /\ "rules" \in methods
      /\ \E i \in DOMAIN rules :
           /\ decides(i)
           /\ rules[i].action = "Deny"
           /\ \A j \in 1..(i-1) : ~ decides(j)

=============================================================================
