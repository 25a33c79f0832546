---------------------------- MODULE MCServerAccess ----------------------------
(***************************************************************************)
(* Small instances of ServerAccess.  Two rule sets: the one the student    *)
(* installation scripts deploy (distribution/debian/student/app/           *)
(* default.config: ask for every connection), and one that uses the        *)
(* conditions that change while the server runs.                           *)
(***************************************************************************)
EXTENDS ServerAccess

CONSTANTS c1, c2, c3, alice, bob, student, desk, hall, pc, teachers, room

MCUsers == {alice, bob, student}
MCComputers == {desk, hall, pc}
MCGroupsOf == [u \in MCUsers |-> IF u = alice THEN {teachers} ELSE {}]
MCLocationsOf == [computer \in MCComputers |-> {room}]
MCLocalAddresses == {pc}

BlankRule ==
  [ action |-> "None", ignoreConditions |-> FALSE, invertConditions |-> FALSE,
    on |-> {}, memberSubject |-> "AccessingUser", group |-> teachers,
    locatedSubject |-> "AccessingComputer", location |-> room ]

DeployedRules ==
  << [BlankRule EXCEPT !.action = "AskForPermission", !.ignoreConditions = TRUE] >>

\* Free access while nobody is logged on and for users already connected, the
\* local user is asked about teachers, nobody else gets access.
ConditionalRules ==
  << [BlankRule EXCEPT !.action = "Allow", !.on = {"NoUserLoggedOn"}],
     [BlankRule EXCEPT !.action = "Allow", !.on = {"AccessFromAlreadyConnectedUser"}],
     [BlankRule EXCEPT !.action = "AskForPermission", !.on = {"MemberOfUserGroup"}] >>

LoggedOn == [user |-> student, computer |-> pc, loggedOn |-> TRUE]
LoggedOff == [user |-> NoName, computer |-> pc, loggedOn |-> FALSE]

OneSession == {LoggedOn}
BothSessions == {LoggedOn, LoggedOff}

\* The same user from two computers; two users from one computer, of whom the
\* local user is asked about one and the rules deny the other.
TwoPeers == {<<alice, desk>>, <<alice, hall>>}
MixedPeers == {<<alice, desk>>, <<bob, desk>>}

RulesMethod == {"rules"}

\* Bound of the runs with three connections: one connection at a time is in its
\* handshake or about to be deleted.  The handshake steps of a connection touch
\* nothing but that connection, the two-connection runs interleave them freely.
OneInHandshake ==
  /\ Cardinality({c \in Clients : protocolState[c] \in
       {"Protocol", "SecurityInit", "AuthenticationTypes", "Authenticating"}}) <= 1
  /\ Cardinality(deleting) <= 1

ClientSymmetry == Permutations(Clients)

=============================================================================
