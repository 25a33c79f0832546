CONSTANTS
  c1 = c1
  c2 = c2
  c3 = c3
  alice = alice
  bob = bob
  student = student
  desk = desk
  hall = hall
  pc = pc
  teachers = teachers
  room = room
  NoName = NoName
  Users <- MCUsers
  Computers <- MCComputers
  Groups = {teachers}
  Locations = {room}
  GroupsOf <- MCGroupsOf
  LocationsOf <- MCLocationsOf
  LocalAddresses <- MCLocalAddresses
  AuthorizedGroups = {teachers}
  Clients = {c1, c2, c3}
  Peers <- TwoPeers
  AuthenticationMethod = "KeyFile"
  TokenCredentials = FALSE
  AccessMethods <- RulesMethod
  Rules <- ConditionalRules
  Sessions <- OneSession
  WorkerCrashes = FALSE
SPECIFICATION Spec
SYMMETRY ClientSymmetry
CONSTRAINT OneInHandshake
INVARIANTS
  TypeOK
  ViewersPassedAccessControl
  MembersAreAdmitted
  MembershipIsJustified
  ConsentIsOwn
  OnlyOnePending
PROPERTIES
  RefusalIsFinal
