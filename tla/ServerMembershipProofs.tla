------------------------ MODULE ServerMembershipProofs ------------------------
(***************************************************************************)
(* Theorems about the list of admitted clients, the consent dialog and the *)
(* finality of a refusal in ServerAccess.  The list is used from three     *)
(* places (the access check, the answer of the dialog, the re-check after  *)
(* a disconnection), and what is proved of it is that the three together   *)
(* keep it exact, for every set of connections and every rule list.        *)
(***************************************************************************)
EXTENDS ServerAccessProofs, FiniteSetTheorems

-----------------------------------------------------------------------------
(* Lists that name each client at most once                                *)

\* A client appended to a list it is not on leaves a list that names each once.
LEMMA AppendOnce ==
  ASSUME NEW S, NEW s \in Seq(S), NEW c \in S
  PROVE  /\ Range(Append(s, c)) = Range(s) \cup {c}
         /\ IsInjective(s) /\ c \notin Range(s) => IsInjective(Append(s, c))
<1> DEFINE t == Append(s, c)
<1>1. Len(t) = Len(s) + 1 /\ t[Len(s) + 1] = c /\ \A i \in 1..Len(s) : t[i] = s[i]
  OBVIOUS
<1>2. DOMAIN t = 1..(Len(s) + 1) /\ DOMAIN s = 1..Len(s) /\ Len(s) \in Nat
  OBVIOUS
<1> HIDE DEF t
<1>3. Range(t) = Range(s) \cup {c}
  BY <1>1, <1>2 DEF Range
<1>4. IsInjective(s) /\ c \notin Range(s) => IsInjective(t)
  BY <1>1, <1>2 DEF Range, IsInjective
<1> QED
  BY <1>3, <1>4 DEF t

\* So do two lists that have nobody in common, one after the other.
LEMMA ConcatOnce ==
  ASSUME NEW S, NEW s \in Seq(S), NEW t \in Seq(S)
  PROVE  /\ Range(s \o t) = Range(s) \cup Range(t)
         /\ IsInjective(s) /\ IsInjective(t) /\ Range(s) \cap Range(t) = {}
              => IsInjective(s \o t)
<1> DEFINE u == s \o t
<1>1. /\ \A i \in 1..Len(s) : u[i] = s[i]
      /\ \A i \in (Len(s) + 1)..(Len(s) + Len(t)) : u[i] = t[i - Len(s)]
      /\ \A i \in 1..Len(t) : u[Len(s) + i] = t[i]
  OBVIOUS
<1>2. /\ DOMAIN u = 1..(Len(s) + Len(t)) /\ DOMAIN s = 1..Len(s) /\ DOMAIN t = 1..Len(t)
      /\ Len(s) \in Nat /\ Len(t) \in Nat
  OBVIOUS
<1> HIDE DEF u
<1>3. Range(u) \subseteq Range(s) \cup Range(t)
  <2>1. ASSUME NEW i \in DOMAIN u
        PROVE  u[i] \in Range(s) \cup Range(t)
    <3>1. CASE i \in 1..Len(s)
      BY <1>1, <1>2, <3>1 DEF Range
    <3>2. CASE i \in (Len(s) + 1)..(Len(s) + Len(t))
      <4>1. i - Len(s) \in DOMAIN t /\ u[i] = t[i - Len(s)]
        BY <1>1, <1>2, <3>2
      <4> QED
        BY <4>1 DEF Range
    <3> QED
      BY <1>2, <3>1, <3>2
  <2> QED
    BY <2>1 DEF Range
<1>4. Range(s) \subseteq Range(u)
  BY <1>1, <1>2 DEF Range
<1>5. Range(t) \subseteq Range(u)
  <2> SUFFICES ASSUME NEW i \in 1..Len(t)
               PROVE  t[i] \in Range(u)
    BY <1>2 DEF Range
  <2> QED
    BY <1>1, <1>2 DEF Range
<1>6. ASSUME IsInjective(s), IsInjective(t), Range(s) \cap Range(t) = {},
             NEW i \in DOMAIN u, NEW j \in DOMAIN u, u[i] = u[j]
      PROVE  i = j
  <2>1. ASSUME NEW k \in DOMAIN u
        PROVE  \/ k \in DOMAIN s /\ u[k] = s[k]
               \/ /\ k - Len(s) \in DOMAIN t /\ u[k] = t[k - Len(s)] /\ k \in Int
    BY <1>1, <1>2
  <2>2. CASE i \in DOMAIN s /\ u[i] = s[i] /\ j \in DOMAIN s /\ u[j] = s[j]
    BY <1>6, <2>2 DEF IsInjective
  <2>3. CASE i - Len(s) \in DOMAIN t /\ u[i] = t[i - Len(s)] /\ j - Len(s) \in DOMAIN t /\ u[j] = t[j - Len(s)]
    <3>1. i - Len(s) = j - Len(s)
      BY <1>6, <2>3 DEF IsInjective
    <3> QED
      BY <3>1, <1>2
  <2>4. CASE i \in DOMAIN s /\ u[i] = s[i] /\ j - Len(s) \in DOMAIN t /\ u[j] = t[j - Len(s)]
    BY <1>6, <2>4 DEF Range
  <2>5. CASE j \in DOMAIN s /\ u[j] = s[j] /\ i - Len(s) \in DOMAIN t /\ u[i] = t[i - Len(s)]
    BY <1>6, <2>5 DEF Range
  <2> QED
    BY <2>1, <2>2, <2>3, <2>4, <2>5
<1>7. IsInjective(s) /\ IsInjective(t) /\ Range(s) \cap Range(t) = {} => IsInjective(u)
  BY <1>6 DEF IsInjective
<1> QED
  BY <1>3, <1>4, <1>5, <1>7 DEF u

\* The first client of a list that names each once is not on the rest of it.
LEMMA TailOnce ==
  ASSUME NEW S, NEW s \in Seq(S), s # <<>>
  PROVE  /\ Head(s) \in Range(s)
         /\ IsInjective(s) => /\ IsInjective(Tail(s))
                              /\ Range(Tail(s)) = Range(s) \ {Head(s)}
<1> DEFINE t == Tail(s)
<1>1. /\ Len(s) \in Nat \ {0} /\ Len(t) = Len(s) - 1 /\ Head(s) = s[1]
      /\ \A i \in 1..Len(t) : t[i] = s[i + 1]
      /\ DOMAIN s = 1..Len(s) /\ DOMAIN t = 1..Len(t)
  OBVIOUS
<1>2. Head(s) \in Range(s)
  BY <1>1 DEF Range
<1> HIDE DEF t
<1>3. ASSUME IsInjective(s)
      PROVE  IsInjective(t) /\ Range(t) = Range(s) \ {s[1]}
  <2>1. ASSUME NEW i \in DOMAIN t, NEW j \in DOMAIN t, t[i] = t[j]
        PROVE  i = j
    <3>1. i + 1 \in DOMAIN s /\ j + 1 \in DOMAIN s /\ s[i + 1] = s[j + 1]
      BY <1>1, <2>1
    <3>2. i + 1 = j + 1
      BY <1>3, <3>1 DEF IsInjective
    <3> QED
      BY <1>1, <3>2
  <2>2. ASSUME NEW i \in DOMAIN t
        PROVE  t[i] \in Range(s) \ {s[1]}
    <3>1. i + 1 \in DOMAIN s /\ 1 \in DOMAIN s /\ t[i] = s[i + 1] /\ i + 1 # 1
      BY <1>1
    <3> QED
      BY <1>3, <3>1 DEF IsInjective, Range
  <2>3. ASSUME NEW i \in DOMAIN s, s[i] # s[1]
        PROVE  s[i] \in Range(t)
    <3>1. i - 1 \in DOMAIN t /\ t[i - 1] = s[i]
      BY <1>1, <2>3
    <3> QED
      BY <3>1 DEF Range
  <2> QED
    BY <2>1, <2>2, <2>3 DEF IsInjective, Range
<1> QED
  BY <1>1, <1>2, <1>3 DEF t

\* removeAll() of a client that is on the list at most once takes exactly it off.
LEMMA WithoutOnce ==
  ASSUME NEW S, NEW s \in Seq(S), IsInjective(s), NEW c
  PROVE  /\ IsInjective(Without(s, c))
         /\ Range(Without(s, c)) = Range(s) \ {c}
<1>1. CASE ~ \E i \in DOMAIN s : s[i] = c
  BY <1>1 DEF Without, Range
<1>2. CASE \E i \in DOMAIN s : s[i] = c
  <2> DEFINE k == CHOOSE i \in DOMAIN s : s[i] = c
             a == SubSeq(s, 1, k-1)
             b == SubSeq(s, k+1, Len(s))
             w == Without(s, c)
  <2>1. k \in 1..Len(s) /\ s[k] = c /\ Len(s) \in Nat /\ DOMAIN s = 1..Len(s)
    BY <1>2
  <2>2. w = a \o b
    BY <1>2 DEF Without, RemoveAt
  <2>3. \A i \in 1..Len(s) : s[i] \in S
    BY ElementOfSeq
  <2> HIDE DEF k, w
  <2>4. /\ a \in Seq(S) /\ Len(a) = k - 1 /\ \A i \in 1..(k-1) : a[i] = s[i]
        /\ b \in Seq(S) /\ Len(b) = Len(s) - k /\ \A i \in 1..(Len(s) - k) : b[i] = s[k + i]
    <3>1. /\ a \in Seq(S) /\ Len(a) = (IF 1 <= k - 1 THEN k - 1 - 1 + 1 ELSE 0)
          /\ \A i \in 1..(k - 1 - 1 + 1) : a[i] = s[1 + i - 1]
      BY <2>1, <2>3, SubSeqProperties
    <3>2. /\ b \in Seq(S)
          /\ Len(b) = (IF k + 1 <= Len(s) THEN Len(s) - (k + 1) + 1 ELSE 0)
          /\ \A i \in 1..(Len(s) - (k + 1) + 1) : b[i] = s[k + 1 + i - 1]
      BY <2>1, <2>3, SubSeqProperties
    <3> HIDE DEF a, b
    <3>3. \A i \in 1..(k-1) : a[i] = s[i]
      BY <2>1, <3>1
    <3>4. \A i \in 1..(Len(s) - k) : b[i] = s[k + i]
      <4>1. ASSUME NEW i \in 1..(Len(s) - k)
            PROVE  i \in 1..(Len(s) - (k + 1) + 1) /\ k + 1 + i - 1 = k + i
        BY <2>1
      <4> QED
        BY <3>2, <4>1
    <3>5. k \in Int /\ Len(s) \in Int /\ 1 <= k /\ k <= Len(s)
      BY <2>1
    <3>6. Len(a) = k - 1
      BY <3>1, <3>5
    <3>7. Len(b) = Len(s) - k
      BY <3>2, <3>5
    <3> QED
      BY <3>1, <3>2, <3>3, <3>4, <3>6, <3>7
  <2> HIDE DEF a, b
  <2>5. /\ DOMAIN w = 1..(Len(s) - 1)
        /\ \A i \in 1..(k-1) : w[i] = s[i]
        /\ \A i \in k..(Len(s) - 1) : w[i] = s[i + 1]
    <3>1. /\ DOMAIN w = 1..(Len(a) + Len(b))
          /\ \A i \in 1..Len(a) : w[i] = a[i]
          /\ \A i \in (Len(a) + 1)..(Len(a) + Len(b)) : w[i] = b[i - Len(a)]
      BY <2>2, <2>4
    <3>2. ASSUME NEW i \in k..(Len(s) - 1)
          PROVE  w[i] = s[i + 1]
      <4>1. i \in (Len(a) + 1)..(Len(a) + Len(b)) /\ i - (k-1) \in 1..(Len(s) - k)
        BY <2>1, <2>4
      <4>2. w[i] = b[i - (k-1)] /\ b[i - (k-1)] = s[k + (i - (k-1))]
        BY <2>4, <3>1, <4>1
      <4>3. k + (i - (k-1)) = i + 1
        BY <2>1
      <4> QED
        BY <4>2, <4>3
    <3> QED
      BY <2>1, <2>4, <3>1, <3>2
  <2> DEFINE from(i) == IF i < k THEN i ELSE i + 1
  <2>6. ASSUME NEW i \in DOMAIN w
        PROVE  from(i) \in DOMAIN s \ {k} /\ w[i] = s[from(i)]
    BY <2>1, <2>5
  <2>7. ASSUME NEW i \in DOMAIN w, NEW j \in DOMAIN w, w[i] = w[j]
        PROVE  i = j
    <3>1. from(i) = from(j)
      BY <2>6, <2>7 DEF IsInjective
    <3> QED
      BY <2>1, <2>5, <3>1
  <2>8. ASSUME NEW i \in DOMAIN w
        PROVE  w[i] \in Range(s) \ {c}
    <3>1. from(i) \in DOMAIN s /\ from(i) # k /\ w[i] = s[from(i)]
      BY <2>6
    <3> HIDE DEF from
    <3> QED
      BY <2>1, <3>1 DEF IsInjective, Range
  <2>9. ASSUME NEW i \in DOMAIN s, s[i] # c
        PROVE  s[i] \in Range(w)
    <3>1. i # k
      BY <2>1, <2>9
    <3>2. CASE i < k
      <4>1. i \in DOMAIN w /\ w[i] = s[i]
        BY <2>1, <2>5, <3>2
      <4> QED
        BY <4>1 DEF Range
    <3>3. CASE i > k
      <4>1. i - 1 \in DOMAIN w /\ w[i - 1] = s[i]
        BY <2>1, <2>5, <3>3
      <4> QED
        BY <4>1 DEF Range
    <3> QED
      BY <2>1, <3>1, <3>2, <3>3
  <2> HIDE DEF from
  <2> QED
    BY <2>7, <2>8, <2>9 DEF IsInjective, Range, w
<1> QED
  BY <1>1, <1>2

-----------------------------------------------------------------------------
(* The roster: who is on the list, who waits, who has been refused          *)

Early == {"Disconnected", "Protocol", "SecurityInit", "AuthenticationTypes", "Authenticating"}

\* MembersAreAdmitted and PendingIsDecided are inductive only together with each
\* other (an answer moves clients from one list to the other) and with two facts
\* about the protocol: access control has not begun before a client has
\* authenticated, and where a refused client can be.
RosterInv ==
  /\ IsInjective(m_clients) /\ IsInjective(previousClients) /\ IsInjective(listening)
  /\ Range(m_clients) \cap Range(previousClients) = {}
  /\ \A c \in Clients : accessControlState[c] = "Successful" <=>
                          c \in Range(m_clients) \cup Range(previousClients)
  /\ \A c \in Clients : accessControlState[c] = "Pending" <=> c \in Range(listening)
  /\ \A c \in Clients : accessControlState[c] # "Init" => Client(c)
  /\ \A c \in Clients : protocolState[c] \in Early => accessControlState[c] = "Init"
  /\ \A c \in Clients : accessControlState[c] = "Failed" =>
                          protocolState[c] \in {"AccessControl", "Close"}
  /\ \A c \in Clients : protocolState[c] = "Close" =>
                          accessControlState[c] \in {"Failed", "Waiting"}
  /\ listening # <<>> \/ worker # "none" => abortTimer

LEMMA RosterInit == Init => RosterInv
  BY DEF Init, RosterInv, IsInjective, Range, Early

\* A step that touches no list and no access control state preserves it if it
\* moves no client back before access control or to Close.
LEMMA RosterUndisturbed ==
  ASSUME RosterInv, UNCHANGED <<m_clients, previousClients, listening, accessControlState>>,
         listening # <<>> \/ worker' # "none" => abortTimer',
         \A c \in Clients :
           /\ Client(c) => socket'[c] # "none"
           /\ \/ protocolState'[c] = protocolState[c]
              \/ accessControlState[c] = "Init" /\ protocolState'[c] # "Close"
              \/ /\ accessControlState[c] # "Failed"
                 /\ protocolState'[c] \notin Early \cup {"Close"}
  PROVE  RosterInv'
  BY DEF RosterInv, Client

\* addClient() puts a client that is on neither list where its result belongs.
LEMMA RosterAdd ==
  ASSUME TypeInv, TypeInv', RosterInv, NEW c \in Clients, addClient(c), Client(c),
         c \notin Range(m_clients), c \notin Range(listening),
         \A d \in Clients : Client(d) => socket'[d] # "none",
         IsInjective(previousClients'),
         Range(previousClients') = Range(previousClients) \ {c},
         \A d \in Clients : d # c => protocolState'[d] = protocolState[d],
         protocolState'[c] \notin Early,
         AccessResult(c) = "Failed" => protocolState'[c] \in {"AccessControl", "Close"},
         protocolState'[c] = "Close" => AccessResult(c) \in {"Failed", "Waiting"}
  PROVE  RosterInv'
<1> DEFINE result == AccessResult(c)
<1>1. result \in AccessControlState \ {"Init"}
  BY AccessResultType
<1>2. /\ accessControlState' = [accessControlState EXCEPT ![c] = result]
      /\ m_clients' = IF result = "Successful" THEN Append(m_clients, c) ELSE m_clients
      /\ IF result = "Pending"
         THEN exec(c) /\ listening' = Append(listening, c)
         ELSE UNCHANGED dialogVars
  BY DEF addClient
<1>3. accessControlState'[c] = result
      /\ \A d \in Clients : d # c => accessControlState'[d] = accessControlState[d]
  BY <1>2 DEF TypeInv, TypeOK
<1> HIDE DEF result
<1>4. /\ IsInjective(m_clients')
      /\ Range(m_clients') = IF result = "Successful" THEN Range(m_clients) \cup {c}
                             ELSE Range(m_clients)
  <2>1. m_clients \in Seq(Clients)
    BY DEF TypeInv, TypeOK
  <2>2. /\ Range(Append(m_clients, c)) = Range(m_clients) \cup {c}
        /\ IsInjective(Append(m_clients, c))
    BY <2>1, AppendOnce DEF RosterInv
  <2> QED
    BY <1>2, <2>2 DEF RosterInv
<1>5. /\ IsInjective(listening')
      /\ Range(listening') = IF result = "Pending" THEN Range(listening) \cup {c}
                             ELSE Range(listening)
  <2>1. listening \in Seq(Clients)
    BY DEF TypeInv, TypeOK
  <2>2. /\ Range(Append(listening, c)) = Range(listening) \cup {c}
        /\ IsInjective(Append(listening, c))
    BY <2>1, AppendOnce DEF RosterInv
  <2> QED
    BY <1>2, <2>2 DEF RosterInv, dialogVars
<1>6. listening' # <<>> \/ worker' # "none" => abortTimer'
  BY <1>2 DEF RosterInv, exec, dialogVars
<1>7. /\ Range(m_clients') \cap Range(previousClients') = {}
      /\ \A d \in Clients : accessControlState'[d] = "Successful" <=>
                              d \in Range(m_clients') \cup Range(previousClients')
      /\ \A d \in Clients : accessControlState'[d] = "Pending" <=> d \in Range(listening')
  BY <1>3, <1>4, <1>5 DEF RosterInv
<1>8. \A d \in Clients :
        /\ accessControlState'[d] # "Init" => socket'[d] # "none"
        /\ protocolState'[d] \in Early => accessControlState'[d] = "Init"
        /\ accessControlState'[d] = "Failed" => protocolState'[d] \in {"AccessControl", "Close"}
        /\ protocolState'[d] = "Close" => accessControlState'[d] \in {"Failed", "Waiting"}
  BY <1>1, <1>3 DEF RosterInv, Client, result, Early
<1> QED
  BY <1>4, <1>5, <1>6, <1>7, <1>8 DEF RosterInv, Client

\* An answer of the dialog, or its timeout, settles everybody who waits for it.
LEMMA RosterFinished ==
  ASSUME TypeInv, RosterInv, Idle, NEW choice, finished(choice), worker' = "none",
         UNCHANGED <<previousClients, socket>>
  PROVE  RosterInv'
<1> DEFINE accepted == choice \in Accepting
<1>1. /\ accessControlState' =
           [c \in Clients |-> IF c \notin Range(listening) THEN accessControlState[c]
                              ELSE IF accepted THEN "Successful" ELSE "Failed"]
      /\ protocolState' =
           [c \in Clients |-> IF c \in Range(listening) /\ ~ accepted
                              THEN "Close" ELSE protocolState[c]]
      /\ m_clients' = IF accepted THEN m_clients \o listening ELSE m_clients
      /\ listening' = <<>>
  BY DEF finished, remainingListeners
<1> HIDE DEF accepted
<1>2. Range(m_clients) \cap Range(listening) = {}
  <2>1. ASSUME NEW c \in Range(listening)
        PROVE  c \in Clients
    BY ElementOfSeq DEF TypeInv, TypeOK, Range
  <2> QED
    BY <2>1 DEF RosterInv
<1>3. /\ IsInjective(m_clients')
      /\ Range(m_clients') = IF accepted THEN Range(m_clients) \cup Range(listening)
                             ELSE Range(m_clients)
  <2>1. m_clients \in Seq(Clients) /\ listening \in Seq(Clients)
    BY DEF TypeInv, TypeOK
  <2>2. /\ Range(m_clients \o listening) = Range(m_clients) \cup Range(listening)
        /\ IsInjective(m_clients \o listening)
    BY <1>2, <2>1, ConcatOnce DEF RosterInv
  <2> QED
    BY <1>1, <2>2 DEF RosterInv
<1>4. /\ Range(previousClients') = {} /\ IsInjective(previousClients')
      /\ Range(listening') = {} /\ IsInjective(listening')
  BY <1>1 DEF Idle, Range, IsInjective
<1>5. \A c \in Clients : accessControlState'[c] = "Successful" <=>
                           c \in Range(m_clients') \cup Range(previousClients')
  <2>1. Range(previousClients) = {}
    BY DEF Idle, Range
  <2> QED
    BY <1>1, <1>3, <1>4, <2>1 DEF RosterInv
<1>6. \A c \in Clients :
        /\ accessControlState'[c] = "Pending" <=> c \in Range(listening')
        /\ accessControlState'[c] # "Init" => socket'[c] # "none"
        /\ protocolState'[c] \in Early => accessControlState'[c] = "Init"
        /\ accessControlState'[c] = "Failed" => protocolState'[c] \in {"AccessControl", "Close"}
        /\ protocolState'[c] = "Close" => accessControlState'[c] \in {"Failed", "Waiting"}
  BY <1>1, <1>4 DEF RosterInv, Client, Early
<1> QED
  BY <1>1, <1>3, <1>4, <1>5, <1>6 DEF RosterInv, Client

LEMMA RosterStep == TypeInv /\ RosterInv /\ [Next]_vars => RosterInv'
<1> SUFFICES ASSUME TypeInv, RosterInv, [Next]_vars
             PROVE  RosterInv'
  OBVIOUS
<1>0. TypeInv'
  BY TypeStep
<1> DEFINE Undisturbed ==
      /\ UNCHANGED <<m_clients, previousClients, listening, accessControlState>>
      /\ listening # <<>> \/ worker' # "none" => abortTimer'
      /\ \A c \in Clients :
           /\ Client(c) => socket'[c] # "none"
           /\ \/ protocolState'[c] = protocolState[c]
              \/ accessControlState[c] = "Init" /\ protocolState'[c] # "Close"
              \/ /\ accessControlState[c] # "Failed"
                 /\ protocolState'[c] \notin Early \cup {"Close"}
<1>a. Undisturbed => RosterInv'
  BY RosterUndisturbed
<1>1. ASSUME NEW c \in Clients, acceptConnection(c)
      PROVE  Undisturbed
  BY <1>1 DEF acceptConnection, unchangedByHandshake, dialogVars, RosterInv, Client, TypeInv, TypeOK
<1>2. ASSUME NEW c \in Clients, readProtocol(c) \/ receiveSecurityTypeResponse(c)
      PROVE  Undisturbed
  BY <1>2 DEF readProtocol, receiveSecurityTypeResponse, ProtocolStep, unchangedByHandshake,
     dialogVars, RosterInv, Client, TypeInv, TypeOK, Early
<1>3. ASSUME NEW c \in Clients, rejectHandshake(c) \/ failAuthentication(c) \/ readClose(c)
      PROVE  Undisturbed
  BY <1>3 DEF rejectHandshake, failAuthentication, readClose, clientVars, unchangedByHandshake,
     dialogVars, RosterInv, Client, TypeInv, TypeOK
<1>4. ASSUME NEW c \in Clients, NEW type \in supportedAuthTypes, NEW identity \in Peers,
             NEW sent \in BOOLEAN,
             receiveAuthenticationTypeResponse(c, type, identity, sent)
      PROVE  Undisturbed
  BY <1>4 DEF receiveAuthenticationTypeResponse, ProtocolStep, unchangedByHandshake,
     dialogVars, RosterInv, Client, TypeInv, TypeOK, Early
<1>5. ASSUME NEW c \in Clients, receiveAuthenticationMessage(c) \/ retryAccessControl(c)
      PROVE  RosterInv'
  <2> DEFINE state == StateAfterAccessControl(AccessResult(c), DeniedByRules(c))
  <2>1. /\ addClient(c) /\ Idle /\ UNCHANGED previousClients
        /\ protocolState' = [protocolState EXCEPT ![c] = state]
    BY <1>5 DEF receiveAuthenticationMessage, retryAccessControl
  <2>2. Client(c) /\ accessControlState[c] \in {"Init", "Waiting"}
    BY <1>5 DEF receiveAuthenticationMessage, retryAccessControl, RosterInv, Client, Early
  <2>3. /\ c \notin Range(m_clients) /\ c \notin Range(listening)
        /\ Range(previousClients') = Range(previousClients) \ {c}
        /\ IsInjective(previousClients')
    BY <2>1, <2>2 DEF RosterInv, Idle, Range
  <2>4. /\ state \notin Early
        /\ AccessResult(c) = "Failed" => state \in {"AccessControl", "Close"}
        /\ state = "Close" => AccessResult(c) \in {"Failed", "Waiting"}
    BY DEF StateAfterAccessControl, Early
  <2>5. \A d \in Clients : Client(d) => socket'[d] # "none"
    BY <1>5 DEF receiveAuthenticationMessage, retryAccessControl, Client, TypeInv, TypeOK
  <2> HIDE DEF state
  <2>6. protocolState'[c] = state /\ \A d \in Clients : d # c => protocolState'[d] = protocolState[d]
    BY <2>1 DEF TypeInv, TypeOK
  <2> QED
    BY <1>0, <2>1, <2>2, <2>3, <2>4, <2>5, <2>6, RosterAdd
<1>6. ASSUME NEW c \in Clients, passAccessControl(c)
      PROVE  Undisturbed
  BY <1>6 DEF passAccessControl, unchangedByHandshake, dialogVars, RosterInv, Client,
     TypeInv, TypeOK, Early
<1>7. ASSUME NEW c \in Clients, processFramebufferInit(c)
      PROVE  Undisturbed
  BY <1>7 DEF processFramebufferInit, ProtocolStep, unchangedByHandshake, dialogVars,
     RosterInv, Client, TypeInv, TypeOK, Early
<1>8. ASSUME NEW c \in Clients, setServerInitMessage(c) \/ closeConnection(c)
      PROVE  Undisturbed
  BY <1>8 DEF setServerInitMessage, closeConnection, clientVars, dialogVars, RosterInv, Client
<1>9. ASSUME NEW c \in Clients, deleteClient(c)
      PROVE  RosterInv'
  <2>1. m_clients \in Seq(Clients) /\ listening \in Seq(Clients)
    BY DEF TypeInv, TypeOK
  <2>2. /\ m_clients' = <<>>
        /\ previousClients' = Without(m_clients, c)
        /\ listening' = Without(listening, c)
        /\ previousClients = <<>>
        /\ UNCHANGED <<worker, abortTimer>>
    BY <1>9 DEF deleteClient, Idle
  <2>3. /\ IsInjective(previousClients') /\ Range(previousClients') = Range(m_clients) \ {c}
        /\ IsInjective(listening') /\ Range(listening') = Range(listening) \ {c}
    BY <2>1, <2>2, WithoutOnce DEF RosterInv
  <2>4. /\ Range(m_clients') = {} /\ IsInjective(m_clients') /\ Range(previousClients) = {}
    BY <2>2 DEF Range, IsInjective
  <2>5. /\ accessControlState'[c] = "Init" /\ protocolState'[c] = "Disconnected"
        /\ \A d \in Clients : d # c =>
             /\ accessControlState'[d] = accessControlState[d]
             /\ protocolState'[d] = protocolState[d]
             /\ socket'[d] = socket[d]
    BY <1>9 DEF deleteClient, TypeInv, TypeOK
  <2>6. listening' # <<>> => listening # <<>>
    <3>1. listening = <<>> => Range(listening) = {}
      BY DEF Range
    <3>2. listening' # <<>> => Range(listening') # {}
      BY <1>0, TailOnce DEF TypeInv, TypeOK
    <3> QED
      BY <2>3, <3>1, <3>2
  <2> QED
    BY <2>2, <2>3, <2>4, <2>5, <2>6 DEF RosterInv, Client
<1>10. ASSUME workerConnected \/ closeWorkerConnection
       PROVE  Undisturbed
  BY <1>10 DEF workerConnected, closeWorkerConnection, clientVars, connVars, RosterInv, Client
<1>11. ASSUME NEW choice, reportDesktopAccessChoice(choice)
       PROVE  RosterInv'
  BY <1>11, RosterFinished DEF reportDesktopAccessChoice, connVars
<1>12. ASSUME abort
       PROVE  RosterInv'
  BY <1>12, RosterFinished DEF abort, connVars
<1>13. ASSUME recheckClient
       PROVE  RosterInv'
  <2> DEFINE c == Head(previousClients)
  <2>1. /\ previousClients # <<>> /\ addClient(c)
        /\ previousClients' = Tail(previousClients)
        /\ protocolState' = IF staysConnected(AccessResult(c)) THEN protocolState
                            ELSE [protocolState EXCEPT ![c] = "Close"]
        /\ UNCHANGED socket
    BY <1>13 DEF recheckClient, Idle, connVars
  <2>2. /\ c \in Clients /\ c \in Range(previousClients)
        /\ IsInjective(previousClients')
        /\ Range(previousClients') = Range(previousClients) \ {c}
    BY <2>1, TailOnce DEF TypeInv, TypeOK, RosterInv
  <2> HIDE DEF c
  <2>3. /\ accessControlState[c] = "Successful" /\ Client(c)
        /\ c \notin Range(m_clients) /\ c \notin Range(listening)
        /\ protocolState[c] \notin Early \cup {"Close"}
    BY <2>2 DEF RosterInv
  <2>4. AccessResult(c) \in AccessControlState \ {"Init"}
    BY AccessResultType
  <2>5. /\ \A d \in Clients : d # c => protocolState'[d] = protocolState[d]
        /\ protocolState'[c] = IF staysConnected(AccessResult(c)) THEN protocolState[c] ELSE "Close"
    BY <2>1, <2>2 DEF TypeInv, TypeOK
  <2>6. /\ protocolState'[c] \notin Early
        /\ AccessResult(c) = "Failed" => protocolState'[c] \in {"AccessControl", "Close"}
        /\ protocolState'[c] = "Close" => AccessResult(c) \in {"Failed", "Waiting"}
    BY <2>3, <2>4, <2>5 DEF staysConnected, AccessControlState, Early
  <2>7. \A d \in Clients : Client(d) => socket'[d] # "none"
    BY <2>1 DEF Client
  <2> QED
    BY <1>0, <2>1, <2>2, <2>3, <2>5, <2>6, <2>7, RosterAdd
<1>14. ASSUME changeSession
       PROVE  Undisturbed
  BY <1>14 DEF changeSession, clientVars, connVars, dialogVars, RosterInv, Client
<1>15. ASSUME UNCHANGED vars
       PROVE  Undisturbed
  BY <1>15 DEF vars, clientVars, connVars, dialogVars, RosterInv, Client
<1> HIDE DEF Undisturbed
<1> QED
  BY <1>a, <1>1, <1>2, <1>3, <1>4, <1>5, <1>6, <1>7, <1>8, <1>9, <1>10, <1>11, <1>12,
     <1>13, <1>14, <1>15
     DEF Next, ClientStep, DialogStep, reportFromWorker, reportFromClient

LEMMA RosterInvariance == Spec => [](TypeInv /\ RosterInv)
<1>1. Init => TypeInv /\ RosterInv
  BY TypeInit, RosterInit
<1>2. TypeInv /\ RosterInv /\ [Next]_vars => TypeInv' /\ RosterInv'
  BY TypeStep, RosterStep
<1> QED
  BY <1>1, <1>2, PTL DEF Spec

\* The clients on a list are clients.
LEMMA RangeIsClients ==
  ASSUME NEW s \in Seq(Clients)
  PROVE  Range(s) \subseteq Clients
  BY ElementOfSeq DEF Range

\* The server counts as connected exactly the existing clients that passed access
\* control, each once, also between two iterations of a re-check.
THEOREM MembersAdmitted == Spec => []MembersAreAdmitted
<1>1. TypeInv /\ RosterInv => MembersAreAdmitted
  <2> SUFFICES ASSUME TypeInv, RosterInv
               PROVE  MembersAreAdmitted
    OBVIOUS
  <2>1. m_clients \in Seq(Clients) /\ previousClients \in Seq(Clients)
    BY DEF TypeInv, TypeOK
  <2> DEFINE members == m_clients \o previousClients
  <2>2. /\ Range(members) = Range(m_clients) \cup Range(previousClients)
        /\ IsInjective(members)
    BY <2>1, ConcatOnce DEF RosterInv
  <2>3. Range(members) \subseteq Clients
    BY <2>1, <2>2, RangeIsClients
  <2> HIDE DEF members
  <2>4. /\ Range(members) = {c \in Clients : accessControlState[c] = "Successful"}
        /\ \A c \in Range(members) : Client(c)
    BY <2>2, <2>3 DEF RosterInv
  <2> QED
    BY <2>2, <2>4 DEF MembersAreAdmitted, members
<1> QED
  BY <1>1, RosterInvariance, PTL

\* Whoever waits for the dialog is listening for its answer, with a running timer.
THEOREM PendingDecided == Spec => []PendingIsDecided
<1>1. TypeInv /\ RosterInv => PendingIsDecided
  <2> SUFFICES ASSUME TypeInv, RosterInv
               PROVE  PendingIsDecided
    OBVIOUS
  <2>1. Range(listening) \subseteq Clients
    BY RangeIsClients DEF TypeInv, TypeOK
  <2> QED
    BY <2>1 DEF RosterInv, PendingIsDecided
<1> QED
  BY <1>1, RosterInvariance, PTL

-----------------------------------------------------------------------------
(* Refusals                                                                 *)

Refused(c) == accessControlState[c] = "Failed" \/ protocolState[c] = "Close"

StaysRefused(c) ==
  \/ socket'[c] = "none"
  \/ /\ accessControlState'[c] = accessControlState[c]
     /\ protocolState'[c] \notin {"FramebufferInit", "Running"}

\* No handler turns a refused client into anything but a deleted one: it is on
\* no list, so neither an answer nor a re-check concerns it, and neither the
\* retry nor read() finds it in a state to go on from.
LEMMA RefusalStep ==
  ASSUME TypeInv, RosterInv, Next, NEW c \in Clients, Refused(c)
  PROVE  StaysRefused(c)
<1>0. /\ protocolState[c] \in {"AccessControl", "Close"}
      /\ accessControlState[c] \in {"Failed", "Waiting"}
      /\ accessControlState[c] = "Waiting" => protocolState[c] = "Close"
  BY DEF Refused, RosterInv
<1>1. ASSUME NEW d \in Clients,
             \/ acceptConnection(d) \/ readProtocol(d) \/ receiveSecurityTypeResponse(d)
             \/ rejectHandshake(d) \/ failAuthentication(d) \/ readClose(d)
             \/ setServerInitMessage(d) \/ closeConnection(d) \/ processFramebufferInit(d)
             \/ passAccessControl(d)
      PROVE  StaysRefused(c)
  BY <1>0, <1>1 DEF acceptConnection, readProtocol, receiveSecurityTypeResponse,
     rejectHandshake, failAuthentication, readClose, setServerInitMessage, closeConnection,
     processFramebufferInit, passAccessControl, ProtocolStep, clientVars,
     unchangedByHandshake, TypeInv, TypeOK, StaysRefused
<1>2. ASSUME NEW d \in Clients, NEW type \in supportedAuthTypes, NEW identity \in Peers,
             NEW sent \in BOOLEAN,
             receiveAuthenticationTypeResponse(d, type, identity, sent)
      PROVE  StaysRefused(c)
  BY <1>0, <1>2 DEF receiveAuthenticationTypeResponse, ProtocolStep, unchangedByHandshake,
     TypeInv, TypeOK, StaysRefused
<1>3. ASSUME NEW d \in Clients, receiveAuthenticationMessage(d) \/ retryAccessControl(d)
      PROVE  StaysRefused(c)
  <2> DEFINE result == AccessResult(d)
             state  == StateAfterAccessControl(result, DeniedByRules(d))
  <2>1. /\ accessControlState' = [accessControlState EXCEPT ![d] = result]
        /\ protocolState' = [protocolState EXCEPT ![d] = state]
    BY <1>3 DEF receiveAuthenticationMessage, retryAccessControl, addClient
  <2>2. c # d
    BY <1>0, <1>3 DEF receiveAuthenticationMessage, retryAccessControl
  <2> HIDE DEF result, state
  <2> QED
    BY <1>0, <2>1, <2>2 DEF TypeInv, TypeOK, StaysRefused
<1>4. ASSUME NEW d \in Clients, deleteClient(d)
      PROVE  StaysRefused(c)
  BY <1>0, <1>4 DEF deleteClient, TypeInv, TypeOK, StaysRefused
<1>5. ASSUME NEW choice, finished(choice)
      PROVE  StaysRefused(c)
  <2>1. c \notin Range(listening)
    BY <1>0 DEF RosterInv
  <2> QED
    BY <1>0, <1>5, <2>1 DEF finished, StaysRefused
<1>6. ASSUME DialogStep
      PROVE  StaysRefused(c)
  BY <1>0, <1>5, <1>6 DEF DialogStep, workerConnected, reportFromWorker,
     reportDesktopAccessChoice, abort, closeWorkerConnection, clientVars, StaysRefused
<1>9. ASSUME NEW d \in Clients, NEW choice, reportFromClient(d, choice)
      PROVE  StaysRefused(c)
  BY <1>5, <1>9 DEF reportFromClient, reportDesktopAccessChoice
<1>7. ASSUME recheckClient
      PROVE  StaysRefused(c)
  <2> DEFINE d      == Head(previousClients)
             result == AccessResult(d)
  <2>1. d \in Clients /\ d \in Range(previousClients)
    BY <1>7, TailOnce DEF recheckClient, Idle, TypeInv, TypeOK
  <2>2. /\ accessControlState' = [accessControlState EXCEPT ![d] = result]
        /\ protocolState' = IF staysConnected(result) THEN protocolState
                            ELSE [protocolState EXCEPT ![d] = "Close"]
    BY <1>7 DEF recheckClient, addClient
  <2> HIDE DEF d, result
  <2>3. c # d
    BY <1>0, <2>1 DEF RosterInv
  <2> QED
    BY <1>0, <2>1, <2>2, <2>3 DEF TypeInv, TypeOK, StaysRefused
<1>8. ASSUME changeSession
      PROVE  StaysRefused(c)
  BY <1>0, <1>8 DEF changeSession, clientVars, StaysRefused
<1> QED
  BY <1>1, <1>2, <1>3, <1>4, <1>6, <1>7, <1>8, <1>9 DEF Next, ClientStep

\* A refused client is never admitted on the same connection.
THEOREM RefusalFinal == Spec => RefusalIsFinal
<1> DEFINE Final(c) ==
      accessControlState[c] = "Failed" \/ protocolState[c] = "Close" =>
        \/ socket'[c] = "none"
        \/ /\ accessControlState'[c] = accessControlState[c]
           /\ protocolState'[c] \notin {"FramebufferInit", "Running"}
<1>1. TypeInv /\ RosterInv /\ Next => \A c \in Clients : Final(c)
  BY RefusalStep DEF Refused, StaysRefused
<1>2. TypeInv /\ RosterInv /\ [Next]_vars => [\A c \in Clients : Final(c)]_vars
  BY <1>1
<1> QED
  BY <1>2, RosterInvariance, PTL DEF Spec, RefusalIsFinal

-----------------------------------------------------------------------------
(* One dialog at a time                                                     *)

\* If the dialog's worker does not die, a waiting client is the one the dialog is
\* active for: isBusy() then speaks for the clients connected to finished().  A
\* client admitted by a report keeps its name until it is checked again or deleted.
DialogInv ==
  /\ listening # <<>> => worker # "none"
  /\ \A c \in Range(listening) : peer[c] = request
  /\ \A c, d \in Range(listening) : c = d
  /\ \A c \in answered : accessControlState[c] = "Successful"
  /\ ConsentIsOwn

\* A client becomes pending only while the dialog is not busy.
LEMMA PendingOnlyIfFree ==
  ASSUME NEW c, AccessResult(c) = "Pending"
  PROVE  worker = "none"
  BY DEF AccessResult, performAccessControl, confirmDesktopAccess

LEMMA DialogUndisturbed ==
  ASSUME DialogInv,
         UNCHANGED <<request, listening, m_desktopAccessChoices, consented, vouched, answered,
                     accessControlState>>,
         listening # <<>> => worker' # "none",
         \A c \in Range(listening) \cup answered : peer'[c] = peer[c]
  PROVE  DialogInv'
  BY DEF DialogInv, ConsentIsOwn

LEMMA DialogAdd ==
  ASSUME TypeInv, DialogInv, NEW c \in Clients, addClient(c),
         UNCHANGED <<peer, m_desktopAccessChoices>>
  PROVE  DialogInv'
<1>1. /\ accessControlState' = [accessControlState EXCEPT ![c] = AccessResult(c)]
      /\ answered' = answered \ {c} /\ UNCHANGED <<consented, vouched>>
  BY DEF addClient
<1>2. \A d \in answered' : accessControlState'[d] = "Successful"
  BY <1>1 DEF DialogInv, TypeInv, TypeOK
<1>3. ConsentIsOwn'
  BY <1>1 DEF DialogInv, ConsentIsOwn
<1>4. CASE AccessResult(c) = "Pending"
  <2>1. listening = <<>>
    BY <1>4, PendingOnlyIfFree DEF DialogInv
  <2>2. worker' = "starting" /\ request' = peer[c] /\ listening' = Append(listening, c)
    BY <1>4 DEF addClient, exec
  <2>3. Range(listening') = {c}
    BY <2>1, <2>2 DEF Range
  <2> QED
    BY <1>2, <1>3, <2>2, <2>3 DEF DialogInv
<1>5. CASE AccessResult(c) # "Pending"
  BY <1>2, <1>3, <1>5 DEF addClient, dialogVars, DialogInv
<1> QED
  BY <1>4, <1>5

\* An answer counts only for the peer the dialog was asking for.
LEMMA DialogFinished ==
  ASSUME TypeInv, RosterInv, DialogInv, NEW choice, finished(choice), UNCHANGED peer,
         consented \subseteq consented', vouched \subseteq vouched',
         choice \in Accepting /\ listening # <<>> => request \in consented' \cup vouched'
  PROVE  DialogInv'
<1> DEFINE owned == consented' \cup vouched'
<1>0. consented \cup vouched \subseteq owned
  OBVIOUS
<1>1. listening' = <<>> /\ Range(listening') = {}
  BY DEF finished, remainingListeners, Range
<1>2. Range(listening) \subseteq Clients
  BY RangeIsClients DEF TypeInv, TypeOK
<1>3. ASSUME NEW c \in Range(listening), choice \in Accepting
      PROVE  peer[c] \in owned
  <2>1. listening # <<>>
    BY <1>3 DEF Range
  <2> QED
    BY <1>3, <2>1 DEF DialogInv
<1> HIDE DEF owned
<1>4. ASSUME NEW p \in Peers, m_desktopAccessChoices'[p] = "ChoiceAlways"
      PROVE  p \in owned
  <2>1. CASE \E c \in Range(listening) : choice = "ChoiceAlways" /\ peer[c] = p
    BY <1>3, <2>1 DEF Accepting
  <2>2. CASE m_desktopAccessChoices[p] = "ChoiceAlways"
    BY <1>0, <2>2 DEF DialogInv, ConsentIsOwn
  <2> QED
    BY <1>4, <2>1, <2>2 DEF finished
<1>5. ASSUME NEW c \in answered'
      PROVE  peer'[c] \in owned /\ accessControlState'[c] = "Successful"
  <2>1. CASE c \in Range(listening) /\ choice \in Accepting
    BY <1>2, <1>3, <2>1 DEF finished
  <2>2. CASE c \in answered /\ ~ (c \in Range(listening) /\ choice \in Accepting)
    <3>1. peer[c] \in owned /\ accessControlState[c] = "Successful" /\ c \in Clients
      BY <1>0, <2>2 DEF DialogInv, ConsentIsOwn, TypeInv, TypeOK
    <3>2. c \notin Range(listening)
      BY <3>1 DEF RosterInv
    <3> QED
      BY <3>1, <3>2 DEF finished
  <2> QED
    BY <1>5, <2>1, <2>2 DEF finished
<1> QED
  BY <1>1, <1>4, <1>5 DEF DialogInv, ConsentIsOwn, owned

LEMMA DialogStepKeeps ==
  ASSUME WorkerCrashes = FALSE
  PROVE  TypeInv /\ RosterInv /\ DialogInv /\ [Next]_vars => DialogInv'
<1> SUFFICES ASSUME TypeInv, RosterInv, DialogInv, [Next]_vars
             PROVE  DialogInv'
  OBVIOUS
<1>0. Range(listening) \subseteq Clients
  BY RangeIsClients DEF TypeInv, TypeOK
<1> DEFINE Undisturbed ==
      /\ UNCHANGED <<request, listening, m_desktopAccessChoices, consented, vouched, answered,
                     accessControlState>>
      /\ listening # <<>> => worker' # "none"
      /\ \A c \in Range(listening) \cup answered : peer'[c] = peer[c]
<1>a. Undisturbed => DialogInv'
  BY DialogUndisturbed
<1>1. ASSUME NEW c \in Clients,
             \/ acceptConnection(c) \/ readProtocol(c) \/ receiveSecurityTypeResponse(c)
             \/ rejectHandshake(c) \/ failAuthentication(c) \/ readClose(c)
             \/ setServerInitMessage(c) \/ closeConnection(c) \/ processFramebufferInit(c)
             \/ passAccessControl(c)
      PROVE  Undisturbed
  BY <1>1 DEF acceptConnection, readProtocol, receiveSecurityTypeResponse,
     rejectHandshake, failAuthentication, readClose, setServerInitMessage, closeConnection,
     processFramebufferInit, passAccessControl, clientVars, dialogVars, historyVars,
     unchangedByHandshake, DialogInv
<1>2. ASSUME NEW c \in Clients, NEW type \in supportedAuthTypes, NEW identity \in Peers,
             NEW sent \in BOOLEAN,
             receiveAuthenticationTypeResponse(c, type, identity, sent)
      PROVE  Undisturbed
  <2>1. accessControlState[c] = "Init"
    BY <1>2 DEF receiveAuthenticationTypeResponse, ProtocolStep, RosterInv, Early
  <2>2. c \notin Range(listening) /\ c \notin answered /\ answered \subseteq Clients
    BY <2>1 DEF RosterInv, DialogInv, TypeInv, TypeOK
  <2>3. /\ peer' = [peer EXCEPT ![c] = identity]
        /\ UNCHANGED <<dialogVars, m_desktopAccessChoices, historyVars, accessControlState>>
    BY <1>2 DEF receiveAuthenticationTypeResponse, unchangedByHandshake
  <2> QED
    BY <1>0, <2>2, <2>3 DEF dialogVars, historyVars, DialogInv, TypeInv, TypeOK
<1>3. ASSUME NEW c \in Clients, receiveAuthenticationMessage(c) \/ retryAccessControl(c)
      PROVE  DialogInv'
  BY <1>3, DialogAdd DEF receiveAuthenticationMessage, retryAccessControl
<1>4. ASSUME NEW c \in Clients, deleteClient(c)
      PROVE  DialogInv'
  <2>1. /\ listening' = Without(listening, c) /\ peer' = [peer EXCEPT ![c] = NoName]
        /\ answered' = answered \ {c}
        /\ accessControlState' = [accessControlState EXCEPT ![c] = "Init"]
        /\ UNCHANGED <<worker, request, m_desktopAccessChoices, consented, vouched>>
    BY <1>4 DEF deleteClient
  <2>2. Range(listening') = Range(listening) \ {c} /\ listening' \in Seq(Clients)
    BY <2>1, WithoutOnce, WithoutType DEF RosterInv, TypeInv, TypeOK
  <2>3. listening' # <<>> => listening # <<>>
    <3>1. listening = <<>> => Range(listening) = {}
      BY DEF Range
    <3>2. listening' # <<>> => Range(listening') # {}
      BY <2>2, TailOnce
    <3> QED
      BY <2>2, <3>1, <3>2
  <2>4. /\ \A d \in Range(listening') : peer'[d] = peer[d]
        /\ \A d \in answered' : peer'[d] = peer[d] /\ accessControlState'[d] = accessControlState[d]
    BY <1>0, <2>1, <2>2 DEF TypeInv, TypeOK
  <2> QED
    BY <2>1, <2>2, <2>3, <2>4 DEF DialogInv, ConsentIsOwn
<1>5. ASSUME workerConnected \/ closeWorkerConnection
      PROVE  Undisturbed
  BY <1>5 DEF workerConnected, closeWorkerConnection, clientVars, historyVars
<1>b. listening # <<>> => request \in Peers
  BY DEF DialogInv, TypeInv, RequestIsNamed
<1>6. ASSUME NEW choice \in requestDesktopAccess, reportFromWorker(choice)
      PROVE  DialogInv'
  <2>1. finished(choice) /\ UNCHANGED peer
    BY <1>6 DEF reportFromWorker, reportDesktopAccessChoice
  <2>2. consented' = consented \cup Admitted(choice) /\ UNCHANGED vouched
    BY <1>6 DEF reportFromWorker
  <2>3. choice \in Accepting /\ listening # <<>> => request \in Admitted(choice)
    BY <1>b DEF Admitted
  <2> QED
    BY <2>1, <2>2, <2>3, DialogFinished
<1>10. ASSUME NEW c \in Clients, NEW choice \in Choice, reportFromClient(c, choice)
       PROVE  DialogInv'
  <2>1. finished(choice) /\ UNCHANGED peer
    BY <1>10 DEF reportFromClient, reportDesktopAccessChoice
  <2>2. vouched' = vouched \cup Admitted(choice) /\ UNCHANGED consented
    BY <1>10 DEF reportFromClient
  <2>3. choice \in Accepting /\ listening # <<>> => request \in Admitted(choice)
    BY <1>b DEF Admitted
  <2> QED
    BY <2>1, <2>2, <2>3, DialogFinished
<1>7. ASSUME abort
      PROVE  DialogInv'
  <2>1. "ChoiceNone" \notin Accepting
    BY DEF Accepting
  <2> QED
    BY <1>7, <2>1, DialogFinished DEF abort
<1>8. ASSUME recheckClient
      PROVE  DialogInv'
  <2>1. Head(previousClients) \in Clients
    BY <1>8 DEF recheckClient, Idle, TypeInv, TypeOK
  <2> QED
    BY <1>8, <2>1, DialogAdd DEF recheckClient
<1>9. ASSUME changeSession \/ UNCHANGED vars
      PROVE  Undisturbed
  BY <1>9 DEF changeSession, vars, clientVars, dialogVars, historyVars, DialogInv
<1> HIDE DEF Undisturbed
<1> QED
  BY <1>a, <1>1, <1>2, <1>3, <1>4, <1>5, <1>6, <1>7, <1>8, <1>9, <1>10
     DEF Next, ClientStep, DialogStep

LEMMA DialogInvariance ==
  ASSUME WorkerCrashes = FALSE
  PROVE  Spec => [](TypeInv /\ RosterInv /\ DialogInv)
<1>1. Init => TypeInv /\ RosterInv /\ DialogInv
  BY TypeInit, RosterInit DEF Init, DialogInv, ConsentIsOwn, Range
<1>2. TypeInv /\ RosterInv /\ DialogInv /\ [Next]_vars => TypeInv' /\ RosterInv' /\ DialogInv'
  BY TypeStep, RosterStep, DialogStepKeeps
<1> QED
  BY <1>1, <1>2, PTL DEF Spec

\* A reported consent counts only for the user and host the dialog was asking for,
\* whoever reports it, if the dialog's worker does not die.
THEOREM ConsentOwn ==
  ASSUME WorkerCrashes = FALSE
  PROVE  Spec => []ConsentIsOwn
<1>1. DialogInv => ConsentIsOwn
  BY DEF DialogInv
<1> QED
  BY <1>1, DialogInvariance, PTL

\* At most one client waits for the local user's answer, if the dialog's worker
\* does not die.
THEOREM OnePending ==
  ASSUME WorkerCrashes = FALSE
  PROVE  Spec => []OnlyOnePending
<1>1. TypeInv /\ RosterInv /\ DialogInv => OnlyOnePending
  <2> SUFFICES ASSUME RosterInv, DialogInv
               PROVE  OnlyOnePending
    OBVIOUS
  <2> DEFINE pending == {c \in Clients : accessControlState[c] = "Pending"}
  <2>1. \A c, d \in pending : c = d
    BY DEF RosterInv, DialogInv
  <2> HIDE DEF pending
  <2>2. CASE pending = {}
    BY <2>2, FS_EmptySet DEF OnlyOnePending, pending
  <2>3. CASE pending # {}
    <3>1. PICK c : pending = {c}
      BY <2>1, <2>3
    <3>2. Cardinality(pending) = 1
      BY <3>1, FS_Singleton
    <3> QED
      BY <3>2 DEF OnlyOnePending, pending
  <2> QED
    BY <2>2, <2>3
<1> QED
  BY <1>1, DialogInvariance, PTL

-----------------------------------------------------------------------------
(* Why a member is on the list                                              *)

JustifiedAt(i) ==
  LET c == m_clients[i]
  IN  HasAccessCheck(c) =>
        \/ m_desktopAccessChoices[peer[c]] = "ChoiceAlways"
        \/ c \in answered
        \/ checkAccess(AccessMethods, Rules,
             [ user |-> peer[c][1], computer |-> peer[c][2],
               session |-> checkedIn[c], connected |-> UsersBefore(i) ]) = "Allow"

\* What justifies a member concerns it and the members before it only, and the
\* user's consent is never taken back.
LEMMA JustifiedKept ==
  ASSUME NEW i \in Nat, JustifiedAt(i),
         \A j \in 1..i :
           /\ m_clients'[j] = m_clients[j]
           /\ peer'[m_clients[j]] = peer[m_clients[j]]
           /\ authType'[m_clients[j]] = authType[m_clients[j]]
           /\ checkedIn'[m_clients[j]] = checkedIn[m_clients[j]],
         i # 0,
         m_clients[i] \in answered => m_clients[i] \in answered',
         LET p == peer[m_clients[i]]
         IN  m_desktopAccessChoices[p] = "ChoiceAlways" =>
               m_desktopAccessChoices'[p] = "ChoiceAlways"
  PROVE  JustifiedAt(i)'
<1> DEFINE c == m_clients[i]
<1>1. /\ m_clients'[i] = c /\ peer'[c] = peer[c] /\ authType'[c] = authType[c]
      /\ checkedIn'[c] = checkedIn[c]
  OBVIOUS
<1>2. UsersBefore(i)' = UsersBefore(i)
  <2>1. \A j \in 1..(i-1) : j \in 1..i
    OBVIOUS
  <2>2. \A j \in 1..(i-1) : peer'[m_clients'[j]][1] = peer[m_clients[j]][1]
    BY <2>1
  <2> QED
    BY <2>2 DEF UsersBefore
<1> QED
  BY <1>1, <1>2 DEF JustifiedAt, HasAccessCheck

\* A step that leaves the list alone and changes no member keeps the members
\* justified.
LEMMA JustifiedUndisturbed ==
  ASSUME TypeInv, MembershipIsJustified, UNCHANGED m_clients,
         \A c \in Range(m_clients) :
           /\ peer'[c] = peer[c] /\ authType'[c] = authType[c]
           /\ checkedIn'[c] = checkedIn[c]
           /\ c \in answered => c \in answered'
           /\ m_desktopAccessChoices[peer[c]] = "ChoiceAlways" =>
                m_desktopAccessChoices'[peer[c]] = "ChoiceAlways"
  PROVE  MembershipIsJustified'
<1> SUFFICES ASSUME NEW i \in DOMAIN m_clients
             PROVE  JustifiedAt(i)'
  BY DEF MembershipIsJustified, JustifiedAt
<1>1. JustifiedAt(i)
  BY DEF MembershipIsJustified, JustifiedAt
<1>2. i \in Nat \ {0} /\ \A j \in 1..i : j \in DOMAIN m_clients
  BY DEF TypeInv, TypeOK
<1>3. \A j \in 1..i : m_clients[j] \in Range(m_clients)
  BY <1>2 DEF Range
<1> QED
  BY <1>1, <1>2, <1>3, JustifiedKept

\* addClient() admits a client the rules allow given those on the list, or one the
\* user has always admitted.
LEMMA JustifiedAdd ==
  ASSUME TypeInv, MembershipIsJustified, NEW c \in Clients, addClient(c),
         c \notin Range(m_clients), UNCHANGED <<peer, authType, m_desktopAccessChoices>>
  PROVE  MembershipIsJustified'
<1>0. m_clients \in Seq(Clients)
  BY DEF TypeInv, TypeOK
<1>1. checkedIn' = [checkedIn EXCEPT ![c] = session] /\ answered' = answered \ {c}
  BY DEF addClient
<1>2. \A d \in Range(m_clients) :
        checkedIn'[d] = checkedIn[d] /\ (d \in answered => d \in answered')
  BY <1>0, <1>1, RangeIsClients DEF TypeInv, TypeOK
<1>3. CASE AccessResult(c) # "Successful"
  <2>1. UNCHANGED m_clients
    BY <1>3 DEF addClient
  <2> QED
    BY <1>2, <2>1, JustifiedUndisturbed
<1>4. CASE AccessResult(c) = "Successful"
  <2>1. m_clients' = Append(m_clients, c)
    BY <1>4 DEF addClient
  <2>2. PICK n \in Nat :
          /\ DOMAIN m_clients = 1..n /\ DOMAIN m_clients' = 1..(n + 1)
          /\ \A j \in 1..n : m_clients'[j] = m_clients[j]
          /\ m_clients'[n + 1] = c
    BY <1>0, <2>1
  <2>3. ASSUME NEW i \in 1..n
        PROVE  JustifiedAt(i)'
    <3>1. JustifiedAt(i)
      BY <2>2 DEF MembershipIsJustified, JustifiedAt
    <3>2. \A j \in 1..i : j \in DOMAIN m_clients /\ m_clients'[j] = m_clients[j]
      BY <2>2
    <3>3. \A j \in 1..i : m_clients[j] \in Range(m_clients)
      BY <3>2 DEF Range
    <3> QED
      BY <1>2, <2>2, <3>1, <3>2, <3>3, JustifiedKept
  <2>4. JustifiedAt(n + 1)'
    <3>1. UsersBefore(n + 1)' = connectedUsers
      <4>1. \A j \in 1..n : peer'[m_clients'[j]][1] = peer[m_clients[j]][1]
        BY <2>2
      <4>2. UsersBefore(n + 1)' = {peer'[m_clients'[j]][1] : j \in 1..n}
        <5>1. n + 1 - 1 = n
          BY <2>2
        <5> QED
          BY <5>1 DEF UsersBefore
      <4> QED
        BY <2>2, <4>1, <4>2 DEF connectedUsers, usersOf
    <3>2. checkedIn'[c] = session
      BY <1>1 DEF TypeInv, TypeOK
    <3>3. HasAccessCheck(c) => performAccessControl(c) = "Successful"
      BY <1>4 DEF AccessResult, HasAccessCheck
    <3>4. HasAccessCheck(c) => \/ CheckAccess(c) = "Allow"
                               \/ m_desktopAccessChoices[peer[c]] = "ChoiceAlways"
      BY <3>3 DEF performAccessControl, confirmDesktopAccess
    <3>5. CheckAccess(c) = checkAccess(AccessMethods, Rules,
            [ user |-> peer[c][1], computer |-> peer[c][2],
              session |-> session, connected |-> connectedUsers ])
      BY DEF CheckAccess
    <3>6. HasAccessCheck(c)' <=> HasAccessCheck(c)
      BY DEF HasAccessCheck
    <3> QED
      BY <2>2, <3>1, <3>2, <3>4, <3>5, <3>6 DEF JustifiedAt, HasAccessCheck
  <2>5. \A i \in DOMAIN m_clients' : JustifiedAt(i)'
    <3>1. \A i \in 1..(n + 1) : i \in 1..n \/ i = n + 1
      BY <2>2
    <3> QED
      BY <2>2, <2>3, <2>4, <3>1
  <2> QED
    BY <2>5 DEF MembershipIsJustified, JustifiedAt
<1> QED
  BY <1>3, <1>4

\* Whoever an answer admits is recorded as answered, and it never revokes a
\* remembered consent: a client that waits has none.
LEMMA JustifiedFinished ==
  ASSUME TypeInv, MembershipIsJustified, NEW choice,
         finished(choice), UNCHANGED <<peer, authType>>,
         \A c \in Range(listening) : m_desktopAccessChoices[peer[c]] = "ChoiceNone",
         \A c \in Range(m_clients) : authType[c] # "Invalid" => peer[c] \in Peers
  PROVE  MembershipIsJustified'
<1>0. m_clients \in Seq(Clients) /\ listening \in Seq(Clients)
  BY DEF TypeInv, TypeOK
<1>1. ASSUME NEW p \in Peers, m_desktopAccessChoices[p] = "ChoiceAlways"
      PROVE  m_desktopAccessChoices'[p] = "ChoiceAlways"
  BY <1>1 DEF finished
<1>a. UNCHANGED checkedIn /\ answered \subseteq answered'
  BY DEF finished
<1>2. ASSUME NEW i \in DOMAIN m_clients, i \in DOMAIN m_clients',
             \A j \in 1..i : m_clients'[j] = m_clients[j]
      PROVE  JustifiedAt(i)'
  <2>1. JustifiedAt(i)
    BY DEF MembershipIsJustified, JustifiedAt
  <2>2. i \in Nat \ {0}
    BY <1>0
  <2>3. CASE peer[m_clients[i]] \in Peers
    BY <1>1, <1>2, <1>a, <2>1, <2>2, <2>3, JustifiedKept
  <2>4. CASE peer[m_clients[i]] \notin Peers
    <3>1. authType[m_clients[i]] = "Invalid"
      BY <2>4 DEF Range
    <3>2. m_clients'[i] = m_clients[i]
      BY <1>2, <2>2
    <3> QED
      BY <3>1, <3>2 DEF JustifiedAt, HasAccessCheck
  <2> QED
    BY <2>3, <2>4
<1>3. CASE choice \notin Accepting
  <2>1. m_clients' = m_clients
    BY <1>3 DEF finished
  <2>2. \A i \in DOMAIN m_clients' : JustifiedAt(i)'
    BY <1>2, <2>1
  <2> QED
    BY <2>2 DEF MembershipIsJustified, JustifiedAt
<1>4. CASE choice \in Accepting
  <2> DEFINE n == Len(m_clients)
             k == Len(listening)
  <2>1. m_clients' = m_clients \o listening
    BY <1>4 DEF finished
  <2>2. /\ n \in Nat /\ k \in Nat /\ DOMAIN m_clients = 1..n /\ DOMAIN listening = 1..k
        /\ DOMAIN m_clients' = 1..(n + k)
        /\ \A j \in 1..n : m_clients'[j] = m_clients[j]
        /\ \A j \in (n + 1)..(n + k) : m_clients'[j] = listening[j - n]
    BY <1>0, <2>1
  <2> HIDE DEF n, k
  <2>3. ASSUME NEW i \in 1..n
        PROVE  JustifiedAt(i)'
    <3>1. i \in DOMAIN m_clients /\ i \in DOMAIN m_clients'
      BY <2>2
    <3>2. \A j \in 1..i : m_clients'[j] = m_clients[j]
      BY <2>2
    <3> QED
      BY <1>2, <3>1, <3>2
  <2>4. ASSUME NEW i \in (n + 1)..(n + k)
        PROVE  JustifiedAt(i)'
    <3>1. i - n \in DOMAIN listening /\ m_clients'[i] = listening[i - n]
      BY <2>2
    <3>2. m_clients'[i] \in Range(listening)
      BY <3>1 DEF Range
    <3>3. m_clients'[i] \in answered'
      BY <1>4, <3>2 DEF finished
    <3> QED
      BY <3>3 DEF JustifiedAt
  <2>5. \A i \in DOMAIN m_clients' : JustifiedAt(i)'
    <3>1. \A i \in 1..(n + k) : i \in 1..n \/ i \in (n + 1)..(n + k)
      BY <2>2
    <3> QED
      BY <2>2, <2>3, <2>4, <3>1
  <2> QED
    BY <2>5 DEF MembershipIsJustified, JustifiedAt
<1> QED
  BY <1>3, <1>4

\* A client that waits for the dialog has an access check, and so an identity, for
\* which no choice is remembered yet.
MemberInv ==
  /\ \A c \in Range(listening) :
       authType[c] # "Invalid" /\ m_desktopAccessChoices[peer[c]] = "ChoiceNone"
  /\ MembershipIsJustified

LEMMA MemberUndisturbed ==
  ASSUME TypeInv, MemberInv,
         UNCHANGED <<m_clients, listening, m_desktopAccessChoices, checkedIn, answered>>,
         \A c \in Range(m_clients) \cup Range(listening) :
           peer'[c] = peer[c] /\ authType'[c] = authType[c]
  PROVE  MemberInv'
<1>1. MembershipIsJustified'
  BY JustifiedUndisturbed DEF MemberInv
<1> QED
  BY <1>1 DEF MemberInv

LEMMA MemberAdd ==
  ASSUME TypeInv, MemberInv, NEW c \in Clients, addClient(c), c \notin Range(m_clients),
         UNCHANGED <<peer, authType, m_desktopAccessChoices>>
  PROVE  MemberInv'
<1>1. MembershipIsJustified'
  BY JustifiedAdd DEF MemberInv
<1>2. listening \in Seq(Clients)
  BY DEF TypeInv, TypeOK
<1>3. CASE AccessResult(c) = "Pending"
  <2>1. Range(listening') = Range(listening) \cup {c}
    BY <1>2, <1>3, AppendOnce DEF addClient
  <2>2. authType[c] # "Invalid" /\ m_desktopAccessChoices[peer[c]] = "ChoiceNone"
    BY <1>3 DEF AccessResult, HasAccessCheck, performAccessControl, confirmDesktopAccess
  <2> QED
    BY <1>1, <2>1, <2>2 DEF MemberInv
<1>4. CASE AccessResult(c) # "Pending"
  BY <1>1, <1>4 DEF addClient, dialogVars, MemberInv
<1> QED
  BY <1>3, <1>4

LEMMA MemberFinished ==
  ASSUME TypeInv, MemberInv, NEW choice,
         finished(choice), UNCHANGED <<peer, authType>>
  PROVE  MemberInv'
<1>1. Range(m_clients) \subseteq Clients /\ Range(listening) \subseteq Clients
  BY RangeIsClients DEF TypeInv, TypeOK
<1>2. \A c \in Clients : authType[c] # "Invalid" => peer[c] \in Peers
  BY DEF TypeInv, RequestIsNamed
<1>3. MembershipIsJustified'
  BY <1>1, <1>2, JustifiedFinished DEF MemberInv
<1>4. Range(listening') = {}
  BY DEF finished, remainingListeners, Range
<1> QED
  BY <1>3, <1>4 DEF MemberInv

LEMMA MemberStep == TypeInv /\ RosterInv /\ MemberInv /\ [Next]_vars => MemberInv'
<1> SUFFICES ASSUME TypeInv, RosterInv, MemberInv, [Next]_vars
             PROVE  MemberInv'
  OBVIOUS
<1>0. Range(m_clients) \subseteq Clients /\ Range(listening) \subseteq Clients
  BY RangeIsClients DEF TypeInv, TypeOK
<1> DEFINE Undisturbed ==
      /\ UNCHANGED <<m_clients, listening, m_desktopAccessChoices, checkedIn, answered>>
      /\ \A c \in Range(m_clients) \cup Range(listening) :
           peer'[c] = peer[c] /\ authType'[c] = authType[c]
<1>a. Undisturbed => MemberInv'
  BY MemberUndisturbed
<1>1. ASSUME NEW c \in Clients,
             \/ acceptConnection(c) \/ readProtocol(c) \/ receiveSecurityTypeResponse(c)
             \/ rejectHandshake(c) \/ failAuthentication(c) \/ readClose(c)
             \/ setServerInitMessage(c) \/ closeConnection(c) \/ processFramebufferInit(c)
             \/ passAccessControl(c)
      PROVE  Undisturbed
  BY <1>1 DEF acceptConnection, readProtocol, receiveSecurityTypeResponse,
     rejectHandshake, failAuthentication, readClose, setServerInitMessage, closeConnection,
     processFramebufferInit, passAccessControl, clientVars, dialogVars, historyVars,
     unchangedByHandshake
<1>2. ASSUME NEW c \in Clients, NEW type \in supportedAuthTypes, NEW identity \in Peers,
             NEW sent \in BOOLEAN,
             receiveAuthenticationTypeResponse(c, type, identity, sent)
      PROVE  Undisturbed
  <2>1. accessControlState[c] = "Init"
    BY <1>2 DEF receiveAuthenticationTypeResponse, ProtocolStep, RosterInv, Early
  <2>2. c \notin Range(m_clients) /\ c \notin Range(listening)
    BY <2>1 DEF RosterInv
  <2>3. /\ peer' = [peer EXCEPT ![c] = identity] /\ authType' = [authType EXCEPT ![c] = type]
        /\ UNCHANGED <<m_clients, dialogVars, m_desktopAccessChoices, historyVars>>
    BY <1>2 DEF receiveAuthenticationTypeResponse, unchangedByHandshake
  <2> QED
    BY <1>0, <2>2, <2>3 DEF dialogVars, historyVars, TypeInv, TypeOK
<1>3. ASSUME NEW c \in Clients, receiveAuthenticationMessage(c) \/ retryAccessControl(c)
      PROVE  MemberInv'
  <2>1. accessControlState[c] \in {"Init", "Waiting"}
    BY <1>3 DEF receiveAuthenticationMessage, retryAccessControl, RosterInv, Early
  <2>2. c \notin Range(m_clients)
    BY <2>1 DEF RosterInv
  <2> QED
    BY <1>3, <2>2, MemberAdd DEF receiveAuthenticationMessage, retryAccessControl
<1>4. ASSUME NEW c \in Clients, deleteClient(c)
      PROVE  MemberInv'
  <2>1. m_clients' = <<>> /\ listening' = Without(listening, c)
        /\ authType' = [authType EXCEPT ![c] = "Invalid"]
        /\ peer' = [peer EXCEPT ![c] = NoName] /\ UNCHANGED m_desktopAccessChoices
    BY <1>4 DEF deleteClient
  <2>2. Range(listening') = Range(listening) \ {c}
    BY <2>1, WithoutOnce DEF RosterInv, TypeInv, TypeOK
  <2>3. \A d \in Range(listening') : authType'[d] = authType[d] /\ peer'[d] = peer[d]
    BY <1>0, <2>1, <2>2 DEF TypeInv, TypeOK
  <2> QED
    BY <2>1, <2>2, <2>3 DEF MemberInv, MembershipIsJustified
<1>5. ASSUME workerConnected \/ closeWorkerConnection
      PROVE  Undisturbed
  BY <1>5 DEF workerConnected, closeWorkerConnection, clientVars, historyVars
<1>6. ASSUME NEW choice, reportDesktopAccessChoice(choice)
      PROVE  MemberInv'
  BY <1>6, MemberFinished DEF reportDesktopAccessChoice
<1>7. ASSUME abort
      PROVE  MemberInv'
  BY <1>7, MemberFinished DEF abort
<1>8. ASSUME recheckClient
      PROVE  MemberInv'
  <2> DEFINE c == Head(previousClients)
  <2>1. c \in Clients /\ c \in Range(previousClients)
    BY <1>8, TailOnce DEF recheckClient, Idle, TypeInv, TypeOK
  <2>2. addClient(c) /\ UNCHANGED <<peer, authType, m_desktopAccessChoices>>
    BY <1>8 DEF recheckClient
  <2> HIDE DEF c
  <2>3. c \notin Range(m_clients)
    BY <2>1 DEF RosterInv
  <2> QED
    BY <2>1, <2>2, <2>3, MemberAdd
<1>9. ASSUME changeSession \/ UNCHANGED vars
      PROVE  Undisturbed
  BY <1>9 DEF changeSession, vars, clientVars, dialogVars, historyVars
<1> HIDE DEF Undisturbed
<1> QED
  BY <1>a, <1>1, <1>2, <1>3, <1>4, <1>5, <1>6, <1>7, <1>8, <1>9
     DEF Next, ClientStep, DialogStep, reportFromWorker, reportFromClient

\* Every member that needs an access check is on the list because of a consent,
\* remembered or reported since its last check, or because the rules allow it given
\* only the members before it, whatever the rules are and however often the list
\* has been rebuilt.
THEOREM MembershipJustified == Spec => []MembershipIsJustified
<1>1. Init => TypeInv /\ RosterInv /\ MemberInv
  BY TypeInit, RosterInit DEF Init, MemberInv, MembershipIsJustified, Range
<1>2. TypeInv /\ RosterInv /\ MemberInv /\ [Next]_vars => TypeInv' /\ RosterInv' /\ MemberInv'
  BY TypeStep, RosterStep, MemberStep
<1>3. MemberInv => MembershipIsJustified
  BY DEF MemberInv
<1> QED
  BY <1>1, <1>2, <1>3, PTL DEF Spec

=============================================================================
