---------------------------- MODULE DemoServerProofs ----------------------------
(***************************************************************************)
(* Theorems about DemoServer for any number of clients, tiles, changes and *)
(* lost connections and every memory limit: type correctness, that a       *)
(* client that has been sent the queue shows what the queue alone shows,   *)
(* and what the memory limit does to the queue.                            *)
(***************************************************************************)
EXTENDS DemoServer, SequenceTheorems, FiniteSetTheorems, WellFoundedInduction, TLAPS

-----------------------------------------------------------------------------
(* Updates and what they do to a picture                                   *)

LEMMA CopiesAre ==
  ASSUME NEW moved \in SUBSET Tiles, NEW copies \in [moved -> Tiles]
  PROVE  copies \in Copies
  BY DEF Copies

LEMMA ShownIsTiles ==
  ASSUME NEW update \in Update
  PROVE  Shown(update) \subseteq Tiles
<1>1. PICK moved \in SUBSET Tiles : update.copies \in [moved -> Tiles]
  BY DEF Update, Copies
<1> QED
  BY <1>1 DEF Shown, Update

\* Only what an update shows changes with it.
LEMMA ChangedIsTiles ==
  ASSUME NEW updates \in Seq(Update)
  PROVE  Changed(updates) \subseteq Tiles
<1> SUFFICES ASSUME NEW tile \in Changed(updates) PROVE tile \in Tiles
  OBVIOUS
<1>1. PICK i \in 1..Len(updates) : tile \in updates[i].new \cup DOMAIN updates[i].copies
  BY DEF Changed, Range
<1>2. updates[i] \in Update
  OBVIOUS
<1>3. PICK moved \in SUBSET Tiles : updates[i].copies \in [moved -> Tiles]
  BY <1>2 DEF Update, Copies
<1> QED
  BY <1>1, <1>2, <1>3 DEF Update

LEMMA NothingChanged == Changed(<<>>) = {}
  BY DEF Changed, Range

\* What the VNC server sends is an update; a full request is answered with the
\* whole screen.
LEMMA SentUpdate ==
  ASSUME TypeOK, SendUpdate
  PROVE  /\ wire' \in Seq(Update)
         /\ \E update \in Update : /\ wire' = Append(wire, update)
                                   /\ request = "full" => update.drawn = Tiles
<1> SUFFICES \E update \in Update : /\ wire' = Append(wire, update)
                                    /\ request = "full" => update.drawn = Tiles
  BY DEF TypeOK
<1>1. dirty \subseteq Tiles
  BY DEF TypeOK
<1>2. CASE request = "full"
  <2> DEFINE update == [drawn |-> Tiles, new |-> dirty, copies |-> [t \in {} |-> t]]
  <2>1. [t \in {} |-> t] \in Copies
    <3>1. [t \in {} |-> t] \in [{} -> Tiles] /\ {} \in SUBSET Tiles
      OBVIOUS
    <3> QED
      BY <3>1, CopiesAre
  <2>2. update \in Update
    BY <1>1, <2>1 DEF Update
  <2>3. wire' = Append(wire, update)
    BY <1>2 DEF SendUpdate
  <2> QED
    BY <2>2, <2>3
<1>3. CASE request # "full"
  <2>1. PICK moved \in SUBSET dirty : \E copies \in [moved -> Tiles] :
          wire' = Append(wire, [drawn |-> dirty \ moved, new |-> dirty \ moved,
                                copies |-> copies])
    BY <1>3 DEF SendUpdate
  <2>2. PICK copies \in [moved -> Tiles] :
          wire' = Append(wire, [drawn |-> dirty \ moved, new |-> dirty \ moved,
                                copies |-> copies])
    BY <2>1
  <2>3. copies \in Copies
    BY <1>1, CopiesAre
  <2>4. [drawn |-> dirty \ moved, new |-> dirty \ moved, copies |-> copies] \in Update
    BY <1>1, <2>3 DEF Update
  <2> QED
    BY <1>3, <2>2, <2>4
<1> QED
  BY <1>2, <1>3

LEMMA LeastIndex ==
  ASSUME NEW S \in SUBSET Nat, S # {}
  PROVE  \E n \in S : \A k \in S : n <= k
<1>1. PICK n \in S : \A k \in S : <<k, n>> \notin OpToRel(<, Nat)
  BY WFMin, NatLessThanWellFounded, Zenon
<1>2. \A k \in S : ~ (k < n)
  BY <1>1 DEF OpToRel
<1> QED
  BY <1>2

\* The pictures after the first, ..., the last update, as after() defines them.
AreAfter(pictures, picture, updates, first, last) ==
  pictures = [n \in first..last |->
                IF n = first THEN picture ELSE afterUpdate(pictures[n - 1], updates[n])]

LEMMA AfterIsLast ==
  ASSUME NEW picture, NEW updates, NEW first
  PROVE  after(picture, updates, first)
           = (CHOOSE f : AreAfter(f, picture, updates, first, Len(updates)))[Len(updates)]
  BY DEF after, AreAfter

LEMMA AfterUpdateIsTiles ==
  ASSUME NEW picture, NEW update
  PROVE  afterUpdate(picture, update) \in SUBSET Tiles
  BY DEF afterUpdate

\* The more is wrong before an update, the more is wrong after it.
LEMMA AfterUpdateGrows ==
  ASSUME NEW picture, NEW other, picture \subseteq other, NEW update
  PROVE  afterUpdate(picture, update) \subseteq afterUpdate(other, update)
  BY DEF afterUpdate

\* The recursion is defined for every number of updates.
LEMMA PicturesExist ==
  ASSUME NEW updates, NEW first \in Nat, NEW last \in Nat, first <= last,
         NEW picture \in SUBSET Tiles
  PROVE  \E f \in [first..last -> SUBSET Tiles] : AreAfter(f, picture, updates, first, last)
<1> DEFINE Bad == {n \in first..last : ~ \E f \in [first..n -> SUBSET Tiles] :
                                           AreAfter(f, picture, updates, first, n)}
<1>1. Bad \in SUBSET Nat
  OBVIOUS
<1>2. SUFFICES ASSUME Bad # {} PROVE FALSE
  OBVIOUS
<1>3. PICK n \in Bad : \A k \in Bad : n <= k
  <2> HIDE DEF Bad
  <2> QED
    BY <1>1, <1>2, LeastIndex
<1>4. n \in Nat /\ first <= n /\ n <= last
  OBVIOUS
<1>5. n # first
  <2> DEFINE f == [k \in first..first |-> picture]
  <2>1. f \in [first..first -> SUBSET Tiles] /\ AreAfter(f, picture, updates, first, first)
    BY DEF AreAfter
  <2> HIDE DEF f
  <2> QED
    BY <2>1
<1>6. n - 1 \in first..last /\ n - 1 \notin Bad
  <2>1. n - 1 \in first..last /\ ~ (n <= n - 1)
    BY <1>4, <1>5
  <2> HIDE DEF Bad
  <2> QED
    BY <1>3, <2>1
<1>7. PICK f \in [first..(n - 1) -> SUBSET Tiles] :
        AreAfter(f, picture, updates, first, n - 1)
  BY <1>6
<1> DEFINE next == [k \in first..n |-> IF k = n THEN afterUpdate(f[n - 1], updates[n])
                                       ELSE f[k]]
<1>8. \A k \in first..n : k = n \/ k \in first..(n - 1)
  BY <1>4
<1>9. next \in [first..n -> SUBSET Tiles]
  BY <1>8, AfterUpdateIsTiles
<1>10. AreAfter(next, picture, updates, first, n)
  <2>1. \A k \in first..(n - 1) :
          f[k] = IF k = first THEN picture ELSE afterUpdate(f[k - 1], updates[k])
    BY <1>7 DEF AreAfter
  <2>2. \A k \in first..n :
          k # first => k - 1 \in first..(n - 1) /\ k - 1 \in first..n /\ k - 1 # n
    BY <1>4
  <2>3. \A k \in first..n :
          next[k] = IF k = first THEN picture ELSE afterUpdate(next[k - 1], updates[k])
    BY <1>5, <1>8, <2>1, <2>2
  <2>4. next = [k \in first..n |-> next[k]]
    OBVIOUS
  <2> HIDE DEF next
  <2>5. next = [k \in first..n |->
                  IF k = first THEN picture ELSE afterUpdate(next[k - 1], updates[k])]
    BY <2>3, <2>4
  <2> QED
    BY <2>5 DEF AreAfter
<1> HIDE DEF next
<1> QED
  BY <1>9, <1>10

LEMMA AfterIsOneOf ==
  ASSUME NEW updates \in Seq(Update), NEW first \in 0..Len(updates),
         NEW picture \in SUBSET Tiles
  PROVE  \E f : /\ AreAfter(f, picture, updates, first, Len(updates))
                /\ after(picture, updates, first) = f[Len(updates)]
<1>1. \E f : AreAfter(f, picture, updates, first, Len(updates))
  <2>1. first \in Nat /\ Len(updates) \in Nat /\ first <= Len(updates)
    OBVIOUS
  <2> QED
    BY <2>1, PicturesExist
<1>2. AreAfter(CHOOSE f : AreAfter(f, picture, updates, first, Len(updates)),
               picture, updates, first, Len(updates))
  BY <1>1
<1> QED
  BY <1>2, AfterIsLast

\* Two pictures that get the same updates stay comparable.
LEMMA PicturesCompare ==
  ASSUME NEW updates, NEW first \in Nat, NEW other \in Nat, NEW m \in Nat, NEW last \in Nat,
         NEW lastF \in Nat, NEW lastG \in Nat,
         first <= m, other <= m, m <= last, last <= lastF, last <= lastG,
         NEW p, NEW q, NEW f, NEW g,
         AreAfter(f, p, updates, first, lastF), AreAfter(g, q, updates, other, lastG),
         f[m] \subseteq g[m]
  PROVE  f[last] \subseteq g[last]
<1> DEFINE Bad == {k \in m..last : ~ (f[k] \subseteq g[k])}
<1>1. Bad \in SUBSET Nat
  OBVIOUS
<1>2. SUFFICES ASSUME Bad # {} PROVE FALSE
  <2>1. last \in m..last
    OBVIOUS
  <2> QED
    BY <2>1, <1>2
<1>3. PICK k \in Bad : \A j \in Bad : k <= j
  <2> HIDE DEF Bad
  <2> QED
    BY <1>1, <1>2, LeastIndex
<1>4. k \in Nat /\ m <= k /\ k <= last /\ k # m /\ ~ (f[k] \subseteq g[k])
  OBVIOUS
<1>5. k \in first..lastF /\ k \in other..lastG /\ k # first /\ k # other
  BY <1>4
<1>6. f[k] = afterUpdate(f[k - 1], updates[k]) /\ g[k] = afterUpdate(g[k - 1], updates[k])
  BY <1>5 DEF AreAfter
<1>7. k - 1 \in m..last /\ ~ (k <= k - 1)
  BY <1>4
<1>8. f[k - 1] \subseteq g[k - 1]
  BY <1>3, <1>7
<1> QED
  BY <1>4, <1>6, <1>8, AfterUpdateGrows

\* Once the whole screen has been drawn the picture is right and stays so.
LEMMA RightStaysRight ==
  ASSUME NEW updates, NEW last \in Nat \ {0}, NEW p, NEW f,
         AreAfter(f, p, updates, 0, last), updates[1].drawn = Tiles
  PROVE  f[last] = {}
<1> DEFINE Bad == {k \in 1..last : f[k] # {}}
<1>1. Bad \in SUBSET Nat
  OBVIOUS
<1>2. SUFFICES ASSUME Bad # {} PROVE FALSE
  <2>1. last \in 1..last
    OBVIOUS
  <2> QED
    BY <2>1, <1>2
<1>3. PICK k \in Bad : \A j \in Bad : k <= j
  <2> HIDE DEF Bad
  <2> QED
    BY <1>1, <1>2, LeastIndex
<1>4. k \in 0..last /\ k # 0 /\ k \in 1..last /\ f[k] # {}
  OBVIOUS
<1>5. f[k] = afterUpdate(f[k - 1], updates[k])
  BY <1>4 DEF AreAfter
<1>6. CASE k = 1
  BY <1>4, <1>5, <1>6 DEF afterUpdate
<1>7. CASE k # 1
  <2>1. k - 1 \in 1..last /\ ~ (k <= k - 1)
    BY <1>4, <1>7
  <2>2. f[k - 1] = {}
    BY <1>3, <2>1
  <2> QED
    BY <1>4, <1>5, <2>2 DEF afterUpdate
<1> QED
  BY <1>6, <1>7

-----------------------------------------------------------------------------
(* Type correctness                                                        *)

LEMMA TypeInit == Init => TypeOK
<1> SUFFICES ASSUME Init PROVE TypeOK
  OBVIOUS
<1>1. <<>> \in Seq(Update)
  OBVIOUS
<1>2. /\ connection \in [Clients -> {"none", "pending", "handshake", "running"}]
      /\ index \in [Clients -> Nat]
      /\ wrong \in [Clients -> SUBSET Tiles]
  BY DEF Init
<1>3. changes \in 0..MaxChanges /\ breaks \in 0..MaxBreaks
  BY DemoServerAssumption DEF Init
<1> QED
  BY <1>1, <1>2, <1>3 DEF Init, TypeOK

LEMMA AcceptedTypes ==
  ASSUME TypeOK, NEW waiting \in SUBSET Clients, accepted(waiting),
         \A c \in waiting : connection[c] # "running"
  PROVE  /\ connection' \in [Clients -> {"none", "pending", "handshake", "running"}]
         /\ retrying \subseteq {c \in Clients : connection'[c] = "running"}
  BY DEF TypeOK, accepted

LEMMA ClosedTypes ==
  ASSUME TypeOK, NEW gone \in SUBSET Clients, closed(gone)
  PROVE  /\ connection' \in [Clients -> {"none", "pending", "handshake", "running"}]
         /\ current' \subseteq Clients
         /\ index' \in [Clients -> Nat]
         /\ retrying' \subseteq {c \in Clients : connection'[c] = "running"}
         /\ seen' \in [Clients -> Nat]
         /\ wrong' \in [Clients -> SUBSET Tiles]
  BY DEF TypeOK, closed

LEMMA DiffersTypes ==
  ASSUME TypeOK, NEW c \in Clients
  PROVE  Differs(c) \subseteq Tiles
<1>1. Unseen(c) \in Seq(Update)
  <2>1. messages \in Seq(Update) /\ seen[c] + 1 \in Nat \ {0} /\ Len(messages) \in Nat
    BY DEF TypeOK
  <2>2. \A i \in (seen[c] + 1)..Len(messages) : messages[i] \in Update
    BY <2>1
  <2> QED
    BY <2>1, <2>2, SubSeqProperties DEF Unseen
<1>2. wrong[c] \subseteq Tiles
  BY DEF TypeOK
<1> QED
  BY <1>1, <1>2, ChangedIsTiles DEF Differs

\* The picture a client is sent from: what it has been behind by before the place it
\* starts at is wrong as well.
LEMMA StartsFrom ==
  ASSUME TypeOK, NEW c \in Clients
  PROVE  /\ firstUnsent(c) \in 0..Len(messages)
         /\ SubSeq(messages, seen[c] + 1, firstUnsent(c)) \in Seq(Update)
         /\ wrong[c] \cup Changed(SubSeq(messages, seen[c] + 1, firstUnsent(c)))
              \in SUBSET Tiles
<1>1. firstUnsent(c) \in 0..Len(messages)
  BY DEF TypeOK, firstUnsent
<1>2. SubSeq(messages, seen[c] + 1, firstUnsent(c)) \in Seq(Update)
  <2>1. /\ messages \in Seq(Update) /\ seen[c] + 1 \in Nat \ {0}
        /\ firstUnsent(c) \in Nat /\ firstUnsent(c) <= Len(messages)
    BY <1>1 DEF TypeOK
  <2>2. \A i \in (seen[c] + 1)..firstUnsent(c) : messages[i] \in Update
    BY <2>1
  <2> QED
    BY <2>1, <2>2, SubSeqProperties
<1>3. wrong[c] \subseteq Tiles
  BY DEF TypeOK
<1> QED
  BY <1>1, <1>2, <1>3, ChangedIsTiles

LEMMA SendTypes ==
  ASSUME TypeOK, NEW c \in Clients, sendFramebufferUpdate(c)
  PROVE  TypeOK'
<1> DEFINE first == firstUnsent(c)
           picture == wrong[c] \cup Changed(SubSeq(messages, seen[c] + 1, first))
<1>1. first \in 0..Len(messages) /\ picture \in SUBSET Tiles /\ messages \in Seq(Update)
  BY StartsFrom DEF TypeOK
<1>2. /\ connection[c] = "running" /\ UNCHANGED <<vncVars, serverVars, connection, changes, breaks>>
      /\ current' = current \cup {c}
      /\ index' = [index EXCEPT ![c] = Len(messages)]
      /\ seen' = [seen EXCEPT ![c] = Len(messages)]
      /\ wrong' = [wrong EXCEPT ![c] = after(picture, messages, first)]
      /\ retrying' = retrying \cup {c} \/ retrying' = retrying \ {c}
  BY DEF sendFramebufferUpdate, TypeOK
<1> HIDE DEF first, picture
<1>3. after(picture, messages, first) \in SUBSET Tiles
  <2>1. PICK f : /\ AreAfter(f, picture, messages, first, Len(messages))
                 /\ after(picture, messages, first) = f[Len(messages)]
    BY <1>1, AfterIsOneOf
  <2>2. Len(messages) \in first..Len(messages)
    BY <1>1
  <2>3. f[Len(messages)] \in SUBSET Tiles
    BY <1>1, <2>1, <2>2, AfterUpdateIsTiles DEF AreAfter
  <2> QED
    BY <2>1, <2>3
<1>4. index' \in [Clients -> Nat] /\ seen' \in [Clients -> Nat] /\ current' \subseteq Clients
  BY <1>1, <1>2 DEF TypeOK
<1>5. wrong' \in [Clients -> SUBSET Tiles]
  BY <1>2, <1>3 DEF TypeOK
<1>6. retrying' \subseteq {d \in Clients : connection'[d] = "running"}
  BY <1>2 DEF TypeOK
<1> QED
  BY <1>2, <1>4, <1>5, <1>6 DEF TypeOK, vncVars, serverVars

LEMMA TypeStep == TypeOK /\ [Next]_vars => TypeOK'
<1> SUFFICES ASSUME TypeOK, [Next]_vars PROVE TypeOK'
  OBVIOUS
<1> USE DemoServerAssumption
<1>1. CASE ScreenChanges
  BY <1>1 DEF ScreenChanges, TypeOK, serverVars, connectionVars
<1>2. CASE SendUpdate
  <2>1. wire' \in Seq(Update)
    BY <1>2, SentUpdate DEF TypeOK
  <2> QED
    BY <1>2, <2>1 DEF SendUpdate, TypeOK, serverVars, connectionVars
<1>3. CASE startDemoServer
  <2>1. messages' \in Seq(Update)
    BY <1>3 DEF startDemoServer
  <2>2. CASE server' = "up" /\ reconnectToVncServer
    <3>1. wire' \in Seq(Update) /\ dirty' \subseteq Tiles
      BY <2>2 DEF reconnectToVncServer
    <3> QED
      BY <1>3, <2>1, <2>2, <3>1
         DEF startDemoServer, reconnectToVncServer, TypeOK, connectionVars
  <2>3. CASE server' = "failed" /\ UNCHANGED <<vnc, vncVars>>
    BY <1>3, <2>1, <2>3 DEF startDemoServer, TypeOK, vncVars, connectionVars
  <2> QED
    BY <1>3, <2>2, <2>3 DEF startDemoServer
<1>4. CASE stopDemoServer
  <2>1. 0..MaxBreaks \in SUBSET Int /\ breaks' \in 0..MaxBreaks
    BY <1>4 DEF stopDemoServer, TypeOK
  <2>2. closed(Clients)
    BY <1>4 DEF stopDemoServer
  <2> QED
    BY <1>4, <2>1, <2>2, ClosedTypes DEF stopDemoServer, TypeOK
<1>5. CASE disconnected
  BY <1>5 DEF disconnected, reconnectToVncServer, TypeOK, connectionVars
<1>6. CASE start
  BY <1>6, AcceptedTypes DEF start, TypeOK
<1>7. CASE requestFullUpdate
  BY <1>7 DEF requestFullUpdate, TypeOK, connectionVars
<1>8. CASE requestIncrementalUpdate
  BY <1>8 DEF requestIncrementalUpdate, TypeOK, serverVars, connectionVars
<1>9. CASE receiveVncServerMessage
  <2>1. Head(wire) \in Update /\ wire' \in Seq(Update)
    BY <1>9, HeadTailProperties DEF receiveVncServerMessage, TypeOK
  <2>2. messages' \in Seq(Update)
    BY <1>9, <2>1 DEF receiveVncServerMessage, TypeOK, enqueued
  <2>3. current' \subseteq Clients
    BY <1>9 DEF receiveVncServerMessage, TypeOK, stillCurrent
  <2>4. wrong' \in [Clients -> SUBSET Tiles] /\ seen' \in [Clients -> Nat]
    BY <1>9, DiffersTypes DEF receiveVncServerMessage, TypeOK
  <2>5. requestFull' \in BOOLEAN
    BY <1>9, Zenon DEF receiveVncServerMessage, TypeOK
  <2> QED
    BY <1>9, <2>1, <2>2, <2>3, <2>4, <2>5 DEF receiveVncServerMessage, TypeOK
<1>10. ASSUME NEW c \in Clients, Connect(c) PROVE TypeOK'
  <2>1. CASE vnc = "running"
    BY <1>10, <2>1, AcceptedTypes DEF Connect, TypeOK, vncVars, serverVars
  <2>2. CASE vnc # "running"
    BY <1>10, <2>2 DEF Connect, TypeOK, vncVars, serverVars
  <2> QED
    BY <2>1, <2>2
<1>11. ASSUME NEW c \in Clients, handshake(c) PROVE TypeOK'
  BY <1>11 DEF handshake, TypeOK, vncVars, serverVars
<1>12. ASSUME NEW c \in Clients, Disconnect(c) PROVE TypeOK'
  <2>1. breaks' \in 0..MaxBreaks
    BY <1>12 DEF Disconnect, TypeOK
  <2>2. closed({c}) /\ {c} \subseteq Clients
    BY <1>12 DEF Disconnect
  <2> QED
    BY <1>12, <2>1, <2>2, ClosedTypes DEF Disconnect, TypeOK, vncVars, serverVars
<1>13. ASSUME NEW c \in Clients, receiveClientMessage(c) \/ retry(c) PROVE TypeOK'
  BY <1>13, SendTypes DEF receiveClientMessage, retry
<1>14. CASE UNCHANGED vars
  BY <1>14 DEF TypeOK, vars, vncVars, serverVars, connectionVars
<1> QED
  BY <1>1, <1>2, <1>3, <1>4, <1>5, <1>6, <1>7, <1>8, <1>9, <1>10, <1>11, <1>12, <1>13, <1>14
     DEF Next

\* Every variable of the demo server and its connections keeps its type, whatever the
\* numbers of clients and tiles are (DemoServer, DemoServerConnection).
THEOREM TypeCorrect == Spec => []TypeOK
  BY TypeInit, TypeStep, PTL DEF Spec

-----------------------------------------------------------------------------
(* The pictures                                                            *)

\* A client of the current key frame has been sent the updates before its index and
\* shows right what they would show a new client.
ShowsItsPart(c) ==
  /\ index[c] <= Len(messages) /\ seen[c] = index[c]
  /\ \E f : AreAfter(f, Tiles, messages, 0, index[c]) /\ wrong[c] \subseteq f[index[c]]

Pictures ==
  /\ server # "up" => current = {} /\ \A c \in Clients : connection[c] = "none"
  /\ \A c \in Clients \ current : seen[c] = 0
  /\ \A c \in current : ShowsItsPart(c)

LEMMA PicturesInit == Init => Pictures
  BY DEF Init, Pictures

LEMMA ClosedPictures ==
  ASSUME TypeOK, Pictures, NEW gone \in SUBSET Clients, closed(gone), UNCHANGED messages,
         server' = server \/ gone = Clients
  PROVE  Pictures'
<1>1. /\ current' = current \ gone
      /\ \A c \in gone : seen'[c] = 0 /\ connection'[c] = "none"
      /\ \A c \in Clients \ gone : /\ seen'[c] = seen[c] /\ connection'[c] = connection[c]
                                   /\ index'[c] = index[c] /\ wrong'[c] = wrong[c]
  BY DEF TypeOK, closed
<1>2. current \subseteq Clients
  BY DEF TypeOK
<1> QED
  BY <1>1, <1>2 DEF Pictures, ShowsItsPart

\* Sent from the first update on, or from where it is, the client shows right what the
\* whole queue would show.
LEMMA SendPictures ==
  ASSUME TypeOK, Pictures, NEW c \in Clients, sendFramebufferUpdate(c)
  PROVE  Pictures'
<1> DEFINE first == firstUnsent(c)
           skipped == SubSeq(messages, seen[c] + 1, first)
           picture == wrong[c] \cup Changed(skipped)
           last == Len(messages)
<1>1. /\ first \in 0..last /\ picture \in SUBSET Tiles /\ messages \in Seq(Update)
      /\ first \in Nat /\ last \in Nat /\ first <= last
  BY StartsFrom DEF TypeOK
<1>2. /\ connection[c] = "running" /\ UNCHANGED <<messages, connection, server>>
      /\ current' = current \cup {c}
      /\ index' = [index EXCEPT ![c] = last]
      /\ seen' = [seen EXCEPT ![c] = last]
      /\ wrong' = [wrong EXCEPT ![c] = after(picture, messages, first)]
  BY DEF sendFramebufferUpdate, TypeOK, serverVars
<1>3. first # 0 => first = index[c] /\ c \in current /\ seen[c] = index[c] /\ picture = wrong[c]
  <2> SUFFICES ASSUME first # 0
               PROVE  first = index[c] /\ c \in current /\ seen[c] = index[c] /\ picture = wrong[c]
    OBVIOUS
  <2>1. first = index[c] /\ c \in current
    BY DEF firstUnsent
  <2>2. seen[c] = first
    BY <2>1 DEF Pictures, ShowsItsPart
  <2>3. skipped = <<>>
    <3>1. Len(skipped) = 0 /\ skipped \in Seq(Update)
      BY <1>1, <2>2, StartsFrom
    <3> HIDE DEF skipped
    <3> QED
      BY <3>1
  <2> QED
    BY <2>1, <2>2, <2>3, NothingChanged
<1> HIDE DEF first, picture, last, skipped
<1>4. PICK f : /\ AreAfter(f, picture, messages, first, last)
               /\ after(picture, messages, first) = f[last]
  BY <1>1, AfterIsOneOf DEF last
<1>5. PICK g : AreAfter(g, Tiles, messages, 0, last)
  <2>1. 0 \in Nat /\ 0 <= last /\ Tiles \in SUBSET Tiles
    BY <1>1
  <2> QED
    BY <1>1, <2>1, PicturesExist
<1>6. f[first] = picture
  BY <1>1, <1>4 DEF AreAfter
<1>7. picture \subseteq g[first]
  <2>1. CASE first = 0
    BY <1>1, <1>5, <2>1 DEF AreAfter
  <2>2. CASE first # 0
    <3>1. PICK h : AreAfter(h, Tiles, messages, 0, index[c]) /\ wrong[c] \subseteq h[index[c]]
      BY <1>3, <2>2 DEF Pictures, ShowsItsPart
    <3>2. index[c] \in Nat /\ 0 \in Nat /\ 0 <= first /\ first <= index[c] /\ 0 <= 0
      BY <1>1, <1>3, <2>2 DEF TypeOK
    <3>3. h[0] \subseteq g[0]
      BY <1>1, <1>5, <3>1, <3>2 DEF AreAfter
    <3>4. h[first] \subseteq g[first]
      BY <1>1, <1>5, <3>1, <3>2, <3>3, PicturesCompare
    <3> QED
      BY <1>3, <2>2, <3>1, <3>4
  <2> QED
    BY <2>1, <2>2
<1>8. f[last] \subseteq g[last]
  <2>1. first <= first /\ 0 <= first /\ last <= last /\ 0 \in Nat
    BY <1>1
  <2>2. f[first] \subseteq g[first]
    BY <1>6, <1>7
  <2> QED
    BY <1>1, <1>4, <1>5, <2>1, <2>2, PicturesCompare
<1>9. ShowsItsPart(c)'
  <2>1. index'[c] = last /\ seen'[c] = last /\ wrong'[c] = f[last]
    BY <1>2, <1>4 DEF TypeOK
  <2> QED
    BY <1>1, <1>2, <1>5, <1>8, <2>1 DEF ShowsItsPart, last
<1>10. ASSUME NEW d \in Clients, d # c
       PROVE  /\ d \in current' => ShowsItsPart(d)'
              /\ d \notin current' => seen'[d] = 0
  <2>1. index'[d] = index[d] /\ seen'[d] = seen[d] /\ wrong'[d] = wrong[d]
    BY <1>2, <1>10 DEF TypeOK
  <2> QED
    BY <1>2, <1>10, <2>1 DEF Pictures, ShowsItsPart
<1>11. server' = "up"
  BY <1>2 DEF Pictures
<1> QED
  BY <1>2, <1>9, <1>10, <1>11 DEF Pictures, TypeOK

LEMMA ReceivePictures ==
  ASSUME TypeOK, Pictures, receiveVncServerMessage
  PROVE  Pictures'
<1> DEFINE update == Head(wire)
<1>1. /\ server = "up" /\ messages' = enqueued(update) /\ current' = stillCurrent(update)
      /\ IF startsOver(update)
         THEN seen' = [c \in Clients |-> 0] /\ wrong' = [c \in Clients |-> Differs(c)]
         ELSE UNCHANGED <<seen, wrong>>
      /\ UNCHANGED <<server, index>>
  BY DEF receiveVncServerMessage
<1> HIDE DEF update
<1>2. CASE startsOver(update)
  BY <1>1, <1>2 DEF stillCurrent, Pictures
<1>3. CASE ~ startsOver(update)
  <2>1. /\ messages' = Append(messages, update) /\ current' = current
        /\ UNCHANGED <<seen, wrong>>
    BY <1>1, <1>3 DEF enqueued, stillCurrent
  <2>2. /\ Len(messages) \in Nat /\ Len(messages') = Len(messages) + 1
        /\ \A i \in 1..Len(messages) : messages'[i] = messages[i]
    BY <2>1 DEF TypeOK
  <2>3. ASSUME NEW c \in current PROVE ShowsItsPart(c)'
    <3>1. ShowsItsPart(c) /\ index[c] \in Nat
      BY <2>3 DEF Pictures, TypeOK
    <3>2. PICK f : AreAfter(f, Tiles, messages, 0, index[c]) /\ wrong[c] \subseteq f[index[c]]
      BY <3>1 DEF ShowsItsPart
    <3>3. \A n \in 0..index[c] : n # 0 => messages'[n] = messages[n]
      BY <2>2, <3>1 DEF ShowsItsPart
    <3>4. AreAfter(f, Tiles, messages', 0, index[c])
      BY <3>2, <3>3 DEF AreAfter
    <3> QED
      BY <1>1, <2>1, <2>2, <3>1, <3>2, <3>4 DEF ShowsItsPart
  <2> QED
    BY <1>1, <2>1, <2>3 DEF Pictures
<1> QED
  BY <1>2, <1>3

LEMMA PicturesStep == TypeOK /\ Pictures /\ [Next]_vars => Pictures'
<1> SUFFICES ASSUME TypeOK, Pictures, [Next]_vars PROVE Pictures'
  OBVIOUS
<1>1. CASE UNCHANGED <<server, connection, current, index, seen, wrong, messages>>
  BY <1>1 DEF Pictures, ShowsItsPart
<1>2. CASE startDemoServer
  <2>1. current' = {} /\ \A c \in Clients : connection'[c] = "none" /\ seen'[c] = 0
    BY <1>2 DEF startDemoServer, Pictures, connectionVars
  <2> QED
    BY <2>1 DEF Pictures
<1>3. CASE stopDemoServer
  BY <1>3, ClosedPictures DEF stopDemoServer
<1>4. ASSUME NEW c \in Clients, Disconnect(c) PROVE Pictures'
  <2>1. {c} \in SUBSET Clients /\ closed({c}) /\ UNCHANGED <<messages, server>>
    BY <1>4 DEF Disconnect, serverVars
  <2> QED
    BY <2>1, ClosedPictures
<1>5. CASE UNCHANGED <<server, current, index, seen, wrong, messages>> /\ server = "up"
  BY <1>5 DEF Pictures, ShowsItsPart
<1>6. CASE start
  BY <1>5, <1>6 DEF start
<1>7. ASSUME NEW c \in Clients, Connect(c) PROVE Pictures'
  BY <1>5, <1>7 DEF Connect, serverVars
<1>8. ASSUME NEW c \in Clients, handshake(c) PROVE Pictures'
  <2>1. server = "up"
    BY <1>8 DEF handshake, Pictures
  <2> QED
    BY <1>5, <1>8, <2>1 DEF handshake, serverVars
<1>9. ASSUME NEW c \in Clients, receiveClientMessage(c) \/ retry(c) PROVE Pictures'
  BY <1>9, SendPictures DEF receiveClientMessage, retry
<1>10. CASE receiveVncServerMessage
  BY <1>10, ReceivePictures
<1>11. CASE ScreenChanges \/ SendUpdate \/ disconnected \/ requestFullUpdate
            \/ requestIncrementalUpdate
  BY <1>1, <1>11
     DEF ScreenChanges, SendUpdate, disconnected, requestFullUpdate, requestIncrementalUpdate,
         serverVars, connectionVars
<1>12. CASE UNCHANGED vars
  BY <1>1, <1>12 DEF vars, serverVars, connectionVars
<1> QED
  BY <1>2, <1>3, <1>4, <1>6, <1>7, <1>8, <1>9, <1>10, <1>11, <1>12 DEF Next

LEMMA PicturesExact == TypeOK /\ Pictures => PictureIsExact
<1> SUFFICES ASSUME TypeOK, Pictures, NEW c \in Clients, UpToDate(c)
             PROVE  /\ Differs(c) \subseteq after(Tiles, messages, 0)
                    /\ messages # <<>> /\ messages[1].drawn = Tiles => Differs(c) = {}
  BY DEF PictureIsExact
<1> DEFINE last == Len(messages)
<1>1. messages \in Seq(Update) /\ last \in Nat /\ 0 \in 0..last /\ 0 <= last /\ last <= last
  BY DEF TypeOK
<1>2. ShowsItsPart(c) /\ index[c] = last /\ seen[c] = last
  BY DEF UpToDate, Pictures, ShowsItsPart
<1>3. Differs(c) = wrong[c]
  <2>1. Unseen(c) = SubSeq(messages, last + 1, last)
    BY <1>2 DEF Unseen
  <2>2. Len(SubSeq(messages, last + 1, last)) = 0 /\ SubSeq(messages, last + 1, last) \in Seq(Update)
    BY <1>1
  <2>3. Unseen(c) = <<>>
    BY <2>1, <2>2
  <2> QED
    BY <2>3, NothingChanged DEF Differs
<1> HIDE DEF last
<1>4. PICK f : AreAfter(f, Tiles, messages, 0, last) /\ wrong[c] \subseteq f[last]
  BY <1>2 DEF ShowsItsPart
<1>5. PICK g : AreAfter(g, Tiles, messages, 0, last) /\ after(Tiles, messages, 0) = g[last]
  BY <1>1, AfterIsOneOf DEF last
<1>6. f[last] \subseteq g[last]
  <2>1. f[0] \subseteq g[0] /\ 0 \in Nat /\ 0 <= 0
    BY <1>1, <1>4, <1>5 DEF AreAfter
  <2> QED
    BY <1>1, <1>4, <1>5, <2>1, PicturesCompare
<1>7. ASSUME messages # <<>>, messages[1].drawn = Tiles PROVE Differs(c) = {}
  <2>1. last \in Nat \ {0}
    BY <1>1, <1>7 DEF last
  <2>2. f[last] = {}
    BY <1>4, <1>7, <2>1, RightStaysRight
  <2> QED
    BY <1>3, <1>4, <2>2
<1> QED
  BY <1>3, <1>4, <1>5, <1>6, <1>7

\* A client that has been sent the queue shows right what the queue alone shows a new client,
\* copies included, and everything if the queue begins with the whole screen, for every
\* number of clients, every memory limit and however often the queue has been cleared while
\* the client was behind (sendFramebufferUpdate(), enqueueFramebufferUpdateMessage()).
THEOREM PictureExact == Spec => []PictureIsExact
<1>1. Init => TypeOK /\ Pictures
  BY TypeInit, PicturesInit
<1>2. TypeOK /\ Pictures /\ [Next]_vars => TypeOK' /\ Pictures'
  BY TypeStep, PicturesStep
<1> QED
  BY <1>1, <1>2, PicturesExact, PTL DEF Spec

-----------------------------------------------------------------------------
(* The size of the queue                                                   *)

\* The sizes of the first updates, as the recursion in Size() defines them.
AreSizes(size, updates, last) ==
  size = [n \in 0..last |->
            IF n = 0 THEN 0 ELSE size[n - 1] + Cardinality(Shown(updates[n]))]

LEMMA SizeIsLast ==
  ASSUME NEW updates
  PROVE  Size(updates) = (CHOOSE size : AreSizes(size, updates, Len(updates)))[Len(updates)]
  BY DEF Size, AreSizes

LEMMA TilesCounted ==
  ASSUME NEW update \in Update
  PROVE  Cardinality(Shown(update)) \in 0..Width
<1>1. Width \in Nat /\ 1 \in Int /\ Width \in Int
  BY DemoServerAssumption
<1>2. IsFiniteSet(Tiles) /\ Cardinality(Tiles) = Width
  <2>1. IsFiniteSet(1..Width) /\ Cardinality(1..Width) = IF 1 > Width THEN 0 ELSE Width - 1 + 1
    BY <1>1, FS_Interval
  <2> QED
    BY <1>1, <2>1, DemoServerAssumption DEF Tiles
<1>3. Shown(update) \subseteq Tiles
  BY ShownIsTiles
<1>4. Cardinality(Shown(update)) \in Nat /\ Cardinality(Shown(update)) <= Width
  BY <1>2, <1>3, FS_Subset, FS_CardinalityType
<1> QED
  BY <1>1, <1>4

\* The recursion is defined for every number of updates.
LEMMA SizesExist ==
  ASSUME NEW updates \in Seq(Update), NEW last \in 0..Len(updates)
  PROVE  \E size \in [0..last -> Nat] : AreSizes(size, updates, last)
<1> DEFINE Bad == {n \in 0..Len(updates) :
                     ~ \E size \in [0..n -> Nat] : AreSizes(size, updates, n)}
<1>1. Bad \in SUBSET Nat
  OBVIOUS
<1>2. SUFFICES ASSUME Bad # {} PROVE FALSE
  OBVIOUS
<1>3. PICK n \in Bad : \A k \in Bad : n <= k
  <2> HIDE DEF Bad
  <2> QED
    BY <1>1, <1>2, LeastIndex
<1>4. n \in Nat /\ n <= Len(updates) /\ Len(updates) \in Nat
  OBVIOUS
<1>5. n # 0
  <2>1. [k \in 0..0 |-> 0] \in [0..0 -> Nat] /\ AreSizes([k \in 0..0 |-> 0], updates, 0)
    BY DEF AreSizes
  <2> QED
    BY <2>1
<1>6. n - 1 \in 0..Len(updates) /\ n - 1 \notin Bad
  <2>1. n - 1 \in 0..Len(updates) /\ ~ (n <= n - 1)
    BY <1>4, <1>5
  <2> HIDE DEF Bad
  <2> QED
    BY <1>3, <2>1
<1>7. PICK size \in [0..(n - 1) -> Nat] : AreSizes(size, updates, n - 1)
  BY <1>6
<1> DEFINE next == [k \in 0..n |-> IF k = n THEN size[n - 1] + Cardinality(Shown(updates[n]))
                                   ELSE size[k]]
<1>8. Cardinality(Shown(updates[n])) \in Nat /\ size[n - 1] \in Nat
  <2>1. updates[n] \in Update /\ n - 1 \in 0..(n - 1)
    BY <1>4, <1>5
  <2>2. Cardinality(Shown(updates[n])) \in 0..Width
    BY <2>1, TilesCounted
  <2> QED
    BY <2>1, <2>2, DemoServerAssumption
<1>9. \A k \in 0..n : k = n \/ k \in 0..(n - 1)
  BY <1>4
<1>10. next \in [0..n -> Nat]
  BY <1>8, <1>9
<1>11. AreSizes(next, updates, n)
  <2>1. \A k \in 0..(n - 1) :
          size[k] = IF k = 0 THEN 0 ELSE size[k - 1] + Cardinality(Shown(updates[k]))
    BY <1>7 DEF AreSizes
  <2>2. \A k \in 0..n : k # 0 => k - 1 \in 0..(n - 1) /\ k - 1 \in 0..n /\ k - 1 # n
    BY <1>4
  <2>3. \A k \in 0..n :
          next[k] = IF k = 0 THEN 0 ELSE next[k - 1] + Cardinality(Shown(updates[k]))
    BY <1>5, <1>9, <2>1, <2>2
  <2>4. next = [k \in 0..n |-> next[k]]
    OBVIOUS
  <2> HIDE DEF next
  <2>5. next = [k \in 0..n |->
                  IF k = 0 THEN 0 ELSE next[k - 1] + Cardinality(Shown(updates[k]))]
    BY <2>3, <2>4
  <2> QED
    BY <2>5 DEF AreSizes
<1> HIDE DEF next
<1> QED
  BY <1>10, <1>11

\* Updates that agree have the same sizes.
LEMMA SizesAgree ==
  ASSUME NEW u \in Seq(Update), NEW v \in Seq(Update), NEW m \in 0..Len(u), NEW n \in 0..Len(v),
         m <= n, \A i \in 1..m : u[i] = v[i],
         NEW f, NEW g, AreSizes(f, u, m), AreSizes(g, v, n)
  PROVE  f[m] = g[m]
<1> DEFINE Bad == {k \in 0..m : f[k] # g[k]}
<1>1. Bad \in SUBSET Nat
  OBVIOUS
<1>2. SUFFICES ASSUME Bad # {} PROVE FALSE
  <2>1. m \in 0..m
    OBVIOUS
  <2> QED
    BY <2>1, <1>2
<1>3. PICK k \in Bad : \A j \in Bad : k <= j
  <2> HIDE DEF Bad
  <2> QED
    BY <1>1, <1>2, LeastIndex
<1>4. k \in 0..m /\ k \in 0..n /\ m \in Nat /\ n \in Nat
  OBVIOUS
<1>5. /\ f[k] = IF k = 0 THEN 0 ELSE f[k - 1] + Cardinality(Shown(u[k]))
      /\ g[k] = IF k = 0 THEN 0 ELSE g[k - 1] + Cardinality(Shown(v[k]))
  BY <1>4 DEF AreSizes
<1>6. k # 0 /\ f[k] # g[k]
  BY <1>5
<1>7. k \in 1..m /\ k - 1 \in 0..m /\ ~ (k <= k - 1)
  BY <1>4, <1>6
<1>8. f[k - 1] = g[k - 1]
  BY <1>3, <1>7
<1>9. f[k] = g[k]
  BY <1>5, <1>6, <1>7, <1>8
<1> QED
  BY <1>6, <1>9

LEMMA SizeIsOneOf ==
  ASSUME NEW updates \in Seq(Update)
  PROVE  \E size : AreSizes(size, updates, Len(updates)) /\ Size(updates) = size[Len(updates)]
<1>1. \E size : AreSizes(size, updates, Len(updates))
  <2>1. Len(updates) \in 0..Len(updates)
    OBVIOUS
  <2> QED
    BY <2>1, SizesExist
<1>2. AreSizes(CHOOSE size : AreSizes(size, updates, Len(updates)), updates, Len(updates))
  BY <1>1
<1> QED
  BY <1>2, SizeIsLast

LEMMA SizeIsNat ==
  ASSUME NEW updates \in Seq(Update)
  PROVE  Size(updates) \in Nat
<1>1. Len(updates) \in 0..Len(updates)
  OBVIOUS
<1>2. PICK f \in [0..Len(updates) -> Nat] : AreSizes(f, updates, Len(updates))
  BY <1>1, SizesExist
<1>3. PICK g : AreSizes(g, updates, Len(updates)) /\ Size(updates) = g[Len(updates)]
  BY SizeIsOneOf
<1>4. g[Len(updates)] = f[Len(updates)]
  BY <1>1, <1>2, <1>3, SizesAgree
<1> QED
  BY <1>1, <1>2, <1>3, <1>4

LEMMA SizeOfNone == Size(<<>>) = 0
<1>1. <<>> \in Seq(Update) /\ Len(<<>>) = 0 /\ 0 \in 0..0
  OBVIOUS
<1>2. PICK g : AreSizes(g, <<>>, 0) /\ Size(<<>>) = g[0]
  BY <1>1, SizeIsOneOf
<1> QED
  BY <1>1, <1>2 DEF AreSizes

\* An update makes the queue longer by its own size (framebufferUpdateMessageQueueSize()).
LEMMA SizeOfAppend ==
  ASSUME NEW updates \in Seq(Update), NEW update \in Update
  PROVE  Size(Append(updates, update)) = Size(updates) + Cardinality(Shown(update))
<1> DEFINE n == Len(updates)
           v == Append(updates, update)
<1>1. /\ n \in Nat /\ v \in Seq(Update) /\ Len(v) = n + 1 /\ v[n + 1] = update
      /\ \A i \in 1..n : updates[i] = v[i]
  OBVIOUS
<1> HIDE DEF v
<1>2. PICK f : AreSizes(f, updates, n) /\ Size(updates) = f[n]
  BY SizeIsOneOf
<1>3. PICK g : AreSizes(g, v, n + 1) /\ Size(v) = g[n + 1]
  BY <1>1, SizeIsOneOf
<1> HIDE DEF n
<1>4. n \in 0..Len(updates) /\ n + 1 \in 0..Len(v) /\ n <= n + 1
  BY <1>1 DEF n
<1>5. f[n] = g[n]
  BY <1>1, <1>2, <1>3, <1>4, SizesAgree
<1>6. g[n + 1] = g[n] + Cardinality(Shown(update))
  <2>1. n + 1 \in 0..(n + 1) /\ n + 1 # 0 /\ (n + 1) - 1 = n
    BY <1>1
  <2>2. g[n + 1] = IF n + 1 = 0 THEN 0 ELSE g[(n + 1) - 1] + Cardinality(Shown(v[n + 1]))
    BY <1>3, <2>1 DEF AreSizes
  <2> QED
    BY <1>1, <2>1, <2>2
<1> QED
  BY <1>2, <1>3, <1>5, <1>6 DEF v

-----------------------------------------------------------------------------
(* The memory limit                                                        *)

\* The queue never gets larger than twice the limit and one more update of the screen.
QueueIsBounded == Size(messages) <= 2 * MemoryLimit + Width

FullUpdateComes ==
  \/ requestFull \/ request = "full"
  \/ \E i \in 1..Len(wire) : isFullUpdate(wire[i])

\* A queue that has lost its full update, or has grown beyond the limit, gets a new one.
KeyFrameComes ==
  server = "up" /\ vnc = "running" =>
    \/ messages # <<>> /\ isFullUpdate(messages[1]) /\ Size(messages) <= MemoryLimit
    \/ FullUpdateComes

LimitInv == QueueIsBounded /\ KeyFrameComes

LEMMA ReceiveKeepsLimit ==
  ASSUME TypeOK, LimitInv, receiveVncServerMessage
  PROVE  LimitInv'
<1> DEFINE update == Head(wire)
<1>1. /\ server = "up" /\ vnc = "running" /\ wire # <<>> /\ wire' = Tail(wire)
      /\ messages' = enqueued(update)
      /\ requestFull' = (requestFull \/ Size(messages') > MemoryLimit)
      /\ UNCHANGED <<request, server, vnc>>
  BY DEF receiveVncServerMessage
<1>2. /\ wire \in Seq(Update) /\ update = wire[1] /\ update \in Update /\ Len(wire) \in Nat
      /\ \A i \in 1..(Len(wire) - 1) : wire'[i] = wire[i + 1]
      /\ Len(wire') = Len(wire) - 1
      /\ messages \in Seq(Update)
  BY <1>1 DEF TypeOK
<1> HIDE DEF update
<1>3. MemoryLimit \in Nat /\ Width \in Nat /\ Cardinality(Shown(update)) \in 0..Width
  BY <1>2, DemoServerAssumption, TilesCounted
<1>4. Size(messages) \in Nat
  BY <1>2, SizeIsNat
<1>5. Size(<<update>>) = Cardinality(Shown(update))
  <2>1. <<>> \in Seq(Update) /\ Append(<<>>, update) = <<update>>
    BY <1>2
  <2>2. Size(Append(<<>>, update)) = Size(<<>>) + Cardinality(Shown(update))
    BY <1>2, <2>1, SizeOfAppend
  <2> QED
    BY <1>3, <2>1, <2>2, SizeOfNone
<1>6. Size(Append(messages, update)) = Size(messages) + Cardinality(Shown(update))
  BY <1>2, SizeOfAppend
<1>7. Size(messages') \in Nat /\ QueueIsBounded'
  <2>1. CASE messages' = <<update>>
    BY <1>3, <1>5, <2>1 DEF QueueIsBounded
  <2>2. CASE messages' = Append(messages, update) /\ ~ overflows
    BY <1>3, <1>4, <1>6, <2>2 DEF QueueIsBounded, overflows
  <2> QED
    BY <1>1, <2>1, <2>2 DEF enqueued, startsOver
<1>8. KeyFrameComes'
  <2>1. SUFFICES ASSUME ~ requestFull', request # "full"
                 PROVE  \/ /\ messages' # <<>> /\ isFullUpdate(messages'[1])
                           /\ Size(messages') <= MemoryLimit
                        \/ \E i \in 1..Len(wire') : isFullUpdate(wire'[i])
    BY <1>1 DEF KeyFrameComes, FullUpdateComes
  <2>2. Size(messages') <= MemoryLimit /\ ~ requestFull
    <3>1. ~ (requestFull \/ Size(messages') > MemoryLimit)
      BY <1>1, <2>1, Zenon
    <3> QED
      BY <1>3, <1>7, <3>1
  <2>3. CASE isFullUpdate(update)
    <3>1. messages' = <<update>>
      BY <1>1, <2>3 DEF enqueued, startsOver
    <3> QED
      BY <2>2, <2>3, <3>1
  <2>4. CASE ~ isFullUpdate(update) /\ \E i \in 1..Len(wire) : isFullUpdate(wire[i])
    <3>1. PICK i \in 1..Len(wire) : isFullUpdate(wire[i])
      BY <2>4
    <3>2. i # 1
      BY <1>2, <2>4, <3>1
    <3>3. i - 1 \in 1..(Len(wire) - 1) /\ (i - 1) + 1 = i
      BY <1>2, <3>2
    <3>4. wire'[i - 1] = wire[i]
      BY <1>2, <3>3
    <3> QED
      BY <1>2, <3>1, <3>3, <3>4
  <2>5. CASE ~ isFullUpdate(update) /\ ~ \E i \in 1..Len(wire) : isFullUpdate(wire[i])
    <3>1. messages # <<>> /\ isFullUpdate(messages[1]) /\ Size(messages) <= MemoryLimit
      BY <1>1, <2>1, <2>2, <2>5 DEF LimitInv, KeyFrameComes, FullUpdateComes
    <3>2. ~ overflows
      BY <1>3, <1>4, <3>1 DEF overflows
    <3>3. messages' = Append(messages, update)
      BY <1>1, <2>5, <3>2 DEF enqueued, startsOver
    <3>4. messages' # <<>> /\ messages'[1] = messages[1]
      BY <1>2, <3>1, <3>3
    <3> QED
      BY <2>2, <3>1, <3>4
  <2> QED
    BY <2>3, <2>4, <2>5
<1> QED
  BY <1>7, <1>8 DEF LimitInv

LEMMA LimitStep == TypeOK /\ LimitInv /\ [Next]_vars => LimitInv'
<1> SUFFICES ASSUME TypeOK, LimitInv, [Next]_vars PROVE LimitInv'
  OBVIOUS
<1>1. ASSUME messages' = messages PROVE QueueIsBounded'
  BY <1>1 DEF LimitInv, QueueIsBounded
<1>2. CASE SendUpdate
  <2>1. PICK update \in Update : /\ wire' = Append(wire, update)
                                 /\ request = "full" => update.drawn = Tiles
    BY <1>2, SentUpdate
  <2>2. request = "full" => isFullUpdate(update)
    <3>1. 1 \in Tiles /\ Width \in Tiles
      BY DemoServerAssumption DEF Tiles
    <3> QED
      BY <2>1, <3>1 DEF isFullUpdate, Shown
  <2>a. wire \in Seq(Update)
    BY DEF TypeOK
  <2>3. /\ Len(wire) \in Nat /\ Len(wire') = Len(wire) + 1 /\ wire'[Len(wire) + 1] = update
        /\ \A i \in 1..Len(wire) : wire'[i] = wire[i]
    BY <2>1
  <2>4. FullUpdateComes => FullUpdateComes'
    <3>1. CASE requestFull
      BY <1>2, <3>1 DEF SendUpdate, serverVars, FullUpdateComes
    <3>2. CASE request = "full"
      <4>1. Len(wire) + 1 \in 1..Len(wire')
        BY <2>3
      <4> QED
        BY <2>2, <2>3, <3>2, <4>1 DEF FullUpdateComes
    <3>3. ASSUME NEW i \in 1..Len(wire), isFullUpdate(wire[i])
          PROVE  FullUpdateComes'
      <4>1. i \in 1..Len(wire')
        BY <2>3
      <4> QED
        BY <2>3, <3>3, <4>1 DEF FullUpdateComes
    <3> QED
      BY <3>1, <3>2, <3>3 DEF FullUpdateComes
  <2> QED
    BY <1>1, <1>2, <2>4 DEF SendUpdate, serverVars, LimitInv, KeyFrameComes
<1>3. CASE startDemoServer
  <2>1. Size(messages') = 0
    BY <1>3, SizeOfNone DEF startDemoServer
  <2>2. QueueIsBounded'
    BY <2>1, DemoServerAssumption DEF QueueIsBounded
  <2> QED
    BY <1>3, <2>2 DEF startDemoServer, reconnectToVncServer, LimitInv, KeyFrameComes
<1>4. CASE stopDemoServer \/ disconnected
  BY <1>1, <1>4 DEF stopDemoServer, disconnected, reconnectToVncServer, LimitInv, KeyFrameComes
<1>5. CASE start \/ requestFullUpdate
  BY <1>1, <1>5 DEF start, requestFullUpdate, LimitInv, KeyFrameComes, FullUpdateComes
<1>6. CASE requestIncrementalUpdate
  BY <1>1, <1>6 DEF requestIncrementalUpdate, serverVars, LimitInv, KeyFrameComes, FullUpdateComes
<1>7. CASE receiveVncServerMessage
  BY <1>7, ReceiveKeepsLimit
<1>8. CASE UNCHANGED <<request, wire, server, vnc, requestFull, messages>>
  BY <1>1, <1>8 DEF LimitInv, KeyFrameComes, FullUpdateComes
<1> QED
  BY <1>2, <1>3, <1>4, <1>5, <1>6, <1>7, <1>8
     DEF Next, ScreenChanges, Connect, handshake, Disconnect, receiveClientMessage, retry,
         sendFramebufferUpdate, vars, vncVars, serverVars

LEMMA LimitHolds == Spec => [](TypeOK /\ LimitInv)
<1>1. Init => LimitInv
  BY SizeOfNone, DemoServerAssumption DEF Init, LimitInv, QueueIsBounded, KeyFrameComes
<1> QED
  BY <1>1, TypeInit, TypeStep, LimitStep, PTL DEF Spec

\* Whatever the clients ask for and however fast the screen changes, the queue takes no more
\* than twice the memory limit and one screen (enqueueFramebufferUpdateMessage()).
THEOREM QueueBounded == Spec => []QueueIsBounded
<1>1. TypeOK /\ LimitInv => QueueIsBounded
  BY DEF LimitInv
<1> QED
  BY <1>1, LimitHolds, PTL

\* When the queue has been cleared at the limit, or has grown beyond it, a full update has
\* been requested or is on its way, and no connection, key frame or update in between makes
\* the demo server forget it (m_requestFullFramebufferUpdate, requestFramebufferUpdate()).
\* PictureCatchesUp rests on it.
THEOREM KeyFrameKept == Spec => []KeyFrameComes
<1>1. TypeOK /\ LimitInv => KeyFrameComes
  BY DEF LimitInv
<1> QED
  BY <1>1, LimitHolds, PTL

=============================================================================
